--------------------------- MODULE Sources_proofs ---------------------------
(***************************************************************************)
(* What is proved of the parts that rate sources: a source that keeps      *)
(* failing is left out, and none is but by its circuit (SourceManager), a  *)
(* host is flagged as throttled exactly when it was slow often enough      *)
(* (CdnThrottle), and a throttled controller does not grow                 *)
(* (ConnectionController). The three share no state.                       *)
(***************************************************************************)
EXTENDS SourceManager, CdnThrottle, ConnectionController, TLAPS

-----------------------------------------------------------------------------
(* The circuits of the source manager                                      *)

Rating == [weight : Nat, fails : Nat, open : BOOLEAN]

Agrees(r) == (r.open <=> r.fails >= OpensAt) /\ (r.open <=> r.weight = 0)

\* Not one entry disagrees, and those that close circuits leave a weight.
RatedInv ==
    /\ rated = [s \in DOMAIN rated |-> rated[s]]
    /\ \A s \in DOMAIN rated : rated[s] \in Rating /\ Agrees(rated[s])

\* register_source stores an entry that agrees.
LEMMA RegisteredAgrees == Registered \in Rating /\ Agrees(Registered)
BY SourceManagerAssumption DEF Registered, Rating, Agrees

\* What a failed chunk makes of an entry agrees, also of a default one, whose
\* weight of 0 does not come from a circuit.
LEMMA FailureAgrees ==
    ASSUME NEW r \in Rating, Agrees(r) \/ r = Defaulted
    PROVE  AfterChunkFailure(r) \in Rating /\ Agrees(AfterChunkFailure(r))
<1> DEFINE n == OneMore(r.fails)
<1>1. n \in Nat /\ r.weight \in Nat /\ r.open \in BOOLEAN
    BY SourceManagerAssumption DEF Rating, OneMore
<1>2. Halved(r.weight) \in Nat /\ Halved(r.weight) > 0
    BY <1>1 DEF Halved
<1>3. CASE n >= OpensAt
    <2>1. AfterChunkFailure(r) = [weight |-> 0, fails |-> n, open |-> TRUE]
        BY <1>3 DEF AfterChunkFailure
    <2>. QED BY <2>1, <1>1, <1>3 DEF Rating, Agrees
<1>4. CASE ~(n >= OpensAt)
    <2>1. AfterChunkFailure(r) = [weight |-> Halved(r.weight), fails |-> n, open |-> r.open]
        BY <1>4 DEF AfterChunkFailure, Rating
    <2>2. ~r.open
        BY <1>1, <1>4, SourceManagerAssumption DEF Agrees, Defaulted, Rating, OneMore
    <2>. QED BY <2>1, <2>2, <1>1, <1>2, <1>4 DEF Rating, Agrees
<1>. QED BY <1>3, <1>4

\* So does what a completed chunk makes of it.
LEMMA CompletionAgrees ==
    ASSUME NEW r \in Rating, Agrees(r) \/ r = Defaulted, NEW w \in 1 .. MaxWeight
    PROVE  LET e == IF r.open THEN [weight |-> w, fails |-> 0, open |-> FALSE]
                    ELSE [r EXCEPT !.weight = w]
           IN  e \in Rating /\ Agrees(e)
<1>1. w \in Nat /\ w > 0
    BY SourceManagerAssumption
<1>2. CASE r.open
    BY <1>1, <1>2, SourceManagerAssumption DEF Rating, Agrees
<1>3. CASE ~r.open
    <2>1. [r EXCEPT !.weight = w] = [weight |-> w, fails |-> r.fails, open |-> r.open]
        BY DEF Rating
    <2>2. r.fails \in Nat /\ ~(r.fails >= OpensAt)
        BY <1>3, SourceManagerAssumption DEF Rating, Agrees, Defaulted
    <2>. QED BY <1>1, <1>3, <2>1, <2>2 DEF Rating, Agrees
<1>. QED BY <1>2, <1>3

\* An entry that is reported on is a stored one or the default.
LEMMA EntryKnown ==
    ASSUME RatedInv, NEW s
    PROVE  Entry(s) \in Rating /\ (Agrees(Entry(s)) \/ Entry(s) = Defaulted)
<1>1. Defaulted \in Rating
    BY DEF Defaulted, Rating
<1>. QED BY <1>1 DEF RatedInv, Entry, Known

\* Storing an entry that agrees keeps the invariant.
LEMMA RateKeeps ==
    ASSUME RatedInv, NEW s, NEW r \in Rating, Agrees(r), Rate(s, r)
    PROVE  RatedInv'
<1>1. rated' = [o \in DOMAIN rated \union {s} |-> IF o = s THEN r ELSE rated[o]]
    BY DEF Rate
<1>2. DOMAIN rated' = DOMAIN rated \union {s}
    BY <1>1
<1>3. \A o \in DOMAIN rated' : rated'[o] \in Rating /\ Agrees(rated'[o])
    BY <1>1, <1>2 DEF RatedInv
<1>. QED BY <1>1, <1>2, <1>3 DEF RatedInv, Agrees

\* No step makes an entry disagree.
LEMMA RatedStep == RatedInv /\ [SourceManagerNext]_sourceManagerVars => RatedInv'
<1> SUFFICES ASSUME RatedInv, [SourceManagerNext]_sourceManagerVars PROVE RatedInv'
    OBVIOUS
<1>1. ASSUME NEW s \in Origin, RegisterSource(s) PROVE RatedInv'
    BY <1>1, RegisteredAgrees, RateKeeps DEF RegisterSource
<1>2. ASSUME NEW s \in Origin, ChunkCompletes(s) PROVE RatedInv'
    <2>1. PICK w \in 1 .. MaxWeight :
            Rate(s, IF Entry(s).open THEN [weight |-> w, fails |-> 0, open |-> FALSE]
                    ELSE [Entry(s) EXCEPT !.weight = w])
        BY <1>2 DEF ChunkCompletes
    <2>. QED BY <2>1, EntryKnown, CompletionAgrees, RateKeeps
<1>3. ASSUME NEW s \in Origin, ChunkFails(s) PROVE RatedInv'
    BY <1>3, EntryKnown, FailureAgrees, RateKeeps DEF ChunkFails
<1>4. ASSUME NEW given \in SUBSET Origin, PickSource(given) PROVE RatedInv'
    BY <1>4 DEF PickSource, RatedInv, Agrees
<1>5. CASE TickBreakers
    <2>1. rated' = [s \in DOMAIN rated |-> IF rated[s].open THEN Registered ELSE rated[s]]
        BY <1>5 DEF TickBreakers
    <2>. QED BY <2>1, RegisteredAgrees DEF RatedInv, Agrees
<1>6. CASE UNCHANGED sourceManagerVars
    BY <1>6 DEF sourceManagerVars, RatedInv, Agrees
<1>. QED BY <1>1, <1>2, <1>3, <1>4, <1>5, <1>6 DEF SourceManagerNext

\* fail_count, which a success on a closed circuit does not reset, never falls
\* behind the failures in a row.
RowInv ==
    /\ inRow \in [Origin -> Nat]
    /\ \A s \in Origin : inRow[s] <= Entry(s).fails

\* What is stored for one source is what its next report finds, and the others
\* are found as before.
LEMMA RateStores ==
    ASSUME NEW s, NEW r, Rate(s, r), NEW o
    PROVE  Entry(o)' = IF o = s THEN r ELSE Entry(o)
BY DEF Rate, Entry, Known, Defaulted

\* Every step that raises the one raises the other.
LEMMA RowStep == RatedInv /\ RowInv /\ [SourceManagerNext]_sourceManagerVars => RowInv'
<1> SUFFICES ASSUME RatedInv, RowInv, [SourceManagerNext]_sourceManagerVars PROVE RowInv'
    OBVIOUS
<1>0. OpensAt \in Nat /\ \A s \in Origin : Entry(s).fails \in Nat /\ inRow[s] \in Nat
    BY EntryKnown, SourceManagerAssumption DEF Rating, RowInv
<1>1. ASSUME NEW s \in Origin, RegisterSource(s) PROVE RowInv'
    <2>1. Entry(s).fails = 0 /\ Registered.fails = 0
        BY <1>1 DEF RegisterSource, Entry, Defaulted, Registered
    <2>. QED BY <1>0, <1>1, <2>1, RateStores DEF RegisterSource, RowInv
<1>2. ASSUME NEW s \in Origin, ChunkCompletes(s) PROVE RowInv'
    <2>1. PICK w \in 1 .. MaxWeight :
            Rate(s, IF Entry(s).open THEN [weight |-> w, fails |-> 0, open |-> FALSE]
                    ELSE [Entry(s) EXCEPT !.weight = w])
        BY <1>2 DEF ChunkCompletes
    <2>2. Entry(s)'.fails \in Nat
        BY <1>0, <2>1, RateStores, EntryKnown DEF Rating
    <2>3. inRow' = [inRow EXCEPT ![s] = 0]
        BY <1>2 DEF ChunkCompletes
    <2>4. \A o \in Origin \ {s} : Entry(o)' = Entry(o)
        BY <2>1, RateStores
    <2>. QED BY <1>0, <2>2, <2>3, <2>4 DEF RowInv
<1>3. ASSUME NEW s \in Origin, ChunkFails(s) PROVE RowInv'
    <2>1. Rate(s, AfterChunkFailure(Entry(s))) /\ inRow' = [inRow EXCEPT ![s] = OneMore(@)]
        BY <1>3 DEF ChunkFails
    <2>2. AfterChunkFailure(Entry(s)).fails = OneMore(Entry(s).fails)
        BY EntryKnown DEF AfterChunkFailure, Rating
    <2>3. Entry(s)'.fails = OneMore(Entry(s).fails) /\ \A o \in Origin \ {s} : Entry(o)' = Entry(o)
        BY <2>1, <2>2, RateStores
    <2>. QED BY <1>0, <2>1, <2>3 DEF RowInv, OneMore
<1>4. ASSUME NEW given \in SUBSET Origin, PickSource(given) PROVE RowInv'
    BY <1>4 DEF PickSource, RowInv, Entry, Known
<1>5. CASE TickBreakers
    <2>1. /\ rated' = [s \in DOMAIN rated |-> IF rated[s].open THEN Registered ELSE rated[s]]
          /\ inRow' = [s \in Origin |-> IF Entry(s).open THEN 0 ELSE inRow[s]]
        BY <1>5 DEF TickBreakers
    <2>2. \A s \in Origin : Entry(s)' = IF Entry(s).open THEN Registered ELSE Entry(s)
        BY <2>1 DEF Entry, Known, Defaulted
    <2>3. Registered.fails = 0
        BY DEF Registered
    <2>. QED BY <1>0, <2>1, <2>2, <2>3 DEF RowInv
<1>6. CASE UNCHANGED sourceManagerVars
    BY <1>6 DEF sourceManagerVars, RowInv, Entry, Known
<1>. QED BY <1>1, <1>2, <1>3, <1>4, <1>5, <1>6 DEF SourceManagerNext

\* However late the reports on chunks come, a source that fails
\* circuit_breaker_threshold times in a row is left out by pick_source, and what
\* is left out has its circuit open (source_manager.rs:52, :119).
THEOREM FailingSourcesAreLeftOut == SourceManagerSpec => []FailingSourceIsLeftOut
<1>1. SourceManagerInit => RatedInv /\ RowInv
    BY DEF SourceManagerInit, RatedInv, RowInv, Entry, Known, Defaulted
<1>2. ASSUME RatedInv, RowInv, NEW s \in Origin
      PROVE  /\ inRow[s] >= OpensAt => s \notin Candidates(Origin)
             /\ s \notin Candidates(Origin) => rated[s].open
    <2>1. OpensAt \in Nat \ {0} /\ inRow[s] \in Nat /\ inRow[s] <= Entry(s).fails
        BY <1>2, SourceManagerAssumption DEF RowInv
    <2>2. ASSUME inRow[s] >= OpensAt PROVE s \notin Candidates(Origin)
        <3>1. Entry(s).fails >= OpensAt /\ Entry(s).fails # 0
            BY <1>2, <2>1, <2>2, EntryKnown DEF Rating
        <3>2. Known(s) /\ rated[s].open
            BY <1>2, <3>1 DEF Entry, Defaulted, RatedInv, Agrees, Known
        <3>. QED BY <3>2 DEF Candidates
    <2>3. ASSUME s \notin Candidates(Origin) PROVE rated[s].open
        <3>1. Known(s) /\ (rated[s].open \/ ~(rated[s].weight > 0))
            BY <2>3 DEF Candidates
        <3>. QED BY <1>2, <3>1 DEF RatedInv, Rating, Agrees, Known
    <2>. QED BY <2>2, <2>3
<1>3. RatedInv /\ RowInv => FailingSourceIsLeftOut
    BY <1>2 DEF FailingSourceIsLeftOut
<1>. QED BY <1>1, <1>3, RatedStep, RowStep, PTL DEF SourceManagerSpec

-----------------------------------------------------------------------------
(* The flags of the throttle detector                                      *)

State == [speed : HostSpeed, slow : Nat, throttled : BOOLEAN, probe : {"never", "due", "recent"}]

Flagged(r) == r.throttled <=> r.slow >= SlowLimit

HostsInv ==
    /\ hosts = [h \in DOMAIN hosts |-> hosts[h]]
    /\ \A h \in DOMAIN hosts : hosts[h] \in State /\ Flagged(hosts[h])
    /\ (\E h \in DOMAIN hosts : hosts[h].throttled) => anyThrottled

\* A source begins with no slow check, which is below any limit.
LEMMA NewHostFlagged == NewHost \in State /\ Flagged(NewHost) /\ ~NewHost.throttled
BY CdnAssumption DEF NewHost, State, Flagged

\* Whatever the average says of a source, the judgement of a check keeps the
\* flag and the count of slow checks together.
LEMMA JudgedFlagged ==
    ASSUME NEW r \in State, Flagged(r), NEW h
    PROVE  Judged(r, h) \in State /\ Flagged(Judged(r, h))
<1>0. /\ r.slow \in Nat /\ r.throttled \in BOOLEAN /\ r.speed \in HostSpeed
      /\ r.probe \in {"never", "due", "recent"}
      /\ r = [speed |-> r.speed, slow |-> r.slow, throttled |-> r.throttled, probe |-> r.probe]
    BY DEF State
<1>1. CASE r.throttled
    <2>1. Judged(r, h) = Probed(r, h)
        BY <1>1 DEF Judged
    <2>2. CASE r.probe = "recent"
        BY <2>1, <2>2 DEF Probed
    <2>3. CASE r.probe # "recent" /\ Faster(h)
        <3>1. Probed(r, h) = [speed |-> r.speed, slow |-> 0, throttled |-> FALSE, probe |-> "recent"]
            BY <2>3, <1>0 DEF Probed
        <3>. QED BY <3>1, <2>1, <1>0, CdnAssumption DEF State, Flagged
    <2>4. CASE r.probe # "recent" /\ ~Faster(h)
        <3>1. Probed(r, h) = [speed |-> r.speed, slow |-> r.slow, throttled |-> r.throttled, probe |-> "recent"]
            BY <2>4, <1>0 DEF Probed
        <3>. QED BY <3>1, <2>1, <1>0 DEF State, Flagged
    <2>. QED BY <2>2, <2>3, <2>4
<1>2. CASE ~r.throttled /\ Slower(h)
    <2> DEFINE b == r.slow + 1 >= SlowLimit
    <2>1. Judged(r, h) = [r EXCEPT !.slow = r.slow + 1, !.throttled = b]
        BY <1>2 DEF Judged
    <2>2. b \in BOOLEAN /\ r.slow + 1 \in Nat /\ (b <=> r.slow + 1 >= SlowLimit)
        BY <1>0
    <2> HIDE DEF b
    <2>3. Judged(r, h) = [speed |-> r.speed, slow |-> r.slow + 1, throttled |-> b, probe |-> r.probe]
        BY ONLY <1>0, <2>1, Zenon
    <2>. QED BY <2>2, <2>3, <1>0 DEF State, Flagged
<1>3. CASE ~r.throttled /\ ~Slower(h)
    <2>1. Judged(r, h) = [speed |-> r.speed, slow |-> 0, throttled |-> r.throttled, probe |-> r.probe]
        BY <1>0, <1>3 DEF Judged
    <2>. QED BY <2>1, <1>0, <1>3, CdnAssumption DEF State, Flagged
<1>. QED BY <1>1, <1>2, <1>3

\* No step parts the flags from the counts, nor any_throttled from the flags.
LEMMA HostsStep == HostsInv /\ [CdnNext]_cdnVars => HostsInv'
<1> SUFFICES ASSUME HostsInv, [CdnNext]_cdnVars PROVE HostsInv'
    OBVIOUS
<1>1. ASSUME NEW h \in Host, RegisterHost(h) PROVE HostsInv'
    <2>1. hosts' = [k \in DOMAIN hosts \union {h} |-> IF k = h THEN NewHost ELSE hosts[k]]
        BY <1>1 DEF RegisterHost
    <2>. QED BY <2>1, <1>1, NewHostFlagged DEF RegisterHost, HostsInv, Flagged
<1>2. ASSUME NEW h \in Host, UnregisterHost(h) PROVE HostsInv'
    <2>1. hosts' = [k \in DOMAIN hosts \ {h} |-> hosts[k]]
        BY <1>2 DEF UnregisterHost, Restrict
    <2>. QED BY <2>1, <1>2 DEF UnregisterHost, HostsInv, Flagged
<1>3. ASSUME NEW h \in Host, HostProbeDue(h) PROVE HostsInv'
    <2>1. hosts' = [k \in DOMAIN hosts |-> IF k = h THEN [hosts[h] EXCEPT !.probe = "due"] ELSE hosts[k]]
        BY <1>3 DEF HostProbeDue, HostsInv
    <2>2. h \in DOMAIN hosts /\ hosts[h] \in State
        BY <1>3 DEF HostProbeDue, HostsInv
    <2>3. [hosts[h] EXCEPT !.probe = "due"] =
            [speed |-> hosts[h].speed, slow |-> hosts[h].slow, throttled |-> hosts[h].throttled, probe |-> "due"]
        BY <2>2 DEF State
    <2>. QED BY <2>1, <2>2, <2>3, <1>3 DEF HostProbeDue, HostsInv, Flagged, State
<1>4. ASSUME NEW h \in Host, NEW v \in HostSpeed, RecordHostSpeed(h, v) PROVE HostsInv'
    <2>1. hosts' = [k \in DOMAIN hosts |-> IF k = h THEN [hosts[h] EXCEPT !.speed = v] ELSE hosts[k]]
        BY <1>4 DEF RecordHostSpeed, HostsInv
    <2>2. h \in DOMAIN hosts /\ hosts[h] \in State
        BY <1>4 DEF RecordHostSpeed, HostsInv
    <2>3. [hosts[h] EXCEPT !.speed = v] =
            [speed |-> v, slow |-> hosts[h].slow, throttled |-> hosts[h].throttled, probe |-> hosts[h].probe]
        BY <2>2 DEF State
    <2>. QED BY <2>1, <2>2, <2>3, <1>4 DEF RecordHostSpeed, HostsInv, Flagged, State
<1>5. ASSUME NEW c \in Checker, Check(c) PROVE HostsInv'
    <2>1. /\ hosts' = [h \in DOMAIN hosts |-> Judged(hosts[h], h)]
          /\ anyThrottled' = (\E h \in DOMAIN hosts : hosts[h].throttled \/ Judged(hosts[h], h).throttled)
        BY <1>5 DEF Check
    <2>2. \A h \in DOMAIN hosts : Judged(hosts[h], h) \in State /\ Flagged(Judged(hosts[h], h))
        BY JudgedFlagged DEF HostsInv
    <2>. QED BY <2>1, <2>2 DEF HostsInv, Flagged
<1>6. ASSUME NEW c \in Checker, CountHosts(c) \/ GiveUpCheck(c) PROVE HostsInv'
    BY <1>6 DEF CountHosts, GiveUpCheck, HostsInv, Flagged
<1>7. CASE UNCHANGED cdnVars
    BY <1>7 DEF cdnVars, HostsInv, Flagged
<1>. QED BY <1>1, <1>2, <1>3, <1>4, <1>5, <1>6, <1>7 DEF CdnNext

\* any_throttled, read without the lock, never denies a throttled source, and
\* a source is throttled exactly by its count of slow checks (cdn_throttle.rs:293).
THEOREM FlagsAgree == CdnSpec => []ThrottledIsFlagged
<1>1. CdnInit => HostsInv
    BY DEF CdnInit, HostsInv
<1>2. HostsInv => ThrottledIsFlagged
    BY DEF HostsInv, Flagged, ThrottledIsFlagged
<1>. QED BY <1>1, <1>2, HostsStep, PTL DEF CdnSpec

-----------------------------------------------------------------------------
(* The connection controller                                               *)

\* While throttled, the number of connections is at most what it was before.
ControllerInv ==
    /\ connections \in MinConn .. MaxConn /\ preThrottle \in MinConn .. MaxConn
    /\ backoffs \in 0 .. MaxBackoff
    /\ throttled => connections <= preThrottle

\* However often requests have failed in a row, the step is one at least.
LEMMA BackoffIsPositive == backoffs \in 0 .. MaxBackoff => BackoffStep \in Nat \ {0}
<1> SUFFICES ASSUME backoffs \in 0 .. MaxBackoff PROVE BackoffStep \in Nat \ {0}
    OBVIOUS
<1> DEFINE num == Step * BackoffNum ^ backoffs
           den == BackoffDen ^ backoffs
           rounded == (2 * num + den) \div (2 * den)
<1>1. Step \in Nat /\ BackoffNum \in Nat \ {0} /\ BackoffDen \in Nat \ {0} /\ backoffs \in Nat
    BY ControllerAssumption
<1>2. num \in Int /\ den \in Int /\ den > 0
    BY <1>1, ControllerAssumption
<1>3. rounded \in Int
    <2> HIDE DEF num, den
    <2>1. 2 * num + den \in Int /\ 2 * den \in Int /\ 2 * den > 0
        BY <1>2
    <2>. QED BY <2>1
<1>4. BackoffStep = IF rounded < 1 THEN 1 ELSE rounded
    BY DEF BackoffStep
<1> HIDE DEF rounded
<1>. QED BY <1>3, <1>4

\* Every verdict of adjust keeps to it, the probing and the recovery included.
LEMMA AdjustKeeps == ControllerInv /\ Adjust => ControllerInv'
<1> SUFFICES ASSUME ControllerInv, Adjust PROVE ControllerInv'
    OBVIOUS
<1>0. MinConn \in Nat /\ MaxConn \in Nat /\ MaxBackoff \in Nat /\ Step \in Nat
    BY ControllerAssumption
<1>1. CASE Recover
    BY <1>0, <1>1 DEF Recover, ControllerInv, AtLeast
<1>2. CASE BackOff
    <2>1. BackoffStep \in Nat \ {0}
        BY BackoffIsPositive DEF ControllerInv
    <2>. QED BY <1>0, <1>2, <2>1 DEF BackOff, ControllerInv, AtLeast, AtMost
<1>3. ASSUME Forgive PROVE backoffs' \in 0 .. MaxBackoff
    BY <1>0, <1>3 DEF Forgive, ControllerInv
<1>4. CASE Keep
    BY <1>0, <1>3, <1>4 DEF Keep, ControllerInv
<1>5. CASE Stagnate
    BY <1>0, <1>3, <1>5 DEF Stagnate, ControllerInv
<1>6. CASE Grow
    <2>1. PICK step \in Step .. 3 * Step : connections' = AtMost(connections + step, MaxConn)
        BY <1>6 DEF Grow
    <2>2. step \in Nat /\ ~throttled /\ UNCHANGED << throttled, preThrottle >> /\ Forgive
        BY <1>0, <1>6 DEF Grow, MayGrow
    <2>. QED BY <1>0, <1>3, <2>1, <2>2 DEF ControllerInv, AtMost
<1>. QED BY <1>1, <1>2, <1>4, <1>5, <1>6 DEF Adjust

\* A throttled ConnectionController never opens more connections than it had when
\* it was throttled, for any bounds, step and backoff ratio.
THEOREM ThrottledDoesNotGrow == ControllerSpec => []ThrottledNeverGrows
<1>1. ControllerInit => ControllerInv
    BY ControllerAssumption DEF ControllerInit, ControllerInv
<1>2. ControllerInv /\ [ControllerNext]_controllerVars => ControllerInv'
    <2> SUFFICES ASSUME ControllerInv, [ControllerNext]_controllerVars, ~Adjust PROVE ControllerInv'
        BY AdjustKeeps
    <2>1. UNCHANGED decision
        BY DEF ControllerNext, controllerVars, RecordSpeed, EndLoop, RecordRequest, AdjustIntervalPasses, ProbeIntervalPasses
    <2>. QED BY <2>1 DEF decision, ControllerInv
<1>3. ControllerInv => ThrottledNeverGrows
    BY DEF ControllerInv, ThrottledNeverGrows
<1>. QED BY <1>1, <1>2, <1>3, PTL DEF ControllerSpec
=============================================================================
