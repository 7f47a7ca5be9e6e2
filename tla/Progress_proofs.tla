--------------------------- MODULE Progress_proofs ---------------------------
(***************************************************************************)
(* What is proved of the reports of a download and of its resume state:    *)
(* frames come in order (ProgressReporter), the one smoother loses no      *)
(* update and the other shows no percentage that goes back                 *)
(* (ProgressSmoothers), and a bitmap never skips a chunk that was not      *)
(* written, its counter being exact (ResumeBitmap). The three share no     *)
(* state.                                                                  *)
(***************************************************************************)
EXTENDS ProgressReporter, ResumeBitmap, ProgressSmoothers, FiniteSetTheorems, TLAPS

-----------------------------------------------------------------------------
(* The reporter and the forwarder of frames                                *)

\* Any frame under way is at most what the reporter has read.
ReporterInv ==
    /\ bytes \in Nat /\ lastBytes \in Nat /\ frame \in Nat /\ shown \in Nat
    /\ channel \in Seq(Nat)
    /\ shown <= frame /\ frame <= lastBytes /\ lastBytes <= bytes
    /\ \A i \in 1 .. Len(channel) : frame <= channel[i] /\ channel[i] <= lastBytes
    /\ \A i, j \in 1 .. Len(channel) : i <= j => channel[i] <= channel[j]

\* A frame put behind the others carries the greatest count.
LEMMA AppendKeepsOrder ==
    ASSUME NEW s \in Seq(Nat), NEW f \in Nat, NEW m \in Nat, NEW n \in Nat, f <= n, m <= n,
           \A i \in 1 .. Len(s) : f <= s[i] /\ s[i] <= m,
           \A i, j \in 1 .. Len(s) : i <= j => s[i] <= s[j]
    PROVE  LET t == Append(s, n)
           IN  /\ t \in Seq(Nat)
               /\ \A i \in 1 .. Len(t) : f <= t[i] /\ t[i] <= n
               /\ \A i, j \in 1 .. Len(t) : i <= j => t[i] <= t[j]
<1> DEFINE t == Append(s, n)
<1>1. t \in Seq(Nat) /\ Len(t) = Len(s) + 1 /\ t[Len(s) + 1] = n /\ Len(s) \in Nat
    OBVIOUS
<1>2. \A i \in 1 .. Len(s) : t[i] = s[i] /\ s[i] \in Nat
    OBVIOUS
<1>3. \A i \in 1 .. Len(t) : i \in 1 .. Len(s) \/ i = Len(s) + 1
    BY <1>1
<1> HIDE DEF t
<1>4. ASSUME NEW i \in 1 .. Len(t) PROVE f <= t[i] /\ t[i] <= n /\ t[i] \in Nat
    <2>1. CASE i \in 1 .. Len(s)
        <3>1. t[i] = s[i] /\ s[i] \in Nat /\ f <= s[i] /\ s[i] <= m
            BY <1>2, <2>1
        <3>. QED BY <3>1
    <2>2. CASE i = Len(s) + 1
        BY <1>1, <2>2
    <2>. QED BY <1>3, <2>1, <2>2
<1>5. ASSUME NEW i \in 1 .. Len(t), NEW j \in 1 .. Len(t), i <= j PROVE t[i] <= t[j]
    <2>1. CASE j = Len(s) + 1
        BY <1>1, <1>4, <2>1
    <2>2. CASE j # Len(s) + 1
        <3>1. j \in 1 .. Len(s) /\ i \in 1 .. Len(s)
            BY <1>1, <1>3, <1>5, <2>2
        <3>. QED BY <1>2, <1>5, <3>1
    <2>. QED BY <2>1, <2>2
<1>6. /\ \A i \in 1 .. Len(t) : f <= t[i] /\ t[i] <= n
      /\ \A i, j \in 1 .. Len(t) : i <= j => t[i] <= t[j]
    BY <1>4, <1>5
<1>. QED BY <1>1, <1>6 DEF t

\* Nothing has been read or shown at first.
LEMMA InitReporterInv == Init => ReporterInv
BY DEF Init, ReporterInv

\* The reporter, the forwarder and the users of the locks keep it.
LEMMA NextReporterInv == ReporterInv /\ [Next]_vars => ReporterInv'
<1> SUFFICES ASSUME ReporterInv, [Next]_vars PROVE ReporterInv'
    OBVIOUS
<1>1. CASE ChunkDone
    BY <1>1 DEF ChunkDone, ReporterInv, reporter, forward
<1>2. CASE WakeAndSend
    <2>1. UNCHANGED << bytes, frame, shown >> /\ lastBytes' = bytes
        BY <1>2 DEF WakeAndSend, download, forward
    <2>2. CASE Len(channel) < ChannelSize
        <3>1. channel' = Append(channel, bytes)
            BY <1>2, <2>2 DEF WakeAndSend
        <3>. QED BY <2>1, <3>1, AppendKeepsOrder DEF ReporterInv
    <2>3. CASE ~(Len(channel) < ChannelSize)
        <3>1. channel' = channel
            BY <1>2, <2>3 DEF WakeAndSend
        <3>2. \A i \in 1 .. Len(channel) : channel[i] \in Nat
            BY DEF ReporterInv
        <3>. QED BY <2>1, <3>1, <3>2 DEF ReporterInv
    <2>. QED BY <2>2, <2>3
<1>3. CASE Receive
    <2>1. channel \in Seq(Nat) /\ channel # << >> /\ frame' = Head(channel) /\ channel' = Tail(channel)
        BY <1>3 DEF Receive, ReporterInv
    <2>2. /\ Head(channel) = channel[1] /\ Len(channel) \in Nat /\ Len(channel) >= 1
          /\ channel' \in Seq(Nat) /\ Len(channel') = Len(channel) - 1
          /\ \A i \in 1 .. Len(channel') : i + 1 \in 1 .. Len(channel) /\ channel'[i] = channel[i + 1]
          /\ \A i \in 1 .. Len(channel) : channel[i] \in Nat
        BY <2>1
    <2>3. ASSUME NEW i \in 1 .. Len(channel'), NEW j \in 1 .. Len(channel'), i <= j
          PROVE  channel'[i] <= channel'[j]
        <3>1. /\ i + 1 \in 1 .. Len(channel) /\ j + 1 \in 1 .. Len(channel) /\ i + 1 <= j + 1
              /\ channel'[i] = channel[i + 1] /\ channel'[j] = channel[j + 1]
            BY <2>2, <2>3
        <3>. QED BY <3>1 DEF ReporterInv
    <2>4. UNCHANGED << bytes, lastBytes, shown >>
        BY <1>3 DEF Receive, download, reporter
    <2>5. shown <= frame' /\ frame' <= lastBytes /\ frame' \in Nat
        BY <2>1, <2>2 DEF ReporterInv
    <2>6. \A i \in 1 .. Len(channel') : frame' <= channel'[i] /\ channel'[i] <= lastBytes
        <3>1. \A i \in 1 .. Len(channel) : channel[1] <= channel[i] /\ channel[i] <= lastBytes
            BY <2>2 DEF ReporterInv
        <3>. QED BY <2>1, <2>2, <3>1
    <2>. QED BY <2>2, <2>3, <2>4, <2>5, <2>6 DEF ReporterInv
<1>4. CASE Forward
    BY <1>4 DEF Forward, ReporterInv, download, reporter
<1>5. ASSUME UNCHANGED << bytes, lastBytes, channel, frame, shown >> PROVE ReporterInv'
    BY <1>5 DEF ReporterInv
<1>6. CASE Cancel \/ Return \/ BecomeDue \/ UNCHANGED vars
    BY <1>5, <1>6 DEF Cancel, Return, BecomeDue, vars, download, reporter, forward
<1>7. CASE WakeAndStop \/ LockHistory \/ KeepParams \/ Adjust \/ ReceiveClosed
    BY <1>5, <1>7 DEF WakeAndStop, LockHistory, KeepParams, Adjust, ReceiveClosed, download, reporter, forward
<1>8. ASSUME NEW u \in User, (\E o \in UserOps : AskParams(u, o)) \/ UserStep(u) PROVE ReporterInv'
    BY <1>5, <1>8 DEF AskParams, UserStep, UseParams, AskHistory, UseHistory, download, reporter, forward
<1>. QED BY <1>1, <1>2, <1>3, <1>4, <1>6, <1>7, <1>8 DEF Next, ReporterStep, ForwarderStep

\* The forwarder shows no frame with fewer bytes than the one before it: what is
\* under way was read later than what was shown, and dropping frames drops none
\* out of order.
THEOREM FramesAreInOrder == Spec => []FramesInOrder
<1>1. ReporterInv => FramesInOrder
    <2> SUFFICES ASSUME ReporterInv PROVE FramesInOrder
        OBVIOUS
    <2>1. channel \in Seq(Nat) /\ Len(channel) \in Nat /\ \A i \in 1 .. Len(channel) : channel[i] \in Nat
        BY DEF ReporterInv
    <2>2. ASSUME NEW i \in 1 .. Len(channel) - 1 PROVE channel[i] <= channel[i + 1]
        <3>1. i \in 1 .. Len(channel) /\ i + 1 \in 1 .. Len(channel) /\ i <= i + 1
            BY <2>1
        <3>. QED BY <3>1 DEF ReporterInv
    <2>3. ASSUME channel # << >> PROVE frame <= Head(channel) /\ channel[Len(channel)] <= bytes
        <3>1. Head(channel) = channel[1] /\ 1 \in 1 .. Len(channel) /\ Len(channel) \in 1 .. Len(channel)
            BY <2>1, <2>3
        <3>. QED BY <2>1, <3>1 DEF ReporterInv
    <2>. QED BY <2>2, <2>3 DEF FramesInOrder, ReporterInv
<1>. QED BY <1>1, InitReporterInv, NextReporterInv, PTL DEF Spec

-----------------------------------------------------------------------------
(* The progress smoothers                                                  *)

\* An update that is under way has found less than it brings.
Update == {Nothing} \union {p \in Nat \X Nat : p[1] > p[2]}
Reading == {Nothing} \union {<< n >> : n \in Nat}

\* Counters are numbers; updates and readings under way hold what they loaded.
SmootherTypes ==
    /\ flavour \in {"exchange", "store", "loose"}
    /\ counter \in Nat /\ promised \in Nat
    /\ upd \in [Updater -> Update] /\ snp \in [Reader -> Reading]
    /\ lastPercent \in Nat /\ percentShown \in Nat

\* What the second smoother has shown last is what it compares the next snapshot
\* with.
SmootherInv ==
    /\ SmootherTypes
    /\ flavour = "exchange" => promised <= counter
    /\ flavour = "store" => percentShown = lastPercent

\* What an updater and a reader have in their hands.
LEMMA Hands ==
    /\ \A p \in Update : p # Nothing => p = << p[1], p[2] >> /\ p[1] \in Nat /\ p[2] \in Nat /\ p[1] > p[2]
    /\ \A n, m \in Nat : n > m => << n, m >> \in Update
    /\ \A p \in Reading : p # Nothing => p[1] \in Nat
    /\ \A n \in Nat : << n >> \in Reading
    /\ Nothing \in Update /\ Nothing \in Reading
<1>1. \A p \in Nat \X Nat : p = << p[1], p[2] >> /\ p[1] \in Nat /\ p[2] \in Nat
    OBVIOUS
<1>. QED BY <1>1 DEF Update, Reading

\* Updaters and readers keep it, in every flavour, however they overlap.
LEMMA SmootherStep == SmootherInv /\ [SmootherNext]_smootherVars => SmootherInv'
<1> SUFFICES ASSUME SmootherInv, [SmootherNext]_smootherVars PROVE SmootherInv'
    OBVIOUS
<1>0. SmootherTypes
    BY DEF SmootherInv
<1>1. ASSUME NEW u \in Updater, NEW n \in 1 .. Ceiling, LoadCounter(u, n) PROVE SmootherInv'
    <2>1. n \in Nat /\ << n, counter >> \in Update
        BY <1>0, <1>1, Hands, SmootherAssumption DEF SmootherTypes, LoadCounter
    <2>. QED BY <1>1, <2>1 DEF LoadCounter, SmootherInv, SmootherTypes, reports
<1>2. ASSUME NEW u \in Updater, upd[u] # Nothing
      PROVE  /\ upd[u][1] \in Nat /\ upd[u][2] \in Nat /\ upd[u][1] > upd[u][2]
             /\ upd[u] = << upd[u][1], upd[u][2] >>
    BY <1>0, <1>2, Hands DEF SmootherTypes
<1>3. ASSUME NEW u \in Updater, Exchange(u) \/ Store(u) PROVE SmootherInv'
    BY <1>2, <1>3, Hands DEF Exchange, Store, Storing, Finish, Promise, SmootherInv, SmootherTypes, reports
<1>4. ASSUME NEW u \in Updater, ExchangeFails(u) PROVE SmootherInv'
    <2>1. upd[u] # Nothing
        BY <1>4 DEF ExchangeFails
    <2>2. CASE upd[u][1] > counter
        <3>1. [upd[u] EXCEPT ![2] = counter] = << upd[u][1], counter >>
            <4>1. \A a, b, v : [<< a, b >> EXCEPT ![2] = v] = << a, v >>
                OBVIOUS
            <4>. QED BY <1>2, <2>1, <4>1
        <3>2. upd' = [upd EXCEPT ![u] = << upd[u][1], counter >>]
            BY <1>4, <2>2, <3>1 DEF ExchangeFails
        <3>3. << upd[u][1], counter >> \in Update
            BY <1>0, <1>2, <2>1, <2>2, Hands DEF SmootherTypes
        <3>. QED BY <1>4, <2>2, <3>2, <3>3 DEF ExchangeFails, SmootherInv, SmootherTypes, reports
    <2>3. CASE ~(upd[u][1] > counter)
        BY <1>2, <1>4, <2>1, <2>3, Hands
        DEF ExchangeFails, Finish, Promise, SmootherInv, SmootherTypes, reports
    <2>. QED BY <2>2, <2>3
<1>6. CASE AddBytes
    BY <1>6 DEF AddBytes, SmootherInv, SmootherTypes, reports
<1>7. ASSUME NEW r \in Reader, LoadSnapshot(r) PROVE SmootherInv'
    BY <1>7, Hands DEF LoadSnapshot, SmootherInv, SmootherTypes, reports, counters
<1>8. ASSUME NEW r \in Reader, ShowSnapshot(r) PROVE SmootherInv'
    <2>1. snp[r][1] \in Nat
        BY <1>0, <1>8, Hands DEF SmootherTypes, ShowSnapshot
    <2>. QED BY <1>8, <2>1, Hands DEF ShowSnapshot, Storing, SmootherInv, SmootherTypes, counters
<1>9. CASE ResetCounters \/ ResetReports
    BY <1>9 DEF ResetCounters, ResetReports, Storing, SmootherInv, SmootherTypes, counters, reports
<1>10. CASE UNCHANGED smootherVars
    BY <1>10 DEF smootherVars, SmootherInv, SmootherTypes, counters, reports
<1>. QED BY <1>1, <1>3, <1>4, <1>6, <1>7, <1>8, <1>9, <1>10 DEF SmootherNext

\* Nothing is loaded or shown at first.
LEMMA SmootherInitially == SmootherInit => SmootherInv
BY Hands DEF SmootherInit, SmootherInv, SmootherTypes

\* However updates of the exchanging smoother overlap, none that has returned is
\* lost, and its counter does not go back (progress.rs:69).  The storing one makes
\* no such promise good: of it the theorem says nothing.
THEOREM NoUpdateIsLost == SmootherSpec => ExchangeLosesNothing
<1> DEFINE Holds == flavour = "exchange" => counter' >= promised' /\ counter' >= counter
<1>1. SmootherInv /\ SmootherInv' /\ [SmootherNext]_smootherVars => [Holds]_smootherVars
    <2> SUFFICES ASSUME SmootherInv, SmootherInv', SmootherNext, flavour = "exchange"
                 PROVE  counter' >= promised' /\ counter' >= counter
        OBVIOUS
    <2>1. counter \in Nat /\ counter' \in Nat /\ promised' \in Nat
        BY DEF SmootherInv, SmootherTypes
    <2>2. flavour' = flavour
        BY DEF SmootherNext, LoadCounter, Exchange, ExchangeFails, Store, AddBytes, LoadSnapshot,
               ShowSnapshot, ResetCounters, ResetReports
    <2>3. counter' >= promised'
        BY <2>1, <2>2 DEF SmootherInv
    <2>4. ASSUME NEW u \in Updater, Exchange(u) PROVE counter' >= counter
        <3>1. upd[u] \in Update /\ upd[u] # Nothing
            BY <2>4 DEF SmootherInv, SmootherTypes, Exchange
        <3>2. upd[u][1] \in Nat /\ upd[u][2] \in Nat /\ upd[u][1] > upd[u][2]
            BY <3>1, Hands
        <3>. QED BY <2>4, <3>2 DEF Exchange
    <2>5. CASE counter' = counter \/ counter' = counter + 1
        BY <2>1, <2>3, <2>5
    <2>6. \A u \in Updater : ~Store(u)
        BY DEF Store, Storing
    <2>7. ~ResetCounters
        BY DEF ResetCounters, Storing
    <2>8. \/ \E u \in Updater : Exchange(u)
          \/ counter' = counter \/ counter' = counter + 1
        BY <2>6, <2>7
        DEF SmootherNext, LoadCounter, ExchangeFails, AddBytes, LoadSnapshot, ShowSnapshot,
            ResetReports, counters
    <2>. QED BY <2>3, <2>4, <2>5, <2>8
<1>. QED BY <1>1, SmootherInitially, SmootherStep, PTL DEF SmootherSpec, ExchangeLosesNothing

\* Although stores at the same time take the counter of the storing smoother back
\* and snapshots load it before they queue for the locks, its percentage, with
\* enforce_monotonic, goes back by a reset alone (progress_smoother.rs:159).
THEOREM PercentGoesOn == SmootherSpec => PercentNeverBack
<1> DEFINE Holds == flavour = "store" => percentShown' >= percentShown \/ (resetting /\ ~resetting')
<1>1. SmootherInv /\ [SmootherNext]_smootherVars => [Holds]_smootherVars
    <2> SUFFICES ASSUME SmootherInv, SmootherNext, flavour = "store"
                 PROVE  percentShown' >= percentShown \/ (resetting /\ ~resetting')
        OBVIOUS
    <2>1. ASSUME NEW r \in Reader, ShowSnapshot(r) PROVE percentShown' >= percentShown
        <3>1. snp[r][1] \in Nat
            BY <2>1, Hands DEF SmootherInv, SmootherTypes, ShowSnapshot
        <3>. QED BY <2>1, <3>1 DEF ShowSnapshot, SmootherInv, SmootherTypes
    <2>2. CASE ResetReports
        BY <2>2 DEF ResetReports
    <2>3. CASE percentShown' = percentShown
        BY <2>3 DEF SmootherInv, SmootherTypes
    <2>. QED BY <2>1, <2>2, <2>3
         DEF SmootherNext, LoadCounter, Exchange, ExchangeFails, Store, AddBytes, LoadSnapshot, ResetCounters, reports
<1>. QED BY <1>1, SmootherInitially, SmootherStep, PTL DEF SmootherSpec, PercentNeverBack

-----------------------------------------------------------------------------
(* The resume bitmap                                                       *)

\* Every bit of b stands for a finished chunk of a plan of n.
Backed(n, b) == \A c \in b : << n, c >> \in written

\* What is in memory, about to be written, or in a file under either name.  A
\* process that is gone has nothing in memory: the next may have another plan.
BackedInv ==
    /\ snap = [w \in Worker |-> snap[w]]
    /\ Backed(total, bits)
    /\ \A w \in Worker : Backed(total, snap[w])
    /\ Backed(tmp.total, tmp.bits) /\ Backed(main.total, main.bits)
    /\ ~up => bits = {} /\ \A w \in Worker : snap[w] = {}

\* A name without content has no bit.
LEMMA EmptyNames == Absent.bits = {} /\ Short.bits = {}
BY DEF Absent, Short

\* Giving up a snapshot leaves only those of the other workers.
LEMMA ReleaseKeeps ==
    ASSUME BackedInv, NEW w \in Worker, NEW h, Release(w, h)
    PROVE  /\ snap' = [v \in Worker |-> snap'[v]]
           /\ \A v \in Worker : Backed(total, snap'[v])
           /\ \A v \in Worker : snap[v] = {} => snap'[v] = {}
<1>1. snap' = [v \in Worker |-> IF v = w THEN {} ELSE snap[v]]
    BY DEF BackedInv, Release
<1>. QED BY <1>1 DEF BackedInv, Backed

\* No save, however it meets another one or a crash, makes up a bit.
LEMMA BackedStep == BackedInv /\ [BitmapNext]_bitmapVars => BackedInv'
<1> SUFFICES ASSUME BackedInv, [BitmapNext]_bitmapVars PROVE BackedInv'
    OBVIOUS
<1> USE DEF memory, workers, files
<1>1. ASSUME NEW n \in Total, Open(n) PROVE BackedInv'
    <2>1. Backed(n, Loaded(n))
        BY DEF Loaded, Backed, BackedInv
    <2>. QED BY <1>1, <2>1 DEF Open, BackedInv, Backed
<1>2. ASSUME NEW w \in Worker, WorkerStep(w) PROVE BackedInv'
    <2>1. ASSUME NEW c \in 0 .. total - 1, Mark(w, c) PROVE BackedInv'
        BY <2>1 DEF Mark, BackedInv, Backed
    <2>2. CASE Count(w) \/ ResetDirty(w) \/ ForcePersist(w)
        BY <2>2 DEF Count, ResetDirty, ForcePersist, BackedInv, Backed
    <2>3. CASE Snapshot(w)
        <3>1. snap' = [v \in Worker |-> IF v = w THEN bits ELSE snap[v]]
            BY <2>3 DEF Snapshot, BackedInv
        <3>. QED BY <2>3, <3>1 DEF Snapshot, BackedInv, Backed
    <2>4. CASE CreateTmp(w)
        BY <2>4, EmptyNames DEF CreateTmp, BackedInv, Backed
    <2>5. CASE WriteTmp(w)
        <3>1. /\ Saved(total, snap[w]).total = total
              /\ Saved(total, snap[w]).bits = snap[w]
            BY DEF Saved
        <3>2. tmp' \in {tmp, Saved(total, snap[w])} /\ main' \in {main, Saved(total, snap[w])}
            BY <2>5 DEF WriteTmp
        <3>3. Backed(tmp'.total, tmp'.bits) /\ Backed(main'.total, main'.bits)
            BY <3>1, <3>2 DEF BackedInv
        <3>. QED BY <2>5, <3>3 DEF WriteTmp, BackedInv, Backed
    <2>6. CASE PersistFails(w)
        BY <2>6, ReleaseKeeps DEF PersistFails, BackedInv, Backed
    <2>7. CASE Rename(w)
        <3>1. /\ tmp' \in {tmp, Absent} /\ main' \in {main, tmp}
              /\ UNCHANGED << up, memory, written >>
              /\ \E h : Release(w, h)
            BY <2>7 DEF Rename
        <3>2. Backed(tmp'.total, tmp'.bits) /\ Backed(main'.total, main'.bits)
            BY <3>1, EmptyNames DEF BackedInv, Backed
        <3>. QED BY <3>1, <3>2, ReleaseKeeps DEF BackedInv, Backed
    <2>. QED BY <1>2, <2>1, <2>2, <2>3, <2>4, <2>5, <2>6, <2>7 DEF WorkerStep
<1>3. CASE Delete
    BY <1>3, EmptyNames DEF Delete, BackedInv, Backed
<1>4. CASE Crash
    BY <1>4 DEF Crash, BackedInv, Backed
<1>5. CASE UNCHANGED bitmapVars
    BY <1>5 DEF bitmapVars, BackedInv, Backed
<1>. QED BY <1>1, <1>2, <1>3, <1>4, <1>5 DEF BitmapNext

\* is_completed never makes a later process pass over a chunk that was not
\* marked for the same plan (resume_bitmap.rs:120).
THEOREM NothingSkipped == BitmapSpec => []SkipsOnlyWritten
<1>1. BitmapInit => BackedInv
    BY EmptyNames DEF BitmapInit, BackedInv, Backed
<1>2. BackedInv => SkipsOnlyWritten
    BY DEF BackedInv, Backed, SkipsOnlyWritten
<1>. QED BY <1>1, <1>2, BackedStep, PTL DEF BitmapSpec

-----------------------------------------------------------------------------
(* The counter *)

\* The workers that have set a bit and not yet counted it.
Counting == {w \in Worker : wpc[w] = "count"}

\* Sets of bits are finite wherever they are kept, so they can be counted.
Finite ==
    /\ IsFiniteSet(bits) /\ IsFiniteSet(tmp.bits) /\ IsFiniteSet(main.bits)
    /\ \A w \in Worker : IsFiniteSet(snap[w])

\* The counter and the workers between their bit and their count make up the bits.
CountInv ==
    /\ snap = [w \in Worker |-> snap[w]] /\ wpc = [w \in Worker |-> wpc[w]]
    /\ Finite
    /\ count \in Nat
    /\ ~up => Counting = {}
    /\ up => count + Cardinality(Counting) = Cardinality(bits)

\* There are finitely many workers, so those about to count have a number.
LEMMA CountingCounted == IsFiniteSet(Counting) /\ Cardinality(Counting) \in Nat
BY BitmapAssumption, FS_Subset, FS_CardinalityType DEF Counting

\* A step that takes a worker neither to the counter nor from it and leaves the
\* bits and the count as they are.
LEMMA CountingUntouched ==
    ASSUME CountInv, UNCHANGED << up, bits, count >>, Counting' = Counting, Finite',
           snap' = [w \in Worker |-> snap'[w]], wpc' = [w \in Worker |-> wpc'[w]]
    PROVE  CountInv'
BY DEF CountInv

\* Marking, counting, loading and crashing keep it.
LEMMA CountStep == CountInv /\ [BitmapNext]_bitmapVars => CountInv'
<1> SUFFICES ASSUME CountInv, [BitmapNext]_bitmapVars PROVE CountInv'
    OBVIOUS
<1> USE DEF memory, workers, files
<1>0. /\ IsFiniteSet({}) /\ Cardinality({}) = 0
      /\ Cardinality(Counting) \in Nat /\ IsFiniteSet(Counting)
    BY FS_EmptySet, CountingCounted
<1>1. ASSUME NEW n \in Total, Open(n) PROVE CountInv'
    <2>1. IsFiniteSet(Loaded(n))
        BY <1>0 DEF Loaded, CountInv, Finite
    <2>2. Cardinality(Loaded(n)) \in Nat
        BY <2>1, FS_CardinalityType
    <2>3. Counting' = {} /\ UNCHANGED << wpc, snap, tmp, main >>
        BY <1>1 DEF Open, CountInv, Counting
    <2>. QED BY <1>0, <1>1, <2>1, <2>2, <2>3 DEF Open, CountInv, Finite
<1>2. ASSUME NEW w \in Worker, WorkerStep(w) PROVE CountInv'
    <2>1. ASSUME NEW c \in 0 .. total - 1, Mark(w, c) PROVE CountInv'
        <3>1. wpc' = [v \in Worker |-> IF v = w THEN "count" ELSE wpc[v]] /\ wpc[w] = "idle"
            BY <2>1 DEF Mark, Goto, CountInv
        <3>2. Counting' = Counting \union {w} /\ w \notin Counting
            BY <3>1 DEF Counting
        <3>3. Cardinality(Counting') = Cardinality(Counting) + 1
            BY <1>0, <3>2, FS_AddElement
        <3>4. bits' = bits \union {c} /\ c \notin bits /\ UNCHANGED << up, count, snap, tmp, main >> /\ up
            BY <2>1 DEF Mark
        <3>5. IsFiniteSet(bits') /\ Cardinality(bits') = Cardinality(bits) + 1 /\ Cardinality(bits) \in Nat
            BY <3>4, FS_AddElement, FS_CardinalityType DEF CountInv, Finite
        <3>. QED BY <1>0, <3>1, <3>3, <3>4, <3>5 DEF CountInv, Finite
    <2>2. CASE Count(w)
        <3>1. PICK l \in {"reset", "idle"} : wpc' = [v \in Worker |-> IF v = w THEN l ELSE wpc[v]]
            BY <2>2 DEF Count, Goto, CountInv
        <3>2. Counting' = Counting \ {w} /\ w \in Counting
            BY <2>2, <3>1 DEF Count, Counting
        <3>3. Cardinality(Counting') = Cardinality(Counting) - 1
            BY <1>0, <3>2, FS_RemoveElement
        <3>4. UNCHANGED << up, bits, snap, tmp, main >> /\ up /\ count' = count + 1
            BY <2>2 DEF Count
        <3>. QED BY <1>0, <3>1, <3>3, <3>4 DEF CountInv, Finite
    <2>3. ASSUME NEW l, Goto(w, l), l # "count", wpc[w] # "count"
          PROVE  Counting' = Counting /\ wpc' = [v \in Worker |-> wpc'[v]]
        BY <2>3 DEF Goto, Counting, CountInv
    <2>4. ASSUME NEW h, Release(w, h), UNCHANGED bits, tmp' \in {tmp, Absent}, main' \in {main, tmp}
          PROVE  snap' = [v \in Worker |-> snap'[v]] /\ Finite'
        <3>1. snap' = [v \in Worker |-> IF v = w THEN {} ELSE snap[v]]
            BY <2>4 DEF CountInv, Release
        <3>. QED BY <1>0, <2>4, <3>1, EmptyNames DEF CountInv, Finite
    <2>5. CASE ResetDirty(w) \/ ForcePersist(w)
        BY <2>3, <2>5, CountingUntouched DEF ResetDirty, ForcePersist, CountInv, Finite
    <2>6. CASE Snapshot(w)
        <3>1. snap' = [v \in Worker |-> IF v = w THEN bits ELSE snap[v]]
            BY <2>6 DEF Snapshot, CountInv
        <3>. QED BY <2>3, <2>6, <3>1, CountingUntouched DEF Snapshot, CountInv, Finite
    <2>7. CASE CreateTmp(w)
        BY <1>0, <2>3, <2>7, EmptyNames, CountingUntouched DEF CreateTmp, CountInv, Finite
    <2>8. CASE WriteTmp(w)
        <3>1. Saved(total, snap[w]).bits = snap[w]
            BY DEF Saved
        <3>2. tmp' \in {tmp, Saved(total, snap[w])} /\ main' \in {main, Saved(total, snap[w])}
            BY <2>8 DEF WriteTmp
        <3>3. Finite'
            BY <2>8, <3>1, <3>2 DEF WriteTmp, CountInv, Finite
        <3>. QED BY <2>3, <2>8, <3>3, CountingUntouched DEF WriteTmp, CountInv
    <2>9. CASE PersistFails(w) \/ Rename(w)
        <3>1. /\ tmp' \in {tmp, Absent} /\ main' \in {main, tmp}
              /\ UNCHANGED << up, bits, count >>
              /\ \E h : Release(w, h)
              /\ Goto(w, "idle") /\ wpc[w] # "count"
            BY <2>9 DEF PersistFails, Rename
        <3>. QED BY <2>3, <2>4, <3>1, CountingUntouched
    <2>. QED BY <1>2, <2>1, <2>2, <2>5, <2>6, <2>7, <2>8, <2>9 DEF WorkerStep
<1>3. CASE Delete
    BY <1>0, <1>3, EmptyNames DEF Delete, CountInv, Finite, Counting
<1>4. CASE Crash
    BY <1>0, <1>4 DEF Crash, CountInv, Finite, Counting
<1>5. CASE UNCHANGED bitmapVars
    BY <1>5 DEF bitmapVars, CountInv, Finite, Counting
<1>. QED BY <1>1, <1>2, <1>3, <1>4, <1>5 DEF BitmapNext

\* completed_count, read without the lock, lags behind the bitmap by the workers
\* between the two and never runs ahead of it (resume_bitmap.rs:128).
THEOREM CountExact == BitmapSpec => []CountIsExact
<1>1. BitmapInit => CountInv
    BY EmptyNames, FS_EmptySet DEF BitmapInit, CountInv, Finite, Counting
<1>2. CountInv => CountIsExact
    BY DEF CountInv, Counting, CountIsExact
<1>. QED BY <1>1, <1>2, CountStep, PTL DEF BitmapSpec

\* Only chunks of their plan were ever marked, and plans have chunks.
WrittenInv ==
    /\ total \in Nat
    /\ \A n, c : << n, c >> \in written => c \in 0 .. n - 1

\* No step unwrites a chunk, and a worker marks what it has written.
LEMMA WrittenStep == WrittenInv /\ [BitmapNext]_bitmapVars => WrittenInv'
<1> SUFFICES ASSUME WrittenInv, [BitmapNext]_bitmapVars PROVE WrittenInv'
    OBVIOUS
<1>1. ASSUME NEW n \in Total, Open(n) PROVE WrittenInv'
    BY <1>1, BitmapAssumption DEF Open, WrittenInv
<1>2. ASSUME NEW w \in Worker, NEW c \in 0 .. total - 1, Mark(w, c) PROVE WrittenInv'
    <2>1. written' = written \union {<< total, c >>} /\ total' = total
        BY <1>2 DEF Mark
    <2>2. ASSUME NEW n, NEW e, << n, e >> \in written' PROVE e \in 0 .. n - 1
        <3>1. << n, e >> \in written \/ (n = total /\ e = c)
            BY <2>1, <2>2
        <3>. QED BY <3>1 DEF WrittenInv
    <2>. QED BY <2>1, <2>2 DEF WrittenInv
<1>3. CASE UNCHANGED << total, written >>
    BY <1>3 DEF WrittenInv
<1>. QED BY <1>1, <1>2, <1>3
    DEF BitmapNext, WorkerStep, Count, ResetDirty, ForcePersist, Snapshot, CreateTmp, WriteTmp,
        PersistFails, Rename, Delete, Crash, bitmapVars, memory, workers, files

\* is_all_completed, count >= total, answers yes only when every chunk of the
\* plan has its bit: no more chunks are counted than have one, and only chunks
\* of the plan have one (resume_bitmap.rs:210).
THEOREM AllCompletedIsTrue == BitmapSpec => [](up /\ count >= total => bits = 0 .. total - 1)
<1>1. BitmapInit => BackedInv /\ CountInv /\ WrittenInv
    BY EmptyNames, FS_EmptySet, BitmapAssumption
    DEF BitmapInit, BackedInv, Backed, CountInv, Finite, Counting, WrittenInv
<1>2. ASSUME BackedInv, CountInv, WrittenInv, up, count >= total PROVE bits = 0 .. total - 1
    <2>1. bits \subseteq 0 .. total - 1 /\ total \in Nat
        BY <1>2 DEF BackedInv, Backed, WrittenInv
    <2>2. IsFiniteSet(0 .. total - 1) /\ Cardinality(0 .. total - 1) = total
        BY <2>1, FS_Interval
    <2>3. Cardinality(bits) \in Nat /\ Cardinality(bits) <= total
          /\ (Cardinality(bits) = total => bits = 0 .. total - 1)
        BY <2>1, <2>2, FS_Subset, FS_CardinalityType
    <2>4. Cardinality(bits) >= count
        BY <1>2, <2>3, CountingCounted DEF CountInv
    <2>. QED BY <1>2, <2>1, <2>3, <2>4 DEF CountInv
<1>. QED BY <1>1, <1>2, BackedStep, CountStep, WrittenStep, PTL DEF BitmapSpec
=============================================================================
