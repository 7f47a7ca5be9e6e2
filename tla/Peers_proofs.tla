---------------------------- MODULE Peers_proofs ----------------------------
(***************************************************************************)
(* What is proved of the peer protocols: one good peer is enough for the   *)
(* metadata (MetadataExchange), no address is told twice (PeerExchange),   *)
(* and no answer about capabilities is older than its caches allow         *)
(* (PeerDiscovery). The three share no state.                              *)
(***************************************************************************)
EXTENDS MetadataExchange, PeerExchange, PeerDiscovery, TLAPS

-----------------------------------------------------------------------------
(* Metadata from a list of peers                                           *)

\* The peers before the one that is tried are those that failed.
Trying ==
    /\ outcome = "none"
    /\ faulty = 1 .. (peer - 1)
    /\ IF given = 0 THEN peer = 1 ELSE peer <= given

\* What a call that is over has to show.
Ended ==
    /\ outcome = "error" => faulty = 1 .. given
    /\ outcome = "metadata" => intact /\ piece = NumPieces /\ peer \notin faulty /\ Parses

CallInv ==
    /\ given \in Nat /\ peer \in Nat \ {0}
    /\ stage \notin {"connect", "ended"} => given > 0
    /\ stage # "ended" => Trying
    /\ stage = "ended" => Ended

\* The last peer that fails makes all of them fail; any other only itself.
LEMMA AbandonKeeps ==
    ASSUME CallInv, stage # "ended", given > 0, Abandon, UNCHANGED << given, content >>
    PROVE  CallInv'
<1>1. faulty' = 1 .. peer
    BY DEF CallInv, Trying, Abandon
<1>2. CASE peer < given
    BY <1>1, <1>2 DEF CallInv, Trying, Ended, Abandon
<1>3. CASE ~(peer < given)
    BY <1>1, <1>3 DEF CallInv, Trying, Ended, Abandon
<1>. QED BY <1>2, <1>3

\* A panic has nothing to show.
LEMMA PanicKeeps ==
    ASSUME CallInv, Panic, given > 0, UNCHANGED << given, content >>
    PROVE  CallInv'
BY DEF CallInv, Ended, Panic

\* An exchange that goes on leaves the peers as they are.
LEMMA ProceedKeeps ==
    ASSUME CallInv, stage # "ended", given > 0, NEW s, s # "ended", Proceed(s)
    PROVE  CallInv'
BY DEF CallInv, Trying, Proceed

\* No message, however late, short or wrong, breaks the account of the peers.
LEMMA CallStep == CallInv /\ [MetadataNext]_metadataVars => CallInv'
<1> SUFFICES ASSUME CallInv, [MetadataNext]_metadataVars PROVE CallInv'
    OBVIOUS
<1>1. CASE NoPeers
    <2>1. /\ given = 0 /\ faulty = 1 .. 0
          /\ outcome' = "error" /\ stage' = "ended"
          /\ given' = 0 /\ peer' = peer /\ faulty' = faulty
        BY <1>1 DEF NoPeers, CallInv, Trying
    <2>. QED BY <2>1 DEF CallInv, Ended
<1>2. ASSUME NEW ok \in BOOLEAN, ConnectPeer(ok) \/ Handshake(ok) \/ Request(ok) PROVE CallInv'
    <2>1. stage # "ended" /\ given > 0
        BY <1>2 DEF ConnectPeer, Handshake, Request, CallInv
    <2>. QED BY <1>2, <2>1, AbandonKeeps, ProceedKeeps DEF ConnectPeer, Handshake, Request
<1>3. ASSUME NEW n \in 1 .. MaxClaim, ExtensionAnswer(n) PROVE CallInv'
    <2>1. stage # "ended" /\ given > 0
        BY <1>3 DEF ExtensionAnswer, CallInv
    <2>. QED BY <1>3, <2>1, ProceedKeeps DEF ExtensionAnswer
<1>4. CASE ExtensionRefused \/ DataRefused
    <2>1. stage # "ended" /\ given > 0
        BY <1>4 DEF ExtensionRefused, DataRefused, CallInv
    <2>. QED BY <1>4, <2>1, AbandonKeeps DEF ExtensionRefused, DataRefused
<1>5. CASE ExtensionPanics \/ DataPanics
    <2>1. given > 0
        BY <1>5 DEF ExtensionPanics, DataPanics, CallInv
    <2>. QED BY <1>5, <2>1, PanicKeeps DEF ExtensionPanics, DataPanics
<1>6. ASSUME NEW p \in 0 .. MaxClaim, NEW b \in Body, DataArrives(p, b) PROVE CallInv'
    <2>1. stage # "ended" /\ given > 0
        BY <1>6 DEF DataArrives, CallInv
    <2>. QED BY <1>6, <2>1, AbandonKeeps, PanicKeeps, ProceedKeeps DEF DataArrives
<1>7. CASE Verify
    <2>1. stage # "ended" /\ given > 0
        BY <1>7 DEF Verify, CallInv
    <2>2. CASE intact /\ claimed = NumPieces /\ Parses
        <3>1. peer \notin faulty /\ piece = NumPieces
            BY <1>7, <2>1, <2>2 DEF Verify, CallInv, Trying
        <3>. QED BY <1>7, <2>2, <3>1, <2>1 DEF Verify, CallInv, Ended, Parses
    <2>3. CASE ~(intact /\ claimed = NumPieces /\ Parses)
        BY <1>7, <2>1, <2>3, AbandonKeeps DEF Verify
    <2>. QED BY <2>2, <2>3
<1>8. CASE UNCHANGED metadataVars
    BY <1>8 DEF metadataVars, CallInv, Trying, Ended, Parses
<1>. QED BY <1>1, <1>2, <1>3, <1>4, <1>5, <1>6, <1>7, <1>8 DEF MetadataNext

\* download_from_peers returns an error only when every peer has failed; what it
\* returns is the true metadata, from a peer that did not (metadata.rs:149).
THEOREM OnePeerSuffices == MetadataSpec => []GoodPeerSuffices
<1>1. MetadataInit => CallInv
    BY MetadataAssumption DEF MetadataInit, CallInv, Trying
<1>2. CallInv => GoodPeerSuffices
    BY DEF CallInv, Trying, Ended, GoodPeerSuffices
<1>. QED BY <1>1, <1>2, CallStep, PTL DEF MetadataSpec

-----------------------------------------------------------------------------
(* Addresses told to peers                                                 *)

\* The addresses the manager has marked as sent on each connection, those of the
\* messages it lost, and how often each was written.
PexTypes ==
    /\ sent \in [Conn -> SUBSET Address] /\ lost \in [Conn -> SUBSET Address]
    /\ told \in [Conn -> [Address -> {0, 1}]]

\* An address is marked when it was written or lost on the way, and never the
\* peer's own.
Marked(c) ==
    /\ Remote[c] \notin sent[c]
    /\ \A a \in Address : a \in sent[c] <=> told[c][a] = 1 \/ a \in lost[c]

\* It holds on every connection.
PexInv == PexTypes /\ \A c \in Conn : Marked(c)

\* A message is made of addresses that are not marked yet.
LEMMA SelectionIsUntold ==
    ASSUME NEW c \in Conn, NEW S \in Selection(c)
    PROVE  S \intersect sent[c] = {} /\ Remote[c] \notin S
BY DEF Selection, Untold

\* A message marks exactly the addresses it carries, or loses.
LEMMA SendPexKeeps ==
    ASSUME NEW c \in Conn, NEW S \in SUBSET Address, NEW ok \in BOOLEAN
    PROVE  PexInv /\ SendPex(c, S, ok) => PexInv'
<1> SUFFICES ASSUME PexInv, SendPex(c, S, ok) PROVE PexInv'
    OBVIOUS
<1>1. S \intersect sent[c] = {} /\ Remote[c] \notin S
    BY SelectionIsUntold DEF SendPex
<1>2. sent' = [sent EXCEPT ![c] = sent[c] \union S] /\ PexTypes /\ \A d \in Conn : Marked(d)
    BY DEF SendPex, PexInv
<1>3. \A a \in S : told[c][a] = 0 /\ a \in Address
    BY <1>1, <1>2 DEF PexTypes, Marked
<1>4. CASE ok
    <2> DEFINE now == [a \in Address |-> IF a \in S THEN told[c][a] + 1 ELSE told[c][a]]
    <2>1. told' = [told EXCEPT ![c] = now] /\ lost' = lost
        BY <1>4 DEF SendPex
    <2>2. now \in [Address -> {0, 1}] /\ \A a \in Address : now[a] = 1 <=> a \in S \/ told[c][a] = 1
        BY <1>2, <1>3 DEF PexTypes
    <2> HIDE DEF now
    <2>3. PexTypes'
        BY <1>2, <2>1, <2>2 DEF PexTypes
    <2>4. \A d \in Conn : Marked(d)'
        BY <1>1, <1>2, <2>1, <2>2 DEF PexTypes, Marked
    <2>. QED BY <2>3, <2>4 DEF PexInv
<1>5. CASE ~ok
    <2>1. lost' = [lost EXCEPT ![c] = lost[c] \union S] /\ told' = told
        BY <1>5 DEF SendPex
    <2>2. PexTypes'
        BY <1>2, <2>1 DEF PexTypes
    <2>3. \A d \in Conn : Marked(d)'
        BY <1>1, <1>2, <2>1 DEF PexTypes, Marked
    <2>. QED BY <2>2, <2>3 DEF PexInv
<1>. QED BY <1>4, <1>5

\* No address is sent to a peer twice, nor is it its own, for any connections,
\* addresses and limits of a message.
THEOREM ToldOnce == PexSpec => []ToldOnceEach
<1>1. PexInit => PexInv
    BY PexAssumption DEF PexInit, PexInv, PexTypes, Marked
<1>2. PexInv /\ [PexNext]_pexVars => PexInv'
    <2> SUFFICES ASSUME PexInv, [PexNext]_pexVars, UNCHANGED << sent, told, lost >> PROVE PexInv'
        BY SendPexKeeps
        DEF PexNext, Dial, PeerHandshake, PeerExtensions, ConnectFails, HandlePex, IntervalPasses,
            manager, history, pexVars
    <2>. QED BY DEF PexInv, PexTypes, Marked
<1>3. PexInv => ToldOnceEach
    BY PexAssumption DEF PexInv, PexTypes, Marked, ToldOnceEach
<1>. QED BY <1>1, <1>2, <1>3, PTL DEF PexSpec

-----------------------------------------------------------------------------
(* The age of capabilities                                                 *)

\* What a caller or a cache has heard, and when it was said.
News == [caps : SUBSET Capability, said : Nat]

\* Where a caller of discover can be between two steps.
CallerState == {"idle", "request", "answered", "keep", "check", "known"}

\* Every place that holds an answer holds a set of capabilities and its age.
DiscoveryTypes ==
    /\ pdc \in SUBSET Capability
    /\ pdcCopy \in [caps : SUBSET Capability, said : Nat, age : 0 .. PdcTtl]
    /\ copy \in News
    /\ checked \in 0 .. HybridTtl
    /\ dpcs \in [Caller -> CallerState]
    /\ heard \in [Caller -> News]
    /\ asked \in [Caller -> 0 .. HttpTicks]

\* The oldest news that goes from the PDC back end to the hybrid one.
Passed == HttpTicks + PdcTtl - 1

\* A copy is fresh within its time to live, counted from what was put into it.
CopiesFresh ==
    /\ pdcCopy.age < PdcTtl => pdcCopy.said <= HttpTicks + pdcCopy.age
    /\ checked < HybridTtl => copy.said <= Passed + checked

\* What a caller has in its hands, by how it came there.  No time passes between
\* putting news into the hybrid copy and setting last_health_check, so that the
\* copy may be called fresh then, whichever of several callers filled it last.
CallerFresh(c) ==
    /\ ~Waiting(c) => asked[c] = 0
    /\ dpcs[c] = "answered" => heard[c].said <= asked[c]
    /\ dpcs[c] \in {"keep", "check"} => heard[c].said <= Passed
    /\ dpcs[c] = "check" => copy.said <= Passed
    /\ dpcs[c] = "known" => heard[c].said <= Passed + HybridTtl - 1

\* No copy is older than its way from pdc to the caller allows.
DiscoveryInv == DiscoveryTypes /\ CopiesFresh /\ \A c \in Caller : CallerFresh(c)

\* The lifetimes are positive.
LEMMA Ttls == /\ PdcTtl \in Nat \ {0} /\ HybridTtl \in Nat \ {0} /\ HttpTicks \in Nat
              /\ Passed \in Nat /\ HttpTicks <= Passed
BY DiscoveryAssumption DEF Passed

\* Before the first answer a caller has heard nothing, at time zero.
LEMMA NoNewsIsNews == NoNews \in News /\ NoNews.said = 0
BY DEF NoNews, News

\* One caller moves, hears something that is fresh enough for where it goes,
\* and neither copy changes.
LEMMA CallerMoves ==
    ASSUME DiscoveryInv, NEW c \in Caller, NEW l \in CallerState, NEW h \in News,
           DGoto(c, l), Hear(c, h), UNCHANGED caches, pdc' \in SUBSET Capability,
           asked' \in [Caller -> 0 .. HttpTicks],
           \A d \in Caller : asked'[d] = asked[d] \/ (d = c /\ asked'[d] = 0),
           l \notin {"request", "answered"} => asked'[c] = 0,
           l = "answered" => h.said <= asked'[c],
           l \in {"keep", "check"} => h.said <= Passed,
           l = "check" => copy.said <= Passed,
           l = "known" => h.said <= Passed + HybridTtl - 1
    PROVE  DiscoveryInv'
<1>1. UNCHANGED << pdcCopy, copy, checked >>
    BY DEF caches
<1>2. DiscoveryTypes'
    BY <1>1 DEF DiscoveryInv, DiscoveryTypes, DGoto, Hear
<1>3. CopiesFresh'
    BY <1>1 DEF DiscoveryInv, CopiesFresh, Passed
<1>4. ASSUME NEW d \in Caller PROVE CallerFresh(d)'
    <2>1. dpcs'[d] = (IF d = c THEN l ELSE dpcs[d]) /\ heard'[d] = IF d = c THEN h ELSE heard[d]
        BY DEF DiscoveryInv, DiscoveryTypes, DGoto, Hear
    <2>2. CallerFresh(d)
        BY DEF DiscoveryInv
    <2>3. CASE d = c
        BY <1>1, <2>1, <2>3 DEF CallerFresh, Waiting, Passed
    <2>4. CASE d # c
        BY <1>1, <2>1, <2>2, <2>4 DEF CallerFresh, Waiting, Passed
    <2>. QED BY <2>3, <2>4
<1>. QED BY <1>2, <1>3, <1>4 DEF DiscoveryInv

\* The steps of a caller that leave the copies alone.
LEMMA AskingKeeps ==
    ASSUME NEW c \in Caller, DiscoveryInv,
           HitHybrid(c) \/ HitPdc(c) \/ AskPdc(c) \/ PdcAnswers(c) \/ PdcFails(c)
             \/ AnswerCapabilities(c) \/ DiscoverBuiltin(c)
             \/ \E found \in SUBSET (PeerAddr \X Priority) : DiscoverBoth(c, found)
    PROVE  DiscoveryInv'
<1>0. /\ DiscoveryTypes /\ CopiesFresh /\ CallerFresh(c) /\ heard[c] \in News /\ asked[c] \in 0 .. HttpTicks
      /\ heard[c].said \in Nat
      /\ UNCHANGED asked => asked' \in [Caller -> 0 .. HttpTicks] /\ asked'[c] = asked[c]
    BY DEF DiscoveryInv, DiscoveryTypes, News
<1>a. UNCHANGED heard => Hear(c, heard[c])
    BY <1>0 DEF Hear, DiscoveryTypes
<1>1. CASE HitHybrid(c)
    <2>1. copy \in News /\ copy.said <= Passed + HybridTtl - 1
        BY <1>0, <1>1, Ttls DEF HitHybrid, CopiesFresh, DiscoveryTypes, News
    <2>. QED BY <1>0, <1>1, <2>1, CallerMoves DEF HitHybrid, CallerFresh, Waiting, DiscoveryTypes, CallerState
<1>2. CASE HitPdc(c)
    <2> DEFINE h == [caps |-> pdcCopy.caps, said |-> pdcCopy.said]
    <2>1. h \in News /\ h.said <= Passed
        BY <1>0, <1>2, Ttls DEF HitPdc, CopiesFresh, DiscoveryTypes, News, Passed
    <2>2. Hear(c, h)
        BY <1>2 DEF HitPdc
    <2> HIDE DEF h
    <2>. QED BY <1>0, <1>2, <2>1, <2>2, CallerMoves DEF HitPdc, CallerFresh, Waiting, DiscoveryTypes, CallerState
<1>3. CASE AskPdc(c)
    BY <1>0, <1>3, <1>a, CallerMoves DEF AskPdc, CallerFresh, Waiting, DiscoveryTypes, CallerState
<1>4. CASE PdcAnswers(c)
    <2> DEFINE h == [caps |-> pdc, said |-> 0]
    <2>1. h \in News /\ h.said = 0
        BY <1>0 DEF DiscoveryTypes, News
    <2>2. Hear(c, h)
        BY <1>4 DEF PdcAnswers
    <2> HIDE DEF h
    <2>. QED BY <1>0, <1>4, <2>1, <2>2, Ttls, CallerMoves DEF PdcAnswers, CallerFresh, Waiting, DiscoveryTypes, CallerState
<1>5. CASE PdcFails(c)
    <2>1. asked' \in [Caller -> 0 .. HttpTicks] /\ asked'[c] = 0 /\ \A d \in Caller : d # c => asked'[d] = asked[d]
        BY <1>0, <1>5, Ttls DEF PdcFails, DiscoveryTypes
    <2>. QED BY <1>0, <1>5, <2>1, NoNewsIsNews, Ttls, CallerMoves DEF PdcFails, CallerFresh, DiscoveryTypes, CallerState
<1>6. CASE AnswerCapabilities(c)
    BY <1>0, <1>6, NoNewsIsNews, CallerMoves DEF AnswerCapabilities, CallerFresh, Waiting, DiscoveryTypes, CallerState
<1>7. CASE DiscoverBuiltin(c)
    BY <1>0, <1>7, <1>a, CallerMoves DEF DiscoverBuiltin, CallerFresh, Waiting, DiscoveryTypes, CallerState
<1>8. ASSUME NEW found \in SUBSET (PeerAddr \X Priority), DiscoverBoth(c, found) PROVE DiscoveryInv'
    BY <1>0, <1>8, NoNewsIsNews, CallerMoves DEF DiscoverBoth, CallerFresh, Waiting, DiscoveryTypes, CallerState
<1>. QED BY <1>1, <1>2, <1>3, <1>4, <1>5, <1>6, <1>7, <1>8

\* The steps that fill the copies put in what is fresh enough for each.
LEMMA KeepingKeeps ==
    ASSUME NEW c \in Caller, DiscoveryInv, KeepPdc(c) \/ KeepHybrid(c) \/ KeepCheck(c)
    PROVE  DiscoveryInv'
<1>0. /\ DiscoveryTypes /\ CopiesFresh /\ \A d \in Caller : CallerFresh(d)
      /\ heard[c] \in News /\ heard[c].said \in Nat /\ heard[c].caps \in SUBSET Capability
      /\ asked[c] \in 0 .. HttpTicks
    BY DEF DiscoveryInv, DiscoveryTypes, News
<1>1. CASE KeepPdc(c)
    <2> DEFINE p == [caps |-> heard[c].caps, said |-> heard[c].said, age |-> 0]
    <2>1. heard[c].said <= HttpTicks
        BY <1>0, <1>1, Ttls DEF KeepPdc, CallerFresh
    <2>2. p \in [caps : SUBSET Capability, said : Nat, age : 0 .. PdcTtl] /\ p.age = 0 /\ p.said <= HttpTicks
        BY <1>0, <2>1, Ttls
    <2>3. pdcCopy' = p /\ UNCHANGED << pdc, copy, checked, heard >>
        BY <1>1 DEF KeepPdc
    <2> HIDE DEF p
    <2>4. /\ asked' = [asked EXCEPT ![c] = 0] /\ dpcs' = [dpcs EXCEPT ![c] = "keep"]
          /\ dpcs[c] = "answered"
        BY <1>1 DEF KeepPdc, DGoto
    <2>5. DiscoveryTypes'
        BY <1>0, <2>2, <2>3, <2>4, Ttls DEF DiscoveryTypes, CallerState
    <2>6. CopiesFresh'
        BY <1>0, <2>2, <2>3, Ttls DEF CopiesFresh, Passed
    <2>7. ASSUME NEW d \in Caller PROVE CallerFresh(d)'
        <3>1. CASE d = c
            BY <1>0, <2>1, <2>3, <2>4, <3>1, Ttls DEF CallerFresh, Waiting, DiscoveryTypes, Passed
        <3>2. CASE d # c
            BY <1>0, <2>3, <2>4, <3>2 DEF CallerFresh, Waiting, DiscoveryTypes, Passed
        <3>. QED BY <3>1, <3>2
    <2>. QED BY <2>5, <2>6, <2>7 DEF DiscoveryInv
<1>2. CASE KeepHybrid(c)
    <2>1. heard[c].said <= Passed /\ dpcs[c] = "keep"
        BY <1>0, <1>2 DEF KeepHybrid, CallerFresh
    <2>2. UNCHANGED << pdc, pdcCopy, checked, heard, asked >>
        BY <1>2 DEF KeepHybrid
    <2>3. PICK l \in {"known", "check"} :
              /\ dpcs' = [dpcs EXCEPT ![c] = l]
              /\ copy' = IF l = "check" THEN heard[c] ELSE copy
        BY <1>2 DEF KeepHybrid, DGoto
    <2>4. copy' = copy \/ (copy' = heard[c] /\ copy'.said <= Passed)
        BY <2>1, <2>3
    <2>5. DiscoveryTypes'
        BY <1>0, <2>2, <2>3, <2>4 DEF DiscoveryTypes, CallerState
    <2>6. CopiesFresh'
        BY <1>0, <2>2, <2>4, Ttls DEF CopiesFresh, Passed, DiscoveryTypes
    <2>7. ASSUME NEW d \in Caller PROVE CallerFresh(d)'
        <3>1. CASE d = c
            BY <1>0, <2>1, <2>2, <2>3, <3>1, Ttls DEF CallerFresh, Waiting, DiscoveryTypes, Passed
        <3>2. CASE d # c
            BY <1>0, <2>2, <2>3, <2>4, <3>2 DEF CallerFresh, Waiting, DiscoveryTypes, Passed
        <3>. QED BY <3>1, <3>2
    <2>. QED BY <2>5, <2>6, <2>7 DEF DiscoveryInv
<1>3. CASE KeepCheck(c)
    <2>1. heard[c].said <= Passed /\ dpcs[c] = "check" /\ copy.said <= Passed
        BY <1>0, <1>3 DEF KeepCheck, CallerFresh
    <2>2. UNCHANGED << pdc, pdcCopy, copy, heard, asked >> /\ checked' = 0 /\ dpcs' = [dpcs EXCEPT ![c] = "known"]
        BY <1>3 DEF KeepCheck, DGoto
    <2>5. DiscoveryTypes'
        BY <1>0, <2>2, Ttls DEF DiscoveryTypes, CallerState
    <2>6. CopiesFresh'
        BY <1>0, <2>1, <2>2, Ttls DEF CopiesFresh, Passed
    <2>7. ASSUME NEW d \in Caller PROVE CallerFresh(d)'
        <3>1. CASE d = c
            BY <1>0, <2>1, <2>2, <3>1, Ttls DEF CallerFresh, Waiting, DiscoveryTypes, Passed
        <3>2. CASE d # c
            BY <1>0, <2>2, <3>2 DEF CallerFresh, Waiting, DiscoveryTypes, Passed
        <3>. QED BY <3>1, <3>2
    <2>. QED BY <2>5, <2>6, <2>7 DEF DiscoveryInv
<1>. QED BY <1>1, <1>2, <1>3

\* A tick makes news and the time since a request older alike, and comes only
\* when nobody is between the two halves of filling the hybrid copy.
LEMMA TickKeeps == DiscoveryInv /\ DiscoveryTick => DiscoveryInv'
<1> SUFFICES ASSUME DiscoveryInv, DiscoveryTick PROVE DiscoveryInv'
    OBVIOUS
<1> DEFINE a == Older(pdcCopy.age, PdcTtl)
           s == Older(pdcCopy.said, Oldest)
           t == Older(copy.said, Oldest)
<1>0. /\ DiscoveryTypes /\ CopiesFresh /\ \A d \in Caller : CallerFresh(d)
      /\ pdcCopy.said \in Nat /\ pdcCopy.age \in 0 .. PdcTtl /\ copy.said \in Nat
      /\ \A d \in Caller : heard[d].said \in Nat /\ heard[d] \in News
    BY DEF DiscoveryInv, DiscoveryTypes, News
<1>1. /\ a \in 0 .. PdcTtl /\ s \in Nat /\ t \in Nat
      /\ a < PdcTtl => s <= HttpTicks + a
    BY <1>0, Ttls DEF Older, CopiesFresh
<1>2. /\ checked' = Older(checked, HybridTtl) /\ checked' \in 0 .. HybridTtl
      /\ checked' < HybridTtl => t <= Passed + checked'
    BY <1>0, Ttls DEF DiscoveryTick, DiscoveryTypes, CopiesFresh, Older
<1>3. pdcCopy' = [pdcCopy EXCEPT !.age = a, !.said = s] /\ copy' = [copy EXCEPT !.said = t]
    BY DEF DiscoveryTick
<1>4. /\ pdcCopy = [caps |-> pdcCopy.caps, said |-> pdcCopy.said, age |-> pdcCopy.age]
      /\ copy = [caps |-> copy.caps, said |-> copy.said]
      /\ pdcCopy.caps \in SUBSET Capability /\ copy.caps \in SUBSET Capability
    BY <1>0 DEF DiscoveryTypes, News
<1> HIDE DEF a, s, t
<1>5. /\ pdcCopy' = [caps |-> pdcCopy.caps, said |-> s, age |-> a]
      /\ copy' = [caps |-> copy.caps, said |-> t]
    BY ONLY <1>3, <1>4, Zenon
<1>6. /\ UNCHANGED << pdc, dpcs >>
      /\ \A d \in Caller : dpcs[d] = "idle" \/ (Waiting(d) /\ asked[d] < HttpTicks)
      /\ asked' = [d \in Caller |-> IF Waiting(d) THEN asked[d] + 1 ELSE asked[d]]
      /\ heard' = [d \in Caller |-> IF dpcs[d] = "answered" THEN [heard[d] EXCEPT !.said = heard[d].said + 1] ELSE heard[d]]
    BY DEF DiscoveryTick
<1>7. ASSUME NEW d \in Caller
      PROVE  /\ heard'[d] \in News
             /\ heard'[d].said = heard[d].said + (IF dpcs[d] = "answered" THEN 1 ELSE 0)
    <2>1. heard[d] = [caps |-> heard[d].caps, said |-> heard[d].said] /\ heard[d].caps \in SUBSET Capability
        BY <1>0 DEF News
    <2>2. CASE dpcs[d] = "answered"
        <3>1. heard'[d] = [caps |-> heard[d].caps, said |-> heard[d].said + 1]
            BY <1>6, <2>1, <2>2
        <3>. QED BY <1>0, <2>1, <2>2, <3>1 DEF News
    <2>3. CASE dpcs[d] # "answered"
        BY <1>0, <1>6, <2>3
    <2>. QED BY <2>2, <2>3
<1>8. DiscoveryTypes'
    <2>1. asked' \in [Caller -> 0 .. HttpTicks]
        <3>1. ASSUME NEW d \in Caller
              PROVE  (IF Waiting(d) THEN asked[d] + 1 ELSE asked[d]) \in 0 .. HttpTicks
            <4>1. asked[d] \in 0 .. HttpTicks /\ (Waiting(d) => dpcs[d] # "idle")
                BY <1>0 DEF DiscoveryTypes, Waiting
            <4>. QED BY <1>6, <4>1, Ttls
        <3>2. asked' = [d \in Caller |-> IF Waiting(d) THEN asked[d] + 1 ELSE asked[d]]
            BY <1>6
        <3>. QED BY <3>1, <3>2
    <2>2. heard' \in [Caller -> News]
        <3> DEFINE f == [d \in Caller |-> IF dpcs[d] = "answered" THEN [heard[d] EXCEPT !.said = heard[d].said + 1] ELSE heard[d]]
        <3>1. heard' = f /\ f = [d \in Caller |-> f[d]]
            BY <1>6
        <3> HIDE DEF f
        <3>2. \A d \in Caller : f[d] \in News
            BY <1>7, <3>1
        <3>. QED BY <3>1, <3>2
    <2>. QED BY <1>0, <1>1, <1>2, <1>4, <1>5, <1>6, <2>1, <2>2 DEF DiscoveryTypes, News
<1>9. CopiesFresh'
    BY <1>1, <1>2, <1>5 DEF CopiesFresh, Passed
<1>10. ASSUME NEW d \in Caller PROVE CallerFresh(d)'
    BY <1>0, <1>6, <1>7, Ttls DEF CallerFresh, Waiting, DiscoveryTypes
<1>. QED BY <1>8, <1>9, <1>10 DEF DiscoveryInv

\* Callers and the clock keep the copies as fresh as that.
LEMMA DiscoveryStep == DiscoveryInv /\ [DiscoveryNext]_discoveryVars => DiscoveryInv'
<1> SUFFICES ASSUME DiscoveryInv, [DiscoveryNext]_discoveryVars PROVE DiscoveryInv'
    OBVIOUS
<1>1. ASSUME UNCHANGED << caches, dpcs, heard, asked >>, pdc' \in SUBSET Capability PROVE DiscoveryInv'
    BY <1>1 DEF caches, DiscoveryInv, DiscoveryTypes, CopiesFresh, CallerFresh, Waiting, Passed
<1>2. ASSUME NEW caps \in SUBSET Capability, PdcChanges(caps) PROVE DiscoveryInv'
    BY <1>1, <1>2 DEF PdcChanges, callers
<1>3. CASE (\E lines \in {"listed", "error page"} : RefreshTrackers(lines)) \/ UNCHANGED discoveryVars
    BY <1>1, <1>3 DEF RefreshTrackers, discoveryVars, callers, DiscoveryInv, DiscoveryTypes
<1>. QED BY <1>2, <1>3, AskingKeeps, KeepingKeeps, TickKeeps DEF DiscoveryNext

\* Two caches with times to live of their own, callers that fill them at once and
\* answers that come late: what a caller acts on was true of the PDC no longer
\* ago than the three limits together (discovery_backend.rs:325-360).
THEOREM NewsIsFresh == DiscoverySpec => []StalenessBounded
<1>1. DiscoveryInit => DiscoveryInv
    BY NoNewsIsNews, Ttls
    DEF DiscoveryInit, DiscoveryInv, DiscoveryTypes, CopiesFresh, CallerFresh, Waiting, CallerState
<1>2. DiscoveryInv => StalenessBounded
    <2> SUFFICES ASSUME DiscoveryInv, NEW c \in Caller, dpcs[c] = "known"
                 PROVE  heard[c].said <= HttpTicks + (PdcTtl - 1) + (HybridTtl - 1)
        BY DEF StalenessBounded
    <2>. QED BY Ttls DEF DiscoveryInv, DiscoveryTypes, News, CallerFresh, Passed
<1>. QED BY <1>1, <1>2, DiscoveryStep, PTL DEF DiscoverySpec
=============================================================================
