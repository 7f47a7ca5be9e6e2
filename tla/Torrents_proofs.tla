--------------------------- MODULE Torrents_proofs ---------------------------
(***************************************************************************)
(* What is proved of torrent downloads: success is backed by the pieces of *)
(* the session (P2pDownload), and the download queue keeps every torrent   *)
(* it accepted and attempts each a bounded number of times                 *)
(* (DownloadQueue). The two share no state.                                *)
(***************************************************************************)
EXTENDS P2pDownload, DownloadQueue, WellFoundedInduction, SequenceTheorems,
        FiniteSetTheorems, TLAPS

-----------------------------------------------------------------------------
(* Attempts, sessions and frames                                           *)

\* What a session knows of a torrent.
TorrentState == [added : BOOLEAN, metadata : BOOLEAN, got : 0 .. Size]

\* The attempts' program counters, what each has read of its session, and what is
\* on its way to the server.
P2pTypes ==
    /\ session \in [Torrent \union Standalone -> TorrentState]
    /\ dpc \in [Attempt -> {"add", "metadata", "poll", "send", "report", "done"}]
    /\ polled \in [Attempt -> Nat] /\ carried \in [Attempt -> Nat] /\ shown \in [Attempt -> Nat]
    /\ verdict \in [Attempt -> {"none", "error", "success"}]
    /\ frames \in [Attempt -> Seq(Nat)]

\* What an attempt has read is there, its frames say no more than that, and it
\* has stopped reading when it has found everything.
AttemptInv(d) ==
    /\ polled[d] <= Here(d).got
    /\ shown[d] <= polled[d] /\ carried[d] <= polled[d]
    /\ \A i \in DOMAIN frames[d] : frames[d][i] <= polled[d]
    /\ verdict[d] = "success" => polled[d] = Size /\ dpc[d] \in {"report", "done"}

P2pInv == P2pTypes /\ \A d \in Attempt : AttemptInv(d)

\* An attempt's torrent is in a session: the manager's or the attempt's own.
LEMMA SlotInSession == \A d \in Attempt : Slot(d) \in Torrent \union Standalone
BY P2pAssumption DEF Slot, UsesManager

\* A torrent's record with one field set.
LEMMA TorrentFields ==
    ASSUME NEW r \in TorrentState, NEW v
    PROVE  /\ [r EXCEPT !.added = v] = [added |-> v, metadata |-> r.metadata, got |-> r.got]
           /\ [r EXCEPT !.metadata = v] = [added |-> r.added, metadata |-> v, got |-> r.got]
           /\ [r EXCEPT !.got = v] = [added |-> r.added, metadata |-> r.metadata, got |-> v]
BY DEF TorrentState

\* What is left untouched by a step that changes nothing of the attempts, but
\* for their clocks and cancellations, and takes nothing away from a session.
LEMMA SessionStep ==
    ASSUME P2pInv, UNCHANGED << dpc, polled, verdict, frames, carried, shown >>,
           session' \in [Torrent \union Standalone -> TorrentState],
           \A s \in Torrent \union Standalone : session'[s].got >= session[s].got
    PROVE  P2pInv'
<1>1. P2pTypes'
    BY DEF P2pInv, P2pTypes
<1>2. ASSUME NEW d \in Attempt PROVE AttemptInv(d)'
    <2>1. Here(d)'.got >= Here(d).got /\ Here(d)'.got \in Nat /\ Here(d).got \in Nat /\ polled[d] \in Nat
        BY SlotInSession, P2pAssumption DEF Here, Slot, UsesManager, P2pInv, P2pTypes, TorrentState
    <2>. QED BY <2>1 DEF P2pInv, AttemptInv
<1>. QED BY <1>1, <1>2 DEF P2pInv

\* An attempt's own steps.
LEMMA AttemptKeeps == ASSUME NEW d \in Attempt PROVE P2pInv /\ AttemptStep(d) => P2pInv'
<1> SUFFICES ASSUME P2pInv, AttemptStep(d) PROVE P2pInv'
    OBVIOUS
<1>0. /\ P2pTypes /\ \A e \in Attempt : AttemptInv(e) /\ Slot(e) \in Torrent \union Standalone
      /\ Size \in Nat
    BY SlotInSession, P2pAssumption DEF P2pInv
<1>1. CASE AddFails(d) \/ GiveUp(d)
    BY <1>0, <1>1 DEF AddFails, GiveUp, At, EndWith, GoTo, carriers, P2pInv, P2pTypes, AttemptInv, Here, Slot, UsesManager
<1>2. CASE AddTorrent(d)
    <2>1. session' = [session EXCEPT ![Slot(d)] = [session[Slot(d)] EXCEPT !.added = TRUE]]
        BY <1>2 DEF AddTorrent
    <2>2. [session[Slot(d)] EXCEPT !.added = TRUE] =
            [added |-> TRUE, metadata |-> session[Slot(d)].metadata, got |-> session[Slot(d)].got]
        BY <1>0, TorrentFields DEF P2pTypes
    <2>3. /\ session' \in [Torrent \union Standalone -> TorrentState]
          /\ \A s \in Torrent \union Standalone : session'[s].got = session[s].got
        BY <1>0, <2>1, <2>2 DEF P2pTypes, TorrentState
    <2>4. \A e \in Attempt : Here(e)'.got = Here(e).got
        BY <1>0, <2>3 DEF Here, Slot, UsesManager
    <2>. QED BY <1>0, <1>2, <2>3, <2>4 DEF AddTorrent, At, GoTo, carriers, P2pInv, P2pTypes, AttemptInv
<1>3. CASE FindMetadata(d)
    BY <1>0, <1>3 DEF FindMetadata, At, GoTo, carriers, P2pInv, P2pTypes, AttemptInv, Here, Slot, UsesManager
<1>4. CASE PollStats(d)
    <2>1. Here(d).got \in Nat /\ polled[d] \in Nat /\ polled[d] <= Here(d).got
        BY <1>0 DEF Here, P2pTypes, TorrentState, AttemptInv
    <2>2. P2pTypes'
        BY <1>0, <1>4, <2>1 DEF PollStats, GoTo, carriers, P2pTypes
    <2>3. ASSUME NEW e \in Attempt PROVE AttemptInv(e)'
        <3>1. Here(e)' = Here(e) /\ shown'[e] = shown[e] /\ carried'[e] = carried[e] /\ frames'[e] = frames[e] /\ verdict'[e] = verdict[e]
            BY <1>4 DEF PollStats, carriers, Here, Slot, UsesManager
        <3>2. /\ polled'[e] = IF e = d THEN Here(d).got ELSE polled[e]
              /\ dpc'[e] = IF e = d THEN "send" ELSE dpc[e]
            BY <1>0, <1>4 DEF PollStats, GoTo, P2pTypes
        <3>3. polled[e] <= polled'[e] /\ polled'[e] <= Here(e).got /\ polled[e] \in Nat /\ polled'[e] \in Nat
            BY <1>0, <2>1, <3>2 DEF AttemptInv, P2pTypes
        <3>4. \A i \in DOMAIN frames[e] : frames[e][i] \in Nat
            BY <1>0 DEF P2pTypes
        <3>5. verdict[e] = "success" => e # d
            BY <1>0, <1>4 DEF PollStats, At, AttemptInv
        <3>6. shown[e] \in Nat /\ carried[e] \in Nat /\ AttemptInv(e)
            BY <1>0 DEF P2pTypes
        <3>. QED BY <3>1, <3>2, <3>3, <3>4, <3>5, <3>6 DEF AttemptInv
    <2>. QED BY <2>2, <2>3 DEF P2pInv
<1>5. CASE SendFrame(d)
    <2>1. /\ frames' = [frames EXCEPT ![d] = Append(frames[d], polled[d])]
          /\ UNCHANGED << session, polled, carried, shown >>
          /\ dpc' = [dpc EXCEPT ![d] = IF polled[d] = Size THEN "report" ELSE "poll"]
          /\ verdict' = [verdict EXCEPT ![d] = IF polled[d] = Size THEN "success" ELSE verdict[d]]
        BY <1>0, <1>5 DEF SendFrame, EndWith, GoTo, carriers, P2pTypes
    <2>2. frames[d] \in Seq(Nat) /\ polled[d] \in Nat
        BY <1>0 DEF P2pTypes
    <2>3. P2pTypes'
        BY <1>0, <2>1, <2>2 DEF P2pTypes
    <2>4. ASSUME NEW e \in Attempt PROVE AttemptInv(e)'
        <3>1. CASE e = d
            <4>1. frames'[d] = Append(frames[d], polled[d])
                BY <1>0, <2>1 DEF P2pTypes
            <4>2. \A i \in DOMAIN frames'[d] : frames'[d][i] <= polled[d]
                BY <1>0, <2>2, <4>1 DEF AttemptInv
            <4>3. verdict[d] # "success"
                BY <1>0, <1>5 DEF SendFrame, At, AttemptInv
            <4>. QED BY <1>0, <2>1, <3>1, <4>2, <4>3 DEF P2pTypes, AttemptInv, Here, Slot, UsesManager
        <3>2. CASE e # d
            BY <1>0, <2>1, <3>2 DEF P2pTypes, AttemptInv, Here, Slot, UsesManager
        <3>. QED BY <3>1, <3>2
    <2>. QED BY <2>3, <2>4 DEF P2pInv
<1>. QED BY <1>1, <1>2, <1>3, <1>4, <1>5 DEF AttemptStep, AddStep, LoopStep

\* The forwarding task only moves a frame on.
LEMMA CarrierKeeps ==
    ASSUME NEW d \in Attempt PROVE P2pInv /\ (CarrierStep(d) \/ GiveFrame(d)) => P2pInv'
<1> SUFFICES ASSUME P2pInv, CarrierStep(d) \/ GiveFrame(d) PROVE P2pInv'
    OBVIOUS
<1>0. P2pTypes /\ \A e \in Attempt : AttemptInv(e)
    BY DEF P2pInv
<1>1. CASE TakeFrame(d)
    <2>1. frames[d] \in Seq(Nat) /\ frames[d] # << >> /\ polled[d] \in Nat
        BY <1>0, <1>1 DEF TakeFrame, P2pTypes
    <2>2. /\ Head(frames[d]) = frames[d][1] /\ 1 \in DOMAIN frames[d]
          /\ Tail(frames[d]) \in Seq(Nat)
          /\ \A i \in DOMAIN Tail(frames[d]) : i + 1 \in DOMAIN frames[d] /\ Tail(frames[d])[i] = frames[d][i + 1]
        BY <2>1
    <2>3. P2pTypes'
        BY <1>0, <1>1, <2>1, <2>2 DEF TakeFrame, attemptState, P2pTypes
    <2>4. ASSUME NEW e \in Attempt PROVE AttemptInv(e)'
        <3>1. CASE e = d
            <4>1. frames'[d] = Tail(frames[d]) /\ carried'[d] = frames[d][1]
                BY <1>0, <1>1, <2>2 DEF TakeFrame, P2pTypes
            <4>. QED BY <1>0, <1>1, <2>2, <3>1, <4>1 DEF TakeFrame, attemptState, AttemptInv, Here, Slot, UsesManager
        <3>2. CASE e # d
            BY <1>0, <1>1, <3>2 DEF TakeFrame, attemptState, P2pTypes, AttemptInv, Here, Slot, UsesManager
        <3>. QED BY <3>1, <3>2
    <2>. QED BY <2>3, <2>4 DEF P2pInv
<1>2. CASE CarrierEnds(d)
    BY <1>0, <1>2 DEF CarrierEnds, attemptState, P2pInv, P2pTypes, AttemptInv, Here, Slot, UsesManager
<1>3. CASE GiveFrame(d)
    BY <1>0, <1>3 DEF GiveFrame, attemptState, P2pInv, P2pTypes, AttemptInv, Here, Slot, UsesManager
<1>. QED BY <1>1, <1>2, <1>3 DEF CarrierStep

\* Attempts, carriers, sessions and the other task all keep it.
LEMMA P2pNextInv == P2pInv /\ [P2pNext]_p2pVars => P2pInv'
<1> SUFFICES ASSUME P2pInv, [P2pNext]_p2pVars PROVE P2pInv'
    OBVIOUS
<1>0. /\ session \in [Torrent \union Standalone -> TorrentState]
      /\ DOMAIN session = Torrent \union Standalone
      /\ \A s \in Torrent \union Standalone : session[s].got \in Nat /\ session[s].got >= session[s].got
      /\ Size \in Nat
    BY P2pAssumption DEF P2pInv, P2pTypes, TorrentState
<1>1. ASSUME NEW d \in Attempt, TimePasses(d) \/ AskToStop(d) \/ Watch(d) PROVE P2pInv'
    BY <1>0, <1>1, SessionStep DEF TimePasses, AskToStop, Watch, attemptState, carriers
<1>2. ASSUME NEW d \in Attempt, ReportEnd(d) PROVE P2pInv'
    BY <1>2 DEF ReportEnd, At, GoTo, carriers, P2pInv, P2pTypes, AttemptInv, Here, Slot, UsesManager
<1>3. ASSUME NEW s \in DOMAIN session, MetadataArrives(s) \/ PieceArrives(s) PROVE P2pInv'
    <2>1. PICK r : /\ session' = [session EXCEPT ![s] = r]
                   /\ r = [session[s] EXCEPT !.metadata = TRUE] \/ (session[s].got < Size /\ r = [session[s] EXCEPT !.got = session[s].got + 1])
        BY <1>3 DEF MetadataArrives, PieceArrives
    <2>2. r \in TorrentState /\ r.got >= session[s].got
        <3>1. /\ session[s] \in TorrentState
              /\ session[s].added \in BOOLEAN /\ session[s].metadata \in BOOLEAN /\ session[s].got \in 0 .. Size
            BY <1>0 DEF TorrentState
        <3>2. \/ r = [added |-> session[s].added, metadata |-> TRUE, got |-> session[s].got]
              \/ /\ session[s].got < Size
                 /\ r = [added |-> session[s].added, metadata |-> session[s].metadata, got |-> session[s].got + 1]
            <4>1. \A v : /\ [session[s] EXCEPT !.metadata = v] = [added |-> session[s].added, metadata |-> v, got |-> session[s].got]
                         /\ [session[s] EXCEPT !.got = v] = [added |-> session[s].added, metadata |-> session[s].metadata, got |-> v]
                BY <3>1, TorrentFields
            <4>2. [session[s] EXCEPT !.metadata = TRUE] = [added |-> session[s].added, metadata |-> TRUE, got |-> session[s].got]
                BY <4>1
            <4>3. [session[s] EXCEPT !.got = session[s].got + 1] =
                    [added |-> session[s].added, metadata |-> session[s].metadata, got |-> session[s].got + 1]
                BY <4>1
            <4>. QED BY <2>1, <4>2, <4>3
        <3>3. CASE r = [added |-> session[s].added, metadata |-> TRUE, got |-> session[s].got]
            BY <3>1, <3>3, <1>0 DEF TorrentState
        <3>4. CASE /\ session[s].got < Size
                   /\ r = [added |-> session[s].added, metadata |-> session[s].metadata, got |-> session[s].got + 1]
            BY <3>1, <3>4, <1>0 DEF TorrentState
        <3>. QED BY <3>2, <3>3, <3>4
    <2>3. /\ session' \in [Torrent \union Standalone -> TorrentState]
          /\ \A k \in Torrent \union Standalone : session'[k].got >= session[k].got
        BY <1>0, <2>1, <2>2
    <2>. QED BY <1>3, <2>3, SessionStep DEF MetadataArrives, PieceArrives, attemptState, carriers
<1>4. CASE OtherTaskSends \/ Link
    BY <1>0, <1>4, SessionStep DEF OtherTaskSends, Link, attemptState, carriers
<1>5. CASE UNCHANGED p2pVars
    BY <1>0, <1>5, SessionStep DEF p2pVars, attemptState, carriers
<1>. QED BY <1>1, <1>2, <1>3, <1>4, <1>5, AttemptKeeps, CarrierKeeps DEF P2pNext

\* No attempt has read anything at first.
LEMMA P2pInitInv == P2pInit => P2pInv
<1> SUFFICES ASSUME P2pInit PROVE P2pInv
    OBVIOUS
<1>1. Size \in Nat /\ 0 \in 0 .. Size
    BY P2pAssumption
<1>2. Absent \in TorrentState /\ Leftover \subseteq TorrentState
    <2>1. Absent \in TorrentState
        BY <1>1 DEF Absent, TorrentState
    <2>2. ASSUME NEW r \in Leftover PROVE r \in TorrentState
        <3>1. CASE r \in [added : {TRUE}, metadata : {FALSE}, got : {0}]
            BY <1>1, <3>1 DEF TorrentState
        <3>2. CASE r \in [added : {TRUE}, metadata : {TRUE}, got : 0 .. Size]
            BY <1>1, <3>2 DEF TorrentState
        <3>. QED BY <2>1, <3>1, <3>2 DEF Leftover
    <2>. QED BY <2>1, <2>2
<1>3. session \in [Torrent \union Standalone -> TorrentState]
    BY <1>2 DEF P2pInit
<1>4. \A d \in Attempt : Here(d).got \in Nat
    BY <1>1, <1>3, SlotInSession DEF Here, TorrentState
<1>. QED BY <1>3, <1>4 DEF P2pInit, P2pInv, P2pTypes, AttemptInv

\* Success is only reported of a torrent whose session has every piece, and no
\* frame under way says more than the report, for any attempts, sizes and
\* sessions: pieces are never taken back while an attempt polls (cli/p2p/bt.rs).
THEOREM SuccessBacked == P2pSpec => []SuccessIsBacked
<1>1. P2pInv => SuccessIsBacked
    <2> SUFFICES ASSUME P2pInv, NEW d \in Attempt, verdict[d] = "success"
                 PROVE  /\ Here(d).got = Size
                        /\ \A n \in {shown[d], carried[d]} \union {frames[d][i] : i \in DOMAIN frames[d]} : n <= polled[d]
                        /\ polled[d] = Size
        BY DEF SuccessIsBacked
    <2>1. Here(d).got \in 0 .. Size /\ polled[d] = Size /\ polled[d] <= Here(d).got /\ Size \in Nat
        BY SlotInSession, P2pAssumption DEF P2pInv, P2pTypes, AttemptInv, TorrentState, Here
    <2>. QED BY <2>1 DEF P2pInv, AttemptInv
<1>. QED BY <1>1, P2pInitInv, P2pNextInv, PTL DEF P2pSpec

-----------------------------------------------------------------------------
(* The download queue                                                      *)

\* A task that is pushed again has an attempt left.
QueueTask == [ih : Infohash, retries : 0 .. MaxRetries - 1, ripe : BOOLEAN]

\* A runner has a task in its hands between pop and the outcome.
Holding == {"room", "begin", "download", "failed"}
RunnerState == Holding \union {"pop", "empty", "last", "returned"}

\* The queue holds tasks with attempts left; a runner holds one or none.
QueueTypes ==
    /\ queue \in Seq(QueueTask)
    /\ rpc \in [Runner -> RunnerState]
    /\ task \in [Runner -> QueueTask \union {NoTask}]
    /\ \A r \in Runner : IF rpc[r] \in Holding THEN task[r] \in QueueTask ELSE task[r] = NoTask
    /\ asks \in [Feeder -> Infohash]
    /\ accepted \in [Infohash -> Nat] /\ attempts \in [Infohash -> Nat]

\* Where an infohash that enqueue accepted can be found.
Kept(ih) ==
    \/ ih \in failed
    \/ \E i \in DOMAIN queue : queue[i].ih = ih
    \/ \E r \in Runner : task[r].ih = ih

\* Every accepted torrent is kept somewhere.
QueueInv == QueueTypes /\ \A ih \in Infohash : accepted[ih] > 0 => Kept(ih)

-----------------------------------------------------------------------------
(* The sequence operations of the queue *)

\* A set of naturals that is not empty has a least element.
LEMMA LeastElement ==
    ASSUME NEW S \in SUBSET Nat, S # {}
    PROVE  \E n \in S : \A m \in S : n <= m
<1> DEFINE R == OpToRel(<, Nat)
<1>1. IsWellFoundedOn(R, Nat)
    BY NatLessThanWellFounded, Zenon
<1>2. \A x, y \in Nat : << y, x >> \in R <=> y < x
    BY Zenon DEF OpToRel
<1> HIDE DEF R
<1>3. PICK x \in S : \A y \in S : << y, x >> \notin R
    BY <1>1, WFMin
<1>4. \A y \in S : ~(y < x)
    BY <1>2, <1>3
<1>. QED BY <1>4

\* pop takes the task at the smallest index that is ripe.
LEMMA FirstRipeExists ==
    ASSUME queue \in Seq(QueueTask), SomeRipe
    PROVE  FirstRipe \in DOMAIN queue
<1> DEFINE R == {i \in DOMAIN queue : queue[i].ripe}
<1>1. DOMAIN queue = 1 .. Len(queue) /\ Len(queue) \in Nat
    OBVIOUS
<1>2. R \in SUBSET Nat /\ R # {}
    BY <1>1 DEF SomeRipe
<1>3. PICK n \in R : \A m \in R : n <= m
    BY <1>2, LeastElement
<1>4. \A j \in 1 .. n - 1 : ~queue[j].ripe
    BY <1>1, <1>3
<1>5. \E i \in DOMAIN queue : queue[i].ripe /\ \A j \in 1 .. i - 1 : ~queue[j].ripe
    BY <1>3, <1>4
<1>. QED BY <1>5 DEF FirstRipe

\* The element at an index goes, and those behind it move up.
LEMMA RemoveAtElements ==
    ASSUME NEW S, NEW s \in Seq(S), NEW i \in DOMAIN s
    PROVE  /\ RemoveAt(s, i) \in Seq(S)
           /\ Len(RemoveAt(s, i)) = Len(s) - 1
           /\ \A j \in 1 .. Len(s) - 1 : RemoveAt(s, i)[j] = s[IF j < i THEN j ELSE j + 1]
<1> DEFINE a == SubSeq(s, 1, i - 1)
           b == SubSeq(s, i + 1, Len(s))
<1>0. Len(s) \in Nat /\ i \in 1 .. Len(s) /\ \A j \in 1 .. Len(s) : s[j] \in S
    OBVIOUS
<1>1. /\ a \in Seq(S) /\ Len(a) = i - 1 /\ \A j \in 1 .. i - 1 : a[j] = s[j]
    <2>1. \A j \in 1 .. i - 1 : s[j] \in S
        BY <1>0
    <2>2. /\ a \in Seq(S) /\ Len(a) = IF 1 <= i - 1 THEN i - 1 - 1 + 1 ELSE 0
          /\ \A j \in 1 .. i - 1 - 1 + 1 : a[j] = s[1 + j - 1]
        <3>1. 1 \in Int /\ i - 1 \in Int
            BY <1>0
        <3>. QED BY <2>1, <3>1, SubSeqProperties
    <2> HIDE DEF a
    <2>3. Len(a) = i - 1
        BY <1>0, <2>2
    <2>4. \A j \in 1 .. i - 1 : a[j] = s[j]
        <3>1. \A j \in 1 .. i - 1 : j \in 1 .. i - 1 - 1 + 1 /\ 1 + j - 1 = j
            BY <1>0
        <3>. QED BY <2>2, <3>1
    <2>. QED BY <2>2, <2>3, <2>4
<1>2. /\ b \in Seq(S) /\ Len(b) = Len(s) - i /\ \A j \in 1 .. Len(s) - i : b[j] = s[i + j]
    <2>1. \A j \in i + 1 .. Len(s) : s[j] \in S
        BY <1>0
    <2>2. /\ b \in Seq(S) /\ Len(b) = IF i + 1 <= Len(s) THEN Len(s) - (i + 1) + 1 ELSE 0
          /\ \A j \in 1 .. Len(s) - (i + 1) + 1 : b[j] = s[i + 1 + j - 1]
        BY <1>0, <2>1, SubSeqProperties
    <2> HIDE DEF b
    <2>. QED BY <1>0, <2>2
<1>3. RemoveAt(s, i) = a \o b
    BY DEF RemoveAt
<1> HIDE DEF a, b
<1>4. /\ a \o b \in Seq(S) /\ Len(a \o b) = Len(a) + Len(b)
      /\ \A j \in 1 .. Len(a) + Len(b) : (a \o b)[j] = IF j <= Len(a) THEN a[j] ELSE b[j - Len(a)]
    BY <1>1, <1>2, ConcatProperties
<1>5. ASSUME NEW j \in 1 .. Len(s) - 1 PROVE (a \o b)[j] = s[IF j < i THEN j ELSE j + 1]
    <2>0. Len(a) + Len(b) = Len(s) - 1 /\ Len(a) = i - 1
        BY <1>0, <1>1, <1>2
    <2>1. CASE j < i
        <3>1. j \in 1 .. i - 1 /\ j <= Len(a)
            BY <1>0, <2>0, <2>1
        <3>. QED BY <1>1, <1>4, <2>0, <2>1, <3>1
    <2>2. CASE ~(j < i)
        <3>1. j - (i - 1) \in 1 .. Len(s) - i /\ i + (j - (i - 1)) = j + 1 /\ ~(j <= Len(a))
            BY <1>0, <2>0, <2>2
        <3>2. (a \o b)[j] = b[j - (i - 1)]
            BY <1>4, <2>0, <3>1
        <3>. QED BY <1>2, <2>2, <3>1, <3>2
    <2>. QED BY <2>1, <2>2
<1>6. Len(a \o b) = Len(s) - 1
    BY <1>0, <1>1, <1>2, <1>4
<1>7. \A j \in 1 .. Len(s) - 1 : (a \o b)[j] = s[IF j < i THEN j ELSE j + 1]
    BY <1>5
<1>. QED BY <1>3, <1>4, <1>6, <1>7

-----------------------------------------------------------------------------
(* Nothing is forgotten *)

\* A task with its backoff ended, and one that is to be tried again.
LEMMA TaskFields ==
    ASSUME NEW t \in QueueTask, NEW v, NEW w
    PROVE  /\ [t EXCEPT !.ripe = v] = [ih |-> t.ih, retries |-> t.retries, ripe |-> v]
           /\ [t EXCEPT !.retries = w, !.ripe = v] = [ih |-> t.ih, retries |-> w, ripe |-> v]
<1>1. t = [ih |-> t.ih, retries |-> t.retries, ripe |-> t.ripe]
    BY DEF QueueTask
<1>2. [t EXCEPT !.ripe = v] = [ih |-> t.ih, retries |-> t.retries, ripe |-> v]
    BY <1>1
<1>3. [t EXCEPT !.retries = w, !.ripe = v] = [ih |-> t.ih, retries |-> w, ripe |-> v]
    <2> DEFINE a == [t EXCEPT !.retries = w, !.ripe = v]
    <2>1. a = [t EXCEPT !.retries = w, !.ripe = v]
        OBVIOUS
    <2> HIDE DEF a
    <2>2. a = [ih |-> t.ih, retries |-> w, ripe |-> v]
        BY ONLY <1>1, <2>1, Zenon
    <2>. QED BY <2>2 DEF a
<1>. QED BY <1>2, <1>3

\* An empty-handed runner holds no torrent's task.
LEMMA NoTaskHasNone == NoTask.ih \notin Infohash
BY QueueAssumption DEF NoTask

\* What each step does to the queue, to the task of its runner, and to the
\* bookkeeping, by the operations a reader of the queue knows.
Pushed(t) == queue' = Append(queue, t)

\* Appending to the queue keeps what was in it.
LEMMA PushKeeps ==
    ASSUME QueueTypes, NEW t \in QueueTask, Pushed(t)
    PROVE  /\ queue' \in Seq(QueueTask)
           /\ \A i \in DOMAIN queue : i \in DOMAIN queue' /\ queue'[i] = queue[i]
           /\ Len(queue) + 1 \in DOMAIN queue' /\ queue'[Len(queue) + 1] = t
BY DEF QueueTypes, Pushed

\* Steps that leave the tasks where they are.
LEMMA TasksStay ==
    ASSUME QueueInv, UNCHANGED << queue, failed, task, accepted >>,
           rpc' \in [Runner -> RunnerState],
           \A r \in Runner : rpc'[r] \in Holding <=> rpc[r] \in Holding,
           asks' \in [Feeder -> Infohash], attempts' \in [Infohash -> Nat]
    PROVE  QueueInv'
BY DEF QueueInv, QueueTypes, Kept

\* A feeder adds a torrent only where it lies in a collection.
LEMMA FeederKeeps == ASSUME NEW f \in Feeder PROVE QueueInv /\ FeederStep(f) => QueueInv'
<1> SUFFICES ASSUME QueueInv, FeederStep(f) PROVE QueueInv'
    OBVIOUS
<1>0. QueueTypes /\ \A ih \in Infohash : accepted[ih] > 0 => Kept(ih)
    BY DEF QueueInv
<1>1. ASSUME NEW ih \in Infohash, Ask(f, ih) PROVE QueueInv'
    BY <1>0, <1>1, TasksStay DEF Ask, collections, runners, QueueTypes
<1>2. CASE LookIntoCompleted(f) \/ LookIntoInProgress(f) \/ Reject(f)
    BY <1>0, <1>2, TasksStay DEF LookIntoCompleted, LookIntoInProgress, Reject, collections, runners, QueueTypes
<1>3. CASE PushNew(f)
    <2> DEFINE t == [ih |-> asks[f], retries |-> 0, ripe |-> TRUE]
    <2>1. t \in QueueTask /\ t.ih = asks[f] /\ Pushed(t)
        BY <1>0, <1>3, QueueAssumption DEF PushNew, Pushed, QueueTypes, QueueTask
    <2> HIDE DEF t
    <2>2. UNCHANGED << rpc, task, asks, failed, attempts >> /\ accepted' = [accepted EXCEPT ![asks[f]] = accepted[asks[f]] + 1]
        BY <1>3 DEF PushNew, runners, Bump
    <2>3. QueueTypes'
        BY <1>0, <2>1, <2>2, PushKeeps DEF QueueTypes
    <2>4. ASSUME NEW ih \in Infohash, accepted'[ih] > 0 PROVE Kept(ih)'
        <3>1. CASE ih = asks[f]
            <4>1. \E i \in DOMAIN queue' : queue'[i].ih = ih
                BY <1>0, <2>1, <3>1, PushKeeps
            <4>. QED BY <4>1 DEF Kept
        <3>2. CASE ih # asks[f]
            <4>1. Kept(ih)
                BY <1>0, <2>2, <2>4, <3>2 DEF QueueTypes
            <4>2. \A i \in DOMAIN queue : i \in DOMAIN queue' /\ queue'[i] = queue[i]
                BY <1>0, <2>1, PushKeeps
            <4>. QED BY <2>2, <4>1, <4>2 DEF Kept
        <3>. QED BY <3>1, <3>2
    <2>. QED BY <2>3, <2>4 DEF QueueInv
<1>. QED BY <1>1, <1>2, <1>3 DEF FeederStep

\* A runner moves a task between the queue, its hands and the collections.
LEMMA RunnerKeeps == ASSUME NEW r \in Runner PROVE QueueInv /\ RunnerStep(r) => QueueInv'
<1> SUFFICES ASSUME QueueInv, RunnerStep(r) PROVE QueueInv'
    OBVIOUS
<1>0. QueueTypes /\ \A ih \in Infohash : accepted[ih] > 0 => Kept(ih)
    BY DEF QueueInv
<1>1. CASE FindNothing(r) \/ LookForTasks(r) \/ LookForDownloads(r) \/ FindRoom(r) \/ EndDownload(r)
    BY <1>0, <1>1, TasksStay
    DEF FindNothing, LookForTasks, LookForDownloads, FindRoom, EndDownload, collections, feeders,
        QueueTypes, RunnerState, Holding
<1>2. CASE BeginDownload(r)
    <2>1. task[r] \in QueueTask /\ task[r].ih \in Infohash
        BY <1>0, <1>2 DEF BeginDownload, QueueTypes, Holding, QueueTask
    <2>. QED BY <1>0, <1>2, <2>1, TasksStay
         DEF BeginDownload, Bump, feeders, QueueTypes, RunnerState, Holding
<1>3. CASE Pop(r)
    <2> DEFINE i == FirstRipe
    <2>1. i \in DOMAIN queue /\ queue \in Seq(QueueTask)
        BY <1>0, <1>3, FirstRipeExists DEF Pop, QueueTypes
    <2>2. /\ queue' = RemoveAt(queue, i) /\ task' = [task EXCEPT ![r] = queue[i]]
          /\ rpc' = [rpc EXCEPT ![r] = "room"] /\ rpc[r] = "pop"
          /\ UNCHANGED << failed, asks, accepted, attempts >>
        BY <1>3 DEF Pop, feeders
    <2> HIDE DEF i
    <2>3. /\ queue' \in Seq(QueueTask) /\ Len(queue') = Len(queue) - 1
          /\ \A j \in 1 .. Len(queue) - 1 : queue'[j] = queue[IF j < i THEN j ELSE j + 1]
        BY <2>1, <2>2, RemoveAtElements
    <2>4. QueueTypes'
        BY <1>0, <2>1, <2>2, <2>3 DEF QueueTypes, RunnerState, Holding
    <2>5. \A j \in DOMAIN queue : j = i \/ \E k \in DOMAIN queue' : queue'[k] = queue[j]
        <3> SUFFICES ASSUME NEW j \in DOMAIN queue, j # i PROVE \E k \in DOMAIN queue' : queue'[k] = queue[j]
            OBVIOUS
        <3>0. j \in 1 .. Len(queue) /\ i \in 1 .. Len(queue) /\ Len(queue) \in Nat
            BY <2>1
        <3>1. CASE j < i
            <4>1. j \in 1 .. Len(queue) - 1 /\ j \in DOMAIN queue' /\ queue'[j] = queue[j]
                BY <2>3, <3>0, <3>1
            <4>. QED BY <4>1
        <3>2. CASE j > i
            <4>1. j - 1 \in 1 .. Len(queue) - 1 /\ ~(j - 1 < i) /\ j - 1 + 1 = j /\ j - 1 \in DOMAIN queue'
                BY <2>3, <3>0, <3>2
            <4>2. queue'[j - 1] = queue[j]
                BY <2>3, <4>1
            <4>. QED BY <4>1, <4>2
        <3>. QED BY <3>0, <3>1, <3>2
    <2>6. ASSUME NEW ih \in Infohash, accepted'[ih] > 0 PROVE Kept(ih)'
        <3>1. Kept(ih)
            BY <1>0, <2>2, <2>6
        <3>2. task[r].ih # ih /\ task'[r] = queue[i] /\ \A q \in Runner : q # r => task'[q] = task[q]
            BY <1>0, <2>2, NoTaskHasNone DEF QueueTypes, Holding
        <3>. QED BY <2>2, <2>5, <3>1, <3>2 DEF Kept
    <2>. QED BY <2>4, <2>6 DEF QueueInv
<1>4. CASE Retry(r)
    <2> DEFINE t == [task[r] EXCEPT !.retries = task[r].retries + 1, !.ripe = FALSE]
    <2>1. task[r] \in QueueTask /\ rpc[r] = "failed"
        BY <1>0, <1>4 DEF Retry, QueueTypes, Holding
    <2>2. t = [ih |-> task[r].ih, retries |-> task[r].retries + 1, ripe |-> FALSE]
        BY <2>1, TaskFields
    <2>3. /\ Pushed(t) /\ task' = [task EXCEPT ![r] = NoTask] /\ rpc' = [rpc EXCEPT ![r] = "pop"]
          /\ UNCHANGED << failed, asks, accepted, attempts >>
        BY <1>4 DEF Retry, Pushed, feeders
    <2> HIDE DEF t
    <2>4. t \in QueueTask /\ t.ih = task[r].ih
        BY <1>4, <2>1, <2>2, QueueAssumption DEF Retry, QueueTask
    <2>5. QueueTypes'
        BY <1>0, <2>3, <2>4, PushKeeps DEF QueueTypes, RunnerState, Holding
    <2>6. ASSUME NEW ih \in Infohash, accepted'[ih] > 0 PROVE Kept(ih)'
        <3>1. Kept(ih)
            BY <1>0, <2>3, <2>6
        <3>2. \A q \in Runner : q # r => task'[q] = task[q]
            BY <1>0, <2>3 DEF QueueTypes
        <3>3. /\ \A j \in DOMAIN queue : j \in DOMAIN queue' /\ queue'[j] = queue[j]
              /\ \E j \in DOMAIN queue' : queue'[j].ih = task[r].ih
            BY <1>0, <2>3, <2>4, PushKeeps
        <3>. QED BY <2>3, <3>1, <3>2, <3>3 DEF Kept
    <2>. QED BY <2>5, <2>6 DEF QueueInv
<1>5. CASE MarkFailed(r)
    <2>1. /\ task' = [task EXCEPT ![r] = NoTask] /\ rpc' = [rpc EXCEPT ![r] = "pop"]
          /\ failed' = failed \union {task[r].ih}
          /\ UNCHANGED << queue, asks, accepted, attempts >>
        BY <1>5 DEF MarkFailed, feeders
    <2>2. QueueTypes'
        BY <1>0, <2>1 DEF QueueTypes, RunnerState, Holding
    <2>3. ASSUME NEW ih \in Infohash, accepted'[ih] > 0 PROVE Kept(ih)'
        <3>1. Kept(ih) /\ \A q \in Runner : q # r => task'[q] = task[q]
            BY <1>0, <2>1, <2>3 DEF QueueTypes
        <3>. QED BY <2>1, <3>1 DEF Kept
    <2>. QED BY <2>2, <2>3 DEF QueueInv
<1>. QED BY <1>1, <1>2, <1>3, <1>4, <1>5 DEF RunnerStep

\* The end of a backoff changes no more than a flag.
LEMMA RipenTask ==
    ASSUME QueueTypes, NEW i, Ripen(i)
    PROVE  /\ queue' \in Seq(QueueTask) /\ Len(queue') = Len(queue)
           /\ \A j \in DOMAIN queue : queue'[j].ih = queue[j].ih /\ queue'[j].retries = queue[j].retries
<1> DEFINE t == [queue[i] EXCEPT !.ripe = TRUE]
<1>1. i \in DOMAIN queue /\ queue \in Seq(QueueTask) /\ queue[i] \in QueueTask
    BY DEF Ripen, QueueTypes
<1>2. \A v : [queue[i] EXCEPT !.ripe = v] = [ih |-> queue[i].ih, retries |-> queue[i].retries, ripe |-> v]
    BY <1>1, TaskFields
<1>3. queue' = [queue EXCEPT ![i] = t] /\ t = [ih |-> queue[i].ih, retries |-> queue[i].retries, ripe |-> TRUE]
    BY <1>2 DEF Ripen
<1> HIDE DEF t
<1>4. t \in QueueTask /\ t.ih = queue[i].ih /\ t.retries = queue[i].retries
    BY <1>1, <1>3 DEF QueueTask
<1>. QED BY <1>1, <1>3, <1>4

\* So does every step, the ripening of a waiting task included.
LEMMA QueueStep == QueueInv /\ [QueueNext]_queueVars => QueueInv'
<1> SUFFICES ASSUME QueueInv, [QueueNext]_queueVars PROVE QueueInv'
    OBVIOUS
<1>1. ASSUME NEW i, Ripen(i) PROVE QueueInv'
    <2>1. UNCHANGED << failed, rpc, task, asks, accepted, attempts >>
        BY <1>1 DEF Ripen, feeders, runners
    <2>2. /\ queue' \in Seq(QueueTask) /\ DOMAIN queue' = DOMAIN queue
          /\ \A j \in DOMAIN queue : queue'[j].ih = queue[j].ih
        BY <1>1, RipenTask DEF QueueInv, QueueTypes
    <2>. QED BY <2>1, <2>2 DEF QueueInv, QueueTypes, Kept
<1>2. CASE UNCHANGED queueVars
    BY <1>2, TasksStay DEF queueVars, collections, feeders, runners, QueueInv, QueueTypes
<1>. QED BY <1>1, <1>2, FeederKeeps, RunnerKeeps DEF QueueNext, Backoff

\* Whatever enqueue has answered true to is queued, in the hands of a run or
\* marked as failed, whatever the locks let happen between the look into one
\* collection and the next (download_queue.rs:137-175).
THEOREM AcceptedIsKept == QueueSpec => []NothingForgotten
<1>1. QueueInit => QueueInv
    BY DEF QueueInit, QueueInv, QueueTypes, RunnerState, Holding
<1>2. QueueInv => NothingForgotten
    BY DEF QueueInv, Kept, NothingForgotten
<1>. QED BY <1>1, <1>2, QueueStep, PTL DEF QueueSpec

-----------------------------------------------------------------------------
(* No infohash is tried too often *)

\* An attempt that a task has left, by where the task is.
QSlot(i, k) == << "queue", i, k >>
RSlot(r, k) == << "run", r, k >>

\* Every token there may be.
Slots == {QSlot(i, k) : i \in Nat, k \in Nat} \union {RSlot(r, k) : r \in Runner, k \in Nat}

\* Tokens of queue places and of runners' hands are never the same.
LEMMA SlotsApart ==
    /\ \A i, j, k, l : QSlot(i, k) = QSlot(j, l) => i = j /\ k = l
    /\ \A q, r, k, l : RSlot(q, k) = RSlot(r, l) => q = r /\ k = l
    /\ \A i, r, k, l : QSlot(i, k) # RSlot(r, l)
    /\ \A i, k \in Nat : QSlot(i, k) \in Slots
    /\ \A r \in Runner : \A k \in Nat : RSlot(r, k) \in Slots
BY DEF QSlot, RSlot, Slots

\* A runner has used the attempt it has begun.
Spent(r) == IF rpc[r] \in {"download", "failed"} THEN task[r].retries + 1 ELSE task[r].retries

\* The attempts a queued task has left, as tokens of its place.
InQueue(ih, i, k) ==
    /\ i \in DOMAIN queue /\ k \in 1 .. MaxRetries
    /\ queue[i].ih = ih /\ k > queue[i].retries

\* The attempts the task in a runner's hands has left, as tokens of the runner.
InHands(ih, r, k) ==
    /\ r \in Runner /\ k \in 1 .. MaxRetries
    /\ task[r].ih = ih /\ k > Spent(r)

\* The attempts an infohash has left, of all tasks for it, its duplicates
\* included.
Left(ih) == {x \in Slots : \/ \E i, k : x = QSlot(i, k) /\ InQueue(ih, i, k)
                          \/ \E r, k : x = RSlot(r, k) /\ InHands(ih, r, k)}

\* Attempts made and tokens left never sum to more than the budget.
BudgetInv ==
    /\ QueueInv
    /\ \A ih \in Infohash :
        /\ IsFiniteSet(Left(ih))
        /\ attempts[ih] + Cardinality(Left(ih)) <= MaxRetries * accepted[ih]

\* What a token being left means, place by place.
LEMMA LeftMembers ==
    ASSUME QueueTypes, NEW ih
    PROVE  /\ \A i, k : QSlot(i, k) \in Left(ih) <=> InQueue(ih, i, k)
           /\ \A r, k : RSlot(r, k) \in Left(ih) <=> InHands(ih, r, k)
           /\ \A x \in Left(ih) : \/ \E i, k : x = QSlot(i, k) /\ InQueue(ih, i, k)
                               \/ \E r, k : x = RSlot(r, k) /\ InHands(ih, r, k)
<1>1. \A i, k : InQueue(ih, i, k) => i \in Nat /\ k \in Nat
    BY DEF InQueue, QueueTypes
<1>2. \A r, k : InHands(ih, r, k) => r \in Runner /\ k \in Nat
    BY DEF InHands
<1>. QED BY <1>1, <1>2, SlotsApart DEF Left

\* If everything in T is paired with something in S, and nothing in S with two
\* things in T, then there is no more in T than in S.
LEMMA Pairing ==
    ASSUME NEW S, IsFiniteSet(S), NEW T, NEW Pairs,
           \A x \in T : \E s \in S : << s, x >> \in Pairs,
           \A s \in S : \A x, y \in T : << s, x >> \in Pairs /\ << s, y >> \in Pairs => x = y
    PROVE  IsFiniteSet(T) /\ Cardinality(T) <= Cardinality(S)
<1> DEFINE g == [x \in T |-> CHOOSE s \in S : << s, x >> \in Pairs]
<1>1. \A x \in T : g[x] \in S /\ << g[x], x >> \in Pairs
    OBVIOUS
<1>2. g \in [T -> S]
    BY <1>1
<1>3. \A x, y \in T : g[x] = g[y] => x = y
    BY <1>1
<1>4. g \in Injection(T, S)
    BY <1>2, <1>3 DEF Injection, IsInjective
<1>. QED BY <1>4, FS_Injection

\* A step that begins no download and accepts nothing may only keep or lose what
\* is left.
LEMMA BudgetKept ==
    ASSUME BudgetInv, QueueInv', UNCHANGED << accepted, attempts >>,
           \A ih \in Infohash : IsFiniteSet(Left(ih)') /\ Cardinality(Left(ih)') <= Cardinality(Left(ih))
    PROVE  BudgetInv'
<1>1. ASSUME NEW ih \in Infohash PROVE attempts'[ih] + Cardinality(Left(ih)') <= MaxRetries * accepted'[ih]
    <2>1. /\ attempts[ih] + Cardinality(Left(ih)) <= MaxRetries * accepted[ih] /\ IsFiniteSet(Left(ih))
          /\ attempts[ih] \in Nat /\ accepted[ih] \in Nat /\ MaxRetries \in Nat
        BY QueueAssumption DEF BudgetInv, QueueInv, QueueTypes
    <2>2. Cardinality(Left(ih)) \in Nat /\ Cardinality(Left(ih)') \in Nat
        BY <2>1, FS_CardinalityType
    <2>3. MaxRetries * accepted'[ih] = MaxRetries * accepted[ih]
        OBVIOUS
    <2>. QED BY <2>1, <2>2, <2>3
<1>. QED BY <1>1 DEF BudgetInv

\* Steps that move no task, begin no download and accept nothing.
LEMMA LeftKept ==
    ASSUME BudgetInv, QueueInv', UNCHANGED << accepted, attempts >>,
           \A ih \in Infohash : \A i, k : InQueue(ih, i, k)' <=> InQueue(ih, i, k),
           \A ih \in Infohash : \A r, k : InHands(ih, r, k)' <=> InHands(ih, r, k)
    PROVE  BudgetInv'
<1>1. \A ih \in Infohash : Left(ih)' = Left(ih)
    BY DEF Left
<1>. QED BY <1>1 DEF BudgetInv

\* pop takes the attempts of a task from the queue into the runner's hands; the
\* tasks behind it move up.
LEMMA PopBudget ==
    ASSUME BudgetInv, QueueInv', NEW r \in Runner, Pop(r)
    PROVE  BudgetInv'
<1> DEFINE n == FirstRipe
<1>0. QueueTypes /\ QueueTypes'
    BY DEF BudgetInv, QueueInv
<1>1. n \in DOMAIN queue /\ queue \in Seq(QueueTask)
    BY <1>0, FirstRipeExists DEF Pop, QueueTypes
<1>2. /\ queue' = RemoveAt(queue, n) /\ task' = [task EXCEPT ![r] = queue[n]]
      /\ rpc' = [rpc EXCEPT ![r] = "room"] /\ rpc[r] = "pop"
      /\ UNCHANGED << accepted, attempts >>
    BY DEF Pop
<1> HIDE DEF n
<1>3. /\ queue' \in Seq(QueueTask) /\ Len(queue') = Len(queue) - 1
      /\ \A j \in 1 .. Len(queue) - 1 : queue'[j] = queue[IF j < n THEN j ELSE j + 1]
    BY <1>1, <1>2, RemoveAtElements
<1>4. ASSUME NEW ih \in Infohash PROVE IsFiniteSet(Left(ih)') /\ Cardinality(Left(ih)') <= Cardinality(Left(ih))
    <2> DEFINE Was(i, k) == QSlot(IF i < n THEN i ELSE i + 1, k)
               Moved(s, x) == \E i, k \in Nat : s = Was(i, k) /\ x = QSlot(i, k)
               Taken(s, x) == \E k \in Nat : s = QSlot(n, k) /\ x = RSlot(r, k)
               Same(s, x) == \E q \in Runner \ {r} : \E k \in Nat : s = RSlot(q, k) /\ x = s
               Pairs == {p \in Slots \X Slots : Moved(p[1], p[2]) \/ Taken(p[1], p[2]) \/ Same(p[1], p[2])}
    <2>0. /\ \A s, x \in Slots : Moved(s, x) \/ Taken(s, x) \/ Same(s, x) => << s, x >> \in Pairs
          /\ \A s, x : << s, x >> \in Pairs => Moved(s, x) \/ Taken(s, x) \/ Same(s, x)
        <3> HIDE DEF Moved, Taken, Same
        <3>. QED OBVIOUS
    <2> HIDE DEF Pairs
    <2>1. ASSUME NEW i, NEW k, InQueue(ih, i, k)'
          PROVE  /\ i \in Nat /\ k \in Nat
                 /\ Was(i, k) \in Left(ih) /\ << Was(i, k), QSlot(i, k) >> \in Pairs
        <3>1. i \in 1 .. Len(queue) - 1 /\ k \in 1 .. MaxRetries /\ i \in Nat /\ k \in Nat
            BY <1>3, <2>1 DEF InQueue
        <3>2. (IF i < n THEN i ELSE i + 1) \in DOMAIN queue
            BY <1>1, <3>1
        <3>3. InQueue(ih, IF i < n THEN i ELSE i + 1, k)
            BY <1>3, <2>1, <3>1, <3>2 DEF InQueue
        <3>4. Was(i, k) \in Left(ih) /\ Was(i, k) \in Slots /\ QSlot(i, k) \in Slots
            BY <1>0, <1>1, <3>1, <3>3, LeftMembers, SlotsApart
        <3>5. Moved(Was(i, k), QSlot(i, k))
            BY <3>1
        <3>. QED BY <2>0, <3>1, <3>4, <3>5
    <2>2. ASSUME NEW q, NEW k, InHands(ih, q, k)'
          PROVE  \E s \in Left(ih) : << s, RSlot(q, k) >> \in Pairs
        <3>1. q \in Runner /\ k \in 1 .. MaxRetries /\ k \in Nat
            BY <2>2 DEF InHands
        <3>2. CASE q = r
            <4>1. task'[r] = queue[n] /\ Spent(r)' = queue[n].retries
                BY <1>0, <1>2 DEF QueueTypes, Spent
            <4>2. InQueue(ih, n, k)
                BY <1>1, <2>2, <3>1, <3>2, <4>1 DEF InHands, InQueue
            <4>3. QSlot(n, k) \in Left(ih) /\ QSlot(n, k) \in Slots /\ RSlot(r, k) \in Slots
                BY <1>0, <1>1, <3>1, <4>2, LeftMembers, SlotsApart
            <4>4. Taken(QSlot(n, k), RSlot(r, k))
                BY <3>1
            <4>. QED BY <2>0, <3>2, <4>3, <4>4
        <3>3. CASE q # r
            <4>1. InHands(ih, q, k)
                BY <1>0, <1>2, <2>2, <3>1, <3>3 DEF QueueTypes, InHands, Spent
            <4>2. RSlot(q, k) \in Left(ih) /\ RSlot(q, k) \in Slots
                BY <1>0, <3>1, <4>1, LeftMembers, SlotsApart
            <4>3. Same(RSlot(q, k), RSlot(q, k))
                BY <3>1, <3>3
            <4>. QED BY <2>0, <4>2, <4>3
        <3>. QED BY <3>2, <3>3
    <2>3. \A x \in Left(ih)' : \E s \in Left(ih) : << s, x >> \in Pairs
        <3>1. ASSUME NEW x \in Left(ih)' PROVE \E s \in Left(ih) : << s, x >> \in Pairs
            <4>1. CASE \E i, k : x = QSlot(i, k) /\ InQueue(ih, i, k)'
                BY <2>1, <4>1
            <4>2. CASE \E q, k : x = RSlot(q, k) /\ InHands(ih, q, k)'
                BY <2>2, <4>2
            <4>. QED BY <4>1, <4>2 DEF Left
        <3>. QED BY <3>1
    <2>4. ASSUME NEW s, NEW x, NEW y, << s, x >> \in Pairs, << s, y >> \in Pairs PROVE x = y
        <3>1. \A i, j, k, l \in Nat : Was(i, k) = Was(j, l) => i = j /\ k = l
            BY <1>1, SlotsApart
        <3>2. \A i, k, l \in Nat : Was(i, k) # QSlot(n, l)
            BY <1>1, SlotsApart
        <3>3. \A i, k, l : \A q : Was(i, k) # RSlot(q, l)
            BY SlotsApart
        <3>4. Moved(s, x) \/ Taken(s, x) \/ Same(s, x)
            BY <2>0, <2>4
        <3>5. Moved(s, y) \/ Taken(s, y) \/ Same(s, y)
            BY <2>0, <2>4
        <3> HIDE DEF Was
        <3>6. \A i, k, q, l : QSlot(i, k) # RSlot(q, l)
            BY SlotsApart
        <3>7. CASE Moved(s, x)
            <4>1. PICK i, k \in Nat : s = Was(i, k) /\ x = QSlot(i, k)
                BY <3>7
            <4>2. Moved(s, y)
                BY <3>2, <3>3, <3>5, <4>1
            <4>3. PICK j, l \in Nat : s = Was(j, l) /\ y = QSlot(j, l)
                BY <4>2
            <4>4. Was(i, k) = Was(j, l)
                BY <4>1, <4>3
            <4>5. i = j /\ k = l
                <5>1. (IF i < n THEN i ELSE i + 1) = (IF j < n THEN j ELSE j + 1) /\ k = l
                    BY <4>4, SlotsApart DEF Was
                <5>. QED BY <1>1, <5>1
            <4>. QED BY <4>1, <4>3, <4>5
        <3>8. CASE Taken(s, x)
            <4>1. PICK k \in Nat : s = QSlot(n, k) /\ x = RSlot(r, k)
                BY <3>8
            <4>2. Taken(s, y)
                BY <3>2, <3>5, <3>6, <4>1
            <4>3. PICK l \in Nat : s = QSlot(n, l) /\ y = RSlot(r, l)
                BY <4>2
            <4>. QED BY <4>1, <4>3, SlotsApart
        <3>9. CASE Same(s, x)
            <4>1. PICK q \in Runner \ {r} : \E k \in Nat : s = RSlot(q, k) /\ x = s
                BY <3>9
            <4>2. Same(s, y)
                BY <3>3, <3>5, <3>6, <4>1
            <4>. QED BY <4>1, <4>2
        <3>. QED BY <3>4, <3>7, <3>8, <3>9
    <2>. QED BY <2>3, <2>4, Pairing DEF BudgetInv
<1>. QED BY <1>2, <1>4, BudgetKept

\* handle_failure gives the attempts that are left to the task it pushes.
LEMMA RetryBudget ==
    ASSUME BudgetInv, QueueInv', NEW r \in Runner, Retry(r)
    PROVE  BudgetInv'
<1> DEFINE n == Len(queue) + 1
           t == [task[r] EXCEPT !.retries = task[r].retries + 1, !.ripe = FALSE]
<1>0. QueueTypes /\ QueueTypes'
    BY DEF BudgetInv, QueueInv
<1>1. task[r] \in QueueTask /\ rpc[r] = "failed"
    BY <1>0 DEF Retry, QueueTypes, Holding
<1>2. t = [ih |-> task[r].ih, retries |-> task[r].retries + 1, ripe |-> FALSE]
    BY <1>1, TaskFields
<1>3. /\ queue' = Append(queue, t) /\ task' = [task EXCEPT ![r] = NoTask]
      /\ rpc' = [rpc EXCEPT ![r] = "pop"] /\ UNCHANGED << accepted, attempts >>
    BY DEF Retry
<1> HIDE DEF t
<1>4. n \in Nat /\ t.ih = task[r].ih /\ t.retries = task[r].retries + 1 /\ Spent(r) = task[r].retries + 1
    BY <1>0, <1>1, <1>2 DEF QueueTypes, Spent
<1>5. /\ DOMAIN queue' = 1 .. n /\ DOMAIN queue = 1 .. n - 1
      /\ queue'[n] = t /\ \A i \in 1 .. n - 1 : queue'[i] = queue[i]
    BY <1>0, <1>3 DEF QueueTypes
<1> HIDE DEF n
<1>6. ASSUME NEW ih \in Infohash PROVE IsFiniteSet(Left(ih)') /\ Cardinality(Left(ih)') <= Cardinality(Left(ih))
    <2> DEFINE Given(s, x) == \E k \in Nat : s = RSlot(r, k) /\ x = QSlot(n, k)
               Same(s, x) == s = x /\ s \in Left(ih) /\ \A k : s # RSlot(r, k) /\ s # QSlot(n, k)
               Pairs == {p \in Slots \X Slots : Given(p[1], p[2]) \/ Same(p[1], p[2])}
    <2>0. /\ \A s, x \in Slots : Given(s, x) \/ Same(s, x) => << s, x >> \in Pairs
          /\ \A s, x : << s, x >> \in Pairs => Given(s, x) \/ Same(s, x)
        <3> HIDE DEF Given, Same
        <3>. QED OBVIOUS
    <2> HIDE DEF Pairs
    <2>1. ASSUME NEW i, NEW k, InQueue(ih, i, k)'
          PROVE  \E s \in Left(ih) : << s, QSlot(i, k) >> \in Pairs
        <3>1. i \in 1 .. n /\ k \in 1 .. MaxRetries /\ i \in Nat /\ k \in Nat
            BY <1>4, <1>5, <2>1 DEF InQueue
        <3>2. CASE i = n
            <4>1. InHands(ih, r, k)
                BY <1>4, <1>5, <2>1, <3>1, <3>2 DEF InHands, InQueue
            <4>2. RSlot(r, k) \in Left(ih) /\ RSlot(r, k) \in Slots /\ QSlot(n, k) \in Slots
                BY <1>0, <1>4, <3>1, <4>1, LeftMembers, SlotsApart
            <4>3. Given(RSlot(r, k), QSlot(n, k))
                BY <3>1
            <4>. QED BY <2>0, <3>2, <4>2, <4>3
        <3>3. CASE i # n
            <4>1. i \in 1 .. n - 1
                BY <1>4, <3>1, <3>3
            <4>2. InQueue(ih, i, k)
                BY <1>5, <2>1, <4>1 DEF InQueue
            <4>3. QSlot(i, k) \in Left(ih) /\ QSlot(i, k) \in Slots
                BY <1>0, <3>1, <4>2, LeftMembers, SlotsApart
            <4>4. Same(QSlot(i, k), QSlot(i, k))
                BY <3>3, <4>3, SlotsApart
            <4>. QED BY <2>0, <4>3, <4>4
        <3>. QED BY <3>2, <3>3
    <2>2. ASSUME NEW q, NEW k, InHands(ih, q, k)'
          PROVE  \E s \in Left(ih) : << s, RSlot(q, k) >> \in Pairs
        <3>1. q \in Runner /\ k \in 1 .. MaxRetries /\ k \in Nat
            BY <2>2 DEF InHands
        <3>2. q # r
            BY <1>0, <1>3, <2>2, NoTaskHasNone DEF InHands, QueueTypes
        <3>3. InHands(ih, q, k)
            BY <1>0, <1>3, <2>2, <3>1, <3>2 DEF QueueTypes, InHands, Spent
        <3>4. RSlot(q, k) \in Left(ih) /\ RSlot(q, k) \in Slots
            BY <1>0, <3>1, <3>3, LeftMembers, SlotsApart
        <3>5. Same(RSlot(q, k), RSlot(q, k))
            BY <3>2, <3>4, SlotsApart
        <3>. QED BY <2>0, <3>4, <3>5
    <2>3. \A x \in Left(ih)' : \E s \in Left(ih) : << s, x >> \in Pairs
        <3>1. ASSUME NEW x \in Left(ih)' PROVE \E s \in Left(ih) : << s, x >> \in Pairs
            <4>1. CASE \E i, k : x = QSlot(i, k) /\ InQueue(ih, i, k)'
                BY <2>1, <4>1
            <4>2. CASE \E q, k : x = RSlot(q, k) /\ InHands(ih, q, k)'
                BY <2>2, <4>2
            <4>. QED BY <4>1, <4>2 DEF Left
        <3>. QED BY <3>1
    <2>4. ASSUME NEW s, NEW x, NEW y, << s, x >> \in Pairs, << s, y >> \in Pairs PROVE x = y
        <3>1. Given(s, x) \/ Same(s, x)
            BY <2>0, <2>4
        <3>2. Given(s, y) \/ Same(s, y)
            BY <2>0, <2>4
        <3>3. CASE Given(s, x)
            <4>1. PICK k \in Nat : s = RSlot(r, k) /\ x = QSlot(n, k)
                BY <3>3
            <4>2. Given(s, y)
                BY <3>2, <4>1
            <4>3. PICK l \in Nat : s = RSlot(r, l) /\ y = QSlot(n, l)
                BY <4>2
            <4>4. k = l
                BY <4>1, <4>3, SlotsApart
            <4>. QED BY <4>1, <4>3, <4>4
        <3>4. CASE Same(s, x)
            BY <3>2, <3>4
        <3>. QED BY <3>1, <3>3, <3>4
    <2>. QED BY <2>3, <2>4, Pairing DEF BudgetInv
<1>. QED BY <1>3, <1>6, BudgetKept

\* A download uses the first of the attempts its task has left.
LEMMA BeginBudget ==
    ASSUME BudgetInv, QueueInv', NEW r \in Runner, BeginDownload(r)
    PROVE  BudgetInv'
<1> DEFINE k0 == task[r].retries + 1
<1>0. QueueTypes /\ QueueTypes'
    BY DEF BudgetInv, QueueInv
<1>. PICK ih \in Infohash : ih = task[r].ih
    BY <1>0 DEF BeginDownload, QueueTypes, Holding, QueueTask
<1>1. /\ rpc[r] = "begin" /\ task[r] \in QueueTask /\ k0 \in 1 .. MaxRetries /\ k0 \in Nat
      /\ task[r].retries \in Nat /\ MaxRetries \in Nat
    BY <1>0, QueueAssumption DEF BeginDownload, QueueTypes, Holding, QueueTask
<1>2. /\ UNCHANGED << queue, task, accepted >> /\ rpc' = [rpc EXCEPT ![r] = "download"]
      /\ attempts' = [attempts EXCEPT ![ih] = attempts[ih] + 1]
    BY DEF BeginDownload, Bump
<1>3. /\ \A q \in Runner : q # r => Spent(q)' = Spent(q)
      /\ Spent(r) = task[r].retries /\ Spent(r)' = k0
    BY <1>0, <1>1, <1>2 DEF Spent, QueueTypes
<1>4. \A jh, i, k : InQueue(jh, i, k)' <=> InQueue(jh, i, k)
    BY <1>2 DEF InQueue
<1>5. \A jh, q, k : InHands(jh, q, k)' <=> InHands(jh, q, k) /\ ~(jh = ih /\ q = r /\ k = k0)
    <2>1. ASSUME NEW jh, NEW q \in Runner, NEW k \in 1 .. MaxRetries
          PROVE  (k > Spent(q)' /\ task[q].ih = jh) <=> (k > Spent(q) /\ task[q].ih = jh /\ ~(jh = ih /\ q = r /\ k = k0))
        <3>1. CASE q = r
            BY <1>1, <1>3, <3>1
        <3>2. CASE q # r
            BY <1>3, <3>2
        <3>. QED BY <3>1, <3>2
    <2>. QED BY <1>2, <2>1 DEF InHands
<1>6. InHands(ih, r, k0)
    BY <1>1, <1>3 DEF InHands
<1>7. \A jh \in Infohash : jh # ih => Left(jh)' = Left(jh)
    BY <1>4, <1>5 DEF Left
<1> HIDE DEF k0
<1>8. RSlot(r, k0) \in Left(ih)
    BY <1>0, <1>6, LeftMembers
<1>9. Left(ih)' = Left(ih) \ {RSlot(r, k0)}
    <2>0. Left(ih)' = {x \in Slots : \/ \E i, k : x = QSlot(i, k) /\ InQueue(ih, i, k)
                                     \/ \E q, k : x = RSlot(q, k) /\ InHands(ih, q, k) /\ ~(q = r /\ k = k0)}
        BY <1>4, <1>5 DEF Left
    <2>1. ASSUME NEW x \in Slots
          PROVE  x \in Left(ih)' <=> x \in Left(ih) /\ x # RSlot(r, k0)
        <3>1. ASSUME NEW i, NEW k, x = QSlot(i, k) PROVE x \in Left(ih)' <=> x \in Left(ih) /\ x # RSlot(r, k0)
            <4>1. x \in Left(ih) <=> InQueue(ih, i, k)
                BY <1>0, <3>1, LeftMembers
            <4>2. x \in Left(ih)' <=> InQueue(ih, i, k)
                BY <2>0, <2>1, <3>1, SlotsApart
            <4>. QED BY <3>1, <4>1, <4>2, SlotsApart
        <3>2. ASSUME NEW q, NEW k, x = RSlot(q, k) PROVE x \in Left(ih)' <=> x \in Left(ih) /\ x # RSlot(r, k0)
            <4>1. x \in Left(ih) <=> InHands(ih, q, k)
                BY <1>0, <3>2, LeftMembers
            <4>2. x \in Left(ih)' <=> InHands(ih, q, k) /\ ~(q = r /\ k = k0)
                BY <2>0, <2>1, <3>2, SlotsApart
            <4>3. x = RSlot(r, k0) <=> q = r /\ k = k0
                BY <3>2, SlotsApart
            <4>. QED BY <4>1, <4>2, <4>3
        <3>. QED BY <2>1, <3>1, <3>2 DEF Slots
    <2>2. Left(ih) \subseteq Slots /\ Left(ih)' \subseteq Slots
        BY DEF Left
    <2>. QED BY <2>1, <2>2
<1>10. /\ IsFiniteSet(Left(ih)) /\ attempts[ih] + Cardinality(Left(ih)) <= MaxRetries * accepted[ih]
       /\ attempts[ih] \in Nat /\ attempts \in [Infohash -> Nat]
    BY <1>0, <1>1 DEF BudgetInv, QueueTypes
<1>11. IsFiniteSet(Left(ih)') /\ Cardinality(Left(ih)') = Cardinality(Left(ih)) - 1 /\ Cardinality(Left(ih)) \in Nat
    BY <1>8, <1>9, <1>10, FS_RemoveElement, FS_CardinalityType
<1>12. ASSUME NEW jh \in Infohash PROVE IsFiniteSet(Left(jh)') /\ attempts'[jh] + Cardinality(Left(jh)') <= MaxRetries * accepted'[jh]
    <2>0. MaxRetries * accepted'[jh] = MaxRetries * accepted[jh]
        BY <1>2
    <2>1. CASE jh = ih
        <3>1. attempts'[ih] = attempts[ih] + 1
            BY <1>1, <1>2, <1>10
        <3>2. accepted[ih] \in Nat /\ MaxRetries * accepted[ih] \in Nat
            BY <1>0, <1>1 DEF QueueTypes
        <3>3. attempts'[ih] + Cardinality(Left(ih)') <= MaxRetries * accepted[ih]
            BY <1>10, <1>11, <3>1, <3>2
        <3>4. Left(jh)' = Left(ih)'
            BY <2>1 DEF Left, InQueue, InHands
        <3>. QED BY <1>11, <2>0, <2>1, <3>3, <3>4
    <2>2. CASE jh # ih
        <3>1. attempts'[jh] = attempts[jh] /\ Left(jh)' = Left(jh)
            BY <1>2, <1>7, <1>10, <2>2
        <3>2. IsFiniteSet(Left(jh)) /\ attempts[jh] + Cardinality(Left(jh)) <= MaxRetries * accepted[jh]
            BY DEF BudgetInv
        <3>. QED BY <2>0, <3>1, <3>2
    <2>. QED BY <2>1, <2>2
<1>. QED BY <1>12 DEF BudgetInv

\* The last failure leaves a task no attempts to use.
LEMMA MarkFailedBudget ==
    ASSUME BudgetInv, QueueInv', NEW r \in Runner, MarkFailed(r)
    PROVE  BudgetInv'
<1>0. QueueTypes
    BY DEF BudgetInv, QueueInv
<1>1. /\ UNCHANGED << queue, accepted, attempts >> /\ task' = [task EXCEPT ![r] = NoTask]
      /\ rpc' = [rpc EXCEPT ![r] = "pop"]
    BY DEF MarkFailed
<1>2. ASSUME NEW ih \in Infohash PROVE IsFiniteSet(Left(ih)') /\ Cardinality(Left(ih)') <= Cardinality(Left(ih))
    <2>1. \A i, k : InQueue(ih, i, k)' => InQueue(ih, i, k)
        BY <1>1 DEF InQueue
    <2>2. \A q, k : InHands(ih, q, k)' => InHands(ih, q, k)
        BY <1>0, <1>1, NoTaskHasNone DEF InHands, Spent, QueueTypes
    <2>3. Left(ih)' \subseteq Left(ih)
        BY <2>1, <2>2 DEF Left
    <2>. QED BY <2>3, FS_Subset DEF BudgetInv
<1>. QED BY <1>1, <1>2, BudgetKept

\* A task that is accepted has all the attempts it may make left.
LEMMA PushBudget ==
    ASSUME BudgetInv, QueueInv', NEW f \in Feeder, PushNew(f)
    PROVE  BudgetInv'
<1> DEFINE n == Len(queue) + 1
           t == [ih |-> asks[f], retries |-> 0, ripe |-> TRUE]
           N == {x \in Slots : \E k \in 1 .. MaxRetries : x = QSlot(n, k)}
<1>0. QueueTypes
    BY DEF BudgetInv, QueueInv
<1>. PICK ih \in Infohash : ih = asks[f]
    BY <1>0 DEF QueueTypes
<1>1. /\ queue' = Append(queue, t) /\ accepted' = [accepted EXCEPT ![ih] = accepted[ih] + 1]
      /\ UNCHANGED << rpc, task, attempts >>
    BY DEF PushNew, Bump, runners
<1>2. t.ih = ih /\ t.retries = 0 /\ n \in Nat
    BY <1>0 DEF QueueTypes
<1> HIDE DEF t
<1>3. /\ DOMAIN queue' = 1 .. n /\ DOMAIN queue = 1 .. n - 1
      /\ queue'[n] = t /\ \A i \in 1 .. n - 1 : queue'[i] = queue[i]
    BY <1>0, <1>1 DEF QueueTypes
<1> HIDE DEF n
<1>4. \A jh, q, k : InHands(jh, q, k)' <=> InHands(jh, q, k)
    BY <1>1 DEF InHands, Spent
<1>5. \A jh, i, k : InQueue(jh, i, k)' <=> InQueue(jh, i, k) \/ (jh = ih /\ i = n /\ k \in 1 .. MaxRetries)
    <2>1. ASSUME NEW jh, NEW i \in 1 .. n, NEW k \in 1 .. MaxRetries
          PROVE  (queue'[i].ih = jh /\ k > queue'[i].retries) <=> (InQueue(jh, i, k) \/ (jh = ih /\ i = n))
        <3>1. CASE i = n
            BY <1>2, <1>3, <3>1, QueueAssumption DEF InQueue
        <3>2. CASE i # n
            <4>1. i \in 1 .. n - 1
                BY <1>2, <3>2
            <4>. QED BY <1>3, <3>2, <4>1 DEF InQueue
        <3>. QED BY <3>1, <3>2
    <2>2. \A jh, i, k : InQueue(jh, i, k) => i \in 1 .. n /\ k \in 1 .. MaxRetries
        BY <1>2, <1>3 DEF InQueue
    <2>3. n \in 1 .. n /\ n \in Nat
        BY <1>1, <1>2, <1>3 DEF n
    <2>4. \A jh, i, k : InQueue(jh, i, k)' <=> i \in 1 .. n /\ k \in 1 .. MaxRetries /\ queue'[i].ih = jh /\ k > queue'[i].retries
        BY <1>3 DEF InQueue
    <2>. QED BY <2>1, <2>2, <2>3, <2>4
<1>6. \A jh \in Infohash : jh # ih => Left(jh)' = Left(jh)
    BY <1>4, <1>5 DEF Left
<1>7. Left(ih)' \subseteq Left(ih) \union N
    <2>1. Left(ih)' = {x \in Slots : \/ \E i, k : x = QSlot(i, k) /\ (InQueue(ih, i, k) \/ (i = n /\ k \in 1 .. MaxRetries))
                                     \/ \E q, k : x = RSlot(q, k) /\ InHands(ih, q, k)}
        BY <1>4, <1>5 DEF Left
    <2>. QED BY <2>1 DEF Left
<1>8. IsFiniteSet(N) /\ Cardinality(N) <= MaxRetries
    <2> DEFINE Pairs == {p \in Nat \X Slots : p[2] = QSlot(n, p[1])}
    <2>1. IsFiniteSet(1 .. MaxRetries) /\ Cardinality(1 .. MaxRetries) = MaxRetries
        BY QueueAssumption, FS_Interval
    <2>2. \A x \in N : \E k \in 1 .. MaxRetries : << k, x >> \in Pairs
        OBVIOUS
    <2>3. \A k \in 1 .. MaxRetries : \A x, y \in N : << k, x >> \in Pairs /\ << k, y >> \in Pairs => x = y
        OBVIOUS
    <2> HIDE DEF N, Pairs
    <2>4. IsFiniteSet(N) /\ Cardinality(N) <= Cardinality(1 .. MaxRetries)
        BY <2>1, <2>2, <2>3, Pairing
    <2>. QED BY <2>1, <2>4
<1> HIDE DEF N
<1>9. /\ IsFiniteSet(Left(ih)) /\ attempts[ih] + Cardinality(Left(ih)) <= MaxRetries * accepted[ih]
      /\ attempts[ih] \in Nat /\ accepted[ih] \in Nat /\ accepted \in [Infohash -> Nat] /\ MaxRetries \in Nat
    BY <1>0, <1>2, QueueAssumption DEF BudgetInv, QueueTypes
<1>10. /\ IsFiniteSet(Left(ih)') /\ Cardinality(Left(ih)') <= Cardinality(Left(ih)) + MaxRetries
       /\ Cardinality(Left(ih)') \in Nat /\ Cardinality(Left(ih)) \in Nat
    <2>1. /\ IsFiniteSet(Left(ih) \union N)
          /\ Cardinality(Left(ih) \union N) = Cardinality(Left(ih)) + Cardinality(N) - Cardinality(Left(ih) \cap N)
        BY <1>8, <1>9, FS_Union
    <2>2. IsFiniteSet(Left(ih) \cap N)
        BY <1>8, FS_Subset
    <2>3. Cardinality(Left(ih)) \in Nat /\ Cardinality(N) \in Nat /\ Cardinality(Left(ih) \cap N) \in Nat
        BY <1>8, <1>9, <2>2, FS_CardinalityType
    <2>4. IsFiniteSet(Left(ih)') /\ Cardinality(Left(ih)') <= Cardinality(Left(ih) \union N)
        BY <1>7, <2>1, FS_Subset
    <2>5. Cardinality(Left(ih)') \in Nat
        BY <2>4, FS_CardinalityType
    <2>. QED BY <1>8, <1>9, <2>1, <2>3, <2>4, <2>5
<1>11. ASSUME NEW jh \in Infohash PROVE IsFiniteSet(Left(jh)') /\ attempts'[jh] + Cardinality(Left(jh)') <= MaxRetries * accepted'[jh]
    <2>1. CASE jh = ih
        <3>1. accepted'[ih] = accepted[ih] + 1 /\ attempts'[ih] = attempts[ih]
            BY <1>1, <1>2, <1>9
        <3>2. MaxRetries * (accepted[ih] + 1) = MaxRetries * accepted[ih] + MaxRetries /\ MaxRetries * accepted[ih] \in Nat
            BY <1>9
        <3>3. attempts'[ih] + Cardinality(Left(ih)') <= MaxRetries * accepted'[ih]
            BY <1>9, <1>10, <3>1, <3>2
        <3>4. Left(jh)' = Left(ih)'
            BY <2>1 DEF Left, InQueue, InHands
        <3>. QED BY <1>10, <2>1, <3>3, <3>4
    <2>2. CASE jh # ih
        <3>1. accepted'[jh] = accepted[jh] /\ attempts'[jh] = attempts[jh] /\ Left(jh)' = Left(jh)
            BY <1>1, <1>6, <1>9, <2>2
        <3>2. IsFiniteSet(Left(jh)) /\ attempts[jh] + Cardinality(Left(jh)) <= MaxRetries * accepted[jh]
            BY DEF BudgetInv
        <3>. QED BY <3>1, <3>2
    <2>. QED BY <2>1, <2>2
<1>. QED BY <1>11 DEF BudgetInv

\* No step exceeds the budget: an attempt uses up a token, a retry keeps those its
\* task has, and only enqueue brings new ones, with a budget of their own.
LEMMA BudgetStep == BudgetInv /\ [QueueNext]_queueVars => BudgetInv'
<1> SUFFICES ASSUME BudgetInv, [QueueNext]_queueVars PROVE BudgetInv'
    OBVIOUS
<1>0. QueueInv /\ QueueInv' /\ QueueTypes
    BY QueueStep DEF BudgetInv, QueueInv
<1>1. ASSUME UNCHANGED << queue, task, accepted, attempts >>,
             \A q \in Runner : Spent(q)' = Spent(q)
      PROVE  BudgetInv'
    BY <1>0, <1>1, LeftKept DEF InQueue, InHands
<1>2. ASSUME NEW f \in Feeder, FeederStep(f) PROVE BudgetInv'
    <2>1. CASE PushNew(f)
        BY <1>0, <2>1, PushBudget
    <2>2. CASE ~PushNew(f)
        BY <1>1, <1>2, <2>2
        DEF FeederStep, Ask, LookIntoCompleted, LookIntoInProgress, Reject, collections, runners, Spent
    <2>. QED BY <2>1, <2>2
<1>3. ASSUME NEW r \in Runner, RunnerStep(r) PROVE BudgetInv'
    <2>1. CASE FindNothing(r) \/ LookForTasks(r) \/ LookForDownloads(r) \/ FindRoom(r) \/ EndDownload(r)
        <3>1. UNCHANGED << queue, task, accepted, attempts >>
            BY <2>1 DEF FindNothing, LookForTasks, LookForDownloads, FindRoom, EndDownload, collections
        <3>2. /\ \A q \in Runner : q # r => rpc'[q] = rpc[q]
              /\ rpc'[r] \in {"download", "failed"} <=> rpc[r] \in {"download", "failed"}
            BY <1>0, <2>1
            DEF FindNothing, LookForTasks, LookForDownloads, FindRoom, EndDownload, QueueTypes
        <3>3. \A q \in Runner : Spent(q)' = Spent(q)
            BY <3>1, <3>2 DEF Spent
        <3>. QED BY <1>1, <3>1, <3>3
    <2>2. CASE Pop(r)
        BY <1>0, <2>2, PopBudget
    <2>3. CASE BeginDownload(r)
        BY <1>0, <2>3, BeginBudget
    <2>4. CASE Retry(r)
        BY <1>0, <2>4, RetryBudget
    <2>5. CASE MarkFailed(r)
        BY <1>0, <2>5, MarkFailedBudget
    <2>. QED BY <1>3, <2>1, <2>2, <2>3, <2>4, <2>5 DEF RunnerStep
<1>4. ASSUME NEW i, Ripen(i) PROVE BudgetInv'
    <2>1. UNCHANGED << rpc, task, accepted, attempts >>
        BY <1>4 DEF Ripen, runners
    <2>2. /\ DOMAIN queue' = DOMAIN queue
          /\ \A j \in DOMAIN queue : queue'[j].ih = queue[j].ih /\ queue'[j].retries = queue[j].retries
        BY <1>0, <1>4, RipenTask DEF QueueTypes
    <2>3. \A ih \in Infohash : \A j, k : InQueue(ih, j, k)' <=> InQueue(ih, j, k)
        BY <2>2 DEF InQueue
    <2>4. \A ih \in Infohash : \A q, k : InHands(ih, q, k)' <=> InHands(ih, q, k)
        BY <2>1 DEF InHands, Spent
    <2>. QED BY <1>0, <2>1, <2>3, <2>4, LeftKept
<1>5. CASE UNCHANGED queueVars
    BY <1>1, <1>5 DEF queueVars, collections, feeders, runners, Spent
<1>. QED BY <1>2, <1>3, <1>4, <1>5 DEF QueueNext, Backoff

\* However its duplicates get into the queue between the locks, an infohash is
\* tried max_retries times at most for each time enqueue took it
\* (download_queue.rs:292-308).
THEOREM AttemptsAreBounded == QueueSpec => []AttemptsBounded
<1>1. QueueInit => BudgetInv
    <2> SUFFICES ASSUME QueueInit PROVE BudgetInv
        OBVIOUS
    <2>1. QueueInv
        BY DEF QueueInit, QueueInv, QueueTypes, RunnerState, Holding
    <2>2. ASSUME NEW ih \in Infohash PROVE Left(ih) = {}
        BY NoTaskHasNone DEF QueueInit, Left, InQueue, InHands
    <2>3. ASSUME NEW ih \in Infohash PROVE attempts[ih] = 0 /\ MaxRetries * accepted[ih] = 0
        BY QueueAssumption DEF QueueInit
    <2>. QED BY <2>1, <2>2, <2>3, FS_EmptySet DEF BudgetInv
<1>2. BudgetInv => AttemptsBounded
    <2> SUFFICES ASSUME BudgetInv, NEW ih \in Infohash PROVE attempts[ih] <= MaxRetries * accepted[ih]
        BY DEF AttemptsBounded
    <2>1. /\ IsFiniteSet(Left(ih)) /\ attempts[ih] + Cardinality(Left(ih)) <= MaxRetries * accepted[ih]
          /\ attempts[ih] \in Nat /\ accepted[ih] \in Nat /\ MaxRetries \in Nat
        BY QueueAssumption DEF BudgetInv, QueueInv, QueueTypes
    <2>2. Cardinality(Left(ih)) \in Nat /\ MaxRetries * accepted[ih] \in Nat
        BY <2>1, FS_CardinalityType
    <2>. QED BY <2>1, <2>2
<1>. QED BY <1>1, <1>2, BudgetStep, PTL DEF QueueSpec
=============================================================================
