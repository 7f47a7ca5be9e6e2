---------------------------- MODULE Agent_proofs ----------------------------
(***************************************************************************)
(* The permits of the agent's semaphore and its table of running           *)
(* downloads, for any set of tasks, any number of slots and any faults.    *)
(***************************************************************************)
EXTENDS Agent, FiniteSetTheorems, TLAPS

TaskState == {"new", "pool", "elsewhere", "claimed", "unanswered", "spawned", "download",
              "report", "finish", "ended", "aborted"}

MainState == {"top", "register", "acquire", "claim", "list", "idle", "stopped"}

\* The permit the main loop holds between acquire and spawn.
Held == IF mpc = "claim" THEN 1 ELSE 0

\* What the table, the download about to enter it and the semaphore mean to each
\* other.  An id in the task_done channel belongs to a download that has ended,
\* so that cleaning the table takes no live download out of it; and the loop
\* does nothing else between a spawn and the insertion of its handle.
IInv ==
    /\ permits \in Nat
    /\ tpc \in [Task -> TaskState]
    /\ mpc \in MainState
    /\ \A t \in done : t \in Task => tpc[t] = "ended"
    /\ Holders \subseteq running \union unlisted
    /\ mpc # "list" => unlisted = {}
    /\ permits + Cardinality(Holders) + Held = MaxConcurrent

-----------------------------------------------------------------------------
(* The set of downloads that hold a permit *)

\* Tasks are finitely many, so the holders can be counted.
LEMMA HoldersCounted ==
    ASSUME NEW S \in SUBSET Task
    PROVE  IsFiniteSet(S) /\ Cardinality(S) \in Nat
BY AgentAssumption, FS_Subset, FS_CardinalityType

\* A task that moves without becoming or ceasing to be live leaves the holders
\* as they are.
LEMMA HoldersKept ==
    ASSUME IInv, NEW t \in Task, NEW l, Move(t, l), tpc[t] \in Live <=> l \in Live
    PROVE  Holders' = Holders
BY DEF IInv, Move, Holders

\* A claimed task that is spawned is one holder more.
LEMMA HoldersGrow ==
    ASSUME IInv, NEW t \in Task, NEW l, Move(t, l), tpc[t] \notin Live, l \in Live
    PROVE  Holders' = Holders \union {t} /\ Cardinality(Holders') = Cardinality(Holders) + 1
<1>1. Holders' = Holders \union {t} /\ t \notin Holders
    BY DEF IInv, Move, Holders
<1>2. Holders \in SUBSET Task
    BY DEF Holders
<1>. QED BY <1>1, <1>2, HoldersCounted, FS_AddElement

\* A download that ends is one holder less.
LEMMA HoldersShrink ==
    ASSUME IInv, NEW t \in Task, NEW l, Move(t, l), tpc[t] \in Live, l \notin Live
    PROVE  Holders' = Holders \ {t} /\ Cardinality(Holders') = Cardinality(Holders) - 1
<1>1. Holders' = Holders \ {t} /\ t \in Holders
    BY DEF IInv, Move, Holders
<1>2. Holders \in SUBSET Task
    BY DEF Holders
<1>. QED BY <1>1, <1>2, HoldersCounted, FS_RemoveElement
-----------------------------------------------------------------------------
(* The invariant *)

LEMMA InitIInv == Init => IInv
<1> SUFFICES ASSUME Init PROVE IInv
    OBVIOUS
<1>1. Holders = {}
    BY DEF Init, Holders, Live
<1>2. Cardinality({}) = 0
    BY FS_EmptySet
<1>. QED BY <1>1, <1>2, AgentAssumption DEF Init, IInv, TaskState, MainState, Held

\* Of the controller's steps, only those about a task touch the agent's state,
\* and none makes a task live.
LEMMA PKKeeps == IInv /\ PKStep => IInv'
<1> SUFFICES ASSUME IInv, PKStep PROVE IInv'
    OBVIOUS
<1>1. ASSUME NEW t \in Task, PKAddsTask(t) \/ OtherAgentClaims(t) \/ PKReclaims(t) PROVE IInv'
    <2>1. PICK l \in {"pool", "elsewhere"} : Move(t, l) /\ tpc[t] \in {"new", "pool", "unanswered"}
        BY <1>1 DEF PKAddsTask, OtherAgentClaims, PKReclaims
    <2>2. Holders' = Holders
        BY <2>1, HoldersKept DEF Live
    <2>3. UNCHANGED << mpc, running, unlisted, permits, done >>
        BY <1>1 DEF PKAddsTask, OtherAgentClaims, PKReclaims, mainVars
    <2>. QED BY <2>1, <2>2, <2>3 DEF IInv, Move, TaskState, Held
<1>2. CASE PKDeletesNode \/ PKApproves \/ PKChangesConfig
    BY <1>2 DEF PKDeletesNode, PKApproves, PKChangesConfig, mainVars, IInv, Holders, Held
<1>. QED BY <1>1, <1>2 DEF PKStep

\* An answer to the main loop may give it a task, which is not live yet.
LEMMA AnswerKeeps == IInv /\ Answer => IInv'
<1> SUFFICES ASSUME IInv, Answer PROVE IInv'
    OBVIOUS
<1>1. ASSUME NEW t \in Task, PKGivesTask(t) PROVE IInv'
    <2>1. Holders' = Holders
        BY <1>1, HoldersKept DEF PKGivesTask, Live
    <2>. QED BY <1>1, <2>1 DEF PKGivesTask, IInv, Move, TaskState, Held
<1>2. CASE PKRegisters \/ PKGivesNothing \/ PKRefuses
    BY <1>2 DEF PKRegisters, PKGivesNothing, PKRefuses, IInv, Holders, Held
<1>. QED BY <1>1, <1>2 DEF Answer

\* The main loop gives each permit it takes to a download or back, and takes
\* only ended downloads out of the table.
LEMMA MainKeeps == IInv /\ MainStep => IInv'
<1> SUFFICES ASSUME IInv, MainStep PROVE IInv'
    OBVIOUS
<1>0. Cardinality(Holders) \in Nat /\ MaxConcurrent \in Nat
    BY HoldersCounted, AgentAssumption DEF Holders
<1>1. CASE NoticeDeletion \/ HandleRegister
    BY <1>1 DEF NoticeDeletion, HandleRegister, IInv, Holders, Held, MainState
<1>2. CASE CleanTable
    <2>1. Holders' = Holders /\ Holders \intersect done = {}
        BY <1>2 DEF CleanTable, IInv, Holders, Live
    <2>. QED BY <1>2, <2>1 DEF CleanTable, IInv, Held, MainState
<1>3. CASE Acquire
    <2>1. Holders' = Holders
        BY <1>3 DEF Acquire, Holders
    <2>. QED BY <1>0, <1>3, <2>1 DEF Acquire, IInv, Held, MainState
<1>4. CASE Idle \/ ClaimAgain
    <2>1. Holders' = Holders
        BY <1>4 DEF Idle, ClaimAgain, Holders
    <2>. QED BY <1>0, <1>4, <2>1 DEF Idle, ClaimAgain, IInv, Held, MainState
<1>5. ASSUME NEW t \in Task, Spawn(t) PROVE IInv'
    <2>1. Holders' = Holders \union {t} /\ Cardinality(Holders') = Cardinality(Holders) + 1
        BY <1>5, HoldersGrow DEF Spawn, Live
    <2>. QED BY <1>0, <1>5, <2>1 DEF Spawn, IInv, Move, Held, MainState, TaskState
<1>6. ASSUME NEW t \in Task, WakeForDone(t) PROVE IInv'
    <2>1. Holders' = Holders /\ Holders \intersect done = {}
        BY <1>6 DEF WakeForDone, IInv, Holders, Live
    <2>. QED BY <1>6, <2>1 DEF WakeForDone, IInv, Held, MainState
<1>7. ASSUME NEW k \in Signal, WakeForSignal(k) PROVE IInv'
    BY <1>7 DEF WakeForSignal, IInv, Holders, Held, MainState
<1>8. CASE ListHandle
    BY <1>8 DEF ListHandle, IInv, Holders, Held, MainState
<1>. QED BY <1>1, <1>2, <1>3, <1>4, <1>5, <1>6, <1>7, <1>8 DEF MainStep

\* The drain gives back every permit that is out, because the loop listens for
\* Ctrl-C only where every holder is in the table.
LEMMA StopKeeps == IInv /\ Stop => IInv'
<1> SUFFICES ASSUME IInv, Stop PROVE IInv'
    OBVIOUS
<1>1. unlisted = {} /\ Holders \intersect running = Holders
    BY DEF IInv, Stop
<1>2. Holders' = {}
    BY DEF Stop, IInv, Holders, Live
<1>3. Cardinality({}) = 0 /\ Cardinality(Holders) \in Nat
    BY FS_EmptySet, HoldersCounted DEF Holders
<1>. QED BY <1>1, <1>2, <1>3, AgentAssumption DEF Stop, IInv, Held, MainState, TaskState, Live

\* A download is live until it gives its permit back.
LEMMA DownloadKeeps == ASSUME NEW t \in Task PROVE IInv /\ DownloadStep(t) => IInv'
<1> SUFFICES ASSUME IInv, DownloadStep(t) PROVE IInv'
    OBVIOUS
<1>0. Cardinality(Holders) \in Nat /\ MaxConcurrent \in Nat
    BY HoldersCounted, AgentAssumption DEF Holders
<1>1. CASE Begin(t) \/ DownloadEnds(t) \/ SendReport(t)
    <2>1. PICK l \in {"download", "report", "finish"} : Move(t, l)
        BY <1>1 DEF Begin, DownloadEnds, SendReport
    <2>2. tpc[t] \in {"spawned", "download", "report"} /\ UNCHANGED << mpc, running, unlisted, permits, done >>
        BY <1>1 DEF Begin, DownloadEnds, SendReport, mainVars
    <2>3. Holders' = Holders
        BY <2>1, <2>2, HoldersKept DEF Live
    <2>. QED BY <2>1, <2>2, <2>3 DEF IInv, Move, Held, TaskState
<1>2. CASE Finish(t)
    <2>1. Holders' = Holders \ {t} /\ Cardinality(Holders') = Cardinality(Holders) - 1
        BY <1>2, HoldersShrink DEF Finish, Live
    <2>. QED BY <1>0, <1>2, <2>1 DEF Finish, IInv, Move, Held, TaskState, mainVars
<1>. QED BY <1>1, <1>2 DEF DownloadStep

\* Neither a lost claim nor a download that fails or panics keeps a permit.
LEMMA FailureKeeps == IInv /\ Failure => IInv'
<1> SUFFICES ASSUME IInv, Failure PROVE IInv'
    OBVIOUS
<1>0. Cardinality(Holders) \in Nat /\ MaxConcurrent \in Nat
    BY HoldersCounted, AgentAssumption DEF Holders
<1>1. CASE WsFails \/ RegisterFails
    BY <1>1 DEF WsFails, RegisterFails, IInv, Holders, Held, mainVars
<1>2. CASE ClaimFails
    <2>1. Holders' = Holders
        BY <1>2 DEF ClaimFails, IInv, Holders, Live
    <2>. QED BY <1>2, <2>1 DEF ClaimFails, IInv, Held, TaskState
<1>3. ASSUME NEW t \in Task, DownloadFailsEarly(t) PROVE IInv'
    <2>1. Holders' = Holders
        BY <1>3, HoldersKept DEF DownloadFailsEarly, Live
    <2>. QED BY <1>3, <2>1 DEF DownloadFailsEarly, IInv, Move, Held, TaskState, mainVars
<1>4. ASSUME NEW t \in Task, Panic(t) PROVE IInv'
    <2>1. Holders' = Holders \ {t} /\ Cardinality(Holders') = Cardinality(Holders) - 1
        BY <1>4, HoldersShrink DEF Panic, Live
    <2>. QED BY <1>0, <1>4, <2>1 DEF Panic, IInv, Move, Held, TaskState, mainVars
<1>. QED BY <1>1, <1>2, <1>3, <1>4 DEF Failure

LEMMA NextIInv == IInv /\ [Next]_vars => IInv'
<1> SUFFICES ASSUME IInv, [Next]_vars PROVE IInv'
    OBVIOUS
<1>1. CASE WsStep \/ PeriodicRegister
    BY <1>1 DEF WsStep, PeriodicRegister, mainVars, IInv, Holders, Held
<1>2. CASE UNCHANGED vars
    BY <1>2 DEF vars, mainVars, IInv, Holders, Held
<1>. QED BY <1>1, <1>2, PKKeeps, AnswerKeeps, MainKeeps, StopKeeps, DownloadKeeps, FailureKeeps
    DEF Next

LEMMA Invariance == Spec => []IInv
BY InitIInv, NextIInv, PTL DEF Spec

\* However claims and downloads end (an answer lost, an early return, a panic,
\* the abort of the drain), the permits of the semaphore that are out are
\* those of the live downloads and of the main loop's claim (agent.rs:228-260).
THEOREM PermitsAreConserved == Spec => []PermitsConserved
<1>1. IInv => PermitsConserved
    BY DEF IInv, PermitsConserved, Held
<1>. QED BY <1>1, Invariance, PTL

\* Although a download runs, and may end, before its handle is in the running
\* table (agent.rs:370-386), the drain finds every live one: the loop listens for
\* Ctrl-C only where it has listed what it spawned, and cleaning the table by
\* the ids in the task_done channel never takes out one that runs.
THEOREM LiveTasksAreListed == Spec => []LiveTasksListed
<1>1. IInv => LiveTasksListed
    BY DEF IInv, LiveTasksListed
<1>. QED BY <1>1, Invariance, PTL
=============================================================================
