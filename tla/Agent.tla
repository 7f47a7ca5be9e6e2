------------------------------- MODULE Agent -------------------------------
(***************************************************************************)
(* The agent (src/cli/agent.rs): a main loop that takes a slot, claims a   *)
(* task from the controller's pool and spawns a download for it; the       *)
(* downloads, each with a guard that gives the slot back however it ends;  *)
(* the table of running downloads; re-registration when the controller has *)
(* deleted the node; and the controller (PK), external, as far as its      *)
(* answers show: a pool shared with other agents, and the node's status.   *)
(*                                                                         *)
(* Of a download only what the agent sees is here: the messages it must    *)
(* hand to the WebSocket client, and how it ends (src/cli/new_download.rs; *)
(* ChunkScheduler has the rest).                                           *)
(***************************************************************************)
EXTENDS WsClient, FiniteSets

CONSTANTS
    Task,          \* dispatch ids
    MaxConcurrent, \* permits of the semaphore
    MaxFaults      \* bound on the faults of one behaviour

ASSUME AgentAssumption ==
    /\ IsFiniteSet(Task)
    /\ MaxConcurrent \in Nat \ {0} /\ MaxFaults \in Nat

VARIABLES
    status,  \* of the node at the controller: "online", "pending", "deleted"
    mpc,     \* where the main loop is
    unlisted,\* the download it has spawned and not yet put into the table
    reply,   \* the answer it waits for or has got
    permits, \* free permits of the semaphore
    tpc,     \* where each task is, from the controller's pool to its end
    running, \* the running table, by dispatch id
    done,    \* ids in the task_done channel (64, never full here)
    faults

mainVars == << mpc, unlisted, reply, running >>
vars == << wsVars, status, mainVars, permits, tpc, done, faults >>

None == "none"

\* A download holds its permit from the spawn until its guard lets go.
Live == {"spawned", "download", "report", "finish"}

Holders == {t \in Task : tpc[t] \in Live}

Fault == faults < MaxFaults /\ faults' = faults + 1

Move(t, l) == tpc' = [tpc EXCEPT ![t] = l]

-----------------------------------------------------------------------------
(* The controller, external *)

PKAddsTask(t) ==
    /\ tpc[t] = "new"
    /\ Move(t, "pool")
    /\ ServerSends("new_task")
    /\ UNCHANGED << connected, signals, nodeDeleted, outbox, status, mainVars,
                    permits, done, faults >>

\* The pool is shared: another agent may be faster.
OtherAgentClaims(t) ==
    /\ tpc[t] = "pool"
    /\ Move(t, "elsewhere")
    /\ UNCHANGED << wsVars, status, mainVars, permits, done, faults >>

PKDeletesNode ==
    /\ Fault
    /\ status # "deleted"
    /\ status' = "deleted"
    /\ ServerSends("node_deleted")
    /\ UNCHANGED << connected, signals, nodeDeleted, outbox, mainVars, permits, tpc, done >>

PKApproves ==
    /\ status = "pending"
    /\ status' = "online"
    /\ UNCHANGED << wsVars, mainVars, permits, tpc, done, faults >>

PKChangesConfig ==
    /\ Fault
    /\ ServerSends("config_changed")
    /\ UNCHANGED << connected, signals, nodeDeleted, outbox, status, mainVars,
                    permits, tpc, done >>

\* A task whose claim was never answered goes back to the pool.
PKReclaims(t) ==
    /\ tpc[t] = "unanswered"
    /\ Move(t, "pool")
    /\ ServerSends("new_task")
    /\ UNCHANGED << connected, signals, nodeDeleted, outbox, status, mainVars,
                    permits, done, faults >>

\* A deleted node that registers is a new one: it may have to be approved.
AfterRegister == IF status = "deleted" THEN {"online", "pending"} ELSE {status}

-----------------------------------------------------------------------------
(* The connection and the periodic re-registration, tasks of their own *)

WsStep ==
    /\ Connect \/ HandleMessage \/ WriteMessage
    /\ UNCHANGED << status, mainVars, permits, tpc, done, faults >>

WsFails ==
    /\ Fault
    /\ Disconnect
    /\ UNCHANGED << status, mainVars, permits, tpc, done >>

\* Mutant: only a node that was told of its deletion registers again.
PeriodicRegisterIfTold ==
    /\ mpc # "stopped"
    /\ status = "deleted" /\ nodeDeleted
    /\ status' \in AfterRegister
    /\ UNCHANGED << wsVars, mainVars, permits, tpc, done, faults >>

\* Every five minutes; its answer is only logged.
PeriodicRegister ==
    /\ mpc # "stopped"
    /\ status = "deleted"
    /\ status' \in AfterRegister
    /\ UNCHANGED << wsVars, mainVars, permits, tpc, done, faults >>

-----------------------------------------------------------------------------
(* The main loop *)

\* Top of the loop, the node deleted: no claim, register first.
NoticeDeletion ==
    /\ mpc = "top" /\ nodeDeleted
    /\ mpc' = "register"
    /\ UNCHANGED << wsVars, status, unlisted, reply, running, permits, tpc, done, faults >>

PKRegisters ==
    /\ mpc = "register" /\ reply = None
    /\ status' \in AfterRegister
    /\ reply' \in {status', "no status"}
    /\ UNCHANGED << wsVars, mpc, unlisted, running, permits, tpc, done, faults >>

RegisterFails ==
    /\ mpc = "register"
    /\ Fault
    /\ reply' = "error"
    /\ UNCHANGED << wsVars, status, unlisted, mpc, running, permits, tpc, done >>

\* Online, or an answer that does not say: the mark is cleared; pending or an
\* error: sleep (30 s, 10 s) with the mark kept, then the loop starts again.
HandleRegister ==
    /\ mpc = "register" /\ reply # None
    /\ nodeDeleted' = (nodeDeleted /\ reply \notin {"online", "no status"})
    /\ mpc' = "top" /\ reply' = None
    /\ UNCHANGED << connected, inbox, signals, outbox, status, unlisted, running, permits,
                    tpc, done, faults >>

\* Top of the loop otherwise: the running table is cleaned, then a slot awaited.
CleanTable ==
    /\ mpc = "top" /\ ~nodeDeleted
    /\ running' = running \ done
    /\ done' = {}
    /\ mpc' = "acquire"
    /\ UNCHANGED << wsVars, status, unlisted, reply, permits, tpc, faults >>

Acquire ==
    /\ mpc = "acquire" /\ permits > 0
    /\ permits' = permits - 1
    /\ mpc' = "claim"
    /\ UNCHANGED << wsVars, status, unlisted, reply, running, tpc, done, faults >>

\* PK answers a claim: a task, nothing (204), or a refusal if the node is not
\* online.
PKGivesTask(t) ==
    /\ mpc = "claim" /\ reply = None
    /\ status = "online" /\ tpc[t] = "pool"
    /\ Move(t, "claimed")
    /\ reply' = "task"
    /\ UNCHANGED << wsVars, status, unlisted, mpc, running, permits, done, faults >>

PKGivesNothing ==
    /\ mpc = "claim" /\ reply = None
    /\ status = "online" /\ \A t \in Task : tpc[t] # "pool"
    /\ reply' = "nothing"
    /\ UNCHANGED << wsVars, status, unlisted, mpc, running, permits, tpc, done, faults >>

PKRefuses ==
    /\ mpc = "claim" /\ reply = None
    /\ status # "online"
    /\ reply' = "error"
    /\ UNCHANGED << wsVars, status, unlisted, mpc, running, permits, tpc, done, faults >>

\* The request or its answer is lost, the claimed task with it.
ClaimFails ==
    /\ mpc = "claim" /\ reply \in {None, "task"}
    /\ Fault
    /\ reply' = "error"
    /\ tpc' = [t \in Task |-> IF tpc[t] = "claimed" THEN "unanswered" ELSE tpc[t]]
    /\ UNCHANGED << wsVars, status, unlisted, mpc, running, permits, done >>

\* spawn_download_task: the download takes the permit along and may run at once.
Spawn(t) ==
    /\ mpc = "claim" /\ reply = "task" /\ tpc[t] = "claimed"
    /\ Move(t, "spawned")
    /\ unlisted' = {t}
    /\ mpc' = "list" /\ reply' = None
    /\ UNCHANGED << wsVars, status, running, permits, done, faults >>

\* The handle goes into the table when its lock is got; the download may have
\* ended by then.
ListHandle ==
    /\ mpc = "list"
    /\ running' = running \union unlisted
    /\ unlisted' = {}
    /\ mpc' = "top"
    /\ UNCHANGED << wsVars, status, reply, permits, tpc, done, faults >>

\* Nothing to do: the slot goes back, and the loop waits for news.
Idle ==
    /\ mpc = "claim" /\ reply = "nothing"
    /\ permits' = permits + 1
    /\ mpc' = "idle" /\ reply' = None
    /\ UNCHANGED << wsVars, status, unlisted, running, tpc, done, faults >>

\* The slot goes back, and the loop starts again after 5 s.
ClaimAgain ==
    /\ mpc = "claim" /\ reply = "error"
    /\ permits' = permits + 1
    /\ mpc' = "top" /\ reply' = None
    /\ UNCHANGED << wsVars, status, unlisted, running, tpc, done, faults >>

\* new_task and node_deleted only wake the loop up; config_changed fetches the
\* configuration first, and keeps the old one if that fails.
WakeForSignal(k) ==
    /\ mpc = "idle" /\ k \in signals
    /\ signals' = signals \ {k}
    /\ mpc' = "top"
    /\ UNCHANGED << connected, inbox, nodeDeleted, outbox, status, unlisted, reply, running,
                    permits, tpc, done, faults >>

\* One id is received and dropped, those behind it are removed from the table.
WakeForDone(t) ==
    /\ mpc = "idle" /\ t \in done
    /\ running' = running \ (done \ {t})
    /\ done' = {}
    /\ mpc' = "top"
    /\ UNCHANGED << wsVars, status, unlisted, reply, permits, tpc, faults >>

\* Mutant: Ctrl-C is heard wherever the loop waits, for the table's lock too.
StopAnywhere ==
    /\ mpc \in {"idle", "list"}
    /\ mpc' = "stopped"
    /\ tpc' = [t \in Task |-> IF t \in running /\ tpc[t] \in Live THEN "aborted" ELSE tpc[t]]
    /\ permits' = permits + Cardinality(Holders \intersect running)
    /\ running' = {}
    /\ UNCHANGED << wsVars, status, unlisted, reply, done, faults >>

\* Ctrl-C is listened for only here; the table is drained, each download
\* cancelled and aborted, which drops its permit.
Stop ==
    /\ mpc = "idle"
    /\ mpc' = "stopped"
    /\ tpc' = [t \in Task |-> IF t \in running /\ tpc[t] \in Live THEN "aborted" ELSE tpc[t]]
    /\ permits' = permits + Cardinality(Holders \intersect running)
    /\ running' = {}
    /\ UNCHANGED << wsVars, status, unlisted, reply, done, faults >>

-----------------------------------------------------------------------------
(* A download *)

\* The guard is made and execute_download says that the task has started.
Begin(t) ==
    /\ tpc[t] = "spawned"
    /\ Send
    /\ Move(t, "download")
    /\ UNCHANGED << connected, inbox, signals, nodeDeleted, status, mainVars,
                    permits, done, faults >>

\* It may also never end: execute has no time limit of its own.
DownloadEnds(t) ==
    /\ tpc[t] = "download"
    /\ Move(t, "report")
    /\ UNCHANGED << wsVars, status, mainVars, permits, done, faults >>

\* create_dir_all, create_fetcher or create_writer fails: ? returns at once.
DownloadFailsEarly(t) ==
    /\ tpc[t] = "download"
    /\ Fault
    /\ Move(t, "finish")
    /\ UNCHANGED << wsVars, status, mainVars, permits, done >>

SendReport(t) ==
    /\ tpc[t] = "report"
    /\ Send
    /\ Move(t, "finish")
    /\ UNCHANGED << connected, inbox, signals, nodeDeleted, status, mainVars,
                    permits, done, faults >>

\* guard.finish gives the permit back, and keeps drop from telling anyone.
Finish(t) ==
    /\ tpc[t] = "finish"
    /\ Move(t, "ended")
    /\ permits' = permits + 1
    /\ UNCHANGED << wsVars, status, mainVars, done, faults >>

\* Mutant: no guard, and a panic skips the release at the end.
PanicKeepsPermit(t) ==
    /\ tpc[t] \in {"download", "report"}
    /\ Fault
    /\ Move(t, "ended")
    /\ done' = done \union {t}
    /\ UNCHANGED << wsVars, status, mainVars, permits >>

\* The guard is dropped by a panic: the permit goes back and the id is sent.
Panic(t) ==
    /\ tpc[t] \in {"download", "report"}
    /\ Fault
    /\ Move(t, "ended")
    /\ permits' = permits + 1
    /\ done' = done \union {t}
    /\ UNCHANGED << wsVars, status, mainVars >>

-----------------------------------------------------------------------------
\* Connected to nothing yet, registered, and either approved or not.
Init ==
    /\ WsInit
    /\ status \in {"online", "pending"}
    /\ mpc = "top" /\ reply = None
    /\ permits = MaxConcurrent
    /\ tpc = [t \in Task |-> "new"]
    /\ running = {} /\ unlisted = {} /\ done = {}
    /\ faults = 0

PKStep ==
    \/ \E t \in Task : PKAddsTask(t) \/ OtherAgentClaims(t) \/ PKReclaims(t)
    \/ PKDeletesNode \/ PKApproves \/ PKChangesConfig

\* An answer of the controller to the main loop.
Answer ==
    \/ PKRegisters \/ PKGivesNothing \/ PKRefuses
    \/ \E t \in Task : PKGivesTask(t)

MainStep ==
    \/ NoticeDeletion \/ HandleRegister \/ CleanTable \/ Acquire
    \/ ListHandle \/ Idle \/ ClaimAgain
    \/ \E t \in Task : Spawn(t) \/ WakeForDone(t)
    \/ \E k \in Signal : WakeForSignal(k)

DownloadStep(t) == Begin(t) \/ DownloadEnds(t) \/ SendReport(t) \/ Finish(t)

Failure ==
    \/ WsFails \/ RegisterFails \/ ClaimFails
    \/ \E t \in Task : DownloadFailsEarly(t) \/ Panic(t)

Next ==
    \/ PKStep \/ Answer
    \/ WsStep \/ PeriodicRegister
    \/ MainStep \/ Stop
    \/ \E t \in Task : DownloadStep(t)
    \/ Failure

Spec == Init /\ [][Next]_vars

\* The runtime polls every task that is ready, the connection loop reconnects
\* for ever, and PK answers, approves and reclaims.  A download is polled too,
\* but nothing says that it ends.  Faults are finitely many.
Fairness ==
    /\ WF_vars(WsStep /\ Connect) /\ WF_vars(WsStep /\ HandleMessage)
    /\ WF_vars(WsStep /\ WriteMessage)
    /\ WF_vars(PeriodicRegister)
    /\ WF_vars(Answer) /\ WF_vars(MainStep)
    /\ WF_vars(PKApproves)
    /\ \A t \in Task :
        /\ WF_vars(Begin(t)) /\ WF_vars(SendReport(t)) /\ WF_vars(Finish(t))
        /\ WF_vars(PKReclaims(t))

FairSpec == Spec /\ Fairness

-----------------------------------------------------------------------------
(* Properties *)

\* The semaphore's permits are neither lost nor multiplied, whatever way a
\* claim or a download ends: what is not free is held by the main loop between
\* acquire and spawn, or by one live download.
PermitsConserved ==
    permits + Cardinality(Holders) + (IF mpc = "claim" THEN 1 ELSE 0) = MaxConcurrent

\* Although a download runs, and may end, before its handle is in the running
\* table, the drain at the end finds every live one: only the download that the
\* loop is about to list is missing from the table, and an agent that has
\* stopped leaves none running.
LiveTasksListed ==
    /\ Holders \subseteq running \union unlisted
    /\ mpc # "list" => unlisted = {}

\* Every slot is taken by a download that is under way.
AllSlotsBusy == Cardinality({t \in Task : tpc[t] = "download"}) = MaxConcurrent

\* A task that waits in the pool is claimed, however deletions, reconnections
\* and lost messages come in between, unless the agent stops or its slots are
\* all taken for ever by downloads that do not end: no wake-up is lost for good,
\* and a download that hangs holds up nobody but itself while a slot is left.
EveryTaskClaimed ==
    []<>(~AllSlotsBusy) =>
        \A t \in Task : tpc[t] = "pool" ~> (tpc[t] # "pool" \/ mpc = "stopped")

\* A node that was deleted comes back, even if the message that said so is lost
\* or its mark is cleared by the answer to an earlier registration.
DeletedNodeComesBack == status = "deleted" ~> (status = "online" \/ mpc = "stopped")

\* "each finished task sends its dispatch_id, so that the main loop cleans the
\* running table" (agent.rs:228).
FinishedTasksLeaveTable ==
    \A t \in Task : tpc[t] = "ended" ~> (t \notin running)
=============================================================================
