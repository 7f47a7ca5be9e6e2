--------------------------- MODULE ChunkScheduler ---------------------------
(***************************************************************************)
(* One call of ChunkScheduler::execute (src/service/chunk_scheduler.rs)    *)
(* over a SourcePool: the pool is filled, the sources are probed, the file *)
(* is cut into chunks, and a crew of workers takes chunks from a shared    *)
(* LIFO queue, fetches, writes, and retries with a backoff.  A step of a   *)
(* worker is what it does between two awaits, so any other worker, the     *)
(* caller's cancellation and the clock may come between.                   *)
(*                                                                         *)
(* Abstracted: offsets, lengths and bytes (ChunkPlan cuts the file); the   *)
(* durations of sleeps; the semaphore, which has one permit for each       *)
(* worker of the crew, so that acquire never waits; panics of a fetcher.   *)
(***************************************************************************)
EXTENDS SourcePool, Sequences

CONSTANTS
    Worker,        \* as many as adaptive.current_concurrency() may say
    MaxChunks,     \* bound on the number of chunks of one file
    MaxRetries,    \* ChunkSchedulerConfig.max_retries
    NoSource

ASSUME SchedulerAssumption ==
    /\ MaxChunks \in Nat \ {0}
    /\ MaxRetries \in Nat
    /\ NoSource \notin Source
    /\ IsFiniteSet(Worker) /\ Worker # {}

VARIABLES
    phase,          \* where execute is: "setup", "running", "returned"
    queue,          \* chunk_queue: a Vec used as a stack
    pc,             \* where each worker is in its loop
    task,           \* the chunk task a worker holds, or NoTask
    src,            \* the fetcher it uses, by source id, or NoSource
    disk,           \* the chunks write_at has put into the file
    cancelled,      \* the caller's CancellationToken
    successCount,   \* success_count
    failureCount,   \* failure_count
    outcome,        \* history: what the counters were raised for, by chunk
    result          \* what execute returned

schedVars == << phase, queue, pc, task, src, disk, cancelled,
                successCount, failureCount, outcome, result >>
vars == << sources, schedVars >>

-----------------------------------------------------------------------------
Chunk == 1 .. MaxChunks

Task == [chunk : Chunk, retries : 0 .. MaxRetries]

NoTask == [chunk |-> 0, retries |-> 0]

\* "off" is a worker that was not spawned.
Location == {"off", "loop", "pop", "select", "sleep", "fetch", "write",
             "count", "credit", "blame", "backoff", "exit"}

\* Between pop and the push or the count that ends its turn a worker has the
\* only copy of its task.
Holding == {"select", "fetch", "write", "count", "blame", "backoff"}

\* given: execute has returned; cut (history): the token was already set when
\* the workers had been joined.
NoResult == [given |-> FALSE, cut |-> FALSE, success |-> FALSE, succeeded |-> 0, failed |-> 0]

Goto(w, l) == pc' = [pc EXCEPT ![w] = l]

Push(t) == queue' = Append(queue, t)

DropTask(w) == task' = [task EXCEPT ![w] = NoTask] /\ src' = [src EXCEPT ![w] = NoSource]

-----------------------------------------------------------------------------
(* execute: setup and return *)

AddSourceToPool(s) ==
    /\ phase = "setup"
    /\ AddSource(s)
    /\ UNCHANGED schedVars

\* probe_all_sources fails (no source, or no probe answers), or the size is 0.
Refuse ==
    /\ phase = "setup"
    /\ phase' = "returned"
    /\ result' = [NoResult EXCEPT !.given = TRUE]
    /\ UNCHANGED << sources, queue, pc, task, src, disk, cancelled,
                    successCount, failureCount, outcome >>

\* The probes are merged: with range support the file is cut into n chunks,
\* without it there is one; the crew has current_concurrency() workers if some
\* source takes several connections, otherwise one.
Start(n, crew) ==
    /\ phase = "setup"
    /\ DOMAIN sources # {}
    /\ phase' = "running"
    /\ queue' = [i \in 1 .. n |-> [chunk |-> i, retries |-> 0]]
    /\ outcome' = [c \in 1 .. n |-> "pending"]
    /\ pc' = [w \in Worker |-> IF w \in crew THEN "loop" ELSE "off"]
    /\ UNCHANGED << sources, task, src, disk, cancelled, successCount, failureCount, result >>

\* The caller sets the token (bridge_cancel, ctrl-c, node deleted).
Cancel ==
    /\ ~cancelled
    /\ cancelled' = TRUE
    /\ UNCHANGED << sources, phase, queue, pc, task, src, disk,
                    successCount, failureCount, outcome, result >>

\* Mutant: execute returns as soon as one worker has ended.
ReturnAfterFirst ==
    /\ phase = "running"
    /\ \E w \in Worker : pc[w] = "exit"
    /\ phase' = "returned"
    /\ cancelled' = TRUE
    /\ result' = [given |-> TRUE, cut |-> cancelled, success |-> failureCount = 0,
                  succeeded |-> successCount, failed |-> failureCount]
    /\ UNCHANGED << sources, queue, pc, task, src, disk, successCount, failureCount, outcome >>

\* Mutant: success means that some chunk succeeded.
ReturnPartialSuccess ==
    /\ phase = "running"
    /\ \A w \in Worker : pc[w] \in {"off", "exit"}
    /\ phase' = "returned"
    /\ cancelled' = TRUE
    /\ result' = [given |-> TRUE, cut |-> cancelled, success |-> successCount > 0,
                  succeeded |-> successCount, failed |-> failureCount]
    /\ UNCHANGED << sources, queue, pc, task, src, disk, successCount, failureCount, outcome >>

\* All workers joined: execute sets the token and returns Ok.
Return ==
    /\ phase = "running"
    /\ \A w \in Worker : pc[w] \in {"off", "exit"}
    /\ phase' = "returned"
    /\ cancelled' = TRUE
    /\ result' = [given |-> TRUE,
                  cut |-> cancelled,
                  success |-> failureCount = 0,
                  succeeded |-> successCount,
                  failed |-> failureCount]
    /\ UNCHANGED << sources, queue, pc, task, src, disk,
                    successCount, failureCount, outcome >>

-----------------------------------------------------------------------------
(* The worker loop of spawn_worker *)

CheckCancel(w) ==
    /\ pc[w] = "loop"
    /\ Goto(w, IF cancelled THEN "exit" ELSE "pop")
    /\ UNCHANGED << sources, phase, queue, task, src, disk, cancelled,
                    successCount, failureCount, outcome, result >>

PopTask(w) ==
    /\ pc[w] = "pop"
    /\ queue # << >>
    /\ task' = [task EXCEPT ![w] = queue[Len(queue)]]
    /\ queue' = SubSeq(queue, 1, Len(queue) - 1)
    /\ Goto(w, "select")
    /\ UNCHANGED << sources, phase, src, disk, cancelled,
                    successCount, failureCount, outcome, result >>

\* Mutant: on an empty queue the worker waits for retries to come.
WaitForRetries(w) ==
    /\ pc[w] = "pop"
    /\ queue = << >>
    /\ Goto(w, "sleep")
    /\ UNCHANGED << sources, phase, queue, task, src, disk, cancelled,
                    successCount, failureCount, outcome, result >>

\* An empty queue ends the worker, though others may still push a retry.
FindQueueEmpty(w) ==
    /\ pc[w] = "pop"
    /\ queue = << >>
    /\ Goto(w, "exit")
    /\ UNCHANGED << sources, phase, queue, task, src, disk, cancelled,
                    successCount, failureCount, outcome, result >>

SelectSource(w, s) ==
    /\ pc[w] = "select"
    /\ s \in Selectable
    /\ src' = [src EXCEPT ![w] = s]
    /\ Goto(w, "fetch")
    /\ UNCHANGED << sources, phase, queue, task, disk, cancelled,
                    successCount, failureCount, outcome, result >>

\* Mutant: without a source the popped task is forgotten.
NoSourceDropsTask(w) ==
    /\ pc[w] = "select"
    /\ Selectable = {}
    /\ DropTask(w)
    /\ Goto(w, "sleep")
    /\ UNCHANGED << sources, phase, queue, disk, cancelled,
                    successCount, failureCount, outcome, result >>

\* Mutant: without a source the chunk starts over with a fresh task.
NoSourceResetsRetries(w) ==
    /\ pc[w] = "select"
    /\ Selectable = {}
    /\ Push([task[w] EXCEPT !.retries = 0])
    /\ DropTask(w)
    /\ Goto(w, "sleep")
    /\ UNCHANGED << sources, phase, disk, cancelled,
                    successCount, failureCount, outcome, result >>

\* best_source returns None: the task goes back as it was, then a sleep.
NoSourceAvailable(w) ==
    /\ pc[w] = "select"
    /\ Selectable = {}
    /\ Push(task[w])
    /\ DropTask(w)
    /\ Goto(w, "sleep")
    /\ UNCHANGED << sources, phase, disk, cancelled,
                    successCount, failureCount, outcome, result >>

\* Mutant: after the sleep the worker goes straight to the queue.
WakeUpUnchecked(w) ==
    /\ pc[w] = "sleep"
    /\ Goto(w, "pop")
    /\ UNCHANGED << sources, phase, queue, task, src, disk, cancelled,
                    successCount, failureCount, outcome, result >>

WakeUp(w) ==
    /\ pc[w] = "sleep"
    /\ Goto(w, "loop")
    /\ UNCHANGED << sources, phase, queue, task, src, disk, cancelled,
                    successCount, failureCount, outcome, result >>

FetchChunk(w) ==
    /\ pc[w] = "fetch"
    /\ \E next \in {"write", "blame"} : Goto(w, next)
    /\ UNCHANGED << sources, phase, queue, task, src, disk, cancelled,
                    successCount, failureCount, outcome, result >>

WriteChunk(w) ==
    /\ pc[w] = "write"
    /\ disk' = disk \cup {task[w].chunk}
    /\ Goto(w, "count")
    /\ UNCHANGED << sources, phase, queue, task, src, cancelled,
                    successCount, failureCount, outcome, result >>

\* Mutant: the error of write_at is ignored.
WriteErrorIgnored(w) ==
    /\ pc[w] = "write"
    /\ Goto(w, "count")
    /\ UNCHANGED << sources, phase, queue, task, src, disk, cancelled,
                    successCount, failureCount, outcome, result >>

\* write_at fails: handled like a failed fetch, the source takes the blame.
WriteFails(w) ==
    /\ pc[w] = "write"
    /\ Goto(w, "blame")
    /\ UNCHANGED << sources, phase, queue, task, src, disk, cancelled,
                    successCount, failureCount, outcome, result >>

CountSuccess(w) ==
    /\ pc[w] = "count"
    /\ successCount' = successCount + 1
    /\ outcome' = [outcome EXCEPT ![task[w].chunk] = "succeeded"]
    /\ Goto(w, "credit")
    /\ UNCHANGED << sources, phase, queue, task, src, disk, cancelled, failureCount, result >>

CreditSource(w) ==
    /\ pc[w] = "credit"
    /\ RecordSuccess(src[w])
    /\ DropTask(w)
    /\ Goto(w, "loop")
    /\ UNCHANGED << phase, queue, disk, cancelled, successCount, failureCount, outcome, result >>

\* Mutant: one retry too many.
BlameAndRetryOnceMore(w) ==
    /\ pc[w] = "blame"
    /\ task[w].retries <= MaxRetries
    /\ RecordFailure(src[w])
    /\ Goto(w, "backoff")
    /\ UNCHANGED << phase, queue, task, src, disk, cancelled,
                    successCount, failureCount, outcome, result >>

\* record_failure, then the task waits for its retry in the worker's hands ...
BlameAndRetry(w) ==
    /\ pc[w] = "blame"
    /\ task[w].retries < MaxRetries
    /\ RecordFailure(src[w])
    /\ Goto(w, "backoff")
    /\ UNCHANGED << phase, queue, task, src, disk, cancelled,
                    successCount, failureCount, outcome, result >>

\* ... or has used up its retries and counts as failed.
BlameAndGiveUp(w) ==
    /\ pc[w] = "blame"
    /\ task[w].retries >= MaxRetries
    /\ RecordFailure(src[w])
    /\ failureCount' = failureCount + 1
    /\ outcome' = [outcome EXCEPT ![task[w].chunk] = "failed"]
    /\ DropTask(w)
    /\ Goto(w, "loop")
    /\ UNCHANGED << phase, queue, disk, cancelled, successCount, result >>

\* Mutant: the worker ends after handing the retry to the others.
RequeueAndExit(w) ==
    /\ pc[w] = "backoff"
    /\ Push([task[w] EXCEPT !.retries = @ + 1])
    /\ DropTask(w)
    /\ Goto(w, "exit")
    /\ UNCHANGED << sources, phase, disk, cancelled,
                    successCount, failureCount, outcome, result >>

RequeueRetry(w) ==
    /\ pc[w] = "backoff"
    /\ Push([task[w] EXCEPT !.retries = @ + 1])
    /\ DropTask(w)
    /\ Goto(w, "loop")
    /\ UNCHANGED << sources, phase, disk, cancelled,
                    successCount, failureCount, outcome, result >>

-----------------------------------------------------------------------------
(* The clock, and whoever else holds the pool *)

CooldownPasses(s) == CooldownExpires(s) /\ UNCHANGED schedVars

Cleanup ==
    /\ phase = "running"
    /\ CleanupDead
    /\ UNCHANGED schedVars

-----------------------------------------------------------------------------
Init ==
    /\ sources = [s \in {} |-> Fresh]
    /\ phase = "setup"
    /\ queue = << >>
    /\ pc = [w \in Worker |-> "off"]
    /\ task = [w \in Worker |-> NoTask]
    /\ src = [w \in Worker |-> NoSource]
    /\ disk = {}
    /\ cancelled = FALSE
    /\ successCount = 0
    /\ failureCount = 0
    /\ outcome = [c \in {} |-> "pending"]
    /\ result = NoResult

WorkerStep(w) ==
    \/ CheckCancel(w)
    \/ PopTask(w)
    \/ FindQueueEmpty(w)
    \/ \E s \in Source : SelectSource(w, s)
    \/ NoSourceAvailable(w)
    \/ WakeUp(w)
    \/ FetchChunk(w)
    \/ WriteChunk(w)
    \/ WriteFails(w)
    \/ CountSuccess(w)
    \/ CreditSource(w)
    \/ BlameAndRetry(w)
    \/ BlameAndGiveUp(w)
    \/ RequeueRetry(w)

\* execute returned and nobody acts on the pool any more.
Terminated == phase = "returned" /\ UNCHANGED vars

Next ==
    \/ \E s \in Source : AddSourceToPool(s) \/ CooldownPasses(s)
    \/ \E n \in Chunk, crew \in (SUBSET Worker) \ {{}} : Start(n, crew)
    \/ \E w \in Worker : WorkerStep(w)
    \/ Refuse
    \/ Cancel
    \/ Return
    \/ Cleanup
    \/ Terminated

Spec == Init /\ [][Next]_vars

\* Every spawned worker keeps running - a fetch ends, by the client's timeout
\* if by nothing else - execute joins them, and the clock advances.
FairSpec ==
    /\ Spec
    /\ \A w \in Worker : WF_vars(WorkerStep(w))
    /\ \A s \in Source : WF_vars(CooldownPasses(s))
    /\ WF_vars(Return)

-----------------------------------------------------------------------------
(* Properties *)

Verdict == [given : BOOLEAN, cut : BOOLEAN, success : BOOLEAN, succeeded : Nat, failed : Nat]

TypeOK ==
    /\ PoolTypeOK
    /\ phase \in {"setup", "running", "returned"}
    /\ queue \in Seq(Task)
    /\ pc \in [Worker -> Location]
    /\ task \in [Worker -> Task \cup {NoTask}]
    /\ src \in [Worker -> Source \cup {NoSource}]
    /\ disk \subseteq Chunk
    /\ cancelled \in BOOLEAN
    /\ successCount \in Nat
    /\ failureCount \in Nat
    /\ DOMAIN outcome \subseteq Chunk
    /\ outcome \in [DOMAIN outcome -> {"pending", "succeeded", "failed"}]
    /\ result \in Verdict

ChunksThat(o) == {c \in DOMAIN outcome : outcome[c] = o}

Queued(c) == {i \in 1 .. Len(queue) : queue[i].chunk = c}

Holders(c) == {w \in Worker : pc[w] \in Holding /\ task[w].chunk = c}

\* Every pending chunk still has a task, in the queue or in a worker's hands.
NothingLost == \A c \in ChunksThat("pending") : Queued(c) # {} \/ Holders(c) # {}

\* No chunk has two tasks, wherever they are.
NothingTwice ==
    \A c \in DOMAIN outcome :
        /\ Queued(c) = {} \/ Holders(c) = {}
        /\ \A i, j \in Queued(c) : i = j
        /\ \A v, w \in Holders(c) : v = w

\* A settled chunk has no task any more.
NothingAgain ==
    \A c \in DOMAIN outcome \ ChunksThat("pending") : Queued(c) = {} /\ Holders(c) = {}

\* A pending chunk has one task, in the queue or in the hands of one worker;
\* a settled chunk has none.  So nothing is lost, fetched twice at a time, or
\* fetched again after it was settled, however pops, pushes and retries
\* interleave (the queue's lock is released while a worker holds a task).
EachChunkInOnePlace == NothingLost /\ NothingTwice /\ NothingAgain

\* The atomic counters, raised by many workers, agree with what happened to
\* the chunks, and a chunk counted as succeeded is in the file.
CountersMatchOutcomes ==
    /\ successCount = Cardinality(ChunksThat("succeeded"))
    /\ failureCount = Cardinality(ChunksThat("failed"))
    /\ ChunksThat("succeeded") \subseteq disk

\* A worker exits as soon as it finds the queue empty, yet a task in the queue
\* is never left without a worker: whoever pushes it is still running.
QueueIsServed ==
    phase = "running" /\ queue # << >> /\ ~cancelled
        => \E w \in Worker : pc[w] \notin {"off", "exit"}

\* Unless the token was set before the workers were joined, the result of
\* execute accounts for every chunk, and success means the file is complete.
VerdictIsComplete ==
    phase = "returned" /\ DOMAIN outcome # {} /\ ~result.cut =>
        /\ result.succeeded + result.failed = Cardinality(DOMAIN outcome)
        /\ result.success => DOMAIN outcome \subseteq disk

RetriesOf(c) ==
    {queue[i].retries : i \in Queued(c)} \cup {task[w].retries : w \in Holders(c)}

\* The retries spent on a chunk are never forgotten on its way through the
\* queue, in particular not when it is pushed back for want of a source.
RetriesNeverForgotten ==
    [][\A c \in DOMAIN outcome :
           \A before \in RetriesOf(c), after \in RetriesOf(c)' : after \in {before, before + 1}]_vars

\* A failure never admits a source that best_source withholds, however late it
\* is reported and whatever the cooldown has come to by then: a step that brings
\* a source back has wiped its failures out or left them as they were.
NoFailureReadmits ==
    [][\A s \in DOMAIN sources :
           s \in Selectable' /\ s \notin Selectable
               => sources'[s].failures \in {0, sources[s].failures}]_vars

\* execute, with its workers, queue and sources, does what Download promises.
Promise == INSTANCE Download WITH
    stopped <- cancelled,
    verdict <- [given |-> result.given, success |-> result.success,
                succeeded |-> result.succeeded, failed |-> result.failed]

ImplementsDownload == Promise!Spec

\* execute returns, unless from some point on no source is selectable.
ReturnsUnlessStarved ==
    phase = "running" ~> phase = "returned" \/ [](Selectable = {})

\* Once the token is set execute returns, even with no source to choose from.
CancelReturns == phase = "running" /\ cancelled ~> phase = "returned"

\* source_pool.rs:13: a failed source cools down and joins again by itself.
\* Nothing but a success changes CoolingDown back, and best_source does not
\* look at the deadline of a source that is CoolingDown.
CooledSourceRejoins ==
    \A s \in Source :
        phase = "running" /\ Present(s) /\ sources[s].health = "CoolingDown"
            ~> phase = "returned" \/ s \in Selectable

\* controller.rs:48: cancelling makes the download loop return an error.  A
\* cancelled execute returns Ok, with success if no chunk had failed for good.
CancelIsNotSuccess == result.cut /\ ChunksThat("pending") # {} => ~result.success

=============================================================================
