--------------------------- MODULE DownloadQueue ---------------------------
(***************************************************************************)
(* The queue of torrent metadata downloads                                 *)
(* (src/infra/torrent/download_queue.rs): enqueue, which looks into three  *)
(* collections under a lock of its own each, one after the other, and run, *)
(* a loop that pops a task, waits for room, downloads with a time limit    *)
(* and settles the outcome.  Several calls of either may be under way.     *)
(*                                                                         *)
(* Abstracted: infohashes are model values; priority is always 0 and read  *)
(* by nobody; durations.  The blocking download is given no peers, so it   *)
(* fails at once: what the code does after a success or a timeout is never *)
(* reached and left out, with the set of completed infohashes.             *)
(***************************************************************************)
EXTENDS Naturals, Sequences, SequencesExt, FiniteSets

CONSTANTS
    Infohash,
    Feeder,        \* callers of enqueue
    Runner,        \* callers of run
    MaxConcurrent, \* max_concurrent
    MaxRetries,    \* max_retries
    MaxQueueSize,  \* max_queue_size
    MaxEnqueues    \* bound on the calls of enqueue

ASSUME QueueAssumption ==
    /\ MaxConcurrent \in Nat \ {0} /\ MaxRetries \in Nat \ {0}
    /\ MaxQueueSize \in Nat /\ MaxEnqueues \in Nat
    /\ "none" \notin Infohash

VARIABLES
    queue,      \* VecDeque of tasks; ripe: next_attempt has passed
    inProgress, \* in_progress
    failed,     \* failed, its keys
    fpc, asks,  \* where each feeder is in enqueue, and for which infohash
    rpc, task,  \* where each runner is, and the task it has popped
    calls,      \* calls of enqueue so far
    accepted,   \* history: how often enqueue returned true, by infohash
    attempts    \* history: how often a download was started, by infohash

collections == << queue, inProgress, failed >>
feeders == << fpc, asks >>
runners == << rpc, task >>
queueVars == << collections, feeders, runners, calls, accepted, attempts >>

NoTask == [ih |-> "none", retries |-> 0, ripe |-> FALSE]

Bump(f, ih) == [f EXCEPT ![ih] = @ + 1]

-----------------------------------------------------------------------------
(* enqueue *)

Ask(f, ih) ==
    /\ fpc[f] = "idle"
    /\ calls < MaxEnqueues
    /\ calls' = calls + 1
    /\ asks' = [asks EXCEPT ![f] = ih]
    /\ fpc' = [fpc EXCEPT ![f] = "completed"]
    /\ UNCHANGED << collections, runners, accepted, attempts >>

\* completed stays empty, as no download succeeds.
LookIntoCompleted(f) ==
    /\ fpc[f] = "completed"
    /\ fpc' = [fpc EXCEPT ![f] = "inProgress"]
    /\ UNCHANGED << collections, asks, runners, calls, accepted, attempts >>

LookIntoInProgress(f) ==
    /\ fpc[f] = "inProgress"
    /\ fpc' = [fpc EXCEPT ![f] = IF asks[f] \in inProgress THEN "idle" ELSE "push"]
    /\ UNCHANGED << collections, asks, runners, calls, accepted, attempts >>

\* Under the lock of the queue: not there yet, and room for it.
PushNew(f) ==
    /\ fpc[f] = "push"
    /\ \A i \in DOMAIN queue : queue[i].ih # asks[f]
    /\ Len(queue) < MaxQueueSize
    /\ queue' = Append(queue, [ih |-> asks[f], retries |-> 0, ripe |-> TRUE])
    /\ accepted' = Bump(accepted, asks[f])
    /\ fpc' = [fpc EXCEPT ![f] = "idle"]
    /\ UNCHANGED << inProgress, failed, asks, runners, calls, attempts >>

Reject(f) ==
    /\ fpc[f] = "push"
    /\ Len(queue) >= MaxQueueSize \/ \E i \in DOMAIN queue : queue[i].ih = asks[f]
    /\ fpc' = [fpc EXCEPT ![f] = "idle"]
    /\ UNCHANGED << collections, asks, runners, calls, accepted, attempts >>

-----------------------------------------------------------------------------
(* run *)

FirstRipe == CHOOSE i \in DOMAIN queue :
                queue[i].ripe /\ \A j \in 1 .. i - 1 : ~queue[j].ripe

SomeRipe == \E i \in DOMAIN queue : queue[i].ripe

Pop(r) ==
    /\ rpc[r] = "pop" /\ SomeRipe
    /\ task' = [task EXCEPT ![r] = queue[FirstRipe]]
    /\ queue' = RemoveAt(queue, FirstRipe)
    /\ rpc' = [rpc EXCEPT ![r] = "room"]
    /\ UNCHANGED << inProgress, failed, feeders, calls, accepted, attempts >>

\* Nothing ripe: the two collections are then looked at one after the other.
FindNothing(r) ==
    /\ rpc[r] = "pop" /\ ~SomeRipe
    /\ rpc' = [rpc EXCEPT ![r] = "empty"]
    /\ UNCHANGED << collections, feeders, task, calls, accepted, attempts >>

LookForTasks(r) ==
    /\ rpc[r] = "empty"
    /\ rpc' = [rpc EXCEPT ![r] = IF queue = << >> THEN "last" ELSE "pop"]
    /\ UNCHANGED << collections, feeders, task, calls, accepted, attempts >>

LookForDownloads(r) ==
    /\ rpc[r] = "last"
    /\ rpc' = [rpc EXCEPT ![r] = IF inProgress = {} THEN "returned" ELSE "pop"]
    /\ UNCHANGED << collections, feeders, task, calls, accepted, attempts >>

FindRoom(r) ==
    /\ rpc[r] = "room"
    /\ Cardinality(inProgress) < MaxConcurrent
    /\ rpc' = [rpc EXCEPT ![r] = "begin"]
    /\ UNCHANGED << collections, feeders, task, calls, accepted, attempts >>

\* The lock has been let go since the length was looked at.
BeginDownload(r) ==
    /\ rpc[r] = "begin"
    /\ inProgress' = inProgress \union {task[r].ih}
    /\ attempts' = Bump(attempts, task[r].ih)
    /\ rpc' = [rpc EXCEPT ![r] = "download"]
    /\ UNCHANGED << queue, failed, feeders, task, calls, accepted >>

\* Mutant: the mark is taken away when a download succeeds.
EndDownloadKeepsMark(r) ==
    /\ rpc[r] = "download"
    /\ rpc' = [rpc EXCEPT ![r] = "failed"]
    /\ UNCHANGED << collections, feeders, task, calls, accepted, attempts >>

\* download_from_peers is given an empty list of peers, so every download fails
\* (MetadataExchange's NoPeers); the branch of a success is never taken.
EndDownload(r) ==
    /\ rpc[r] = "download"
    /\ rpc' = [rpc EXCEPT ![r] = "failed"]
    /\ inProgress' = inProgress \ {task[r].ih}
    /\ UNCHANGED << queue, failed, feeders, task, calls, accepted, attempts >>

\* Mutants: > for >=; a retry is pushed only if enqueue would take it.
RetryOnceMore(r) ==
    /\ rpc[r] = "failed" /\ task[r].retries + 1 <= MaxRetries
    /\ queue' = Append(queue, [task[r] EXCEPT !.retries = @ + 1, !.ripe = FALSE])
    /\ rpc' = [rpc EXCEPT ![r] = "pop"]
    /\ task' = [task EXCEPT ![r] = NoTask]
    /\ UNCHANGED << inProgress, failed, feeders, calls, accepted, attempts >>

RetryIfRoom(r) ==
    /\ rpc[r] = "failed" /\ task[r].retries + 1 < MaxRetries
    /\ queue' = IF Len(queue) < MaxQueueSize
                THEN Append(queue, [task[r] EXCEPT !.retries = @ + 1, !.ripe = FALSE])
                ELSE queue
    /\ rpc' = [rpc EXCEPT ![r] = "pop"]
    /\ task' = [task EXCEPT ![r] = NoTask]
    /\ UNCHANGED << inProgress, failed, feeders, calls, accepted, attempts >>

\* handle_failure pushes the task back whatever the queue holds by now.
Retry(r) ==
    /\ rpc[r] = "failed" /\ task[r].retries + 1 < MaxRetries
    /\ queue' = Append(queue, [task[r] EXCEPT !.retries = @ + 1, !.ripe = FALSE])
    /\ rpc' = [rpc EXCEPT ![r] = "pop"]
    /\ task' = [task EXCEPT ![r] = NoTask]
    /\ UNCHANGED << inProgress, failed, feeders, calls, accepted, attempts >>

MarkFailed(r) ==
    /\ rpc[r] = "failed" /\ task[r].retries + 1 >= MaxRetries
    /\ failed' = failed \union {task[r].ih}
    /\ rpc' = [rpc EXCEPT ![r] = "pop"]
    /\ task' = [task EXCEPT ![r] = NoTask]
    /\ UNCHANGED << queue, inProgress, feeders, calls, accepted, attempts >>

\* The backoff of a task is over.
Ripen(i) ==
    /\ i \in DOMAIN queue /\ ~queue[i].ripe
    /\ queue' = [queue EXCEPT ![i].ripe = TRUE]
    /\ UNCHANGED << inProgress, failed, feeders, runners, calls, accepted, attempts >>

-----------------------------------------------------------------------------
QueueInit ==
    /\ queue = << >> /\ inProgress = {} /\ failed = {}
    /\ fpc = [f \in Feeder |-> "idle"]
    /\ asks \in [Feeder -> Infohash]
    /\ rpc = [r \in Runner |-> "pop"]
    /\ task = [r \in Runner |-> NoTask]
    /\ calls = 0
    /\ accepted = [ih \in Infohash |-> 0]
    /\ attempts = [ih \in Infohash |-> 0]

FeederStep(f) ==
    \/ \E ih \in Infohash : Ask(f, ih)
    \/ LookIntoCompleted(f) \/ LookIntoInProgress(f) \/ PushNew(f) \/ Reject(f)

RunnerStep(r) ==
    \/ Pop(r) \/ FindNothing(r) \/ LookForTasks(r) \/ LookForDownloads(r)
    \/ FindRoom(r) \/ BeginDownload(r) \/ EndDownload(r)
    \/ Retry(r) \/ MarkFailed(r)

Backoff == \E i \in 1 .. MaxQueueSize + MaxEnqueues : Ripen(i)

QueueNext ==
    \/ \E f \in Feeder : FeederStep(f)
    \/ \E r \in Runner : RunnerStep(r)
    \/ Backoff

QueueSpec == QueueInit /\ [][QueueNext]_queueVars

-----------------------------------------------------------------------------
(* Properties *)

\* What enqueue has accepted is queued, in the hands of a run, or marked as
\* failed: no step between two locks drops it, and a full queue does not.
NothingForgotten ==
    \A ih \in Infohash : accepted[ih] > 0 =>
        \/ ih \in failed
        \/ \E i \in DOMAIN queue : queue[i].ih = ih
        \/ \E r \in Runner : task[r].ih = ih

\* An infohash is tried max_retries times at most each time it is accepted,
\* also when its duplicate is in the queue.
AttemptsBounded ==
    \A ih \in Infohash : attempts[ih] <= MaxRetries * accepted[ih]

\* run comes back once nothing new is enqueued: it is not kept by retries, by
\* the mark of a download that failed, or by another run.
RunReturns == \A r \in Runner : rpc[r] # "pop" ~> rpc[r] = "returned"
=============================================================================
