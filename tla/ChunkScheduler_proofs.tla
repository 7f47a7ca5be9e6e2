----------------------- MODULE ChunkScheduler_proofs -----------------------
(***************************************************************************)
(* Theorems about ChunkScheduler for any set of sources, any finite crew,  *)
(* any number of chunks, retries and any thresholds: type correctness, the *)
(* conservation of chunks, the counters, and the verdict of execute.       *)
(***************************************************************************)
EXTENDS ChunkScheduler, FiniteSetTheorems, SequenceTheorems, TLAPS

-----------------------------------------------------------------------------
(* The inductive invariant *)

\* Before execute starts there is nothing to work on and no result; a result
\* exists only once execute has returned, and by then no worker is running.
PhaseInv ==
    /\ phase = "setup" =>
          /\ queue = << >>
          /\ DOMAIN outcome = {}
          /\ \A w \in Worker : pc[w] = "off"
          /\ disk = {}
          /\ successCount = 0 /\ failureCount = 0
    /\ phase = "running" => DOMAIN outcome # {}
    /\ phase # "returned" => result = NoResult
    /\ phase = "returned" => \A w \in Worker : pc[w] \in {"off", "exit"}

\* A task in the queue or in a worker's hands belongs to a chunk of the file;
\* one waiting for its retry has a retry left; one about to be counted has
\* been written.
TaskInv ==
    /\ IsFiniteSet(DOMAIN outcome)
    /\ \A i \in 1 .. Len(queue) : queue[i].chunk \in DOMAIN outcome
    /\ \A w \in Worker :
          /\ pc[w] \in Holding => task[w] \in Task /\ task[w].chunk \in DOMAIN outcome
          /\ pc[w] = "backoff" => task[w].retries < MaxRetries
          /\ pc[w] = "count" => task[w].chunk \in disk

IInv ==
    /\ TypeOK
    /\ PhaseInv
    /\ TaskInv
    /\ EachChunkInOnePlace
    /\ CountersMatchOutcomes
    /\ QueueIsServed
    /\ VerdictIsComplete

-----------------------------------------------------------------------------
(* Lemmas about the operators the model is built from *)

\* record_success, record_failure and the rest keep the pool well typed.
LEMMA PoolOperationsTyped ==
    ASSUME PoolTypeOK, NEW s,
           \/ s \in Source /\ AddSource(s)
           \/ RecordSuccess(s)
           \/ RecordFailure(s)
           \/ CooldownExpires(s)
           \/ CleanupDead
    PROVE  PoolTypeOK'
<1> USE ThresholdsAssumption DEF PoolTypeOK, RatedSource, SourceHealth
<1>1. Fresh \in RatedSource
  BY DEF Fresh
<1>2. ASSUME NEW r \in RatedSource, NEW n \in 0 .. DeadThreshold
      PROVE  AfterFailure(r, n) \in RatedSource
  BY <1>2 DEF AfterFailure
<1>3. ASSUME NEW n \in 0 .. DeadThreshold
      PROVE  Increment(n) \in 0 .. DeadThreshold
  BY DEF Increment
<1>4. CASE s \in Source /\ AddSource(s)
  BY <1>1, <1>4 DEF AddSource
<1>5. CASE RecordSuccess(s)
  BY <1>1, <1>5 DEF RecordSuccess, Present
<1>6. CASE RecordFailure(s)
  <2>1. CASE Present(s)
    <3>1. AfterFailure(sources[s], Increment(sources[s].failures)) \in RatedSource
      BY <1>2, <1>3, <2>1 DEF Present
    <3>. QED
      BY <1>6, <2>1, <3>1 DEF RecordFailure, Present
  <2>2. CASE ~Present(s)
    BY <1>6, <2>2 DEF RecordFailure
  <2>. QED
    BY <2>1, <2>2
<1>7. CASE CooldownExpires(s)
  BY <1>7 DEF CooldownExpires, Present
<1>8. CASE CleanupDead
  BY <1>8 DEF CleanupDead
<1>. QED
  BY <1>4, <1>5, <1>6, <1>7, <1>8

\* What a pop leaves behind.
LEMMA PopFacts ==
    ASSUME NEW q \in Seq(Task), q # << >>, NEW r, r = SubSeq(q, 1, Len(q) - 1)
    PROVE  /\ Len(q) \in Nat \ {0}
           /\ q[Len(q)] \in Task
           /\ r \in Seq(Task)
           /\ Len(r) = Len(q) - 1
           /\ \A i \in 1 .. Len(r) : r[i] = q[i]
<1>1. Len(q) \in Nat \ {0}
  BY EmptySeq, LenProperties
<1>2. \A i \in 1 .. Len(q) : q[i] \in Task
  BY ElementOfSeq
<1>3. \A i \in 1 .. Len(q) - 1 : q[i] \in Task
  BY <1>1, <1>2
<1>4. /\ r \in Seq(Task)
      /\ Len(r) = IF 1 <= Len(q) - 1 THEN Len(q) - 1 - 1 + 1 ELSE 0
      /\ \A i \in 1 .. Len(q) - 1 - 1 + 1 : r[i] = q[1 + i - 1]
  BY <1>1, <1>3, SubSeqProperties
<1>5. Len(r) = Len(q) - 1
  <2>1. \A n \in Nat \ {0} : (IF 1 <= n - 1 THEN n - 1 - 1 + 1 ELSE 0) = n - 1
    OBVIOUS
  <2>. QED
    BY <1>1, <1>4, <2>1
<1>6. ASSUME NEW i \in 1 .. Len(r)
      PROVE  r[i] = q[i]
  <2>1. i \in Int /\ 1 + i - 1 = i /\ i \in 1 .. Len(q) - 1 - 1 + 1
    BY <1>1, <1>5, <1>6
  <2>. QED
    BY <1>4, <2>1
<1>. QED
  BY <1>1, <1>2, <1>4, <1>5, <1>6

\* What a push adds.
LEMMA PushFacts ==
    ASSUME NEW q \in Seq(Task), NEW t \in Task
    PROVE  /\ Append(q, t) \in Seq(Task)
           /\ Append(q, t) # << >>
           /\ Len(q) \in Nat
           /\ Len(Append(q, t)) = Len(q) + 1
           /\ \A i \in 1 .. Len(q) : Append(q, t)[i] = q[i]
           /\ Append(q, t)[Len(q) + 1] = t
  BY AppendProperties, LenProperties

\* Settling a chunk leaves the set of chunks and the range of outcomes alone.
LEMMA SettleTyped ==
    ASSUME NEW f, NEW c, NEW o, NEW R, f \in [DOMAIN f -> R], o \in R
    PROVE  /\ DOMAIN [f EXCEPT ![c] = o] = DOMAIN f
           /\ [f EXCEPT ![c] = o] \in [DOMAIN f -> R]
  OBVIOUS

-----------------------------------------------------------------------------
(* Type correctness and the phases *)

LEMMA TypeInit == Init => TypeOK
<1> SUFFICES ASSUME Init PROVE TypeOK
  OBVIOUS
<1>1. PoolTypeOK
  BY DEF Init, PoolTypeOK
<1>2. queue \in Seq(Task)
  BY EmptySeq DEF Init
<1>3. result \in Verdict
  BY DEF Init, NoResult, Verdict
<1>. QED
  BY <1>1, <1>2, <1>3 DEF Init, TypeOK, Location

LEMMA TypeStep ==
    ASSUME TypeOK, TaskInv, [Next]_vars
    PROVE  TypeOK'
<1> USE SchedulerAssumption DEF TypeOK, Location
<1>p. PoolTypeOK'
  <2>1. CASE UNCHANGED sources
    BY <2>1 DEF PoolTypeOK
  <2>2. CASE \E s \in Source : AddSource(s)
    BY <2>2, PoolOperationsTyped
  <2>3. CASE \E s : RecordSuccess(s) \/ RecordFailure(s) \/ CooldownExpires(s) \/ CleanupDead
    BY <2>3, PoolOperationsTyped
  <2>. QED
    BY <2>1, <2>2, <2>3
    DEF Next, vars, AddSourceToPool, CooldownPasses, Start, Refuse, Cancel, Return, Cleanup,
        Terminated, WorkerStep, CheckCancel, PopTask, FindQueueEmpty, SelectSource,
        NoSourceAvailable, WakeUp, FetchChunk, WriteChunk, WriteFails, CountSuccess,
        CreditSource, BlameAndRetry, BlameAndGiveUp, RequeueRetry
<1>1. ASSUME NEW s \in Source, AddSourceToPool(s)
      PROVE  TypeOK'
  BY <1>p, <1>1 DEF AddSourceToPool, schedVars
<1>2. ASSUME NEW s \in Source, CooldownPasses(s)
      PROVE  TypeOK'
  BY <1>p, <1>2 DEF CooldownPasses, schedVars
<1>3. ASSUME NEW n \in Chunk, NEW crew \in SUBSET Worker, Start(n, crew)
      PROVE  TypeOK'
  <2>1. [i \in 1 .. n |-> [chunk |-> i, retries |-> 0]] \in Seq(Task)
    <3>1. \A i \in 1 .. n : [chunk |-> i, retries |-> 0] \in Task
      BY DEF Chunk, Task
    <3>. QED
      BY <3>1, IsASeq DEF Chunk
  <2>. QED
    BY <1>p, <1>3, <2>1 DEF Start, Chunk
<1>4. CASE Refuse
  BY <1>p, <1>4 DEF Refuse, NoResult, Verdict
<1>5. CASE Cancel
  BY <1>p, <1>5 DEF Cancel
<1>6. CASE Return
  BY <1>p, <1>6 DEF Return, Verdict
<1>7. CASE Cleanup
  BY <1>p, <1>7 DEF Cleanup, schedVars
<1>8. ASSUME NEW w \in Worker, WorkerStep(w)
      PROVE  TypeOK'
  <2> USE DEF Goto, DropTask
  <2>1. CASE CheckCancel(w)
    BY <1>p, <2>1 DEF CheckCancel
  <2>2. CASE PopTask(w)
    BY <1>p, <2>2, PopFacts DEF PopTask
  <2>3. CASE FindQueueEmpty(w)
    BY <1>p, <2>3 DEF FindQueueEmpty
  <2>4. ASSUME NEW s \in Source, SelectSource(w, s)
        PROVE  TypeOK'
    BY <1>p, <2>4 DEF SelectSource
  <2>5. CASE NoSourceAvailable(w)
    BY <1>p, <2>5, PushFacts DEF NoSourceAvailable, Push, TaskInv, Holding
  <2>6. CASE WakeUp(w)
    BY <1>p, <2>6 DEF WakeUp
  <2>7. CASE FetchChunk(w)
    BY <1>p, <2>7 DEF FetchChunk
  <2>8. CASE WriteChunk(w)
    BY <1>p, <2>8 DEF WriteChunk, TaskInv, Holding, Task
  <2>9. CASE WriteFails(w)
    BY <1>p, <2>9 DEF WriteFails
  <2>10. CASE CountSuccess(w)
    <3>1. successCount' \in Nat /\ pc' \in [Worker -> Location]
      BY <2>10 DEF CountSuccess
    <3>. QED
      BY <1>p, <2>10, <3>1, SettleTyped DEF CountSuccess
  <2>11. CASE CreditSource(w)
    BY <1>p, <2>11 DEF CreditSource
  <2>12. CASE BlameAndRetry(w)
    BY <1>p, <2>12 DEF BlameAndRetry
  <2>13. CASE BlameAndGiveUp(w)
    <3>1. failureCount' \in Nat /\ pc' \in [Worker -> Location]
      BY <2>13 DEF BlameAndGiveUp
    <3>. QED
      BY <1>p, <2>13, <3>1, SettleTyped DEF BlameAndGiveUp
  <2>14. CASE RequeueRetry(w)
    <3>1. [task[w] EXCEPT !.retries = @ + 1] \in Task
      BY <2>14 DEF RequeueRetry, TaskInv, Holding, Task
    <3>. QED
      BY <1>p, <2>14, <3>1, PushFacts DEF RequeueRetry, Push
  <2>. QED
    BY <1>8, <2>1, <2>2, <2>3, <2>4, <2>5, <2>6, <2>7, <2>8, <2>9, <2>10, <2>11, <2>12,
       <2>13, <2>14 DEF WorkerStep
<1>9. CASE UNCHANGED vars
  BY <1>p, <1>9 DEF vars, schedVars
<1>. QED
  BY <1>1, <1>2, <1>3, <1>4, <1>5, <1>6, <1>7, <1>8, <1>9 DEF Next, Terminated

LEMMA PhaseStep ==
    ASSUME TypeOK, PhaseInv, [Next]_vars
    PROVE  PhaseInv'
<1> USE SchedulerAssumption DEF PhaseInv
<1>1. ASSUME NEW s \in Source, AddSourceToPool(s) \/ CooldownPasses(s)
      PROVE  PhaseInv'
  BY <1>1 DEF AddSourceToPool, CooldownPasses, schedVars
<1>2. ASSUME NEW n \in Chunk, NEW crew \in SUBSET Worker, Start(n, crew)
      PROVE  PhaseInv'
  <2>1. 1 \in DOMAIN outcome'
    BY <1>2 DEF Start, Chunk
  <2>. QED
    BY <1>2, <2>1 DEF Start
<1>3. CASE Refuse \/ Cancel \/ Return \/ Cleanup
  BY <1>3 DEF Refuse, Cancel, Return, Cleanup, schedVars
<1>4. ASSUME NEW w \in Worker, WorkerStep(w)
      PROVE  PhaseInv'
  <2>1. phase = "running"
    BY <1>4
    DEF TypeOK, WorkerStep, CheckCancel, PopTask, FindQueueEmpty, SelectSource,
        NoSourceAvailable, WakeUp, FetchChunk, WriteChunk, WriteFails, CountSuccess,
        CreditSource, BlameAndRetry, BlameAndGiveUp, RequeueRetry
  <2>2. phase' = phase /\ result' = result /\ DOMAIN outcome' = DOMAIN outcome
    BY <1>4, SettleTyped
    DEF TypeOK, WorkerStep, CheckCancel, PopTask, FindQueueEmpty, SelectSource,
        NoSourceAvailable, WakeUp, FetchChunk, WriteChunk, WriteFails, CountSuccess,
        CreditSource, BlameAndRetry, BlameAndGiveUp, RequeueRetry
  <2>. QED
    BY <2>1, <2>2
<1>5. CASE UNCHANGED vars
  BY <1>5 DEF vars, schedVars
<1>. QED
  BY <1>1, <1>2, <1>3, <1>4, <1>5 DEF Next, Terminated

LEMMA TaskStep ==
    ASSUME TypeOK, PhaseInv, TaskInv, [Next]_vars
    PROVE  TaskInv'
<1> USE SchedulerAssumption DEF TaskInv, Holding
<1>1. ASSUME NEW s \in Source, AddSourceToPool(s) \/ CooldownPasses(s)
      PROVE  TaskInv'
  BY <1>1 DEF AddSourceToPool, CooldownPasses, schedVars
<1>2. ASSUME NEW n \in Chunk, NEW crew \in SUBSET Worker, Start(n, crew)
      PROVE  TaskInv'
  <2>1. n \in Nat /\ DOMAIN outcome' = 1 .. n /\ Len(queue') = n
    BY <1>2 DEF Start, Chunk
  <2>2. IsFiniteSet(DOMAIN outcome')
    BY <2>1, FS_Interval
  <2>3. \A i \in 1 .. Len(queue') : queue'[i].chunk \in DOMAIN outcome'
    BY <1>2, <2>1 DEF Start
  <2>4. \A w \in Worker : pc'[w] \in {"loop", "off"}
    BY <1>2 DEF Start
  <2>. QED
    BY <2>2, <2>3, <2>4
<1>3. CASE Refuse \/ Cancel \/ Return \/ Cleanup
  BY <1>3 DEF Refuse, Cancel, Return, Cleanup, schedVars
<1>4. ASSUME NEW w \in Worker, WorkerStep(w)
      PROVE  TaskInv'
  <2> USE DEF TypeOK, Goto, DropTask
  <2>1. CASE CheckCancel(w) \/ FindQueueEmpty(w) \/ WakeUp(w) \/ CreditSource(w)
    BY <2>1 DEF CheckCancel, FindQueueEmpty, WakeUp, CreditSource
  <2>2. CASE PopTask(w)
    <3>a. queue \in Seq(Task) /\ queue # << >> /\ queue' = SubSeq(queue, 1, Len(queue) - 1)
      BY <2>2 DEF PopTask
    <3>. DEFINE n == Len(queue)
    <3>0. /\ n \in Nat \ {0}
          /\ queue[n] \in Task
          /\ Len(queue') = n - 1
          /\ \A i \in 1 .. Len(queue') : queue'[i] = queue[i]
      <4>. HIDE DEF TaskInv, TypeOK
      <4>. QED
        BY <3>a, PopFacts
    <3>1. n \in 1 .. n /\ \A i \in 1 .. Len(queue') : i \in 1 .. n
      BY <3>0
    <3>2. task'[w] = queue[Len(queue)] /\ pc'[w] = "select"
      BY <2>2 DEF PopTask
    <3>. HIDE DEF n
    <3>. QED
      BY <2>2, <3>0, <3>1, <3>2 DEF PopTask, n
  <2>3. CASE (\E s \in Source : SelectSource(w, s)) \/ FetchChunk(w) \/ WriteFails(w)
    BY <2>3 DEF SelectSource, FetchChunk, WriteFails
  <2>4. CASE NoSourceAvailable(w)
    <3>1. /\ Len(queue) \in Nat
          /\ Len(queue') = Len(queue) + 1
          /\ \A i \in 1 .. Len(queue) : queue'[i] = queue[i]
          /\ queue'[Len(queue) + 1] = task[w]
      BY <2>4, PushFacts DEF NoSourceAvailable, Push
    <3>. QED
      BY <2>4, <3>1 DEF NoSourceAvailable
  <2>5. CASE WriteChunk(w)
    BY <2>5 DEF WriteChunk
  <2>6. CASE CountSuccess(w)
    <3>1. DOMAIN outcome' = DOMAIN outcome
      BY <2>6, SettleTyped DEF CountSuccess
    <3>. QED
      BY <2>6, <3>1 DEF CountSuccess
  <2>7. CASE BlameAndRetry(w)
    BY <2>7 DEF BlameAndRetry
  <2>8. CASE BlameAndGiveUp(w)
    <3>1. DOMAIN outcome' = DOMAIN outcome
      BY <2>8, SettleTyped DEF BlameAndGiveUp
    <3>. QED
      BY <2>8, <3>1 DEF BlameAndGiveUp
  <2>9. CASE RequeueRetry(w)
    <3>. DEFINE t == [task[w] EXCEPT !.retries = @ + 1]
    <3>1. task[w] \in Task /\ task[w].retries < MaxRetries /\ task[w].chunk \in DOMAIN outcome
      BY <2>9 DEF RequeueRetry
    <3>2. t \in Task /\ t.chunk = task[w].chunk
      BY <3>1 DEF Task
    <3>3. /\ Len(queue) \in Nat
          /\ Len(queue') = Len(queue) + 1
          /\ \A i \in 1 .. Len(queue) : queue'[i] = queue[i]
          /\ queue'[Len(queue) + 1] = t
      BY <2>9, <3>2, PushFacts DEF RequeueRetry, Push
    <3>4. \A i \in 1 .. Len(queue') : queue'[i].chunk \in DOMAIN outcome
      <4>. HIDE DEF t
      <4>. QED
        BY <3>1, <3>2, <3>3
    <3>. QED
      BY <2>9, <3>4 DEF RequeueRetry
  <2>. QED
    BY <1>4, <2>1, <2>2, <2>3, <2>4, <2>5, <2>6, <2>7, <2>8, <2>9 DEF WorkerStep
<1>5. CASE UNCHANGED vars
  BY <1>5 DEF vars, schedVars
<1>. QED
  BY <1>1, <1>2, <1>3, <1>4, <1>5 DEF Next, Terminated


-----------------------------------------------------------------------------
(* Conservation of chunks *)

\* A step that moves no task and settles no chunk.
LEMMA QuietStep ==
    ASSUME EachChunkInOnePlace,
           queue' = queue, outcome' = outcome,
           \A w \in Worker : /\ pc'[w] \in Holding <=> pc[w] \in Holding
                             /\ pc[w] \in Holding => task'[w].chunk = task[w].chunk
    PROVE  EachChunkInOnePlace'
<1>1. \A c : Queued(c)' = Queued(c)
  BY DEF Queued
<1>2. \A c : Holders(c)' = Holders(c)
  BY DEF Holders
<1>3. ChunksThat("pending")' = ChunksThat("pending")
  BY DEF ChunksThat
<1>. QED
  BY <1>1, <1>2, <1>3 DEF EachChunkInOnePlace, NothingLost, NothingTwice, NothingAgain

\* A pop moves the top task of the queue into the hands of a worker.
LEMMA PopStep ==
    ASSUME TypeOK, TaskInv, EachChunkInOnePlace, NEW w \in Worker, PopTask(w)
    PROVE  EachChunkInOnePlace'
<1> DEFINE n == Len(queue)
<1>0. PICK c0 : c0 = queue[n].chunk
  OBVIOUS
<1>a. queue \in Seq(Task) /\ queue # << >> /\ queue' = SubSeq(queue, 1, Len(queue) - 1)
  BY DEF PopTask, TypeOK
<1>1. /\ n \in Nat \ {0}
      /\ Len(queue') = n - 1
      /\ \A i \in 1 .. Len(queue') : queue'[i] = queue[i]
  BY <1>a, PopFacts
<1>2. /\ pc[w] = "pop" /\ outcome' = outcome
      /\ pc' = [pc EXCEPT ![w] = "select"]
      /\ task' = [task EXCEPT ![w] = queue[n]]
      /\ pc \in [Worker -> Location] /\ task \in [Worker -> Task \cup {NoTask}]
  BY DEF PopTask, TypeOK, Goto
<1>3. n \in Queued(c0) /\ c0 \in DOMAIN outcome
  BY <1>0, <1>1 DEF Queued, TaskInv
<1>4. Holders(c0) = {} /\ c0 \in ChunksThat("pending") /\ \A i \in Queued(c0) : i = n
  BY <1>3 DEF EachChunkInOnePlace, NothingTwice, NothingAgain
<1> HIDE DEF n
<1>5. \A c : Queued(c)' = Queued(c) \ {n}
  BY <1>1 DEF Queued, n
<1>6. \A c : Holders(c)' = IF c = c0 THEN Holders(c) \cup {w} ELSE Holders(c)
  BY <1>0, <1>2 DEF Holders, Holding
<1>7. \A c : c # c0 => n \notin Queued(c)
  BY <1>0 DEF Queued
<1>8. \A c : c # c0 => Queued(c)' = Queued(c) /\ Holders(c)' = Holders(c)
  BY <1>5, <1>6, <1>7
<1>9. Queued(c0)' = {} /\ Holders(c0)' = {w}
  BY <1>4, <1>5, <1>6
<1>10. ChunksThat("pending")' = ChunksThat("pending") /\ DOMAIN outcome' = DOMAIN outcome
  BY <1>2 DEF ChunksThat
<1>. QED
  BY <1>4, <1>8, <1>9, <1>10 DEF EachChunkInOnePlace, NothingLost, NothingTwice, NothingAgain

\* A push moves the task of a worker, with any number of retries, on top of the queue.
LEMMA PushStep ==
    ASSUME TypeOK, TaskInv, EachChunkInOnePlace, NEW w \in Worker, NEW t \in Task,
           pc[w] \in Holding, pc'[w] \notin Holding, t.chunk = task[w].chunk,
           queue' = Append(queue, t), outcome' = outcome,
           \A v \in Worker \ {w} : pc'[v] = pc[v] /\ task'[v] = task[v]
    PROVE  EachChunkInOnePlace'
<1> DEFINE n == Len(queue) + 1
<1>0. PICK c0 : c0 = t.chunk
  OBVIOUS
<1>1. /\ n \in Nat \ {0}
      /\ Len(queue') = n
      /\ \A i \in 1 .. n - 1 : queue'[i] = queue[i]
      /\ queue'[n] = t
      /\ Len(queue) = n - 1
  BY PushFacts DEF TypeOK
<1>2. w \in Holders(c0) /\ c0 \in DOMAIN outcome
  BY <1>0 DEF Holders, TaskInv
<1>3. Queued(c0) = {} /\ c0 \in ChunksThat("pending") /\ \A v \in Holders(c0) : v = w
  BY <1>2 DEF EachChunkInOnePlace, NothingTwice, NothingAgain
<1> HIDE DEF n
<1>4. \A c : Queued(c)' = IF c = c0 THEN Queued(c) \cup {n} ELSE Queued(c)
  BY <1>0, <1>1 DEF Queued
<1>5. \A c : Holders(c)' = Holders(c) \ {w}
  BY DEF Holders
<1>6. \A c : c # c0 => w \notin Holders(c)
  BY <1>0 DEF Holders
<1>7. \A c : c # c0 => Queued(c)' = Queued(c) /\ Holders(c)' = Holders(c)
  BY <1>4, <1>5, <1>6
<1>8. Queued(c0)' = {n} /\ Holders(c0)' = {}
  BY <1>3, <1>4, <1>5
<1>9. ChunksThat("pending")' = ChunksThat("pending") /\ DOMAIN outcome' = DOMAIN outcome
  BY DEF ChunksThat
<1>10. NothingLost'
  BY <1>7, <1>8, <1>9 DEF EachChunkInOnePlace, NothingLost
<1>11. NothingTwice'
  BY <1>7, <1>8, <1>9 DEF EachChunkInOnePlace, NothingTwice
<1>12. NothingAgain'
  BY <1>3, <1>7, <1>9 DEF EachChunkInOnePlace, NothingAgain
<1>. QED
  BY <1>10, <1>11, <1>12 DEF EachChunkInOnePlace

\* Settling a chunk takes its task out of the hands of the worker for good.
LEMMA SettleStep ==
    ASSUME TypeOK, TaskInv, EachChunkInOnePlace, NEW w \in Worker, NEW o, o # "pending",
           pc[w] \in Holding, pc'[w] \notin Holding,
           queue' = queue, outcome' = [outcome EXCEPT ![task[w].chunk] = o],
           \A v \in Worker \ {w} : pc'[v] = pc[v] /\ task'[v] = task[v]
    PROVE  EachChunkInOnePlace'
<1>0. PICK c0 : c0 = task[w].chunk
  OBVIOUS
<1>1. w \in Holders(c0) /\ c0 \in DOMAIN outcome
  BY <1>0 DEF Holders, TaskInv
<1>2. Queued(c0) = {} /\ \A v \in Holders(c0) : v = w
  BY <1>1 DEF EachChunkInOnePlace, NothingTwice
<1>3. \A c : Queued(c)' = Queued(c)
  BY DEF Queued
<1>4. \A c : Holders(c)' = Holders(c) \ {w}
  BY DEF Holders
<1>5. \A c : c # c0 => w \notin Holders(c)
  BY <1>0 DEF Holders
<1>6. \A c : c # c0 => Holders(c)' = Holders(c)
  BY <1>4, <1>5
<1>7. Holders(c0)' = {}
  BY <1>2, <1>4
<1>8. DOMAIN outcome' = DOMAIN outcome
      /\ ChunksThat("pending")' = ChunksThat("pending") \ {c0}
  BY <1>0, <1>1 DEF ChunksThat, TypeOK
<1>. QED
  BY <1>2, <1>3, <1>6, <1>7, <1>8 DEF EachChunkInOnePlace, NothingLost, NothingTwice, NothingAgain

LEMMA PlacesStep ==
    ASSUME TypeOK, PhaseInv, TaskInv, EachChunkInOnePlace, [Next]_vars
    PROVE  EachChunkInOnePlace'
<1>1. ASSUME NEW s \in Source, AddSourceToPool(s) \/ CooldownPasses(s)
      PROVE  EachChunkInOnePlace'
  BY <1>1, QuietStep DEF AddSourceToPool, CooldownPasses, schedVars
<1>2. ASSUME NEW n \in Chunk, NEW crew \in SUBSET Worker, Start(n, crew)
      PROVE  EachChunkInOnePlace'
  <2>1. n \in Nat /\ DOMAIN outcome' = 1 .. n /\ Len(queue') = n
    BY <1>2, SchedulerAssumption DEF Start, Chunk
  <2>2. \A c \in 1 .. n : Queued(c)' = {c}
    BY <1>2, <2>1 DEF Start, Queued
  <2>3. \A c : Holders(c)' = {}
    BY <1>2 DEF Start, Holders, Holding
  <2>4. ChunksThat("pending")' = 1 .. n
    BY <1>2, <2>1 DEF Start, ChunksThat
  <2>. QED
    BY <2>1, <2>2, <2>3, <2>4 DEF EachChunkInOnePlace, NothingLost, NothingTwice, NothingAgain
<1>3. CASE Refuse \/ Cancel \/ Return \/ Cleanup
  BY <1>3, QuietStep DEF Refuse, Cancel, Return, Cleanup, schedVars
<1>4. ASSUME NEW w \in Worker, WorkerStep(w)
      PROVE  EachChunkInOnePlace'
  <2>0. pc \in [Worker -> Location] /\ task \in [Worker -> Task \cup {NoTask}]
    BY DEF TypeOK
  <2>1. CASE CheckCancel(w) \/ FindQueueEmpty(w) \/ WakeUp(w) \/ CreditSource(w)
    BY <2>0, <2>1, QuietStep
    DEF CheckCancel, FindQueueEmpty, WakeUp, CreditSource, Goto, DropTask, Holding
  <2>2. CASE PopTask(w)
    BY <2>2, PopStep
  <2>3. CASE (\E s \in Source : SelectSource(w, s)) \/ FetchChunk(w) \/ WriteChunk(w)
             \/ WriteFails(w) \/ BlameAndRetry(w)
    BY <2>0, <2>3, QuietStep
    DEF SelectSource, FetchChunk, WriteChunk, WriteFails, BlameAndRetry, Goto, Holding
  <2>4. CASE NoSourceAvailable(w)
    <3>1. task[w] \in Task
      BY <2>4 DEF NoSourceAvailable, TaskInv, Holding
    <3>. QED
      BY <2>0, <2>4, <3>1, PushStep DEF NoSourceAvailable, Push, DropTask, Goto, Holding
  <2>5. CASE CountSuccess(w)
    BY <2>0, <2>5, SettleStep DEF CountSuccess, Goto, Holding
  <2>6. CASE BlameAndGiveUp(w)
    BY <2>0, <2>6, SettleStep DEF BlameAndGiveUp, Goto, DropTask, Holding
  <2>7. CASE RequeueRetry(w)
    <3>1. task[w] \in Task /\ task[w].retries < MaxRetries
      BY <2>7 DEF RequeueRetry, TaskInv, Holding
    <3>2. [task[w] EXCEPT !.retries = @ + 1] \in Task
      BY <3>1, SchedulerAssumption DEF Task
    <3>3. [task[w] EXCEPT !.retries = @ + 1].chunk = task[w].chunk
      BY <3>1 DEF Task
    <3>. QED
      BY <2>0, <2>7, <3>2, <3>3, PushStep DEF RequeueRetry, Push, DropTask, Goto, Holding
  <2>. QED
    BY <1>4, <2>1, <2>2, <2>3, <2>4, <2>5, <2>6, <2>7 DEF WorkerStep
<1>5. CASE UNCHANGED vars
  BY <1>5, QuietStep DEF vars, schedVars
<1>. QED
  BY <1>1, <1>2, <1>3, <1>4, <1>5 DEF Next, Terminated


-----------------------------------------------------------------------------
(* Counters, service of the queue, and the verdict *)

LEMMA CountersStep ==
    ASSUME TypeOK, PhaseInv, TaskInv, EachChunkInOnePlace, CountersMatchOutcomes, [Next]_vars
    PROVE  CountersMatchOutcomes'
<1>1. CASE /\ UNCHANGED << outcome, successCount, failureCount >>
           /\ disk \subseteq disk'
  BY <1>1 DEF CountersMatchOutcomes, ChunksThat
<1>2. ASSUME NEW n \in Chunk, NEW crew \in SUBSET Worker, Start(n, crew)
      PROVE  CountersMatchOutcomes'
  <2>1. ChunksThat("succeeded")' = {} /\ ChunksThat("failed")' = {}
    BY <1>2 DEF Start, ChunksThat
  <2>2. successCount' = 0 /\ failureCount' = 0
    BY <1>2 DEF Start, PhaseInv
  <2>. QED
    BY <2>1, <2>2, FS_EmptySet DEF CountersMatchOutcomes
<1>3. ASSUME NEW w \in Worker, CountSuccess(w) \/ BlameAndGiveUp(w)
      PROVE  CountersMatchOutcomes'
  <2>1. w \in Holders(task[w].chunk) /\ task[w].chunk \in DOMAIN outcome
    BY <1>3 DEF CountSuccess, BlameAndGiveUp, Holders, Holding, TaskInv
  <2>2. outcome[task[w].chunk] = "pending"
    BY <2>1 DEF EachChunkInOnePlace, NothingAgain, ChunksThat
  <2>3. IsFiniteSet(ChunksThat("succeeded")) /\ IsFiniteSet(ChunksThat("failed"))
    BY FS_Subset DEF TaskInv, ChunksThat
  <2>4. CASE CountSuccess(w)
    <3>1. /\ ChunksThat("succeeded")' = ChunksThat("succeeded") \cup {task[w].chunk}
          /\ task[w].chunk \notin ChunksThat("succeeded")
          /\ ChunksThat("failed")' = ChunksThat("failed")
      BY <2>1, <2>2, <2>4 DEF CountSuccess, ChunksThat, TypeOK
    <3>2. Cardinality(ChunksThat("succeeded")') = Cardinality(ChunksThat("succeeded")) + 1
      BY <2>3, <3>1, FS_AddElement
    <3>3. task[w].chunk \in disk /\ disk' = disk
      BY <2>4 DEF CountSuccess, TaskInv
    <3>. QED
      BY <2>4, <3>1, <3>2, <3>3 DEF CountSuccess, CountersMatchOutcomes
  <2>5. CASE BlameAndGiveUp(w)
    <3>1. /\ ChunksThat("failed")' = ChunksThat("failed") \cup {task[w].chunk}
          /\ task[w].chunk \notin ChunksThat("failed")
          /\ ChunksThat("succeeded")' = ChunksThat("succeeded")
      BY <2>1, <2>2, <2>5 DEF BlameAndGiveUp, ChunksThat, TypeOK
    <3>2. Cardinality(ChunksThat("failed")') = Cardinality(ChunksThat("failed")) + 1
      BY <2>3, <3>1, FS_AddElement
    <3>. QED
      BY <2>5, <3>1, <3>2 DEF BlameAndGiveUp, CountersMatchOutcomes
  <2>. QED
    BY <1>3, <2>4, <2>5
<1>. QED
  BY <1>1, <1>2, <1>3
  DEF Next, vars, schedVars, AddSourceToPool, CooldownPasses, Refuse, Cancel, Return, Cleanup,
      Terminated, WorkerStep, CheckCancel, PopTask, FindQueueEmpty, SelectSource,
      NoSourceAvailable, WakeUp, FetchChunk, WriteChunk, WriteFails,
      CreditSource, BlameAndRetry, RequeueRetry

LEMMA ServedStep ==
    ASSUME TypeOK, PhaseInv, QueueIsServed, [Next]_vars
    PROVE  QueueIsServed'
<1>1. CASE UNCHANGED << queue, pc >> /\ (phase' = "running" => phase = "running")
           /\ (cancelled => cancelled')
  BY <1>1 DEF QueueIsServed, TypeOK
<1>2. ASSUME NEW n \in Chunk, NEW crew \in (SUBSET Worker) \ {{}}, Start(n, crew)
      PROVE  QueueIsServed'
  <2>0. crew # {} /\ \A w \in crew : w \in Worker
    OBVIOUS
  <2>1. PICK w \in crew : w \in Worker
    BY <2>0
  <2>2. pc'[w] = "loop"
    BY <1>2, <2>1 DEF Start
  <2>. QED
    BY <2>1, <2>2 DEF QueueIsServed
<1>3. ASSUME NEW w \in Worker, WorkerStep(w), pc'[w] \notin {"off", "exit"}
      PROVE  QueueIsServed'
  BY <1>3 DEF QueueIsServed
<1>4. ASSUME NEW w \in Worker, WorkerStep(w), pc'[w] \in {"off", "exit"}
      PROVE  QueueIsServed'
  BY <1>4
  DEF QueueIsServed, TypeOK, Goto, WorkerStep, CheckCancel, PopTask, FindQueueEmpty,
      SelectSource, NoSourceAvailable, WakeUp, FetchChunk, WriteChunk, WriteFails,
      CountSuccess, CreditSource, BlameAndRetry, BlameAndGiveUp, RequeueRetry
<1>. QED
  BY <1>1, <1>2, <1>3, <1>4
  DEF Next, vars, schedVars, AddSourceToPool, CooldownPasses, Refuse, Cancel, Return, Cleanup,
      Terminated

\* When the workers have been joined without a cancellation nothing is pending.
LEMMA NothingPending ==
    ASSUME TypeOK, TaskInv, EachChunkInOnePlace, QueueIsServed,
           phase = "running", ~cancelled, \A w \in Worker : pc[w] \in {"off", "exit"}
    PROVE  ChunksThat("pending") = {}
<1>1. queue = << >>
  BY DEF QueueIsServed
<1>2. \A c : Queued(c) = {}
  BY <1>1 DEF Queued
<1>3. \A c : Holders(c) = {}
  BY DEF Holders, Holding
<1>. QED
  BY <1>2, <1>3 DEF EachChunkInOnePlace, NothingLost

LEMMA VerdictStep ==
    ASSUME IInv, [Next]_vars
    PROVE  VerdictIsComplete'
<1> USE DEF IInv, VerdictIsComplete
<1>1. CASE /\ UNCHANGED << phase, outcome, disk, result >>
  BY <1>1
<1>2. CASE phase' # "returned"
  BY <1>2
<1>3. CASE Refuse
  BY <1>3 DEF Refuse, PhaseInv
<1>4. CASE Return
  <2> SUFFICES ASSUME ~cancelled
               PROVE  /\ result'.succeeded + result'.failed = Cardinality(DOMAIN outcome')
                      /\ result'.success => DOMAIN outcome' \subseteq disk'
    BY <1>4 DEF Return
  <2>1. ChunksThat("pending") = {}
    BY <1>4, NothingPending DEF Return
  <2> DEFINE S == ChunksThat("succeeded")
             F == ChunksThat("failed")
  <2>2. DOMAIN outcome = S \cup F /\ S \cap F = {}
    BY <2>1 DEF ChunksThat, TypeOK
  <2>3. IsFiniteSet(S) /\ IsFiniteSet(F)
    BY FS_Subset DEF ChunksThat, TaskInv
  <2>4. successCount = Cardinality(S) /\ failureCount = Cardinality(F) /\ S \subseteq disk
    BY DEF CountersMatchOutcomes
  <2>5. /\ result'.success = (failureCount = 0)
        /\ result'.succeeded = successCount
        /\ result'.failed = failureCount
        /\ UNCHANGED << outcome, disk >>
    BY <1>4 DEF Return
  <2> HIDE DEF S, F
  <2>6. Cardinality(S \cup F) = Cardinality(S) + Cardinality(F)
    <3>1. Cardinality(S \cap F) = 0
      BY <2>2, FS_EmptySet
    <3>2. Cardinality(S) \in Nat /\ Cardinality(F) \in Nat
      BY <2>3, FS_CardinalityType
    <3>3. Cardinality(S \cup F) = Cardinality(S) + Cardinality(F) - Cardinality(S \cap F)
      BY <2>3, FS_Union
    <3>. QED
      BY <3>1, <3>2, <3>3
  <2>7. Cardinality(F) = 0 => F = {}
    BY <2>3, FS_EmptySet
  <2>. QED
    BY <2>2, <2>4, <2>5, <2>6, <2>7
<1>. QED
  BY <1>1, <1>2, <1>3, <1>4
  DEF Next, vars, schedVars, AddSourceToPool, CooldownPasses, Start, Cancel, Cleanup,
      Terminated, PhaseInv, WorkerStep, CheckCancel, PopTask, FindQueueEmpty, SelectSource,
      NoSourceAvailable, WakeUp, FetchChunk, WriteChunk, WriteFails, CountSuccess,
      CreditSource, BlameAndRetry, BlameAndGiveUp, RequeueRetry, TypeOK

-----------------------------------------------------------------------------
(* The theorems *)

LEMMA InitIInv == Init => IInv
<1> SUFFICES ASSUME Init PROVE IInv
  OBVIOUS
<1>1. TypeOK
  BY TypeInit
<1>2. PhaseInv
  BY DEF Init, PhaseInv
<1>3. TaskInv
  BY FS_EmptySet DEF Init, TaskInv, Holding
<1>4. EachChunkInOnePlace
  BY DEF Init, EachChunkInOnePlace, NothingLost, NothingTwice, NothingAgain, ChunksThat
<1>5. CountersMatchOutcomes
  <2>1. ChunksThat("succeeded") = {} /\ ChunksThat("failed") = {}
    BY DEF Init, ChunksThat
  <2>. QED
    BY <2>1, FS_EmptySet DEF Init, CountersMatchOutcomes
<1>6. QueueIsServed /\ VerdictIsComplete
  BY DEF Init, QueueIsServed, VerdictIsComplete
<1>. QED
  BY <1>1, <1>2, <1>3, <1>4, <1>5, <1>6 DEF IInv

LEMMA StepIInv == IInv /\ [Next]_vars => IInv'
<1> SUFFICES ASSUME IInv, [Next]_vars PROVE IInv'
  OBVIOUS
<1>1. TypeOK' /\ PhaseInv' /\ TaskInv'
  BY TypeStep, PhaseStep, TaskStep DEF IInv
<1>2. EachChunkInOnePlace' /\ CountersMatchOutcomes' /\ QueueIsServed'
  BY PlacesStep, CountersStep, ServedStep DEF IInv
<1>3. VerdictIsComplete'
  BY VerdictStep
<1>. QED
  BY <1>1, <1>2, <1>3 DEF IInv

\* The inductive invariant holds throughout every download.
THEOREM Invariance == Spec => []IInv
  BY InitIInv, StepIInv, PTL DEF Spec

\* Every variable keeps its type: in particular no task ever carries more than
\* max_retries retries (spawn_worker's test before a retry is pushed).
THEOREM TypeCorrect == Spec => []TypeOK
<1>1. IInv => TypeOK
  BY DEF IInv
<1>. QED
  BY <1>1, Invariance, PTL

\* However workers interleave, no chunk is lost, handed out twice at a time,
\* or handed out again after it was settled (the task's way through
\* chunk_queue and the hands of the workers in spawn_worker).
THEOREM Conservation == Spec => []EachChunkInOnePlace
<1>1. IInv => EachChunkInOnePlace
  BY DEF IInv
<1>. QED
  BY <1>1, Invariance, PTL

\* The counters of execute agree with the chunks they stand for, and a chunk
\* counted as a success has been written by write_at.
THEOREM CountersCorrect == Spec => []CountersMatchOutcomes
<1>1. IInv => CountersMatchOutcomes
  BY DEF IInv
<1>. QED
  BY <1>1, Invariance, PTL

\* No task waits in the queue after the last worker has gone.
THEOREM QueueServed == Spec => []QueueIsServed
<1>1. IInv => QueueIsServed
  BY DEF IInv
<1>. QED
  BY <1>1, Invariance, PTL

\* The result of an execute that was not cancelled accounts for every chunk,
\* and its success means that the whole file is on disk.
THEOREM VerdictCorrect == Spec => []VerdictIsComplete
<1>1. IInv => VerdictIsComplete
  BY DEF IInv
<1>. QED
  BY <1>1, Invariance, PTL


-----------------------------------------------------------------------------
(* execute implements Download *)

LEMMA RefineInit == Init => Promise!Init
  BY DEF Init, NoResult, Promise!Init, Promise!NoChunks, Promise!None

LEMMA RefineStep ==
    ASSUME IInv, [Next]_vars
    PROVE  [Promise!Next]_(Promise!vars)
<1> USE DEF IInv
<1>0. CASE UNCHANGED << outcome, cancelled, result >>
  BY <1>0 DEF Promise!vars
<1>n. result = NoResult
          => [given |-> result.given, success |-> result.success,
              succeeded |-> result.succeeded, failed |-> result.failed] = Promise!None
  BY DEF NoResult, Promise!None
<1>1. ASSUME NEW n \in Chunk, NEW crew \in (SUBSET Worker) \ {{}}, Start(n, crew)
      PROVE  Promise!Next
  <2>0. /\ result = NoResult /\ DOMAIN outcome = {}
        /\ outcome' = [c \in 1 .. n |-> "pending"]
        /\ UNCHANGED << cancelled, result >>
    BY <1>1 DEF Start, PhaseInv
  <2>1. Promise!Plan(n)
    BY <1>n, <2>0 DEF Promise!Plan
  <2>. QED
    BY <2>1 DEF Promise!Next, Chunk
<1>2. CASE Refuse
  <2>0. /\ result = NoResult /\ DOMAIN outcome = {}
        /\ result' = [NoResult EXCEPT !.given = TRUE]
        /\ UNCHANGED << outcome, cancelled >>
    BY <1>2 DEF Refuse, PhaseInv
  <2>a. result'.given = TRUE /\ result'.success = FALSE /\ result'.succeeded = 0 /\ result'.failed = 0
    BY <2>0 DEF NoResult
  <2>b. Promise!Error = [given |-> TRUE, success |-> FALSE, succeeded |-> 0, failed |-> 0]
    BY DEF Promise!Error
  <2>1. Promise!Refuse
    BY <1>n, <2>0, <2>a, <2>b DEF Promise!Refuse
  <2>. QED
    BY <2>1 DEF Promise!Next
<1>3. CASE Cancel
  <2>1. Promise!Stop
    BY <1>3 DEF Cancel, Promise!Stop
  <2>. QED
    BY <2>1 DEF Promise!Next
<1>4. CASE Return
  <2>1. result = NoResult /\ DOMAIN outcome # {}
    BY <1>4 DEF Return, PhaseInv
  <2>2. cancelled \/ ChunksThat("pending") = {}
    BY <1>4, NothingPending DEF Return, TypeOK
  <2>3. failureCount = 0 <=> ChunksThat("failed") = {}
    <3>1. IsFiniteSet(ChunksThat("failed"))
      BY FS_Subset DEF ChunksThat, TaskInv
    <3>. QED
      BY <3>1, FS_EmptySet DEF CountersMatchOutcomes
  <2>4. /\ Promise!ChunksThat("pending") = ChunksThat("pending")
        /\ Promise!ChunksThat("succeeded") = ChunksThat("succeeded")
        /\ Promise!ChunksThat("failed") = ChunksThat("failed")
    BY DEF ChunksThat, Promise!ChunksThat
  <2>c. /\ result'.given = TRUE
         /\ result'.success = (ChunksThat("failed") = {})
         /\ result'.succeeded = Cardinality(ChunksThat("succeeded"))
         /\ result'.failed = Cardinality(ChunksThat("failed"))
         /\ cancelled' = TRUE /\ outcome' = outcome
    BY <1>4, <2>3 DEF Return, CountersMatchOutcomes
  <2>d. [given |-> result'.given, success |-> result'.success,
          succeeded |-> result'.succeeded, failed |-> result'.failed]
            = [given |-> TRUE, success |-> ChunksThat("failed") = {},
               succeeded |-> Cardinality(ChunksThat("succeeded")),
               failed |-> Cardinality(ChunksThat("failed"))]
    BY <2>c
  <2>e. \A S : Promise!Cardinality(S) = Cardinality(S)
    BY Zenon DEF Cardinality, Promise!Cardinality
  <2>5. Promise!Deliver
    BY <2>e, <2>d, <1>n, <2>1, <2>2, <2>4, <2>c DEF Promise!Deliver
  <2>. QED
    BY <2>5 DEF Promise!Next
<1>5. ASSUME NEW w \in Worker, CountSuccess(w) \/ BlameAndGiveUp(w)
      PROVE  Promise!Next
  <2>1. PICK c : c = task[w].chunk
    OBVIOUS
  <2>2. w \in Holders(c) /\ c \in DOMAIN outcome
    BY <1>5, <2>1 DEF CountSuccess, BlameAndGiveUp, Holders, Holding, TaskInv
  <2>3. outcome[c] = "pending"
    BY <2>2 DEF EachChunkInOnePlace, NothingAgain, ChunksThat
  <2>4. result = NoResult
    BY <1>5 DEF PhaseInv, CountSuccess, BlameAndGiveUp, TypeOK
  <2>5. PICK o \in {"succeeded", "failed"} : Promise!Settle(c, o)
    BY <1>n, <1>5, <2>1, <2>3, <2>4 DEF CountSuccess, BlameAndGiveUp, Promise!Settle
  <2>. QED
    BY <2>2, <2>5 DEF Promise!Next
<1>. QED
  BY <1>0, <1>1, <1>2, <1>3, <1>4, <1>5
  DEF Next, vars, schedVars, AddSourceToPool, CooldownPasses, Cleanup, Terminated,
      WorkerStep, CheckCancel, PopTask, FindQueueEmpty, SelectSource,
      NoSourceAvailable, WakeUp, FetchChunk, WriteChunk, WriteFails,
      CreditSource, BlameAndRetry, RequeueRetry

\* Every behaviour of execute - workers, retries, cooldowns and cancellation
\* included - is one that Download allows.
THEOREM Implementation == Spec => ImplementsDownload
  BY RefineInit, RefineStep, Invariance, PTL DEF Spec, ImplementsDownload, Promise!Spec

-----------------------------------------------------------------------------
(* The health of the sources *)

\* What the pool keeps true of its entries: a source still under a cooldown
\* is not a usable one, and the map is finite.
PoolInv ==
    /\ IsFiniteSet(DOMAIN sources)
    /\ HealthFollowsFailures
    /\ \A s \in DOMAIN sources : sources[s].cooling => ~Usable(sources[s])

\* A rated source whose health is right for its failures, and whose cooldown
\* flag is right for its health.
Consistent(r) ==
    /\ r.health = "Dead" <=> r.failures >= DeadThreshold
    /\ r.health = "CoolingDown" <=> r.failures \in CooldownThreshold .. DeadThreshold - 1
    /\ r.health = "Healthy" <=> r.failures = 0
    /\ r.cooling => ~Usable(r)

\* PoolInv says this of each entry.
LEMMA PoolInvByEntry ==
    PoolInv <=> /\ IsFiniteSet(DOMAIN sources)
                /\ \A s \in DOMAIN sources : Consistent(sources[s])
BY DEF PoolInv, HealthFollowsFailures, Consistent

\* A failure makes a consistent entry of a consistent entry: one that only
\* becomes Degraded was usable before, hence under no cooldown.
LEMMA FailureKeepsConsistent ==
    ASSUME NEW r \in RatedSource, Consistent(r), NEW n \in 1 .. DeadThreshold,
           n < CooldownThreshold /\ n < DeadThreshold => Usable(r)
    PROVE  Consistent(AfterFailure(r, n))
<1> USE ThresholdsAssumption
<1>0. r = [health |-> r.health, failures |-> r.failures, cooling |-> r.cooling]
  BY DEF RatedSource
<1> DEFINE a == AfterFailure(r, n)
<1>1. CASE n >= DeadThreshold
  <2>1. a = [r EXCEPT !.failures = n, !.health = "Dead"]
    BY <1>1 DEF AfterFailure
  <2> HIDE DEF a
  <2>2. a = [health |-> "Dead", failures |-> n, cooling |-> r.cooling]
    BY ONLY <1>0, <2>1, Zenon
  <2>3. Consistent(a)
    BY <1>1, <2>2 DEF Consistent, Usable
  <2>. QED
    BY <2>3 DEF a
<1>2. CASE n < DeadThreshold /\ n >= CooldownThreshold
  <2>1. a = [r EXCEPT !.failures = n, !.health = "CoolingDown", !.cooling = TRUE]
    BY <1>2 DEF AfterFailure
  <2> HIDE DEF a
  <2>2. a = [health |-> "CoolingDown", failures |-> n, cooling |-> TRUE]
    BY ONLY <1>0, <2>1, Zenon
  <2>3. Consistent(a)
    BY <1>2, <2>2 DEF Consistent, Usable
  <2>. QED
    BY <2>3 DEF a
<1>3. CASE n < CooldownThreshold /\ n < DeadThreshold
  <2>1. a = [r EXCEPT !.failures = n, !.health = "Degraded"]
    BY <1>3 DEF AfterFailure
  <2> HIDE DEF a
  <2>2. a = [health |-> "Degraded", failures |-> n, cooling |-> r.cooling]
    BY ONLY <1>0, <2>1, Zenon
  <2>3. ~r.cooling
    BY <1>3 DEF Consistent
  <2>4. Consistent(a)
    BY <1>3, <2>2, <2>3 DEF Consistent, Usable
  <2>. QED
    BY <2>4 DEF a
<1>. QED
  BY <1>1, <1>2, <1>3

\* record_success, record_failure and the rest keep the pool consistent.
LEMMA PoolOperationsConsistent ==
    ASSUME PoolTypeOK, PoolInv, NEW s,
           \/ s \in Source /\ AddSource(s)
           \/ RecordSuccess(s)
           \/ RecordFailure(s)
           \/ CooldownExpires(s)
           \/ CleanupDead
    PROVE  PoolInv'
<1> USE ThresholdsAssumption
<1>1. \A t \in DOMAIN sources : Consistent(sources[t]) /\ sources[t] \in RatedSource
  BY PoolInvByEntry DEF PoolTypeOK
<1>2. IsFiniteSet(DOMAIN sources)
  BY PoolInvByEntry
<1>3. Consistent(Fresh)
  BY DEF Consistent, Fresh, Usable
<1>4. SUFFICES IsFiniteSet(DOMAIN sources') /\ \A t \in DOMAIN sources' : Consistent(sources'[t])
  BY DEF PoolInv, HealthFollowsFailures, Consistent
<1>5. CASE s \in Source /\ AddSource(s)
  <2>1. IsFiniteSet(DOMAIN sources \cup {s})
    BY <1>2, FS_AddElement
  <2>. QED
    BY <1>1, <1>3, <1>5, <2>1 DEF AddSource
<1>6. CASE RecordSuccess(s)
  BY <1>1, <1>2, <1>3, <1>6 DEF RecordSuccess, Present
<1>7. CASE RecordFailure(s)
  <2>1. CASE Present(s)
    <3> DEFINE r == sources[s]
               n == Increment(r.failures)
    <3>1. r \in RatedSource /\ Consistent(r)
      BY <1>1, <2>1 DEF Present
    <3>2. n \in 1 .. DeadThreshold
      BY <3>1 DEF Increment, RatedSource
    <3>3. n < CooldownThreshold /\ n < DeadThreshold => Usable(r)
      BY <3>1 DEF Increment, RatedSource, SourceHealth, Consistent, Usable
    <3>4. Consistent(AfterFailure(r, n))
      BY <3>1, <3>2, <3>3, FailureKeepsConsistent
    <3>. QED
      BY <1>1, <1>2, <1>7, <2>1, <3>4 DEF RecordFailure, Present
  <2>2. CASE ~Present(s)
    BY <1>1, <1>2, <1>7, <2>2 DEF RecordFailure
  <2>. QED
    BY <2>1, <2>2
<1>8. CASE CooldownExpires(s)
  <2>1. Consistent([sources[s] EXCEPT !.cooling = FALSE])
    BY <1>1, <1>8 DEF CooldownExpires, Present, Consistent, Usable, RatedSource
  <2>. QED
    BY <1>1, <1>2, <1>8, <2>1 DEF CooldownExpires, Present
<1>9. CASE CleanupDead
  <2>1. IsFiniteSet({t \in DOMAIN sources : sources[t].health # "Dead"})
    BY <1>2, FS_Subset
  <2>. QED
    BY <1>1, <1>9, <2>1 DEF CleanupDead
<1>. QED
  BY <1>5, <1>6, <1>7, <1>8, <1>9

LEMMA PoolInvStep ==
    ASSUME PoolTypeOK, PoolInv, [Next]_vars
    PROVE  PoolInv'
<1>1. CASE UNCHANGED sources
  BY <1>1 DEF PoolInv, HealthFollowsFailures
<1>2. CASE \E s \in Source : AddSource(s)
  BY <1>2, PoolOperationsConsistent
<1>3. CASE \E s : RecordSuccess(s) \/ RecordFailure(s) \/ CooldownExpires(s) \/ CleanupDead
  BY <1>3, PoolOperationsConsistent
<1>. QED
  BY <1>1, <1>2, <1>3
  DEF Next, vars, AddSourceToPool, CooldownPasses, Start, Refuse, Cancel, Return, Cleanup,
      Terminated, WorkerStep, CheckCancel, PopTask, FindQueueEmpty, SelectSource,
      NoSourceAvailable, WakeUp, FetchChunk, WriteChunk, WriteFails, CountSuccess,
      CreditSource, BlameAndRetry, BlameAndGiveUp, RequeueRetry

LEMMA PoolInvariance == Spec => []PoolInv
<1>1. Init => PoolInv
  BY FS_EmptySet DEF Init, PoolInv, HealthFollowsFailures
<1>2. IInv /\ PoolInv /\ [Next]_vars => PoolInv'
  BY PoolInvStep DEF IInv, TypeOK
<1>. QED
  BY <1>1, <1>2, Invariance, PTL DEF Spec

\* Whatever order the reports of several downloads arrive in, a source's health is a
\* function of how often it has failed in a row (record_success, record_failure).
THEOREM HealthFollows == Spec => []HealthFollowsFailures
<1>1. PoolInv => HealthFollowsFailures
  BY DEF PoolInv
<1>. QED
  BY <1>1, PoolInvariance, PTL

\* When needs_more_sources says the pool is well stocked, best_source has
\* min_sources sources to choose from: no usable one is still under a cooldown.
THEOREM StockIsSelectable == Spec => []EnoughSelectable
<1>1. ASSUME PoolInv PROVE EnoughSelectable
  <2> DEFINE U == {s \in DOMAIN sources : Usable(sources[s])}
  <2>1. U = Selectable
    BY <1>1 DEF PoolInv, Selectable
  <2>2. Cardinality(U) \in Nat
    <3>1. IsFiniteSet(U)
      BY <1>1, FS_Subset DEF PoolInv
    <3>. QED
      BY <3>1, FS_CardinalityType
  <2>3. NeedsMoreSources <=> Cardinality(U) < MinSources
    BY DEF NeedsMoreSources
  <2> HIDE DEF U
  <2>. QED
    BY <2>1, <2>2, <2>3, ThresholdsAssumption DEF EnoughSelectable
<1>. QED
  BY <1>1, PoolInvariance, PTL

-----------------------------------------------------------------------------
(* What a step may never do *)

\* A failure leaves a source out of the selection unless it was in it.
LEMMA FailureReadmitsNone ==
    ASSUME NEW r \in RatedSource, Consistent(r), NEW a, a = AfterFailure(r, Increment(r.failures)),
           Usable(a), ~a.cooling
    PROVE  Usable(r) /\ ~r.cooling
<1> DEFINE n == Increment(r.failures)
<1> USE ThresholdsAssumption
<1>0. /\ n \in 1 .. DeadThreshold /\ (n = r.failures + 1 \/ n = DeadThreshold) /\ r.failures \in Nat
      /\ r = [health |-> r.health, failures |-> r.failures, cooling |-> r.cooling]
  BY DEF Increment, RatedSource
<1> HIDE DEF n
<1>1. n < DeadThreshold /\ n < CooldownThreshold
  <2>1. CASE n >= DeadThreshold
    <3>1. a = [r EXCEPT !.failures = n, !.health = "Dead"]
      BY <2>1 DEF AfterFailure, n
    <3>2. a = [health |-> "Dead", failures |-> n, cooling |-> r.cooling]
      BY ONLY <1>0, <3>1, Zenon
    <3>. QED
      BY <3>2 DEF Usable
  <2>2. CASE n < DeadThreshold /\ n >= CooldownThreshold
    <3>1. a = [r EXCEPT !.failures = n, !.health = "CoolingDown", !.cooling = TRUE]
      BY <2>2 DEF AfterFailure, n
    <3>2. a = [health |-> "CoolingDown", failures |-> n, cooling |-> TRUE]
      BY ONLY <1>0, <3>1, Zenon
    <3>. QED
      BY <3>2 DEF Usable
  <2>. QED
    BY <1>0, <2>1, <2>2
<1>2. a = [r EXCEPT !.failures = n, !.health = "Degraded"]
  BY <1>0, <1>1 DEF AfterFailure, n
<1>3. a = [health |-> "Degraded", failures |-> n, cooling |-> r.cooling]
  BY ONLY <1>0, <1>2, Zenon
<1>4. Usable(r)
  BY <1>0, <1>1 DEF Consistent, Usable, RatedSource, SourceHealth
<1>. QED
  BY <1>3, <1>4

\* No operation of the pool readmits a source by adding to its failures.
LEMMA PoolReadmits ==
    ASSUME PoolTypeOK, PoolInv, NEW s,
           \/ s \in Source /\ AddSource(s)
           \/ RecordSuccess(s)
           \/ RecordFailure(s)
           \/ CooldownExpires(s)
           \/ CleanupDead,
           NEW t \in DOMAIN sources, t \in Selectable', t \notin Selectable
    PROVE  sources'[t].failures \in {0, sources[t].failures}
<1>0. /\ sources[t] \in RatedSource /\ Consistent(sources[t])
      /\ t \in DOMAIN sources' /\ Usable(sources'[t]) /\ ~sources'[t].cooling
      /\ ~(Usable(sources[t]) /\ ~sources[t].cooling)
  BY PoolInvByEntry DEF PoolTypeOK, Selectable
<1>1. sources'[t] # sources[t]
  BY <1>0
<1>2. CASE AddSource(s) \/ RecordSuccess(s)
  BY <1>1, <1>2 DEF AddSource, RecordSuccess, Present, Fresh
<1>3. CASE RecordFailure(s)
  <2>1. sources'[t] = AfterFailure(sources[t], Increment(sources[t].failures))
    BY <1>1, <1>3 DEF RecordFailure, Present
  <2>. QED
    BY <1>0, <2>1, FailureReadmitsNone
<1>4. CASE CooldownExpires(s)
  <2>1. sources'[t] = [sources[t] EXCEPT !.cooling = FALSE]
    BY <1>1, <1>4 DEF CooldownExpires, Present
  <2>. QED
    BY <1>0, <2>1 DEF RatedSource
<1>5. CASE CleanupDead
  BY <1>0, <1>1, <1>5 DEF CleanupDead
<1>. QED
  BY <1>2, <1>3, <1>4, <1>5

\* Whatever order the reports of several downloads arrive in, and whatever the
\* cooldown has come to, a failure never brings back a source that best_source
\* withholds (source_pool.rs, record_failure).
THEOREM FailuresReadmitNone == Spec => NoFailureReadmits
<1> DEFINE Clean == \A s \in DOMAIN sources :
                      s \in Selectable' /\ s \notin Selectable
                          => sources'[s].failures \in {0, sources[s].failures}
<1>1. IInv /\ PoolInv /\ [Next]_vars => [Clean]_vars
  <2> SUFFICES ASSUME IInv, PoolInv, Next PROVE Clean
    OBVIOUS
  <2>0. PoolTypeOK
    BY DEF IInv, TypeOK
  <2>1. CASE UNCHANGED sources
    BY <2>1 DEF Selectable
  <2>2. CASE \E s \in Source : AddSource(s)
    BY <2>0, <2>2, PoolReadmits
  <2>3. CASE \E s : RecordSuccess(s) \/ RecordFailure(s) \/ CooldownExpires(s) \/ CleanupDead
    BY <2>0, <2>3, PoolReadmits
  <2>. QED
    BY <2>1, <2>2, <2>3
    DEF Next, vars, AddSourceToPool, CooldownPasses, Start, Refuse, Cancel, Return, Cleanup,
        Terminated, WorkerStep, CheckCancel, PopTask, FindQueueEmpty, SelectSource,
        NoSourceAvailable, WakeUp, FetchChunk, WriteChunk, WriteFails, CountSuccess,
        CreditSource, BlameAndRetry, BlameAndGiveUp, RequeueRetry
<1>. QED
  BY <1>1, Invariance, PoolInvariance, PTL DEF Spec, NoFailureReadmits

\* As no chunk has two tasks, there is one number of retries to speak of.
LEMMA OneRetries ==
    ASSUME EachChunkInOnePlace, NEW c \in DOMAIN outcome
    PROVE  \A m, n \in RetriesOf(c) : m = n
BY DEF EachChunkInOnePlace, NothingTwice, RetriesOf

\* The retries of a chunk after a step come from those before it.
Follows(c) == \A after \in RetriesOf(c)' : \E before \in RetriesOf(c) : after \in {before, before + 1}

\* A step that leaves the queue alone gives a worker no task, and counts none of
\* its retries.
LEMMA HandsFollow ==
    ASSUME queue' = queue,
           \A w \in Worker : pc'[w] \in Holding => pc[w] \in Holding /\ task'[w] = task[w],
           NEW c
    PROVE  Follows(c)
<1>1. Queued(c)' = Queued(c) /\ Holders(c)' \subseteq Holders(c)
  BY DEF Queued, Holders
<1>2. \A w \in Holders(c)' : task'[w] = task[w]
  BY DEF Holders
<1>. QED
  BY <1>1, <1>2 DEF Follows, RetriesOf

\* A pop hands over what the queue says of the chunk.
LEMMA PopFollows ==
    ASSUME TypeOK, NEW w \in Worker, PopTask(w), NEW c
    PROVE  Follows(c)
<1>0. /\ queue \in Seq(Task) /\ queue # << >> /\ queue' = SubSeq(queue, 1, Len(queue) - 1)
      /\ pc' = [pc EXCEPT ![w] = "select"] /\ task' = [task EXCEPT ![w] = queue[Len(queue)]]
      /\ pc \in [Worker -> Location] /\ task \in [Worker -> Task \cup {NoTask}]
  BY DEF PopTask, TypeOK, Goto
<1>1. /\ Len(queue) \in Nat \ {0} /\ Len(queue') = Len(queue) - 1
      /\ \A i \in 1 .. Len(queue') : queue'[i] = queue[i]
  BY <1>0, PopFacts
<1>2. ASSUME NEW i \in Queued(c)' PROVE i \in Queued(c) /\ queue'[i].retries = queue[i].retries
  BY <1>1 DEF Queued
<1>3. ASSUME NEW v \in Holders(c)'
      PROVE  \/ v \in Holders(c) /\ task'[v].retries = task[v].retries
             \/ Len(queue) \in Queued(c) /\ task'[v].retries = queue[Len(queue)].retries
  <2>1. CASE v = w
    BY <1>0, <1>1, <2>1 DEF Holders, Queued
  <2>2. CASE v # w
    BY <1>0, <2>2 DEF Holders
  <2>. QED
    BY <2>1, <2>2
<1>. QED
  BY <1>2, <1>3 DEF Follows, RetriesOf

\* A push puts back as many retries as the worker's task has, or one more.
LEMMA PushFollows ==
    ASSUME TypeOK, NEW w \in Worker, NEW t \in Task,
           pc[w] \in Holding, pc'[w] \notin Holding, t.chunk = task[w].chunk,
           t.retries \in {task[w].retries, task[w].retries + 1},
           queue' = Append(queue, t),
           \A v \in Worker \ {w} : pc'[v] = pc[v] /\ task'[v] = task[v],
           NEW c
    PROVE  Follows(c)
<1>1. /\ Len(queue) \in Nat /\ Len(queue') = Len(queue) + 1
      /\ \A i \in 1 .. Len(queue) : queue'[i] = queue[i]
      /\ queue'[Len(queue) + 1] = t
  BY PushFacts DEF TypeOK
<1>2. ASSUME NEW i \in Queued(c)'
      PROVE  \/ i \in Queued(c) /\ queue'[i].retries = queue[i].retries
             \/ w \in Holders(c) /\ queue'[i].retries \in {task[w].retries, task[w].retries + 1}
  <2>1. i \in 1 .. Len(queue) \/ i = Len(queue) + 1
    BY <1>1 DEF Queued
  <2>. QED
    BY <1>1, <2>1 DEF Queued, Holders
<1>3. ASSUME NEW v \in Holders(c)' PROVE v \in Holders(c) /\ task'[v].retries = task[v].retries
  BY DEF Holders
<1>. QED
  BY <1>2, <1>3 DEF Follows, RetriesOf

LEMMA RetriesFollow ==
    ASSUME IInv, Next, NEW c \in DOMAIN outcome
    PROVE  Follows(c)
<1>0. TypeOK /\ PhaseInv /\ TaskInv
  BY DEF IInv
<1>1. ASSUME NEW n \in Chunk, NEW crew \in SUBSET Worker, Start(n, crew) PROVE FALSE
  BY <1>0, <1>1 DEF Start, PhaseInv
<1>2. CASE UNCHANGED << queue, pc, task >>
  BY <1>2, HandsFollow
<1>3. ASSUME NEW w \in Worker, WorkerStep(w) PROVE Follows(c)
  <2>0. pc \in [Worker -> Location] /\ task \in [Worker -> Task \cup {NoTask}]
    BY <1>0 DEF TypeOK
  <2>1. CASE CheckCancel(w) \/ FindQueueEmpty(w) \/ WakeUp(w) \/ CreditSource(w) \/ BlameAndGiveUp(w)
    BY <2>0, <2>1, HandsFollow
    DEF CheckCancel, FindQueueEmpty, WakeUp, CreditSource, BlameAndGiveUp, Goto, DropTask, Holding
  <2>2. CASE PopTask(w)
    BY <1>0, <2>2, PopFollows
  <2>3. CASE (\E s \in Source : SelectSource(w, s)) \/ FetchChunk(w) \/ WriteChunk(w)
             \/ WriteFails(w) \/ BlameAndRetry(w) \/ CountSuccess(w)
    BY <2>0, <2>3, HandsFollow
    DEF SelectSource, FetchChunk, WriteChunk, WriteFails, BlameAndRetry, CountSuccess, Goto, Holding
  <2>4. CASE NoSourceAvailable(w)
    <3>1. task[w] \in Task
      BY <1>0, <2>4 DEF NoSourceAvailable, TaskInv, Holding
    <3>. QED
      BY <1>0, <2>0, <2>4, <3>1, PushFollows DEF NoSourceAvailable, Push, DropTask, Goto, Holding
  <2>5. CASE RequeueRetry(w)
    <3>1. task[w] \in Task /\ task[w].retries < MaxRetries
      BY <1>0, <2>5 DEF RequeueRetry, TaskInv, Holding
    <3>2. [task[w] EXCEPT !.retries = @ + 1] \in Task
      BY <3>1, SchedulerAssumption DEF Task
    <3>3. /\ [task[w] EXCEPT !.retries = @ + 1].chunk = task[w].chunk
          /\ [task[w] EXCEPT !.retries = @ + 1].retries = task[w].retries + 1
      BY <3>1 DEF Task
    <3>. QED
      BY <1>0, <2>0, <2>5, <3>2, <3>3, PushFollows DEF RequeueRetry, Push, DropTask, Goto, Holding
  <2>. QED
    BY <1>3, <2>1, <2>2, <2>3, <2>4, <2>5 DEF WorkerStep
<1>. QED
  BY <1>1, <1>2, <1>3
  DEF Next, AddSourceToPool, CooldownPasses, Refuse, Cancel, Return, Cleanup, Terminated, vars, schedVars

\* On its way through the queue and the hands of workers a chunk keeps the retries
\* spent on it, in particular when it is put back for want of a source
\* (chunk_scheduler.rs, spawn_worker).
THEOREM RetriesKept == Spec => RetriesNeverForgotten
<1> DEFINE Kept == \A c \in DOMAIN outcome :
                     \A before \in RetriesOf(c), after \in RetriesOf(c)' : after \in {before, before + 1}
<1>1. IInv /\ [Next]_vars => [Kept]_vars
  <2> SUFFICES ASSUME IInv, Next, NEW c \in DOMAIN outcome,
                      NEW before \in RetriesOf(c), NEW after \in RetriesOf(c)'
               PROVE  after \in {before, before + 1}
    OBVIOUS
  <2>1. PICK m \in RetriesOf(c) : after \in {m, m + 1}
    BY RetriesFollow DEF Follows
  <2>. QED
    BY <2>1, OneRetries DEF IInv
<1>. QED
  BY <1>1, Invariance, PTL DEF Spec, RetriesNeverForgotten

=============================================================================
