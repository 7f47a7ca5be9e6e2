---------------------------- MODULE ChunkTransfer ----------------------------
(***************************************************************************)
(* The bytes of a download: execute's plan, the fetchers that stream the   *)
(* body of a chunk into a worker's buffer piece by piece, and the writer   *)
(* that puts the buffer at the chunk's offset.                             *)
(*                                                                         *)
(* Byte p of the source is the number p, so a file is right where it holds *)
(* its own position. Stale is whatever the preallocated file held before.  *)
(* All replicas agree on the bytes they have; they may differ in length.   *)
(* Which source a worker is given, and how often a source is blamed, is    *)
(* ChunkScheduler's business: here any source may be given.                *)
(*                                                                         *)
(* The kinds of fetcher:                                                   *)
(*   "range"    HttpRangeFetcher: asks for the range, keeps all that comes *)
(*   "stream"   HttpStreamFetcher: whole body, drops the first offset bytes*)
(*   "ftp"      FtpFetcher: as "stream", with reads bounded by what is left*)
(*   "file"     LocalFileFetcher: seeks, bounded reads                     *)
(*   "ssh"      SftpFetcher: dd skip/count, bounded reads                  *)
(*   "torrent"  TorrentPieceFetcher: drops the pieces before, then reads   *)
(*              one piece whatever length was asked for                    *)
(***************************************************************************)
EXTENDS ChunkPlan, Sequences

CONSTANTS Sources, Workers,
          Replicas,    \* possible lengths of the sources' files: a set of functions
          Mebi,        \* bytes of the model that stand for a mebibyte
          MaxRetries,  \* config.max_retries
          MaxFaults,   \* bound: fetches and writes that fail in a behaviour
          Stale, Idle

ASSUME TransferAssumption ==
    /\ Mebi \in Nat \ {0}
    /\ MaxRetries \in Nat
    /\ MaxFaults \in Nat
    /\ Replicas \subseteq [Sources -> Nat \ {0}]
    /\ Stale \notin Nat

VARIABLES kind,     \* the fetcher create_fetcher made for each source
          replica,  \* the length of each source's file
          plan,     \* the file size and tasks execute decided on
          queue,    \* tasks waiting
          retries,  \* how often each task has been retried
          fetch,    \* each worker's fetch_chunk call
          file,     \* the file on disk
          done,     \* tasks counted in success_chunks
          failed,   \* tasks counted in failed_chunks
          faults    \* fetches and writes that failed so far

vars == <<kind, replica, plan, queue, retries, fetch, file, done, failed, faults>>

Kinds == {"range", "stream", "ftp", "file", "ssh", "torrent"}
Piece == 4 * Mebi  \* piece_size: total_pieces stays 0, so always the default
InitialChunk == 4 * Mebi

(***************************************************************************)
(* Probing.                                                                *)
(***************************************************************************)
SupportsRange(k) == k # "stream"

RangeOf(k) ==
    CASE k = "range"   -> [lo |-> Mebi, hi |-> 16 * Mebi]
      [] k = "file"    -> [lo |-> Mebi, hi |-> 64 * Mebi]
      [] k = "torrent" -> [lo |-> Piece, hi |-> Piece]
      [] OTHER         -> NoRange

\* The range merged from the sources that answered: that of the first to ask
\* for one, in the arbitrary order of the pool's map.
MergedRanges(ok) ==
    LET asked == {RangeOf(kind[s]) : s \in ok} \ {NoRange}
    IN  IF asked = {} THEN {NoRange} ELSE asked

\* The largest size a probe reported is that of the file.
LargestSizes(ok) == {replica[s] : s \in {s \in ok : \A o \in ok: replica[o] =< replica[s]}}

PlanFrom(ok, size, range) ==
    LET ranged == \E s \in ok: SupportsRange(kind[s])
    IN  [size |-> size, probed |-> ok,
         tasks |-> Tasks(size, ranged, ChunkSize(range, InitialChunk))]

Init ==
    /\ kind \in [Sources -> Kinds]
    /\ replica \in Replicas
    /\ \E ok \in (SUBSET Sources) \ {{}}: \E size \in LargestSizes(ok), range \in MergedRanges(ok):
          plan = PlanFrom(ok, size, range)
    /\ queue = plan.tasks
    /\ retries = [t \in plan.tasks |-> 0]
    /\ fetch = [w \in Workers |-> Idle]
    /\ file = [p \in 0 .. plan.size - 1 |-> Stale]
    /\ done = {}
    /\ failed = {}
    /\ faults = 0

(***************************************************************************)
(* The body a fetcher reads from, as the bytes still to come.              *)
(***************************************************************************)
Bytes(from, to) == [i \in 1 .. to - from |-> from + i - 1]

\* A range request, like dd with a count, ends where the file does.
Upto(n, s) == IF n < replica[s] THEN n ELSE replica[s]

\* The source answers the request: not a range past its end (416), nor an
\* offset inside a piece.
Answers(s, task) ==
    CASE kind[s] = "range"   -> task.offset < replica[s]
      [] kind[s] = "torrent" -> task.offset % Piece = 0
      [] OTHER               -> TRUE

Opened(s, task) ==
    LET k == kind[s]
        seeks == k \in {"range", "file", "ssh"}
        body == CASE k \in {"range", "ssh"} -> Bytes(task.offset, Upto(task.offset + task.length, s))
                  [] k = "file" -> Bytes(task.offset, replica[s])
                  [] OTHER -> Bytes(0, replica[s])
    IN  [task |-> task, kind |-> k, body |-> body, buffer |-> <<>>,
         skip |-> IF seeks THEN 0 ELSE task.offset,
         want |-> IF k = "torrent" THEN Piece ELSE task.length]

\* A task, whose retries are counted apart, and a call of fetch_chunk for it.
Task == [id : Nat, offset : Nat, length : Nat]

FetchRecord == [task : Task, kind : Kinds, body : Seq(Nat), buffer : Seq(Nat),
                skip : Nat, want : Nat]

ASSUME IdleAssumption == Idle \notin FetchRecord

Fetching(w) == fetch[w] # Idle
Take(w, f) == fetch' = [fetch EXCEPT ![w] = f]

\* worker: pop a task and call fetch_chunk of the source it is given.
StartFetch(w, t, s) ==
    /\ ~ Fetching(w)
    /\ t \in queue
    /\ Answers(s, t)
    /\ queue' = queue \ {t}
    /\ Take(w, Opened(s, t))
    /\ UNCHANGED <<kind, replica, plan, retries, file, done, failed, faults>>

(***************************************************************************)
(* A task whose fetch or write failed: requeued while it has retries left. *)
(***************************************************************************)
RetryOrGiveUp(t) ==
    IF retries[t] < MaxRetries
    THEN /\ queue' = queue \cup {t}
         /\ retries' = [retries EXCEPT ![t] = @ + 1]
         /\ UNCHANGED failed
    ELSE /\ failed' = failed \cup {t}
         /\ queue' = queue \ {t}
         /\ UNCHANGED retries

\* The source refuses the request: the error comes back at once.
Refused(w, t, s) ==
    /\ ~ Fetching(w)
    /\ t \in queue
    /\ ~ Answers(s, t)
    /\ RetryOrGiveUp(t)
    /\ UNCHANGED <<kind, replica, plan, fetch, file, done, faults>>

(***************************************************************************)
(* The reading loops. A piece is any non-empty prefix of the rest of the   *)
(* body.                                                                   *)
(***************************************************************************)
Satisfied(f) == f.skip = 0 /\ f.want = 0

\* A read took n bytes off the body: the first ones are dropped, those after
\* them kept in the buffer.
Read(f, n, dropped, kept, want) ==
    [task |-> f.task, kind |-> f.kind, want |-> want,
     body |-> SubSeq(f.body, n + 1, Len(f.body)),
     skip |-> f.skip - dropped,
     buffer |-> f.buffer \o SubSeq(f.body, dropped + 1, dropped + kept)]

\* fetch_range: every piece is appended; the length is not looked at.
ReceiveRange(w, n) ==
    LET f == fetch[w]
    IN  /\ f.kind = "range"
        /\ Take(w, Read(f, n, 0, n, f.want))
        /\ UNCHANGED <<kind, replica, plan, queue, retries, file, done, failed, faults>>

\* Mutant: of a piece that crosses the offset the first bytes are kept.
ReceiveStreamUncut(w, n) ==
    LET f == fetch[w]
        dropped == IF n =< f.skip THEN n ELSE 0
        kept == IF n - dropped < f.want THEN n - dropped ELSE f.want
    IN  /\ f.kind = "stream"
        /\ ~ Satisfied(f)
        /\ Take(w, [Read(f, n, dropped, kept, f.want - kept) EXCEPT
                       !.skip = IF n =< f.skip THEN @ ELSE 0])
        /\ UNCHANGED <<kind, replica, plan, queue, retries, file, done, failed, faults>>

\* stream_download: a piece may lie before the offset, across it, or after it;
\* what lies past the length is dropped.
ReceiveStream(w, n) ==
    LET f == fetch[w]
        dropped == IF n =< f.skip THEN n ELSE f.skip
        kept == IF n - dropped < f.want THEN n - dropped ELSE f.want
    IN  /\ f.kind = "stream"
        /\ ~ Satisfied(f)
        /\ Take(w, Read(f, n, dropped, kept, f.want - kept))
        /\ UNCHANGED <<kind, replica, plan, queue, retries, file, done, failed, faults>>

\* The read loops of the other fetchers: a read is never larger than what is
\* left to skip or, after that, to download.
ReceiveBounded(w, n) ==
    LET f == fetch[w]
    IN  /\ f.kind \in {"ftp", "file", "ssh", "torrent"}
        /\ IF f.skip > 0
           THEN n =< f.skip /\ Take(w, Read(f, n, n, 0, f.want))
           ELSE n =< f.want /\ Take(w, Read(f, n, 0, n, f.want - n))
        /\ UNCHANGED <<kind, replica, plan, queue, retries, file, done, failed, faults>>

Receive(w) ==
    /\ Fetching(w)
    /\ \E n \in 1 .. Len(fetch[w].body):
          ReceiveRange(w, n) \/ ReceiveStream(w, n) \/ ReceiveBounded(w, n)

(***************************************************************************)
(* The fetch returns Ok when the body has ended, however much came, and    *)
(* for all but HttpRangeFetcher as soon as it has what it wanted.          *)
(***************************************************************************)
Returned(f) == f.body = <<>> \/ (f.kind # "range" /\ Satisfied(f))

Written(offset, buffer) ==
    [p \in DOMAIN file |->
        IF p \in offset .. offset + Len(buffer) - 1 THEN buffer[p - offset + 1] ELSE file[p]]

\* The worker writes the buffer with write_at and counts the chunk.
Store(w) ==
    LET f == fetch[w]
    IN  /\ Fetching(w)
        /\ Returned(f)
        /\ file' = Written(f.task.offset, f.buffer)
        /\ done' = done \cup {f.task}
        /\ Take(w, Idle)
        /\ UNCHANGED <<kind, replica, plan, queue, retries, failed, faults>>

\* Mutant: the error of a write is not looked at.
StoreFailureIgnored(w) ==
    LET f == fetch[w]
    IN  /\ Fetching(w)
        /\ Returned(f)
        /\ \E n \in 0 .. Len(f.buffer): file' = Written(f.task.offset, SubSeq(f.buffer, 1, n))
        /\ done' = done \cup {f.task}
        /\ Take(w, Idle)
        /\ UNCHANGED <<kind, replica, plan, queue, retries, failed, faults>>

Fault ==
    /\ faults < MaxFaults
    /\ faults' = faults + 1

\* write_at fails having written a prefix of the buffer.
StoreFails(w) ==
    LET f == fetch[w]
    IN  /\ Fetching(w)
        /\ Returned(f)
        /\ \E n \in 0 .. Len(f.buffer): file' = Written(f.task.offset, SubSeq(f.buffer, 1, n))
        /\ RetryOrGiveUp(f.task)
        /\ Fault
        /\ Take(w, Idle)
        /\ UNCHANGED <<kind, replica, plan, done>>

\* An error of the connection, or a read timeout: the buffer is dropped.
FetchFails(w) ==
    /\ Fetching(w)
    /\ RetryOrGiveUp(fetch[w].task)
    /\ Fault
    /\ Take(w, Idle)
    /\ UNCHANGED <<kind, replica, plan, file, done>>

\* execute has returned.
Finished ==
    /\ queue = {}
    /\ \A w \in Workers: ~ Fetching(w)
    /\ UNCHANGED vars

WorkerStep(w) ==
    \/ \E t \in queue, s \in Sources: StartFetch(w, t, s) \/ Refused(w, t, s)
    \/ Receive(w)
    \/ Store(w)
    \/ StoreFails(w)
    \/ FetchFails(w)

Next == (\E w \in Workers: WorkerStep(w)) \/ Finished

Spec == Init /\ [][Next]_vars

(***************************************************************************)
(* Properties.                                                             *)
(***************************************************************************)

\* create_chunk_tasks cuts the file so that every byte belongs to exactly one
\* chunk and none lies past the end, whatever sizes the sources ask for.
PlanTilesFile == Tiles(plan.tasks, plan.size)

\* However the body is cut into pieces, whichever source it comes from and
\* however often a chunk is written again, a byte is only ever written where
\* it belongs.
BytesInPlace == \A p \in DOMAIN file: file[p] \in {p, Stale}

\* A torrent fetcher returns one piece, so it serves a pool only if the plan
\* was made with its piece size: if its probe had answered.
PiecesPlanned == \A s \in Sources: kind[s] = "torrent" => s \in plan.probed

\* When execute reports no failed chunk, with replicas of one length, the file
\* is the source's: nothing is left of what the preallocated file held.
SuccessIsTheSource ==
    PiecesPlanned /\ queue = {} /\ failed = {} /\ (\A w \in Workers: ~ Fetching(w)) =>
        \A p \in 0 .. plan.size - 1: file[p] = p

\* A chunk counted as downloaded has all its bytes in the file: fetch_chunk is
\* to obtain a block "of the given offset and length".
CountedChunkIsStored ==
    \A t \in done: \A p \in 0 .. plan.size - 1: Covers(t, p) => file[p] = p
=============================================================================
