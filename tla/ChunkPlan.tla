------------------------------ MODULE ChunkPlan ------------------------------
(***************************************************************************)
(* How ChunkScheduler::execute cuts a file into tasks: the merged answers  *)
(* of the probes (probe_all_sources) give the size of the file, the chunk  *)
(* size follows from the first range a source asks for or else from the    *)
(* adaptive controller, and create_chunk_tasks lays the chunks end to end. *)
(*                                                                         *)
(* Sizes are unbounded naturals: the u64 sum file_size + chunk_size - 1    *)
(* and the u32 chunk_id wrap only for files beyond 2^63 bytes or 2^32      *)
(* chunks of at least a mebibyte.                                          *)
(***************************************************************************)
EXTENDS Integers

CONSTANTS MinChunk,  \* config.min_chunk_size
          MaxChunk   \* config.max_chunk_size

ASSUME PlanAssumption ==
    /\ MinChunk \in Nat \ {0}
    /\ MaxChunk \in Nat
    /\ MinChunk =< MaxChunk

(***************************************************************************)
(* capabilities.chunk_size_range: Option<(u64, u64)>.                      *)
(***************************************************************************)
NoRange == [lo |-> 0, hi |-> 0]

Clamp(x, lo, hi) ==
    LET raised == IF x < lo THEN lo ELSE x
    IN  IF raised > hi THEN hi ELSE raised

ChunkSize(range, adaptive) ==
    IF range = NoRange THEN Clamp(adaptive, MinChunk, MaxChunk)
                       ELSE Clamp(range.lo, MinChunk, range.hi)

\* Mutant: the last, partial chunk is not counted.
ChunkCountRoundedDown(size, chunk) == size \div chunk

ChunkCount(size, chunk) == (size + chunk - 1) \div chunk

Offset(i, chunk) == i * chunk

ChunkLength(i, size, chunk) ==
    IF i = ChunkCount(size, chunk) - 1 THEN size - Offset(i, chunk) ELSE chunk

(***************************************************************************)
(* The tasks of a file: one for the whole file when no source supports     *)
(* ranges, otherwise one per chunk.                                        *)
(***************************************************************************)
WholeFile(size) == {[id |-> 0, offset |-> 0, length |-> size]}

ChunkTasks(size, chunk) ==
    {[id |-> i, offset |-> Offset(i, chunk), length |-> ChunkLength(i, size, chunk)] :
        i \in 0 .. ChunkCount(size, chunk) - 1}

Tasks(size, ranged, chunk) ==
    IF ranged THEN ChunkTasks(size, chunk) ELSE WholeFile(size)

Covers(task, p) == task.offset =< p /\ p < task.offset + task.length

(***************************************************************************)
(* A plan tiles a file: every byte belongs to exactly one task, and no     *)
(* task is empty or reaches past the end.                                  *)
(***************************************************************************)
Tiles(tasks, size) ==
    /\ \A p \in 0 .. size - 1: \E t \in tasks:
          Covers(t, p) /\ \A u \in tasks: Covers(u, p) => u = t
    /\ \A t \in tasks: t.length > 0 /\ t.offset + t.length =< size
=============================================================================
