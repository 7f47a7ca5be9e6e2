------------------------- MODULE ChunkTransfer_proofs -------------------------
(***************************************************************************)
(* Whatever the pieces a body comes in, every byte is written where it     *)
(* belongs, for any number of sources, workers and chunks; and every plan  *)
(* execute makes tiles the file.                                           *)
(***************************************************************************)
EXTENDS ChunkTransfer, SequenceTheorems, TLAPS

-----------------------------------------------------------------------------
(* The plan: the tasks that create_chunk_tasks lays out tile the file, for  *)
(* every size of file and chunk, and no chunk size is zero                  *)

\* (file_size + chunk_size - 1) / chunk_size rounds up.
LEMMA CeilingDivision ==
    ASSUME NEW size \in Nat \ {0}, NEW chunk \in Nat \ {0}
    PROVE  /\ ChunkCount(size, chunk) \in Nat \ {0}
           /\ (ChunkCount(size, chunk) - 1) * chunk < size
           /\ size =< ChunkCount(size, chunk) * chunk
<1> DEFINE sum == size + chunk - 1
<1>1. sum \in Nat
  OBVIOUS
<1>2. /\ sum \div chunk \in Nat
      /\ (sum \div chunk) * chunk =< sum
      /\ sum < (sum \div chunk) * chunk + chunk
  <2> HIDE DEF sum
  <2> QED BY <1>1, SMTT(20)
<1> QED
  <2>1. PICK q \in Nat: q = sum \div chunk
    BY <1>2
  <2>2. q * chunk =< sum /\ sum < q * chunk + chunk
    BY <2>1, <1>2
  <2>3. (q - 1) * chunk = q * chunk - chunk
    BY SMT
  <2>4. q # 0
    BY <2>2, SMT
  <2>5. q = ChunkCount(size, chunk)
    BY <2>1 DEF ChunkCount
  <2> HIDE DEF sum
  <2> QED BY <2>2, <2>3, <2>4, <2>5 DEF sum

\* An earlier chunk ends before a later one begins.
LEMMA EarlierEndsFirst ==
    ASSUME NEW chunk \in Nat \ {0}, NEW i \in Nat, NEW j \in Nat, i < j
    PROVE  i * chunk + chunk =< j * chunk
<1>1. PICK d \in Nat: j = i + 1 + d
  <2>1. j - i - 1 \in Nat /\ j = i + 1 + (j - i - 1)
    OBVIOUS
  <2> QED BY <2>1
<1>2. j * chunk = i * chunk + chunk + d * chunk
  BY <1>1, SMT
<1>3. d * chunk \in Nat
  BY <1>1, SMT
<1>4. i * chunk \in Nat /\ j * chunk \in Nat
  BY SMT
<1> QED BY <1>2, <1>3, <1>4

\* What chunk i of a file holds: its first byte, its length, and that it stays
\* inside the file.
LEMMA ChunkBounds ==
    ASSUME NEW size \in Nat \ {0}, NEW chunk \in Nat \ {0},
           NEW i \in 0 .. ChunkCount(size, chunk) - 1
    PROVE  /\ Offset(i, chunk) \in Nat
           /\ ChunkLength(i, size, chunk) \in 1 .. chunk
           /\ Offset(i, chunk) + ChunkLength(i, size, chunk) =< size
<1> DEFINE n == ChunkCount(size, chunk)
<1>1. n \in Nat \ {0} /\ (n - 1) * chunk < size /\ size =< n * chunk
  BY CeilingDivision
<1>2. i \in Nat /\ i =< n - 1
  BY <1>1
<1>3. i * chunk \in Nat /\ n * chunk \in Nat /\ (n - 1) * chunk = n * chunk - chunk
  BY <1>1, <1>2, SMT
<1> HIDE DEF n
<1>4. CASE i = n - 1
  <2>1. ChunkLength(i, size, chunk) = size - i * chunk
    BY <1>4 DEF ChunkLength, Offset, n
  <2> QED BY <1>1, <1>3, <1>4, <2>1 DEF Offset
<1>5. CASE i # n - 1
  <2>1. ChunkLength(i, size, chunk) = chunk
    BY <1>5 DEF ChunkLength, n
  <2>2. i < n - 1 /\ n - 1 \in Nat
    BY <1>1, <1>2, <1>5
  <2>3. i * chunk + chunk =< (n - 1) * chunk
    BY <2>2, <1>2, EarlierEndsFirst
  <2> QED BY <1>1, <1>3, <2>1, <2>3 DEF Offset
<1> QED BY <1>4, <1>5

\* Every byte of the file is in some chunk.
LEMMA EveryByteCovered ==
    ASSUME NEW size \in Nat \ {0}, NEW chunk \in Nat \ {0}, NEW p \in 0 .. size - 1
    PROVE  \E t \in ChunkTasks(size, chunk): Covers(t, p)
<1> DEFINE n == ChunkCount(size, chunk)
           i == p \div chunk
<1>1. n \in Nat \ {0} /\ (n - 1) * chunk < size /\ size =< n * chunk
  BY CeilingDivision
<1>2. i \in Nat /\ i * chunk =< p /\ p < i * chunk + chunk
  <2>1. p \in Nat
    OBVIOUS
  <2> QED BY <2>1, SMTT(20)
<1> HIDE DEF n, i
<1>3. i * chunk \in Nat /\ n * chunk \in Nat
  BY <1>1, <1>2, SMT
<1>4. i < n
  <2> SUFFICES ASSUME n =< i PROVE FALSE
    BY <1>1, <1>2
  <2>1. n * chunk =< i * chunk
    <3>1. CASE n = i
      BY <3>1, <1>3
    <3>2. CASE n < i
      BY <3>2, <1>1, <1>2, <1>3, EarlierEndsFirst
    <3> QED BY <3>1, <3>2, <1>1, <1>2
  <2> QED BY <2>1, <1>1, <1>2, <1>3
<1> DEFINE t == [id |-> i, offset |-> Offset(i, chunk), length |-> ChunkLength(i, size, chunk)]
<1>5. t \in ChunkTasks(size, chunk)
  BY <1>1, <1>2, <1>4 DEF ChunkTasks, n
<1>6. p < Offset(i, chunk) + ChunkLength(i, size, chunk)
  BY <1>2, <1>3 DEF Offset, ChunkLength
<1>7. Covers(t, p)
  BY <1>2, <1>6 DEF Covers, Offset
<1> QED BY <1>5, <1>7

\* No byte is in two chunks.
LEMMA NoByteCoveredTwice ==
    ASSUME NEW size \in Nat \ {0}, NEW chunk \in Nat \ {0}, NEW p \in 0 .. size - 1,
           NEW t \in ChunkTasks(size, chunk), NEW u \in ChunkTasks(size, chunk),
           Covers(t, p), Covers(u, p)
    PROVE  t = u
<1>1. \A a, b \in 0 .. ChunkCount(size, chunk) - 1:
        a < b /\ p < Offset(a, chunk) + ChunkLength(a, size, chunk) => ~ (Offset(b, chunk) =< p)
  <2> TAKE a, b \in 0 .. ChunkCount(size, chunk) - 1
  <2> HAVE a < b /\ p < Offset(a, chunk) + ChunkLength(a, size, chunk)
  <2>1. a \in Nat /\ b \in Nat
    BY CeilingDivision
  <2>2. a * chunk + chunk =< b * chunk
    BY <2>1, EarlierEndsFirst
  <2>3. ChunkLength(a, size, chunk) \in 1 .. chunk
    BY ChunkBounds
  <2>4. a * chunk \in Nat /\ b * chunk \in Nat
    BY <2>1, SMT
  <2> QED BY <2>2, <2>3, <2>4 DEF Offset
<1>2. PICK i \in 0 .. ChunkCount(size, chunk) - 1:
        t = [id |-> i, offset |-> Offset(i, chunk), length |-> ChunkLength(i, size, chunk)]
  BY DEF ChunkTasks
<1>3. PICK j \in 0 .. ChunkCount(size, chunk) - 1:
        u = [id |-> j, offset |-> Offset(j, chunk), length |-> ChunkLength(j, size, chunk)]
  BY DEF ChunkTasks
<1>4. /\ Offset(i, chunk) =< p /\ p < Offset(i, chunk) + ChunkLength(i, size, chunk)
      /\ Offset(j, chunk) =< p /\ p < Offset(j, chunk) + ChunkLength(j, size, chunk)
  BY <1>2, <1>3 DEF Covers
<1>5. ~ (i < j) /\ ~ (j < i)
  BY <1>1, <1>4
<1>6. i \in Int /\ j \in Int
  BY CeilingDivision
<1>7. i = j
  BY <1>5, <1>6
<1> QED BY <1>2, <1>3, <1>7

\* The tasks of a file tile it: every byte is in exactly one task, and no task
\* is empty or reaches past the end. This is PlanTilesFile for every plan.
THEOREM TasksTileFile ==
    ASSUME NEW size \in Nat \ {0}, NEW chunk \in Nat \ {0}, NEW ranged \in BOOLEAN
    PROVE  Tiles(Tasks(size, ranged, chunk), size)
<1>1. CASE ranged
  <2>1. Tasks(size, ranged, chunk) = ChunkTasks(size, chunk)
    BY <1>1 DEF Tasks
  <2>2. ASSUME NEW t \in ChunkTasks(size, chunk)
        PROVE  t.length > 0 /\ t.offset + t.length =< size
    <3>1. PICK i \in 0 .. ChunkCount(size, chunk) - 1:
            t = [id |-> i, offset |-> Offset(i, chunk), length |-> ChunkLength(i, size, chunk)]
      BY DEF ChunkTasks
    <3>2. t.length = ChunkLength(i, size, chunk) /\ t.offset = Offset(i, chunk)
      BY <3>1
    <3> QED BY <3>2, ChunkBounds
  <2>3. ASSUME NEW p \in 0 .. size - 1
        PROVE  \E t \in ChunkTasks(size, chunk):
                 Covers(t, p) /\ \A u \in ChunkTasks(size, chunk): Covers(u, p) => u = t
    BY EveryByteCovered, NoByteCoveredTwice
  <2> QED BY <2>1, <2>2, <2>3 DEF Tiles
<1>2. CASE ~ ranged
  <2> DEFINE whole == [id |-> 0, offset |-> 0, length |-> size]
  <2>1. Tasks(size, ranged, chunk) = {whole}
    BY <1>2 DEF Tasks, WholeFile
  <2>2. whole.offset = 0 /\ whole.length = size
    OBVIOUS
  <2>3. \A p \in 0 .. size - 1: Covers(whole, p)
    BY <2>2 DEF Covers
  <2> HIDE DEF whole
  <2> QED BY <2>1, <2>2, <2>3 DEF Tiles
<1> QED BY <1>1, <1>2

\* Whatever range the sources ask for, provided its upper end is not zero, the
\* chunk size is positive, so that the division by it is defined.
THEOREM ChunkSizePositive ==
    ASSUME NEW adaptive \in Nat, NEW lo \in Nat, NEW hi \in Nat \ {0}
    PROVE  /\ ChunkSize(NoRange, adaptive) \in Nat \ {0}
           /\ ChunkSize([lo |-> lo, hi |-> hi], adaptive) \in Nat \ {0}
BY PlanAssumption DEF ChunkSize, Clamp, NoRange

-----------------------------------------------------------------------------
(* The transfer                                                            *)

\* The buffer holds the source's bytes from the task's offset on.
BufferInPlace(f) == \A i \in 1 .. Len(f.buffer): f.buffer[i] = f.task.offset + i - 1

\* What is still to come continues the buffer once the bytes to be skipped are
\* gone. A fetcher that wants no more has stopped looking at its body.
BodyInPlace(f) ==
    f.kind = "range" \/ f.want > 0 =>
        \A i \in 1 .. Len(f.body): f.body[i] = f.task.offset + Len(f.buffer) - f.skip + i - 1

FetchInv(f) ==
    /\ f \in FetchRecord
    /\ BufferInPlace(f)
    /\ BodyInPlace(f)
    /\ f.kind = "range" => f.skip = 0

PlanInv == plan.tasks \subseteq Task /\ Tiles(plan.tasks, plan.size)

IInv ==
    /\ kind \in [Sources -> Kinds]
    /\ replica \in [Sources -> Nat]
    /\ PlanInv
    /\ queue \subseteq Task
    /\ fetch \in [Workers -> FetchRecord \cup {Idle}]
    /\ \A w \in Workers: Fetching(w) => FetchInv(fetch[w])
    /\ BytesInPlace

-----------------------------------------------------------------------------
(* Sequences of bytes *)

\* What is left of a body once n bytes have been read from it.
LEMMA RestOfBody ==
    ASSUME NEW body \in Seq(Nat), NEW n \in Nat, n =< Len(body)
    PROVE  /\ SubSeq(body, n + 1, Len(body)) \in Seq(Nat)
           /\ Len(SubSeq(body, n + 1, Len(body))) = Len(body) - n
           /\ \A i \in 1 .. Len(body) - n: SubSeq(body, n + 1, Len(body))[i] = body[n + i]
<1>1. Len(body) \in Nat /\ \A i \in 1 .. Len(body): body[i] \in Nat
  BY LenProperties, ElementOfSeq
<1>2. n + 1 \in Int /\ Len(body) \in Int /\ \A i \in n + 1 .. Len(body): body[i] \in Nat
  BY <1>1
<1> DEFINE rest == SubSeq(body, n + 1, Len(body))
<1>3. /\ rest \in Seq(Nat)
      /\ Len(rest) = IF n + 1 =< Len(body) THEN Len(body) - (n + 1) + 1 ELSE 0
      /\ \A i \in 1 .. Len(body) - (n + 1) + 1: rest[i] = body[n + 1 + i - 1]
  BY <1>2, SubSeqProperties
<1>4. Len(rest) = Len(body) - n
  BY <1>1, <1>3
<1>5. ASSUME NEW i \in 1 .. Len(body) - n PROVE rest[i] = body[n + i]
  <2>1. i \in 1 .. Len(body) - (n + 1) + 1 /\ n + 1 + i - 1 = n + i
    BY <1>1
  <2> QED BY <1>3, <2>1
<1> QED BY <1>3, <1>4, <1>5

\* A prefix of a buffer.
LEMMA Prefix ==
    ASSUME NEW buffer \in Seq(Nat), NEW n \in 0 .. Len(buffer)
    PROVE  /\ SubSeq(buffer, 1, n) \in Seq(Nat)
           /\ Len(SubSeq(buffer, 1, n)) = n
           /\ \A i \in 1 .. n: SubSeq(buffer, 1, n)[i] = buffer[i]
<1>1. Len(buffer) \in Nat /\ \A i \in 1 .. Len(buffer): buffer[i] \in Nat
  BY LenProperties, ElementOfSeq
<1>2. n \in Nat /\ \A i \in 1 .. n: buffer[i] \in Nat
  BY <1>1
<1>3. /\ SubSeq(buffer, 1, n) \in Seq(Nat)
      /\ Len(SubSeq(buffer, 1, n)) = IF 1 =< n THEN n - 1 + 1 ELSE 0
      /\ \A i \in 1 .. n - 1 + 1: SubSeq(buffer, 1, n)[i] = buffer[1 + i - 1]
  BY <1>2, SubSeqProperties
<1>4. Len(SubSeq(buffer, 1, n)) = n
  BY <1>2, <1>3
<1>5. ASSUME NEW i \in 1 .. n PROVE SubSeq(buffer, 1, n)[i] = buffer[i]
  <2>1. i \in 1 .. n - 1 + 1 /\ 1 + i - 1 = i
    BY <1>2
  <2> QED BY <1>3, <2>1
<1> QED BY <1>3, <1>4, <1>5

\* Appending kept bytes of the body after dropping the first ones: if the body
\* continues the buffer there, the longer buffer is in place too.
LEMMA AppendInPlace ==
    ASSUME NEW buffer \in Seq(Nat), NEW body \in Seq(Nat), NEW offset \in Nat,
           NEW dropped \in Nat, NEW kept \in Nat, dropped + kept =< Len(body),
           \A i \in 1 .. Len(buffer): buffer[i] = offset + i - 1,
           kept > 0 => \A i \in 1 .. Len(body): body[i] = offset + Len(buffer) - dropped + i - 1
    PROVE  /\ buffer \o SubSeq(body, dropped + 1, dropped + kept) \in Seq(Nat)
           /\ Len(buffer \o SubSeq(body, dropped + 1, dropped + kept)) = Len(buffer) + kept
           /\ \A i \in 1 .. Len(buffer) + kept:
                 (buffer \o SubSeq(body, dropped + 1, dropped + kept))[i] = offset + i - 1
<1> DEFINE part == SubSeq(body, dropped + 1, dropped + kept)
<1>0. PICK longer: longer = buffer \o part
  OBVIOUS
<1>1. /\ Len(body) \in Nat /\ \A i \in 1 .. Len(body): body[i] \in Nat
      /\ Len(buffer) \in Nat
  BY LenProperties, ElementOfSeq
<1>2. /\ dropped + 1 \in Int /\ dropped + kept \in Int
      /\ \A i \in dropped + 1 .. dropped + kept: body[i] \in Nat
  BY <1>1
<1>3. /\ part \in Seq(Nat)
      /\ Len(part) = IF dropped + 1 =< dropped + kept THEN dropped + kept - (dropped + 1) + 1 ELSE 0
      /\ \A i \in 1 .. dropped + kept - (dropped + 1) + 1: part[i] = body[dropped + 1 + i - 1]
  BY <1>2, SubSeqProperties
<1>4. Len(part) = kept
  BY <1>3
<1>5. ASSUME NEW i \in 1 .. kept PROVE part[i] = offset + Len(buffer) + i - 1
  <2>1. i \in 1 .. dropped + kept - (dropped + 1) + 1 /\ dropped + 1 + i - 1 = dropped + i
    OBVIOUS
  <2>2. kept > 0 /\ dropped + i \in 1 .. Len(body)
    BY <1>1
  <2>3. part[i] = body[dropped + i]
    BY <1>3, <2>1
  <2>4. body[dropped + i] = offset + Len(buffer) - dropped + (dropped + i) - 1
    BY <2>2
  <2>5. offset + Len(buffer) - dropped + (dropped + i) - 1 = offset + Len(buffer) + i - 1
    BY <1>1
  <2> QED BY <2>3, <2>4, <2>5
<1> HIDE DEF part
<1>6. /\ longer \in Seq(Nat)
      /\ Len(longer) = Len(buffer) + kept
      /\ \A i \in 1 .. Len(buffer) + kept:
            longer[i] = IF i =< Len(buffer) THEN buffer[i] ELSE part[i - Len(buffer)]
  <2>1. /\ buffer \o part \in Seq(Nat)
        /\ Len(buffer \o part) = Len(buffer) + Len(part)
        /\ \A i \in 1 .. Len(buffer) + Len(part):
              (buffer \o part)[i] = IF i =< Len(buffer) THEN buffer[i] ELSE part[i - Len(buffer)]
    BY <1>3, ConcatProperties
  <2> QED BY <1>0, <1>4, <2>1
<1>7. ASSUME NEW i \in 1 .. Len(buffer) + kept PROVE longer[i] = offset + i - 1
  <2>1. CASE i =< Len(buffer)
    <3>1. i \in 1 .. Len(buffer)
      BY <1>1, <2>1
    <3> QED BY <1>6, <2>1, <3>1
  <2>2. CASE ~ (i =< Len(buffer))
    <3>1. i - Len(buffer) \in 1 .. kept
      BY <1>1, <2>2
    <3>2. part[i - Len(buffer)] = offset + Len(buffer) + (i - Len(buffer)) - 1
      BY <1>5, <3>1
    <3>3. offset + Len(buffer) + (i - Len(buffer)) - 1 = offset + i - 1
      BY <1>1
    <3> QED BY <1>6, <2>2, <3>2, <3>3
  <2> QED BY <2>1, <2>2
<1> QED BY <1>0, <1>6, <1>7 DEF part

-----------------------------------------------------------------------------
(* The plan *)

\* No fetcher asks for chunks of size zero.
LEMMA ChunkSizeOfRange ==
    ASSUME NEW k
    PROVE  ChunkSize(RangeOf(k), InitialChunk) \in Nat \ {0}
<1> USE TransferAssumption
<1>1. InitialChunk \in Nat /\ Piece \in Nat \ {0} /\ 16 * Mebi \in Nat \ {0} /\ 64 * Mebi \in Nat \ {0}
  BY DEF InitialChunk, Piece
<1>2. CASE k = "range"
  BY <1>1, <1>2, ChunkSizePositive DEF RangeOf
<1>3. CASE k = "file"
  BY <1>1, <1>3, ChunkSizePositive DEF RangeOf
<1>4. CASE k = "torrent"
  BY <1>1, <1>4, ChunkSizePositive DEF RangeOf
<1>5. CASE k \notin {"range", "file", "torrent"}
  <2>1. RangeOf(k) = NoRange
    BY <1>5 DEF RangeOf
  <2> QED BY <1>1, <2>1, ChunkSizePositive
<1> QED BY <1>2, <1>3, <1>4, <1>5

\* The tasks of a plan are well typed.
LEMMA TasksTyped ==
    ASSUME NEW size \in Nat \ {0}, NEW chunk \in Nat \ {0}, NEW ranged \in BOOLEAN
    PROVE  Tasks(size, ranged, chunk) \subseteq Task
<1>1. WholeFile(size) \subseteq Task
  BY DEF WholeFile, Task
<1>2. ASSUME NEW i \in 0 .. ChunkCount(size, chunk) - 1
      PROVE  [id |-> i, offset |-> Offset(i, chunk), length |-> ChunkLength(i, size, chunk)] \in Task
  <2>1. i \in Nat
    BY CeilingDivision
  <2>2. Offset(i, chunk) \in Nat /\ ChunkLength(i, size, chunk) \in Nat
    BY ChunkBounds
  <2> QED BY <2>1, <2>2 DEF Task
<1>3. ChunkTasks(size, chunk) \subseteq Task
  BY <1>2 DEF ChunkTasks
<1> QED BY <1>1, <1>3 DEF Tasks

LEMMA InitialPlan ==
    ASSUME Init
    PROVE  PlanInv
<1>0. PICK ok \in (SUBSET Sources) \ {{}}:
        \E size \in LargestSizes(ok), range \in MergedRanges(ok): plan = PlanFrom(ok, size, range)
  BY DEF Init
<1>1. PICK size \in LargestSizes(ok), range \in MergedRanges(ok): plan = PlanFrom(ok, size, range)
  BY <1>0
<1> DEFINE ranged == \E s \in ok: SupportsRange(kind[s])
           chunk == ChunkSize(range, InitialChunk)
<1>2. size \in Nat \ {0}
  BY TransferAssumption DEF Init, LargestSizes
<1>3. chunk \in Nat \ {0}
  <2>1. PICK k: range = RangeOf(k)
    <3>1. range \in {RangeOf(kind[s]) : s \in ok} \/ range = NoRange
      BY DEF MergedRanges
    <3>2. RangeOf("stream") = NoRange
      BY DEF RangeOf
    <3> QED BY <3>1, <3>2
  <2> QED BY <2>1, ChunkSizeOfRange
<1>4. plan.size = size /\ plan.tasks = Tasks(size, ranged, chunk)
  BY <1>1 DEF PlanFrom
<1>5. ranged \in BOOLEAN
  OBVIOUS
<1> HIDE DEF ranged, chunk
<1> QED BY <1>2, <1>3, <1>4, <1>5, TasksTileFile, TasksTyped DEF PlanInv

LEMMA InitInv == Init => IInv
<1> SUFFICES ASSUME Init PROVE IInv
  OBVIOUS
<1>1. PlanInv
  BY InitialPlan
<1>2. queue \subseteq Task
  BY <1>1 DEF Init, PlanInv
<1>3. fetch \in [Workers -> FetchRecord \cup {Idle}] /\ \A w \in Workers: ~ Fetching(w)
  BY DEF Init, Fetching
<1>4. BytesInPlace
  BY DEF Init, BytesInPlace
<1>5. kind \in [Sources -> Kinds] /\ replica \in [Sources -> Nat]
  BY TransferAssumption DEF Init
<1> QED BY <1>1, <1>2, <1>3, <1>4, <1>5 DEF IInv

-----------------------------------------------------------------------------
(* Opening a body and reading from it *)

\* The bytes from one position to another, none if they are out of order.
LEMMA BytesInOrder ==
    ASSUME NEW from \in Nat, NEW to \in Nat
    PROVE  /\ Bytes(from, to) \in Seq(Nat)
           /\ Len(Bytes(from, to)) = IF from =< to THEN to - from ELSE 0
           /\ \A i \in 1 .. Len(Bytes(from, to)): Bytes(from, to)[i] = from + i - 1
<1>1. CASE from =< to
  <2>1. to - from \in Nat /\ \A i \in 1 .. to - from: from + i - 1 \in Nat
    BY <1>1
  <2>2. Bytes(from, to) \in [1 .. to - from -> Nat]
    BY <2>1 DEF Bytes
  <2>3. Bytes(from, to) \in Seq(Nat)
    BY <2>1, <2>2, SeqDef
  <2>4. Len(Bytes(from, to)) = to - from
    <3>1. DOMAIN Bytes(from, to) = 1 .. to - from
      BY DEF Bytes
    <3>2. /\ Len(Bytes(from, to)) \in Nat
          /\ DOMAIN Bytes(from, to) = 1 .. Len(Bytes(from, to))
      BY <2>3, LenProperties
    <3> QED BY <2>1, <3>1, <3>2
  <2> QED BY <1>1, <2>3, <2>4 DEF Bytes
<1>2. CASE ~ (from =< to)
  <2>1. 1 .. to - from = {}
    BY <1>2
  <2>2. Bytes(from, to) = <<>>
    BY <2>1 DEF Bytes
  <2> QED BY <1>2, <2>2
<1> QED BY <1>1, <1>2

\* fetch_chunk starts with an empty buffer and a body that leads up to it.
LEMMA OpenedInPlace ==
    ASSUME IInv, NEW s \in Sources, NEW t \in Task
    PROVE  FetchInv(Opened(s, t))
<1> DEFINE f == Opened(s, t)
<1>1. /\ kind[s] \in Kinds /\ replica[s] \in Nat
      /\ t.offset \in Nat /\ t.length \in Nat
  BY DEF IInv, Task
<1>2. Piece \in Nat
  BY TransferAssumption DEF Piece
<1>3. Upto(t.offset + t.length, s) \in Nat
  BY <1>1 DEF Upto
<1>4. /\ f.task = t /\ f.kind = kind[s] /\ f.buffer = <<>>
      /\ f.skip = IF kind[s] \in {"range", "file", "ssh"} THEN 0 ELSE t.offset
      /\ f.want = IF kind[s] = "torrent" THEN Piece ELSE t.length
      /\ f.body = CASE kind[s] \in {"range", "ssh"} ->
                           Bytes(t.offset, Upto(t.offset + t.length, s))
                    [] kind[s] = "file" -> Bytes(t.offset, replica[s])
                    [] OTHER -> Bytes(0, replica[s])
  BY DEF Opened
<1>5. \E from, to \in Nat: f.body = Bytes(from, to) /\ from = t.offset - f.skip
  <2>1. CASE kind[s] \in {"range", "ssh"}
    BY <1>1, <1>3, <1>4, <2>1
  <2>2. CASE kind[s] = "file"
    BY <1>1, <1>4, <2>2
  <2>3. CASE kind[s] \notin {"range", "file", "ssh"}
    <3>1. f.body = Bytes(0, replica[s]) /\ t.offset - f.skip = 0
      BY <1>1, <1>4, <2>3
    <3> QED BY <1>1, <3>1
  <2> QED BY <2>1, <2>2, <2>3
<1>6. PICK from \in Nat, to \in Nat: f.body = Bytes(from, to) /\ from = t.offset - f.skip
  BY <1>5
<1>7. /\ f.body \in Seq(Nat)
      /\ \A i \in 1 .. Len(f.body): f.body[i] = t.offset - f.skip + i - 1
  <2>1. /\ Bytes(from, to) \in Seq(Nat)
        /\ \A i \in 1 .. Len(Bytes(from, to)): Bytes(from, to)[i] = from + i - 1
    BY BytesInOrder
  <2> HIDE DEF f
  <2> QED BY <1>6, <2>1
<1>8. Len(f.buffer) = 0 /\ f.buffer \in Seq(Nat)
  BY <1>4
<1>9. f \in FetchRecord
  <2>1. f = [task |-> f.task, kind |-> f.kind, body |-> f.body, buffer |-> f.buffer,
             skip |-> f.skip, want |-> f.want]
    BY DEF Opened
  <2>2. f.skip \in Nat /\ f.want \in Nat
    BY <1>1, <1>2, <1>4
  <2> HIDE DEF f
  <2> QED BY <1>1, <1>4, <1>7, <1>8, <2>1, <2>2 DEF FetchRecord
<1>10. BufferInPlace(f)
  BY <1>8 DEF BufferInPlace
<1>11. BodyInPlace(f)
  <2>1. f.skip \in Nat /\ f.task = t
    BY <1>4, <1>9 DEF FetchRecord
  <2>2. t.offset + Len(f.buffer) - f.skip = t.offset - f.skip
    BY <1>1, <1>8, <2>1
  <2> HIDE DEF f
  <2> QED BY <1>7, <2>1, <2>2 DEF BodyInPlace
<1>12. f.kind = "range" => f.skip = 0
  BY <1>4
<1> HIDE DEF f
<1>13. FetchInv(f)
  BY <1>9, <1>10, <1>11, <1>12 DEF FetchInv
<1> QED BY <1>13 DEF f

\* Reading n bytes, dropping some and keeping others of them, keeps a fetch in
\* place if it drops only bytes it has to skip, keeps none before it has
\* skipped them all, and loses none unless it wants no more.
LEMMA ReadInPlace ==
    ASSUME NEW f \in FetchRecord, FetchInv(f),
           NEW n \in 1 .. Len(f.body), NEW dropped \in Nat, NEW kept \in Nat, NEW want \in Nat,
           dropped =< f.skip, dropped + kept =< n,
           kept > 0 => dropped = f.skip /\ (f.kind = "range" \/ f.want > 0),
           f.kind = "range" \/ want > 0 => dropped + kept = n /\ (f.kind = "range" \/ f.want > 0)
    PROVE  FetchInv(Read(f, n, dropped, kept, want))
<1> DEFINE longer == f.buffer \o SubSeq(f.body, dropped + 1, dropped + kept)
           rest == SubSeq(f.body, n + 1, Len(f.body))
           g == Read(f, n, dropped, kept, want)
<1>1. /\ f.task.offset \in Nat /\ f.skip \in Nat /\ f.want \in Nat /\ f.task \in Task
      /\ f.buffer \in Seq(Nat) /\ f.body \in Seq(Nat) /\ f.kind \in Kinds
  BY DEF FetchInv, FetchRecord, Task
<1>2. n \in Nat /\ Len(f.body) \in Nat /\ Len(f.buffer) \in Nat
  BY <1>1, LenProperties
<1>3. g = [task |-> f.task, kind |-> f.kind, body |-> rest, buffer |-> longer,
           skip |-> f.skip - dropped, want |-> want]
  BY DEF Read
<1>4. /\ longer \in Seq(Nat)
      /\ Len(longer) = Len(f.buffer) + kept
      /\ \A i \in 1 .. Len(longer): longer[i] = f.task.offset + i - 1
  <2>1. \A i \in 1 .. Len(f.buffer): f.buffer[i] = f.task.offset + i - 1
    BY DEF FetchInv, BufferInPlace
  <2>2. kept > 0 => \A i \in 1 .. Len(f.body):
          f.body[i] = f.task.offset + Len(f.buffer) - dropped + i - 1
    BY DEF FetchInv, BodyInPlace
  <2>3. dropped + kept =< Len(f.body)
    BY <1>2
  <2>4. PICK b \in Seq(Nat), y \in Seq(Nat), o \in Nat:
          b = f.buffer /\ y = f.body /\ o = f.task.offset
    BY <1>1
  <2>5. /\ dropped + kept =< Len(y)
        /\ \A i \in 1 .. Len(b): b[i] = o + i - 1
        /\ kept > 0 => \A i \in 1 .. Len(y): y[i] = o + Len(b) - dropped + i - 1
    BY <2>1, <2>2, <2>3, <2>4
  <2>6. /\ b \o SubSeq(y, dropped + 1, dropped + kept) \in Seq(Nat)
        /\ Len(b \o SubSeq(y, dropped + 1, dropped + kept)) = Len(b) + kept
        /\ \A i \in 1 .. Len(b) + kept:
              (b \o SubSeq(y, dropped + 1, dropped + kept))[i] = o + i - 1
    BY ONLY <2>5, dropped \in Nat, kept \in Nat, b \in Seq(Nat), y \in Seq(Nat), o \in Nat,
            AppendInPlace, SMTT(30)
  <2> QED BY <2>4, <2>6
<1>5. /\ rest \in Seq(Nat)
      /\ Len(rest) = Len(f.body) - n
      /\ \A i \in 1 .. Len(f.body) - n: rest[i] = f.body[n + i]
  <2>1. n =< Len(f.body)
    BY <1>2
  <2> QED BY <1>1, <1>2, <2>1, RestOfBody, Zenon
<1>6. f.skip - dropped \in Nat
  BY <1>1
<1> HIDE DEF longer, rest, g
<1>7. g \in FetchRecord
  BY <1>1, <1>3, <1>4, <1>5, <1>6 DEF FetchRecord
<1>8. BufferInPlace(g)
  BY <1>3, <1>4 DEF BufferInPlace
<1>9. BodyInPlace(g)
  <2>1. SUFFICES ASSUME f.kind = "range" \/ want > 0, NEW i \in 1 .. Len(rest)
                 PROVE  rest[i] = f.task.offset + Len(longer) - (f.skip - dropped) + i - 1
    BY <1>3 DEF BodyInPlace
  <2>2. n + i \in 1 .. Len(f.body) /\ i \in Nat
    BY <1>2, <1>5
  <2>3. f.body[n + i] = f.task.offset + Len(f.buffer) - f.skip + (n + i) - 1
    BY <2>1, <2>2 DEF FetchInv, BodyInPlace
  <2>4. n = dropped + kept
    BY <2>1
  <2>5. f.task.offset + Len(f.buffer) - f.skip + (n + i) - 1
          = f.task.offset + Len(longer) - (f.skip - dropped) + i - 1
    <3>1. /\ f.task.offset \in Int /\ Len(f.buffer) \in Int /\ f.skip \in Int
          /\ dropped \in Int /\ kept \in Int /\ i \in Int
      BY <1>1, <1>2, <2>2
    <3>2. Len(longer) = Len(f.buffer) + kept
      BY <1>4
    <3>3. PICK o \in Int, l \in Int, k \in Int:
            o = f.task.offset /\ l = Len(f.buffer) /\ k = f.skip
      BY <3>1
    <3>4. o + l - k + (dropped + kept + i) - 1 = o + (l + kept) - (k - dropped) + i - 1
      BY <3>1
    <3> QED BY <2>4, <3>2, <3>3, <3>4, Zenon
  <2> QED BY <1>5, <2>3, <2>5
<1>10. g.kind = "range" => g.skip = 0
  BY <1>1, <1>3 DEF FetchInv
<1>11. FetchInv(g)
  BY <1>7, <1>8, <1>9, <1>10 DEF FetchInv
<1> QED BY <1>11 DEF g

-----------------------------------------------------------------------------
(* The steps of a worker *)

\* A step that leaves a worker idle or with a fetch in place keeps them all so.
LEMMA TakeInPlace ==
    ASSUME IInv, NEW w \in Workers, NEW f, Take(w, f), f = Idle \/ FetchInv(f)
    PROVE  /\ fetch' \in [Workers -> FetchRecord \cup {Idle}]
           /\ \A v \in Workers: Fetching(v)' => FetchInv(fetch'[v])
<1>1. f \in FetchRecord \cup {Idle}
  BY DEF FetchInv
<1>2. fetch' = [fetch EXCEPT ![w] = f] /\ fetch \in [Workers -> FetchRecord \cup {Idle}]
  BY DEF Take, IInv
<1>3. fetch' \in [Workers -> FetchRecord \cup {Idle}]
  BY <1>1, <1>2
<1>4. ASSUME NEW v \in Workers, Fetching(v)' PROVE FetchInv(fetch'[v])
  <2>1. CASE v = w
    BY <1>2, <1>4, <2>1 DEF Fetching
  <2>2. CASE v # w
    BY <1>2, <1>4, <2>2 DEF Fetching, IInv
  <2> QED BY <2>1, <2>2
<1> QED BY <1>3, <1>4

\* What one turn of a reading loop may do with the n bytes it has read.
Turn(f, n, dropped, kept, want) ==
    /\ dropped =< f.skip /\ dropped + kept =< n
    /\ kept > 0 => dropped = f.skip /\ (f.kind = "range" \/ f.want > 0)
    /\ f.kind = "range" \/ want > 0 => dropped + kept = n /\ (f.kind = "range" \/ f.want > 0)
    /\ f.kind # "range" => want + kept = f.want

\* Each of the reading loops takes such turns.
LEMMA ReceiveTurns ==
    ASSUME IInv, NEW w \in Workers, Receive(w)
    PROVE  /\ FetchInv(fetch[w]) /\ fetch[w] \in FetchRecord
           /\ \E n \in 1 .. Len(fetch[w].body): \E dropped, kept, want \in Nat:
                 /\ Turn(fetch[w], n, dropped, kept, want)
                 /\ Take(w, Read(fetch[w], n, dropped, kept, want))
<1> DEFINE f == fetch[w]
<1>1. FetchInv(f) /\ f \in FetchRecord
  BY DEF IInv, Receive, FetchInv
<1>2. /\ f.skip \in Nat /\ f.want \in Nat
      /\ f.kind = "range" => f.skip = 0
  BY <1>1 DEF FetchInv, FetchRecord
<1>3. PICK n \in 1 .. Len(f.body):
        ReceiveRange(w, n) \/ ReceiveStream(w, n) \/ ReceiveBounded(w, n)
  BY DEF Receive
<1>4. n \in Nat /\ n > 0 /\ 0 \in Nat
  <2>1. Len(f.body) \in Nat
    BY <1>1, LenProperties DEF FetchRecord
  <2> QED BY <2>1
<1>5. CASE ReceiveRange(w, n)
  <2>1. f.kind = "range" /\ Take(w, Read(f, n, 0, n, f.want))
    BY <1>5 DEF ReceiveRange
  <2> HIDE DEF f
  <2>2. Turn(f, n, 0, n, f.want)
    BY <1>2, <1>4, <2>1 DEF Turn
  <2> QED BY <1>1, <1>2, <1>4, <2>1, <2>2 DEF f
<1>6. CASE ReceiveStream(w, n)
  <2> DEFINE dropped == IF n =< f.skip THEN n ELSE f.skip
             kept == IF n - dropped < f.want THEN n - dropped ELSE f.want
  <2>1. /\ f.kind = "stream" /\ ~ Satisfied(f)
        /\ Take(w, Read(f, n, dropped, kept, f.want - kept))
    BY <1>6 DEF ReceiveStream
  <2> HIDE DEF f
  <2>2. /\ dropped \in Nat /\ kept \in Nat /\ f.want - kept \in Nat
        /\ dropped =< f.skip /\ dropped + kept =< n
        /\ kept > 0 => dropped = f.skip /\ f.want > 0
        /\ f.want - kept > 0 => dropped + kept = n /\ f.want > 0
        /\ f.want - kept + kept = f.want
    BY <1>2, <1>4
  <2> HIDE DEF dropped, kept
  <2>3. Turn(f, n, dropped, kept, f.want - kept)
    BY <2>1, <2>2 DEF Turn
  <2> QED BY <1>1, <2>1, <2>2, <2>3 DEF f
<1>7. CASE ReceiveBounded(w, n)
  <2>1. f.kind # "range"
    BY <1>7 DEF ReceiveBounded
  <2>2. CASE f.skip > 0
    <3>1. n =< f.skip /\ Take(w, Read(f, n, n, 0, f.want))
      BY <1>7, <2>2 DEF ReceiveBounded
    <3> HIDE DEF f
    <3>2. Turn(f, n, n, 0, f.want)
      BY <1>2, <1>4, <2>1, <3>1 DEF Turn
    <3> QED BY <1>1, <1>2, <1>4, <3>1, <3>2 DEF f
  <2>3. CASE ~ (f.skip > 0)
    <3>1. n =< f.want /\ Take(w, Read(f, n, 0, n, f.want - n))
      BY <1>7, <2>3 DEF ReceiveBounded
    <3> HIDE DEF f
    <3>2. Turn(f, n, 0, n, f.want - n) /\ f.want - n \in Nat
      BY <1>2, <1>4, <2>1, <2>3, <3>1 DEF Turn
    <3> QED BY <1>1, <1>4, <3>1, <3>2 DEF f
  <2> QED BY <2>2, <2>3
<1> QED BY <1>3, <1>5, <1>6, <1>7

\* So each keeps its fetch in place.
LEMMA ReceiveInPlace ==
    ASSUME IInv, NEW w \in Workers, Receive(w)
    PROVE  /\ fetch' \in [Workers -> FetchRecord \cup {Idle}]
           /\ \A v \in Workers: Fetching(v)' => FetchInv(fetch'[v])
<1>0. PICK f: f = fetch[w]
  OBVIOUS
<1>1. FetchInv(f) /\ f \in FetchRecord
  BY <1>0, ReceiveTurns
<1>2. PICK n \in 1 .. Len(f.body): \E dropped, kept, want \in Nat:
        Turn(f, n, dropped, kept, want) /\ Take(w, Read(f, n, dropped, kept, want))
  BY <1>0, ReceiveTurns
<1>3. PICK dropped \in Nat, kept \in Nat, want \in Nat:
        Turn(f, n, dropped, kept, want) /\ Take(w, Read(f, n, dropped, kept, want))
  BY <1>2
<1>4. FetchInv(Read(f, n, dropped, kept, want))
  BY <1>1, <1>3, ReadInPlace DEF Turn
<1> QED BY <1>3, <1>4, TakeInPlace

\* write_at, of the whole buffer or of a prefix, writes bytes where they belong.
LEMMA WriteInPlace ==
    ASSUME BytesInPlace, NEW offset \in Nat, NEW buffer \in Seq(Nat),
           \A i \in 1 .. Len(buffer): buffer[i] = offset + i - 1,
           file' = Written(offset, buffer)
    PROVE  BytesInPlace'
<1>1. DOMAIN file' = DOMAIN file
  BY DEF Written
<1>2. ASSUME NEW p \in DOMAIN file PROVE file'[p] \in {p, Stale}
  <2>1. file'[p] = IF p \in offset .. offset + Len(buffer) - 1
                   THEN buffer[p - offset + 1] ELSE file[p]
    BY DEF Written
  <2>2. CASE p \in offset .. offset + Len(buffer) - 1
    <3>1. Len(buffer) \in Nat
      BY LenProperties
    <3>2. p - offset + 1 \in 1 .. Len(buffer) /\ offset + (p - offset + 1) - 1 = p
      BY <2>2, <3>1
    <3> QED BY <2>1, <2>2, <3>2
  <2>3. CASE p \notin offset .. offset + Len(buffer) - 1
    BY <2>1, <2>3 DEF BytesInPlace
  <2> QED BY <2>2, <2>3
<1> QED BY <1>1, <1>2 DEF BytesInPlace

\* A task that failed goes back to the queue or out of it.
LEMMA RetryKeepsTasks ==
    ASSUME IInv, NEW t \in Task, RetryOrGiveUp(t)
    PROVE  queue' \subseteq Task
BY DEF IInv, RetryOrGiveUp

LEMMA StepInv == IInv /\ [Next]_vars => IInv'
<1> SUFFICES ASSUME IInv, [Next]_vars PROVE IInv'
  OBVIOUS
<1>1. CASE UNCHANGED vars
  BY <1>1 DEF IInv, vars, PlanInv, BytesInPlace, Fetching
<1>2. ASSUME NEW w \in Workers, WorkerStep(w) PROVE IInv'
  <2>1. UNCHANGED <<kind, replica, plan>>
    BY <1>2 DEF WorkerStep, StartFetch, Refused, Receive, ReceiveRange, ReceiveStream,
                ReceiveBounded, Store, StoreFails, FetchFails
  <2>2. ASSUME queue' \subseteq Task,
               fetch' \in [Workers -> FetchRecord \cup {Idle}],
               \A v \in Workers: Fetching(v)' => FetchInv(fetch'[v]),
               BytesInPlace'
        PROVE  IInv'
    BY <2>1, <2>2 DEF IInv, PlanInv
  <2>3. UNCHANGED file => BytesInPlace'
    BY DEF IInv, BytesInPlace
  <2>4. UNCHANGED fetch => /\ fetch' \in [Workers -> FetchRecord \cup {Idle}]
                           /\ \A v \in Workers: Fetching(v)' => FetchInv(fetch'[v])
    BY DEF IInv, Fetching
  <2>5. ASSUME NEW t \in queue, NEW s \in Sources, StartFetch(w, t, s) PROVE IInv'
    <3>1. t \in Task /\ queue' \subseteq Task /\ UNCHANGED file /\ Take(w, Opened(s, t))
      BY <2>5 DEF StartFetch, IInv
    <3>2. FetchInv(Opened(s, t))
      BY <3>1, OpenedInPlace
    <3> QED BY <2>2, <2>3, <3>1, <3>2, TakeInPlace
  <2>6. ASSUME NEW t \in queue, NEW s \in Sources, Refused(w, t, s) PROVE IInv'
    <3>1. t \in Task /\ RetryOrGiveUp(t) /\ UNCHANGED <<fetch, file>>
      BY <2>6 DEF Refused, IInv
    <3> QED BY <2>2, <2>3, <2>4, <3>1, RetryKeepsTasks
  <2>7. CASE Receive(w)
    <3>1. UNCHANGED <<queue, file>>
      BY <2>7 DEF Receive, ReceiveRange, ReceiveStream, ReceiveBounded
    <3>2. queue' \subseteq Task
      BY <3>1 DEF IInv
    <3> QED BY <2>2, <2>3, <2>7, <3>1, <3>2, ReceiveInPlace
  <2>8. ASSUME Fetching(w)
        PROVE  /\ fetch[w].task \in Task /\ fetch[w].task.offset \in Nat
               /\ fetch[w].buffer \in Seq(Nat)
               /\ \A i \in 1 .. Len(fetch[w].buffer):
                     fetch[w].buffer[i] = fetch[w].task.offset + i - 1
    BY <2>8 DEF IInv, FetchInv, FetchRecord, Task, BufferInPlace
  <2>9. CASE Store(w)
    <3>1. /\ Fetching(w) /\ Take(w, Idle) /\ UNCHANGED queue
          /\ file' = Written(fetch[w].task.offset, fetch[w].buffer)
      BY <2>9 DEF Store
    <3>2. BytesInPlace'
      BY <2>8, <3>1, WriteInPlace DEF IInv
    <3>3. queue' \subseteq Task
      BY <3>1 DEF IInv
    <3> QED BY <2>2, <3>1, <3>2, <3>3, TakeInPlace
  <2>10. CASE StoreFails(w)
    <3>1. /\ Fetching(w) /\ Take(w, Idle) /\ RetryOrGiveUp(fetch[w].task)
          /\ \E n \in 0 .. Len(fetch[w].buffer):
                file' = Written(fetch[w].task.offset, SubSeq(fetch[w].buffer, 1, n))
      BY <2>10 DEF StoreFails
    <3>2. PICK n \in 0 .. Len(fetch[w].buffer):
            file' = Written(fetch[w].task.offset, SubSeq(fetch[w].buffer, 1, n))
      BY <3>1
    <3> DEFINE part == SubSeq(fetch[w].buffer, 1, n)
    <3>3. part \in Seq(Nat) /\ \A i \in 1 .. Len(part): part[i] = fetch[w].task.offset + i - 1
      <4>1. /\ part \in Seq(Nat) /\ Len(part) = n
            /\ \A i \in 1 .. n: part[i] = fetch[w].buffer[i]
        BY <2>8, <3>1, Prefix
      <4>2. Len(fetch[w].buffer) \in Nat
        BY <2>8, <3>1, LenProperties
      <4>3. \A i \in 1 .. n: i \in 1 .. Len(fetch[w].buffer)
        BY <4>2
      <4> HIDE DEF part
      <4> QED BY <2>8, <3>1, <4>1, <4>3
    <3>4. BytesInPlace'
      <4> HIDE DEF part
      <4>1. file' = Written(fetch[w].task.offset, part)
        BY <3>2 DEF part
      <4> QED BY <2>8, <3>1, <3>3, <4>1, WriteInPlace DEF IInv
    <3> QED BY <2>2, <2>8, <3>1, <3>4, TakeInPlace, RetryKeepsTasks
  <2>11. CASE FetchFails(w)
    <3>1. /\ Fetching(w) /\ Take(w, Idle) /\ RetryOrGiveUp(fetch[w].task) /\ UNCHANGED file
      BY <2>11 DEF FetchFails
    <3> QED BY <2>2, <2>3, <2>8, <3>1, TakeInPlace, RetryKeepsTasks
  <2> QED BY <1>2, <2>5, <2>6, <2>7, <2>9, <2>10, <2>11 DEF WorkerStep
<1> QED BY <1>1, <1>2 DEF Next, Finished

LEMMA Invariance == Spec => []IInv
BY InitInv, StepInv, PTL DEF Spec

-----------------------------------------------------------------------------
(* The theorems *)

\* create_chunk_tasks cuts every file so that each byte is in one task.
THEOREM PlansTile == Spec => []PlanTilesFile
<1>1. IInv => PlanTilesFile
  BY DEF IInv, PlanInv, PlanTilesFile
<1> QED BY <1>1, Invariance, PTL

\* No fetcher and no write, whole, partial or repeated, puts a byte of the
\* source anywhere but at its own position.
THEOREM BytesStayInPlace == Spec => []BytesInPlace
<1>1. IInv => BytesInPlace
  BY DEF IInv
<1> QED BY <1>1, Invariance, PTL

-----------------------------------------------------------------------------
(* A download without failed chunks is the source                          *)

\* The sources' files are all as long.
OneLength == \A r \in Replicas: \A s, t \in Sources: r[s] = r[t]

\* What a fetch has, and may still get, is enough for its task; one that stops
\* looking at its body has it already.
Enough(f) ==
    /\ f.kind # "range" => f.want + Len(f.buffer) >= f.task.length
    /\ f.kind = "range" \/ f.want > 0 =>
          Len(f.buffer) + Len(f.body) - f.skip >= f.task.length

Stored(t) == \A p \in DOMAIN file: Covers(t, p) => file[p] = p

\* A torrent's piece is never shorter than a task.
TasksFitPieces ==
    \A s \in Sources, t \in plan.tasks: kind[s] = "torrent" => t.length =< Piece

InFlight(t) == \E w \in Workers: Fetching(w) /\ fetch[w].task = t

SizesAgree ==
    /\ plan.size \in Nat
    /\ DOMAIN file = 0 .. plan.size - 1
    /\ \A s \in Sources: replica[s] = plan.size

TasksOfPlan ==
    /\ queue \subseteq plan.tasks
    /\ \A w \in Workers: Fetching(w) => fetch[w].task \in plan.tasks

NoTaskLost == \A t \in plan.tasks: t \in queue \cup done \cup failed \/ InFlight(t)

CompleteInv ==
    /\ SizesAgree
    /\ TasksOfPlan
    /\ NoTaskLost
    /\ PiecesPlanned =>
          /\ TasksFitPieces
          /\ \A w \in Workers: Fetching(w) => Enough(fetch[w])
          /\ \A t \in done: Stored(t)

\* No chunk is larger than the piece a torrent source asks for.
LEMMA ChunkFitsPiece ==
    ASSUME MinChunk =< Piece, NEW k, RangeOf(k) # NoRange
    PROVE  ChunkSize(RangeOf(k), InitialChunk) =< Piece
<1>1. /\ Mebi \in Nat \ {0} /\ MinChunk \in Nat \ {0} /\ Piece = 4 * Mebi
      /\ InitialChunk = 4 * Mebi
  BY TransferAssumption, PlanAssumption DEF Piece, InitialChunk
<1>2. CASE k = "range"
  <2>1. RangeOf(k) = [lo |-> Mebi, hi |-> 16 * Mebi]
    BY <1>2 DEF RangeOf
  <2> QED BY <1>1, <2>1 DEF ChunkSize, Clamp, NoRange
<1>3. CASE k = "file"
  <2>1. RangeOf(k) = [lo |-> Mebi, hi |-> 64 * Mebi]
    BY <1>3 DEF RangeOf
  <2> QED BY <1>1, <2>1 DEF ChunkSize, Clamp, NoRange
<1>4. CASE k = "torrent"
  <2>1. RangeOf(k) = [lo |-> Piece, hi |-> Piece]
    BY <1>4 DEF RangeOf
  <2> QED BY <1>1, <2>1 DEF ChunkSize, Clamp, NoRange
<1>5. CASE k \notin {"range", "file", "torrent"}
  BY <1>5 DEF RangeOf
<1> QED BY <1>2, <1>3, <1>4, <1>5

\* Tasks of a ranged plan are no longer than its chunk.
LEMMA RangedTasksFit ==
    ASSUME NEW size \in Nat \ {0}, NEW chunk \in Nat \ {0}, NEW t \in Tasks(size, TRUE, chunk)
    PROVE  t.length =< chunk
<1>1. PICK i \in 0 .. ChunkCount(size, chunk) - 1:
        t = [id |-> i, offset |-> Offset(i, chunk), length |-> ChunkLength(i, size, chunk)]
  BY DEF Tasks, ChunkTasks
<1>2. t.length = ChunkLength(i, size, chunk)
  BY <1>1
<1> QED BY <1>2, ChunkBounds

\* A plan made with the answer of a torrent source has no task longer than a
\* piece.
LEMMA InitialFit ==
    ASSUME MinChunk =< Piece, Init, PiecesPlanned
    PROVE  TasksFitPieces
<1> SUFFICES ASSUME NEW s \in Sources, NEW t \in plan.tasks, kind[s] = "torrent"
             PROVE  t.length =< Piece
  BY DEF TasksFitPieces
<1>0. PICK ok \in (SUBSET Sources) \ {{}}:
        \E size \in LargestSizes(ok), range \in MergedRanges(ok): plan = PlanFrom(ok, size, range)
  BY DEF Init
<1>1. PICK size \in LargestSizes(ok), range \in MergedRanges(ok): plan = PlanFrom(ok, size, range)
  BY <1>0
<1> DEFINE chunk == ChunkSize(range, InitialChunk)
<1>2. s \in ok
  <2>1. plan.probed = ok
    BY <1>1 DEF PlanFrom
  <2> QED BY <2>1 DEF PiecesPlanned
<1>3. RangeOf(kind[s]) # NoRange
  <2>1. RangeOf("torrent") = [lo |-> Piece, hi |-> Piece]
    BY DEF RangeOf
  <2>2. Piece # 0
    BY TransferAssumption DEF Piece
  <2>3. RangeOf("torrent") # NoRange
    BY <2>1, <2>2 DEF NoRange
  <2> QED BY <2>3
<1>4. \E v \in ok: range = RangeOf(kind[v]) /\ RangeOf(kind[v]) # NoRange
  BY <1>2, <1>3 DEF MergedRanges
<1>5. chunk \in Nat \ {0} /\ chunk =< Piece
  BY <1>4, ChunkSizeOfRange, ChunkFitsPiece
<1>6. size \in Nat \ {0}
  BY TransferAssumption DEF Init, LargestSizes
<1>7. (\E v \in ok: SupportsRange(kind[v])) = TRUE
  BY <1>2 DEF SupportsRange
<1>8. plan.tasks = Tasks(size, TRUE, chunk)
  BY <1>1, <1>7 DEF PlanFrom
<1>9. t.length =< chunk
  <2>1. t \in Tasks(size, TRUE, chunk)
    BY <1>8
  <2> HIDE DEF chunk
  <2> QED BY <1>5, <1>6, <2>1, RangedTasksFit, Zenon
<1>10. t.length \in Nat /\ Piece \in Nat
  BY InitialPlan, TransferAssumption DEF PlanInv, Task, Piece
<1>11. chunk \in Nat /\ chunk =< Piece
  BY <1>5
<1> HIDE DEF chunk
<1> QED BY <1>9, <1>10, <1>11

LEMMA CompleteInit ==
    ASSUME OneLength, MinChunk =< Piece, Init
    PROVE  CompleteInv
<1>1. SizesAgree
  <2>0. PICK ok \in (SUBSET Sources) \ {{}}:
          \E size \in LargestSizes(ok), range \in MergedRanges(ok): plan = PlanFrom(ok, size, range)
    BY DEF Init
  <2>1. PICK size \in LargestSizes(ok), range \in MergedRanges(ok): plan = PlanFrom(ok, size, range)
    BY <2>0
  <2>2. plan.size = size
    BY <2>1 DEF PlanFrom
  <2>3. PICK s \in ok: size = replica[s]
    BY DEF LargestSizes
  <2>4. replica \in Replicas /\ s \in Sources
    BY DEF Init
  <2>5. \A v \in Sources: replica[v] = size /\ size \in Nat
    BY <2>3, <2>4, TransferAssumption DEF OneLength
  <2>6. DOMAIN file = 0 .. plan.size - 1
    BY DEF Init
  <2> QED BY <2>2, <2>4, <2>5, <2>6 DEF SizesAgree
<1>2. TasksOfPlan /\ NoTaskLost
  BY DEF Init, TasksOfPlan, NoTaskLost, Fetching
<1>3. (\A w \in Workers: ~ Fetching(w)) /\ done = {}
  BY DEF Init, Fetching
<1> QED BY <1>1, <1>2, <1>3, InitialFit DEF CompleteInv

\* A source whose file is as long as the plan's opens a body that is enough.
LEMMA OpenedEnough ==
    ASSUME IInv, SizesAgree, TasksFitPieces, NEW s \in Sources, NEW t \in plan.tasks
    PROVE  Enough(Opened(s, t))
<1> DEFINE f == Opened(s, t)
<1>1. /\ kind[s] \in Kinds /\ replica[s] = plan.size /\ replica[s] \in Nat
      /\ t.offset \in Nat /\ t.length \in Nat /\ t.length > 0
      /\ t.offset + t.length =< plan.size
  BY DEF IInv, PlanInv, Task, Tiles, SizesAgree
<1>2. kind[s] = "torrent" => t.length =< Piece
  BY DEF TasksFitPieces
<1>3. Piece \in Nat
  BY TransferAssumption DEF Piece
<1>4. /\ f.task = t /\ f.kind = kind[s] /\ Len(f.buffer) = 0
      /\ f.skip = IF kind[s] \in {"range", "file", "ssh"} THEN 0 ELSE t.offset
      /\ f.want = IF kind[s] = "torrent" THEN Piece ELSE t.length
      /\ f.body = CASE kind[s] \in {"range", "ssh"} ->
                           Bytes(t.offset, Upto(t.offset + t.length, s))
                    [] kind[s] = "file" -> Bytes(t.offset, replica[s])
                    [] OTHER -> Bytes(0, replica[s])
  BY DEF Opened
<1> HIDE DEF f
<1>5. f.want >= t.length
  BY <1>1, <1>2, <1>3, <1>4
<1>6. Len(f.body) - f.skip >= t.length
  <2>1. CASE kind[s] \in {"range", "ssh"}
    <3>1. Upto(t.offset + t.length, s) = t.offset + t.length
      BY <1>1 DEF Upto
    <3>2. f.body = Bytes(t.offset, t.offset + t.length) /\ f.skip = 0
      BY <1>4, <2>1, <3>1
    <3>3. Len(Bytes(t.offset, t.offset + t.length)) = t.length
      <4>1. PICK from \in Nat, to \in Nat: from = t.offset /\ to = t.offset + t.length
        BY <1>1
      <4>2. from =< to /\ to - from = t.length
        BY <1>1, <4>1
      <4>3. Len(Bytes(from, to)) = to - from
        BY <4>2, BytesInOrder
      <4> QED BY <4>1, <4>2, <4>3
    <3> QED BY <1>1, <3>2, <3>3
  <2>2. CASE kind[s] = "file"
    <3>1. f.body = Bytes(t.offset, replica[s]) /\ f.skip = 0
      BY <1>4, <2>2
    <3>2. Len(Bytes(t.offset, replica[s])) = replica[s] - t.offset
      <4>1. t.offset =< replica[s]
        BY <1>1
      <4> QED BY <1>1, <4>1, BytesInOrder
    <3> QED BY <1>1, <3>1, <3>2
  <2>3. CASE kind[s] \notin {"range", "file", "ssh"}
    <3>1. f.body = Bytes(0, replica[s]) /\ f.skip = t.offset
      BY <1>4, <2>3
    <3>2. Len(Bytes(0, replica[s])) = replica[s] - 0
      <4>1. 0 \in Nat /\ 0 =< replica[s]
        BY <1>1
      <4> QED BY <1>1, <4>1, BytesInOrder
    <3> QED BY <1>1, <3>1, <3>2
  <2> QED BY <2>1, <2>2, <2>3
<1>7. f.want + Len(f.buffer) >= f.task.length
  <2>1. f.want \in Nat
    BY <1>1, <1>3, <1>4
  <2> QED BY <1>4, <1>5, <2>1
<1>8. Len(f.buffer) + Len(f.body) - f.skip >= f.task.length
  <2>1. f.body \in Seq(Nat) /\ f.skip \in Nat
    BY OpenedInPlace DEF IInv, PlanInv, FetchInv, FetchRecord, f
  <2>2. Len(f.body) \in Nat
    BY <2>1, LenProperties
  <2>3. Len(f.buffer) + Len(f.body) - f.skip = Len(f.body) - f.skip
    BY <1>4, <2>1, <2>2
  <2> QED BY <1>4, <1>6, <2>3
<1>9. Enough(f)
  BY <1>7, <1>8 DEF Enough
<1> QED BY <1>9 DEF f

\* What a turn takes off the body or off what is wanted it adds to the buffer
\* or takes off what is to be skipped.
LEMMA TurnKeepsEnough ==
    ASSUME NEW f \in FetchRecord, FetchInv(f), Enough(f), NEW n \in 1 .. Len(f.body),
           NEW dropped \in Nat, NEW kept \in Nat, NEW want \in Nat,
           Turn(f, n, dropped, kept, want)
    PROVE  Enough(Read(f, n, dropped, kept, want))
<1> DEFINE g == Read(f, n, dropped, kept, want)
<1>1. /\ f.skip \in Nat /\ f.want \in Nat /\ f.task.length \in Nat
      /\ f.body \in Seq(Nat) /\ f.buffer \in Seq(Nat)
  BY DEF FetchRecord, Task
<1>2. Len(f.body) \in Nat /\ Len(f.buffer) \in Nat /\ n \in Nat
  BY <1>1, LenProperties
<1>3. /\ g.task = f.task /\ g.kind = f.kind /\ g.want = want /\ g.skip = f.skip - dropped
      /\ g.body = SubSeq(f.body, n + 1, Len(f.body))
      /\ g.buffer = f.buffer \o SubSeq(f.body, dropped + 1, dropped + kept)
  BY DEF Read
<1>4. Len(SubSeq(f.body, n + 1, Len(f.body))) = Len(f.body) - n
  <2>1. n =< Len(f.body)
    BY <1>2
  <2> QED BY <1>1, <1>2, <2>1, RestOfBody, Zenon
<1>5. Len(f.buffer \o SubSeq(f.body, dropped + 1, dropped + kept)) = Len(f.buffer) + kept
  <2>1. dropped + kept =< Len(f.body)
    BY <1>2 DEF Turn
  <2>2. \A i \in dropped + 1 .. dropped + kept: f.body[i] \in Nat
    <3>1. \A i \in dropped + 1 .. dropped + kept: i \in 1 .. Len(f.body)
      BY <1>2, <2>1
    <3> QED BY <1>1, <3>1, ElementOfSeq
  <2>3. PICK y \in Seq(Nat), b \in Seq(Nat): y = f.body /\ b = f.buffer
    BY <1>1
  <2>4. /\ SubSeq(y, dropped + 1, dropped + kept) \in Seq(Nat)
        /\ Len(SubSeq(y, dropped + 1, dropped + kept)) =
              IF dropped + 1 =< dropped + kept THEN dropped + kept - (dropped + 1) + 1 ELSE 0
    <3>1. dropped + 1 \in Int /\ dropped + kept \in Int
      OBVIOUS
    <3> QED BY <2>2, <2>3, <3>1, SubSeqProperties
  <2>5. PICK part: part = SubSeq(y, dropped + 1, dropped + kept)
    OBVIOUS
  <2>6. part \in Seq(Nat) /\ Len(part) = kept
    <3>1. kept = IF dropped + 1 =< dropped + kept THEN dropped + kept - (dropped + 1) + 1 ELSE 0
      OBVIOUS
    <3> QED BY <2>4, <2>5, <3>1, Zenon
  <2>7. Len(b \o part) = Len(b) + Len(part)
    BY <2>6, ConcatProperties
  <2> QED BY <2>3, <2>5, <2>6, <2>7
<1> HIDE DEF g
<1>6. Len(g.body) = Len(f.body) - n /\ Len(g.buffer) = Len(f.buffer) + kept
  BY <1>3, <1>4, <1>5
<1>7. PICK body \in Nat, buffer \in Nat, skip \in Nat, length \in Nat, wanted \in Nat:
        /\ body = Len(f.body) /\ buffer = Len(f.buffer) /\ skip = f.skip
        /\ length = f.task.length /\ wanted = f.want
  BY <1>1, <1>2
<1>8. ASSUME g.kind # "range" PROVE g.want + Len(g.buffer) >= g.task.length
  <2>1. want + kept = wanted /\ wanted + buffer >= length
    BY <1>3, <1>7, <1>8 DEF Enough, Turn
  <2>2. want + (buffer + kept) >= length
    BY <2>1
  <2> QED BY <1>3, <1>6, <1>7, <2>2
<1>9. ASSUME g.kind = "range" \/ g.want > 0
      PROVE  Len(g.buffer) + Len(g.body) - g.skip >= g.task.length
  <2>1. dropped + kept = n /\ buffer + body - skip >= length
    BY <1>3, <1>7, <1>9 DEF Enough, Turn
  <2>2. buffer + kept + (body - n) - (skip - dropped) >= length
    BY <1>2, <2>1
  <2> QED BY <1>3, <1>6, <1>7, <2>2
<1>10. Enough(g)
  BY <1>8, <1>9 DEF Enough
<1> QED BY <1>10 DEF g

\* A fetch that returns has its task's bytes.
LEMMA ReturnedIsEnough ==
    ASSUME NEW f \in FetchRecord, Enough(f), Returned(f)
    PROVE  Len(f.buffer) >= f.task.length
<1>1. /\ f.skip \in Nat /\ f.want \in Nat /\ f.task.length \in Nat
      /\ f.body \in Seq(Nat) /\ f.buffer \in Seq(Nat)
  BY DEF FetchRecord, Task
<1>2. Len(f.buffer) \in Nat /\ (f.body = <<>> => Len(f.body) = 0)
  BY <1>1, LenProperties
<1> QED BY <1>1, <1>2 DEF Enough, Returned, Satisfied

\* Writing bytes where they belong takes none from a chunk that has them.
LEMMA StoredStaysStored ==
    ASSUME NEW offset \in Nat, NEW buffer \in Seq(Nat),
           \A i \in 1 .. Len(buffer): buffer[i] = offset + i - 1,
           file' = Written(offset, buffer), NEW t, Stored(t)
    PROVE  Stored(t)'
<1>1. DOMAIN file' = DOMAIN file
  BY DEF Written
<1>2. ASSUME NEW p \in DOMAIN file, file[p] = p PROVE file'[p] = p
  <2>1. file'[p] = IF p \in offset .. offset + Len(buffer) - 1
                   THEN buffer[p - offset + 1] ELSE file[p]
    BY DEF Written
  <2>2. CASE p \in offset .. offset + Len(buffer) - 1
    <3>1. Len(buffer) \in Nat
      BY LenProperties
    <3>2. p - offset + 1 \in 1 .. Len(buffer) /\ offset + (p - offset + 1) - 1 = p
      BY <2>2, <3>1
    <3> QED BY <2>1, <2>2, <3>2
  <2>3. CASE p \notin offset .. offset + Len(buffer) - 1
    BY <1>2, <2>1, <2>3
  <2> QED BY <2>2, <2>3
<1> QED BY <1>1, <1>2 DEF Stored

\* Writing a buffer that is long enough stores its chunk.
LEMMA WriteStores ==
    ASSUME SizesAgree, NEW t \in Task, NEW buffer \in Seq(Nat),
           \A i \in 1 .. Len(buffer): buffer[i] = t.offset + i - 1,
           Len(buffer) >= t.length, file' = Written(t.offset, buffer)
    PROVE  Stored(t)'
<1>1. DOMAIN file' = DOMAIN file /\ DOMAIN file = 0 .. plan.size - 1 /\ plan.size \in Nat
  BY DEF Written, SizesAgree
<1>2. t.offset \in Nat /\ t.length \in Nat /\ Len(buffer) \in Nat
  BY LenProperties DEF Task
<1>3. ASSUME NEW p \in DOMAIN file, Covers(t, p) PROVE file'[p] = p
  <2>1. p \in Nat
    BY <1>1
  <2>2. PICK o \in Nat, length \in Nat, n \in Nat: o = t.offset /\ length = t.length /\ n = Len(buffer)
    BY <1>2
  <2>3. p \in o .. o + n - 1 /\ p - o + 1 \in 1 .. n /\ o + (p - o + 1) - 1 = p
    <3>1. o =< p /\ p < o + length /\ n >= length
      BY <1>3, <2>2 DEF Covers
    <3> QED BY <2>1, <3>1
  <2>4. file'[p] = buffer[p - o + 1]
    BY <2>2, <2>3 DEF Written
  <2>5. buffer[p - o + 1] = o + (p - o + 1) - 1
    BY <2>2, <2>3
  <2> QED BY <2>3, <2>4, <2>5
<1> QED BY <1>1, <1>3 DEF Stored

\* A step that takes every task it finds waiting or in its worker's hands to
\* one of the places a task can be loses none.
LEMMA HandedOn ==
    ASSUME IInv, NoTaskLost, UNCHANGED plan, NEW w \in Workers, NEW f, Take(w, f),
           done \subseteq done', failed \subseteq failed',
           \A t \in queue: t \in queue' \cup done' \cup failed' \/ (f # Idle /\ f.task = t),
           Fetching(w) => \/ fetch[w].task \in queue' \cup done' \cup failed'
                          \/ f # Idle /\ f.task = fetch[w].task
    PROVE  NoTaskLost'
<1>1. /\ fetch' = [fetch EXCEPT ![w] = f]
      /\ fetch \in [Workers -> FetchRecord \cup {Idle}]
  BY DEF Take, IInv
<1>2. fetch'[w] = f /\ \A v \in Workers: v # w => fetch'[v] = fetch[v]
  BY <1>1
<1>3. \A t: f # Idle /\ f.task = t => InFlight(t)'
  BY <1>2 DEF InFlight, Fetching
<1>4. ASSUME NEW t \in plan.tasks
      PROVE  t \in queue' \cup done' \cup failed' \/ InFlight(t)'
  <2>1. CASE t \in queue
    BY <1>3, <2>1
  <2>2. CASE t \in done \cup failed
    BY <2>2
  <2>3. CASE InFlight(t)
    <3>1. PICK v \in Workers: Fetching(v) /\ fetch[v].task = t
      BY <2>3 DEF InFlight
    <3>2. CASE v = w
      BY <1>3, <3>1, <3>2
    <3>3. CASE v # w
      BY <1>2, <3>1, <3>3 DEF InFlight, Fetching
    <3> QED BY <3>2, <3>3
  <2> QED BY <2>1, <2>2, <2>3 DEF NoTaskLost
<1> QED BY <1>4 DEF NoTaskLost

\* A task that failed is waiting or given up, and so is every task that waited.
LEMMA RetryLosesNone ==
    ASSUME NEW t, RetryOrGiveUp(t)
    PROVE  /\ failed \subseteq failed' /\ t \in queue' \cup failed'
           /\ queue \subseteq queue' \cup failed' /\ queue' \subseteq queue \cup {t}
BY DEF RetryOrGiveUp

LEMMA CompleteStep == IInv /\ CompleteInv /\ [Next]_vars => CompleteInv'
<1> SUFFICES ASSUME IInv, CompleteInv, [Next]_vars PROVE CompleteInv'
  OBVIOUS
<1>1. CASE UNCHANGED vars
  BY <1>1 DEF CompleteInv, SizesAgree, TasksOfPlan, NoTaskLost, PiecesPlanned, TasksFitPieces,
              Stored, Fetching, InFlight, vars
<1>2. ASSUME NEW w \in Workers, WorkerStep(w) PROVE CompleteInv'
  <2>1. UNCHANGED <<kind, replica, plan>>
    BY <1>2 DEF WorkerStep, StartFetch, Refused, Receive, ReceiveRange, ReceiveStream,
                ReceiveBounded, Store, StoreFails, FetchFails
  <2>2. ASSUME DOMAIN file' = DOMAIN file,
               queue' \subseteq plan.tasks, NoTaskLost',
               NEW f, Take(w, f),
               f = Idle \/ (f.task \in plan.tasks /\ (PiecesPlanned => Enough(f))),
               PiecesPlanned => \A t \in done': Stored(t)'
        PROVE  CompleteInv'
    <3>1. SizesAgree'
      BY <2>1, <2>2 DEF CompleteInv, SizesAgree
    <3>2. fetch' = [fetch EXCEPT ![w] = f] /\ fetch \in [Workers -> FetchRecord \cup {Idle}]
      BY <2>2 DEF Take, IInv
    <3>3. fetch'[w] = f /\ \A v \in Workers: v # w => fetch'[v] = fetch[v]
      BY <3>2
    <3>4. ASSUME NEW v \in Workers, Fetching(v)'
          PROVE  fetch'[v].task \in plan.tasks /\ (PiecesPlanned => Enough(fetch'[v]))
      <4>1. CASE v = w
        BY <2>2, <3>3, <3>4, <4>1 DEF Fetching
      <4>2. CASE v # w
        BY <3>3, <3>4, <4>2 DEF Fetching, CompleteInv, TasksOfPlan
      <4> QED BY <4>1, <4>2
    <3>5. TasksOfPlan'
      BY <2>1, <2>2, <3>4 DEF TasksOfPlan
    <3>6. PiecesPlanned' = PiecesPlanned /\ (TasksFitPieces => TasksFitPieces')
      BY <2>1 DEF PiecesPlanned, TasksFitPieces
    <3>7. PiecesPlanned => \A v \in Workers: Fetching(v)' => Enough(fetch'[v])
      BY <3>4
    <3> QED BY <2>2, <3>1, <3>5, <3>6, <3>7 DEF CompleteInv
  <2>3. UNCHANGED <<file, done>> =>
          DOMAIN file' = DOMAIN file /\ (PiecesPlanned => \A t \in done': Stored(t)')
    BY DEF CompleteInv, Stored
  <2>4. SizesAgree /\ TasksOfPlan /\ NoTaskLost /\ (PiecesPlanned => TasksFitPieces)
    BY DEF CompleteInv
  <2>5. ASSUME Fetching(w)
        PROVE  /\ FetchInv(fetch[w]) /\ fetch[w] \in FetchRecord
               /\ fetch[w].task \in Task /\ fetch[w].task \in plan.tasks
               /\ fetch[w].task.offset \in Nat /\ fetch[w].buffer \in Seq(Nat)
               /\ \A i \in 1 .. Len(fetch[w].buffer):
                     fetch[w].buffer[i] = fetch[w].task.offset + i - 1
               /\ PiecesPlanned => Enough(fetch[w])
    BY <2>5 DEF IInv, FetchInv, FetchRecord, Task, BufferInPlace, CompleteInv, TasksOfPlan
  <2>6. ASSUME NEW t \in queue, NEW s \in Sources, StartFetch(w, t, s) PROVE CompleteInv'
    <3>1. /\ ~ Fetching(w) /\ queue' = queue \ {t} /\ Take(w, Opened(s, t))
          /\ UNCHANGED <<file, done, failed>> /\ t \in plan.tasks /\ t \in Task
      BY <2>4, <2>6 DEF StartFetch, TasksOfPlan, IInv
    <3>2. Opened(s, t).task = t /\ Opened(s, t) # Idle
      <4>1. Opened(s, t) \in FetchRecord
        BY <3>1, OpenedInPlace DEF FetchInv
      <4> QED BY <4>1, IdleAssumption DEF Opened
    <3>3. PiecesPlanned => Enough(Opened(s, t))
      BY <2>4, <3>1, OpenedEnough
    <3>4. NoTaskLost'
      BY <2>1, <2>4, <3>1, <3>2, HandedOn
    <3>5. queue' \subseteq plan.tasks
      BY <2>4, <3>1 DEF TasksOfPlan
    <3> QED BY <2>2, <2>3, <3>1, <3>2, <3>3, <3>4, <3>5
  <2>7. ASSUME NEW t \in queue, NEW s \in Sources, Refused(w, t, s) PROVE CompleteInv'
    <3>1. /\ ~ Fetching(w) /\ RetryOrGiveUp(t)
          /\ UNCHANGED <<fetch, file, done>> /\ t \in plan.tasks
      BY <2>4, <2>7 DEF Refused, TasksOfPlan
    <3>2. Take(w, Idle)
      BY <3>1 DEF Take, Fetching, IInv
    <3>3. NoTaskLost'
      BY <2>1, <2>4, <3>1, <3>2, HandedOn, RetryLosesNone
    <3>4. queue' \subseteq plan.tasks
      BY <2>4, <3>1, RetryLosesNone DEF TasksOfPlan
    <3> QED BY <2>2, <2>3, <3>1, <3>2, <3>3, <3>4
  <2>8. CASE Receive(w)
    <3>1. Fetching(w) /\ UNCHANGED <<queue, file, done, failed>>
      BY <2>8 DEF Receive, ReceiveRange, ReceiveStream, ReceiveBounded
    <3>2. PICK f: f = fetch[w]
      OBVIOUS
    <3>3. /\ f \in FetchRecord /\ FetchInv(f) /\ f.task \in plan.tasks
          /\ PiecesPlanned => Enough(f)
      BY <2>5, <3>1, <3>2
    <3>4. PICK n \in 1 .. Len(f.body): \E dropped, kept, want \in Nat:
            Turn(f, n, dropped, kept, want) /\ Take(w, Read(f, n, dropped, kept, want))
      BY <2>8, <3>2, ReceiveTurns
    <3>5. PICK dropped \in Nat, kept \in Nat, want \in Nat:
            Turn(f, n, dropped, kept, want) /\ Take(w, Read(f, n, dropped, kept, want))
      BY <3>4
    <3>6. PICK g: g = Read(f, n, dropped, kept, want)
      OBVIOUS
    <3>7. g.task = f.task /\ Take(w, g) /\ (PiecesPlanned => Enough(g))
      BY <3>3, <3>5, <3>6, TurnKeepsEnough DEF Read
    <3>8. g # Idle
      <4>1. FetchInv(Read(f, n, dropped, kept, want))
        BY <3>3, <3>5, ReadInPlace DEF Turn
      <4> QED BY <3>6, <4>1, IdleAssumption DEF FetchInv
    <3>9. NoTaskLost'
      BY <2>1, <2>4, <3>1, <3>2, <3>7, <3>8, HandedOn
    <3>10. queue' \subseteq plan.tasks
      BY <2>4, <3>1 DEF TasksOfPlan
    <3> QED BY <2>2, <2>3, <3>1, <3>3, <3>7, <3>9, <3>10
  <2>9. CASE Store(w)
    <3>1. /\ Fetching(w) /\ Returned(fetch[w]) /\ Take(w, Idle) /\ UNCHANGED <<queue, failed>>
          /\ done' = done \cup {fetch[w].task}
          /\ file' = Written(fetch[w].task.offset, fetch[w].buffer)
      BY <2>9 DEF Store
    <3>2. NoTaskLost'
      BY <2>1, <2>4, <3>1, HandedOn
    <3>3. DOMAIN file' = DOMAIN file
      BY <3>1 DEF Written
    <3>4. queue' \subseteq plan.tasks
      BY <2>4, <3>1 DEF TasksOfPlan
    <3>5. ASSUME PiecesPlanned, NEW t \in done' PROVE Stored(t)'
      <4>1. CASE t \in done
        <5>1. Stored(t)
          BY <3>5, <4>1 DEF CompleteInv
        <5> QED BY <2>5, <3>1, <5>1, StoredStaysStored
      <4>2. CASE t = fetch[w].task
        <5>1. Len(fetch[w].buffer) >= fetch[w].task.length
          BY <2>5, <3>1, <3>5, ReturnedIsEnough
        <5>2. PICK u \in Task, buffer \in Seq(Nat): u = fetch[w].task /\ buffer = fetch[w].buffer
          BY <2>5, <3>1
        <5>3. Stored(u)'
          BY <2>4, <2>5, <3>1, <5>1, <5>2, WriteStores
        <5> QED BY <4>2, <5>2, <5>3 DEF Stored
      <4> QED BY <3>1, <4>1, <4>2
    <3> QED BY <2>2, <3>1, <3>2, <3>3, <3>4, <3>5
  <2>10. CASE StoreFails(w)
    <3>1. /\ Fetching(w) /\ Take(w, Idle) /\ RetryOrGiveUp(fetch[w].task) /\ UNCHANGED done
          /\ \E n \in 0 .. Len(fetch[w].buffer):
                file' = Written(fetch[w].task.offset, SubSeq(fetch[w].buffer, 1, n))
      BY <2>10 DEF StoreFails
    <3>2. PICK n \in 0 .. Len(fetch[w].buffer):
            file' = Written(fetch[w].task.offset, SubSeq(fetch[w].buffer, 1, n))
      BY <3>1
    <3>3. PICK part: part = SubSeq(fetch[w].buffer, 1, n)
      OBVIOUS
    <3>4. part \in Seq(Nat) /\ \A i \in 1 .. Len(part): part[i] = fetch[w].task.offset + i - 1
      <4>1. /\ part \in Seq(Nat) /\ Len(part) = n
            /\ \A i \in 1 .. n: part[i] = fetch[w].buffer[i]
        BY <2>5, <3>1, <3>3, Prefix
      <4>2. Len(fetch[w].buffer) \in Nat
        BY <2>5, <3>1, LenProperties
      <4>3. \A i \in 1 .. n: i \in 1 .. Len(fetch[w].buffer)
        BY <4>2
      <4> QED BY <2>5, <3>1, <4>1, <4>3
    <3>5. DOMAIN file' = DOMAIN file
      BY <3>2 DEF Written
    <3>6. NoTaskLost'
      BY <2>1, <2>4, <3>1, HandedOn, RetryLosesNone
    <3>7. queue' \subseteq plan.tasks
      BY <2>4, <2>5, <3>1, RetryLosesNone DEF TasksOfPlan
    <3>8. ASSUME PiecesPlanned, NEW t \in done' PROVE Stored(t)'
      <4>1. Stored(t)
        BY <3>1, <3>8 DEF CompleteInv
      <4>2. file' = Written(fetch[w].task.offset, part)
        BY <3>2, <3>3
      <4> QED BY <2>5, <3>1, <3>4, <4>1, <4>2, StoredStaysStored
    <3> QED BY <2>2, <3>1, <3>5, <3>6, <3>7, <3>8
  <2>11. CASE FetchFails(w)
    <3>1. /\ Fetching(w) /\ Take(w, Idle) /\ RetryOrGiveUp(fetch[w].task)
          /\ UNCHANGED <<file, done>>
      BY <2>11 DEF FetchFails
    <3>2. NoTaskLost'
      BY <2>1, <2>4, <3>1, HandedOn, RetryLosesNone
    <3>3. queue' \subseteq plan.tasks
      BY <2>4, <2>5, <3>1, RetryLosesNone DEF TasksOfPlan
    <3> QED BY <2>2, <2>3, <3>1, <3>2, <3>3
  <2> QED BY <1>2, <2>6, <2>7, <2>8, <2>9, <2>10, <2>11 DEF WorkerStep
<1> QED BY <1>1, <1>2 DEF Next, Finished

\* When all is over every task is done, so every byte is stored.
LEMMA CompleteIsTheSource == IInv /\ CompleteInv => SuccessIsTheSource
<1> SUFFICES ASSUME IInv, CompleteInv, PiecesPlanned, queue = {}, failed = {},
                    \A w \in Workers: ~ Fetching(w), NEW p \in 0 .. plan.size - 1
             PROVE  file[p] = p
  BY DEF SuccessIsTheSource
<1>1. PICK t \in plan.tasks: Covers(t, p)
  BY DEF IInv, PlanInv, Tiles
<1>2. t \in done
  BY DEF CompleteInv, NoTaskLost, InFlight
<1> QED BY <1>1, <1>2 DEF CompleteInv, Stored, SizesAgree

\* With replicas of one length and a min_chunk_size of at most a piece, as
\* new_download sets it, a download that reports no failed chunk has written
\* the whole source, whatever was retried, refused, or written twice.
THEOREM SuccessIsComplete ==
    ASSUME OneLength, MinChunk =< Piece
    PROVE  Spec => []SuccessIsTheSource
<1>1. Init => CompleteInv
  BY CompleteInit
<1> QED BY <1>1, InitInv, StepInv, CompleteStep, CompleteIsTheSource, PTL DEF Spec
=============================================================================
