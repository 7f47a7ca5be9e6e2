---------------------------- MODULE ResumeBitmap ----------------------------
(***************************************************************************)
(* The bitmap of finished chunks (src/infra/disk/resume_bitmap.rs): in     *)
(* memory, updated by several workers, and saved now and then to a file    *)
(* from which a later process resumes.  A save is a file written beside    *)
(* and renamed; the workers share its temporary name and hold no lock.     *)
(* The process may die between any two steps and a new one may load.       *)
(*                                                                         *)
(* The file system, external: creating a name that exists truncates its    *)
(* file, and an open handle keeps writing to the file it was opened on     *)
(* under whatever name that file has by then.  Content is a set of bits,   *)
(* or short until it has been written (a short file fails read_exact).     *)
(* The words, magic and version of the format are left out.                *)
(***************************************************************************)
EXTENDS Naturals, FiniteSets

CONSTANTS
    Worker,
    Total,     \* the numbers of chunks a download may be cut into
    Threshold, \* persist_threshold (10)
    MaxCrashes

ASSUME BitmapAssumption ==
    /\ IsFiniteSet(Worker) /\ Worker # {}
    /\ Total \subseteq Nat \ {0} /\ Total # {}
    /\ Threshold \in Nat \ {0} /\ MaxCrashes \in Nat

VARIABLES
    up,      \* a process has the bitmap open
    total,   \* total_chunks
    bits,    \* bitmap: the chunks whose bit is set
    count,   \* completed_count
    dirty,   \* dirty_count
    wpc,     \* where each worker is in mark_completed and persist
    snap,    \* the bytes it is about to write, as a set of bits
    handle,  \* the name that the file it has open bears now
    tmp,     \* what .bitmap.tmp holds
    main,    \* what .bitmap holds
    written, \* history: << total, chunk >> of every chunk ever marked
    crashes

memory == << total, bits, count, dirty >>
workers == << wpc, snap, handle >>
files == << tmp, main >>
bitmapVars == << up, memory, workers, files, written, crashes >>

\* Contents of a name; a handle whose file bears no name is "unnamed".
Absent == [kind |-> "absent", total |-> 0, bits |-> {}]
Short == [kind |-> "short", total |-> 0, bits |-> {}]
Saved(n, b) == [kind |-> "saved", total |-> n, bits |-> b]

Goto(w, l) == wpc' = [wpc EXCEPT ![w] = l]

-----------------------------------------------------------------------------
(* new and load_internal *)

\* Mutant: the number of chunks in the header is not compared.
LoadedAnyTotal(n) == main.bits \intersect (0 .. n - 1)

\* What load_internal finds: nothing if there is no file, if it is short, or if
\* it was saved for another number of chunks.
Loaded(n) == IF main.kind = "saved" /\ main.total = n THEN main.bits ELSE {}

Open(n) ==
    /\ ~up
    /\ up' = TRUE
    /\ total' = n
    /\ bits' = Loaded(n)
    /\ count' = Cardinality(Loaded(n))
    /\ dirty' = 0
    /\ UNCHANGED << workers, files, written, crashes >>

-----------------------------------------------------------------------------
(* mark_completed *)

\* Mutant: the bit is set without looking whether it was.
MarkTwice(w, c) ==
    /\ up /\ wpc[w] = "idle"
    /\ c < total
    /\ bits' = bits \union {c}
    /\ written' = written \union {<< total, c >>}
    /\ Goto(w, "count")
    /\ UNCHANGED << up, total, count, dirty, snap, handle, files, crashes >>

\* Under the lock; a chunk out of range or already marked changes nothing.
Mark(w, c) ==
    /\ up /\ wpc[w] = "idle"
    /\ c < total /\ c \notin bits
    /\ bits' = bits \union {c}
    /\ written' = written \union {<< total, c >>}
    /\ Goto(w, "count")
    /\ UNCHANGED << up, total, count, dirty, snap, handle, files, crashes >>

\* The lock is gone; the two counters are atomics.
Count(w) ==
    /\ up /\ wpc[w] = "count"
    /\ count' = count + 1
    /\ dirty' = dirty + 1
    /\ Goto(w, IF dirty + 1 >= Threshold THEN "reset" ELSE "idle")
    /\ UNCHANGED << up, total, bits, snap, handle, files, written, crashes >>

ResetDirty(w) ==
    /\ up /\ wpc[w] = "reset"
    /\ dirty' = 0
    /\ Goto(w, "snapshot")
    /\ UNCHANGED << up, total, bits, count, snap, handle, files, written, crashes >>

-----------------------------------------------------------------------------
(* persist; force_persist and drop call it as it is *)

ForcePersist(w) ==
    /\ up /\ wpc[w] = "idle"
    /\ Goto(w, "snapshot")
    /\ UNCHANGED << up, memory, snap, handle, files, written, crashes >>

\* Under the lock, which is dropped before any IO.
Snapshot(w) ==
    /\ up /\ wpc[w] = "snapshot"
    /\ snap' = [snap EXCEPT ![w] = bits]
    /\ Goto(w, "create")
    /\ UNCHANGED << up, memory, handle, files, written, crashes >>

\* File::create truncates the file another worker may be writing.
CreateTmp(w) ==
    /\ up /\ wpc[w] = "create"
    /\ tmp' = Short
    /\ handle' = [handle EXCEPT ![w] = "tmp"]
    /\ Goto(w, "write")
    /\ UNCHANGED << up, memory, snap, main, written, crashes >>

WriteTmp(w) ==
    /\ up /\ wpc[w] = "write"
    /\ tmp' = IF handle[w] = "tmp" THEN Saved(total, snap[w]) ELSE tmp
    /\ main' = IF handle[w] = "main" THEN Saved(total, snap[w]) ELSE main
    /\ Goto(w, "rename")
    /\ UNCHANGED << up, memory, snap, handle, written, crashes >>

\* The handle is closed.
Release(w, h) ==
    /\ snap' = [snap EXCEPT ![w] = {}]
    /\ handle' = [h EXCEPT ![w] = "none"]

\* create, write_all or sync_all fails: a warning, and the save is given up.
PersistFails(w) ==
    /\ up /\ wpc[w] \in {"create", "write", "rename"}
    /\ Goto(w, "idle")
    /\ Release(w, handle)
    /\ UNCHANGED << up, memory, files, written, crashes >>

\* rename moves whatever the name stands for by now, and fails if it is gone.
Rename(w) ==
    /\ up /\ wpc[w] = "rename"
    /\ \/ /\ tmp.kind = "absent"
          /\ Release(w, handle)
          /\ UNCHANGED files
       \/ /\ tmp.kind # "absent"
          /\ main' = tmp
          /\ tmp' = Absent
          /\ Release(w, [v \in Worker |-> CASE handle[v] = "tmp" -> "main"
                                          [] handle[v] = "main" -> "unnamed"
                                          [] OTHER -> handle[v]])
    /\ Goto(w, "idle")
    /\ UNCHANGED << up, memory, written, crashes >>

\* delete: both names are removed, whoever is writing.
Delete ==
    /\ up
    /\ tmp' = Absent /\ main' = Absent
    /\ handle' = [v \in Worker |-> IF handle[v] = "none" THEN "none" ELSE "unnamed"]
    /\ UNCHANGED << up, memory, wpc, snap, written, crashes >>

\* The process ends or dies: memory and handles go, the files stay as they are
\* (drop saves first, with nobody else about: ForcePersist, then this).
Crash ==
    /\ up /\ crashes < MaxCrashes
    /\ crashes' = crashes + 1
    /\ up' = FALSE
    /\ bits' = {} /\ count' = 0 /\ dirty' = 0
    /\ wpc' = [w \in Worker |-> "idle"]
    /\ snap' = [w \in Worker |-> {}]
    /\ handle' = [w \in Worker |-> "none"]
    /\ UNCHANGED << total, files, written >>

-----------------------------------------------------------------------------
BitmapInit ==
    /\ up = FALSE
    /\ total \in Total
    /\ bits = {} /\ count = 0 /\ dirty = 0
    /\ wpc = [w \in Worker |-> "idle"]
    /\ snap = [w \in Worker |-> {}]
    /\ handle = [w \in Worker |-> "none"]
    /\ tmp = Absent /\ main = Absent
    /\ written = {} /\ crashes = 0

WorkerStep(w) ==
    \/ \E c \in 0 .. total - 1 : Mark(w, c)
    \/ Count(w) \/ ResetDirty(w) \/ ForcePersist(w)
    \/ Snapshot(w) \/ CreateTmp(w) \/ WriteTmp(w) \/ PersistFails(w) \/ Rename(w)

BitmapNext ==
    \/ \E n \in Total : Open(n)
    \/ \E w \in Worker : WorkerStep(w)
    \/ Delete \/ Crash

BitmapSpec == BitmapInit /\ [][BitmapNext]_bitmapVars

-----------------------------------------------------------------------------
(* Properties *)

\* A chunk is never skipped that was not finished, in this process or in one
\* before it for the same plan: no interleaving of saves through the shared
\* temporary file and no crash makes a bit of their own.
SkipsOnlyWritten == \A c \in bits : << total, c >> \in written

\* completed_count, from which is_all_completed answers without the lock, is the
\* number of set bits but for the workers between the bit and the counter; it
\* never says that all is done while a chunk is missing.
CountIsExact ==
    up => count + Cardinality({w \in Worker : wpc[w] = "count"}) = Cardinality(bits)
=============================================================================
