------------------------------ MODULE Download ------------------------------
(***************************************************************************)
(* What ChunkScheduler::execute promises its caller, chunks and sources    *)
(* left out: the file is cut into chunks once; each chunk is settled at    *)
(* most once, as succeeded or as failed for good; the verdict is given     *)
(* once, counts what was settled, and leaves no chunk pending unless the   *)
(* caller has cancelled.                                                   *)
(***************************************************************************)
EXTENDS Naturals, FiniteSets

CONSTANT MaxChunks     \* bound on the number of chunks of one file

VARIABLES
    outcome,   \* what became of each chunk, a function on 1..total
    stopped,   \* the cancellation token
    verdict    \* what execute returned

Outcome == {"pending", "succeeded", "failed"}

\* No file has been cut into chunks yet.
NoChunks == [c \in {} |-> "pending"]

None == [given |-> FALSE, success |-> FALSE, succeeded |-> 0, failed |-> 0]

Error == [given |-> TRUE, success |-> FALSE, succeeded |-> 0, failed |-> 0]

ChunksThat(o) == {c \in DOMAIN outcome : outcome[c] = o}

-----------------------------------------------------------------------------
Init ==
    /\ outcome = NoChunks
    /\ stopped = FALSE
    /\ verdict = None

\* The file size is known: cut the file into n chunks.
Plan(n) ==
    /\ verdict = None
    /\ DOMAIN outcome = {}
    /\ outcome' = [c \in 1 .. n |-> "pending"]
    /\ UNCHANGED << stopped, verdict >>

\* No source, no size: execute returns an error, and nothing was settled.
Refuse ==
    /\ verdict = None
    /\ DOMAIN outcome = {}
    /\ verdict' = Error
    /\ UNCHANGED << outcome, stopped >>

Settle(c, o) ==
    /\ verdict = None
    /\ outcome[c] = "pending"
    /\ outcome' = [outcome EXCEPT ![c] = o]
    /\ UNCHANGED << stopped, verdict >>

Stop ==
    /\ stopped' = TRUE
    /\ UNCHANGED << outcome, verdict >>

\* execute sets the token on its way out, whether or not the caller had.
Deliver ==
    /\ verdict = None
    /\ DOMAIN outcome # {}
    /\ stopped \/ ChunksThat("pending") = {}
    /\ verdict' = [given |-> TRUE,
                   success |-> ChunksThat("failed") = {},
                   succeeded |-> Cardinality(ChunksThat("succeeded")),
                   failed |-> Cardinality(ChunksThat("failed"))]
    /\ stopped' = TRUE
    /\ UNCHANGED outcome

Next ==
    \/ \E n \in 1 .. MaxChunks : Plan(n)
    \/ \E c \in DOMAIN outcome, o \in {"succeeded", "failed"} : Settle(c, o)
    \/ Refuse
    \/ Stop
    \/ Deliver

vars == << outcome, stopped, verdict >>

Spec == Init /\ [][Next]_vars

=============================================================================
