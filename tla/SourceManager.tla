--------------------------- MODULE SourceManager ---------------------------
(***************************************************************************)
(* The source manager of the legacy strategy                               *)
(* (src/service/source_manager.rs): weights and circuit breakers of the    *)
(* sources of a download, behind one lock that every method takes once.    *)
(* A chunk is reported on long after its source was picked, so reports     *)
(* arrive for sources whose circuit has opened or closed meanwhile.        *)
(*                                                                         *)
(* Abstracted: the smoothed speed, which is read only as the new weight of *)
(* a source, to any value it can have; the random choice by weight, to any *)
(* candidate; fail_count beyond the threshold, which no comparison tells   *)
(* apart; success_count.                                                   *)
(***************************************************************************)
EXTENDS Naturals, FiniteSets

CONSTANTS
    Origin,        \* identifiers of sources
    OpensAt,       \* circuit_breaker_threshold (5)
    MaxWeight,     \* bound on weight, in model speeds
    MaxUnderWay    \* bound on the chunks under way

ASSUME SourceManagerAssumption ==
    OpensAt \in Nat \ {0} /\ MaxWeight \in Nat \ {0} /\ MaxUnderWay \in Nat

VARIABLES
    rated,    \* health: weight, fails (fail_count), open (circuit_open)
    underWay, \* how many chunks are under way from each source
    inRow     \* history: failures of a source in a row, since the last success
              \* or since its circuit was last closed

sourceManagerVars == << rated, underWay, inRow >>

\* register_source starts with weight 1, a report on an unknown source with
\* SourceHealth::default.
Registered == [weight |-> 1, fails |-> 0, open |-> FALSE]
Defaulted == [weight |-> 0, fails |-> 0, open |-> FALSE]

Known(s) == s \in DOMAIN rated
Entry(s) == IF Known(s) THEN rated[s] ELSE Defaulted
Rate(s, r) == rated' = [o \in DOMAIN rated \union {s} |-> IF o = s THEN r ELSE rated[o]]

Candidates(given) == {s \in given : Known(s) => (~rated[s].open /\ rated[s].weight > 0)}

-----------------------------------------------------------------------------
RegisterSource(s) ==
    /\ ~Known(s)
    /\ Rate(s, Registered)
    /\ UNCHANGED << underWay, inRow >>

\* pick_source answers some candidate, if there is one.
PickSource(given) ==
    /\ \E s \in Candidates(given) :
        /\ underWay[s] < MaxUnderWay
        /\ underWay' = [underWay EXCEPT ![s] = @ + 1]
    /\ UNCHANGED << rated, inRow >>

\* on_chunk_complete: only an open circuit has its count reset.
ChunkCompletes(s) ==
    /\ underWay[s] > 0
    /\ \E w \in 1 .. MaxWeight :
        Rate(s, IF Entry(s).open THEN [weight |-> w, fails |-> 0, open |-> FALSE]
                ELSE [Entry(s) EXCEPT !.weight = w])
    /\ underWay' = [underWay EXCEPT ![s] = @ - 1]
    /\ inRow' = [inRow EXCEPT ![s] = 0]

Halved(w) == IF w < 2 THEN 1 ELSE w \div 2

OneMore(n) == IF n < OpensAt THEN n + 1 ELSE n

AfterChunkFailure(r) ==
    LET n == OneMore(r.fails)
    IN  IF n >= OpensAt THEN [weight |-> 0, fails |-> n, open |-> TRUE]
        ELSE [r EXCEPT !.fails = n, !.weight = Halved(@)]

\* on_chunk_fail
ChunkFails(s) ==
    /\ underWay[s] > 0
    /\ Rate(s, AfterChunkFailure(Entry(s)))
    /\ underWay' = [underWay EXCEPT ![s] = @ - 1]
    /\ inRow' = [inRow EXCEPT ![s] = OneMore(@)]

\* Mutant: the circuits close, and the weight stays 0.
TickLeavesWeight ==
    /\ rated' = [s \in DOMAIN rated |->
                    IF rated[s].open THEN [rated[s] EXCEPT !.fails = 0, !.open = FALSE] ELSE rated[s]]
    /\ inRow' = [s \in Origin |-> IF Entry(s).open THEN 0 ELSE inRow[s]]
    /\ UNCHANGED underWay

\* tick_circuit_breakers
TickBreakers ==
    /\ rated' = [s \in DOMAIN rated |-> IF rated[s].open THEN Registered ELSE rated[s]]
    /\ inRow' = [s \in Origin |-> IF Entry(s).open THEN 0 ELSE inRow[s]]
    /\ UNCHANGED underWay

SourceManagerInit == rated = << >> /\ underWay = [s \in Origin |-> 0] /\ inRow = [s \in Origin |-> 0]

SourceManagerNext ==
    \/ \E s \in Origin : RegisterSource(s) \/ ChunkCompletes(s) \/ ChunkFails(s)
    \/ \E given \in SUBSET Origin : PickSource(given)
    \/ TickBreakers

SourceManagerSpec == SourceManagerInit /\ [][SourceManagerNext]_sourceManagerVars

-----------------------------------------------------------------------------
(* Properties *)

\* However late the reports on its chunks come, a source that has failed
\* circuit_breaker_threshold times in a row is left out by pick_source; and one
\* that is left out has its circuit open, so that tick_circuit_breakers brings
\* it back: none is without a weight while its circuit is closed.
FailingSourceIsLeftOut ==
    \A s \in Origin :
        /\ inRow[s] >= OpensAt => s \notin Candidates(Origin)
        /\ s \notin Candidates(Origin) => rated[s].open
=============================================================================
