----------------------------- MODULE SourcePool -----------------------------
(***************************************************************************)
(* The source pool (src/domain/source_pool.rs): a map from source ids to   *)
(* rated sources behind one RwLock.  Each method takes the lock once, so   *)
(* each is one atomic step.  A caller keeps an Arc of a fetcher while it   *)
(* downloads, hence the record_* calls may arrive after the source's       *)
(* health has changed, or after the source was removed.                    *)
(*                                                                         *)
(* Abstracted: the score (a float computed from speeds) - best_source may  *)
(* return any selectable source; u32 counters above DeadThreshold, which   *)
(* no comparison tells apart; the clock - cooldown_until is represented by *)
(* whether it is set and still ahead of now.                               *)
(* The module has no next-state relation of its own: ChunkScheduler, which *)
(* extends it, says who calls which operation when.                        *)
(***************************************************************************)
EXTENDS Naturals, FiniteSets

CONSTANTS
    Source,              \* ids of the sources that may join the pool
    CooldownThreshold,   \* ScoringConfig.cooldown_threshold
    DeadThreshold,       \* ScoringConfig.dead_threshold
    MinSources           \* ScoringConfig.min_sources

ASSUME ThresholdsAssumption ==
    /\ CooldownThreshold \in Nat \ {0}
    /\ DeadThreshold \in Nat \ {0}
    /\ MinSources \in Nat

VARIABLE sources   \* the map of the pool: a function on the ids present

-----------------------------------------------------------------------------
SourceHealth == {"Healthy", "Degraded", "CoolingDown", "Dead"}

\* failures stands for stats.consecutive_failures, cooling for
\* "cooldown_until is Some(t) and now < t".
RatedSource == [health : SourceHealth, failures : 0 .. DeadThreshold, cooling : BOOLEAN]

Fresh == [health |-> "Healthy", failures |-> 0, cooling |-> FALSE]

\* consecutive_failures + 1; beyond DeadThreshold the value is immaterial.
Increment(n) == IF n < DeadThreshold THEN n + 1 ELSE n

Present(s) == s \in DOMAIN sources

Usable(r) == r.health \in {"Healthy", "Degraded"}

\* Mutant: a failure after the cooldown starts a new count.
AfterFailureStartsOver(r, n) ==
    CASE n < CooldownThreshold \/ (r.health = "CoolingDown" /\ ~r.cooling) ->
            [r EXCEPT !.failures = 1, !.health = "Degraded"]
      [] n >= CooldownThreshold /\ r.health # "CoolingDown" ->
            [r EXCEPT !.failures = n, !.health = "CoolingDown", !.cooling = TRUE]
      [] OTHER -> [r EXCEPT !.failures = n, !.health = "Dead"]

\* What a failure makes of a source that has now failed n times in a row.
AfterFailure(r, n) ==
    CASE n >= DeadThreshold -> [r EXCEPT !.failures = n, !.health = "Dead"]
      [] n < DeadThreshold /\ n >= CooldownThreshold ->
            [r EXCEPT !.failures = n, !.health = "CoolingDown", !.cooling = TRUE]
      [] OTHER -> [r EXCEPT !.failures = n, !.health = "Degraded"]

-----------------------------------------------------------------------------
\* The candidates of best_source, all but the choice by score.
Selectable == {s \in DOMAIN sources : Usable(sources[s]) /\ ~sources[s].cooling}

\* Mutant: every source that is not dead counts as usable.
NeedsMoreSourcesCountsCooling ==
    Cardinality({s \in DOMAIN sources : sources[s].health # "Dead"}) < MinSources

NeedsMoreSources == Cardinality({s \in DOMAIN sources : Usable(sources[s])}) < MinSources

\* add_source: adding an id again replaces its entry, statistics included.
AddSource(s) ==
    sources' = [t \in DOMAIN sources \cup {s} |-> IF t = s THEN Fresh ELSE sources[t]]

\* Mutant: a success does not reset consecutive_failures.
RecordSuccessKeepsFailures(s) ==
    sources' = IF Present(s) THEN [sources EXCEPT ![s].health = "Healthy", ![s].cooling = FALSE]
               ELSE sources

\* record_success: an unknown id is ignored.
RecordSuccess(s) ==
    sources' = IF Present(s) THEN [sources EXCEPT ![s] = Fresh] ELSE sources

\* record_failure: an unknown id is ignored.
RecordFailure(s) ==
    sources' = IF Present(s)
               THEN [sources EXCEPT ![s] = AfterFailure(@, Increment(@.failures))]
               ELSE sources

CleanupDead ==
    sources' = [s \in {t \in DOMAIN sources : sources[t].health # "Dead"} |-> sources[s]]

\* Time passes cooldown_until; no field changes but the comparison with now.
CooldownExpires(s) ==
    /\ Present(s)
    /\ sources[s].cooling
    /\ sources' = [sources EXCEPT ![s].cooling = FALSE]

-----------------------------------------------------------------------------
(* Properties *)

\* Every entry of the map is a rated source of a known id.
PoolTypeOK == DOMAIN sources \subseteq Source /\ sources \in [DOMAIN sources -> RatedSource]

\* The health of a source is a function of how often it has failed in a row,
\* whatever order successes and failures of several downloads arrived in
\* (record_success and record_failure each update both fields).
HealthFollowsFailures ==
    \A s \in DOMAIN sources :
        LET r == sources[s] IN
        /\ r.health = "Dead" <=> r.failures >= DeadThreshold
        /\ r.health = "CoolingDown" <=> r.failures \in CooldownThreshold .. DeadThreshold - 1
        /\ r.health = "Healthy" <=> r.failures = 0

\* When needs_more_sources says the pool is well stocked, best_source really
\* has min_sources sources to choose from.
EnoughSelectable == ~NeedsMoreSources => Cardinality(Selectable) >= MinSources

=============================================================================
