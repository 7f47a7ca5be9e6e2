--------------------------- MODULE ServiceResolver --------------------------
(***************************************************************************)
(* The client of the controller's service registry                         *)
(* (src/cli/p2p/service_resolver.rs): resolve answers from a cache or asks *)
(* the registry, resolve_pdc picks one of the answer, and callers report   *)
(* how the call of a service went.  Callers run side by side; a query is   *)
(* an await between reading the cache and filling it.  The class has no    *)
(* caller in src/ yet: a caller here does what the three public operations *)
(* are for, in their order.                                                *)
(*                                                                         *)
(* Abstracted: one type and capability, so one key of the cache; a listed  *)
(* service is one whose health is "healthy", the others being filtered     *)
(* out; its load, so that a pick may fall on any service of the answer.    *)
(* Time goes in ticks; a step that waits for nothing takes none.           *)
(***************************************************************************)
EXTENDS Naturals

CONSTANTS
    Service,     \* services the registry may list
    Client,      \* callers
    CacheTtl,    \* cache_ttl_secs
    Cooldown,    \* failure_cooldown_secs
    MaxFailures, \* max_consecutive_failures
    QueryTicks   \* the timeout of the HTTP client

ASSUME ResolverAssumption ==
    /\ {CacheTtl, Cooldown, MaxFailures} \subseteq Nat \ {0} /\ QueryTicks \in Nat

VARIABLES
    registry, \* the healthy services the registry lists now
    cached,   \* the services of the cache entry
    cacheAge, \* ticks since cached_at; CacheTtl if there is no entry or it is old
    count,    \* consecutive_failures, up to MaxFailures; 0 if there is no record
    quiet,    \* ticks since failed_at, up to Cooldown
    cpc,      \* where each client is
    reply,    \* what the registry answered it
    waited,   \* ticks since it sent its query
    picked    \* the service it uses

resolverCache == << cached, cacheAge >>
records == << count, quiet >>
clients == << cpc, reply, waited, picked >>
resolverVars == << registry, resolverCache, records, clients >>

Nobody == "none"

\* Mutant: the cooldown is not looked at.
SuspendedForGood(s) == count[s] >= MaxFailures

\* filter_healthy leaves out a service that failed too often until the cooldown
\* has passed; its record stays after that.
Suspended(s) == count[s] >= MaxFailures /\ quiet[s] < Cooldown

Usable(list) == {s \in list : ~Suspended(s)}

\* resolve_pdc: one of what resolve returned, or none.
Take(c, list) ==
    \/ /\ list = {}
       /\ cpc' = [cpc EXCEPT ![c] = "idle"]
       /\ UNCHANGED picked
    \/ \E s \in list :
        /\ picked' = [picked EXCEPT ![c] = s]
        /\ cpc' = [cpc EXCEPT ![c] = "use"]

-----------------------------------------------------------------------------
(* resolve *)

ResolveFromCache(c) ==
    /\ cpc[c] = "idle" /\ cacheAge < CacheTtl
    /\ Take(c, Usable(cached))
    /\ UNCHANGED << registry, resolverCache, records, reply, waited >>

QueryMaster(c) ==
    /\ cpc[c] = "idle" /\ cacheAge = CacheTtl
    /\ cpc' = [cpc EXCEPT ![c] = "query"]
    /\ UNCHANGED << registry, resolverCache, records, reply, waited, picked >>

\* External: the registry answers with what it lists at this moment.
MasterAnswers(c) ==
    /\ cpc[c] = "query"
    /\ reply' = [reply EXCEPT ![c] = registry]
    /\ cpc' = [cpc EXCEPT ![c] = "answered"]
    /\ UNCHANGED << registry, resolverCache, records, waited, picked >>

\* No answer in time, an error status or a body that is none: the caller gets
\* the error, the cache is left as it is.
QueryFails(c) ==
    /\ cpc[c] \in {"query", "answered"}
    /\ cpc' = [cpc EXCEPT ![c] = "idle"]
    /\ reply' = [reply EXCEPT ![c] = {}]
    /\ waited' = [waited EXCEPT ![c] = 0]
    /\ UNCHANGED << registry, resolverCache, records, picked >>

\* The answer replaces the entry, also one that another query put there while
\* it was under way; it is filtered with the records of this moment.
TakeAnswer(c) ==
    /\ cpc[c] = "answered"
    /\ cached' = reply[c] /\ cacheAge' = 0
    /\ Take(c, Usable(reply[c]))
    /\ reply' = [reply EXCEPT ![c] = {}]
    /\ waited' = [waited EXCEPT ![c] = 0]
    /\ UNCHANGED << registry, records >>

ClearCache ==
    /\ cacheAge < CacheTtl
    /\ cached' = {} /\ cacheAge' = CacheTtl
    /\ UNCHANGED << registry, records, clients >>

-----------------------------------------------------------------------------
(* record_success and record_failure, after the call of the service *)

Finish(c) ==
    /\ cpc' = [cpc EXCEPT ![c] = "idle"]
    /\ picked' = [picked EXCEPT ![c] = Nobody]
    /\ UNCHANGED << registry, resolverCache, reply, waited >>

RecordSuccess(c) ==
    /\ cpc[c] = "use"
    /\ count' = [count EXCEPT ![picked[c]] = 0]
    /\ quiet' = [quiet EXCEPT ![picked[c]] = Cooldown]
    /\ Finish(c)

\* After a suspension the count is where it was: one failure is enough for the
\* next.
RecordFailure(c) ==
    /\ cpc[c] = "use"
    /\ count' = [count EXCEPT ![picked[c]] = IF @ < MaxFailures THEN @ + 1 ELSE @]
    /\ quiet' = [quiet EXCEPT ![picked[c]] = 0]
    /\ Finish(c)

-----------------------------------------------------------------------------
(* The surroundings *)

RegistryChanges(list) ==
    /\ list # registry
    /\ registry' = list
    /\ UNCHANGED << resolverCache, records, clients >>

\* A query that has waited its time out fails before more time passes, and what
\* waits for nothing is done.
ResolverTick ==
    /\ \A c \in Client : cpc[c] \in {"query", "answered"} => waited[c] < QueryTicks
    /\ cacheAge' = IF cacheAge < CacheTtl THEN cacheAge + 1 ELSE cacheAge
    /\ cached' = IF cacheAge' = CacheTtl THEN {} ELSE cached
    /\ quiet' = [s \in Service |-> IF quiet[s] < Cooldown THEN quiet[s] + 1 ELSE quiet[s]]
    /\ waited' = [c \in Client |->
                    IF cpc[c] \in {"query", "answered"} THEN waited[c] + 1 ELSE waited[c]]
    /\ UNCHANGED << registry, count, cpc, reply, picked >>

ResolverInit ==
    /\ registry \in SUBSET Service
    /\ cached = {} /\ cacheAge = CacheTtl
    /\ count = [s \in Service |-> 0] /\ quiet = [s \in Service |-> Cooldown]
    /\ cpc = [c \in Client |-> "idle"]
    /\ reply = [c \in Client |-> {}]
    /\ waited = [c \in Client |-> 0]
    /\ picked = [c \in Client |-> Nobody]

ClientStep(c) ==
    \/ ResolveFromCache(c) \/ QueryMaster(c) \/ QueryFails(c) \/ TakeAnswer(c)
    \/ RecordSuccess(c) \/ RecordFailure(c)

ResolverNext ==
    \/ \E c \in Client : ClientStep(c) \/ MasterAnswers(c)
    \/ ClearCache \/ ResolverTick
    \/ \E list \in SUBSET Service : RegistryChanges(list)

ResolverSpec == ResolverInit /\ [][ResolverNext]_resolverVars

-----------------------------------------------------------------------------
(* Properties *)

\* No suspension lasts: callers that picked the service before may fail later
\* and prolong it, but nobody picks it again, from the cache or from an answer
\* that was under way, so that the cooldown passes.
SuspensionEnds == \A s \in Service : Suspended(s) ~> ~Suspended(s)
=============================================================================
