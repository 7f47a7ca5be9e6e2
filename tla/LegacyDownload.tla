---------------------------- MODULE LegacyDownload --------------------------
(***************************************************************************)
(* The older way to download: DownloadScheduler (src/service/scheduler.rs) *)
(* lets MirrorBus (src/service/mirror_bus.rs) find and verify mirrors and  *)
(* hands them to MultiSourceChunkedStrategy                                *)
(* (src/service/strategy/multi_source_chunked.rs).  What the strategy      *)
(* calls on the chunk scheduler are stubs by now                           *)
(* (src/service/chunk_scheduler.rs): next_chunk is None and                *)
(* is_all_completed is false, always, and the token is the scheduler's     *)
(* own.  So the workers turn for ever without a chunk, and nothing that    *)
(* comes after the waiting loop is ever reached; it is left out.           *)
(*                                                                         *)
(* Sources are model values.  The copy that MirrorBus makes of a source    *)
(* which is not of the HTTP kind is an HTTP source made of its name:       *)
(* Impostor stands for it.  Of a progress frame the number of connections  *)
(* is kept; its bytes are 0.                                               *)
(***************************************************************************)
EXTENDS Naturals, Sequences, SequencesExt, FiniteSets

CONSTANTS
    Original, Impostor,
    Mirror,          \* what discoverers may find
    MaxDiscoverers,  \* bound on the registered discoverers
    MaxFound,        \* bound on the mirrors one of them returns
    Workers,         \* initial_workers
    ReportSlots      \* capacity of the progress channel

ASSUME LegacyAssumption ==
    /\ Original # Impostor /\ Original \in Mirror /\ Impostor \notin Mirror
    /\ MaxDiscoverers \in Nat /\ MaxFound \in Nat
    /\ Workers \in Nat /\ ReportSlots \in Nat \ {0}

VARIABLES
    lpc,        \* where download is
    http,       \* the original source is of the HTTP kind
    registered, \* the discoverers on the bus
    toAsk,      \* how many of them are still to be asked
    seen,       \* identifiers found so far
    found,      \* all_sources, not verified yet
    verified,   \* verified; then what the strategy is given
    checkedOut, \* history: the sources whose probe told the expected size
    running,    \* active_workers
    channel     \* the progress channel

mirrors == << toAsk, seen, found, verified, checkedOut >>
strategyState == << running, channel >>
legacyVars == << lpc, http, registered, mirrors, strategyState >>

Lists == UNION {[1 .. n -> Mirror] : n \in 0 .. MaxFound}

Copy == IF http THEN Original ELSE Impostor

-----------------------------------------------------------------------------
(* DownloadScheduler::download *)

\* Without the option the source itself is the only one, not verified again.
ProbeOriginal(discovery) ==
    /\ lpc = "probe"
    /\ IF discovery
       THEN /\ lpc' = "collect" /\ toAsk' = registered
            /\ seen' = {Original} /\ found' = << Copy >>
            /\ UNCHANGED << verified, checkedOut >>
       ELSE /\ lpc' = "open" /\ verified' = << Original >>
            /\ checkedOut' = {Original}
            /\ UNCHANGED << toAsk, seen, found >>
    /\ UNCHANGED << http, registered, strategyState >>

\* The probe fails, or finds a size of 0.
ProbeFails ==
    /\ lpc = "probe"
    /\ lpc' = "failed"
    /\ UNCHANGED << http, registered, mirrors, strategyState >>

-----------------------------------------------------------------------------
(* MirrorBus *)

\* register waits while discover holds the lock over its awaits.
Register ==
    /\ lpc # "collect" /\ registered < MaxDiscoverers
    /\ registered' = registered + 1
    /\ UNCHANGED << lpc, http, mirrors, strategyState >>

\* What seen.insert lets through of a discoverer's list, in order.
New(list, known) ==
    LET add(kept, m) == IF m \in known \union ToSet(kept) THEN kept ELSE Append(kept, m)
    IN  FoldLeft(add, << >>, list)

\* Mutant: a list is not compared with what is there.
CollectAll(list) ==
    /\ lpc = "collect" /\ toAsk > 0
    /\ toAsk' = toAsk - 1
    /\ found' = found \o list
    /\ seen' = seen \union ToSet(list)
    /\ UNCHANGED << lpc, http, registered, verified, checkedOut, strategyState >>

\* A discoverer of another protocol, or one that fails, adds nothing.
Collect(list) ==
    /\ lpc = "collect" /\ toAsk > 0
    /\ toAsk' = toAsk - 1
    /\ found' = found \o New(list, seen)
    /\ seen' = seen \union ToSet(list)
    /\ UNCHANGED << lpc, http, registered, verified, checkedOut, strategyState >>

Collected ==
    /\ lpc = "collect" /\ toAsk = 0
    /\ lpc' = "verify"
    /\ UNCHANGED << http, registered, mirrors, strategyState >>

\* verify_source, one after the other; the original is probed once more.
VerifyMirror(outcome) ==
    /\ lpc = "verify" /\ found # << >>
    /\ found' = Tail(found)
    /\ IF outcome = "expected size"
       THEN /\ verified' = Append(verified, Head(found))
            /\ checkedOut' = checkedOut \union {Head(found)}
       ELSE UNCHANGED << verified, checkedOut >>
    /\ UNCHANGED << lpc, http, registered, toAsk, seen, strategyState >>

\* If none is left the copy of the original is used all the same.
Verified ==
    /\ lpc = "verify" /\ found = << >>
    /\ verified' = IF verified = << >> THEN << Copy >> ELSE verified
    /\ lpc' = "open"
    /\ UNCHANGED << http, registered, toAsk, seen, found, checkedOut, strategyState >>

-----------------------------------------------------------------------------
(* MultiSourceChunkedStrategy::execute *)

\* The part file is opened, unless nothing is to be written.
OpenPart(ok) ==
    /\ lpc = "open"
    /\ lpc' = IF ok THEN "report" ELSE "failed"
    /\ UNCHANGED << http, registered, mirrors, strategyState >>

\* force_report waits for room.  That preallocating failed is only printed.
FirstReport ==
    /\ lpc = "report" /\ Len(channel) < ReportSlots
    /\ channel' = Append(channel, 0)
    /\ lpc' = "loop"
    /\ UNCHANGED << http, registered, mirrors, running >>

\* ActiveWorkerGuard counts it; from then on it sleeps and asks for a chunk.
WorkerStarts ==
    /\ lpc = "loop" /\ running < Workers
    /\ running' = running + 1
    /\ UNCHANGED << lpc, http, registered, mirrors, channel >>

\* The reporting task, every 500 ms: a frame there is no room for is dropped.
Report ==
    /\ lpc = "loop" /\ Len(channel) < ReportSlots
    /\ channel' = Append(channel, running)
    /\ UNCHANGED << lpc, http, registered, mirrors, running >>

TakeReport ==
    /\ channel # << >>
    /\ channel' = Tail(channel)
    /\ UNCHANGED << lpc, http, registered, mirrors, running >>

-----------------------------------------------------------------------------
LegacyInit ==
    /\ lpc = "probe" /\ http \in BOOLEAN /\ registered = 0
    /\ toAsk = 0 /\ seen = {} /\ found = << >> /\ verified = << >> /\ checkedOut = {}
    /\ running = 0 /\ channel = << >>

LegacyNext ==
    \/ \E discovery \in BOOLEAN : ProbeOriginal(discovery)
    \/ ProbeFails \/ Register
    \/ \E list \in Lists : Collect(list)
    \/ Collected
    \/ \E outcome \in {"expected size", "another size", "failed"} : VerifyMirror(outcome)
    \/ Verified
    \/ \E ok \in BOOLEAN : OpenPart(ok)
    \/ FirstReport \/ WorkerStarts \/ Report \/ TakeReport

LegacySpec == LegacyInit /\ [][LegacyNext]_legacyVars

-----------------------------------------------------------------------------
(* Properties *)

\* The strategy is never without a source, has none twice however many
\* discoverers found it, and none whose probe failed or told another size, but
\* for the original when there is no other.
StrategyGetsVerified ==
    lpc \in {"open", "report", "loop"} =>
        /\ verified # << >>
        /\ Cardinality(ToSet(verified)) = Len(verified)
        /\ ToSet(verified) \subseteq checkedOut \/ verified = << Copy >>
=============================================================================
