---------------------------- MODULE PeerDiscovery ---------------------------
(***************************************************************************)
(* Peer discovery (src/cli/p2p/discovery_backend.rs): the hybrid back end  *)
(* asks the PDC service for its capabilities and, if it has any, for peers *)
(* beside the built-in back end, which finds none yet.  The capabilities   *)
(* are cached twice, by the PDC back end and by the hybrid one on top of   *)
(* it, each with a time to live of its own.  Also the tracker list of      *)
(* BtManager (src/cli/p2p/manager.rs), which a background task refreshes.  *)
(*                                                                         *)
(* BtManager::new makes a hybrid back end without a PDC, and               *)
(* set_pdc_backend drops the one it builds; this is the hybrid back end as *)
(* HybridBackend::new(Some(pdc), ..) makes it, called from several tasks.  *)
(*                                                                         *)
(* Abstracted: a list of peers is the set of << address, priority >> it    *)
(* has; the order of the merged list, its statistics and durations.  Time  *)
(* goes in ticks; a step that waits for nothing takes none.                *)
(***************************************************************************)
EXTENDS Naturals

CONSTANTS
    Caller,     \* tasks that ask the hybrid back end
    Capability, \* capabilities a PDC may have
    PeerAddr, Priority,
    PdcTtl,     \* how long the PDC back end keeps its copy (60 s)
    HybridTtl,  \* how long the hybrid back end keeps its copy (30 s)
    HttpTicks   \* the timeout of the HTTP client (10 s)

ASSUME DiscoveryAssumption ==
    /\ {PdcTtl, HybridTtl} \subseteq Nat \ {0} /\ HttpTicks \in Nat /\ Priority \subseteq Nat

VARIABLES
    pdc,      \* the capabilities the PDC has now; it may answer or not
    pdcCopy,  \* capabilities_cache: content, age, and ticks since the PDC said so
    copy,     \* pdc_capabilities: the same, but for the age
    checked,  \* ticks since last_health_check
    dpcs,     \* where each caller is
    heard,    \* what it has in its hands: capabilities and their age
    asked,    \* ticks since it sent its request
    peers,    \* what its discovery returned
    trackers  \* the tracker list: where its lines are from

caches == << pdcCopy, copy, checked >>
callers == << dpcs, heard, asked, peers >>
discoveryVars == << pdc, caches, callers, trackers >>

NoNews == [caps |-> {}, said |-> 0]

\* Ages beyond this are not told apart.
Oldest == PdcTtl + HybridTtl + HttpTicks

DGoto(c, l) == dpcs' = [dpcs EXCEPT ![c] = l]
Hear(c, h) == heard' = [heard EXCEPT ![c] = h]

-----------------------------------------------------------------------------
(* HybridBackend::pdc_capabilities *)

\* Mutant: a hit counts as a health check.
HitRenews(c) ==
    /\ dpcs[c] = "idle" /\ checked < HybridTtl
    /\ Hear(c, copy)
    /\ checked' = 0
    /\ DGoto(c, "known")
    /\ UNCHANGED << pdc, pdcCopy, copy, asked, peers, trackers >>

HitHybrid(c) ==
    /\ dpcs[c] = "idle" /\ checked < HybridTtl
    /\ Hear(c, copy)
    /\ DGoto(c, "known")
    /\ UNCHANGED << pdc, caches, asked, peers, trackers >>

\* PdcBackend::fetch_capabilities: its own copy, or a request.
HitPdc(c) ==
    /\ dpcs[c] = "idle" /\ checked = HybridTtl
    /\ pdcCopy.age < PdcTtl
    /\ Hear(c, [caps |-> pdcCopy.caps, said |-> pdcCopy.said])
    /\ DGoto(c, "keep")
    /\ UNCHANGED << pdc, caches, asked, peers, trackers >>

AskPdc(c) ==
    /\ dpcs[c] = "idle" /\ checked = HybridTtl
    /\ pdcCopy.age = PdcTtl
    /\ DGoto(c, "request")
    /\ UNCHANGED << pdc, caches, heard, asked, peers, trackers >>

\* External: the PDC answers with what it has at this moment.
PdcAnswers(c) ==
    /\ dpcs[c] = "request"
    /\ Hear(c, [caps |-> pdc, said |-> 0])
    /\ DGoto(c, "answered")
    /\ UNCHANGED << pdc, caches, asked, peers, trackers >>

\* unwrap_or_default: an error, a status, a body that is none, no answer in
\* time.  NoNews is cached, and no capability is known.
PdcFails(c) ==
    /\ dpcs[c] \in {"request", "answered"}
    /\ Hear(c, NoNews)
    /\ asked' = [asked EXCEPT ![c] = 0]
    /\ DGoto(c, "known")
    /\ UNCHANGED << pdc, caches, peers, trackers >>

\* Also an empty list is cached.
KeepPdc(c) ==
    /\ dpcs[c] = "answered"
    /\ pdcCopy' = [caps |-> heard[c].caps, said |-> heard[c].said, age |-> 0]
    /\ asked' = [asked EXCEPT ![c] = 0]
    /\ DGoto(c, "keep")
    /\ UNCHANGED << pdc, copy, checked, heard, peers, trackers >>

\* An empty list is not; of another the content is put in first, the time next.
KeepHybrid(c) ==
    /\ dpcs[c] = "keep"
    /\ IF heard[c].caps = {}
       THEN DGoto(c, "known") /\ UNCHANGED copy
       ELSE DGoto(c, "check") /\ copy' = heard[c]
    /\ UNCHANGED << pdc, pdcCopy, checked, heard, asked, peers, trackers >>

KeepCheck(c) ==
    /\ dpcs[c] = "check"
    /\ checked' = 0
    /\ DGoto(c, "known")
    /\ UNCHANGED << pdc, pdcCopy, copy, heard, asked, peers, trackers >>

-----------------------------------------------------------------------------
(* capabilities and discover_peers *)

\* capabilities and pdc_has_capability answer from what was heard.
AnswerCapabilities(c) ==
    /\ dpcs[c] = "known"
    /\ DGoto(c, "idle")
    /\ Hear(c, NoNews)
    /\ UNCHANGED << pdc, caches, asked, peers, trackers >>

\* merge_results: of the entries of an address the one of the highest priority.
Merged(found) == {p \in found : \A q \in found : q[1] = p[1] => q[2] <= p[2]}

\* Without a PDC the built-in back end alone, whose list is empty.
DiscoverBuiltin(c) ==
    /\ dpcs[c] = "known" /\ heard[c].caps = {}
    /\ peers' = [peers EXCEPT ![c] = {}]
    /\ DGoto(c, "idle")
    /\ UNCHANGED << pdc, caches, heard, asked, trackers >>

\* join!: a PDC that fails by now counts as one that found nothing.
DiscoverBoth(c, found) ==
    /\ dpcs[c] = "known" /\ heard[c].caps # {}
    /\ peers' = [peers EXCEPT ![c] = Merged(found)]
    /\ DGoto(c, "idle")
    /\ Hear(c, NoNews)
    /\ UNCHANGED << pdc, caches, asked, trackers >>

-----------------------------------------------------------------------------
(* BtManager's tracker list *)

\* refresh_trackers_once, at once and then every four hours: the lines of what
\* the server sends replace the list unless there are none.  The status of the
\* answer is not looked at, so an error page's lines do as well.
RefreshTrackers(lines) ==
    /\ trackers' = lines
    /\ UNCHANGED << pdc, caches, callers >>

-----------------------------------------------------------------------------
PdcChanges(caps) ==
    /\ pdc # caps
    /\ pdc' = caps
    /\ UNCHANGED << caches, callers, trackers >>

Older(n, most) == IF n < most THEN n + 1 ELSE n
Waiting(c) == dpcs[c] \in {"request", "answered"}

DiscoveryTick ==
    /\ \A c \in Caller : dpcs[c] = "idle" \/ (Waiting(c) /\ asked[c] < HttpTicks)
    /\ asked' = [c \in Caller |-> IF Waiting(c) THEN asked[c] + 1 ELSE asked[c]]
    /\ heard' = [c \in Caller |-> IF dpcs[c] = "answered"
                                  THEN [heard[c] EXCEPT !.said = @ + 1] ELSE heard[c]]
    /\ pdcCopy' = [pdcCopy EXCEPT !.age = Older(@, PdcTtl), !.said = Older(@, Oldest)]
    /\ copy' = [copy EXCEPT !.said = Older(@, Oldest)]
    /\ checked' = Older(checked, HybridTtl)
    /\ UNCHANGED << pdc, dpcs, peers, trackers >>

DiscoveryInit ==
    /\ pdc \in SUBSET Capability
    /\ pdcCopy = [caps |-> {}, age |-> PdcTtl, said |-> 0]
    /\ copy = NoNews /\ checked = HybridTtl
    /\ dpcs = [c \in Caller |-> "idle"]
    /\ heard = [c \in Caller |-> NoNews]
    /\ asked = [c \in Caller |-> 0]
    /\ peers = [c \in Caller |-> {}]
    /\ trackers = "default"

DiscoveryNext ==
    \/ \E c \in Caller :
        \/ HitHybrid(c) \/ HitPdc(c) \/ AskPdc(c) \/ PdcAnswers(c) \/ PdcFails(c)
        \/ KeepPdc(c) \/ KeepHybrid(c) \/ KeepCheck(c)
        \/ AnswerCapabilities(c) \/ DiscoverBuiltin(c)
        \/ \E found \in SUBSET (PeerAddr \X Priority) : DiscoverBoth(c, found)
    \/ \E lines \in {"listed", "error page"} : RefreshTrackers(lines)
    \/ \E caps \in SUBSET Capability : PdcChanges(caps)
    \/ DiscoveryTick

DiscoverySpec == DiscoveryInit /\ [][DiscoveryNext]_discoveryVars

-----------------------------------------------------------------------------
(* Properties *)

\* Two caches, one filled from the other, and answers that arrive late add up,
\* but to no more than their times to live and the timeout: nobody acts on
\* capabilities the PDC has not had for longer than that.
StalenessBounded ==
    \A c \in Caller : dpcs[c] = "known" /\ heard[c].caps # {} =>
        heard[c].said <= HttpTicks + (PdcTtl - 1) + (HybridTtl - 1)
=============================================================================
