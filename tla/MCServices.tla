----------------------------- MODULE MCServices -----------------------------
(***************************************************************************)
(* The components with a liveness property that share nothing with one     *)
(* another in this code, side by side for TLC: a behaviour belongs to one  *)
(* of them, and the others stay as they began.                             *)
(***************************************************************************)
EXTENDS DownloadQueue, ConnectionController, P2pDownload, ServiceResolver

CONSTANTS a, b, f1, r1, r2, d1, s1, s2, k1, k2

TorrentOfEach == [d \in {d1} |-> a]

VARIABLE part

vars == << part, queueVars, controllerVars, p2pVars, resolverVars >>

Idle(p) ==
    /\ p # "queue" => UNCHANGED queueVars
    /\ p # "controller" => UNCHANGED controllerVars
    /\ p # "p2p" => UNCHANGED p2pVars
    /\ p # "resolver" => UNCHANGED resolverVars

\* A component that does not move begins in one way only.
Pinned ==
    /\ part # "queue" => asks = [f \in {f1} |-> a]
    /\ part # "p2p" => session = [s \in {a} |-> Absent]
    /\ part # "resolver" => registry = {}

Init ==
    /\ part \in {"queue", "controller", "p2p", "resolver"}
    /\ QueueInit /\ ControllerInit /\ P2pInit /\ ResolverInit
    /\ Pinned

Only(p) == part = p /\ UNCHANGED part /\ Idle(p)

Next ==
    \/ Only("queue") /\ QueueNext
    \/ Only("controller") /\ ControllerNext
    \/ Only("p2p") /\ P2pNext
    \/ Only("resolver") /\ ResolverNext

\* The queue: the runtime polls what is ready, downloads end and time passes.
QueueFairness ==
    /\ \A r \in Runner : WF_queueVars(part = "queue" /\ RunnerStep(r))
    /\ WF_queueVars(part = "queue" /\ Backoff)

\* The controller: time passes, and the loop times out and adjusts if no sample
\* comes.
ControllerFairness ==
    /\ WF_controllerVars(part = "controller" /\ Adjust)
    /\ WF_controllerVars(part = "controller" /\ AdjustIntervalPasses)
    /\ WF_controllerVars(part = "controller" /\ ProbeIntervalPasses)

\* A P2P download: the runtime polls what is ready, and tokio's bounded channel
\* lets those who wait for room have it in turn, hence strong fairness of the
\* two that wait for the WebSocket client.  Nothing is assumed of librqbit (the
\* add may never be answered, nor metadata or pieces arrive), the clock or the
\* connection.
P2pFairness ==
    \A d \in Attempt :
        /\ WF_p2pVars(part = "p2p" /\ LoopStep(d))
        /\ WF_p2pVars(part = "p2p" /\ Watch(d))
        /\ WF_p2pVars(part = "p2p" /\ CarrierStep(d))
        /\ SF_p2pVars(part = "p2p" /\ ReportEnd(d))
        /\ SF_p2pVars(part = "p2p" /\ GiveFrame(d))

\* The resolver: time passes, and the timeout ends a query without an answer.
ResolverFairness ==
    /\ WF_resolverVars(part = "resolver" /\ ResolverTick)
    /\ \A c \in Client :
        WF_resolverVars(part = "resolver" /\ (QueryFails(c) \/ TakeAnswer(c)))

FairSpec ==
    /\ Init /\ [][Next]_vars
    /\ QueueFairness /\ ControllerFairness /\ P2pFairness /\ ResolverFairness
=============================================================================
