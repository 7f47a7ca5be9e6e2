-------------------------- MODULE ProgressReporter --------------------------
(***************************************************************************)
(* What runs beside the workers of one download: the progress reporter of  *)
(* ChunkScheduler (src/service/chunk_scheduler.rs), the task that forwards *)
(* its frames to the controller (src/cli/new_download.rs), the locks of    *)
(* the AdaptiveController it feeds (src/domain/adaptive.rs), and other     *)
(* users of that controller, to which adaptive_controller() hands it out.  *)
(*                                                                         *)
(* The workers are reduced to the bytes they add (ChunkScheduler has the   *)
(* rest); of a frame only the byte count is kept.  AdaptiveController's    *)
(* history and parameters are reduced to their locks and to whether an     *)
(* adjustment is due: adjust computes nothing while it waits to read the   *)
(* history its caller holds for writing, and it never stops waiting.       *)
(***************************************************************************)
EXTENDS RwLock

CONSTANTS
    MaxBytes,    \* bound on the chunks the workers add to downloaded_bytes
    ChannelSize, \* capacity of the progress channel (100)
    User,        \* other tasks that hold the AdaptiveController
    UserOps      \* what they call: "current_params", "set_concurrency", "stats", "reset"

ASSUME ReporterAssumption ==
    /\ MaxBytes \in Nat /\ ChannelSize \in Nat \ {0}
    /\ UserOps \subseteq {"current_params", "set_concurrency", "stats", "reset"}

Reporter == "reporter"

VARIABLES
    cancelled,  \* the token execute sets before it returns
    returned,   \* execute has returned
    bytes,      \* downloaded_bytes
    lastBytes,  \* last_bytes, what the reporter saw the time before
    rpc,        \* where the reporter is
    ripe,       \* whether its snapshot is old enough for an adjustment
    channel,    \* the progress channel, frames by byte count
    forwarder,  \* the forwarding task: "recv", "send", "ended"
    frame,      \* the frame the forwarding task holds
    shown,      \* the last byte count given to the WebSocket client
    due,        \* adjust_interval has passed since last_adjusted_at
    history,    \* AdaptiveController.history, its lock
    params,     \* AdaptiveController.params, its lock
    upc,        \* where each user is
    op          \* what it calls, or "none"

download == << cancelled, returned, bytes >>
reporter == << lastBytes, rpc, ripe >>
forward == << forwarder, frame, shown >>
locks == << history, params >>
users == << upc, op >>
vars == << download, reporter, channel, forward, due, locks, users >>

-----------------------------------------------------------------------------
(* The download *)

\* Mutant: a chunk that fails later takes back what it had counted.
ChunkDoneOrUndone ==
    /\ ~returned
    /\ bytes' \in {bytes - 1, bytes + 1} \cap (0 .. MaxBytes)
    /\ UNCHANGED << cancelled, returned, reporter, channel, forward, due, locks, users >>

ChunkDone ==
    /\ ~returned
    /\ bytes < MaxBytes
    /\ bytes' = bytes + 1
    /\ UNCHANGED << cancelled, returned, reporter, channel, forward, due, locks, users >>

\* The caller sets the token.
Cancel ==
    /\ ~cancelled
    /\ cancelled' = TRUE
    /\ UNCHANGED << returned, bytes, reporter, channel, forward, due, locks, users >>

\* The workers are joined; execute sets the token, drops the reporter's handle
\* and returns, and execute_download drops the forwarding task's handle.
Return ==
    /\ ~returned
    /\ cancelled' = TRUE
    /\ returned' = TRUE
    /\ UNCHANGED << bytes, reporter, channel, forward, due, locks, users >>

-----------------------------------------------------------------------------
(* The reporter: sleep, look at the token, send a frame, update the snapshot *)

WakeAndStop ==
    /\ rpc = "sleep"
    /\ cancelled
    /\ rpc' = "ended"
    /\ UNCHANGED << download, lastBytes, ripe, channel, forward, due, locks, users >>

\* try_send: a frame that finds the channel full is dropped.  last_bytes is set
\* at the end of the turn to what is read here; nothing looks at it in between.
WakeAndSend ==
    /\ rpc = "sleep"
    /\ ~cancelled
    /\ channel' = IF Len(channel) < ChannelSize THEN Append(channel, bytes) ELSE channel
    /\ lastBytes' = bytes
    /\ rpc' = "history"
    /\ ripe' = due
    /\ history' = Ask(history, Reporter, TRUE)
    /\ UNCHANGED << download, forward, due, params, users >>

\* update_snapshot: push under history.write, then look at params.
LockHistory ==
    /\ rpc = "history"
    /\ CanEnter(history, Reporter)
    /\ history' = Enter(history, Reporter)
    /\ params' = Ask(params, Reporter, FALSE)
    /\ rpc' = "params"
    /\ UNCHANGED << download, lastBytes, ripe, channel, forward, due, users >>

\* Not due: both guards go and the loop sleeps.
KeepParams ==
    /\ rpc = "params" /\ ~ripe
    /\ CanEnter(params, Reporter)
    /\ params' = Leave(Enter(params, Reporter), Reporter)
    /\ history' = Leave(history, Reporter)
    /\ rpc' = "sleep"
    /\ UNCHANGED << download, lastBytes, ripe, channel, forward, due, users >>

\* Mutant: the guard of params lives until adjust is done.
AdjustHoldingParams ==
    /\ rpc = "params" /\ ripe
    /\ CanEnter(params, Reporter)
    /\ params' = Enter(params, Reporter)
    /\ history' = Ask(history, Reporter, FALSE)
    /\ rpc' = "adjust"
    /\ UNCHANGED << download, lastBytes, ripe, channel, forward, due, users >>

\* Due: the guard of params goes, that of history stays, and adjust asks to
\* read history.
Adjust ==
    /\ rpc = "params" /\ ripe
    /\ CanEnter(params, Reporter)
    /\ params' = Leave(Enter(params, Reporter), Reporter)
    /\ history' = Ask(history, Reporter, FALSE)
    /\ rpc' = "adjust"
    /\ UNCHANGED << download, lastBytes, ripe, channel, forward, due, users >>

\* adjust_interval passes.
BecomeDue ==
    /\ ~due
    /\ due' = TRUE
    /\ UNCHANGED << download, reporter, channel, forward, locks, users >>

-----------------------------------------------------------------------------
(* The forwarding task and the WebSocket client it hands frames to *)

Receive ==
    /\ forwarder = "recv"
    /\ channel # << >>
    /\ frame' = Head(channel)
    /\ channel' = Tail(channel)
    /\ forwarder' = "send"
    /\ UNCHANGED << download, reporter, shown, due, locks, users >>

\* All senders are gone: execute's when it returns, the reporter's when it ends.
ReceiveClosed ==
    /\ forwarder = "recv"
    /\ channel = << >> /\ returned /\ rpc = "ended"
    /\ forwarder' = "ended"
    /\ UNCHANGED << download, reporter, channel, frame, shown,
                    due, locks, users >>

\* The WebSocket client may take its time, or never take it.
Forward ==
    /\ forwarder = "send"
    /\ shown' = frame
    /\ forwarder' = "recv"
    /\ UNCHANGED << download, reporter, channel, frame, due, locks, users >>

-----------------------------------------------------------------------------
(* Other users of the AdaptiveController *)

Writes(o) == o \in {"set_concurrency", "reset"}

AskParams(u, o) ==
    /\ upc[u] = "idle"
    /\ op' = [op EXCEPT ![u] = o]
    /\ params' = Ask(params, u, Writes(o))
    /\ upc' = [upc EXCEPT ![u] = "params"]
    /\ UNCHANGED << download, reporter, channel, forward, due, history >>

\* current_params and set_concurrency need params alone.
UseParams(u) ==
    /\ upc[u] = "params" /\ op[u] \in {"current_params", "set_concurrency"}
    /\ CanEnter(params, u)
    /\ params' = Leave(Enter(params, u), u)
    /\ upc' = [upc EXCEPT ![u] = "idle"]
    /\ op' = [op EXCEPT ![u] = "none"]
    /\ due' = (due /\ ~Writes(op[u]))
    /\ ripe' = (ripe /\ ~Writes(op[u]))
    /\ UNCHANGED << download, lastBytes, rpc, channel, forward, history >>

\* stats and reset keep params and ask for history.
AskHistory(u) ==
    /\ upc[u] = "params" /\ op[u] \in {"stats", "reset"}
    /\ CanEnter(params, u)
    /\ params' = Enter(params, u)
    /\ history' = Ask(history, u, Writes(op[u]))
    /\ upc' = [upc EXCEPT ![u] = "history"]
    /\ due' = (due /\ ~Writes(op[u]))
    /\ ripe' = (ripe /\ ~Writes(op[u]))
    /\ UNCHANGED << download, lastBytes, rpc, channel, forward, op >>

UseHistory(u) ==
    /\ upc[u] = "history"
    /\ CanEnter(history, u)
    /\ history' = Leave(Enter(history, u), u)
    /\ params' = Leave(params, u)
    /\ upc' = [upc EXCEPT ![u] = "idle"]
    /\ op' = [op EXCEPT ![u] = "none"]
    /\ UNCHANGED << download, reporter, channel, forward, due >>

-----------------------------------------------------------------------------
Init ==
    /\ cancelled = FALSE /\ returned = FALSE
    /\ bytes = 0 /\ lastBytes = 0
    /\ rpc = "sleep" /\ ripe = FALSE
    /\ channel = << >>
    /\ forwarder = "recv" /\ frame = 0 /\ shown = 0
    /\ due = FALSE
    /\ history = Unlocked /\ params = Unlocked
    /\ upc = [u \in User |-> "idle"]
    /\ op = [u \in User |-> "none"]

ReporterStep == WakeAndStop \/ WakeAndSend \/ LockHistory \/ KeepParams \/ Adjust
ForwarderStep == Receive \/ ReceiveClosed \/ Forward
UserStep(u) == UseParams(u) \/ AskHistory(u) \/ UseHistory(u)

Next ==
    \/ ChunkDone \/ Cancel \/ Return
    \/ ReporterStep \/ BecomeDue
    \/ ForwarderStep
    \/ \E u \in User :
        \/ \E o \in UserOps : AskParams(u, o)
        \/ UserStep(u)

Spec == Init /\ [][Next]_vars

\* The runtime polls every task that is ready.  The workers exit, as
\* ChunkScheduler shows when they do; that Forward ends is not assumed.
Fairness ==
    /\ WF_vars(Return)
    /\ WF_vars(ReporterStep)
    /\ WF_vars(Receive \/ ReceiveClosed)
    /\ \A u \in User : WF_vars(UserStep(u))

FairSpec == Spec /\ Fairness

-----------------------------------------------------------------------------
(* Properties *)

\* The speed is (current_bytes - last_bytes) in u64, and what the controller is
\* shown never goes back although frames are dropped: frames still on their way
\* are in order, between what was shown and what the reporter has seen.
FramesInOrder ==
    /\ lastBytes <= bytes
    /\ \A i \in 1 .. Len(channel) - 1 : channel[i] <= channel[i + 1]
    /\ channel # << >> => frame <= Head(channel) /\ channel[Len(channel)] <= bytes
    /\ shown <= frame

\* Only a user that keeps the parameters while it waits for the history (stats,
\* reset) can keep others from reading or setting them for ever; an adjustment
\* that hangs does not.
ParamsStayAvailable ==
    \A u \in User : upc[u] = "params" ~> \/ upc[u] # "params"
                                         \/ \E v \in User : upc[v] = "history"

\* "the reporter breaks after it sees the cancel, then the task ends by
\* itself" (chunk_scheduler.rs:208).
ReporterEnds == cancelled ~> rpc = "ended"
=============================================================================
