---------------------------- MODULE P2pDownload ----------------------------
(***************************************************************************)
(* BitTorrent downloads: download_internal (src/cli/p2p/bt.rs) with what   *)
(* calls it (src/cli/p2p/manager.rs, src/cli/p2p/mod.rs) and the P2P       *)
(* branch of execute_download around it (src/cli/new_download.rs): the     *)
(* task that forwards its frames, the watcher of the controller, and the   *)
(* final report, which share the WebSocket client's bounded channel.       *)
(*                                                                         *)
(* librqbit's session is external: a torrent that was added stays in it    *)
(* and is downloaded whether or not a task still polls it.  Downloads      *)
(* through the BtManager share one session, the others have their own.     *)
(* Bytes are counted in units of which a torrent has Size; of a frame only *)
(* its byte count is kept.  The tracker list is PeerDiscovery's.           *)
(***************************************************************************)
EXTENDS WsClient

CONSTANTS
    Attempt,    \* calls of download_p2p
    Torrent,    \* what is downloaded
    TorrentOf,  \* the torrent of each attempt
    Standalone, \* the attempts without a BtManager
    Size,       \* units of each torrent
    FrameSlots  \* capacity of the progress channel (100)

ASSUME P2pAssumption ==
    /\ TorrentOf \in [Attempt -> Torrent]
    /\ Standalone \subseteq Attempt
    /\ Size \in Nat \ {0} /\ FrameSlots \in Nat \ {0}

VARIABLES
    session,  \* the torrents of each session: added, metadata known, units got
    dpc,      \* where each attempt is
    polled,   \* the progress it read last (final_progress_bytes)
    late,     \* the timeout of its present loop has passed
    verdict,  \* what download_p2p returns
    stop,     \* the controller was told to cancel
    token,    \* the token the watcher sets
    frames,   \* the progress channel
    carrier,  \* the forwarding task: "recv", "send", "ended"
    carried,  \* the frame it holds
    shown     \* the last frame it gave to the WebSocket client

attemptState == << dpc, polled, late, verdict >>
cancels == << stop, token >>
carriers == << carrier, carried, shown >>
p2pVars == << wsVars, session, attemptState, cancels, frames, carriers >>

Absent == [added |-> FALSE, metadata |-> FALSE, got |-> 0]

\* What an earlier attempt may have left in the shared session.
Leftover == {Absent} \union [added : {TRUE}, metadata : {FALSE}, got : {0}]
                     \union [added : {TRUE}, metadata : {TRUE}, got : 0 .. Size]

\* download_p2p goes through the manager if it was given one.
UsesManager(d) == d \notin Standalone

\* Where the torrent of d lives: in the manager's session, or in d's own.
Slot(d) == IF UsesManager(d) THEN TorrentOf[d] ELSE d
Here(d) == session[Slot(d)]

At(d, l) == dpc[d] = l
GoTo(d, l) == dpc' = [dpc EXCEPT ![d] = l]

\* download_p2p returns v; the sender of the progress channel goes with it.
EndWith(d, v) ==
    /\ GoTo(d, "report")
    /\ verdict' = [verdict EXCEPT ![d] = v]

-----------------------------------------------------------------------------
(* The download *)

\* The directory, the session, the file or librqbit fails, or the URI is none.
\* Neither the token nor the clock is looked at before librqbit has answered.
AddFails(d) ==
    /\ At(d, "add")
    /\ EndWith(d, "error")
    /\ UNCHANGED << wsVars, session, polled, late, cancels, frames, carriers >>

\* A torrent that is there already is used as it is.
AddTorrent(d) ==
    /\ At(d, "add")
    /\ session' = [session EXCEPT ![Slot(d)].added = TRUE]
    /\ GoTo(d, "metadata")
    /\ UNCHANGED << wsVars, polled, late, verdict, cancels, frames, carriers >>

\* Mutant: the polling loop looks at its clock alone.
GiveUpWhenLate(d) ==
    /\ At(d, "metadata") \/ At(d, "poll")
    /\ late[d] \/ (token[d] /\ At(d, "metadata"))
    /\ EndWith(d, "error")
    /\ UNCHANGED << wsVars, session, polled, late, cancels, frames, carriers >>

\* Both loops begin a turn with the token and the clock; the torrent stays.
GiveUp(d) ==
    /\ At(d, "metadata") \/ At(d, "poll")
    /\ token[d] \/ late[d]
    /\ EndWith(d, "error")
    /\ UNCHANGED << wsVars, session, polled, late, cancels, frames, carriers >>

\* The polling loop has a clock of its own.
FindMetadata(d) ==
    /\ At(d, "metadata") /\ ~token[d] /\ ~late[d]
    /\ Here(d).metadata
    /\ GoTo(d, "poll")
    /\ late' = [late EXCEPT ![d] = FALSE]
    /\ UNCHANGED << wsVars, session, polled, verdict, cancels, frames, carriers >>

PollStats(d) ==
    /\ At(d, "poll") /\ ~token[d] /\ ~late[d]
    /\ polled' = [polled EXCEPT ![d] = Here(d).got]
    /\ GoTo(d, "send")
    /\ UNCHANGED << wsVars, session, late, verdict, cancels, frames, carriers >>

\* Mutant: a torrent is taken for finished when its last unit is under way.
SendFrameEarly(d) ==
    /\ At(d, "send")
    /\ Len(frames[d]) < FrameSlots
    /\ frames' = [frames EXCEPT ![d] = Append(@, polled[d])]
    /\ IF polled[d] + 1 >= Size THEN EndWith(d, "success") ELSE GoTo(d, "poll") /\ UNCHANGED verdict
    /\ UNCHANGED << wsVars, session, polled, late, cancels, carriers >>

\* send waits for room and looks at nothing while it waits.  It cannot find
\* the channel closed: the forwarding task outlives the sender.
SendFrame(d) ==
    /\ At(d, "send")
    /\ Len(frames[d]) < FrameSlots
    /\ frames' = [frames EXCEPT ![d] = Append(@, polled[d])]
    /\ IF polled[d] = Size THEN EndWith(d, "success") ELSE GoTo(d, "poll") /\ UNCHANGED verdict
    /\ UNCHANGED << wsVars, session, polled, late, cancels, carriers >>

\* execute_download lets the forwarding task go and reports.
ReportEnd(d) ==
    /\ At(d, "report")
    /\ Send
    /\ GoTo(d, "done")
    /\ UNCHANGED << connected, inbox, signals, nodeDeleted, session, polled, late,
                    verdict, cancels, frames, carriers >>

TimePasses(d) ==
    /\ At(d, "metadata") \/ At(d, "poll") \/ At(d, "send")
    /\ ~late[d]
    /\ late' = [late EXCEPT ![d] = TRUE]
    /\ UNCHANGED << wsVars, session, dpc, polled, verdict, cancels, frames, carriers >>

-----------------------------------------------------------------------------
(* Beside it: the controller's watcher and the forwarding task *)

AskToStop(d) ==
    /\ ~stop[d] /\ ~At(d, "done")
    /\ stop' = [stop EXCEPT ![d] = TRUE]
    /\ UNCHANGED << wsVars, session, attemptState, token, frames, carriers >>

Watch(d) ==
    /\ stop[d] /\ ~token[d]
    /\ token' = [token EXCEPT ![d] = TRUE]
    /\ UNCHANGED << wsVars, session, attemptState, stop, frames, carriers >>

TakeFrame(d) ==
    /\ carrier[d] = "recv" /\ frames[d] # << >>
    /\ carried' = [carried EXCEPT ![d] = Head(frames[d])]
    /\ frames' = [frames EXCEPT ![d] = Tail(@)]
    /\ carrier' = [carrier EXCEPT ![d] = "send"]
    /\ UNCHANGED << wsVars, session, attemptState, cancels, shown >>

GiveFrame(d) ==
    /\ carrier[d] = "send"
    /\ Send
    /\ shown' = [shown EXCEPT ![d] = carried[d]]
    /\ carrier' = [carrier EXCEPT ![d] = "recv"]
    /\ UNCHANGED << connected, inbox, signals, nodeDeleted, session, attemptState,
                    cancels, frames, carried >>

CarrierEnds(d) ==
    /\ carrier[d] = "recv" /\ frames[d] = << >>
    /\ At(d, "report") \/ At(d, "done")
    /\ carrier' = [carrier EXCEPT ![d] = "ended"]
    /\ UNCHANGED << wsVars, session, attemptState, cancels, frames, carried, shown >>

-----------------------------------------------------------------------------
(* External: librqbit and the network *)

MetadataArrives(s) ==
    /\ session[s].added /\ ~session[s].metadata
    /\ session' = [session EXCEPT ![s].metadata = TRUE]
    /\ UNCHANGED << wsVars, attemptState, cancels, frames, carriers >>

PieceArrives(s) ==
    /\ session[s].metadata /\ session[s].got < Size
    /\ session' = [session EXCEPT ![s].got = @ + 1]
    /\ UNCHANGED << wsVars, attemptState, cancels, frames, carriers >>

\* Other tasks of the agent put messages into the same channel.
OtherTaskSends ==
    /\ Send
    /\ UNCHANGED << connected, inbox, signals, nodeDeleted, session, attemptState,
                    cancels, frames, carriers >>

Link ==
    /\ Connect \/ WriteMessage \/ Disconnect
    /\ UNCHANGED << session, attemptState, cancels, frames, carriers >>

-----------------------------------------------------------------------------
P2pInit ==
    /\ WsInit
    /\ session \in {f \in [Torrent \union Standalone -> Leftover] :
                      \A d \in Standalone : f[d] = Absent}
    /\ dpc = [d \in Attempt |-> "add"]
    /\ polled = [d \in Attempt |-> 0]
    /\ late = [d \in Attempt |-> FALSE]
    /\ verdict = [d \in Attempt |-> "none"]
    /\ stop = [d \in Attempt |-> FALSE]
    /\ token = [d \in Attempt |-> FALSE]
    /\ frames = [d \in Attempt |-> << >>]
    /\ carrier = [d \in Attempt |-> "recv"]
    /\ carried = [d \in Attempt |-> 0]
    /\ shown = [d \in Attempt |-> 0]

\* What librqbit answers to the add, if it answers, and what the loops do next.
AddStep(d) == AddFails(d) \/ AddTorrent(d)
LoopStep(d) == GiveUp(d) \/ FindMetadata(d) \/ PollStats(d) \/ SendFrame(d)

AttemptStep(d) == AddStep(d) \/ LoopStep(d)
CarrierStep(d) == TakeFrame(d) \/ CarrierEnds(d)

P2pNext ==
    \/ \E d \in Attempt :
        \/ AttemptStep(d) \/ ReportEnd(d)
        \/ TimePasses(d) \/ AskToStop(d) \/ Watch(d)
        \/ CarrierStep(d) \/ GiveFrame(d)
    \/ \E s \in DOMAIN session : MetadataArrives(s) \/ PieceArrives(s)
    \/ OtherTaskSends \/ Link

P2pSpec == P2pInit /\ [][P2pNext]_p2pVars

-----------------------------------------------------------------------------
(* Properties *)

\* A download that is reported as a success is complete in the session, and
\* no frame of it, shown or still on its way, says more than the report does.
SuccessIsBacked ==
    \A d \in Attempt :
        verdict[d] = "success" =>
            /\ Here(d).got = Size
            /\ \A n \in {shown[d], carried[d]} \union {frames[d][i] : i \in DOMAIN frames[d]} :
                n <= polled[d]
            /\ polled[d] = Size

\* A cancelled download ends once librqbit has answered its add, although the
\* polling loop waits for a channel that another task empties into a third,
\* unless the WebSocket client stays without room for ever.
CancelledP2pEnds ==
    []<>(outbox < OutboxSize) =>
        \A d \in Attempt : (stop[d] /\ ~At(d, "add")) ~> At(d, "done")
=============================================================================
