------------------------------ MODULE WsClient ------------------------------
(***************************************************************************)
(* The WebSocket client (src/cli/ws_client.rs): a loop that keeps one      *)
(* connection to the controller (PK), turns its messages into signals for  *)
(* the agent's main loop, and writes what the downloads put into a bounded *)
(* channel.  This module gives the actions; Agent composes them with the   *)
(* main loop and the downloads.                                            *)
(*                                                                         *)
(* A signal is a flag and a Notify that keeps one permit, set one after    *)
(* the other and looked at in wait_*; either alone outlasts the moment in  *)
(* which nobody waits, so here it is one thing, raised or not.  Outgoing   *)
(* messages are only counted; the messages that change nothing in this     *)
(* process (Ping, DeleteFile, ServiceChanged, Discover) are left out.      *)
(***************************************************************************)
EXTENDS Naturals, Sequences

CONSTANTS
    OutboxSize, \* capacity of the outgoing channel (128)
    InboxSize   \* bound on the messages under way to the agent

ASSUME WsAssumption == OutboxSize \in Nat \ {0} /\ InboxSize \in Nat

VARIABLES
    connected,   \* the connection is up
    inbox,       \* messages the controller has sent on it
    signals,     \* the raised signals
    nodeDeleted, \* node_deleted
    outbox       \* how many messages wait in the outgoing channel

wsVars == << connected, inbox, signals, nodeDeleted, outbox >>

Signal == {"config", "task", "deleted"}
Message == {"config_changed", "new_task", "node_deleted"}

\* The controller sends on the connection it has, if it has one.
ServerSends(m) ==
    /\ connected => Len(inbox) < InboxSize
    /\ inbox' = IF connected THEN Append(inbox, m) ELSE inbox

\* Mutant: a new connection raises nothing.
ConnectSilently ==
    /\ ~connected
    /\ connected' = TRUE
    /\ UNCHANGED << inbox, signals, nodeDeleted, outbox >>

\* What was sent while there was no connection is not sent again: every new
\* connection asks for the configuration and for a claim.
Connect ==
    /\ ~connected
    /\ connected' = TRUE
    /\ signals' = signals \union {"config", "task"}
    /\ UNCHANGED << inbox, nodeDeleted, outbox >>

HandleMessage ==
    /\ connected /\ inbox # << >>
    /\ inbox' = Tail(inbox)
    /\ \/ /\ Head(inbox) = "config_changed"
          /\ signals' = signals \union {"config"}
          /\ UNCHANGED nodeDeleted
       \/ /\ Head(inbox) = "new_task"
          /\ signals' = signals \union {"task"}
          /\ UNCHANGED nodeDeleted
       \/ /\ Head(inbox) = "node_deleted"
          /\ nodeDeleted' = TRUE
          /\ signals' = Signal
    /\ UNCHANGED << connected, outbox >>

WriteMessage ==
    /\ connected /\ outbox > 0
    /\ outbox' = outbox - 1
    /\ UNCHANGED << connected, inbox, signals, nodeDeleted >>

\* The connection closes or fails, and what was under way on it is gone; if it
\* fails on a write, so is the message taken from the channel.
Disconnect ==
    /\ connected
    /\ connected' = FALSE
    /\ inbox' = << >>
    /\ outbox' \in IF outbox > 0 THEN {outbox - 1, outbox} ELSE {outbox}
    /\ UNCHANGED << signals, nodeDeleted >>

\* send_json waits for room.
Send ==
    /\ outbox < OutboxSize
    /\ outbox' = outbox + 1

WsInit ==
    /\ connected = FALSE /\ inbox = << >>
    /\ signals = {} /\ nodeDeleted = FALSE /\ outbox = 0
=============================================================================
