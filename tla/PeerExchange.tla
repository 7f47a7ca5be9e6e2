---------------------------- MODULE PeerExchange ----------------------------
(***************************************************************************)
(* A connection to a BitTorrent peer and the addresses exchanged on it     *)
(* (src/infra/torrent/bt_connection.rs, src/infra/torrent/pex.rs):         *)
(* connect with its two handshakes, then send_pex and handle_pex in any    *)
(* order.  Every connection has a PexManager of its own, which it lends    *)
(* out for reading only, so the manager knows one peer and is told         *)
(* addresses by nobody else; add_known_peer and remove_peer have no caller *)
(* but tests.                                                              *)
(*                                                                         *)
(* Abstracted: addresses are model values of either family, and a message  *)
(* is the two sets it carries (the codec splits each by family, writes an  *)
(* address as 6 or 18 bytes and leaves out an incomplete one); flags; the  *)
(* clock, to whether min_interval has passed since last_sent.              *)
(***************************************************************************)
EXTENDS Naturals, FiniteSets

CONSTANTS
    Conn,     \* connections
    Address,  \* addresses of peers
    Remote,   \* the address of each connection's peer
    MaxAdded  \* max_added (50)

ASSUME PexAssumption == Remote \in [Conn -> Address] /\ MaxAdded \in Nat \ {0}

VARIABLES
    link,    \* where each connection is
    known,   \* known_peers
    sent,    \* the sent addresses of its peer's state
    resting, \* min_interval has not passed since last_sent
    told,    \* history: how often each address was written to the peer
    lost     \* history: addresses of messages whose write failed

pexVars == << link, known, sent, resting, told, lost >>
manager == << known, sent, resting >>
history == << told, lost >>

PexMessage == [added : SUBSET Address, dropped : SUBSET Address]

Step(c, from, to) ==
    /\ link[c] = from
    /\ link' = [link EXCEPT ![c] = to]

-----------------------------------------------------------------------------
(* connect *)

\* The stream is there, with its timeouts.
Dial(c) == Step(c, "none", "handshake") /\ UNCHANGED << manager, history >>

\* handshake: the name of the protocol and the infohash must be the same; that
\* the peer has no extension protocol is only logged.
PeerHandshake(c) == Step(c, "handshake", "extension") /\ UNCHANGED << manager, history >>

\* extension_handshake: keep-alives are skipped, then the answer must come.
PeerExtensions(c) == Step(c, "extension", "open") /\ UNCHANGED << manager, history >>

\* No stream, a read or write that fails or times out, another message: there
\* is no connection then, and with it its manager is dropped.
ConnectFails(c) ==
    /\ \E l \in {"none", "handshake", "extension"} : Step(c, l, "failed")
    /\ UNCHANGED << manager, history >>

-----------------------------------------------------------------------------
(* send_pex: build_message and the write *)

Untold(c) == known[c] \ (sent[c] \union {Remote[c]})

\* can_send, and what take(max_added) may leave of the new ones.
Selection(c) ==
    IF resting[c] THEN {}
    ELSE {S \in SUBSET Untold(c) :
            /\ S # {}
            /\ Cardinality(S) <= MaxAdded
            /\ S = Untold(c) \/ Cardinality(S) = MaxAdded}

\* Mutant: all that is new is marked, also what the limit leaves out.
SendPexMarksAll(c, S, ok) ==
    /\ link[c] = "open"
    /\ S \in Selection(c)
    /\ sent' = [sent EXCEPT ![c] = @ \union Untold(c)]
    /\ resting' = [resting EXCEPT ![c] = TRUE]
    /\ IF ok
       THEN told' = [told EXCEPT ![c] = [a \in Address |-> IF a \in S THEN @[a] + 1 ELSE @[a]]]
            /\ UNCHANGED lost
       ELSE lost' = [lost EXCEPT ![c] = @ \union S] /\ UNCHANGED told
    /\ UNCHANGED << link, known >>

\* The addresses are marked and the interval begins before the write, which may
\* fail; the caller has the connection still.
SendPex(c, S, ok) ==
    /\ link[c] = "open"
    /\ S \in Selection(c)
    /\ sent' = [sent EXCEPT ![c] = @ \union S]
    /\ resting' = [resting EXCEPT ![c] = TRUE]
    /\ IF ok
       THEN told' = [told EXCEPT ![c] = [a \in Address |-> IF a \in S THEN @[a] + 1 ELSE @[a]]]
            /\ UNCHANGED lost
       ELSE lost' = [lost EXCEPT ![c] = @ \union S] /\ UNCHANGED told
    /\ UNCHANGED << link, known >>

\* handle_pex: what is added and dropped in one message is dropped.  A message
\* that cannot be parsed changes nothing.
HandlePex(c, m) ==
    /\ link[c] = "open"
    /\ known' = [known EXCEPT ![c] = (@ \union m.added) \ m.dropped]
    /\ UNCHANGED << link, sent, resting, history >>

IntervalPasses(c) ==
    /\ resting[c]
    /\ resting' = [resting EXCEPT ![c] = FALSE]
    /\ UNCHANGED << link, known, sent, history >>

-----------------------------------------------------------------------------
PexInit ==
    /\ link = [c \in Conn |-> "none"]
    /\ known = [c \in Conn |-> {}]
    /\ sent = [c \in Conn |-> {}]
    /\ resting = [c \in Conn |-> FALSE]
    /\ told = [c \in Conn |-> [a \in Address |-> 0]]
    /\ lost = [c \in Conn |-> {}]

PexNext ==
    \E c \in Conn :
        \/ Dial(c) \/ PeerHandshake(c) \/ PeerExtensions(c) \/ ConnectFails(c)
        \/ \E S \in SUBSET Address, ok \in BOOLEAN : SendPex(c, S, ok)
        \/ \E m \in PexMessage : HandlePex(c, m)
        \/ IntervalPasses(c)

PexSpec == PexInit /\ [][PexNext]_pexVars

-----------------------------------------------------------------------------
(* Properties *)

\* A peer is told an address once, although it is dropped and added again, and
\* never its own; an address is marked as sent only when it went into a message:
\* what the limit of a message holds back stays to be told.
ToldOnceEach ==
    \A c \in Conn : \A a \in Address :
        /\ told[c][a] <= 1
        /\ told[c][Remote[c]] = 0
        /\ a \in sent[c] <=> told[c][a] = 1 \/ a \in lost[c]
=============================================================================
