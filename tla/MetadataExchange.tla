-------------------------- MODULE MetadataExchange --------------------------
(***************************************************************************)
(* Fetching a torrent's metadata from its peers                            *)
(* (src/infra/torrent/metadata.rs): download_from_peers tries the peers it *)
(* is given one after the other; with each, download_from_peer connects,   *)
(* shakes hands twice, requests the pieces one at a time in order and      *)
(* checks the hash of the whole.  Reads and writes block, with a timeout   *)
(* on each.  A call shares nothing with another, so one call is modelled.  *)
(*                                                                         *)
(* Peers, external, answer anything: the next message is what a read       *)
(* makes of the bytes.  A piece of the metadata is right or wrong; of a    *)
(* message that read_exact, the bencode parser or a comparison refuses     *)
(* only that is kept.  Who made the torrent may have hashed anything: what *)
(* has the right hash need not be an info dictionary.                      *)
(***************************************************************************)
EXTENDS Naturals

CONSTANTS
    MaxPeers,  \* bound on the peers a call is given
    NumPieces, \* pieces of the true metadata
    MaxClaim   \* bound on the pieces a peer claims there are

ASSUME MetadataAssumption ==
    /\ MaxPeers \in Nat /\ NumPieces \in Nat \ {0} /\ MaxClaim \in Nat

VARIABLES
    given,   \* how many peers the call was given
    content, \* what is behind the infohash: an info "dictionary", or "other"
    peer,    \* the one that is tried
    stage,   \* where download_from_peer is with it; "ended" when the call is over
    claimed, \* num_pieces, from the metadata_size it claims
    piece,   \* the piece to be requested next
    intact,  \* the pieces copied so far are those of the true metadata
    outcome, \* what the call returns: "none", "metadata", "error", "panic"
    faulty   \* history: the peers from which no metadata could be had

metadataVars == << given, content, peer, stage, claimed, piece, intact, outcome, faulty >>

\* What follows the dictionary of a data message (find_bencode_dict_end, which
\* for a message without one makes the attempt fail): the piece, or something else.
Body == {"right", "wrong", "short"}

\* Mutant: the first failure ends the call.
AbandonAll ==
    /\ faulty' = faulty \union {peer}
    /\ outcome' = "error" /\ stage' = "ended" /\ UNCHANGED peer
    /\ claimed' = 0 /\ piece' = 0 /\ intact' = TRUE

\* The attempt ends; the next peer is tried, or the error of the last is returned.
Abandon ==
    /\ faulty' = faulty \union {peer}
    /\ IF peer < given
       THEN peer' = peer + 1 /\ stage' = "connect" /\ UNCHANGED outcome
       ELSE outcome' = "error" /\ stage' = "ended" /\ UNCHANGED peer
    /\ claimed' = 0 /\ piece' = 0 /\ intact' = TRUE

\* Nobody catches a panic in here: it takes the whole call with it.
Panic ==
    /\ faulty' = faulty \union {peer}
    /\ outcome' = "panic" /\ stage' = "ended"
    /\ claimed' = 0 /\ piece' = 0 /\ intact' = TRUE
    /\ UNCHANGED peer

Proceed(s) == stage' = s /\ UNCHANGED << given, content, peer, outcome, faulty >>

-----------------------------------------------------------------------------
\* The loop over no peers.
NoPeers ==
    /\ stage = "connect" /\ given = 0
    /\ outcome' = "error" /\ stage' = "ended"
    /\ UNCHANGED << given, content, peer, claimed, piece, intact, faulty >>

ConnectPeer(ok) ==
    /\ stage = "connect" /\ given > 0
    /\ \/ ok /\ Proceed("handshake") /\ UNCHANGED << claimed, piece, intact >>
       \/ ~ok /\ Abandon /\ UNCHANGED << given, content >>

\* handshake: 68 bytes; the length of the protocol's name, the infohash and the
\* bit of the extension protocol are looked at.
Handshake(ok) ==
    /\ stage = "handshake"
    /\ \/ ok /\ Proceed("extension") /\ UNCHANGED << claimed, piece, intact >>
       \/ ~ok /\ Abandon /\ UNCHANGED << given, content >>

\* extension_handshake: the first message after the handshake must be the
\* answer, a dictionary that offers ut_metadata; the size it may leave out.
ExtensionAnswer(n) ==
    /\ stage = "extension" /\ n > 0
    /\ claimed' = n
    /\ Proceed("request") /\ UNCHANGED << piece, intact >>

\* Nothing, a keep-alive or a message of another kind (receive_extension_message
\* skips neither), no handshake, nothing offered, or a size of zero.
ExtensionRefused ==
    /\ stage = "extension"
    /\ Abandon
    /\ UNCHANGED << given, content >>

\* A message of one byte, which has no second one to index, or a negative size,
\* for which no buffer can be made.
ExtensionPanics ==
    /\ stage = "extension"
    /\ Panic
    /\ UNCHANGED << given, content >>

Request(ok) ==
    /\ stage = "request" /\ piece < claimed
    /\ \/ ok /\ Proceed("data") /\ UNCHANGED << claimed, piece, intact >>
       \/ ~ok /\ Abandon /\ UNCHANGED << given, content >>

\* receive_ut_metadata_data failed: unreadable, no dictionary, a rejection,
\* another msg_type, no piece.
DataRefused ==
    /\ stage = "data"
    /\ Abandon
    /\ UNCHANGED << given, content >>

DataPanics ==
    /\ stage = "data"
    /\ Panic
    /\ UNCHANGED << given, content >>

\* The piece that was asked for is copied to its place, whatever follows it in
\* the message; if the message has less, the slice of it panics.
DataArrives(p, b) ==
    /\ stage = "data"
    /\ \/ /\ p # piece
          /\ Abandon /\ UNCHANGED << given, content >>
       \/ /\ p = piece /\ b = "short"
          /\ Panic /\ UNCHANGED << given, content >>
       \/ /\ p = piece /\ b # "short"
          /\ piece' = piece + 1
          /\ intact' = (intact /\ b = "right")
          /\ Proceed("request") /\ UNCHANGED claimed

\* parse_metadata takes every dictionary, with defaults for what it lacks, and
\* refuses all else.
Parses == content = "dictionary"

\* All that was claimed is there: the hash decides, and what has the right one
\* must parse; if not, the next peers are asked for the same bytes.
Verify ==
    /\ stage = "request" /\ piece = claimed
    /\ IF intact /\ claimed = NumPieces /\ Parses
       THEN /\ outcome' = "metadata" /\ stage' = "ended"
            /\ UNCHANGED << given, content, peer, claimed, piece, intact, faulty >>
       ELSE Abandon /\ UNCHANGED << given, content >>

MetadataInit ==
    /\ given \in 0 .. MaxPeers /\ content \in {"dictionary", "other"}
    /\ peer = 1 /\ stage = "connect" /\ claimed = 0 /\ piece = 0
    /\ intact = TRUE /\ outcome = "none" /\ faulty = {}

MetadataNext ==
    \/ NoPeers
    \/ \E ok \in BOOLEAN : ConnectPeer(ok) \/ Handshake(ok) \/ Request(ok)
    \/ \E n \in 1 .. MaxClaim : ExtensionAnswer(n)
    \/ ExtensionRefused \/ ExtensionPanics
    \/ DataRefused \/ DataPanics
    \/ \E p \in 0 .. MaxClaim, b \in Body : DataArrives(p, b)
    \/ Verify

MetadataSpec == MetadataInit /\ [][MetadataNext]_metadataVars

-----------------------------------------------------------------------------
(* Properties *)

\* One good peer is enough wherever it stands in the list, unless the call panics
\* over an earlier one: it returns an error only when every peer was tried and
\* failed, what it returns has the right hash, and nothing of an earlier peer's
\* pieces is in it.
GoodPeerSuffices ==
    /\ outcome = "error" => faulty = 1 .. given
    /\ outcome = "metadata" => intact /\ piece = NumPieces /\ peer \notin faulty /\ Parses
=============================================================================
