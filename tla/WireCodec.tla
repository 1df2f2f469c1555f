------------------------------ MODULE WireCodec ------------------------------
(***************************************************************************)
(* The frames between client and server: their fields                      *)
(* (frontend/src/protocol.gen.ts), the client's checks when it writes and  *)
(* reads one (frontend/src/codec.ts), and the server's when it reads one   *)
(* (backend/internal/protocol/gen.go, reached from internal/ws/codec.go).  *)
(* The server writes what its handlers put together, unchecked.            *)
(*                                                                         *)
(* A channel id is "id" when it matches the pattern that both sides use,   *)
(* and "malformed" otherwise.  A payload is its two lengths: the client    *)
(* counts UTF-16 code units and the server counts characters.  A field of  *)
(* the wrong type counts as missing.                                       *)
(***************************************************************************)
EXTENDS Integers

CONSTANTS
    Texts,          \* lengths of plaintexts in UTF-8 bytes
    Lengths         \* lengths of payloads that are not sealed

ASSUME LengthsAssumption == Texts \subseteq Nat /\ Lengths \subseteq Nat

PayloadTypes == {"send_message", "key_update", "set_room_name", "set_nickname"}

CLIENT_TYPES == PayloadTypes \cup {"create_channel", "join_channel", "leave_channel"}

RelayedTypes == {"message", "key_updated", "room_name_updated", "nickname_updated"}

SERVER_TYPES == RelayedTypes \cup {"channel_created", "joined", "left", "online_count", "error"}

(* The fields each type must have, besides its type. *)
Fields(t) ==
    CASE t = "create_channel" -> {}
      [] t \in {"join_channel", "leave_channel", "channel_created", "left"} -> {"channelId"}
      [] t \in PayloadTypes -> {"channelId", "payload"}
      [] t \in RelayedTypes -> {"channelId", "payload", "from"}
      [] t = "joined" -> {"channelId", "online"}
      [] t = "online_count" -> {"channelId", "count"}
      [] t = "error" -> {"code", "message"}

(* A frame is a record of the fields it has, the type among them. *)
Complete(m) == Fields(m.type) \subseteq DOMAIN m

ErrorCodes == {"invalid_message", "channel_not_found", "rate_limited", "internal_error"}

-----------------------------------------------------------------------------
(* The client, codec.ts *)

MaxPayload == 8192

assertChannelId(id) == id = "id"

assertPayload(p) == p.units <= MaxPayload

encode(m) ==
    /\ m.type \in CLIENT_TYPES \cup SERVER_TYPES
    /\ Fields(m.type) \ {"message"} \subseteq DOMAIN m
    /\ "channelId" \in Fields(m.type) => assertChannelId(m.channelId)
    /\ "payload" \in Fields(m.type) => assertPayload(m.payload)
    /\ "from" \in Fields(m.type) => m.from # ""
    /\ m.type = "joined" => m.online >= 1
    /\ m.type = "online_count" => m.count >= 0
    /\ m.type = "error" => m.code \in ErrorCodes

(* The frames from the server are checked less than those to it. *)
decode(m) ==
    /\ m.type \in CLIENT_TYPES \cup SERVER_TYPES
    /\ Complete(m)
    /\ m.type \in (CLIENT_TYPES \cup {"channel_created"}) \ {"create_channel"} =>
          assertChannelId(m.channelId)
    /\ m.type \in PayloadTypes => assertPayload(m.payload)

BudgetPlusOne == 6099

(* The budget for a plaintext *)
MAX_INNER_UTF8 == 6098

(* Base64url without padding: four characters for three bytes. *)
Base64Length(n) == (4 * n + 2) \div 3

(* The envelope of n bytes: iv, message id and tagged ciphertext. *)
EnvelopeLength(n) == Base64Length(12) + 1 + Base64Length(16) + 1 + Base64Length(n + 16)

Sealed(n) == [units |-> EnvelopeLength(n), runes |-> EnvelopeLength(n)]

-----------------------------------------------------------------------------
(* The server, codec.go and gen.go *)

CountsBelowLimit(p) == p.runes < MaxPayload

CountsRunes(p) == p.runes <= MaxPayload

Decode(m) ==
    /\ m.type \in CLIENT_TYPES \cup SERVER_TYPES
    /\ Complete(m)
    /\ "channelId" \in Fields(m.type) => m.channelId = "id"
    /\ "payload" \in Fields(m.type) => CountsRunes(m.payload)
    /\ m.type = "joined" => m.online >= 1
    /\ m.type = "online_count" => m.count >= 0
    /\ m.type = "error" => m.code \in ErrorCodes

(* The frame the handler of a payload frame sends to each member. *)
Relayed(t) ==
    CASE t = "send_message" -> "message"
      [] t = "key_update" -> "key_updated"
      [] t = "set_room_name" -> "room_name_updated"
      [] t = "set_nickname" -> "nickname_updated"

Broadcast(m, from) ==
    [type |-> Relayed(m.type), channelId |-> m.channelId, payload |-> m.payload, from |-> from]

-----------------------------------------------------------------------------
(* One frame on its way: a client seals a plaintext or takes a payload as  *)
(* it is, writes the frame, the server reads and relays it, and a client   *)
(* reads that.  At each place the frame is refused or goes on.             *)

VARIABLES
    frame,
    place,          \* "client", "wire", "relayed", "read" or "refused by ..."
    inner           \* the plaintext's length, or -1 for an unsealed payload

vars == <<frame, place, inner>>

Payloads == {[units |-> u, runes |-> r] : u, r \in Lengths}

(* A character has one or two units. *)
RealPayloads == {p \in Payloads : p.runes <= p.units /\ p.units <= 2 * p.runes}

ClientFrames ==
    {[type |-> "create_channel"]}
    \cup [type : {"join_channel", "leave_channel"}, channelId : {"id", "malformed"}]
    \cup [type : CLIENT_TYPES \ {"create_channel"}]
    \cup [type : PayloadTypes, channelId : {"id", "malformed"}]
    \cup [type : PayloadTypes, channelId : {"id", "malformed"}, payload : RealPayloads]

Init ==
    /\ place = "client"
    /\ \/ frame \in ClientFrames /\ inner = -1
       \/ \E t \in PayloadTypes, n \in Texts :
             /\ frame = [type |-> t, channelId |-> "id", payload |-> Sealed(n)]
             /\ inner = n

(* sendMessage checks the budget first; its error is a clear one. *)
Write ==
    /\ place = "client"
    /\ place' = IF inner > MAX_INNER_UTF8 THEN "refused by budget"
                ELSE IF encode(frame) THEN "wire" ELSE "refused by encode"
    /\ UNCHANGED <<frame, inner>>

Relay ==
    /\ place = "wire"
    /\ IF ~Decode(frame) THEN place' = "refused by server" /\ UNCHANGED frame
       ELSE IF frame.type \in PayloadTypes
       THEN frame' = Broadcast(frame, "peer") /\ place' = "relayed"
       ELSE place' = "handled" /\ UNCHANGED frame
    /\ UNCHANGED inner

Read ==
    /\ place = "relayed"
    /\ place' = IF decode(frame) THEN "read" ELSE "refused by decode"
    /\ UNCHANGED <<frame, inner>>

Next == Write \/ Relay \/ Read

Spec == Init /\ [][Next]_vars

-----------------------------------------------------------------------------
(* Properties *)

(* What one client's codec lets out, the server's accepts, though the two  *)
(* count a payload's length differently, and what the server makes of it,  *)
(* the receiving client's codec accepts.                                   *)
EncodedIsRead == place \notin {"refused by server", "refused by decode"}

(* The budget is exact: a plaintext within it never fails in encode, and   *)
(* one byte more would not have fit.                                       *)
BudgetExact ==
    inner >= 0 =>
        /\ place # "refused by encode"
        /\ place = "refused by budget" => EnvelopeLength(inner) > MaxPayload

=============================================================================
