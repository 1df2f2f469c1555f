---------------------------- MODULE InnerPayload ----------------------------
(***************************************************************************)
(* The plaintexts inside an envelope and their readers: the wrap and       *)
(* unwrap functions of frontend/src/e2ee.ts and frontend/src/identity.ts.  *)
(*                                                                         *)
(* A plaintext is raw text or a JSON object.  Of a field the readers look  *)
(* at, the model keeps the value, or None when the field is missing, has   *)
(* the wrong type or fails the check its readers make (isValidNick,        *)
(* isValidRoomName, isRoomKeyB64, the base64url pattern).                  *)
(*                                                                         *)
(* Ed25519 is ideal: a signature is the key and the data it was made of.   *)
(* The signed data is a tuple here; SignatureFraming shows that the string *)
(* the code signs determines it.  A public key is its first ten characters *)
(* and the rest, for the client tells keys apart by the former alone.      *)
(***************************************************************************)
EXTENDS Integers

None == "none"
NoSig == <<>>
NoPk == <<>>

Blank == [json |-> TRUE, t |-> None, v |-> 0, text |-> None, nick |-> None,
          name |-> None, initial |-> FALSE, pk |-> NoPk, sig |-> NoSig, k |-> None]

RawText(s) == [Blank EXCEPT !.json = FALSE, !.text = s]

messageSigData(channelId, mid, nick, text) == <<"msg", channelId, mid, nick, text>>

nickSigData(channelId, nick) == <<"nick", channelId, nick>>

signIdentity(pk, data) == <<pk, data>>

(* NoPk and NoSig fail, as malformed keys and signatures do. *)
verifyIdentity(pk, sig, data) == pk # NoPk /\ sig = signIdentity(pk, data)

(* The fingerprint: a prefix of the public key. *)
fpOf(pk) == pk[1]

-----------------------------------------------------------------------------
(* What the client writes.  A wrapper throws where its reader would, so    *)
(* its arguments are well formed.                                          *)

wrapSignedMessage(pk, channelId, mid, text, nick) ==
    [Blank EXCEPT !.t = "msg", !.v = 2, !.text = text, !.nick = nick, !.pk = pk,
                  !.sig = signIdentity(pk, messageSigData(channelId, mid, nick, text))]

wrapNick(nick) == [Blank EXCEPT !.t = "nick", !.v = 1, !.nick = nick]

wrapSignedNick(pk, channelId, nick) ==
    [wrapNick(nick) EXCEPT !.pk = pk,
                           !.sig = signIdentity(pk, nickSigData(channelId, nick))]

wrapRoomName(name, initial) ==
    [Blank EXCEPT !.t = "room_name", !.v = 1, !.name = name, !.initial = initial]

wrapNewKey(k) == [Blank EXCEPT !.v = 1, !.k = k]

-----------------------------------------------------------------------------
(* What the client reads. *)

parseSignedMessage(p) ==
    /\ p.json
    /\ p.t = "msg" /\ p.v = 2
    /\ p.text # None /\ p.nick # None /\ p.pk # NoPk /\ p.sig # NoSig

staleSignedMessage(p) ==
    /\ p.json
    /\ p.t = "msg" /\ p.v = 1
    /\ p.pk # NoPk /\ p.sig # NoSig

MalformedMessage(p) == p.json /\ p.t = "msg"

isUnknownStructuredPayload(p) == p.json /\ p.t # None

(* What a message frame's plaintext is taken for, in the order of the      *)
(* handler's tests.                                                        *)
MessageClass(p) ==
    IF parseSignedMessage(p) THEN "signed"
    ELSE IF staleSignedMessage(p) THEN "stale"
    ELSE IF isUnknownStructuredPayload(p) THEN "ignored"
    ELSE "raw"

(* A plaintext of no known form is shown as it stands; that of a payload   *)
(* without a tag, such as a new key, is its JSON.                          *)
RawJson == "raw JSON"

AsItStands(p) == IF p.json THEN RawJson ELSE p.text

(* The reader of key updates looks at no type tag. *)
unwrapNewKey(p) == p.json /\ p.v = 1 /\ p.k # None

unwrapRoomName(p) == p.json /\ p.t = "room_name" /\ p.v = 1 /\ p.name # None

unwrapNick(p) == p.json /\ p.t = "nick" /\ p.v = 1 /\ p.nick # None

(* A nick claim with a malformed key or signature counts as unsigned. *)
NickIsSigned(p) == p.pk # NoPk /\ p.sig # NoSig

=============================================================================
