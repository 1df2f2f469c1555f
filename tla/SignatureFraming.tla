--------------------------- MODULE SignatureFraming ---------------------------
(***************************************************************************)
(* What a client signs (frontend/src/identity.ts), a sequence of bytes,    *)
(* since the UTF-8 encoding of a string is signed: whether it tells what   *)
(* was signed.  Two claims grow byte by byte; the model asks whether they  *)
(* ever sign the same.  The version, the room and the message id come from *)
(* alphabets without "|" and are left out, but for the tag of the kind.    *)
(***************************************************************************)
EXTENDS Integers, Sequences

CONSTANTS
    Chars,          \* the bytes of a field
    Numeral,        \* Numeral[n]: the length n as a template string prints it
    MaxLength       \* bound on the length of a field

VARIABLES left, right       \* the claims

vars == <<left, right>>

Bar == "|"
Colon == ":"

unframed(field) == field

frame(field) == Numeral[Len(field)] \o <<Colon>> \o field

messageSigData(nick, text) == <<"msg", Bar>> \o frame(nick) \o <<Bar>> \o frame(text)

nickSigData(nick) == <<"nick", Bar>> \o frame(nick)

SigData(claim) ==
    IF claim.kind = "msg" THEN messageSigData(claim.nick, claim.text) ELSE nickSigData(claim.nick)

Empty == [kind |-> "msg", nick |-> <<>>, text |-> <<>>]

Init ==
    /\ left \in {Empty, [Empty EXCEPT !.kind = "nick"]}
    /\ right \in {Empty, [Empty EXCEPT !.kind = "nick"]}

Typed(claim, field) ==
    {[claim EXCEPT ![field] = Append(@, ch)] : ch \in {x \in Chars : Len(claim[field]) < MaxLength}}

MoreOf(claim) ==
    Typed(claim, "nick") \cup (IF claim.kind = "msg" THEN Typed(claim, "text") ELSE {})

Next ==
    \/ left' \in MoreOf(left) /\ UNCHANGED right
    \/ right' \in MoreOf(right) /\ UNCHANGED left

Spec == Init /\ [][Next]_vars

-----------------------------------------------------------------------------
(* A signed string belongs to one claim only: no choice of nicks and texts *)
(* with "|", ":" and digits in them makes two claims sign the same string, *)
(* so a signature cannot be presented with another nick or text.           *)
SignatureBindsClaim == SigData(left) = SigData(right) => left = right

=============================================================================
