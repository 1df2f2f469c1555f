--------------------------- MODULE MCChannelStore ---------------------------
(***************************************************************************)
(* ChannelStore on small families of frames.  A behaviour keeps to one     *)
(* family, within its bounds on deliveries and on changes of the key.      *)
(***************************************************************************)
EXTENDS ChannelStore

VARIABLE family

P1 == <<"print1", "x">>
P2 == <<"print2", "x">>
P3 == <<"print1", "y">>     \* another key with the fingerprint of P1

Frame(kind, mid, key, plain, from) ==
    [kind |-> kind, mid |-> mid, envelope |-> TRUE, key |-> key, plain |-> plain,
     from |-> from, self |-> FALSE]

Signed(mid, key, pk, nick, from) ==
    Frame("message", mid, key, wrapSignedMessage(pk, "room", mid, mid, nick), from)

KeyUpdate == Frame("key_updated", "u", "K1", wrapNewKey("K2"), "c1")

UnderNewKey == Signed("n", "K2", P1, "ann", "c1")

(* Messages before and after a rotation, signed and not. *)
ReplayFrames ==
    {Signed("m", "K1", P1, "ann", "c1"), UnderNewKey, KeyUpdate,
     Frame("message", "r", "K1", RawText("r"), "c2"),
     [KeyUpdate EXCEPT !.mid = "v", !.self = TRUE]}

ClaimNick(mid, pk, nick, from) ==
    Frame("nickname_updated", mid, "K1", wrapSignedNick(pk, "room", nick), from)

(* Three identities, two of them with one fingerprint, one nick, and       *)
(* everything the readers refuse.                                          *)
IdentityFrames ==
    {Signed("m", "K1", P1, "ann", "c1"),
     Signed("o", "K1", P2, "ann", "c2"),
     Signed("q", "K1", P2, "bob", "c1"),
     [Signed("f", "K1", P1, "ann", "c2") EXCEPT !.plain.text = "forged"],
     [Signed("s", "K1", P1, "ann", "c1") EXCEPT !.plain.v = 1],
     Signed("p", "K1", P3, "ann", "c2"),
     ClaimNick("h", P2, "ann", "c2"),
     [ClaimNick("g", P1, "ann", "c2") EXCEPT !.plain.nick = "bob"]}

(* Frames that end early, and names. *)
NameFrames ==
    {[Signed("m", "K1", P1, "ann", "c1") EXCEPT !.envelope = FALSE],
     Frame("message", "x", "K1", wrapNick("ann"), "c2"),
     Frame("message", "k", "K1", wrapNewKey("K2"), "c2"),
     Frame("nickname_updated", "w", "K1", wrapNick("ann"), "c2"),
     [ClaimNick("i", P1, "ann", "c2") EXCEPT !.plain.sig = NoSig],
     [ClaimNick("g", P1, "ann", "c1") EXCEPT !.plain.nick = "bob"],
     Frame("nickname_updated", "y", "K1", wrapRoomName("den", FALSE), "c2"),
     Frame("room_name_updated", "d", "K1", wrapRoomName("den", FALSE), "c1"),
     Frame("room_name_updated", "e", "K1", wrapRoomName("den", TRUE), "c2"),
     Frame("room_name_updated", "z", "K2", wrapRoomName("lab", FALSE), "c2"),
     Frame("room_name_updated", "j", "K1", wrapNewKey("K2"), "c2"),
     Frame("key_updated", "b", "K1", wrapNick("ann"), "c2")}

Families == {"replay", "identity", "names"}

FramesOf == [replay |-> ReplayFrames, identity |-> IdentityFrames, names |-> NameFrames]

DeliveriesOf == [replay |-> 4, identity |-> 4, names |-> 3]

EpochsOf == [replay |-> 1, identity |-> 0, names |-> 1]

AllFrames == UNION {FramesOf[x] : x \in Families}

MCInit == Init /\ family \in Families

MCNext ==
    /\ \/ delivered < DeliveriesOf[family] /\ \E f \in FramesOf[family] : Deliver(f)
       \/ \E i \in 1..Len(tasks) : Resume(i)
       \/ epoch < EpochsOf[family] /\ \E k \in Keys : UpdateCrypto(k)
    /\ UNCHANGED family

MCSpec == MCInit /\ [][MCNext]_<<vars, family>>

=============================================================================
