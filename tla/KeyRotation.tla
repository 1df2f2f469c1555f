----------------------------- MODULE KeyRotation -----------------------------
(***************************************************************************)
(* "Rotate & share": the members of one room change its key.               *)
(* rotateKeyViaE2EE (frontend/src/App.svelte) makes a key, wraps it with   *)
(* the old one and sends it; the other members' stores                     *)
(* (frontend/src/channel.svelte.ts, key_updated) unwrap and adopt it.      *)
(*                                                                         *)
(* Each member has the key in three places: the store's cipher, the App's  *)
(* CryptoKey in roomKeys and its text in roomKeyB64.  Awaits of Web Crypto *)
(* end in any order.  The server relays each member's frames in order,     *)
(* those of different members to different recipients in any order         *)
(* (RelayServer).  All members stay connected.                             *)
(***************************************************************************)
EXTENDS Integers, Sequences

CONSTANTS
    Members,
    MaxKey      \* bound on the keys that are made

VARIABLES
    crypto,     \* crypto[m]: the key of the store's cipher
    roomKeys,   \* roomKeys[m]: the App's key
    roomKeyB64, \* roomKeyB64[m]: its text, of which invite links are made
    rotation,   \* rotation[m]: the rotation m has begun, or Idle
    wire,       \* wire[s][r]: key updates from s that r has not received
    tasks,      \* tasks[m]: key updates whose handlers wait for Web Crypto
    imports,    \* imports[m]: keys onKeyRotated is importing for roomKeys
    lastKey,    \* the newest key: keys are numbered
    overlapped, \* whether a rotation ever began before earlier ones were over
    refused     \* whether the server ever refused a key update

keyVars == <<crypto, roomKeys, roomKeyB64>>
vars == <<keyVars, rotation, wire, tasks, imports, lastKey, overlapped, refused>>

Idle == [old |-> 0, new |-> 0]

Init ==
    /\ crypto = [m \in Members |-> 0]
    /\ roomKeys = [m \in Members |-> 0]
    /\ roomKeyB64 = [m \in Members |-> 0]
    /\ rotation = [m \in Members |-> Idle]
    /\ wire = [s \in Members |-> [r \in Members |-> <<>>]]
    /\ tasks = [m \in Members |-> {}]
    /\ imports = [m \in Members |-> {}]
    /\ lastKey = 0
    /\ overlapped = FALSE
    /\ refused = FALSE

(* Nobody has anything left to do. *)
Settled ==
    \A m \in Members :
        /\ rotation[m] = Idle
        /\ tasks[m] = {} /\ imports[m] = {}
        /\ \A r \in Members : wire[m][r] = <<>>

-----------------------------------------------------------------------------
(* rotateKeyViaE2EE.  The old key is read from roomKeys at the click; the  *)
(* rotating flag keeps a member from rotating twice at once.               *)
StartRotate(m) ==
    /\ rotation[m] = Idle
    /\ lastKey < MaxKey
    /\ lastKey' = lastKey + 1
    /\ rotation' = [rotation EXCEPT ![m] = [old |-> roomKeys[m], new |-> lastKey + 1]]
    /\ overlapped' = (overlapped \/ ~Settled)
    /\ UNCHANGED <<keyVars, wire, tasks, imports, refused>>

AdoptInApp(m, k) ==
    /\ roomKeys' = [roomKeys EXCEPT ![m] = k]
    /\ roomKeyB64' = [roomKeyB64 EXCEPT ![m] = k]
    /\ UNCHANGED crypto

AdoptOwn(m, k) ==
    /\ roomKeys' = [roomKeys EXCEPT ![m] = k]
    /\ roomKeyB64' = [roomKeyB64 EXCEPT ![m] = k]
    /\ crypto' = [crypto EXCEPT ![m] = k]

(* The key is made and wrapped.  Without a connection it is given up.      *)
AbortRotate(m) ==
    /\ rotation[m] # Idle
    /\ rotation' = [rotation EXCEPT ![m] = Idle]
    /\ UNCHANGED <<keyVars, wire, tasks, imports, lastKey, overlapped, refused>>

(* Otherwise it is sent, and adopted without another event in between,     *)
(* before the server has judged the update.                                *)
Adopted(m) ==
    /\ rotation[m] # Idle
    /\ AdoptOwn(m, rotation[m].new)
    /\ rotation' = [rotation EXCEPT ![m] = Idle]
    /\ UNCHANGED <<tasks, imports, lastKey, overlapped>>

(* The sender's own echo is ignored, so it is left out. *)
SendRotate(m) ==
    /\ Adopted(m)
    /\ wire' = [wire EXCEPT ![m] = [r \in Members |->
                    IF r = m THEN @[r] ELSE Append(@[r], rotation[m])]]
    /\ UNCHANGED refused

(* The server refuses the update (a budget is used up), or the connection  *)
(* is lost with it: nobody takes the adopted key back.                     *)
RefuseRotate(m) ==
    /\ Adopted(m)
    /\ refused' = TRUE
    /\ UNCHANGED wire

-----------------------------------------------------------------------------
(* The store's key_updated handler *)

Receive(s, r) ==
    /\ wire[s][r] # <<>>
    /\ wire' = [wire EXCEPT ![s][r] = Tail(@)]
    /\ tasks' = [tasks EXCEPT ![r] = @ \cup
                    {[update |-> Head(wire[s][r]), key |-> crypto[r], stage |-> "decrypt"]}]
    /\ UNCHANGED <<keyVars, rotation, imports, lastKey, overlapped, refused>>

Unwrap(m, t) ==
    /\ t.stage = "decrypt"
    /\ tasks' = [tasks EXCEPT ![m] = (@ \ {t}) \cup
                    (IF t.key = t.update.old THEN {[t EXCEPT !.stage = "import"]} ELSE {})]
    /\ UNCHANGED <<keyVars, rotation, wire, imports, lastKey, overlapped, refused>>

(* onKeyRotated: the text is stored at once, the key when it is imported. *)
OnKeyRotatedText(m, k) ==
    /\ roomKeyB64' = [roomKeyB64 EXCEPT ![m] = k]
    /\ UNCHANGED imports

OnKeyRotated(m, k) ==
    /\ roomKeyB64' = [roomKeyB64 EXCEPT ![m] = k]
    /\ imports' = [imports EXCEPT ![m] = @ \cup {k}]

AdoptUpdate(m, t) ==
    /\ t.stage = "import"
    /\ tasks' = [tasks EXCEPT ![m] = @ \ {t}]
    /\ crypto' = [crypto EXCEPT ![m] = t.update.new]
    /\ OnKeyRotated(m, t.update.new)
    /\ UNCHANGED <<roomKeys, rotation, wire, lastKey, overlapped, refused>>

Imported(m, k) ==
    /\ imports' = [imports EXCEPT ![m] = @ \ {k}]
    /\ roomKeys' = [roomKeys EXCEPT ![m] = k]
    /\ UNCHANGED <<crypto, roomKeyB64, rotation, wire, tasks, lastKey, overlapped, refused>>

-----------------------------------------------------------------------------
Next ==
    \E m \in Members :
        \/ StartRotate(m)
        \/ AbortRotate(m) \/ SendRotate(m) \/ RefuseRotate(m)
        \/ \E r \in Members : Receive(m, r)
        \/ \E t \in tasks[m] : Unwrap(m, t) \/ AdoptUpdate(m, t)
        \/ \E k \in imports[m] : Imported(m, k)

Spec == Init /\ [][Next]_vars

(* Once the rotations are over everybody can read everybody: the button    *)
(* promises that all members get the new key.  Two things may split the    *)
(* room: rotations that overlap, which nothing orders, and an update that  *)
(* reaches nobody after its sender has adopted the key.                    *)
OneRoomKey ==
    Settled /\ ~overlapped /\ ~refused => \A m, n \in Members : crypto[m] = crypto[n]

(* Once the rotations are over, the App's copies are the key the store     *)
(* uses: what the App encrypts (names, the next rotation) and the links it *)
(* copies fit what the room can read.  With rotations that overlap, the    *)
(* late import of an older key may replace a newer one in roomKeys; the    *)
(* text follows the store even then.                                       *)
KeyCopiesAgree ==
    Settled => \A m \in Members :
        roomKeyB64[m] = crypto[m] /\ (overlapped \/ roomKeys[m] = crypto[m])

=============================================================================
