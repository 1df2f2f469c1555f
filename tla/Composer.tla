------------------------------- MODULE Composer -------------------------------
(***************************************************************************)
(* Sending what is typed: handleSend in frontend/src/App.svelte and        *)
(* sendMessage in frontend/src/channel.svelte.ts.  The tab has one input   *)
(* for all its rooms.  A send signs and seals the text, which are awaits,  *)
(* and clears the input when the frame has been handed over.  Enter is     *)
(* never disabled (Composer.svelte).                                       *)
(***************************************************************************)
EXTENDS Integers, FiniteSets

CONSTANTS
    Rooms,
    Texts,
    LongTexts,      \* those over the plaintext budget when wrapped
    MaxSends        \* bound on the sends under way

NoText == "no text"

Elsewhere == "elsewhere"    \* a page that is no room's

VARIABLES
    view,           \* the room in view, or Elsewhere
    input,
    unused,         \* texts that have not been typed
    sends,          \* sends under way: the store's room and the text
    frames,         \* frames[r]: texts sent in room r
    pressed,        \* rooms and texts for which Enter was pressed
    hurried,        \* texts typed while a send was under way
    lost            \* texts that were cleared and never sent

vars == <<view, input, unused, sends, frames, pressed, hurried, lost>>

Init ==
    /\ view = Elsewhere
    /\ input = NoText
    /\ unused = Texts
    /\ sends = {}
    /\ frames = [r \in Rooms |-> {}]
    /\ pressed = {}
    /\ hurried = {}
    /\ lost = {}

Type(t) ==
    /\ view \in Rooms
    /\ t \in unused
    /\ input' = t
    /\ unused' = unused \ {t}
    /\ hurried' = IF sends # {} THEN hurried \cup {t} ELSE hurried
    /\ UNCHANGED <<view, sends, frames, pressed, lost>>

(* The input stays when another room or page comes into view. *)
Switch(r) ==
    /\ r # view
    /\ view' = r
    /\ UNCHANGED <<input, unused, sends, frames, pressed, hurried, lost>>

(* Enter: the same text may be under way already, in a send of its own. *)
Send ==
    /\ view \in Rooms
    /\ input # NoText
    /\ Cardinality(sends) < MaxSends
    /\ \E id \in 1..MaxSends :
          /\ \A s \in sends : s.id # id
          /\ sends' = sends \cup {[id |-> id, room |-> view, text |-> input]}
    /\ pressed' = pressed \cup {<<view, input>>}
    /\ UNCHANGED <<view, input, unused, frames, hurried, lost>>

(* The room of the store that handleSend called *)
RoomInView(s) == view

RoomOf(s) == s.room

ClearsIfSent(ok) == ok

(* The rest of sendMessage and of handleSend.  A text over the budget is   *)
(* refused before it is sealed; signing, sealing and the socket may fail.  *)
FinishSend(s) ==
    \E ok \in BOOLEAN :
        /\ s \in sends
        /\ ok => s.text \notin LongTexts
        /\ sends' = sends \ {s}
        /\ frames' = IF ok THEN [frames EXCEPT ![RoomOf(s)] = @ \cup {s.text}] ELSE frames
        /\ input' = IF ClearsIfSent(ok) THEN NoText ELSE input
        /\ lost' = IF input' = NoText /\ input # NoText /\ \A r \in Rooms : input \notin frames'[r]
                   THEN lost \cup {input} ELSE lost
        /\ UNCHANGED <<view, unused, pressed, hurried>>

(* What happens in one view; Tab has the changes of view. *)
Next ==
    \/ \E t \in Texts : Type(t)
    \/ Send
    \/ \E s \in sends : FinishSend(s)

-----------------------------------------------------------------------------
(* Properties *)

(* A message is sent in the room that was in view when Enter was pressed,  *)
(* although the room in view may change while it is signed and sealed; and *)
(* the input is cleared of a text that was not sent only if that text was  *)
(* typed while a send was under way: a failed send keeps its text.         *)
InputReachesItsRoom ==
    /\ \A r \in Rooms : \A t \in frames[r] : <<r, t>> \in pressed
    /\ lost \subseteq hurried

=============================================================================
