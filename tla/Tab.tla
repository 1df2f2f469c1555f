--------------------------------- MODULE Tab ---------------------------------
(***************************************************************************)
(* A browser tab with its two forms (frontend/src/App.svelte): the dialog  *)
(* that creates a room and the input that sends to the room in view.  The  *)
(* dialog takes the user to its room when the server's answer is there,    *)
(* wherever the user has gone in the meantime and whatever is being typed  *)
(* or sent.                                                                *)
(***************************************************************************)
EXTENDS CreateDialog, FiniteSets

CONSTANTS
    Rooms,
    OldRoom,        \* a room the tab is in from the start
    NewRoom,        \* NewRoom[a]: the room that attempt a creates
    Texts, LongTexts, MaxSends      \* Composer

ASSUME TabAssumption ==
    /\ OldRoom \in Rooms
    /\ NewRoom \in [Attempts -> Rooms \ {OldRoom}]
    /\ LongTexts \subseteq Texts
    /\ MaxSends \in Nat

VARIABLES view, input, unused, sends, frames, pressed, hurried, lost

Composer == INSTANCE Composer

composerVars == <<view, input, unused, sends, frames, pressed, hurried, lost>>

tabVars == <<vars, composerVars>>

TabInit == Init /\ Composer!Init

Pages == {Composer!Elsewhere, OldRoom} \cup {NewRoom[a] : a \in entered}

(* A click in the sidebar, or back and forward. *)
Navigate == \E r \in Pages : Composer!Switch(r) /\ UNCHANGED vars

SubmitHere == view = Composer!Elsewhere /\ Submit /\ UNCHANGED composerVars

(* The end of handleCreateRoom: a room that was created comes into view. *)
FinishHere(a) ==
    /\ Finish(a)
    /\ IF a \in entered' THEN Composer!Switch(NewRoom[a]) ELSE UNCHANGED composerVars

TabNext ==
    \/ Navigate
    \/ Composer!Next /\ UNCHANGED vars
    \/ SubmitHere
    \/ \E a \in Attempts : FinishHere(a)
    \/ \E a \in Attempts : Event(a) /\ UNCHANGED composerVars

(* The timer fires, and a settled promise runs its continuation. *)
Fairness == \A a \in Attempts : WF_vars(Timeout(a)) /\ WF_vars(Finish(a))

TabSpec == TabInit /\ [][TabNext]_tabVars /\ Fairness

-----------------------------------------------------------------------------
(* Whatever else the tab does meanwhile: the input's text is sent in the   *)
(* room that was in view when Enter was pressed, although a switch, or the *)
(* dialog's end, may change the view while it is signed and sealed         *)
(* and the input is cleared of a text that was not sent only if that text  *)
(* was typed while a send was under way (App.svelte, handleSend).          *)
InputReachesItsRoom == Composer!InputReachesItsRoom
=============================================================================
