------------------------------ MODULE TabProofs ------------------------------
(***************************************************************************)
(* A browser tab with any number of attempts to create a room, any rooms   *)
(* and any texts: what a call of createChannel leaves behind, what it      *)
(* leaves on the server, and which room gets what was typed.               *)
(***************************************************************************)
EXTENDS Tab, TLAPS

(* One of the dialog's own steps, or none of them. *)
DialogStep ==
    \/ Submit
    \/ \E a \in Attempts : Finish(a) \/ Event(a)
    \/ UNCHANGED vars

(* One of the composer's own steps, a change of view, or none of them. *)
ComposerStep ==
    \/ Composer!Next
    \/ \E r \in Pages' : Composer!Switch(r)
    \/ UNCHANGED composerVars

(* The two forms take their steps apart, but for the end of the dialog. *)
LEMMA StepsApart == [TabNext]_tabVars => DialogStep /\ ComposerStep
<1> SUFFICES ASSUME [TabNext]_tabVars PROVE DialogStep /\ ComposerStep
  OBVIOUS
<1>1. CASE Navigate
  <2>1. Pages' = Pages
    BY <1>1 DEF Navigate, Pages, vars, Composer!Elsewhere
  <2> QED
    BY <1>1, <2>1 DEF Navigate, DialogStep, ComposerStep
<1>2. CASE Composer!Next /\ UNCHANGED vars
  BY <1>2 DEF DialogStep, ComposerStep
<1>3. CASE SubmitHere
  BY <1>3 DEF SubmitHere, DialogStep, ComposerStep
<1>4. ASSUME NEW a \in Attempts, FinishHere(a) PROVE DialogStep /\ ComposerStep
  <2>1. CASE a \in entered'
    BY <1>4, <2>1 DEF FinishHere, DialogStep, ComposerStep, Pages
  <2>2. CASE a \notin entered'
    BY <1>4, <2>2 DEF FinishHere, DialogStep, ComposerStep
  <2> QED
    BY <2>1, <2>2
<1>5. ASSUME NEW a \in Attempts, Event(a) /\ UNCHANGED composerVars
      PROVE  DialogStep /\ ComposerStep
  BY <1>5 DEF DialogStep, ComposerStep
<1>6. CASE UNCHANGED tabVars
  BY <1>6 DEF tabVars, DialogStep, ComposerStep
<1> QED
  BY <1>1, <1>2, <1>3, <1>4, <1>5, <1>6 DEF TabNext

-----------------------------------------------------------------------------
(* The dialog *)

DialogTypes ==
    /\ attempt \in 0..MaxAttempts
    /\ promise \in [Attempts -> {"none", "pending"} \cup Outcomes]
    /\ settled \in [Attempts -> Nat]
    /\ timer \in [Attempts -> BOOLEAN]
    /\ handlers \in [Attempts -> BOOLEAN]
    /\ socket \in [Attempts -> {"none", "connecting", "open", "closed"}]
    /\ requests \in [Attempts -> {0, 1}]
    /\ answers \in [Attempts -> {<<>>, <<"created">>, <<"refused">>}]
    /\ rooms \subseteq Attempts

(* A call that waits has everything armed, one that has not begun or has    *)
(* settled has nothing.                                                     *)
CallInv(a) ==
    /\ promise[a] = "none" <=> a > attempt
    /\ promise[a] = "none" => settled[a] = 0 /\ ~timer[a] /\ ~handlers[a] /\ socket[a] = "none"
    /\ promise[a] = "pending" => settled[a] = 0 /\ timer[a] /\ handlers[a]
    /\ promise[a] \in Outcomes =>
           settled[a] = 1 /\ ~timer[a] /\ ~handlers[a] /\ socket[a] = "closed"

(* A call asks once, when its socket opens, so it is answered once at most: *)
(* no room is made after a refusal, nor the other way round.                *)
WireInv(a) ==
    /\ socket[a] \in {"none", "connecting"} =>
           requests[a] = 0 /\ answers[a] = <<>> /\ a \notin rooms
    /\ requests[a] = 1 => answers[a] = <<>> /\ a \notin rooms
    /\ answers[a] = <<"refused">> => a \notin rooms
    /\ promise[a] = "refused" => requests[a] = 0 /\ a \notin rooms

DialogInv == DialogTypes /\ \A a \in Attempts : CallInv(a) /\ WireInv(a)

LEMMA DialogInit == Init => DialogInv
<1> SUFFICES ASSUME Init PROVE DialogInv
  OBVIOUS
<1>1. DialogTypes
  BY CreateAssumption DEF Init, DialogTypes
<1>2. ASSUME NEW a \in Attempts PROVE CallInv(a) /\ WireInv(a)
  BY CreateAssumption DEF Init, CallInv, WireInv, Attempts, Outcomes
<1> QED
  BY <1>1, <1>2 DEF DialogInv

LEMMA DialogUntouched ==
    ASSUME DialogInv,
           UNCHANGED <<attempt, promise, settled, timer, handlers, socket, requests, answers, rooms>>
    PROVE  DialogInv'
<1>1. DialogTypes'
  BY DEF DialogInv, DialogTypes
<1>2. ASSUME NEW a \in Attempts PROVE CallInv(a)' /\ WireInv(a)'
  BY DEF DialogInv, CallInv, WireInv
<1> QED
  BY <1>1, <1>2 DEF DialogInv

(* A call whose promise has not settled settles, with its outcome. *)
LEMMA SettleInv ==
    ASSUME DialogInv, NEW a \in Attempts, NEW o \in Outcomes, Settle(a, o),
           promise[a] = "pending", o = "refused" => requests[a] = 0 /\ a \notin rooms,
           UNCHANGED <<attempt, requests, rooms>>,
           answers' = answers \/ answers' = [answers EXCEPT ![a] = <<>>]
    PROVE  DialogInv'
<1> USE DEF DialogInv
<1>1. /\ promise' = [promise EXCEPT ![a] = o] /\ timer' = [timer EXCEPT ![a] = FALSE]
      /\ settled' = [settled EXCEPT ![a] = @ + 1]
      /\ handlers' = [handlers EXCEPT ![a] = FALSE] /\ socket' = [socket EXCEPT ![a] = "closed"]
  BY DEF Settle, TimerCleared, CleanedUp, DialogTypes
<1>2. DialogTypes'
  BY <1>1 DEF DialogTypes
<1>3. settled'[a] = 1
  BY <1>1 DEF DialogTypes, CallInv
<1>4. CallInv(a)' /\ WireInv(a)'
  <2>1. promise'[a] = o /\ ~timer'[a] /\ ~handlers'[a] /\ socket'[a] = "closed"
    BY <1>1 DEF DialogTypes
  <2>2. ~(a > attempt')
    BY DEF CallInv
  <2>3. CallInv(a)'
    BY <1>3, <2>1, <2>2 DEF CallInv, Outcomes
  <2>4. answers'[a] = answers[a] \/ answers'[a] = <<>>
    BY DEF DialogTypes
  <2>5. /\ requests[a] = 1 => answers[a] = <<>> /\ a \notin rooms
        /\ answers[a] = <<"refused">> => a \notin rooms
    BY DEF WireInv
  <2>6. <<>> # <<"refused">>
    OBVIOUS
  <2>7. WireInv(a)'
    BY <2>1, <2>4, <2>5, <2>6 DEF WireInv
  <2> QED
    BY <2>3, <2>7
<1>5. ASSUME NEW b \in Attempts, b # a PROVE CallInv(b)' /\ WireInv(b)'
  BY <1>1, <1>5 DEF DialogTypes, CallInv, WireInv
<1> QED
  BY <1>2, <1>4, <1>5

LEMMA DialogNext == DialogInv /\ DialogStep => DialogInv'
<1> SUFFICES ASSUME DialogInv, DialogStep PROVE DialogInv'
  OBVIOUS
<1>1. CASE Submit
  <2>0. PICK a \in Attempts : a = attempt + 1
    BY <1>1 DEF Submit
  <2>1. /\ attempt' = a /\ a > attempt /\ attempt \in Nat
        /\ promise' = [promise EXCEPT ![a] = "pending"]
        /\ timer' = [timer EXCEPT ![a] = TRUE] /\ handlers' = [handlers EXCEPT ![a] = TRUE]
        /\ socket' = [socket EXCEPT ![a] = "connecting"]
        /\ UNCHANGED <<settled, requests, answers, rooms>>
    BY <1>1, <2>0 DEF Submit, DialogInv, DialogTypes
  <2>2. promise[a] = "none" /\ socket[a] = "none" /\ settled[a] = 0
    BY <2>1 DEF DialogInv, CallInv
  <2>3. DialogTypes'
    BY <2>1 DEF DialogInv, DialogTypes, Attempts
  <2>4. CallInv(a)' /\ WireInv(a)'
    <3>1. /\ promise'[a] = "pending" /\ timer'[a] /\ handlers'[a] /\ settled'[a] = 0
          /\ ~(a > attempt')
      BY <2>1, <2>2 DEF DialogInv, DialogTypes, Attempts
    <3>2. CallInv(a)'
      BY <3>1 DEF CallInv, Outcomes
    <3>3. requests'[a] = 0 /\ answers'[a] = <<>> /\ a \notin rooms' /\ <<>> # <<"refused">>
      BY <2>1, <2>2 DEF DialogInv, WireInv
    <3> QED
      BY <3>1, <3>2, <3>3 DEF WireInv
  <2>5. ASSUME NEW b \in Attempts, b # a PROVE CallInv(b)' /\ WireInv(b)'
    <3>1. b > attempt <=> b > attempt'
      BY <2>0, <2>1, <2>5 DEF Attempts
    <3> QED
      BY <2>1, <2>5, <3>1 DEF DialogInv, DialogTypes, CallInv, WireInv
  <2> QED
    BY <2>3, <2>4, <2>5 DEF DialogInv
<1>2. ASSUME NEW a \in Attempts, Finish(a) PROVE DialogInv'
  <2>1. UNCHANGED <<attempt, promise, settled, timer, handlers, socket, requests, answers, rooms>>
    BY <1>2 DEF Finish, clientVars
  <2> QED
    BY <2>1, DialogUntouched
<1>3. ASSUME NEW a \in Attempts, Timeout(a) PROVE DialogInv'
  <2>1. promise[a] = "pending" /\ settled[a] = 0
    BY <1>3 DEF Timeout, DialogInv, DialogTypes, CallInv
  <2>2. Settle(a, "timeout") /\ UNCHANGED <<attempt, requests, answers, rooms>>
    BY <1>3, <2>1 DEF Timeout
  <2> QED
    BY <2>1, <2>2, SettleInv DEF Outcomes
<1>4. ASSUME NEW a \in Attempts, Open(a) PROVE DialogInv'
  <2>1. /\ socket[a] = "connecting" /\ socket' = [socket EXCEPT ![a] = "open"]
        /\ requests[a] = 0 /\ answers[a] = <<>> /\ a \notin rooms
        /\ promise[a] = "pending"
        /\ UNCHANGED <<attempt, promise, settled, timer, handlers, answers, rooms>>
    BY <1>4 DEF Open, DialogInv, DialogTypes, CallInv, WireInv, Outcomes
  <2>2. requests' = [requests EXCEPT ![a] = 1]
    <3>1. handlers[a] /\ requests[a] + 1 = 1
      BY <2>1 DEF DialogInv, CallInv
    <3> QED
      BY <1>4, <3>1 DEF Open
  <2>3. DialogTypes'
    BY <2>1, <2>2 DEF DialogInv, DialogTypes
  <2>4. CallInv(a)' /\ WireInv(a)'
    BY <2>1, <2>2 DEF DialogInv, DialogTypes, CallInv, WireInv, Outcomes
  <2>5. ASSUME NEW b \in Attempts, b # a PROVE CallInv(b)' /\ WireInv(b)'
    BY <2>1, <2>2, <2>5 DEF DialogInv, DialogTypes, CallInv, WireInv
  <2> QED
    BY <2>3, <2>4, <2>5 DEF DialogInv
<1>5. ASSUME NEW a \in Attempts, Fail(a) PROVE DialogInv'
  <2>1. /\ socket' = [socket EXCEPT ![a] = "closed"] /\ socket[a] # "none"
        /\ UNCHANGED <<attempt, promise, settled, timer, handlers, requests, answers, rooms>>
    BY <1>5 DEF Fail
  <2>2. DialogTypes'
    BY <2>1 DEF DialogInv, DialogTypes
  <2>3. ASSUME NEW b \in Attempts PROVE CallInv(b)' /\ WireInv(b)'
    BY <2>1 DEF DialogInv, DialogTypes, CallInv, WireInv
  <2> QED
    BY <2>2, <2>3 DEF DialogInv
<1>6. ASSUME NEW a \in Attempts, Answer(a) PROVE DialogInv'
  <2>1. /\ answers[a] \in {<<"created">>, <<"refused">>}
        /\ answers' = [answers EXCEPT ![a] = <<>>]
        /\ UNCHANGED <<attempt, requests, rooms>>
    <3>1. answers[a] # <<>> /\ answers' = [answers EXCEPT ![a] = Tail(answers[a])]
          /\ UNCHANGED <<attempt, requests, rooms>>
      BY <1>6 DEF Answer
    <3>2. answers[a] \in {<<"created">>, <<"refused">>}
      BY <3>1 DEF DialogInv, DialogTypes
    <3>3. Tail(answers[a]) = <<>>
      BY <3>2, Tail(<<"created">>) = <<>>, Tail(<<"refused">>) = <<>>
    <3> QED
      BY <3>1, <3>2, <3>3
  <2>2. CASE socket[a] = "open" /\ handlers[a]
    <3>1. promise[a] = "pending" /\ Settle(a, Head(answers[a]))
      BY <1>6, <2>2 DEF Answer, DialogInv, DialogTypes, CallInv
    <3>2. requests[a] = 0
      <4>1. requests[a] \in {0, 1} /\ (requests[a] = 1 => answers[a] = <<>>)
        BY DEF DialogInv, DialogTypes, WireInv
      <4>2. <<"created">> # <<>> /\ <<"refused">> # <<>>
        OBVIOUS
      <4> QED
        BY <2>1, <4>1, <4>2
    <3>3. /\ Head(answers[a]) \in Outcomes
          /\ Head(answers[a]) = "refused" => answers[a] = <<"refused">>
      BY <2>1 DEF Outcomes
    <3>4. Head(answers[a]) = "refused" => requests[a] = 0 /\ a \notin rooms
      BY <3>2, <3>3 DEF DialogInv, WireInv
    <3> QED
      BY <2>1, <3>1, <3>3, <3>4, SettleInv
  <2>3. CASE ~(socket[a] = "open" /\ handlers[a])
    <3>1. UNCHANGED <<promise, settled, timer, handlers, socket>>
      BY <1>6, <2>3 DEF Answer, clientVars
    <3>2. DialogTypes'
      BY <2>1, <3>1 DEF DialogInv, DialogTypes
    <3>3. ASSUME NEW b \in Attempts PROVE CallInv(b)' /\ WireInv(b)'
      BY <2>1, <3>1 DEF DialogInv, DialogTypes, CallInv, WireInv
    <3> QED
      BY <3>2, <3>3 DEF DialogInv
  <2> QED
    BY <2>2, <2>3
<1>7. ASSUME NEW a \in Attempts, Serve(a) PROVE DialogInv'
  <2>1. /\ requests[a] = 1 /\ answers[a] = <<>> /\ a \notin rooms
        /\ requests' = [requests EXCEPT ![a] = 0]
        /\ UNCHANGED <<attempt, promise, settled, timer, handlers, socket>>
    <3>1. /\ requests[a] > 0 /\ requests' = [requests EXCEPT ![a] = requests[a] - 1]
          /\ UNCHANGED <<attempt, promise, settled, timer, handlers, socket>>
      BY <1>7 DEF Serve, clientVars
    <3>2. requests[a] = 1 /\ requests[a] - 1 = 0
      BY <3>1 DEF DialogInv, DialogTypes
    <3>3. answers[a] = <<>> /\ a \notin rooms
      BY <3>2 DEF DialogInv, WireInv
    <3> QED
      BY <3>1, <3>2, <3>3
  <2>2. \/ rooms' = rooms \cup {a} /\ answers' = [answers EXCEPT ![a] = <<"created">>]
        \/ rooms' = rooms /\ answers' = [answers EXCEPT ![a] = <<"refused">>]
    BY <1>7, <2>1 DEF Serve, RefusedFirst, DialogInv, DialogTypes
  <2>3. DialogTypes'
    BY <2>1, <2>2 DEF DialogInv, DialogTypes
  <2>4. CallInv(a)' /\ WireInv(a)'
    BY <2>1, <2>2 DEF DialogInv, DialogTypes, CallInv, WireInv
  <2>5. ASSUME NEW b \in Attempts, b # a PROVE CallInv(b)' /\ WireInv(b)'
    BY <2>1, <2>2, <2>5 DEF DialogInv, DialogTypes, CallInv, WireInv
  <2> QED
    BY <2>3, <2>4, <2>5 DEF DialogInv
<1>8. ASSUME NEW a \in Attempts, Lose(a) PROVE DialogInv'
  <2>1. /\ requests' = [requests EXCEPT ![a] = 0]
        /\ UNCHANGED <<attempt, promise, settled, timer, handlers, socket, answers, rooms>>
    BY <1>8 DEF Lose, clientVars
  <2>2. DialogTypes'
    BY <2>1 DEF DialogInv, DialogTypes
  <2>3. ASSUME NEW b \in Attempts PROVE CallInv(b)' /\ WireInv(b)'
    BY <2>1 DEF DialogInv, DialogTypes, CallInv, WireInv
  <2> QED
    BY <2>2, <2>3 DEF DialogInv
<1>9. CASE UNCHANGED vars
  BY <1>9, DialogUntouched DEF vars, clientVars
<1> QED
  BY <1>1, <1>2, <1>3, <1>4, <1>5, <1>6, <1>7, <1>8, <1>9 DEF DialogStep, Event

LEMMA DialogAlways == TabSpec => []DialogInv
<1>1. TabInit => DialogInv
  BY DialogInit DEF TabInit
<1>2. DialogInv /\ [TabNext]_tabVars => DialogInv'
  BY StepsApart, DialogNext
<1> QED
  BY <1>1, <1>2, PTL DEF TabSpec

(* Whichever of answer, timeout and failure comes first, and whatever comes *)
(* after it: a call settles once and then holds no timer, handler or socket. *)
THEOREM CallsCleanUp == TabSpec => []NothingLeftBehind
<1>1. DialogInv => NothingLeftBehind
  BY DEF DialogInv, DialogTypes, CallInv, NothingLeftBehind
<1> QED
  BY <1>1, DialogAlways, PTL

(* The server never has the room of a call that the user saw refused. *)
THEOREM RefusalsLeaveNoRoom == TabSpec => []OrphansByTimeout
<1>1. DialogInv => OrphansByTimeout
  BY DEF DialogInv, DialogTypes, WireInv, OrphansByTimeout, Outcomes
<1> QED
  BY <1>1, DialogAlways, PTL

-----------------------------------------------------------------------------
(* The composer *)

(* What is under way was sent with Enter, and the input that a send may     *)
(* clear holds the text of that send, or one typed since it began.          *)
ComposerInv ==
    /\ frames \in [Rooms -> SUBSET Texts]
    /\ \A s \in sends :
           /\ s.room \in Rooms
           /\ s.text \in Texts
           /\ <<s.room, s.text>> \in pressed
           /\ input \in {Composer!NoText, s.text} \cup hurried
    /\ input \in Texts \cup {Composer!NoText}
    /\ unused \subseteq Texts
    /\ InputReachesItsRoom

LEMMA ComposerInit == Composer!Init => ComposerInv
  BY DEF Composer!Init, ComposerInv, InputReachesItsRoom, Composer!InputReachesItsRoom

LEMMA ComposerNext == ComposerInv /\ ComposerStep => ComposerInv'
<1> SUFFICES ASSUME ComposerInv, ComposerStep PROVE ComposerInv'
  OBVIOUS
<1> USE DEF ComposerInv, InputReachesItsRoom, Composer!InputReachesItsRoom
<1>1. ASSUME NEW t \in Texts, Composer!Type(t) PROVE ComposerInv'
  BY <1>1 DEF Composer!Type
<1>2. CASE Composer!Send
  <2>1. PICK id : sends' = sends \cup {[id |-> id, room |-> view, text |-> input]}
    BY <1>2 DEF Composer!Send
  <2>2. /\ view \in Rooms /\ input # Composer!NoText /\ pressed' = pressed \cup {<<view, input>>}
        /\ UNCHANGED <<view, input, unused, frames, hurried, lost>>
    BY <1>2 DEF Composer!Send
  <2> QED
    BY <2>1, <2>2
<1>3. ASSUME NEW s \in sends, Composer!FinishSend(s) PROVE ComposerInv'
  <2>1. PICK ok \in BOOLEAN :
            /\ sends' = sends \ {s}
            /\ frames' = IF ok THEN [frames EXCEPT ![s.room] = @ \cup {s.text}] ELSE frames
            /\ input' = IF ok THEN Composer!NoText ELSE input
            /\ lost' = IF input' = Composer!NoText /\ input # Composer!NoText
                           /\ \A r \in Rooms : input \notin frames'[r]
                       THEN lost \cup {input} ELSE lost
            /\ UNCHANGED <<view, unused, pressed, hurried>>
    BY <1>3 DEF Composer!FinishSend, Composer!RoomOf, Composer!ClearsIfSent
  <2>2. CASE ok
    <3>1. frames' = [frames EXCEPT ![s.room] = @ \cup {s.text}]
      BY <2>1, <2>2
    <3>2. frames' \in [Rooms -> SUBSET Texts]
          /\ \A r \in Rooms : \A t \in frames'[r] : <<r, t>> \in pressed'
      <4>1. s.room \in Rooms /\ s.text \in Texts /\ <<s.room, s.text>> \in pressed
        OBVIOUS
      <4>2. frames' \in [Rooms -> SUBSET Texts]
        BY <3>1, <4>1
      <4>3. ASSUME NEW r \in Rooms, NEW t \in frames'[r] PROVE <<r, t>> \in pressed
        <5>1. CASE r = s.room
          <6>1. t = s.text \/ t \in frames[r]
            BY <3>1, <4>3, <5>1
          <6> QED
            BY <4>1, <5>1, <6>1
        <5>2. CASE r # s.room
          BY <3>1, <4>3, <5>2
        <5> QED
          BY <5>1, <5>2
      <4> QED
        BY <2>1, <4>2, <4>3
    <3>3. s.text \in frames'[s.room]
      BY <3>1
    <3>4. lost' \subseteq hurried'
      BY <2>1, <3>3
    <3> QED
      BY <2>1, <2>2, <3>2, <3>4
  <2>3. CASE ~ok
    BY <2>1, <2>3
  <2> QED
    BY <2>2, <2>3
<1>4. ASSUME NEW r, Composer!Switch(r) PROVE ComposerInv'
  BY <1>4 DEF Composer!Switch
<1>5. CASE UNCHANGED composerVars
  BY <1>5 DEF composerVars
<1> QED
  BY <1>1, <1>2, <1>3, <1>4, <1>5 DEF ComposerStep, Composer!Next

(* However the user and the dialog change the view while texts are signed   *)
(* and sealed: a text is sent in the room in which Enter was pressed, and   *)
(* one that was never sent is cleared only if it was typed meanwhile.       *)
THEOREM TextsReachTheirRoom == TabSpec => []InputReachesItsRoom
<1>1. TabInit => ComposerInv
  BY ComposerInit DEF TabInit
<1>2. ComposerInv /\ [TabNext]_tabVars => ComposerInv'
  BY StepsApart, ComposerNext
<1>3. ComposerInv => InputReachesItsRoom
  BY DEF ComposerInv
<1> QED
  BY <1>1, <1>2, <1>3, PTL DEF TabSpec
=============================================================================
