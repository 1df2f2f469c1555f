----------------------------- MODULE CreateDialog -----------------------------
(***************************************************************************)
(* Creating a room: handleCreateRoom (frontend/src/App.svelte) waits for   *)
(* createChannel (frontend/src/channel.svelte.ts), which opens a socket of *)
(* its own, asks once and settles its promise on the first answer or after *)
(* five seconds, while the server goes on.  Validating the two fields and  *)
(* making the key come before and touch nothing else.                      *)
(***************************************************************************)
EXTENDS Integers, Sequences

CONSTANTS
    MaxAttempts     \* bound on the calls of createChannel

ASSUME CreateAssumption == MaxAttempts \in Nat

Attempts == 1..MaxAttempts

VARIABLES
    attempt,        \* the number of createChannel calls so far
    creating,       \* the dialog's flag
    promise,        \* promise[a]: what the call returned
    settled,        \* settled[a]: how often resolve or reject was called
    timer,          \* timer[a]: whether the timeout is armed
    handlers,       \* handlers[a]: whether its message and status handlers are on
    socket,         \* socket[a]: state of its transport
    requests,       \* requests[a]: create_channel frames under way
    answers,        \* answers[a]: frames from the server under way
    rooms,          \* the attempts the server made a room for
    entered         \* the attempts whose room the app entered

clientVars == <<promise, settled, timer, handlers, socket>>
vars == <<attempt, creating, clientVars, requests, answers, rooms, entered>>

Outcomes == {"created", "refused", "timeout"}

Init ==
    /\ attempt = 0
    /\ creating = FALSE
    /\ promise = [a \in Attempts |-> "none"]
    /\ settled = [a \in Attempts |-> 0]
    /\ timer = [a \in Attempts |-> FALSE]
    /\ handlers = [a \in Attempts |-> FALSE]
    /\ socket = [a \in Attempts |-> "none"]
    /\ requests = [a \in Attempts |-> 0]
    /\ answers = [a \in Attempts |-> <<>>]
    /\ rooms = {}
    /\ entered = {}

(* A click on Create & Enter, with valid fields *)
Submit ==
    LET a == attempt + 1
    IN  /\ ~creating
        /\ a \in Attempts
        /\ attempt' = a
        /\ creating' = TRUE
        /\ promise' = [promise EXCEPT ![a] = "pending"]
        /\ timer' = [timer EXCEPT ![a] = TRUE]
        /\ handlers' = [handlers EXCEPT ![a] = TRUE]
        /\ socket' = [socket EXCEPT ![a] = "connecting"]
        /\ UNCHANGED <<settled, requests, answers, rooms, entered>>

CleanedUp(a) ==
    /\ handlers' = [handlers EXCEPT ![a] = FALSE]
    /\ socket' = [socket EXCEPT ![a] = "closed"]

TimerKept(a) == timer

TimerCleared(a) == [timer EXCEPT ![a] = FALSE]

(* A promise keeps the outcome it got first. *)
Settle(a, outcome) ==
    /\ settled' = [settled EXCEPT ![a] = @ + 1]
    /\ promise' = [promise EXCEPT ![a] = IF @ = "pending" THEN outcome ELSE @]
    /\ timer' = TimerCleared(a)
    /\ CleanedUp(a)

Timeout(a) ==
    /\ timer[a]
    /\ IF settled[a] = 0 THEN Settle(a, "timeout")
       ELSE timer' = [timer EXCEPT ![a] = FALSE] /\ UNCHANGED <<promise, settled, handlers, socket>>
    /\ UNCHANGED <<attempt, creating, requests, answers, rooms, entered>>

(* The status handler asks for the room when the socket opens. *)
Open(a) ==
    /\ socket[a] = "connecting"
    /\ socket' = [socket EXCEPT ![a] = "open"]
    /\ requests' = [requests EXCEPT ![a] = IF handlers[a] THEN @ + 1 ELSE @]
    /\ UNCHANGED <<attempt, creating, promise, settled, timer, handlers, answers, rooms, entered>>

(* The connection fails; the dialog waits for its timeout. *)
Fail(a) ==
    /\ socket[a] \in {"connecting", "open"}
    /\ socket' = [socket EXCEPT ![a] = "closed"]
    /\ UNCHANGED <<attempt, creating, promise, settled, timer, handlers, requests, answers, rooms, entered>>

Answer(a) ==
    /\ answers[a] # <<>>
    /\ answers' = [answers EXCEPT ![a] = Tail(@)]
    /\ IF socket[a] = "open" /\ handlers[a] THEN Settle(a, Head(answers[a]))
       ELSE UNCHANGED clientVars
    /\ UNCHANGED <<attempt, creating, requests, rooms, entered>>

ResetOnSuccess(a) == promise[a] # "created"

ResetFinally(a) == FALSE

(* handleCreateRoom goes on when its promise has settled. *)
Finish(a) ==
    /\ a = attempt
    /\ creating
    /\ promise[a] \in Outcomes
    /\ creating' = ResetFinally(a)
    /\ entered' = IF promise[a] = "created" THEN entered \cup {a} ELSE entered
    /\ UNCHANGED <<attempt, clientVars, requests, answers, rooms>>

-----------------------------------------------------------------------------
(* The server: a request within the budgets makes a room, another makes    *)
(* none.  A connection that is gone takes requests that were under way.    *)

RefusedTooLate(a) == rooms \cup {a}

RefusedFirst(a) == rooms

Serve(a) ==
    /\ requests[a] > 0
    /\ requests' = [requests EXCEPT ![a] = @ - 1]
    /\ \/ /\ rooms' = rooms \cup {a}
          /\ answers' = [answers EXCEPT ![a] = Append(@, "created")]
       \/ /\ rooms' = RefusedFirst(a)
          /\ answers' = [answers EXCEPT ![a] = Append(@, "refused")]
    /\ UNCHANGED <<attempt, creating, clientVars, entered>>

(* A frame of a connection that broke may be lost. *)
Lose(a) ==
    /\ socket[a] = "closed"
    /\ requests[a] > 0
    /\ requests' = [requests EXCEPT ![a] = 0]
    /\ UNCHANGED <<attempt, creating, clientVars, answers, rooms, entered>>

(* What happens to a call besides its beginning and its end *)
Event(a) == Timeout(a) \/ Open(a) \/ Fail(a) \/ Answer(a) \/ Serve(a) \/ Lose(a)

-----------------------------------------------------------------------------
(* Properties *)

(* However the answer, the timeout and a broken connection race, a call    *)
(* settles at most once, and leaves then no timer, no handler, no socket.  *)
NothingLeftBehind ==
    \A a \in Attempts :
        /\ settled[a] <= 1
        /\ promise[a] \in Outcomes => ~timer[a] /\ ~handlers[a] /\ socket[a] = "closed"

(* A room the server made and the app will not enter was given up for the  *)
(* timeout: a refusal the user sees leaves no room on the server.          *)
OrphansByTimeout ==
    \A a \in rooms : promise[a] \in Outcomes => promise[a] \in {"created", "timeout"}

(* The dialog always comes back, whatever the network and server do. *)
DialogReturns == creating ~> ~creating

=============================================================================
