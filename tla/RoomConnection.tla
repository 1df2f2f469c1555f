---------------------------- MODULE RoomConnection ----------------------------
(***************************************************************************)
(* A room's connection: Transport, the part of ChannelStore that joins the *)
(* room whenever the transport opens (frontend/src/channel.svelte.ts), and *)
(* the server's verdict on what arrives (backend/internal/ws).             *)
(*                                                                         *)
(* The store sends join_channel from a promise callback: once the identity *)
(* is ready that is a microtask, which runs after the event handler that   *)
(* opened the connection and before any other event.                       *)
(*                                                                         *)
(* Each socket is a new connection for the server, a member only once the  *)
(* server has taken a join from it.  The room is there and has a place:    *)
(* RelayServer is about when it does not.                                  *)
(***************************************************************************)
EXTENDS Transport

CONSTANT MaxCallbacks   \* bound on callbacks waiting for the identity

ASSUME CallbacksAssumption == MaxCallbacks \in Nat

VARIABLES
    identityReady,  \* whether the promise has resolved
    callbacks,      \* callbacks registered on it and not yet run
    subscribed,     \* whether the store still listens (until its disconnect)
    member,         \* member[s]: whether the server has s in the room
    refused         \* numbered frames the server answered with "not a member"

storeVars == <<identityReady, callbacks, subscribed, member, refused>>
vars == <<transportVars, storeVars>>

TypeOK ==
    /\ TransportTypeOK
    /\ identityReady \in BOOLEAN
    /\ callbacks \in 0..MaxCallbacks
    /\ subscribed \in BOOLEAN
    /\ member \in [Sockets -> BOOLEAN]
    /\ refused \subseteq 1..MaxFrames

Init ==
    /\ TransportInit
    /\ identityReady = FALSE
    /\ callbacks = 0
    /\ subscribed = TRUE
    /\ member = [s \in Sockets |-> FALSE]
    /\ refused = {}

-----------------------------------------------------------------------------
Microtask == identityReady /\ callbacks > 0

(* An event or a call from the application starts when no microtask waits. *)
Task == ~Microtask

IdentityReady ==
    /\ ~identityReady
    /\ identityReady' = TRUE
    /\ UNCHANGED <<transportVars, callbacks, subscribed, member, refused>>

JoinsIfIdentityReady == IF identityReady THEN 1 ELSE 0

(* The status handler registers a callback for every "open". *)
JoinsRegistered == 1

Open(s) ==
    /\ Task
    /\ OnOpen(s)
    /\ IF ws = s /\ subscribed
       THEN callbacks < MaxCallbacks /\ callbacks' = callbacks + JoinsRegistered
       ELSE UNCHANGED callbacks
    /\ UNCHANGED <<identityReady, subscribed, member, refused>>

(* The callback: sendJoin if the connection is still open. *)
RunCallback ==
    /\ Microtask
    /\ callbacks' = callbacks - 1
    /\ IF status = "open"
       THEN SendRaw(Control) /\ UNCHANGED nextFrame
       ELSE UNCHANGED frameVars
    /\ UNCHANGED <<planVars, identityReady, subscribed, member, refused>>

(* sendMessage and the other senders, at their last step. *)
SendFrame ==
    /\ Task
    /\ subscribed
    /\ Send
    /\ UNCHANGED storeVars

StoreConnect ==
    /\ Task
    /\ subscribed
    /\ Connect
    /\ UNCHANGED storeVars

(* disconnect() of the store: the transport's, then it stops listening.     *)
(* The leave_channel it tries to send first makes no difference to a        *)
(* connection that is closed right after.                                   *)
StoreDisconnect ==
    /\ Task
    /\ subscribed
    /\ Disconnect
    /\ subscribed' = FALSE
    /\ UNCHANGED <<identityReady, callbacks, member, refused>>

Reconnect ==
    /\ Task
    /\ TimerFires
    /\ UNCHANGED storeVars

SocketCloses(s) ==
    /\ Task
    /\ OnClose(s)
    /\ member' = [member EXCEPT ![s] = FALSE]
    /\ UNCHANGED <<identityReady, callbacks, subscribed, refused>>

SocketClosing(s) ==
    /\ ServerCloses(s)
    /\ UNCHANGED storeVars

(* The server handles the oldest frame of the connection: a join makes it a *)
(* member, anything else needs a member.                                    *)
ServerHandles(s) ==
    /\ ServerTakes(s)
    /\ member' = [member EXCEPT ![s] = @ \/ Head(out[s]) = Control]
    /\ refused' = IF Head(out[s]) = Control \/ member[s]
                  THEN refused
                  ELSE refused \cup {Head(out[s])}
    /\ UNCHANGED <<identityReady, callbacks, subscribed>>

-----------------------------------------------------------------------------
Next ==
    \/ IdentityReady \/ RunCallback \/ SendFrame \/ StoreConnect \/ StoreDisconnect \/ Reconnect
    \/ \E s \in Sockets : Open(s) \/ SocketCloses(s) \/ SocketClosing(s) \/ ServerHandles(s)

Spec == Init /\ [][Next]_vars

(* Promises settle, microtasks run, and the server reads its connections.   *)
Fairness ==
    /\ WF_vars(IdentityReady)
    /\ WF_vars(RunCallback)
    /\ \A s \in Sockets : WF_vars(ServerHandles(s))

FairSpec == Spec /\ TransportFairness /\ Fairness

-----------------------------------------------------------------------------
(* Every connection that stays open gets to be a member of the room, also   *)
(* after any number of reconnections, and also when the connection was      *)
(* lost and opened again before the identity was ready.                     *)
OpenConnectionsJoin ==
    \A s \in Sockets : ws = s /\ status = "open" ~> member[s] \/ ~(ws = s /\ sock[s] = "open")

(* What is queued while there is no connection is sent once there is one    *)
(* (transport.ts, and its test that queued frames are flushed on open):     *)
(* the server takes it.  But flushQueue runs inside onopen and the join     *)
(* only afterwards, in the microtask.                                       *)
QueuedFramesTaken == refused = {}
=============================================================================
