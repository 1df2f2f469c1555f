------------------------------ MODULE Transport ------------------------------
(***************************************************************************)
(* frontend/src/transport.ts: the client's WebSocket with its automatic    *)
(* reconnection and its queue of frames for when there is no connection.   *)
(*                                                                         *)
(* JavaScript runs one event handler at a time, so each handler and each   *)
(* call from the application is one action; the sockets change state       *)
(* between them.  How long the reconnect timer waits is left out.  Frames  *)
(* are numbered in the order sendRaw gets them.                            *)
(***************************************************************************)
EXTENDS Integers, Sequences

CONSTANTS
    Sockets,        \* identities for WebSocket objects, reused once closed
    AutoReconnect,  \* the constructor's option
    QueueCap,       \* frames the queue holds (100)
    MaxFrames       \* bound on the frames the application sends

NoSocket == "no socket"

ASSUME TransportAssumption ==
    /\ NoSocket \notin Sockets
    /\ AutoReconnect \in BOOLEAN
    /\ QueueCap \in Nat
    /\ MaxFrames \in Nat

VARIABLES
    ws,             \* this.ws: the current socket, or NoSocket
    sock,           \* sock[s]: its readyState
    status,         \* this.status, as the status handlers see it
    timer,          \* whether the reconnect timer is armed
    shouldReconnect,
    sendQueue,
    out,            \* out[s]: frames handed to s and not yet taken by the server
    sentUpTo,       \* the highest number handed to any socket
    nextFrame       \* the number of the next frame

planVars == <<ws, sock, status, timer, shouldReconnect>>
frameVars == <<sendQueue, out, sentUpTo, nextFrame>>
transportVars == <<planVars, frameVars>>

Control == 0        \* frames that are not numbered (join_channel)

Frames == 0..MaxFrames

(* The highest number among n and the frames of q. *)
Highest(n, q) ==
    LET S == {n} \cup {q[i] : i \in 1..Len(q)}
    IN  CHOOSE x \in S : \A y \in S : y <= x

TransportTypeOK ==
    /\ ws \in Sockets \cup {NoSocket}
    /\ sock \in [Sockets -> {"connecting", "open", "closing", "closed"}]
    /\ ws # NoSocket => sock[ws] # "closed"
    /\ status \in {"idle", "connecting", "open", "closed", "reconnecting"}
    /\ timer \in BOOLEAN
    /\ shouldReconnect \in BOOLEAN
    /\ sendQueue \in Seq(Frames)
    /\ Len(sendQueue) <= QueueCap
    /\ out \in [Sockets -> Seq(Frames)]
    /\ sentUpTo \in Frames
    /\ nextFrame \in 1..(MaxFrames + 1)

TransportInit ==
    /\ ws = NoSocket
    /\ sock = [s \in Sockets |-> "closed"]
    /\ status = "idle"
    /\ timer = FALSE
    /\ shouldReconnect = FALSE
    /\ sendQueue = <<>>
    /\ out = [s \in Sockets |-> <<>>]
    /\ sentUpTo = 0
    /\ nextFrame = 1

-----------------------------------------------------------------------------
(* connect *)

(* connect() does nothing while the current socket connects or is open. *)
MayConnect == ~(ws # NoSocket /\ sock[ws] \in {"connecting", "open"})

OpenSocket ==
    \E s \in Sockets :
        /\ sock[s] = "closed"
        /\ ws' = s
        /\ sock' = [sock EXCEPT ![s] = "connecting"]
        /\ out' = [out EXCEPT ![s] = <<>>]
        /\ shouldReconnect' = TRUE
        /\ timer' = FALSE
        /\ status' = "connecting"
        /\ UNCHANGED <<sendQueue, sentUpTo, nextFrame>>

Connect == MayConnect /\ OpenSocket

(* The timer's callback calls connect(). *)
TimerFires ==
    /\ timer
    /\ IF MayConnect THEN OpenSocket
       ELSE timer' = FALSE /\ UNCHANGED <<ws, sock, status, shouldReconnect, frameVars>>

-----------------------------------------------------------------------------
(* sendRaw *)

Writable == ws # NoSocket /\ sock[ws] = "open"

Queues == AutoReconnect /\ shouldReconnect

HasRoomForOneMore == Len(sendQueue) <= QueueCap

HasRoom == Len(sendQueue) < QueueCap

(* What sendRaw(f) does with f; the value it returns is Queues \/ Writable, *)
(* so a frame dropped because the queue is full is reported as sent too.    *)
SendRaw(f) ==
    /\ out' = IF Writable THEN [out EXCEPT ![ws] = Append(@, f)] ELSE out
    /\ sentUpTo' = IF Writable THEN Highest(sentUpTo, <<f>>) ELSE sentUpTo
    /\ sendQueue' = IF ~Writable /\ Queues /\ HasRoom
                    THEN Append(sendQueue, f)
                    ELSE sendQueue

Send ==
    /\ nextFrame <= MaxFrames
    /\ SendRaw(nextFrame)
    /\ nextFrame' = nextFrame + 1
    /\ UNCHANGED planVars

-----------------------------------------------------------------------------
(* Socket events.  An event of a socket that is no longer current is        *)
(* ignored by its handler.                                                  *)

FlushKeepingQueue(s) ==
    /\ out' = [out EXCEPT ![s] = @ \o sendQueue]
    /\ sentUpTo' = Highest(sentUpTo, sendQueue)
    /\ UNCHANGED <<sendQueue, nextFrame>>

(* flushQueue hands over every queued frame, oldest first. *)
FlushQueue(s) ==
    /\ out' = [out EXCEPT ![s] = @ \o sendQueue]
    /\ sentUpTo' = Highest(sentUpTo, sendQueue)
    /\ sendQueue' = <<>>
    /\ UNCHANGED nextFrame

OnOpen(s) ==
    /\ sock[s] = "connecting"
    /\ sock' = [sock EXCEPT ![s] = "open"]
    /\ IF ws = s
       THEN status' = "open" /\ FlushQueue(s)
       ELSE UNCHANGED <<status, frameVars>>
    /\ UNCHANGED <<ws, timer, shouldReconnect>>

(* readyState turns CLOSING when the server starts to close: no event yet. *)
ServerCloses(s) ==
    /\ sock[s] = "open"
    /\ sock' = [sock EXCEPT ![s] = "closing"]
    /\ UNCHANGED <<ws, status, timer, shouldReconnect, frameVars>>

NeverSchedules == FALSE

(* scheduleReconnect arms the timer. *)
Schedules == AutoReconnect /\ shouldReconnect

(* onerror, if any, and onclose: the connection failed or is gone. *)
OnClose(s) ==
    /\ sock[s] # "closed"
    /\ sock' = [sock EXCEPT ![s] = "closed"]
    /\ out' = [out EXCEPT ![s] = <<>>]
    /\ IF ws = s
       THEN /\ ws' = NoSocket
            /\ timer' = (timer \/ Schedules)
            /\ status' = IF Schedules THEN "reconnecting" ELSE "closed"
       ELSE UNCHANGED <<ws, timer, status>>
    /\ UNCHANGED <<shouldReconnect, sendQueue, sentUpTo, nextFrame>>

DisconnectLeavingTimer ==
    /\ shouldReconnect' = FALSE
    /\ sendQueue' = <<>>
    /\ ws' = NoSocket
    /\ sock' = [s \in Sockets |-> IF s = ws THEN "closing" ELSE sock[s]]
    /\ status' = "closed"
    /\ UNCHANGED <<timer, out, sentUpTo, nextFrame>>

(* disconnect() forgets the socket before closing it, so that its onclose   *)
(* does not reconnect, and forgets what was queued.                         *)
Disconnect ==
    /\ shouldReconnect' = FALSE
    /\ timer' = FALSE
    /\ sendQueue' = <<>>
    /\ ws' = NoSocket
    /\ sock' = [s \in Sockets |-> IF s = ws THEN "closing" ELSE sock[s]]
    /\ status' = "closed"
    /\ UNCHANGED <<out, sentUpTo, nextFrame>>

(* The server takes the oldest frame sent on s. *)
ServerTakes(s) ==
    /\ out[s] # <<>>
    /\ out' = [out EXCEPT ![s] = Tail(@)]
    /\ UNCHANGED <<planVars, sendQueue, sentUpTo, nextFrame>>

-----------------------------------------------------------------------------
(* Timers fire, an attempt to connect comes to an end, a socket that closes *)
(* gets closed, and an attempt succeeds if there are infinitely many.       *)
TransportFairness ==
    /\ WF_transportVars(TimerFires)
    /\ \A s \in Sockets :
           /\ WF_transportVars(sock[s] = "closing" /\ OnClose(s))
           /\ WF_transportVars(sock[s] = "connecting" /\ (OnOpen(s) \/ OnClose(s)))
           /\ WF_transportVars(ServerTakes(s))
    /\ SF_transportVars(\E s \in Sockets : ws = s /\ OnOpen(s))

-----------------------------------------------------------------------------
(* As long as the application wants a connection there is exactly one plan  *)
(* for it, a socket or the timer, and afterwards there is none and nothing  *)
(* queued: reconnection neither gets stuck nor comes back to life, and no   *)
(* socket is left connecting or open that the transport has forgotten.      *)
OnePlan ==
    /\ \A s \in Sockets : sock[s] \in {"connecting", "open"} => s = ws
    /\ AutoReconnect /\ shouldReconnect => (timer <=> ws = NoSocket)
    /\ ~shouldReconnect => ~timer /\ ws = NoSocket /\ sendQueue = <<>>

(* Frames leave in the order they came and none leaves twice, however often *)
(* the connection is lost: what is queued is in order, and newer than all   *)
(* that has been handed to a socket.                                        *)
FramesInOrderOnce ==
    \A i \in 1..Len(sendQueue) :
        sendQueue[i] # Control =>
            /\ sendQueue[i] > sentUpTo
            /\ \A j \in 1..(i - 1) : sendQueue[j] < sendQueue[i]

(* A client that wants a connection gets one, if attempts keep being made   *)
(* against a server that is not down for good.                              *)
Reconnects ==
    AutoReconnect /\ shouldReconnect ~> status = "open" \/ ~shouldReconnect
=============================================================================
