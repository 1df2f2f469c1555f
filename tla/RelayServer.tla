----------------------------- MODULE RelayServer -----------------------------
(***************************************************************************)
(* backend/internal/ws/transport.go: one handler goroutine per connection, *)
(* with its heartbeat, over the shared rooms.                              *)
(*                                                                         *)
(* A handler reads a request, calls the channel manager, and writes frames *)
(* to its own peer and to others.  Each manager call is atomic (it is an   *)
(* action of RoomDirectory), and so is each write; everything else may     *)
(* interleave, so every call and every write is a step of its own.         *)
(*                                                                         *)
(* Payloads are left out: send_message, key_update, set_room_name and      *)
(* set_nickname run the same code on the same frame and are one request    *)
(* here, "relay".  Whether the limiter refuses a request depends on time   *)
(* (see RateLimiter) and is arbitrary here.                                *)
(***************************************************************************)
EXTENDS RoomDirectory

CONSTANT MaxRedraws     \* retries of create_channel's collision guard (3)

ASSUME RedrawsAssumption == MaxRedraws \in Nat

VARIABLES
    link,           \* link[c]: the WebSocket as the server finds it
    pc,             \* pc[c]: where the handler is
    room,           \* room[c]: the channelId the handler works on
    num,            \* num[c]: the count it has read, or its redraws so far
    todo,           \* todo[c]: recipients it has still to write to
    ending,         \* the connections whose deferred cleanup has begun
    farewell        \* farewell[c]: rooms the cleanup has still to notify

localVars == <<room, num, todo>>
endVars == <<ending, farewell>>
vars == <<roomVars, link, pc, localVars, endVars>>

NoRoom == "no room"

(* A peer that has stopped reading for good is stalled: writes to it hang.  *)
(* One that is only slow is up, its writes just take a while.               *)
Links == {"none", "up", "stalled", "closed"}

RelaySteps == {"exists", "check", "touch", "snapshot", "fanout"}

NotifySteps == {"count", "recipients", "tell"}

(* The steps that work on a room. *)
RoomSteps == RelaySteps \cup NotifySteps \cup
    {"create", "join", "joined", "reply joined", "leave", "reply left"}

Steps == RoomSteps \cup {"none", "read", "reply", "draw", "cleanup", "farewell", "done"}

TypeOK ==
    /\ RoomsTypeOK
    /\ link \in [Conns -> Links]
    /\ pc \in [Conns -> Steps]
    /\ room \in [Conns -> ChannelIds \cup {NoRoom}]
    /\ \A c \in Conns : pc[c] \in RoomSteps => room[c] \in ChannelIds
    /\ num \in [Conns -> Nat]
    /\ todo \in [Conns -> SUBSET Conns]
    /\ ending \subseteq Conns
    /\ farewell \in [Conns -> SUBSET ChannelIds]

Init ==
    /\ RoomsInit
    /\ link = [c \in Conns |-> "none"]
    /\ pc = [c \in Conns |-> "none"]
    /\ room = [c \in Conns |-> NoRoom]
    /\ num = [c \in Conns |-> 0]
    /\ todo = [c \in Conns |-> {}]
    /\ ending = {}
    /\ farewell = [c \in Conns |-> {}]

-----------------------------------------------------------------------------
(* Control *)

At(c, step) == pc[c] = step

Goto(c, step) == pc' = [pc EXCEPT ![c] = step]

BeginForgettingRoom(c, step, ch) == Goto(c, step) /\ UNCHANGED <<room, num, todo>>

(* Start on a request about ch. *)
Begin(c, step, ch) ==
    /\ Goto(c, step)
    /\ room' = [room EXCEPT ![c] = ch]
    /\ UNCHANGED <<num, todo>>

(* The request, or the notification of one room, is over: on to the next. *)
Finish(c) ==
    /\ Goto(c, IF c \in ending THEN "farewell" ELSE "read")
    /\ room' = [room EXCEPT ![c] = NoRoom]
    /\ num' = [num EXCEPT ![c] = 0]
    /\ todo' = [todo EXCEPT ![c] = {}]

(* writeError: only the handler's own peer is told. *)
AnswerError(c) ==
    /\ Goto(c, "reply")
    /\ room' = [room EXCEPT ![c] = NoRoom]
    /\ UNCHANGED <<num, todo>>

(* A write to the handler's own peer has no deadline: it returns when the   *)
(* peer takes the frame or the connection is closed, and its error is       *)
(* ignored.                                                                 *)
WriteReturns(c) == link[c] # "stalled"

-----------------------------------------------------------------------------
(* Connections *)

Accept(c) ==
    /\ link[c] = "none"
    /\ link' = [link EXCEPT ![c] = "up"]
    /\ Goto(c, "read")
    /\ UNCHANGED <<roomVars, localVars, endVars>>

Stall(c) ==
    /\ link[c] = "up"
    /\ link' = [link EXCEPT ![c] = "stalled"]
    /\ UNCHANGED <<roomVars, pc, localVars, endVars>>

Drop(c) ==
    /\ link[c] \in {"up", "stalled"}
    /\ link' = [link EXCEPT ![c] = "closed"]
    /\ UNCHANGED <<roomVars, pc, localVars, endVars>>

(* A broadcasting handler waits up to five seconds on each stalled peer. *)
WaitingOnPeer(c) ==
    /\ pc[c] \in {"tell", "fanout"}
    /\ \E d \in todo[c] : link[d] = "stalled"

HeartbeatWithoutClose(c) == c \in Conns /\ UNCHANGED vars

(* Ping gets no pong within its timeout: the peer has stalled, or is well   *)
(* but its handler, which must be reading for the pong to be seen, waits in *)
(* a broadcast.  The heartbeat ends before the deferred cleanup.            *)
HeartbeatTimeout(c) ==
    /\ link[c] = "stalled" \/ (link[c] = "up" /\ WaitingOnPeer(c))
    /\ c \notin ending
    /\ link' = [link EXCEPT ![c] = "closed"]
    /\ UNCHANGED <<roomVars, pc, localVars, endVars>>

-----------------------------------------------------------------------------
(* Requests.  A stalled peer may still send. *)

Readable(c) == At(c, "read") /\ link[c] \in {"up", "stalled"}

(* Undecodable, of unsupported type or over a rate limit. *)
RefuseRequest(c) ==
    /\ Readable(c)
    /\ AnswerError(c)
    /\ UNCHANGED <<roomVars, link, endVars>>

ReadCreate(c) ==
    /\ Readable(c)
    /\ Goto(c, "draw")
    /\ UNCHANGED <<roomVars, link, localVars, endVars>>

ReadAbout(c, step, ch) ==
    /\ Readable(c)
    /\ Begin(c, step, ch)
    /\ UNCHANGED <<roomVars, link, endVars>>

ReadJoin(c, ch) == ReadAbout(c, "join", ch)

ReadLeave(c, ch) == ReadAbout(c, "leave", ch)

ReadRelay(c, ch) == ReadAbout(c, "exists", ch)

WriteReply(c) ==
    /\ At(c, "reply")
    /\ WriteReturns(c)
    /\ Finish(c)
    /\ UNCHANGED <<roomVars, link, endVars>>

-----------------------------------------------------------------------------
(* create_channel *)

(* GenerateID and the Exists test of the collision guard. *)
DrawId(c) ==
    /\ At(c, "draw")
    /\ \E id \in ChannelIds :
           IF Exists(id) /\ num[c] < MaxRedraws
           THEN /\ num' = [num EXCEPT ![c] = @ + 1]
                /\ UNCHANGED <<pc, room, todo>>
           ELSE /\ Goto(c, "create")
                /\ room' = [room EXCEPT ![c] = id]
                /\ num' = [num EXCEPT ![c] = 0]
                /\ UNCHANGED todo
    /\ UNCHANGED <<roomVars, link, endVars>>

CreateChannel(c) ==
    /\ At(c, "create")
    /\ CreateRoom(room[c])
    /\ Goto(c, "reply")
    /\ room' = [room EXCEPT ![c] = NoRoom]
    /\ UNCHANGED <<link, num, todo, endVars>>

-----------------------------------------------------------------------------
(* join_channel and leave_channel *)

JoinChannel(c) ==
    /\ At(c, "join")
    /\ Enter(room[c], c)
    /\ Goto(c, "joined")
    /\ UNCHANGED <<link, localVars, endVars>>

JoinRefused(c) ==
    /\ At(c, "join")
    /\ Exists(room[c]) => Full(room[c])
    /\ AnswerError(c)
    /\ UNCHANGED <<roomVars, link, endVars>>

(* The count that goes into the joined frame is read after the join. *)
CountForJoined(c) ==
    /\ At(c, "joined")
    /\ num' = [num EXCEPT ![c] = Cardinality(members[room[c]])]
    /\ Goto(c, "reply joined")
    /\ UNCHANGED <<roomVars, link, room, todo, endVars>>

WriteJoined(c) ==
    /\ At(c, "reply joined")
    /\ WriteReturns(c)
    /\ Goto(c, "count")
    /\ num' = [num EXCEPT ![c] = 0]
    /\ UNCHANGED <<roomVars, link, room, todo, endVars>>

LeaveChannel(c) ==
    /\ At(c, "leave")
    /\ Exit(room[c], c)
    /\ Goto(c, "reply left")
    /\ UNCHANGED <<link, localVars, endVars>>

WriteLeftOnly(c) ==
    /\ At(c, "reply left")
    /\ WriteReturns(c)
    /\ Finish(c)
    /\ UNCHANGED <<roomVars, link, endVars>>

WriteLeft(c) ==
    /\ At(c, "reply left")
    /\ WriteReturns(c)
    /\ Goto(c, "count")
    /\ UNCHANGED <<roomVars, link, localVars, endVars>>

-----------------------------------------------------------------------------
(* broadcastOnlineCount: Count, then Snapshot, then the writes *)

CountOnline(c) ==
    /\ At(c, "count")
    /\ LET n == Cardinality(members[room[c]])
       IN  \/ /\ n = 0
              /\ Finish(c)
           \/ /\ n # 0
              /\ num' = [num EXCEPT ![c] = n]
              /\ Goto(c, "recipients")
              /\ UNCHANGED <<room, todo>>
    /\ UNCHANGED <<roomVars, link, endVars>>

CountRecipients(c) ==
    /\ At(c, "recipients")
    /\ todo' = [todo EXCEPT ![c] = members[room[c]]]
    /\ Goto(c, "tell")
    /\ UNCHANGED <<roomVars, link, room, num, endVars>>

(* A write to another peer ends within five seconds: the peer takes the     *)
(* frame, or it is already closed, or the write times out, and then the     *)
(* WebSocket library closes the connection it was writing to.               *)
WriteTo(c, d) ==
    /\ d \in todo[c]
    /\ todo' = [todo EXCEPT ![c] = @ \ {d}]
    /\ link' = [link EXCEPT ![d] = IF @ = "stalled" THEN "closed" ELSE @]
    /\ UNCHANGED <<roomVars, pc, room, num, endVars>>

TellCount(c, d) == At(c, "tell") /\ WriteTo(c, d)

CountTold(c) ==
    /\ At(c, "tell")
    /\ todo[c] = {}
    /\ Finish(c)
    /\ UNCHANGED <<roomVars, link, endVars>>

-----------------------------------------------------------------------------
(* send_message, key_update, set_room_name, set_nickname *)

CheckExists(c) ==
    /\ At(c, "exists")
    /\ \/ Exists(room[c]) /\ Goto(c, "check") /\ UNCHANGED localVars
       \/ ~Exists(room[c]) /\ AnswerError(c)
    /\ UNCHANGED <<roomVars, link, endVars>>

(* The first snapshot, which is only looked at for the sender. *)
CheckMember(c) ==
    /\ At(c, "check")
    /\ \/ c \in members[room[c]] /\ Goto(c, "touch") /\ UNCHANGED localVars
       \/ c \notin members[room[c]] /\ AnswerError(c)
    /\ UNCHANGED <<roomVars, link, endVars>>

TouchActive(c) ==
    /\ At(c, "touch")
    /\ TouchRoom(room[c])
    /\ Goto(c, "snapshot")
    /\ UNCHANGED <<link, localVars, endVars>>

EveryoneConnected(c) == {d \in Conns : link[d] = "up"}

Recipients(c) == members[room[c]]

TakeSnapshot(c) ==
    /\ At(c, "snapshot")
    /\ todo' = [todo EXCEPT ![c] = Recipients(c)]
    /\ Goto(c, "fanout")
    /\ UNCHANGED <<roomVars, link, room, num, endVars>>

RelayTo(c, d) == At(c, "fanout") /\ WriteTo(c, d)

Relayed(c) ==
    /\ At(c, "fanout")
    /\ todo[c] = {}
    /\ Finish(c)
    /\ UNCHANGED <<roomVars, link, endVars>>

-----------------------------------------------------------------------------
(* The end of a connection: Read fails, the deferred function runs *)

ReadFails(c) ==
    /\ At(c, "read")
    /\ link[c] = "closed"
    /\ Goto(c, "cleanup")
    /\ UNCHANGED <<roomVars, link, localVars, endVars>>

CleanupKeepingMembership(c) ==
    /\ At(c, "cleanup")
    /\ ending' = ending \cup {c}
    /\ farewell' = [farewell EXCEPT ![c] = RoomsOf(c)]
    /\ Goto(c, "farewell")
    /\ UNCHANGED <<roomVars, link, localVars>>

Cleanup(c) ==
    /\ At(c, "cleanup")
    /\ ExitAll(c)
    /\ ending' = ending \cup {c}
    /\ farewell' = [farewell EXCEPT ![c] = RoomsOf(c)]
    /\ Goto(c, "farewell")
    /\ UNCHANGED <<link, localVars>>

NotifyLeftRoom(c, ch) ==
    /\ At(c, "farewell")
    /\ ch \in farewell[c]
    /\ farewell' = [farewell EXCEPT ![c] = @ \ {ch}]
    /\ Begin(c, "count", ch)
    /\ UNCHANGED <<roomVars, link, ending>>

Close(c) ==
    /\ At(c, "farewell")
    /\ farewell[c] = {}
    /\ Goto(c, "done")
    /\ UNCHANGED <<roomVars, link, localVars, endVars>>

-----------------------------------------------------------------------------
(* What the handler of c does on its own, once it has a request. *)
HandlerStep(c) ==
    \/ WriteReply(c) \/ DrawId(c) \/ CreateChannel(c)
    \/ JoinChannel(c) \/ JoinRefused(c) \/ CountForJoined(c) \/ WriteJoined(c)
    \/ LeaveChannel(c) \/ WriteLeft(c)
    \/ CountOnline(c) \/ CountRecipients(c) \/ CountTold(c)
    \/ CheckExists(c) \/ CheckMember(c) \/ TouchActive(c) \/ TakeSnapshot(c) \/ Relayed(c)
    \/ \E d \in Conns : TellCount(c, d) \/ RelayTo(c, d)
    \/ ReadFails(c) \/ Cleanup(c) \/ Close(c)
    \/ \E ch \in ChannelIds : NotifyLeftRoom(c, ch)

Request(c) ==
    \/ RefuseRequest(c) \/ ReadCreate(c)
    \/ \E ch \in ChannelIds : ReadJoin(c, ch) \/ ReadLeave(c, ch) \/ ReadRelay(c, ch)

ConnectionEvent(c) == Accept(c) \/ Stall(c) \/ Drop(c) \/ HeartbeatTimeout(c)

(* The sweeper and the clock change the rooms under the handlers. *)
RoomsChange ==
    /\ PassTime \/ SweepRooms
    /\ UNCHANGED <<link, pc, localVars, endVars>>

Next ==
    \/ \E c \in Conns : HandlerStep(c) \/ Request(c) \/ ConnectionEvent(c)
    \/ RoomsChange

Spec == Init /\ [][Next]_vars

(* Goroutines are scheduled, writes with a deadline return, and the         *)
(* heartbeat's ticker fires.  Nothing is assumed of clients.                *)
Fairness ==
    \A c \in Conns : WF_vars(HandlerStep(c)) /\ WF_vars(HeartbeatTimeout(c))

FairSpec == Spec /\ Fairness

-----------------------------------------------------------------------------
(* Nobody is in the middle of anything. *)
Quiescent ==
    \A c \in Conns : pc[c] \in {"none", "done"} \/ (pc[c] = "read" /\ link[c] # "closed")

(* The peers that take a frame broadcast by c in this step. *)
Reached(c) == {d \in todo[c] \ todo'[c] : link[d] = "up"}

(* A connection whose cleanup has run is in no room and joins none again,   *)
(* wherever in a request the connection was lost: members are connections   *)
(* whose handler will still take them out.                                  *)
NoGhostMembers ==
    \A c \in Conns : c \in ending \/ link[c] = "none" => RoomsOf(c) = {}

(* Every request is answered and every handler gets back to reading or to   *)
(* its end, also when its own peer, or a peer it writes to, has stalled.    *)
RequestsFinish ==
    \A c \in Conns : pc[c] # "read" /\ link[c] # "none" ~> pc[c] \in {"read", "done"}

(* A peer that stops reading ends up outside every room: heartbeat, write   *)
(* timeout and deferred cleanup together.                                   *)
StalledPeersLeave ==
    \A c \in Conns : link[c] = "stalled" ~> pc[c] = "done" /\ RoomsOf(c) = {}
=============================================================================
