----------------------------- MODULE RelayProofs -----------------------------
(***************************************************************************)
(* The relay for any number of connections and rooms: its types, that no   *)
(* connection stays in a room after its cleanup, that a message stays in   *)
(* its room, and that at rest every member knows how many are in it.       *)
(***************************************************************************)
EXTENDS RelayAudit, FiniteSetTheorems, TLAPS

-----------------------------------------------------------------------------
(* The handlers *)

(* Rooms are finite: one connection enters at a time. *)
FiniteRooms == \A ch \in ChannelIds : IsFiniteSet(members[ch])

TypeInv == TypeOK /\ FiniteRooms

LEMMA TypeInit == Init => TypeInv
<1> SUFFICES ASSUME Init PROVE TypeInv
  OBVIOUS
<1>1. RoomsTypeOK /\ FiniteRooms
  BY FS_EmptySet DEF Init, RoomsInit, RoomsTypeOK, FiniteRooms, Life
<1>2. TypeOK
  BY <1>1 DEF Init, TypeOK, Links, Steps, RoomSteps, RelaySteps, NotifySteps
<1> QED
  BY <1>1, <1>2 DEF TypeInv

(* What the rooms' own operations keep. *)
RoomsOK == RoomsTypeOK /\ FiniteRooms

LEMMA RoomsKept ==
    ASSUME RoomsOK,
           \/ UNCHANGED roomVars
           \/ \E ch \in ChannelIds : CreateRoom(ch) \/ TouchRoom(ch)
           \/ \E ch \in ChannelIds, c \in Conns : Enter(ch, c) \/ Exit(ch, c)
           \/ \E c \in Conns : ExitAll(c)
           \/ PassTime
           \/ SweepRooms
    PROVE  RoomsOK'
<1> USE DEF RoomsOK, RoomsTypeOK, FiniteRooms
<1>1. CASE UNCHANGED roomVars
  BY <1>1 DEF roomVars
<1>2. ASSUME NEW ch \in ChannelIds, CreateRoom(ch) \/ TouchRoom(ch)
      PROVE  RoomsOK'
  BY <1>2 DEF CreateRoom, TouchRoom, Life
<1>3. ASSUME NEW ch \in ChannelIds, NEW c \in Conns, Enter(ch, c)
      PROVE  RoomsOK'
  <2>1. RoomsTypeOK'
    BY <1>3 DEF Enter, Life
  <2>2. IsFiniteSet(members[ch] \cup {c})
    BY FS_AddElement
  <2> QED
    BY <1>3, <2>1, <2>2 DEF Enter
<1>4. ASSUME NEW ch \in ChannelIds, NEW c \in Conns, Exit(ch, c)
      PROVE  RoomsOK'
  <2>1. RoomsTypeOK'
    BY <1>4 DEF Exit
  <2>2. IsFiniteSet(members[ch] \ {c})
    BY FS_RemoveElement
  <2> QED
    BY <1>4, <2>1, <2>2 DEF Exit
<1>5. ASSUME NEW c \in Conns, ExitAll(c)
      PROVE  RoomsOK'
  <2>1. RoomsTypeOK'
    BY <1>5 DEF ExitAll
  <2>2. \A ch \in ChannelIds : IsFiniteSet(members[ch] \ {c})
    BY FS_RemoveElement
  <2> QED
    BY <1>5, <2>1, <2>2 DEF ExitAll
<1>6. CASE PassTime
  BY <1>6 DEF PassTime
<1>7. CASE SweepRooms
  BY <1>7, FS_EmptySet DEF SweepRooms, Life
<1> QED
  BY <1>1, <1>2, <1>3, <1>4, <1>5, <1>6, <1>7

(* The types of what a handler keeps. *)
LocalsOK ==
    /\ pc \in [Conns -> Steps]
    /\ room \in [Conns -> ChannelIds \cup {NoRoom}]
    /\ \A c \in Conns : pc[c] \in RoomSteps => room[c] \in ChannelIds
    /\ num \in [Conns -> Nat]
    /\ todo \in [Conns -> SUBSET Conns]

RestOK ==
    /\ link \in [Conns -> Links]
    /\ ending \subseteq Conns
    /\ farewell \in [Conns -> SUBSET ChannelIds]

LEMMA TypeInvParts == TypeInv <=> RoomsOK /\ LocalsOK /\ RestOK
  BY DEF TypeInv, TypeOK, RoomsOK, LocalsOK, RestOK

LEMMA FinishKept ==
    ASSUME LocalsOK, NEW c \in Conns, Finish(c)
    PROVE  LocalsOK'
  BY DEF LocalsOK, Finish, Goto, Steps, RoomSteps, RelaySteps, NotifySteps

LEMMA ErrorKept ==
    ASSUME LocalsOK, NEW c \in Conns, AnswerError(c)
    PROVE  LocalsOK'
  BY DEF LocalsOK, AnswerError, Goto, Steps, RoomSteps, RelaySteps, NotifySteps

(* Moving on from a step that works on a room to another step. *)
LEMMA StepKept ==
    ASSUME LocalsOK, NEW c \in Conns, NEW step \in Steps, Goto(c, step), UNCHANGED localVars,
           pc[c] \in RoomSteps \/ step \notin RoomSteps
    PROVE  LocalsOK'
  BY DEF LocalsOK, Goto, localVars

LEMMA CountIsNat ==
    ASSUME RoomsOK, NEW ch \in ChannelIds
    PROVE  Cardinality(members[ch]) \in Nat
  BY FS_CardinalityType DEF RoomsOK, FiniteRooms

LEMMA TypeNext == TypeInv /\ [Next]_vars => TypeInv'
<1> SUFFICES ASSUME TypeInv, [Next]_vars PROVE TypeInv'
  OBVIOUS
<1>0. RoomsOK /\ LocalsOK /\ RestOK
  BY TypeInvParts
<1>p. SUFFICES RoomsOK' /\ LocalsOK' /\ RestOK'
  BY DEF TypeInv, TypeOK, RoomsOK, LocalsOK, RestOK
<1> USE <1>0
<1>1. CASE UNCHANGED vars
  BY <1>1
  DEF RoomsOK, RoomsTypeOK, FiniteRooms, LocalsOK, RestOK, vars, roomVars, localVars, endVars
<1>2. ASSUME NEW c \in Conns, ConnectionEvent(c)
      PROVE  RoomsOK' /\ LocalsOK' /\ RestOK'
  <2>1. RoomsOK'
    BY <1>2, RoomsKept DEF ConnectionEvent, Accept, Stall, Drop, HeartbeatTimeout
  <2>2. LocalsOK'
    BY <1>2 DEF ConnectionEvent, Accept, Stall, Drop, HeartbeatTimeout, LocalsOK, Goto, Steps,
        RoomSteps, RelaySteps, NotifySteps, localVars
  <2>3. RestOK'
    BY <1>2 DEF ConnectionEvent, Accept, Stall, Drop, HeartbeatTimeout, RestOK, Links, endVars
  <2> QED
    BY <2>1, <2>2, <2>3
<1>3. ASSUME NEW c \in Conns, Request(c)
      PROVE  RoomsOK' /\ LocalsOK' /\ RestOK'
  <2>1. RoomsOK' /\ RestOK'
    <3>1. UNCHANGED <<roomVars, link, endVars>>
      BY <1>3 DEF Request, RefuseRequest, ReadCreate, ReadJoin, ReadLeave, ReadRelay, ReadAbout
    <3> QED
      BY <3>1, RoomsKept DEF RestOK, endVars
  <2>2. CASE RefuseRequest(c)
    BY <2>1, <2>2, ErrorKept DEF RefuseRequest
  <2>3. CASE ReadCreate(c)
    BY <2>1, <2>3, StepKept
    DEF ReadCreate, Steps, RoomSteps, RelaySteps, NotifySteps
  <2>4. ASSUME NEW ch \in ChannelIds, ReadJoin(c, ch) \/ ReadLeave(c, ch) \/ ReadRelay(c, ch)
        PROVE  LocalsOK'
    BY <2>4 DEF ReadJoin, ReadLeave, ReadRelay, ReadAbout, Begin, LocalsOK, Goto, Steps, RoomSteps,
        RelaySteps
  <2> QED
    BY <1>3, <2>1, <2>2, <2>3, <2>4 DEF Request
<1>4. ASSUME NEW c \in Conns, HandlerStep(c)
      PROVE  RoomsOK' /\ LocalsOK' /\ RestOK'
  <2> USE DEF At
  <2>1. CASE WriteReply(c) \/ CountTold(c) \/ Relayed(c)
    BY <2>1, FinishKept, RoomsKept DEF WriteReply, CountTold, Relayed, RestOK, endVars
  <2>2. CASE DrawId(c)
    <3>1. LocalsOK'
      <4>1. PICK id \in ChannelIds :
                \/ num' = [num EXCEPT ![c] = @ + 1] /\ UNCHANGED <<pc, room, todo>>
                \/ /\ Goto(c, "create")
                   /\ room' = [room EXCEPT ![c] = id]
                   /\ num' = [num EXCEPT ![c] = 0]
                   /\ UNCHANGED todo
        BY <2>2 DEF DrawId
      <4>2. CASE UNCHANGED <<pc, room, todo>> /\ num' = [num EXCEPT ![c] = @ + 1]
        BY <4>2 DEF LocalsOK
      <4>3. CASE Goto(c, "create") /\ room' = [room EXCEPT ![c] = id]
                   /\ num' = [num EXCEPT ![c] = 0] /\ UNCHANGED todo
        BY <4>3 DEF LocalsOK, Goto, Steps, RoomSteps
      <4> QED
        BY <4>1, <4>2, <4>3
    <3> QED
      BY <2>2, <3>1, RoomsKept DEF DrawId, RestOK, endVars
  <2>3. CASE CreateChannel(c)
    <3>1. room[c] \in ChannelIds
      BY <2>3 DEF CreateChannel, LocalsOK, RoomSteps
    <3>2. LocalsOK'
      BY <2>3 DEF CreateChannel, Goto, LocalsOK, Steps, RoomSteps, RelaySteps, NotifySteps
    <3> QED
      BY <2>3, <3>1, <3>2, RoomsKept DEF CreateChannel, RestOK, endVars
  <2>4. CASE JoinChannel(c) \/ LeaveChannel(c) \/ TouchActive(c)
    <3>1. room[c] \in ChannelIds
      BY <2>4 DEF JoinChannel, LeaveChannel, TouchActive, LocalsOK, RoomSteps, RelaySteps
    <3>2. LocalsOK'
      BY <2>4, StepKept
      DEF JoinChannel, LeaveChannel, TouchActive, Steps, RoomSteps, RelaySteps
    <3>3. RoomsOK'
      BY <2>4, <3>1, RoomsKept DEF JoinChannel, LeaveChannel, TouchActive
    <3> QED
      BY <2>4, <3>2, <3>3 DEF JoinChannel, LeaveChannel, TouchActive, RestOK, endVars
  <2>5. CASE JoinRefused(c)
    BY <2>5, ErrorKept, RoomsKept DEF JoinRefused, RestOK, endVars
  <2>6. CASE CheckExists(c) \/ CheckMember(c)
    <3>1. LocalsOK'
      <4>1. CASE AnswerError(c)
        BY <4>1, ErrorKept
      <4>2. CASE Goto(c, "check") /\ UNCHANGED localVars /\ pc[c] = "exists"
        BY <4>2, StepKept DEF Steps, RoomSteps, RelaySteps
      <4>3. CASE Goto(c, "touch") /\ UNCHANGED localVars /\ pc[c] = "check"
        BY <4>3, StepKept DEF Steps, RoomSteps, RelaySteps
      <4> QED
        BY <2>6, <4>1, <4>2, <4>3 DEF CheckExists, CheckMember
    <3> QED
      BY <2>6, <3>1, RoomsKept DEF CheckExists, CheckMember, RestOK, endVars
  <2>7. CASE CountForJoined(c)
    <3>1. room[c] \in ChannelIds
      BY <2>7 DEF CountForJoined, LocalsOK, RoomSteps
    <3>2. LocalsOK'
      BY <2>7, <3>1, CountIsNat DEF CountForJoined, LocalsOK, Goto, Steps, RoomSteps
    <3> QED
      BY <2>7, <3>2, RoomsKept DEF CountForJoined, RestOK, endVars
  <2>8. CASE CountOnline(c)
    <3>1. room[c] \in ChannelIds
      BY <2>8 DEF CountOnline, LocalsOK, RoomSteps, NotifySteps
    <3>2. Cardinality(members[room[c]]) \in Nat
      BY <3>1, CountIsNat
    <3>3. LocalsOK'
      <4>1. CASE Finish(c)
        BY <4>1, FinishKept
      <4>2. CASE ~Finish(c)
        BY <2>8, <3>1, <3>2, <4>2 DEF CountOnline, LocalsOK, Goto, Steps, RoomSteps, NotifySteps
      <4> QED
        BY <4>1, <4>2
    <3> QED
      BY <2>8, <3>3, RoomsKept DEF CountOnline, RestOK, endVars
  <2>9. CASE WriteJoined(c) \/ WriteLeft(c)
    <3>1. LocalsOK'
      <4>1. pc[c] \in RoomSteps /\ "count" \in RoomSteps /\ "count" \in Steps
        BY <2>9 DEF WriteJoined, WriteLeft, RoomSteps, NotifySteps, Steps
      <4>2. /\ pc' = [pc EXCEPT ![c] = "count"]
            /\ UNCHANGED <<room, todo>>
            /\ num' = num \/ num' = [num EXCEPT ![c] = 0]
        BY <2>9 DEF WriteJoined, WriteLeft, Goto, localVars
      <4> QED
        BY <4>1, <4>2 DEF LocalsOK
    <3> QED
      BY <2>9, <3>1, RoomsKept DEF WriteJoined, WriteLeft, RestOK, endVars
  <2>10. CASE CountRecipients(c) \/ TakeSnapshot(c)
    <3>1. room[c] \in ChannelIds
      BY <2>10
      DEF CountRecipients, TakeSnapshot, LocalsOK, RoomSteps, NotifySteps, RelaySteps
    <3>2. members[room[c]] \subseteq Conns
      BY <3>1 DEF RoomsOK, RoomsTypeOK
    <3>3. LocalsOK'
      BY <2>10, <3>2 DEF CountRecipients, TakeSnapshot, Recipients, LocalsOK, Goto, Steps, RoomSteps,
          NotifySteps, RelaySteps
    <3> QED
      BY <2>10, <3>3, RoomsKept DEF CountRecipients, TakeSnapshot, RestOK, endVars
  <2>11. ASSUME NEW d \in Conns, TellCount(c, d) \/ RelayTo(c, d)
         PROVE  RoomsOK' /\ LocalsOK' /\ RestOK'
    <3>1. WriteTo(c, d)
      BY <2>11 DEF TellCount, RelayTo
    <3>2. LocalsOK'
      BY <3>1 DEF WriteTo, LocalsOK
    <3>3. RestOK'
      BY <3>1 DEF WriteTo, RestOK, Links, endVars
    <3> QED
      BY <3>1, <3>2, <3>3, RoomsKept DEF WriteTo
  <2>12. CASE ReadFails(c) \/ Close(c)
    <3>1. LocalsOK'
      BY <2>12, StepKept DEF ReadFails, Close, Steps, RoomSteps, RelaySteps, NotifySteps
    <3> QED
      BY <2>12, <3>1, RoomsKept DEF ReadFails, Close, RestOK, endVars
  <2>13. CASE Cleanup(c)
    <3>1. LocalsOK'
      BY <2>13, StepKept DEF Cleanup, Steps, RoomSteps, RelaySteps, NotifySteps
    <3>2. RestOK'
      BY <2>13 DEF Cleanup, RestOK, RoomsOf
    <3> QED
      BY <2>13, <3>1, <3>2, RoomsKept DEF Cleanup
  <2>14. ASSUME NEW ch \in ChannelIds, NotifyLeftRoom(c, ch)
         PROVE  RoomsOK' /\ LocalsOK' /\ RestOK'
    <3>1. LocalsOK'
      BY <2>14 DEF NotifyLeftRoom, Begin, LocalsOK, Goto, Steps, RoomSteps, NotifySteps
    <3> QED
      BY <2>14, <3>1, RoomsKept DEF NotifyLeftRoom, RestOK
  <2> QED
    BY <1>4, <2>1, <2>2, <2>3, <2>4, <2>5, <2>6, <2>7, <2>8, <2>9, <2>10, <2>11, <2>12, <2>13,
       <2>14 DEF HandlerStep
<1>5. CASE RoomsChange
  <2>1. RoomsOK'
    BY <1>5, RoomsKept DEF RoomsChange
  <2> QED
    BY <1>5, <2>1 DEF RoomsChange, LocalsOK, RestOK, localVars, endVars
<1> QED
  BY <1>1, <1>2, <1>3, <1>4, <1>5 DEF Next

(* The handlers' state keeps its types; in particular a handler that works  *)
(* on a room always knows which.                                            *)
THEOREM TypeCorrect == Spec => []TypeOK
<1>1. TypeInv => TypeOK
  BY DEF TypeInv
<1> QED
  BY TypeInit, TypeNext, <1>1, PTL DEF Spec

-----------------------------------------------------------------------------
(* A handler whose cleanup has begun is on its way out, and one that has    *)
(* not been started does nothing; neither can join.                         *)
Leaving == {"farewell", "done"} \cup NotifySteps

GhostInv ==
    /\ TypeInv
    /\ \A c \in Conns : c \in ending => pc[c] \in Leaving
    /\ \A c \in Conns : link[c] = "none" => pc[c] = "none"
    /\ NoGhostMembers

(* No step of the handler brings a connection that is gone into a room. *)
LEMMA NobodyElseEnters ==
    ASSUME TypeInv, [Next]_vars, NEW c \in Conns, NEW ch \in ChannelIds,
           c \notin members[ch], pc[c] # "join"
    PROVE  c \notin members'[ch]
<1> USE DEF At
<1>1. CASE UNCHANGED roomVars
  BY <1>1 DEF roomVars
<1>2. ASSUME NEW d \in Conns, JoinChannel(d)
      PROVE  c \notin members'[ch]
  BY <1>2 DEF JoinChannel, Enter, TypeInv, TypeOK, RoomsTypeOK
<1>3. ASSUME NEW d \in Conns, LeaveChannel(d)
      PROVE  c \notin members'[ch]
  BY <1>3 DEF LeaveChannel, Exit, TypeInv, TypeOK, RoomsTypeOK
<1>4. ASSUME NEW d \in Conns, CreateChannel(d) \/ TouchActive(d)
      PROVE  c \notin members'[ch]
  BY <1>4 DEF CreateChannel, TouchActive, CreateRoom, TouchRoom
<1>5. ASSUME NEW d \in Conns, Cleanup(d)
      PROVE  c \notin members'[ch]
  BY <1>5 DEF Cleanup, ExitAll
<1>6. CASE RoomsChange
  BY <1>6 DEF RoomsChange, PassTime, SweepRooms
<1>7. ASSUME NEW d \in Conns, HandlerStep(d),
             ~JoinChannel(d), ~LeaveChannel(d), ~CreateChannel(d), ~TouchActive(d), ~Cleanup(d)
      PROVE  UNCHANGED roomVars
  BY <1>7
  DEF HandlerStep, WriteReply, DrawId, JoinRefused, CountForJoined, WriteJoined, WriteLeft,
      CountOnline, CountRecipients, CountTold, CheckExists, CheckMember, TakeSnapshot, Relayed,
      TellCount, RelayTo, WriteTo, ReadFails, Close, NotifyLeftRoom
<1>8. ASSUME NEW d \in Conns, Request(d) \/ ConnectionEvent(d)
      PROVE  UNCHANGED roomVars
  BY <1>8
  DEF Request, RefuseRequest, ReadCreate, ReadJoin, ReadLeave, ReadRelay, ReadAbout,
      ConnectionEvent, Accept, Stall, Drop, HeartbeatTimeout
<1> QED
  BY <1>1, <1>2, <1>3, <1>4, <1>5, <1>6, <1>7, <1>8 DEF Next, vars

(* What a step may do to handlers that are ending or not started. *)
EndingKept ==
    \A x \in Conns : /\ x \in ending' => pc'[x] \in Leaving
                     /\ x \in ending' => x \in ending \/ Cleanup(x)
                     /\ link'[x] = "none" => link[x] = "none" /\ pc'[x] = "none"

LEMMA EndingKeptHolds ==
    ASSUME GhostInv, [Next]_vars
    PROVE  EndingKept
<1>t. /\ pc \in [Conns -> Steps] /\ link \in [Conns -> Links]
      /\ ending \subseteq Conns
  BY DEF GhostInv, TypeInv, TypeOK
<1> USE <1>t DEF GhostInv, EndingKept, At, Goto, Leaving
<1>1. CASE UNCHANGED vars \/ RoomsChange
  BY <1>1 DEF vars, RoomsChange, endVars
<1>2. ASSUME NEW c \in Conns, ConnectionEvent(c)
      PROVE  EndingKept
  BY <1>2 DEF ConnectionEvent, Accept, Stall, Drop, HeartbeatTimeout, endVars, NotifySteps
<1>3. ASSUME NEW c \in Conns, Request(c)
      PROVE  EndingKept
  BY <1>3
  DEF Request, RefuseRequest, AnswerError, ReadCreate, ReadJoin, ReadLeave, ReadRelay, ReadAbout,
      Begin, Readable, endVars, NotifySteps
<1>4. ASSUME NEW c \in Conns, HandlerStep(c)
      PROVE  EndingKept
  <2>1. CASE WriteReply(c) \/ CountTold(c) \/ Relayed(c)
    BY <2>1 DEF WriteReply, CountTold, Relayed, Finish, endVars, NotifySteps
  <2>2. CASE DrawId(c) \/ CreateChannel(c) \/ JoinChannel(c) \/ JoinRefused(c)
             \/ CountForJoined(c) \/ WriteJoined(c) \/ LeaveChannel(c) \/ WriteLeft(c)
    BY <2>2
    DEF DrawId, CreateChannel, JoinChannel, JoinRefused, AnswerError, CountForJoined, WriteJoined,
        LeaveChannel, WriteLeft, endVars, NotifySteps
  <2>3. CASE CheckExists(c) \/ CheckMember(c) \/ TouchActive(c) \/ TakeSnapshot(c)
    BY <2>3
    DEF CheckExists, CheckMember, AnswerError, TouchActive, TakeSnapshot, endVars, NotifySteps
  <2>4. CASE CountOnline(c) \/ CountRecipients(c)
    BY <2>4 DEF CountOnline, CountRecipients, Finish, endVars, NotifySteps
  <2>5. ASSUME NEW d \in Conns, TellCount(c, d) \/ RelayTo(c, d)
        PROVE  EndingKept
    BY <2>5 DEF TellCount, RelayTo, WriteTo, endVars
  <2>6. CASE ReadFails(c) \/ Cleanup(c) \/ Close(c)
    BY <2>6 DEF ReadFails, Cleanup, Close, endVars, NotifySteps
  <2>7. ASSUME NEW ch \in ChannelIds, NotifyLeftRoom(c, ch)
        PROVE  EndingKept
    BY <2>7 DEF NotifyLeftRoom, Begin, NotifySteps
  <2> QED
    BY <1>4, <2>1, <2>2, <2>3, <2>4, <2>5, <2>6, <2>7 DEF HandlerStep
<1> QED
  BY <1>1, <1>2, <1>3, <1>4 DEF Next

LEMMA GhostInit == Init => GhostInv
  BY TypeInit DEF Init, RoomsInit, GhostInv, NoGhostMembers, RoomsOf

LEMMA GhostNext == GhostInv /\ [Next]_vars => GhostInv'
<1> SUFFICES ASSUME GhostInv, [Next]_vars PROVE GhostInv'
  OBVIOUS
<1>1. TypeInv /\ TypeInv'
  BY TypeNext DEF GhostInv
<1>2. EndingKept
  BY EndingKeptHolds
<1>3. ASSUME NEW c \in Conns, c \in ending' \/ link'[c] = "none", NEW ch \in ChannelIds
      PROVE  c \notin members'[ch]
  <2>1. CASE Cleanup(c)
    BY <2>1 DEF Cleanup, ExitAll
  <2>2. CASE ~Cleanup(c)
    <3>1. c \in ending \/ link[c] = "none"
      BY <1>2, <1>3, <2>2 DEF EndingKept
    <3>2. c \notin members[ch] /\ pc[c] # "join"
      BY <3>1 DEF GhostInv, NoGhostMembers, RoomsOf, Leaving, NotifySteps
    <3> QED
      BY <1>1, <3>2, NobodyElseEnters
  <2> QED
    BY <2>1, <2>2
<1>4. NoGhostMembers'
  BY <1>3 DEF NoGhostMembers, RoomsOf
<1> QED
  BY <1>1, <1>2, <1>4 DEF GhostInv, EndingKept

(* Wherever in a request a connection is lost, once its deferred cleanup    *)
(* has called LeaveAll it is in no room and never will be again; nor is one *)
(* that was never accepted.  By GhostInv: a handler that is ending is only  *)
(* ever at a step from which no join follows.                               *)
THEOREM NoGhosts == Spec => []NoGhostMembers
<1>1. GhostInv => NoGhostMembers
  BY DEF GhostInv
<1> QED
  BY GhostInit, GhostNext, <1>1, PTL DEF Spec

-----------------------------------------------------------------------------
(* What the handlers tell *)

(* The sender has been found in the room. *)
Checked == {"touch", "snapshot", "fanout"}

(* All who were in the room since the request was read are recorded, hence  *)
(* so are the sender, once checked, and the snapshot.                       *)
PresentInv ==
    /\ TypeInv
    /\ present \in [Conns -> SUBSET Conns]
    /\ \A c \in Conns :
           /\ pc[c] \in RelaySteps => members[room[c]] \subseteq present[c]
           /\ pc[c] \in Checked => c \in present[c]
           /\ pc[c] = "fanout" => todo[c] \subseteq present[c]

(* How a handler can get to the steps that follow the check. *)
RelayMoves ==
    \A x \in Conns :
        /\ pc'[x] \in Checked =>
               /\ room'[x] = room[x]
               /\ pc[x] \in Checked \/ x \in members[room[x]]
        /\ pc'[x] = "fanout" =>
               \/ pc[x] = "fanout" /\ todo'[x] \subseteq todo[x]
               \/ todo'[x] = members[room[x]]

LEMMA RelayMovesHolds ==
    ASSUME TypeInv, [Next]_vars
    PROVE  RelayMoves
<1>t. /\ pc \in [Conns -> Steps] /\ room \in [Conns -> ChannelIds \cup {NoRoom}]
      /\ todo \in [Conns -> SUBSET Conns]
  BY DEF TypeInv, TypeOK
<1> USE <1>t DEF RelayMoves, Checked, At, Goto
<1>1. CASE UNCHANGED vars \/ RoomsChange
  BY <1>1 DEF vars, RoomsChange, localVars
<1>2. ASSUME NEW c \in Conns, ConnectionEvent(c)
      PROVE  RelayMoves
  BY <1>2 DEF ConnectionEvent, Accept, Stall, Drop, HeartbeatTimeout, localVars
<1>3. ASSUME NEW c \in Conns, Request(c)
      PROVE  RelayMoves
  BY <1>3
  DEF Request, RefuseRequest, AnswerError, ReadCreate, ReadJoin, ReadLeave, ReadRelay, ReadAbout,
      Begin, localVars
<1>4. ASSUME NEW c \in Conns, HandlerStep(c)
      PROVE  RelayMoves
  <2>1. CASE WriteReply(c) \/ CountTold(c) \/ Relayed(c)
    BY <2>1 DEF WriteReply, CountTold, Relayed, Finish
  <2>2. CASE DrawId(c) \/ CreateChannel(c) \/ JoinChannel(c) \/ JoinRefused(c)
             \/ CountForJoined(c) \/ WriteJoined(c) \/ LeaveChannel(c) \/ WriteLeft(c)
    BY <2>2
    DEF DrawId, CreateChannel, JoinChannel, JoinRefused, AnswerError, CountForJoined, WriteJoined,
        LeaveChannel, WriteLeft, localVars
  <2>3. CASE CheckExists(c) \/ CheckMember(c) \/ TouchActive(c)
    BY <2>3 DEF CheckExists, CheckMember, AnswerError, TouchActive, localVars
  <2>4. CASE TakeSnapshot(c)
    BY <2>4 DEF TakeSnapshot, Recipients
  <2>5. CASE CountOnline(c) \/ CountRecipients(c)
    BY <2>5 DEF CountOnline, CountRecipients, Finish
  <2>6. ASSUME NEW d \in Conns, TellCount(c, d) \/ RelayTo(c, d)
        PROVE  RelayMoves
    BY <2>6 DEF TellCount, RelayTo, WriteTo
  <2>7. CASE ReadFails(c) \/ Cleanup(c) \/ Close(c)
    BY <2>7 DEF ReadFails, Cleanup, Close, localVars
  <2>8. ASSUME NEW ch \in ChannelIds, NotifyLeftRoom(c, ch)
        PROVE  RelayMoves
    BY <2>8 DEF NotifyLeftRoom, Begin
  <2> QED
    BY <1>4, <2>1, <2>2, <2>3, <2>4, <2>5, <2>6, <2>7, <2>8 DEF HandlerStep
<1> QED
  BY <1>1, <1>2, <1>3, <1>4 DEF Next

LEMMA PresentInit == AuditInit => PresentInv
  BY TypeInit DEF AuditInit, Init, PresentInv, RelaySteps, Checked

LEMMA PresentNext == PresentInv /\ [AuditNext]_auditVars => PresentInv'
<1> SUFFICES ASSUME PresentInv, [AuditNext]_auditVars PROVE PresentInv'
  OBVIOUS
<1>1. CASE UNCHANGED auditVars
  BY <1>1
  DEF auditVars, vars, roomVars, localVars, endVars, PresentInv, TypeInv, TypeOK, RoomsTypeOK,
      FiniteRooms
<1>2. CASE AuditNext
  <2>1. TypeInv /\ TypeInv' /\ [Next]_vars
    BY <1>2, TypeNext DEF PresentInv, AuditNext
  <2>2. RelayMoves
    BY <2>1, RelayMovesHolds
  <2>3. /\ \A c \in Conns : pc[c] \in RelaySteps => /\ room[c] \in ChannelIds
                                                  /\ members[room[c]] \subseteq Conns
        /\ \A c \in Conns : pc'[c] \in RelaySteps => /\ room'[c] \in ChannelIds
                                                   /\ members[room'[c]] \subseteq Conns
                                                   /\ members'[room'[c]] \subseteq Conns
    BY <2>1 DEF TypeInv, TypeOK, RoomsTypeOK, RoomSteps
  <2>4. present' = [c \in Conns |->
                       IF pc'[c] \in RelaySteps
                       THEN present[c] \cup members[room'[c]] \cup members'[room'[c]]
                       ELSE {}]
    BY <1>2 DEF AuditNext, Relaying
  <2>5. present' \in [Conns -> SUBSET Conns]
    BY <2>3, <2>4 DEF PresentInv
  <2>6. ASSUME NEW c \in Conns
        PROVE  /\ pc'[c] \in RelaySteps => members'[room'[c]] \subseteq present'[c]
               /\ pc'[c] \in Checked => c \in present'[c]
               /\ pc'[c] = "fanout" => todo'[c] \subseteq present'[c]
    <3>1. pc'[c] \in Checked => pc'[c] \in RelaySteps
      BY DEF Checked, RelaySteps
    <3>2. pc'[c] \in RelaySteps =>
              present'[c] = present[c] \cup members[room'[c]] \cup members'[room'[c]]
      BY <2>4
    <3>3. pc'[c] \in Checked => c \in present'[c]
      BY <2>2, <3>1, <3>2 DEF RelayMoves, PresentInv
    <3>4. pc'[c] = "fanout" => todo'[c] \subseteq present'[c]
      BY <2>2, <3>1, <3>2 DEF RelayMoves, PresentInv, Checked
    <3> QED
      BY <3>2, <3>3, <3>4
  <2> QED
    BY <2>1, <2>5, <2>6 DEF PresentInv
<1> QED
  BY <1>1, <1>2

(* Neither a join, a leave, a disconnect nor a sweep between the check of   *)
(* the sender, the snapshot and the writes lets a message out of its room:  *)
(* sender and recipients were all in it while it was handled.               *)
THEOREM MessagesStayInRoom == AuditSpec => RelayStaysInRoom
<1>1. ASSUME PresentInv
      PROVE  \A c \in Conns :
                 At(c, "fanout") /\ Reached(c) # {} => {c} \cup Reached(c) \subseteq present[c]
  BY <1>1 DEF PresentInv, At, Reached, Checked
<1> QED
  BY PresentInit, PresentNext, <1>1, PTL DEF AuditSpec, RelayStaysInRoom

-----------------------------------------------------------------------------
(* Who has been told the count *)

(* Every member who reads has got the right count. *)
AllTold(ch) == \A d \in members[ch] : link[d] = "up" => d \in told[ch]

(* Still to count, after having changed the room. *)
WillCount(c, ch) ==
    \/ pc[c] \in {"joined", "reply joined", "reply left", "count"} /\ room[c] = ch
    \/ c \in ending /\ pc[c] # "done" /\ ch \in farewell[c]

(* Has the right count, and tells it to all who have not got it. *)
WillTell(c, ch) ==
    /\ room[c] = ch
    /\ num[c] = Cardinality(members[ch])
    /\ \/ pc[c] = "recipients"
       \/ /\ pc[c] = "tell"
          /\ \A d \in members[ch] : link[d] = "up" => d \in told[ch] \cup todo[c]

TellInv ==
    /\ GhostInv
    /\ \A ch \in ChannelIds :
           AllTold(ch) \/ \E c \in Conns : WillCount(c, ch) \/ WillTell(c, ch)

LEMMA TellInit == AuditInit => TellInv
  BY GhostInit DEF AuditInit, Init, RoomsInit, TellInv, AllTold

(* A handler's own state changes in its own steps only. *)
LEMMA OthersKeep ==
    ASSUME TypeInv, Next, NEW c \in Conns, ~HandlerStep(c), ~Request(c), ~Accept(c)
    PROVE  /\ pc'[c] = pc[c] /\ room'[c] = room[c] /\ num'[c] = num[c] /\ todo'[c] = todo[c]
           /\ farewell'[c] = farewell[c] /\ (c \in ending => c \in ending')
<1> DEFINE Kept == /\ pc'[c] = pc[c] /\ room'[c] = room[c] /\ num'[c] = num[c]
                   /\ todo'[c] = todo[c] /\ farewell'[c] = farewell[c]
                   /\ (c \in ending => c \in ending')
<1>t. /\ pc \in [Conns -> Steps] /\ room \in [Conns -> ChannelIds \cup {NoRoom}]
      /\ num \in [Conns -> Nat] /\ todo \in [Conns -> SUBSET Conns]
      /\ farewell \in [Conns -> SUBSET ChannelIds]
  BY DEF TypeInv, TypeOK
<1> USE <1>t DEF At, Goto
<1>1. CASE RoomsChange
  BY <1>1 DEF RoomsChange, localVars, endVars
<1>2. ASSUME NEW x \in Conns, ConnectionEvent(x), x # c \/ ~Accept(x)
      PROVE  Kept
  BY <1>2 DEF ConnectionEvent, Accept, Stall, Drop, HeartbeatTimeout, localVars, endVars
<1>3. ASSUME NEW x \in Conns, x # c, Request(x)
      PROVE  Kept
  BY <1>3
  DEF Request, RefuseRequest, AnswerError, ReadCreate, ReadJoin, ReadLeave, ReadRelay, ReadAbout,
      Begin, localVars, endVars
<1>4. ASSUME NEW x \in Conns, x # c, HandlerStep(x)
      PROVE  Kept
  <2>1. CASE WriteReply(x) \/ CountTold(x) \/ Relayed(x)
    BY <1>4, <2>1 DEF WriteReply, CountTold, Relayed, Finish, endVars
  <2>2. CASE DrawId(x) \/ CreateChannel(x) \/ JoinChannel(x) \/ JoinRefused(x)
             \/ CountForJoined(x) \/ WriteJoined(x) \/ LeaveChannel(x) \/ WriteLeft(x)
    BY <1>4, <2>2
    DEF DrawId, CreateChannel, JoinChannel, JoinRefused, AnswerError, CountForJoined, WriteJoined,
        LeaveChannel, WriteLeft, localVars, endVars
  <2>3. CASE CheckExists(x) \/ CheckMember(x) \/ TouchActive(x) \/ TakeSnapshot(x)
    BY <1>4, <2>3
    DEF CheckExists, CheckMember, AnswerError, TouchActive, TakeSnapshot, localVars, endVars
  <2>4. CASE CountOnline(x) \/ CountRecipients(x)
    BY <1>4, <2>4 DEF CountOnline, CountRecipients, Finish, endVars
  <2>5. ASSUME NEW d \in Conns, TellCount(x, d) \/ RelayTo(x, d)
        PROVE  Kept
    BY <1>4, <2>5 DEF TellCount, RelayTo, WriteTo, endVars
  <2>6. CASE ReadFails(x) \/ Cleanup(x) \/ Close(x)
    BY <1>4, <2>6 DEF ReadFails, Cleanup, Close, localVars, endVars
  <2>7. ASSUME NEW ch \in ChannelIds, NotifyLeftRoom(x, ch)
        PROVE  Kept
    BY <1>4, <2>7 DEF NotifyLeftRoom, Begin
  <2> QED
    BY <1>4, <2>1, <2>2, <2>3, <2>4, <2>5, <2>6, <2>7 DEF HandlerStep
<1> QED
  BY <1>1, <1>2, <1>3, <1>4 DEF Next

(* Nobody in a room is only now accepted. *)
LEMMA MembersWereUp ==
    ASSUME GhostInv, Next, NEW ch \in ChannelIds, NEW d \in members[ch], link'[d] = "up"
    PROVE  link[d] = "up"
<1>1. d \in Conns /\ link[d] # "none" /\ link \in [Conns -> Links]
  BY DEF GhostInv, NoGhostMembers, RoomsOf, TypeInv, TypeOK, RoomsTypeOK
<1>2. CASE UNCHANGED link
  BY <1>2
<1>3. ASSUME NEW c \in Conns, ConnectionEvent(c) PROVE link[d] = "up"
  BY <1>1, <1>3 DEF ConnectionEvent, Accept, Stall, Drop, HeartbeatTimeout
<1>4. ASSUME NEW c \in Conns, NEW x \in Conns, WriteTo(c, x) PROVE link[d] = "up"
  BY <1>1, <1>4 DEF WriteTo
<1>5. ASSUME NEW c \in Conns, Request(c) PROVE UNCHANGED link
  BY <1>5
  DEF Request, RefuseRequest, ReadCreate, ReadJoin, ReadLeave, ReadRelay, ReadAbout
<1>6. ASSUME NEW c \in Conns, HandlerStep(c), \A x \in Conns : ~WriteTo(c, x)
      PROVE  UNCHANGED link
  BY <1>6
  DEF HandlerStep, WriteReply, DrawId, CreateChannel, JoinChannel, JoinRefused, CountForJoined,
      WriteJoined, LeaveChannel, WriteLeft, CountOnline, CountRecipients, CountTold, CheckExists,
      CheckMember, TouchActive, TakeSnapshot, Relayed, TellCount, RelayTo, ReadFails, Cleanup,
      Close, NotifyLeftRoom
<1> QED
  BY <1>2, <1>3, <1>4, <1>5, <1>6 DEF Next, RoomsChange

(* Whoever changes a room has yet to count it, unless it leaves it empty. *)
LEMMA ChangersCount ==
    ASSUME GhostInv, Next, NEW ch \in ChannelIds, members'[ch] # members[ch]
    PROVE  members'[ch] = {} \/ \E c \in Conns : WillCount(c, ch)'
<1>t. /\ pc \in [Conns -> Steps] /\ members \in [ChannelIds -> SUBSET Conns]
      /\ farewell \in [Conns -> SUBSET ChannelIds] /\ ending \subseteq Conns
  BY DEF GhostInv, TypeInv, TypeOK, RoomsTypeOK
<1> USE <1>t DEF At, Goto
<1>1. ASSUME NEW d \in Conns, JoinChannel(d)
      PROVE  WillCount(d, ch)'
  <2>1. pc'[d] = "joined" /\ room'[d] = room[d] /\ room[d] = ch
    BY <1>1 DEF JoinChannel, Enter, localVars
  <2> QED
    BY <2>1 DEF WillCount
<1>2. ASSUME NEW d \in Conns, LeaveChannel(d)
      PROVE  WillCount(d, ch)'
  <2>1. pc'[d] = "reply left" /\ room'[d] = room[d] /\ room[d] = ch
    BY <1>2 DEF LeaveChannel, Exit, localVars
  <2> QED
    BY <2>1 DEF WillCount
<1>3. ASSUME NEW d \in Conns, Cleanup(d)
      PROVE  WillCount(d, ch)'
  <2>1. pc'[d] = "farewell" /\ d \in ending' /\ farewell'[d] = RoomsOf(d)
    BY <1>3 DEF Cleanup
  <2>2. ch \in RoomsOf(d)
    BY <1>3 DEF Cleanup, ExitAll, RoomsOf
  <2> QED
    BY <2>1, <2>2 DEF WillCount
<1>4. ASSUME NEW d \in Conns, CreateChannel(d) \/ TouchActive(d)
      PROVE  FALSE
  BY <1>4 DEF CreateChannel, TouchActive, CreateRoom, TouchRoom
<1>5. CASE RoomsChange
  BY <1>5 DEF RoomsChange, PassTime, SweepRooms
<1>6. ASSUME NEW d \in Conns, HandlerStep(d),
             ~JoinChannel(d), ~LeaveChannel(d), ~CreateChannel(d), ~TouchActive(d), ~Cleanup(d)
      PROVE  FALSE
  <2>1. UNCHANGED roomVars
    BY <1>6
    DEF HandlerStep, WriteReply, DrawId, JoinRefused, CountForJoined, WriteJoined, WriteLeft,
        CountOnline, CountRecipients, CountTold, CheckExists, CheckMember, TakeSnapshot, Relayed,
        TellCount, RelayTo, WriteTo, ReadFails, Close, NotifyLeftRoom
  <2> QED
    BY <2>1 DEF roomVars
<1>7. ASSUME NEW d \in Conns, Request(d) \/ ConnectionEvent(d)
      PROVE  FALSE
  <2>1. UNCHANGED roomVars
    BY <1>7
    DEF Request, RefuseRequest, ReadCreate, ReadJoin, ReadLeave, ReadRelay, ReadAbout,
        ConnectionEvent, Accept, Stall, Drop, HeartbeatTimeout
  <2> QED
    BY <2>1 DEF roomVars
<1> QED
  BY <1>1, <1>2, <1>3, <1>4, <1>5, <1>6, <1>7 DEF Next

(* The handler's steps that may follow a change of a room. *)
LEMMA PendingSteps ==
    ASSUME NEW c \in Conns, HandlerStep(c),
           pc[c] \in {"joined", "reply joined", "reply left", "farewell"} \cup NotifySteps
    PROVE  \/ CountForJoined(c) \/ WriteJoined(c) \/ WriteLeft(c)
           \/ CountOnline(c) \/ CountRecipients(c) \/ CountTold(c) \/ Close(c)
           \/ \E d \in Conns : TellCount(c, d)
           \/ \E ch \in ChannelIds : NotifyLeftRoom(c, ch)
  BY DEF HandlerStep, At, NotifySteps, WriteReply, DrawId, CreateChannel, JoinChannel, JoinRefused,
      LeaveChannel, CheckExists, CheckMember, TouchActive, TakeSnapshot, Relayed, RelayTo,
      ReadFails, Cleanup

(* A handler that has to count or to tell goes on to do so, and a room it   *)
(* has told, or found empty, has nobody left to tell.                       *)
LEMMA PendingKept ==
    ASSUME GhostInv, AuditNext, NEW ch \in ChannelIds, members'[ch] = members[ch],
           NEW c \in Conns, WillCount(c, ch) \/ WillTell(c, ch)
    PROVE  AllTold(ch)' \/ WillCount(c, ch)' \/ WillTell(c, ch)'
<1>t. /\ pc \in [Conns -> Steps] /\ room \in [Conns -> ChannelIds \cup {NoRoom}]
      /\ num \in [Conns -> Nat] /\ todo \in [Conns -> SUBSET Conns]
      /\ farewell \in [Conns -> SUBSET ChannelIds] /\ ending \subseteq Conns
      /\ link \in [Conns -> Links]
      /\ IsFiniteSet(members[ch]) /\ members[ch] \subseteq Conns
  BY DEF GhostInv, TypeInv, TypeOK, RoomsTypeOK, FiniteRooms
<1>0. Next /\ TypeInv
  BY DEF AuditNext, GhostInv
<1>1. told'[ch] = told[ch] \cup ToldNow(ch)
  BY DEF AuditNext
<1>2. \A d \in members[ch] : link'[d] = "up" => link[d] = "up"
  BY <1>0, MembersWereUp
<1>3. pc[c] \in {"joined", "reply joined", "reply left", "farewell"} \cup NotifySteps
  BY DEF WillCount, WillTell, GhostInv, Leaving, NotifySteps
<1>4. CASE ~HandlerStep(c)
  <2>1. ~Request(c)
    BY <1>3
    DEF Request, RefuseRequest, ReadCreate, ReadJoin, ReadLeave, ReadRelay, ReadAbout, Readable,
        At, NotifySteps
  <2>2. ~Accept(c)
    BY <1>3 DEF Accept, GhostInv, NotifySteps
  <2>3. /\ pc'[c] = pc[c] /\ room'[c] = room[c] /\ num'[c] = num[c] /\ todo'[c] = todo[c]
        /\ farewell'[c] = farewell[c] /\ (c \in ending => c \in ending')
    BY <1>0, <1>4, <2>1, <2>2, OthersKeep
  <2>4. WillCount(c, ch) => WillCount(c, ch)'
    BY <2>3 DEF WillCount
  <2>5. WillTell(c, ch) => WillTell(c, ch)'
    BY <1>1, <1>2, <2>3 DEF WillTell
  <2> QED
    BY <2>4, <2>5
<1>5. CASE HandlerStep(c)
  <2> USE <1>t DEF At, Goto
  <2>0. \/ CountForJoined(c) \/ WriteJoined(c) \/ WriteLeft(c)
        \/ CountOnline(c) \/ CountRecipients(c) \/ CountTold(c) \/ Close(c)
        \/ \E d \in Conns : TellCount(c, d)
        \/ \E x \in ChannelIds : NotifyLeftRoom(c, x)
    BY <1>3, <1>5, PendingSteps
  <2>1. CASE c \in ending /\ pc[c] # "done" /\ ch \in farewell[c]
    <3>1. c \in ending' /\ ~Close(c)
      BY <2>0, <2>1
      DEF CountForJoined, WriteJoined, WriteLeft, CountOnline, CountRecipients, CountTold, Close,
          TellCount, WriteTo, NotifyLeftRoom, endVars
    <3>2. CASE NotifyLeftRoom(c, ch)
      <4>1. pc'[c] = "count" /\ room'[c] = ch
        BY <3>2 DEF NotifyLeftRoom, Begin
      <4> QED
        BY <4>1 DEF WillCount
    <3>3. CASE ~NotifyLeftRoom(c, ch)
      <4>1. ch \in farewell'[c] /\ pc'[c] # "done"
        <5>1. CASE CountForJoined(c) \/ WriteJoined(c) \/ WriteLeft(c) \/ CountRecipients(c)
          BY <2>1, <5>1
          DEF CountForJoined, WriteJoined, WriteLeft, CountRecipients, endVars
        <5>2. CASE CountOnline(c)
          BY <2>1, <5>2 DEF CountOnline, Finish, endVars
        <5>3. CASE CountTold(c)
          BY <2>1, <5>3 DEF CountTold, Finish, endVars
        <5>4. ASSUME NEW d \in Conns, TellCount(c, d) PROVE ch \in farewell'[c] /\ pc'[c] # "done"
          BY <2>1, <5>4 DEF TellCount, WriteTo, endVars
        <5>5. ASSUME NEW x \in ChannelIds, NotifyLeftRoom(c, x), x # ch
              PROVE  ch \in farewell'[c] /\ pc'[c] # "done"
          BY <2>1, <5>5 DEF NotifyLeftRoom, Begin
        <5> QED
          BY <2>0, <3>1, <3>3, <5>1, <5>2, <5>3, <5>4, <5>5
      <4> QED
        BY <3>1, <4>1 DEF WillCount
    <3> QED
      BY <3>2, <3>3
  <2>2. CASE pc[c] \in {"joined", "reply joined", "reply left"} /\ room[c] = ch
    <3>1. pc'[c] \in {"reply joined", "count"} /\ room'[c] = ch
      BY <2>0, <2>2
      DEF CountForJoined, WriteJoined, WriteLeft, CountOnline, CountRecipients, CountTold, Close,
          TellCount, NotifyLeftRoom, localVars
    <3> QED
      BY <3>1 DEF WillCount
  <2>3. CASE pc[c] = "count" /\ room[c] = ch
    <3>1. CountOnline(c)
      BY <2>0, <2>3
      DEF CountForJoined, WriteJoined, WriteLeft, CountRecipients, CountTold, Close, TellCount,
          NotifyLeftRoom
    <3>2. CASE Cardinality(members[ch]) = 0
      <4>1. members[ch] = {}
        BY <3>2, FS_EmptySet
      <4> QED
        BY <4>1 DEF AllTold
    <3>3. CASE Cardinality(members[ch]) # 0
      <4>1. /\ num' = [num EXCEPT ![c] = Cardinality(members[ch])]
            /\ pc' = [pc EXCEPT ![c] = "recipients"] /\ room' = room
        BY <2>3, <3>1, <3>3 DEF CountOnline
      <4> QED
        BY <2>3, <4>1 DEF WillTell
    <3> QED
      BY <3>2, <3>3
  <2>4. CASE WillTell(c, ch) /\ pc[c] = "recipients"
    <3>1. CountRecipients(c)
      BY <2>0, <2>4
      DEF CountForJoined, WriteJoined, WriteLeft, CountOnline, CountTold, Close, TellCount,
          NotifyLeftRoom
    <3>2. pc'[c] = "tell" /\ todo'[c] = members[ch] /\ UNCHANGED <<room, num>>
      BY <2>4, <3>1 DEF CountRecipients, WillTell
    <3> QED
      BY <2>4, <3>2 DEF WillTell
  <2>5. CASE WillTell(c, ch) /\ pc[c] = "tell"
    <3>1. CountTold(c) \/ \E d \in Conns : TellCount(c, d)
      BY <2>0, <2>5
      DEF CountForJoined, WriteJoined, WriteLeft, CountOnline, CountRecipients, Close,
          NotifyLeftRoom
    <3>2. \A d \in members[ch] : link[d] = "up" => d \in told[ch] \cup todo[c]
      BY <2>5 DEF WillTell
    <3>3. CASE CountTold(c)
      BY <1>1, <1>2, <3>2, <3>3 DEF CountTold, AllTold
    <3>4. ASSUME NEW d \in Conns, TellCount(c, d)
          PROVE  WillTell(c, ch)'
      <4>1. /\ d \in todo[c] /\ todo'[c] = todo[c] \ {d}
            /\ pc'[c] = "tell" /\ room'[c] = ch /\ num'[c] = num[c]
        BY <2>5, <3>4 DEF TellCount, WriteTo, WillTell
      <4>2. link[d] = "up" => d \in ToldNow(ch)
        <5>1. link[d] = "up" => d \in Reached(c)
          BY <4>1 DEF Reached
        <5> QED
          BY <2>5, <5>1 DEF ToldNow, WillTell
      <4>3. \A x \in members[ch] : link'[x] = "up" => x \in told'[ch] \cup todo'[c]
        BY <1>1, <1>2, <3>2, <4>1, <4>2
      <4> QED
        BY <2>5, <4>1, <4>3 DEF WillTell
    <3> QED
      BY <3>1, <3>3, <3>4
  <2> QED
    BY <2>1, <2>2, <2>3, <2>4, <2>5 DEF WillCount, WillTell
<1> QED
  BY <1>4, <1>5

LEMMA TellNext == TellInv /\ [AuditNext]_auditVars => TellInv'
<1> SUFFICES ASSUME TellInv, [AuditNext]_auditVars PROVE TellInv'
  OBVIOUS
<1>1. GhostInv /\ GhostInv'
  BY GhostNext DEF TellInv, AuditNext, auditVars
<1>2. CASE UNCHANGED auditVars
  <2>1. UNCHANGED <<members, link, told, pc, room, num, todo, ending, farewell>>
    BY <1>2 DEF auditVars, vars, roomVars, localVars, endVars
  <2>2. ASSUME NEW ch \in ChannelIds
        PROVE  AllTold(ch)' \/ \E c \in Conns : WillCount(c, ch)' \/ WillTell(c, ch)'
    <3>1. CASE AllTold(ch)
      BY <2>1, <3>1 DEF AllTold
    <3>2. ASSUME NEW c \in Conns, WillCount(c, ch) \/ WillTell(c, ch)
          PROVE  WillCount(c, ch)' \/ WillTell(c, ch)'
      BY <2>1, <3>2 DEF WillCount, WillTell
    <3> QED
      BY <3>1, <3>2 DEF TellInv
  <2> QED
    BY <1>1, <2>2 DEF TellInv
<1>3. CASE AuditNext
  <2>1. SUFFICES ASSUME NEW ch \in ChannelIds
                 PROVE  AllTold(ch)' \/ \E c \in Conns : WillCount(c, ch)' \/ WillTell(c, ch)'
    BY <1>1 DEF TellInv
  <2>2. Next
    BY <1>3 DEF AuditNext
  <2>3. CASE members'[ch] # members[ch]
    <3>1. CASE members'[ch] = {}
      BY <3>1 DEF AllTold
    <3>2. CASE members'[ch] # {}
      BY <1>1, <2>2, <2>3, <3>2, ChangersCount
    <3> QED
      BY <3>1, <3>2
  <2>4. CASE members'[ch] = members[ch] /\ AllTold(ch)
    <3>1. \A d \in members[ch] : link'[d] = "up" => link[d] = "up"
      BY <1>1, <2>2, MembersWereUp
    <3>2. told[ch] \subseteq told'[ch]
      BY <1>3, <2>4 DEF AuditNext
    <3> QED
      BY <2>4, <3>1, <3>2 DEF AllTold
  <2>5. CASE members'[ch] = members[ch] /\ ~AllTold(ch)
    <3>1. PICK c \in Conns : WillCount(c, ch) \/ WillTell(c, ch)
      BY <2>5 DEF TellInv
    <3>2. AllTold(ch)' \/ WillCount(c, ch)' \/ WillTell(c, ch)'
      BY <1>1, <1>3, <2>5, <3>1, PendingKept
    <3> QED
      BY <3>2
  <2> QED
    BY <2>3, <2>4, <2>5
<1> QED
  BY <1>2, <1>3

(* Although count, snapshot and writes are not one step and two handlers    *)
(* may tell the same room different counts at once: when all is quiet every *)
(* member that reads has the right one since the last change.  Whoever      *)
(* changes the room has yet to count it, in a step after the change.        *)
THEOREM MembersAreTold == AuditSpec => []EveryMemberTold
<1>1. TellInv => EveryMemberTold
  <2> SUFFICES ASSUME TellInv, Quiescent, NEW ch \in ChannelIds PROVE AllTold(ch)
    BY DEF EveryMemberTold, AllTold
  <2>1. \A c \in Conns : ~WillCount(c, ch) /\ ~WillTell(c, ch)
    BY DEF Quiescent, WillCount, WillTell, TellInv, GhostInv, Leaving, NotifySteps
  <2> QED
    BY <2>1 DEF TellInv
<1> QED
  BY TellInit, TellNext, <1>1, PTL DEF AuditSpec
=============================================================================
