---------------------------- MODULE RoomNameSync ----------------------------
(***************************************************************************)
(* How the members of one room agree on its name.  A rename is sent to     *)
(* everybody by the server (backend/internal/ws/transport.go: one handler  *)
(* per connection, which writes to one member after the other), and whoever*)
(* knows a name announces it again when the room's online number rises     *)
(* (frontend/src/App.svelte).  The announcements carry `initial`, and the  *)
(* store (channel.svelte.ts) shows them without an entry in the timeline.  *)
(***************************************************************************)
EXTENDS Integers, Sequences

CONSTANTS
    Clients,
    Founders,       \* who is in the room from the start; the others join
    Creator,        \* the founder who created the room with a name
    Names,
    Renamers,
    MaxRenames      \* bound on the renames

VARIABLES
    members,
    rise,           \* who has yet to see the online number that rose
    outbox,         \* outbox[c]: set_room_name frames on the way from c
    relaying,       \* relaying[c]: the frame c's handler writes, and to whom still
    inbox,          \* inbox[c]: room_name_updated frames on the way to c
    roomName,       \* roomNames of c's tab for this room
    lastRoomName,   \* lastRoomName of c's store
    entries,        \* entries[c]: the renames in c's timeline
    renames,        \* number of renames so far
    refused,        \* clients whose latest frame the server has refused
    disturbed       \* whether a rename ever met other frames, a join or a refusal

ghosts == <<refused, disturbed>>
vars == <<members, rise, outbox, relaying, inbox, roomName, lastRoomName, entries, renames, ghosts>>

NoName == "no name"
Frames == [name : Names, initial : BOOLEAN]
NoFrame == [name |-> NoName, initial |-> FALSE]
Idle == [frame |-> NoFrame, todo |-> {}]

(* The name the room was created with: any of them, since all are alike. *)
FirstName == CHOOSE name \in Names : TRUE

Init ==
    /\ members = Founders
    /\ rise = Founders
    /\ outbox = [c \in Clients |-> <<>>]
    /\ relaying = [c \in Clients |-> Idle]
    /\ inbox = [c \in Clients |-> <<>>]
    /\ roomName = [c \in Clients |-> IF c = Creator THEN FirstName ELSE NoName]
    /\ lastRoomName = [c \in Clients |-> NoName]
    /\ entries = [c \in Clients |-> <<>>]
    /\ renames = 0
    /\ refused = {}
    /\ disturbed = FALSE

AtRest ==
    /\ rise = {}
    /\ \A c \in Clients : inbox[c] = <<>> /\ outbox[c] = <<>> /\ relaying[c] = Idle

HasRename(q) == \E i \in 1..Len(q) : ~q[i].initial

(* A rename is on its way to somebody. *)
RenameUnderWay ==
    \E c \in Clients :
        \/ HasRename(outbox[c]) \/ HasRename(inbox[c])
        \/ relaying[c].todo # {} /\ ~relaying[c].frame.initial

Send(c, name, initial) ==
    outbox' = [outbox EXCEPT ![c] = Append(@, [name |-> name, initial |-> initial])]

(* updateRoomName: the tab shows its own rename when it has been sent. *)
Rename(c, name) ==
    /\ c \in members \cap Renamers
    /\ renames < MaxRenames
    /\ name # roomName[c]
    /\ renames' = renames + 1
    /\ disturbed' = (disturbed \/ ~AtRest)
    /\ Send(c, name, FALSE)
    /\ roomName' = [roomName EXCEPT ![c] = name]
    /\ UNCHANGED <<members, rise, relaying, inbox, lastRoomName, entries, refused>>

Join(c) ==
    /\ c \notin members
    /\ members' = members \cup {c}
    /\ rise' = rise \cup members'
    /\ disturbed' = (disturbed \/ RenameUnderWay)
    /\ UNCHANGED <<outbox, relaying, inbox, roomName, lastRoomName, entries, renames, refused>>

(* The effect on `online` announces the name, if there is one. *)
Announce(c) ==
    /\ c \in rise
    /\ rise' = rise \ {c}
    /\ IF roomName[c] = NoName THEN UNCHANGED outbox ELSE Send(c, roomName[c], TRUE)
    /\ UNCHANGED <<members, relaying, inbox, roomName, lastRoomName, entries, renames, ghosts>>

-----------------------------------------------------------------------------
(* The server: the handler of c's connection *)

Take(c) ==
    /\ relaying[c] = Idle
    /\ outbox[c] # <<>>
    /\ relaying' = [relaying EXCEPT ![c] = [frame |-> Head(outbox[c]), todo |-> members]]
    /\ outbox' = [outbox EXCEPT ![c] = Tail(@)]
    /\ refused' = refused \ {c}
    /\ UNCHANGED <<members, rise, inbox, roomName, lastRoomName, entries, renames, disturbed>>

(* One of the budgets is used up.  The client does not send again. *)
Refuse(c) ==
    /\ relaying[c] = Idle
    /\ outbox[c] # <<>>
    /\ outbox' = [outbox EXCEPT ![c] = Tail(@)]
    /\ refused' = refused \cup {c}
    /\ disturbed' = (disturbed \/ ~Head(outbox[c]).initial)
    /\ UNCHANGED <<members, rise, relaying, inbox, roomName, lastRoomName, entries, renames>>

Write(c, d) ==
    LET left == relaying[c].todo \ {d}
    IN  /\ d \in relaying[c].todo
        /\ inbox' = [inbox EXCEPT ![d] = Append(@, relaying[c].frame)]
        /\ relaying' = [relaying EXCEPT ![c] =
                           IF left = {} THEN Idle ELSE [@ EXCEPT !.todo = left]]
        /\ UNCHANGED <<members, rise, outbox, roomName, lastRoomName, entries, renames, ghosts>>

-----------------------------------------------------------------------------
(* room_name_updated: a name that is new to the store gets an entry in the *)
(* timeline if it comes from a rename; every name is applied.              *)

ShowsRename(frame) == ~frame.initial

IgnoresInitial(c, frame) == IF frame.initial THEN roomName[c] ELSE frame.name

Applied(c, frame) == frame.name

Receive(c) ==
    /\ inbox[c] # <<>>
    /\ LET frame == Head(inbox[c])
       IN  /\ roomName' = [roomName EXCEPT ![c] = Applied(c, frame)]
           /\ lastRoomName' = [lastRoomName EXCEPT ![c] = frame.name]
           /\ entries' = [entries EXCEPT ![c] =
                             IF lastRoomName[c] # frame.name /\ ShowsRename(frame)
                             THEN Append(@, frame.name) ELSE @]
    /\ inbox' = [inbox EXCEPT ![c] = Tail(@)]
    /\ UNCHANGED <<members, rise, outbox, relaying, renames, ghosts>>

Next ==
    \E c \in Clients :
        \/ \E name \in Names : Rename(c, name)
        \/ Join(c) \/ Announce(c) \/ Take(c) \/ Refuse(c) \/ Receive(c)
        \/ \E d \in Clients : Write(c, d)

Spec == Init /\ [][Next]_vars

-----------------------------------------------------------------------------
(* Properties *)

(* When everything has been delivered, every member has a name for the     *)
(* room, unless the server refused the latest frame of the one who named   *)
(* it; all who have one have the same, those who came after a rename       *)
(* included, as long as every rename was made at rest and reached the room *)
(* alone; and the announcements leave the timeline alone: it never has     *)
(* more entries than there were renames, however often the name is         *)
(* announced.                                                              *)
NewcomersLearnName ==
    /\ AtRest /\ Creator \notin refused => \A c \in members : roomName[c] # NoName
    /\ AtRest /\ ~disturbed => \A c, d \in members :
           NoName \in {roomName[c], roomName[d]} \/ roomName[c] = roomName[d]
    /\ \A c \in Clients : Len(entries[c]) <= renames

=============================================================================
