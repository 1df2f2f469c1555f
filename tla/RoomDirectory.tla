---------------------------- MODULE RoomDirectory ----------------------------
(***************************************************************************)
(* What the channel manager promises to the rest of the server: a set of   *)
(* rooms, who is in each of them, and how long each has been quiet, as far *)
(* as expiry can tell.  There is one membership relation here, whereas     *)
(* manager.go keeps two indexes of it; there is no clock, only the two     *)
(* thresholds a room crosses as it gets older.                             *)
(*                                                                         *)
(* ChannelManager implements this specification.  RelayServer is built on  *)
(* its actions, one per locked section of the manager.                     *)
(***************************************************************************)
EXTENDS Naturals, FiniteSets

CONSTANTS
    Conns,          \* WebSocket connections
    ChannelIds,     \* ids GenerateID can return
    MaxMembers      \* capacity of a room; 0 means unlimited

ASSUME MaxMembersAssumption == MaxMembers \in Nat

VARIABLES
    members,        \* members[ch]: the connections in room ch
    life            \* life[ch]: whether room ch exists and how quiet it is

roomVars == <<members, life>>

(* "none": no such room.  "active": used within EmptyTTL.  "quiet": unused  *)
(* for longer than EmptyTTL.  "idle": unused for longer than IdleTTL.       *)
Life == {"none", "active", "quiet", "idle"}

RoomsTypeOK ==
    /\ members \in [ChannelIds -> SUBSET Conns]
    /\ life \in [ChannelIds -> Life]

RoomsInit ==
    /\ members = [ch \in ChannelIds |-> {}]
    /\ life = [ch \in ChannelIds |-> "none"]

-----------------------------------------------------------------------------
(* Queries *)

Exists(ch) == life[ch] # "none"

Full(ch) == MaxMembers > 0 /\ Cardinality(members[ch]) >= MaxMembers

RoomsOf(c) == {ch \in ChannelIds : c \in members[ch]}

(* An idle room may be swept whoever is in it, a quiet one only when empty. *)
Sweepable(ch) ==
    \/ life[ch] = "idle"
    \/ life[ch] = "quiet" /\ members[ch] = {}

-----------------------------------------------------------------------------
(* Operations *)

(* Creating a room that already exists changes nothing. *)
CreateRoom(ch) ==
    /\ life' = [life EXCEPT ![ch] = IF @ = "none" THEN "active" ELSE @]
    /\ UNCHANGED members

Enter(ch, c) ==
    /\ Exists(ch)
    /\ ~Full(ch)
    /\ members' = [members EXCEPT ![ch] = @ \cup {c}]
    /\ life' = [life EXCEPT ![ch] = "active"]

TouchRoom(ch) ==
    /\ life' = [life EXCEPT ![ch] = IF @ = "none" THEN "none" ELSE "active"]
    /\ UNCHANGED members

(* Leaving is not activity, and an emptied room stays. *)
Exit(ch, c) ==
    /\ members' = [members EXCEPT ![ch] = @ \ {c}]
    /\ UNCHANGED life

ExitAll(c) ==
    /\ members' = [ch \in ChannelIds |-> members[ch] \ {c}]
    /\ UNCHANGED life

(* The stages a room can be in some time later, nobody having used it. *)
Later(l) ==
    CASE l = "active" -> {"active", "quiet", "idle"}
      [] l = "quiet"  -> {"quiet", "idle"}
      [] OTHER        -> {l}

PassTime ==
    /\ life' \in [ChannelIds -> Life]
    /\ \A ch \in ChannelIds : life'[ch] \in Later(life[ch])
    /\ UNCHANGED members

(* One sweep removes some of the rooms that may be swept.  Not all: the     *)
(* sweep reads the clock before it takes the lock.                          *)
SweepRooms ==
    \E gone \in SUBSET {ch \in ChannelIds : Sweepable(ch)} :
        /\ members' = [ch \in ChannelIds |-> IF ch \in gone THEN {} ELSE members[ch]]
        /\ life' = [ch \in ChannelIds |-> IF ch \in gone THEN "none" ELSE life[ch]]

-----------------------------------------------------------------------------
RoomsNext ==
    \/ \E ch \in ChannelIds : CreateRoom(ch) \/ TouchRoom(ch)
    \/ \E ch \in ChannelIds, c \in Conns : Enter(ch, c) \/ Exit(ch, c)
    \/ \E c \in Conns : ExitAll(c)
    \/ PassTime
    \/ SweepRooms

RoomsSpec == RoomsInit /\ [][RoomsNext]_roomVars
=============================================================================
