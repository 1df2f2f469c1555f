------------------------------ MODULE MCRoomSync ------------------------------
(***************************************************************************)
(* What the members of a room tell each other: their nicks, the room's     *)
(* name and its key.  The three protocols use frames of their own and      *)
(* share no state, so a behaviour is about one of them: its topic.  Nicks  *)
(* are looked at twice, with clients that only join, and with fewer that   *)
(* also leave, come back and lose connections.                             *)
(***************************************************************************)
EXTENDS Integers, Sequences, FiniteSets

CONSTANTS
    Pair, Third,                \* two clients and a third
    MaxSessions,                \* Announcements
    Leavers, Droppers,          \* its clients that may leave, or lose connections
    Names, MaxRenames,          \* RoomNameSync
    MaxKey                      \* KeyRotation

Trio == Pair \cup {Third}

Founder == CHOOSE c \in Pair : TRUE

VARIABLES
    topic,
    members, session, replies, tells, counted, inbox, outbox, refused, lastOnline, peerNicks,
    returning, owed,
    present, rise, sending, relaying, arriving, roomName, lastRoomName, entries, renames,
    unnamed, disturbed,
    crypto, roomKeys, roomKeyB64, rotation, wire, tasks, imports, lastKey, overlapped, unsent

nickVars == <<members, session, replies, tells, counted, inbox, outbox, refused, lastOnline,
              peerNicks, returning, owed>>
nameVars == <<present, rise, sending, relaying, arriving, roomName, lastRoomName, entries, renames,
              unnamed, disturbed>>
keyVars == <<crypto, roomKeys, roomKeyB64, rotation, wire, tasks, imports, lastKey, overlapped, unsent>>

Joins == INSTANCE Announcements WITH
    Clients <- Trio, Founders <- {Founder}, Leavers <- {}, Droppers <- {}

Churn == INSTANCE Announcements WITH
    Clients <- Pair, Founders <- {Founder}

Name == INSTANCE RoomNameSync WITH
    Clients <- Pair, Founders <- {Founder}, Creator <- Founder, Renamers <- Pair,
    members <- present, outbox <- sending, inbox <- arriving, refused <- unnamed

Key == INSTANCE KeyRotation WITH Members <- Trio, refused <- unsent

(* Somebody creates the room, with a name, and a room without a name is    *)
(* told from every room with one.                                          *)
ASSUME RoomAssumption ==
    Pair # {} /\ IsFiniteSet(Pair) /\ Names # {} /\ Name!NoName \notin Names

SyncInit ==
    /\ \/ topic \in {"joins", "name", "key"} /\ Joins!Init
       \/ topic = "churn" /\ Churn!Init
    /\ Name!Init
    /\ Key!Init

SyncNext ==
    /\ UNCHANGED topic
    /\ \/ topic = "joins" /\ Joins!Next /\ UNCHANGED <<nameVars, keyVars>>
       \/ topic = "churn" /\ Churn!Next /\ UNCHANGED <<nameVars, keyVars>>
       \/ topic = "name" /\ Name!Next /\ UNCHANGED <<nickVars, keyVars>>
       \/ topic = "key" /\ Key!Next /\ UNCHANGED <<nickVars, nameVars>>

syncVars == <<topic, nickVars, nameVars, keyVars>>

SyncSpec == SyncInit /\ [][SyncNext]_syncVars

-----------------------------------------------------------------------------
(* Clients that only join learn each other's nicks, and with leaving,      *)
(* coming back and lost connections, who joins anew becomes known to those *)
(* who were there; but for a client whose announcement the server refused  *)
(* (App.svelte, the effect that announces names when the online number     *)
(* rises; transport.go, the budgets of set_nickname).                      *)
NicksLearned ==
    /\ topic = "joins" => Joins!EveryNickKnown
    /\ topic = "churn" => Churn!NewcomerIntroduced

(* A newcomer learns a name, unless it is refused; members agree on it     *)
(* when renames reached the room alone; and no announcement enters the     *)
(* timeline (App.svelte, the same effect; channel.svelte.ts,               *)
(* room_name_updated).                                                     *)
NewcomersLearnName == Name!NewcomersLearnName

(* Rotations that do not overlap and are not refused leave everybody with  *)
(* one key (App.svelte, rotateKeyViaE2EE; channel.svelte.ts, key_updated;  *)
(* transport.go, the budgets of key_update).                               *)
OneRoomKey == Key!OneRoomKey

(* The App's copies of the key are the store's, but for a late import that *)
(* overlapping rotations may leave in roomKeys (App.svelte, onKeyRotated). *)
KeyCopiesAgree == Key!KeyCopiesAgree
=============================================================================
