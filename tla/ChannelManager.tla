---------------------------- MODULE ChannelManager ----------------------------
(***************************************************************************)
(* backend/internal/channel/manager.go: the in-memory rooms of the server. *)
(*                                                                         *)
(* Every method runs under the manager's mutex, so each is one action.     *)
(* The exception is ExpireNow, which evaluates m.now() before Expire takes *)
(* the lock: the sweep is two actions, and the rooms may change between    *)
(* them.  The goroutine that calls it (cmd/server/main.go) is modelled by  *)
(* the ticker deadline sweepDue.                                           *)
(***************************************************************************)
EXTENDS Integers, FiniteSets

CONSTANTS
    Conns,          \* connections, the keys of connChannels
    ChannelIds,     \* ids GenerateID can return
    MaxMembers,     \* the max argument of JoinIfRoom (transport.go: maxMembers)
    EmptyTTL,       \* lifetime of an unused empty room
    IdleTTL,        \* lifetime of any unused room
    SweepPeriod,    \* period of the sweeper's ticker
    MaxLag,         \* how late after its ticker's deadline a sweep may end
    MaxTime         \* bound on the clock

ASSUME CapacityAssumption == MaxMembers \in Nat
ASSUME TTLAssumption ==
    /\ EmptyTTL \in Nat
    /\ IdleTTL \in Nat
    /\ EmptyTTL <= IdleTTL
(* A time.Ticker keeps one tick for a slow receiver and drops the others,   *)
(* so a sweep less than a period late delays none of those after it.        *)
ASSUME SweepAssumption ==
    /\ SweepPeriod \in Nat \ {0}
    /\ MaxLag \in 0..SweepPeriod
    /\ MaxTime \in Nat

VARIABLES
    channels,       \* channelId -> [conns, lastActive], for the rooms that exist
    connChannels,   \* reverse index: conn -> the rooms it is in, never empty
    now,            \* the clock behind m.now()
    sweepAt,        \* the clock value the running sweep has read, or NoSweep
    sweepDue        \* ticker deadline of the sweep that is running or comes next

vars == <<channels, connChannels, now, sweepAt, sweepDue>>

NoSweep == -1

ChannelInfo == [conns : SUBSET Conns, lastActive : Nat]

TypeOK ==
    /\ DOMAIN channels \subseteq ChannelIds
    /\ channels \in [DOMAIN channels -> ChannelInfo]
    /\ \A ch \in DOMAIN channels : channels[ch].lastActive <= now
    /\ DOMAIN connChannels \subseteq Conns
    /\ connChannels \in [DOMAIN connChannels -> (SUBSET ChannelIds) \ {{}}]
    /\ now \in Nat
    /\ sweepAt \in Nat \cup {NoSweep}
    /\ sweepAt <= now
    /\ sweepDue \in Nat

-----------------------------------------------------------------------------
(* Go maps as functions on the keys present. *)

Put(f, k, v) == [x \in DOMAIN f \cup {k} |-> IF x = k THEN v ELSE f[x]]

Delete(f, ks) == [x \in DOMAIN f \ ks |-> f[x]]

UnindexKeepingEmpty(index, gone) == [c \in DOMAIN index |-> index[c] \ gone[c]]

(* The reverse index without the rooms gone[c]; an entry left empty goes. *)
Unindex(index, gone) ==
    [c \in {d \in DOMAIN index : index[d] \ gone[d] # {}} |-> index[c] \ gone[c]]

(* The room without conn. *)
Without(info, conn) == [info EXCEPT !.conns = @ \ {conn}]

-----------------------------------------------------------------------------
(* Queries *)

Exists(ch) == ch \in DOMAIN channels

FullBeyondMax(ch) == MaxMembers > 0 /\ Cardinality(channels[ch].conns) > MaxMembers

Full(ch) == MaxMembers > 0 /\ Cardinality(channels[ch].conns) >= MaxMembers

Snapshot(ch) == IF Exists(ch) THEN channels[ch].conns ELSE {}

RoomsOf(c) == IF c \in DOMAIN connChannels THEN connChannels[c] ELSE {}

-----------------------------------------------------------------------------
Init ==
    /\ channels = [ch \in {} |-> [conns |-> {}, lastActive |-> 0]]
    /\ connChannels = [c \in {} |-> {}]
    /\ now = 0
    /\ sweepAt = NoSweep
    /\ sweepDue = SweepPeriod

(* Of a room that exists, Create changes nothing. *)
Create(ch) ==
    /\ ~Exists(ch)
    /\ channels' = Put(channels, ch, [conns |-> {}, lastActive |-> now])
    /\ UNCHANGED <<connChannels, now, sweepAt, sweepDue>>

JoinedQuietly(ch, conn) == [channels[ch] EXCEPT !.conns = @ \cup {conn}]

(* The room with conn in it; joining is activity. *)
Joined(ch, conn) == [conns |-> channels[ch].conns \cup {conn}, lastActive |-> now]

(* Refused when the room is gone or full; a member of a full room that asks *)
(* again is refused as well, since only the size is looked at.              *)
JoinIfRoom(ch, conn) ==
    /\ Exists(ch)
    /\ ~Full(ch)
    /\ channels' = Put(channels, ch, Joined(ch, conn))
    /\ connChannels' = Put(connChannels, conn, RoomsOf(conn) \cup {ch})
    /\ UNCHANGED <<now, sweepAt, sweepDue>>

Touch(ch) ==
    /\ Exists(ch)
    /\ channels' = [channels EXCEPT ![ch].lastActive = now]
    /\ UNCHANGED <<connChannels, now, sweepAt, sweepDue>>

(* The room stays, and its lastActive is not refreshed. *)
Leave(ch, conn) ==
    /\ channels' = IF Exists(ch)
                   THEN [channels EXCEPT ![ch] = Without(@, conn)]
                   ELSE channels
    /\ connChannels' = Unindex(connChannels, [c \in Conns |-> IF c = conn THEN {ch} ELSE {}])
    /\ UNCHANGED <<now, sweepAt, sweepDue>>

(* Only the rooms the reverse index lists are visited. *)
LeaveAll(conn) ==
    /\ conn \in DOMAIN connChannels
    /\ channels' = [ch \in DOMAIN channels |->
                        IF ch \in connChannels[conn]
                        THEN Without(channels[ch], conn)
                        ELSE channels[ch]]
    /\ connChannels' = Delete(connChannels, {conn})
    /\ UNCHANGED <<now, sweepAt, sweepDue>>

-----------------------------------------------------------------------------
(* The sweep *)

Elapsed(ch, t) == t - channels[ch].lastActive

ExpiredOnlyIfIdle(ch, t) == Elapsed(ch, t) > IdleTTL

ExpiredThoughOccupied(ch, t) == Elapsed(ch, t) > EmptyTTL

ExpiredOnlyIfEmpty(ch, t) == channels[ch].conns = {} /\ Elapsed(ch, t) > EmptyTTL

Expired(ch, t) ==
    \/ channels[ch].conns = {} /\ Elapsed(ch, t) > EmptyTTL
    \/ Elapsed(ch, t) > IdleTTL

StaleEntriesLeft(expired) == [c \in Conns |-> {}]

(* The reverse index entries of the members of the expired rooms. *)
StaleEntries(expired) == [c \in Conns |-> {ch \in expired : c \in channels[ch].conns}]

(* ExpireNow's argument m.now(), evaluated before the lock is taken. *)
ReadSweepClock ==
    /\ sweepAt = NoSweep
    /\ now >= sweepDue
    /\ sweepAt' = now
    /\ UNCHANGED <<channels, connChannels, now, sweepDue>>

(* Expire(sweepAt), under the lock. *)
Expire ==
    /\ sweepAt # NoSweep
    /\ LET expired == {ch \in DOMAIN channels : Expired(ch, sweepAt)}
       IN  /\ channels' = Delete(channels, expired)
           /\ connChannels' = Unindex(connChannels, StaleEntries(expired))
    /\ sweepAt' = NoSweep
    /\ sweepDue' = sweepDue + SweepPeriod
    /\ UNCHANGED now

(* Time passes; a sweep that is due ends within MaxLag of its deadline. *)
Tick ==
    /\ now < MaxTime
    /\ now < sweepDue + MaxLag
    /\ now' = now + 1
    /\ UNCHANGED <<channels, connChannels, sweepAt, sweepDue>>

-----------------------------------------------------------------------------
Next ==
    \/ \E ch \in ChannelIds : Create(ch) \/ Touch(ch)
    \/ \E ch \in ChannelIds, conn \in Conns : JoinIfRoom(ch, conn) \/ Leave(ch, conn)
    \/ \E conn \in Conns : LeaveAll(conn)
    \/ ReadSweepClock
    \/ Expire
    \/ Tick

Spec == Init /\ [][Next]_vars

-----------------------------------------------------------------------------
(* The forward map and the reverse index describe the same membership: no   *)
(* method, and no expiry of a room with members still in it, leaves a       *)
(* connection indexed for a room it is not in, or in a room LeaveAll would  *)
(* not find (manager.go, channels and connChannels).                        *)
IndexesAgree ==
    \A c \in Conns, ch \in ChannelIds : c \in Snapshot(ch) <=> ch \in RoomsOf(c)

(* However joins interleave with leaves and sweeps, no room holds more      *)
(* than max members (JoinIfRoom checks and adds under one lock).            *)
WithinCapacity ==
    MaxMembers > 0 =>
        \A ch \in DOMAIN channels : Cardinality(channels[ch].conns) <= MaxMembers

(* No room, occupied or not, outlives its last use by more than IdleTTL, a  *)
(* sweep period and the sweep's lag, though each sweep judges the rooms by  *)
(* a clock it read before it got the lock.                                  *)
IdleRoomsSwept ==
    \A ch \in DOMAIN channels :
        now - channels[ch].lastActive <= IdleTTL + SweepPeriod + MaxLag

-----------------------------------------------------------------------------
(* The room directory this manager implements.  Membership is read off the  *)
(* reverse index, the one the disconnect path uses.                         *)
Stage(ch) ==
    CASE ~Exists(ch) -> "none"
      [] Exists(ch) /\ now - channels[ch].lastActive > IdleTTL -> "idle"
      [] Exists(ch) /\ now - channels[ch].lastActive \in (EmptyTTL + 1)..IdleTTL -> "quiet"
      [] OTHER -> "active"

Directory == INSTANCE RoomDirectory WITH
    members <- [ch \in ChannelIds |-> {c \in Conns : ch \in RoomsOf(c)}],
    life <- [ch \in ChannelIds |-> Stage(ch)]

(* The two indexes, the TTL arithmetic and the sweep with its stale clock   *)
(* behave as one membership relation with rooms that age and are removed    *)
(* only when they may be.                                                   *)
ImplementsDirectory == Directory!RoomsSpec
=============================================================================
