------------------------- MODULE ChannelManagerProofs -------------------------
(***************************************************************************)
(* Proofs about ChannelManager and the lifetimes of RoomLifetime, for any  *)
(* connections, rooms, capacity, TTLs and sweep period.                    *)
(***************************************************************************)
EXTENDS RoomLifetime, FiniteSetTheorems, TLAPS

(* What the map helpers return, as the proofs below use them. *)

LEMMA PutMap ==
    ASSUME NEW f, NEW k, NEW v
    PROVE  /\ DOMAIN Put(f, k, v) = DOMAIN f \cup {k}
           /\ Put(f, k, v)[k] = v
           /\ \A x \in DOMAIN f : x # k => Put(f, k, v)[x] = f[x]
  BY DEF Put

LEMMA DeleteMap ==
    ASSUME NEW f, NEW ks
    PROVE  /\ DOMAIN Delete(f, ks) = DOMAIN f \ ks
           /\ \A x \in DOMAIN f \ ks : Delete(f, ks)[x] = f[x]
  BY DEF Delete

(* Unindex keeps the shape of the reverse index: no empty entry appears. *)
LEMMA UnindexType ==
    ASSUME NEW index, NEW gone,
           DOMAIN index \subseteq Conns,
           index \in [DOMAIN index -> (SUBSET ChannelIds) \ {{}}]
    PROVE  /\ DOMAIN Unindex(index, gone) \subseteq Conns
           /\ Unindex(index, gone) \in
                  [DOMAIN Unindex(index, gone) -> (SUBSET ChannelIds) \ {{}}]
  BY DEF Unindex

-----------------------------------------------------------------------------
(* Types *)

LEMMA TypeInit == Init => TypeOK
  BY SweepAssumption DEF Init, TypeOK, NoSweep, ChannelInfo

LEMMA TypeNext == TypeOK /\ [Next]_vars => TypeOK'
<1> SUFFICES ASSUME TypeOK, [Next]_vars PROVE TypeOK'
  OBVIOUS
<1> USE SweepAssumption DEF TypeOK, ChannelInfo
<1>1. CASE \E ch \in ChannelIds : Create(ch)
  <2> PICK ch \in ChannelIds : Create(ch)
    BY <1>1
  <2> QED
    BY DEF Create, Put
<1>2. CASE \E ch \in ChannelIds : Touch(ch)
  <2> PICK ch \in ChannelIds : Touch(ch)
    BY <1>2
  <2> QED
    BY DEF Touch, Exists
<1>3. CASE \E ch \in ChannelIds, conn \in Conns : JoinIfRoom(ch, conn)
  <2> PICK ch \in ChannelIds, conn \in Conns : JoinIfRoom(ch, conn)
    BY <1>3
  <2> QED
    BY DEF JoinIfRoom, Joined, Put, Exists, RoomsOf
<1>4. CASE \E ch \in ChannelIds, conn \in Conns : Leave(ch, conn)
  <2> PICK ch \in ChannelIds, conn \in Conns : Leave(ch, conn)
    BY <1>4
  <2>1. DOMAIN channels' \subseteq ChannelIds /\ channels' \in [DOMAIN channels' -> ChannelInfo]
        /\ \A d \in DOMAIN channels' : channels'[d].lastActive <= now'
    BY DEF Leave, Without, Exists
  <2> QED
    BY <2>1, UnindexType DEF Leave
<1>5. CASE \E conn \in Conns : LeaveAll(conn)
  <2> PICK conn \in Conns : LeaveAll(conn)
    BY <1>5
  <2> QED
    BY DEF LeaveAll, Without, Delete
<1>6. CASE ReadSweepClock
  BY <1>6 DEF ReadSweepClock
<1>7. CASE Expire
  <2> DEFINE expired == {ch \in DOMAIN channels : Expired(ch, sweepAt)}
  <2>1. /\ channels' = Delete(channels, expired)
        /\ connChannels' = Unindex(connChannels, StaleEntries(expired))
        /\ sweepAt' = NoSweep /\ sweepDue' = sweepDue + SweepPeriod /\ now' = now
    BY <1>7 DEF Expire
  <2> HIDE DEF expired
  <2>2. /\ DOMAIN channels' \subseteq DOMAIN channels
        /\ \A d \in DOMAIN channels' : channels'[d] = channels[d]
        /\ channels' = [d \in DOMAIN channels' |-> channels'[d]]
    BY <2>1, DeleteMap DEF Delete
  <2>3. /\ DOMAIN connChannels' \subseteq Conns
        /\ connChannels' \in [DOMAIN connChannels' -> (SUBSET ChannelIds) \ {{}}]
    BY <2>1, UnindexType
  <2>4. /\ sweepAt' \in Nat \cup {NoSweep} /\ sweepAt' <= now' /\ now' \in Nat
        /\ sweepDue' \in Nat
    BY <2>1 DEF NoSweep
  <2>5. /\ DOMAIN channels' \subseteq ChannelIds
        /\ channels' \in [DOMAIN channels' -> ChannelInfo]
    <3> HIDE DEF ChannelInfo
    <3>1. \A d \in DOMAIN channels' : channels'[d] \in ChannelInfo
      BY <2>2
    <3> QED
      BY <2>2, <3>1
  <2>6. \A d \in DOMAIN channels' : channels'[d].lastActive <= now'
    BY <2>1, <2>2
  <2> QED
    BY <2>3, <2>4, <2>5, <2>6
<1>8. CASE Tick
  BY <1>8 DEF Tick, NoSweep
<1>9. CASE UNCHANGED vars
  BY <1>9 DEF vars
<1> QED
  BY <1>1, <1>2, <1>3, <1>4, <1>5, <1>6, <1>7, <1>8, <1>9 DEF Next

(* Every reachable state has the manager's representation: well-formed rooms *)
(* used no later than now, and no empty entry in the reverse index.          *)
THEOREM TypeCorrect == Spec => []TypeOK
  BY TypeInit, TypeNext, PTL DEF Spec

-----------------------------------------------------------------------------
(* The two indexes *)

(* After Unindex, c is indexed for exactly the rooms it was, less gone[c]. *)
LEMMA UnindexRooms ==
    ASSUME TypeOK, NEW gone, connChannels' = Unindex(connChannels, gone), NEW c
    PROVE  RoomsOf(c)' = RoomsOf(c) \ gone[c]
  BY DEF Unindex, RoomsOf, TypeOK

LEMMA AgreeInit == Init => IndexesAgree
  BY DEF Init, IndexesAgree, Snapshot, Exists, RoomsOf

LEMMA AgreeNext == TypeOK /\ IndexesAgree /\ [Next]_vars => IndexesAgree'
<1> SUFFICES ASSUME TypeOK, IndexesAgree, [Next]_vars,
                    NEW c \in Conns, NEW ch \in ChannelIds
             PROVE  c \in Snapshot(ch)' <=> ch \in RoomsOf(c)'
  BY DEF IndexesAgree
<1>0. c \in Snapshot(ch) <=> ch \in RoomsOf(c)
  BY DEF IndexesAgree
<1>1. ASSUME NEW d \in ChannelIds, Create(d)
      PROVE  c \in Snapshot(ch)' <=> ch \in RoomsOf(c)'
  BY <1>0, <1>1 DEF Create, Put, Snapshot, Exists, RoomsOf
<1>2. ASSUME NEW d \in ChannelIds, Touch(d)
      PROVE  c \in Snapshot(ch)' <=> ch \in RoomsOf(c)'
  BY <1>0, <1>2 DEF Touch, Snapshot, Exists, RoomsOf, TypeOK, ChannelInfo
<1>3. ASSUME NEW d \in ChannelIds, NEW conn \in Conns, JoinIfRoom(d, conn)
      PROVE  c \in Snapshot(ch)' <=> ch \in RoomsOf(c)'
  <2>1. Snapshot(ch)' = IF ch = d THEN Snapshot(ch) \cup {conn} ELSE Snapshot(ch)
    BY <1>3 DEF JoinIfRoom, Joined, Put, Snapshot, Exists
  <2>2. RoomsOf(c)' = IF c = conn THEN RoomsOf(c) \cup {d} ELSE RoomsOf(c)
    BY <1>3 DEF JoinIfRoom, Put, RoomsOf
  <2> QED
    BY <1>0, <2>1, <2>2
<1>4. ASSUME NEW d \in ChannelIds, NEW conn \in Conns, Leave(d, conn)
      PROVE  c \in Snapshot(ch)' <=> ch \in RoomsOf(c)'
  <2>1. Snapshot(ch)' = IF ch = d THEN Snapshot(ch) \ {conn} ELSE Snapshot(ch)
    BY <1>4 DEF Leave, Without, Snapshot, Exists, TypeOK, ChannelInfo
  <2>2. RoomsOf(c)' = RoomsOf(c) \ (IF c = conn THEN {d} ELSE {})
    BY <1>4, UnindexRooms DEF Leave
  <2> QED
    BY <1>0, <2>1, <2>2
<1>5. ASSUME NEW conn \in Conns, LeaveAll(conn)
      PROVE  c \in Snapshot(ch)' <=> ch \in RoomsOf(c)'
  <2>1. Snapshot(ch)' = IF ch \in RoomsOf(conn) THEN Snapshot(ch) \ {conn} ELSE Snapshot(ch)
    BY <1>5 DEF LeaveAll, Without, Snapshot, Exists, RoomsOf, TypeOK, ChannelInfo
  <2>2. RoomsOf(c)' = IF c = conn THEN {} ELSE RoomsOf(c)
    BY <1>5 DEF LeaveAll, Delete, RoomsOf
  <2> QED
    BY <1>0, <2>1, <2>2
<1>6. CASE ReadSweepClock
  BY <1>0, <1>6 DEF ReadSweepClock, Snapshot, Exists, RoomsOf
<1>7. CASE Expire
  <2> DEFINE expired == {d \in DOMAIN channels : Expired(d, sweepAt)}
  <2>1. /\ channels' = Delete(channels, expired)
        /\ connChannels' = Unindex(connChannels, StaleEntries(expired))
    BY <1>7 DEF Expire
  <2>2. expired \subseteq DOMAIN channels
    OBVIOUS
  <2> HIDE DEF expired
  <2>3. Snapshot(ch)' = IF ch \in expired THEN {} ELSE Snapshot(ch)
    BY <2>1 DEF Delete, Snapshot, Exists
  <2>4. RoomsOf(c)' = RoomsOf(c) \ {d \in expired : c \in Snapshot(d)}
    BY <2>1, <2>2, UnindexRooms DEF StaleEntries, Snapshot, Exists
  <2> QED
    BY <1>0, <2>3, <2>4
<1>8. CASE Tick
  BY <1>0, <1>8 DEF Tick, Snapshot, Exists, RoomsOf
<1>9. CASE UNCHANGED vars
  BY <1>0, <1>9 DEF vars, Snapshot, Exists, RoomsOf
<1> QED
  BY <1>1, <1>2, <1>3, <1>4, <1>5, <1>6, <1>7, <1>8, <1>9 DEF Next

(* In every reachable state the forward map and the reverse index describe   *)
(* the same membership, so that the disconnect path finds every room.        *)
THEOREM IndexesAlwaysAgree == Spec => []IndexesAgree
<1>1. Init => TypeOK /\ IndexesAgree
  BY TypeInit, AgreeInit
<1>2. TypeOK /\ IndexesAgree /\ [Next]_vars => (TypeOK /\ IndexesAgree)'
  BY TypeNext, AgreeNext
<1> QED
  BY <1>1, <1>2, PTL DEF Spec

-----------------------------------------------------------------------------
(* Capacity *)

(* WithinCapacity is inductive once the rooms are known to be finite. *)
CapacityInv ==
    \A ch \in DOMAIN channels :
        /\ IsFiniteSet(channels[ch].conns)
        /\ MaxMembers > 0 => Cardinality(channels[ch].conns) <= MaxMembers

LEMMA CapacityNext == TypeOK /\ CapacityInv /\ [Next]_vars => CapacityInv'
<1> SUFFICES ASSUME TypeOK, CapacityInv, [Next]_vars,
                    NEW ch \in DOMAIN channels'
             PROVE  /\ IsFiniteSet(channels'[ch].conns)
                    /\ MaxMembers > 0 => Cardinality(channels'[ch].conns) <= MaxMembers
  BY DEF CapacityInv
<1> DEFINE Small(S) == /\ IsFiniteSet(S)
                       /\ MaxMembers > 0 => Cardinality(S) <= MaxMembers
<1>a. \A d \in DOMAIN channels : Small(channels[d].conns)
  BY DEF CapacityInv
<1>b. ASSUME NEW S, NEW T, Small(T), S \subseteq T
      PROVE  Small(S)
  <2>1. IsFiniteSet(S) /\ Cardinality(S) <= Cardinality(T)
        /\ Cardinality(S) \in Nat /\ Cardinality(T) \in Nat
    BY <1>b, FS_Subset, FS_CardinalityType
  <2> QED
    BY <1>b, <2>1, CapacityAssumption
<1>c. Small({})
  BY FS_EmptySet, CapacityAssumption
<1>d. ASSUME ch \in DOMAIN channels, channels'[ch].conns \subseteq channels[ch].conns
      PROVE  Small(channels'[ch].conns)
  BY <1>a, <1>b, <1>d
<1> SUFFICES Small(channels'[ch].conns)
  OBVIOUS
<1> HIDE DEF Small
<1>1. ASSUME NEW d \in ChannelIds, Create(d)
      PROVE  Small(channels'[ch].conns)
  BY <1>1, <1>a, <1>c DEF Create, Put
<1>2. ASSUME NEW d \in ChannelIds, Touch(d)
      PROVE  Small(channels'[ch].conns)
  BY <1>2, <1>d DEF Touch, Exists, TypeOK, ChannelInfo
<1>3. ASSUME NEW d \in ChannelIds, NEW conn \in Conns, JoinIfRoom(d, conn)
      PROVE  Small(channels'[ch].conns)
  <2>1. CASE ch # d
    BY <2>1, <1>3, <1>d DEF JoinIfRoom, Put
  <2>2. CASE ch = d
    <3> DEFINE old == channels[d].conns
    <3>1. channels'[ch].conns = old \cup {conn} /\ Small(old)
          /\ ~(MaxMembers > 0 /\ Cardinality(old) >= MaxMembers)
      BY <2>2, <1>3, <1>a DEF JoinIfRoom, Joined, Put, Exists, Full
    <3>2. /\ IsFiniteSet(old \cup {conn})
          /\ Cardinality(old) \in Nat
          /\ Cardinality(old \cup {conn}) \in Nat
          /\ Cardinality(old \cup {conn}) <= Cardinality(old) + 1
      <4>1. IsFiniteSet(old)
        BY <3>1 DEF Small
      <4>2. /\ IsFiniteSet(old \cup {conn})
            /\ Cardinality(old \cup {conn}) = IF conn \in old THEN Cardinality(old)
                                              ELSE Cardinality(old) + 1
        BY <4>1, FS_AddElement
      <4> QED
        BY <4>1, <4>2, FS_CardinalityType
    <3> HIDE DEF old
    <3> QED
      BY <3>1, <3>2, CapacityAssumption DEF Small
  <2> QED
    BY <2>1, <2>2
<1>4. ASSUME NEW d \in ChannelIds, NEW conn \in Conns, Leave(d, conn)
      PROVE  Small(channels'[ch].conns)
  <2>1. ch \in DOMAIN channels /\ channels'[ch].conns \subseteq channels[ch].conns
    BY <1>4 DEF Leave, Without, Exists, TypeOK, ChannelInfo
  <2> QED
    BY <2>1, <1>d
<1>5. ASSUME NEW conn \in Conns, LeaveAll(conn)
      PROVE  Small(channels'[ch].conns)
  <2>1. ch \in DOMAIN channels /\ channels'[ch].conns \subseteq channels[ch].conns
    BY <1>5 DEF LeaveAll, Without, TypeOK, ChannelInfo
  <2> QED
    BY <2>1, <1>d
<1>6. CASE Expire
  <2>1. ch \in DOMAIN channels /\ channels'[ch].conns \subseteq channels[ch].conns
    BY <1>6 DEF Expire, Delete
  <2> QED
    BY <2>1, <1>d
<1>7. CASE UNCHANGED channels
  <2>1. ch \in DOMAIN channels /\ channels'[ch].conns \subseteq channels[ch].conns
    BY <1>7
  <2> QED
    BY <2>1, <1>d
<1> QED
  BY <1>1, <1>2, <1>3, <1>4, <1>5, <1>6, <1>7 DEF Next, ReadSweepClock, Tick, vars

(* No interleaving of joins, leaves and sweeps overfills a room. *)
THEOREM CapacityKept == Spec => []WithinCapacity
<1>1. Init => TypeOK /\ CapacityInv
  BY TypeInit DEF Init, CapacityInv
<1>2. TypeOK /\ CapacityInv /\ [Next]_vars => (TypeOK /\ CapacityInv)'
  BY TypeNext, CapacityNext
<1>3. CapacityInv => WithinCapacity
  BY DEF CapacityInv, WithinCapacity
<1> QED
  BY <1>1, <1>2, <1>3, PTL DEF Spec

-----------------------------------------------------------------------------
(* Expiry *)

(* Every room has survived the last sweep, whose clock was no earlier than  *)
(* its deadline sweepDue - SweepPeriod, and the pending sweep is not late.  *)
SweepInv ==
    /\ now \in (sweepDue - SweepPeriod)..(sweepDue + MaxLag)
    /\ sweepAt # NoSweep => sweepDue <= sweepAt
    /\ \A ch \in DOMAIN channels :
           sweepDue - SweepPeriod - channels[ch].lastActive <= IdleTTL

LEMMA SweepInit == Init => SweepInv
  BY SweepAssumption, TTLAssumption DEF Init, SweepInv, NoSweep

LEMMA SweepNext == TypeOK /\ SweepInv /\ [Next]_vars => SweepInv'
<1> SUFFICES ASSUME TypeOK, SweepInv, [Next]_vars PROVE SweepInv'
  OBVIOUS
<1> USE SweepAssumption, TTLAssumption DEF SweepInv, TypeOK, ChannelInfo, NoSweep
<1>1. ASSUME NEW ch \in ChannelIds, Create(ch)
      PROVE  SweepInv'
  BY <1>1 DEF Create, Put
<1>2. ASSUME NEW ch \in ChannelIds, Touch(ch)
      PROVE  SweepInv'
  BY <1>2 DEF Touch, Exists
<1>3. ASSUME NEW ch \in ChannelIds, NEW conn \in Conns, JoinIfRoom(ch, conn)
      PROVE  SweepInv'
  BY <1>3 DEF JoinIfRoom, Joined, Put, Exists
<1>4. ASSUME NEW ch \in ChannelIds, NEW conn \in Conns, Leave(ch, conn)
      PROVE  SweepInv'
  BY <1>4 DEF Leave, Without, Exists
<1>5. ASSUME NEW conn \in Conns, LeaveAll(conn)
      PROVE  SweepInv'
  BY <1>5 DEF LeaveAll, Without
<1>6. CASE ReadSweepClock
  BY <1>6 DEF ReadSweepClock
<1>7. CASE Expire
  <2>1. \A ch \in DOMAIN channels' : /\ ch \in DOMAIN channels
                                     /\ channels'[ch] = channels[ch]
                                     /\ ~Expired(ch, sweepAt)
    BY <1>7 DEF Expire, Delete
  <2>2. \A ch \in DOMAIN channels' : sweepAt - channels'[ch].lastActive <= IdleTTL
    BY <2>1 DEF Expired, Elapsed
  <2> QED
    BY <1>7, <2>1, <2>2 DEF Expire
<1>8. CASE Tick
  BY <1>8 DEF Tick
<1>9. CASE UNCHANGED vars
  BY <1>9 DEF vars
<1> QED
  BY <1>1, <1>2, <1>3, <1>4, <1>5, <1>6, <1>7, <1>8, <1>9 DEF Next

(* No room is kept longer than IdleTTL, a sweep period and the sweep's lag   *)
(* after its last use, for any TTLs and any period.                          *)
THEOREM IdleRoomsAreSwept == Spec => []IdleRoomsSwept
<1>1. Init => TypeOK /\ SweepInv
  BY TypeInit, SweepInit
<1>2. TypeOK /\ SweepInv /\ [Next]_vars => (TypeOK /\ SweepInv)'
  BY TypeNext, SweepNext
<1>3. TypeOK /\ SweepInv => IdleRoomsSwept
  BY SweepAssumption, TTLAssumption DEF TypeOK, ChannelInfo, SweepInv, IdleRoomsSwept
<1> QED
  BY <1>1, <1>2, <1>3, PTL DEF Spec

-----------------------------------------------------------------------------
(* Refinement *)

(* The membership the directory sees through the reverse index is the       *)
(* forward map's.                                                           *)
SameMembers ==
    \A ch \in ChannelIds : {c \in Conns : ch \in RoomsOf(c)} = Snapshot(ch)

(* Stage in the words of Expire's two tests. *)
StageMeaning ==
    \A ch \in ChannelIds :
        /\ Stage(ch) \in {"none", "active", "quiet", "idle"}
        /\ Stage(ch) = "none" <=> ~Exists(ch)
        /\ Stage(ch) = "idle" <=> Exists(ch) /\ Elapsed(ch, now) > IdleTTL
        /\ Stage(ch) = "active" <=> Exists(ch) /\ Elapsed(ch, now) <= EmptyTTL

LEMMA SameMembersHolds == TypeOK /\ IndexesAgree => SameMembers
<1> SUFFICES ASSUME TypeOK, IndexesAgree, NEW ch \in ChannelIds
             PROVE  {c \in Conns : ch \in RoomsOf(c)} = Snapshot(ch)
  BY DEF SameMembers
<1>1. Snapshot(ch) \subseteq Conns
  BY DEF Snapshot, Exists, TypeOK, ChannelInfo
<1> QED
  BY <1>1 DEF IndexesAgree

LEMMA StageMeaningHolds == TypeOK => StageMeaning
  BY TTLAssumption DEF StageMeaning, Stage, Exists, Elapsed, TypeOK, ChannelInfo

LEMMA DirectoryInit == Init => Directory!RoomsInit
<1> SUFFICES ASSUME Init PROVE Directory!RoomsInit
  OBVIOUS
<1>1. \A ch \in ChannelIds : Stage(ch) = "none"
  BY DEF Init, Stage, Exists
<1>2. \A c \in Conns : RoomsOf(c) = {}
  BY DEF Init, RoomsOf
<1> QED
  BY <1>1, <1>2 DEF Directory!RoomsInit

LEMMA DirectoryNext ==
    TypeOK /\ TypeOK' /\ IndexesAgree /\ IndexesAgree' /\ [Next]_vars
        => [Directory!RoomsNext]_(Directory!roomVars)
<1> SUFFICES ASSUME TypeOK, TypeOK', IndexesAgree, IndexesAgree', [Next]_vars
             PROVE  [Directory!RoomsNext]_(Directory!roomVars)
  OBVIOUS
<1> DEFINE mem == [ch \in ChannelIds |-> {c \in Conns : ch \in RoomsOf(c)}]
           lif == [ch \in ChannelIds |-> Stage(ch)]
<1>a. SameMembers /\ SameMembers'
  BY SameMembersHolds, PTL
<1>b. StageMeaning /\ StageMeaning'
  BY StageMeaningHolds, PTL
<1>c. /\ mem = [ch \in ChannelIds |-> Snapshot(ch)]
      /\ mem' = [ch \in ChannelIds |-> Snapshot(ch)']
  BY <1>a DEF SameMembers
<1>1. ASSUME NEW d \in ChannelIds, Create(d)
      PROVE  Directory!CreateRoom(d)
  <2>1. \A ch \in ChannelIds : Snapshot(ch)' = Snapshot(ch)
    BY <1>1 DEF Create, Put, Snapshot, Exists
  <2>2. \A ch \in ChannelIds : Stage(ch)' = IF ch = d THEN "active" ELSE Stage(ch)
    BY <1>1, TTLAssumption DEF Create, Put, Stage, Exists, TypeOK
  <2>3. Stage(d) = "none"
    BY <1>1, <1>b DEF Create, StageMeaning
  <2> QED
    BY <1>c, <2>1, <2>2, <2>3 DEF Directory!CreateRoom
<1>2. ASSUME NEW d \in ChannelIds, Touch(d)
      PROVE  Directory!TouchRoom(d)
  <2>1. \A ch \in ChannelIds : Snapshot(ch)' = Snapshot(ch)
    BY <1>2 DEF Touch, Snapshot, Exists, TypeOK, ChannelInfo
  <2>2. \A ch \in ChannelIds : Stage(ch)' = IF ch = d THEN "active" ELSE Stage(ch)
    BY <1>2, TTLAssumption DEF Touch, Stage, Exists, TypeOK, ChannelInfo
  <2>3. Stage(d) # "none"
    BY <1>2, <1>b DEF Touch, StageMeaning
  <2> QED
    BY <1>c, <2>1, <2>2, <2>3 DEF Directory!TouchRoom
<1>3. ASSUME NEW d \in ChannelIds, NEW conn \in Conns, JoinIfRoom(d, conn)
      PROVE  Directory!Enter(d, conn)
  <2>1. \A ch \in ChannelIds :
            Snapshot(ch)' = IF ch = d THEN Snapshot(ch) \cup {conn} ELSE Snapshot(ch)
    BY <1>3 DEF JoinIfRoom, Joined, Put, Snapshot, Exists
  <2>2. \A ch \in ChannelIds : Stage(ch)' = IF ch = d THEN "active" ELSE Stage(ch)
    BY <1>3, TTLAssumption DEF JoinIfRoom, Joined, Put, Stage, Exists, TypeOK
  <2>3. Directory!Exists(d)
    BY <1>3, <1>b DEF JoinIfRoom, StageMeaning, Directory!Exists
  <2>4. ~Directory!Full(d)
    <3>1. mem[d] = channels[d].conns
      BY <1>3, <1>c DEF JoinIfRoom, Snapshot, Exists
    <3>2. ~Full(d)
      BY <1>3 DEF JoinIfRoom
    <3>3. Directory!Full(d) <=> MaxMembers > 0 /\ Cardinality(mem[d]) >= MaxMembers
      BY DEF Directory!Full, Directory!Cardinality, Cardinality
    <3> HIDE DEF mem
    <3> QED
      BY <3>1, <3>2, <3>3 DEF Full
  <2> QED
    BY <1>c, <2>1, <2>2, <2>3, <2>4 DEF Directory!Enter
<1>4. ASSUME NEW d \in ChannelIds, NEW conn \in Conns, Leave(d, conn)
      PROVE  Directory!Exit(d, conn)
  <2>1. \A ch \in ChannelIds :
            Snapshot(ch)' = IF ch = d THEN Snapshot(ch) \ {conn} ELSE Snapshot(ch)
    BY <1>4 DEF Leave, Without, Snapshot, Exists, TypeOK, ChannelInfo
  <2>2. \A ch \in ChannelIds : Stage(ch)' = Stage(ch)
    BY <1>4 DEF Leave, Without, Stage, Exists, TypeOK, ChannelInfo
  <2> QED
    BY <1>c, <2>1, <2>2 DEF Directory!Exit
<1>5. ASSUME NEW conn \in Conns, LeaveAll(conn)
      PROVE  Directory!ExitAll(conn)
  <2>1. \A ch \in ChannelIds : Snapshot(ch)' = Snapshot(ch) \ {conn}
    BY <1>5 DEF LeaveAll, Without, Snapshot, Exists, IndexesAgree, RoomsOf, TypeOK, ChannelInfo
  <2>2. \A ch \in ChannelIds : Stage(ch)' = Stage(ch)
    BY <1>5 DEF LeaveAll, Without, Stage, Exists, TypeOK, ChannelInfo
  <2> QED
    BY <1>c, <2>1, <2>2 DEF Directory!ExitAll
<1>6. CASE UNCHANGED <<channels, connChannels, now>>
  <2>1. mem' = mem /\ lif' = lif
    BY <1>6 DEF RoomsOf, Stage, Exists
  <2> QED
    BY <2>1 DEF Directory!roomVars
<1>7. CASE Expire
  <2> DEFINE gone == {ch \in DOMAIN channels : Expired(ch, sweepAt)}
  <2>1. /\ channels' = Delete(channels, gone)
        /\ now' = now
        /\ sweepAt \in Nat
    BY <1>7 DEF Expire, TypeOK
  <2>2. \A ch \in gone : /\ ch \in ChannelIds
                         /\ Exists(ch)
                         /\ Expired(ch, now)
    BY <2>1, TTLAssumption DEF TypeOK, ChannelInfo, Exists, Expired, Elapsed
  <2> HIDE DEF gone
  <2>3. \A ch \in ChannelIds : Snapshot(ch)' = IF ch \in gone THEN {} ELSE Snapshot(ch)
    BY <2>1 DEF Delete, Snapshot, Exists
  <2>4. \A ch \in ChannelIds : Stage(ch)' = IF ch \in gone THEN "none" ELSE Stage(ch)
    BY <2>1 DEF Delete, Stage, Exists
  <2>5. \A ch \in gone : Directory!Sweepable(ch)
    <3> SUFFICES ASSUME NEW ch \in gone PROVE Directory!Sweepable(ch)
      OBVIOUS
    <3>1. Stage(ch) = "idle" \/ (Stage(ch) = "quiet" /\ Snapshot(ch) = {})
      BY <2>2, <1>b, TTLAssumption
         DEF StageMeaning, Expired, Elapsed, Snapshot, Exists, TypeOK, ChannelInfo
    <3> QED
      BY <2>2, <3>1, <1>c DEF Directory!Sweepable
  <2>6. gone \in SUBSET {ch \in ChannelIds : Directory!Sweepable(ch)}
    BY <2>2, <2>5
  <2>7. /\ mem' = [ch \in ChannelIds |-> IF ch \in gone THEN {} ELSE mem[ch]]
        /\ lif' = [ch \in ChannelIds |-> IF ch \in gone THEN "none" ELSE lif[ch]]
    BY <1>c, <2>3, <2>4
  <2>8. Directory!SweepRooms
    BY <2>6, <2>7 DEF Directory!SweepRooms
  <2> QED
    BY <2>8 DEF Directory!RoomsNext
<1>8. CASE Tick
  <2>1. \A ch \in ChannelIds : Snapshot(ch)' = Snapshot(ch)
    BY <1>8 DEF Tick, Snapshot, Exists
  <2>2. \A ch \in ChannelIds : Stage(ch)' \in Directory!Later(Stage(ch))
    BY <1>8, <1>b, TTLAssumption
       DEF Tick, StageMeaning, Directory!Later, Exists, Elapsed, TypeOK, ChannelInfo
  <2>3. lif' \in [ChannelIds -> Directory!Life]
    BY <1>b DEF StageMeaning, Directory!Life
  <2>4. Directory!PassTime
    BY <1>c, <2>1, <2>2, <2>3 DEF Directory!PassTime
  <2> QED
    BY <2>4 DEF Directory!RoomsNext
<1>9. CASE ReadSweepClock \/ UNCHANGED vars
  BY <1>6, <1>9 DEF ReadSweepClock, vars
<1> QED
  BY <1>1, <1>2, <1>3, <1>4, <1>5, <1>7, <1>8, <1>9 DEF Next, Directory!RoomsNext

(* The manager implements the room directory, for every capacity and every  *)
(* pair of TTLs: an operation is one change of the membership relation, and *)
(* a sweep judged by a stale clock removes only rooms that may go.          *)
THEOREM ManagerImplementsDirectory == Spec => ImplementsDirectory
<1>1. Spec => [](TypeOK /\ IndexesAgree)
  BY TypeCorrect, IndexesAlwaysAgree, PTL
<1>2. Init => Directory!RoomsInit
  BY DirectoryInit
<1> QED
  BY <1>1, <1>2, DirectoryNext, PTL DEF Spec, ImplementsDirectory, Directory!RoomsSpec

-----------------------------------------------------------------------------
(* Lifetimes *)

LEMMA HistoryRefines ==
    /\ HistoryInit => Init
    /\ [HistoryNext]_historyVars => [Next]_vars
  BY DEF HistoryInit, HistoryNext, historyVars

(* What one step can do to a room that exists after it: a new room is empty *)
(* and used now; in an old one only a use or an arrival moves lastActive,   *)
(* to now, and whoever arrives does move it.                                *)
LEMMA RoomStep ==
    ASSUME TypeOK, Next, ~Expire, NEW ch \in DOMAIN channels'
    PROVE  /\ ch \notin DOMAIN channels => channels'[ch] = [conns |-> {}, lastActive |-> now]
           /\ ch \in DOMAIN channels =>
                  /\ channels'[ch].lastActive \in {channels[ch].lastActive, now}
                  /\ channels'[ch].conns \subseteq channels[ch].conns
                         \/ channels'[ch].lastActive = now
<1> DEFINE Goal == /\ ch \notin DOMAIN channels =>
                          channels'[ch] = [conns |-> {}, lastActive |-> now]
                   /\ ch \in DOMAIN channels =>
                          /\ channels'[ch].lastActive \in {channels[ch].lastActive, now}
                          /\ channels'[ch].conns \subseteq channels[ch].conns
                                 \/ channels'[ch].lastActive = now
<1> USE DEF TypeOK, ChannelInfo
<1>1. ASSUME NEW d \in ChannelIds, Create(d) PROVE Goal
  BY <1>1 DEF Create, Put, Exists
<1>2. ASSUME NEW d \in ChannelIds, Touch(d) PROVE Goal
  BY <1>2 DEF Touch, Exists
<1>3. ASSUME NEW d \in ChannelIds, NEW conn \in Conns, JoinIfRoom(d, conn) PROVE Goal
  BY <1>3 DEF JoinIfRoom, Joined, Put, Exists
<1>4. ASSUME NEW d \in ChannelIds, NEW conn \in Conns, Leave(d, conn) PROVE Goal
  BY <1>4 DEF Leave, Without, Exists
<1>5. ASSUME NEW conn \in Conns, LeaveAll(conn) PROVE Goal
  BY <1>5 DEF LeaveAll, Without
<1>6. CASE ReadSweepClock \/ Tick
  BY <1>6 DEF ReadSweepClock, Tick
<1> QED
  BY <1>1, <1>2, <1>3, <1>4, <1>5, <1>6 DEF Next

(* The sweep keeps rooms as they are, and none that was due at its clock. *)
LEMMA ExpireStep ==
    ASSUME Expire
    PROVE  /\ DOMAIN channels' \subseteq DOMAIN channels
           /\ \A ch \in DOMAIN channels' :
                  channels'[ch] = channels[ch] /\ ~Expired(ch, sweepAt)
           /\ \A ch \in DOMAIN channels \ DOMAIN channels' : Expired(ch, sweepAt)
  BY DEF Expire, Delete

(* An empty room was looked at by the last sweep, at a clock no earlier than *)
(* its deadline, or has emptied since; and arrivals are uses.                *)
LifetimeInv ==
    /\ DOMAIN vacantAt = DOMAIN channels
    /\ DOMAIN arrivalAt = DOMAIN channels
    /\ \A ch \in DOMAIN channels :
           /\ vacantAt[ch] \in Nat
           /\ arrivalAt[ch] \in Nat
           /\ arrivalAt[ch] <= channels[ch].lastActive
           /\ channels[ch].conns = {} =>
                  \/ sweepDue - SweepPeriod - channels[ch].lastActive <= EmptyTTL
                  \/ sweepDue - SweepPeriod <= vacantAt[ch]

LEMMA LifetimeInit == HistoryInit => LifetimeInv
  BY DEF HistoryInit, Init, LifetimeInv

LEMMA LifetimeNext ==
    TypeOK /\ TypeOK' /\ SweepInv /\ LifetimeInv /\ [HistoryNext]_historyVars => LifetimeInv'
<1> SUFFICES ASSUME TypeOK, TypeOK', SweepInv, LifetimeInv, [HistoryNext]_historyVars
             PROVE  LifetimeInv'
  OBVIOUS
<1>1. CASE UNCHANGED historyVars
  BY <1>1 DEF historyVars, vars, LifetimeInv
<1>2. CASE HistoryNext
  <2> DEFINE emptied == {ch \in KeptRooms : channels[ch].conns # {} /\ channels'[ch].conns = {}}
             joined == {ch \in KeptRooms : ~(channels'[ch].conns \subseteq channels[ch].conns)}
  <2>1. /\ vacantAt' = [ch \in DOMAIN channels' |->
                            IF ch \in NewRooms \cup emptied THEN now ELSE vacantAt[ch]]
        /\ arrivalAt' = [ch \in DOMAIN channels' |->
                            IF ch \in NewRooms \cup joined THEN now ELSE arrivalAt[ch]]
    BY <1>2 DEF HistoryNext, Recorded
  <2>2. now \in Nat /\ sweepDue \in Nat /\ sweepDue' \in Nat
    BY DEF TypeOK
  <2>3. sweepDue - SweepPeriod <= now
    BY <2>2, SweepAssumption DEF SweepInv
  <2>4. SUFFICES ASSUME NEW ch \in DOMAIN channels'
                 PROVE  /\ vacantAt'[ch] \in Nat /\ arrivalAt'[ch] \in Nat
                        /\ arrivalAt'[ch] <= channels'[ch].lastActive
                        /\ channels'[ch].conns = {} =>
                               \/ sweepDue' - SweepPeriod - channels'[ch].lastActive <= EmptyTTL
                               \/ sweepDue' - SweepPeriod <= vacantAt'[ch]
    BY <2>1 DEF LifetimeInv
  <2>5. channels'[ch].lastActive \in Nat
    BY DEF TypeOK, ChannelInfo
  <2>6. ch \in DOMAIN channels => channels[ch].lastActive \in Nat /\ channels[ch].lastActive <= now
    BY DEF TypeOK, ChannelInfo
  <2>7. CASE Expire
    <3>1. ch \in KeptRooms /\ channels'[ch] = channels[ch] /\ ~Expired(ch, sweepAt)
      BY <2>7, ExpireStep DEF KeptRooms
    <3>2. vacantAt'[ch] = vacantAt[ch] /\ arrivalAt'[ch] = arrivalAt[ch]
      BY <2>1, <3>1 DEF NewRooms, KeptRooms
    <3>3. sweepDue' - SweepPeriod = sweepDue /\ sweepDue <= sweepAt /\ sweepAt \in Nat
      BY <2>2, <2>7, SweepAssumption DEF Expire, SweepInv, TypeOK, NoSweep
    <3>4. channels[ch].conns = {} => sweepAt - channels[ch].lastActive <= EmptyTTL
      BY <2>5, <3>1, <3>3, TTLAssumption DEF Expired, Elapsed
    <3>5. channels[ch].conns = {} => sweepDue - channels[ch].lastActive <= EmptyTTL
      BY <2>2, <2>5, <3>1, <3>3, <3>4, TTLAssumption
    <3> QED
      BY <3>1, <3>2, <3>3, <3>5 DEF LifetimeInv, KeptRooms
  <2>8. CASE ~Expire
    <3>1. sweepDue' = sweepDue
      BY <1>2, <2>8 DEF HistoryNext, Next, Create, Touch, JoinIfRoom, Leave, LeaveAll,
                        ReadSweepClock, Tick
    <3>2. CASE ch \notin DOMAIN channels
      <4>1. channels'[ch].lastActive = now /\ vacantAt'[ch] = now /\ arrivalAt'[ch] = now
        BY <1>2, <2>1, <2>8, <3>2, RoomStep DEF HistoryNext, NewRooms
      <4> QED
        BY <2>2, <2>3, <3>1, <4>1
    <3>3. CASE ch \in DOMAIN channels
      <4>1. /\ channels'[ch].lastActive \in {channels[ch].lastActive, now}
            /\ channels'[ch].conns \subseteq channels[ch].conns
                   \/ channels'[ch].lastActive = now
        BY <1>2, <2>8, <3>3, RoomStep DEF HistoryNext
      <4>2. /\ vacantAt[ch] \in Nat /\ arrivalAt[ch] \in Nat
            /\ arrivalAt[ch] <= channels[ch].lastActive
        BY <3>3 DEF LifetimeInv
      <4>3. arrivalAt'[ch] \in Nat /\ arrivalAt'[ch] <= channels'[ch].lastActive
        BY <2>1, <2>2, <2>6, <3>3, <4>1, <4>2 DEF NewRooms, KeptRooms
      <4>4. vacantAt'[ch] \in Nat
        BY <2>1, <2>2, <4>2
      <4>5. ASSUME channels'[ch].conns = {}
            PROVE  \/ sweepDue - SweepPeriod - channels'[ch].lastActive <= EmptyTTL
                   \/ sweepDue - SweepPeriod <= vacantAt'[ch]
        <5>1. CASE channels[ch].conns = {}
          <6>1. vacantAt'[ch] = vacantAt[ch]
            BY <2>1, <3>3, <5>1 DEF NewRooms, KeptRooms
          <6>2. \/ sweepDue - SweepPeriod - channels[ch].lastActive <= EmptyTTL
                \/ sweepDue - SweepPeriod <= vacantAt[ch]
            BY <3>3, <5>1 DEF LifetimeInv
          <6> QED
            BY <2>2, <2>6, <3>3, <4>1, <6>1, <6>2, SweepAssumption, TTLAssumption
        <5>2. CASE channels[ch].conns # {}
          <6>1. vacantAt'[ch] = now
            BY <2>1, <3>3, <4>5, <5>2 DEF KeptRooms
          <6> QED
            BY <2>3, <6>1
        <5> QED
          BY <5>1, <5>2
      <4> QED
        BY <3>1, <4>3, <4>4, <4>5
    <3> QED
      BY <3>2, <3>3
  <2> QED
    BY <2>7, <2>8
<1> QED
  BY <1>1, <1>2

LEMMA LifetimeAlways == HistorySpec => [](TypeOK /\ SweepInv /\ LifetimeInv)
<1>1. HistoryInit => TypeOK /\ SweepInv /\ LifetimeInv
  BY HistoryRefines, TypeInit, SweepInit, LifetimeInit
<1>2. TypeOK /\ SweepInv /\ LifetimeInv /\ [HistoryNext]_historyVars
          => (TypeOK /\ SweepInv /\ LifetimeInv)'
  BY HistoryRefines, TypeNext, SweepNext, LifetimeNext
<1> QED
  BY <1>1, <1>2, PTL DEF HistorySpec

(* Whatever leaves, uses and joins fall between a sweep's reading of the     *)
(* clock and its lock: an empty room outlives both its last use by EmptyTTL  *)
(* and its last emptying by no more than a sweep period and the sweep's lag. *)
THEOREM EmptyRoomsAreSwept == HistorySpec => []EmptyRoomsSwept
<1>1. TypeOK /\ SweepInv /\ LifetimeInv => EmptyRoomsSwept
  BY SweepAssumption, TTLAssumption
  DEF TypeOK, ChannelInfo, SweepInv, LifetimeInv, EmptyRoomsSwept
<1> QED
  BY <1>1, LifetimeAlways, PTL

(* A room with members is removed only when its last arrival is more than    *)
(* IdleTTL ago, although the sweep judges it by a clock read earlier.        *)
THEOREM ArrivalsProtect == HistorySpec => ArrivalsProtectRooms
<1> DEFINE Protected ==
        \A ch \in DOMAIN channels \ DOMAIN channels' :
            channels[ch].conns # {} => now - arrivalAt[ch] > IdleTTL
<1>1. TypeOK /\ SweepInv /\ LifetimeInv /\ [HistoryNext]_historyVars => [Protected]_historyVars
  <2> SUFFICES ASSUME TypeOK, LifetimeInv, HistoryNext,
                      NEW ch \in DOMAIN channels \ DOMAIN channels', channels[ch].conns # {}
               PROVE  now - arrivalAt[ch] > IdleTTL
    OBVIOUS
  <2>1. Expire
    BY DEF HistoryNext, Next, Create, Touch, JoinIfRoom, Leave, LeaveAll, ReadSweepClock,
           Tick, Put
  <2>2. sweepAt - channels[ch].lastActive > IdleTTL
    BY <2>1, ExpireStep DEF Expired, Elapsed
  <2>3. /\ sweepAt \in Int /\ sweepAt <= now /\ now \in Nat
        /\ channels[ch].lastActive \in Nat
    BY DEF TypeOK, ChannelInfo, NoSweep
  <2>4. arrivalAt[ch] \in Nat /\ arrivalAt[ch] <= channels[ch].lastActive
    BY DEF LifetimeInv
  <2> QED
    BY <2>2, <2>3, <2>4, TTLAssumption
<1> QED
  BY <1>1, LifetimeAlways, PTL DEF HistorySpec, ArrivalsProtectRooms
=============================================================================
