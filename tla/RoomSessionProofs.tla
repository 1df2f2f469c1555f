-------------------------- MODULE RoomSessionProofs --------------------------
(***************************************************************************)
(* Proofs about RoomSession, for any rooms, keys and bound on calls.  The  *)
(* two invariants hang together: a room comes into view only with a nick,  *)
(* a nick comes with a key, and with that key or the key of its link the   *)
(* room gets its store, at once or when an import that is under way ends.  *)
(***************************************************************************)
EXTENDS RoomSession, TLAPS

Kinds == {"open", "paste", "join", "confirm", "create", "share", "local", "rename", "rotated",
          "peek"}

Operations == [kind : Kinds, room : Rooms \cup {NoRoom}, key : Keys \cup {NoKey},
               id : -1..MaxOps]

Cancelled(op) == op.kind = "peek" /\ op.id = -1

(* What a call still knows after its awaits: a key, unless it renames, and *)
(* a room, unless it goes on in the one in view.                           *)
OpOK(op) ==
    /\ op \in Operations
    /\ op.kind = "rename" \/ Cancelled(op) \/ op.key \in Keys
    /\ op.kind \in {"local", "paste"} \/ Cancelled(op) \/ op.room \in Rooms

(* The rotations under way *)
Turns(S) == {op \in S : op.kind \in {"share", "local"}}

OpsOK(S) ==
    /\ \A op \in S : OpOK(op)
    /\ \A p, q \in Turns(S) : p = q

(* From the calls S to the calls T nothing starts or ends that rotates,    *)
(* and nothing ends that confirms or opens a room.                         *)
Continues(S, T) ==
    /\ OpsOK(T)
    /\ Turns(T) = Turns(S)
    /\ \A op \in S : op.kind \in {"confirm", "open"} => op \in T

GateOK(g) ==
    /\ g \in [room : Rooms \cup {NoRoom, NullRoom}, key : KeyTexts]
    /\ g.room \notin Rooms => g.key = NoKey

KeyMaps == [Rooms -> Keys \cup {NoKey}]

TextMaps == [Rooms -> KeyTexts]

CallsInv ==
    /\ OpsOK(ops)
    /\ rotating <=> Turns(ops) # {}
    /\ joinCreating => \E op \in ops : op.kind = "confirm"

PageInv ==
    /\ GateOK(gate)
    /\ peekStore \in Rooms \cup {NoRoom}
    /\ peekStore # NoRoom => gate.room = peekStore

ConnectionsInv ==
    /\ store \in KeyMaps
    /\ live = [r \in Rooms |-> IF store[r] = NoKey THEN 0 ELSE 1]

KeysInv ==
    /\ roomKeys \in KeyMaps
    /\ roomKeyB64 \in TextMaps
    /\ selfNicks \subseteq Rooms
    /\ \A r \in selfNicks : roomKeys[r] # NoKey

(* A room in view has its store, or gets it, or its link is no good. *)
Comes(r) == store[r] # NoKey \/ Opening(r) \/ pendingHashKey = BadKey

ViewInv ==
    /\ view \in Rooms \cup {Home, JoinPage}
    /\ pendingHashKey \in KeyTexts
    /\ view \in Rooms => view \in selfNicks /\ Comes(view)

SessionInv == CallsInv /\ PageInv /\ ConnectionsInv /\ KeysInv /\ ViewInv

LEMMA NamesApart ==
    /\ Home \notin Rooms /\ JoinPage \notin Rooms
    /\ NullRoom \notin Rooms /\ NoRoom \notin Rooms
    /\ NoKey \notin Keys /\ BadKey \notin Keys /\ NoKey # BadKey
  BY NamesAssumption DEF NoKey, BadKey

-----------------------------------------------------------------------------
(* Calls that start and end *)

LEMMA StartOps ==
    ASSUME NEW S, OpsOK(S), NEW kind \in Kinds \ {"peek"}, NEW r \in Rooms \cup {NoRoom},
           NEW k \in Keys \cup {NoKey}, kind = "rename" \/ k \in Keys,
           kind \in {"local", "paste"} \/ r \in Rooms,
           kind \in {"share", "local"} => Turns(S) = {}, StartAmong(S, kind, r, k)
    PROVE  /\ OpsOK(ops')
           /\ S \subseteq ops'
           /\ \E op \in ops' : op.kind = kind /\ op.room = r
           /\ kind \in {"share", "local"} => Turns(ops') # {}
           /\ kind \notin {"share", "local"} => Continues(S, ops')
<1>1. PICK id \in 1..MaxOps : ops' = S \cup {Op(kind, r, k, id)}
  BY DEF StartAmong
<1> DEFINE new == Op(kind, r, k, id)
<1>2. new \in Operations /\ new.kind = kind /\ new.room = r /\ new.key = k
  BY OpsAssumption DEF Operations, Op
<1>3. ops' = S \cup {new}
  BY <1>1
<1> HIDE DEF new
<1>4. OpOK(new)
  BY <1>2 DEF OpOK
<1>5. Turns(ops') = Turns(S) \cup IF kind \in {"share", "local"} THEN {new} ELSE {}
  BY <1>2, <1>3 DEF Turns
<1>6. OpsOK(ops')
  BY <1>3, <1>4, <1>5 DEF OpsOK
<1> QED
  BY <1>2, <1>3, <1>5, <1>6 DEF Continues

LEMMA EndOps ==
    ASSUME NEW S, OpsOK(S), NEW op \in S
    PROVE  /\ OpsOK(S \ {op})
           /\ op.kind \in {"share", "local"} => Turns(S \ {op}) = {}
           /\ op.kind \notin {"share", "local", "confirm", "open"} => Continues(S, S \ {op})
           /\ op.kind \notin {"share", "local"} => Turns(S \ {op}) = Turns(S)
<1>1. Turns(S \ {op}) = Turns(S) \ {op}
  BY DEF Turns
<1>2. op.kind \in {"share", "local"} <=> op \in Turns(S)
  BY DEF Turns
<1>3. OpsOK(S \ {op})
  BY <1>1 DEF OpsOK
<1> QED
  BY <1>1, <1>2, <1>3 DEF OpsOK, Continues

LEMMA ContinuesTransitive ==
    ASSUME NEW S, NEW T, NEW U, Continues(S, T), Continues(T, U)
    PROVE  Continues(S, U)
  BY DEF Continues

(* Cancelled peeks are still peeks. *)
LEMMA CancelOps ==
    ASSUME NEW S, OpsOK(S)
    PROVE  Continues(S, CancelPeeks(S))
<1> DEFINE gone == Op("peek", NoRoom, NoKey, -1)
<1>1. OpOK(gone) /\ gone.kind = "peek"
  BY OpsAssumption DEF OpOK, Cancelled, Operations, Op, Kinds
<1>2. CancelPeeks(S) = {IF op.kind = "peek" THEN gone ELSE op : op \in S}
  BY DEF CancelPeeks
<1> HIDE DEF gone
<1>3. \A op \in CancelPeeks(S) : OpOK(op) /\ (op.kind # "peek" => op \in S)
  BY <1>1, <1>2 DEF OpsOK
<1>4. \A op \in S : op.kind # "peek" => op \in CancelPeeks(S)
  BY <1>2
<1>5. Turns(CancelPeeks(S)) = Turns(S)
  BY <1>3, <1>4 DEF Turns
<1> QED
  BY <1>3, <1>4, <1>5 DEF OpsOK, Continues

LEMMA PeekOps ==
    ASSUME NEW S, OpsOK(S), NEW r \in Rooms, NEW k \in Keys
    PROVE  Continues(S, S \cup {Op("peek", r, k, 0)})
<1> DEFINE new == Op("peek", r, k, 0)
<1>1. OpOK(new) /\ new.kind = "peek"
  BY OpsAssumption DEF OpOK, Operations, Op, Kinds
<1> HIDE DEF new
<1>2. Turns(S \cup {new}) = Turns(S)
  BY <1>1 DEF Turns
<1>3. Continues(S, S \cup {new})
  BY <1>1, <1>2 DEF OpsOK, Continues
<1> QED
  BY <1>3 DEF new

-----------------------------------------------------------------------------
(* The gate and the view *)

LEMMA OpenGateKeeps ==
    ASSUME PageInv, NEW g, GateOK(g), NEW S, OpsOK(S), OpenGate(g, S)
    PROVE  PageInv' /\ Continues(S, ops')
<1>1. CASE g = gate
  BY <1>1 DEF OpenGate, PageInv, Continues
<1>2. CASE g # gate
  <2>1. gate' = g /\ peekStore' = NoRoom
    BY <1>2 DEF OpenGate
  <2>2. PageInv'
    BY <2>1 DEF PageInv, GateOK
  <2>3. CASE ops' = CancelPeeks(S)
    BY <2>2, <2>3, CancelOps
  <2>4. CASE /\ g.room # NoRoom /\ g.key \in Keys
             /\ ops' = CancelPeeks(S) \cup {Op("peek", g.room, g.key, 0)}
    <3>1. g.room \in Rooms
      BY <2>4, NamesApart DEF GateOK
    <3>2. Continues(S, CancelPeeks(S)) /\ OpsOK(CancelPeeks(S))
      BY CancelOps DEF Continues
    <3>3. Continues(CancelPeeks(S), ops')
      BY <2>4, <3>1, <3>2, PeekOps
    <3> QED
      BY <2>2, <3>2, <3>3, ContinuesTransitive
  <2> QED
    BY <1>2, <2>3, <2>4 DEF OpenGate
<1> QED
  BY <1>1, <1>2

LEMMA AddStoreKeeps ==
    ASSUME ConnectionsInv, NEW r \in Rooms, NeedsStore(r), NEW k \in Keys, AddStore(r, k)
    PROVE  ConnectionsInv' /\ store' = [store EXCEPT ![r] = k]
<1>1. /\ store' = [store EXCEPT ![r] = k]
      /\ live' = [live EXCEPT ![r] = @ + 1]
  BY DEF AddStore
<1>2. store' \in KeyMaps /\ store'[r] = k /\ k # NoKey
  BY <1>1, NamesApart DEF ConnectionsInv, KeyMaps
<1>3. live' = [s \in Rooms |-> IF store'[s] = NoKey THEN 0 ELSE 1]
  BY <1>1, <1>2 DEF ConnectionsInv, KeyMaps, NeedsStore
<1> QED
  BY <1>1, <1>2, <1>3 DEF ConnectionsInv

LEMMA OpenRoomKeeps ==
    ASSUME ConnectionsInv, NEW keys \in KeyMaps, NEW r \in Rooms, keys[r] # NoKey,
           OpenRoom(r, keys)
    PROVE  /\ ConnectionsInv' /\ view' = r /\ pendingHashKey' = NoKey
           /\ store'[r] # NoKey
<1>1. view' = r /\ pendingHashKey' = NoKey /\ keys[r] \in Keys
  BY DEF OpenRoom, KeyMaps
<1>2. CASE NeedsStore(r)
  <2>1. ConnectionsInv' /\ store' = [store EXCEPT ![r] = keys[r]]
    BY <1>1, <1>2, AddStoreKeeps DEF OpenRoom
  <2> QED
    BY <1>1, <2>1 DEF ConnectionsInv, KeyMaps
<1>3. CASE ~NeedsStore(r)
  BY <1>1, <1>3 DEF OpenRoom, KeepStores, ConnectionsInv, NeedsStore
<1> QED
  BY <1>2, <1>3

LEMMA OpenRoomByLinkKeeps ==
    ASSUME ConnectionsInv, NEW r \in Rooms, NEW hash \in KeyTexts \ {NoKey}, NEW S, OpsOK(S),
           OpenRoomByLink(r, hash, S)
    PROVE  /\ ConnectionsInv' /\ Continues(S, ops')
           /\ view' = r /\ pendingHashKey' = hash
           /\ store'[r] # NoKey \/ Opening(r)' \/ hash = BadKey
<1>1. view' = r /\ pendingHashKey' = hash /\ UNCHANGED <<store, live>>
  BY DEF OpenRoomByLink, KeepStores
<1>2. ConnectionsInv'
  BY <1>1 DEF ConnectionsInv
<1>3. CASE NeedsStore(r) /\ hash # BadKey
  <2>1. hash \in Keys /\ StartAmong(S, "open", r, hash)
    BY <1>3 DEF OpenRoomByLink, KeyTexts
  <2>2. Continues(S, ops') /\ \E op \in ops' : op.kind = "open" /\ op.room = r
    BY <2>1, StartOps DEF Kinds
  <2> QED
    BY <1>1, <1>2, <2>2 DEF Opening
<1>4. CASE ~(NeedsStore(r) /\ hash # BadKey)
  BY <1>1, <1>2, <1>4 DEF OpenRoomByLink, Continues, NeedsStore
<1> QED
  BY <1>3, <1>4

LEMMA ShowGateKeeps ==
    ASSUME PageInv, NEW r \in Rooms \cup {NoRoom, NullRoom}, NEW k \in KeyTexts,
           r \notin Rooms => k = NoKey, NEW S, OpsOK(S), ShowGate(r, k, S)
    PROVE  /\ PageInv' /\ Continues(S, ops')
           /\ view' = JoinPage /\ pendingHashKey' = NoKey
<1>1. GateOK([room |-> r, key |-> k])
  BY DEF GateOK
<1> QED
  BY <1>1, OpenGateKeeps DEF ShowGate

LEMMA EnterRoomKeeps ==
    ASSUME PageInv, ConnectionsInv, NEW r \in Rooms, NEW hash \in KeyTexts,
           NEW keys \in KeyMaps, NEW b64 \in TextMaps, NEW nicks \in SUBSET Rooms,
           \A n \in nicks : keys[n] # NoKey, NEW S, OpsOK(S), selfNicks' = nicks,
           EnterRoom(r, hash, keys, b64, nicks, S)
    PROVE  PageInv' /\ ConnectionsInv' /\ ViewInv' /\ Continues(S, ops')
<1> DEFINE k == IF hash # NoKey THEN hash ELSE b64[r]
<1>1. k \in KeyTexts /\ NoKey \in KeyTexts
  BY DEF TextMaps, KeyTexts
<1>2. CASE r \notin nicks /\ ShowGate(r, k, S) /\ KeepStores
  <2>1. /\ PageInv' /\ Continues(S, ops')
        /\ view' = JoinPage /\ pendingHashKey' = NoKey
    <3> HIDE DEF k
    <3> QED BY <1>1, <1>2, ShowGateKeeps
  <2> QED
    BY <1>1, <1>2, <2>1, NamesApart DEF KeepStores, ConnectionsInv, ViewInv
<1>3. CASE /\ r \in nicks /\ OpenRoom(r, keys) /\ ops' = S
           /\ UNCHANGED <<gate, peekStore>>
  <2>1. /\ ConnectionsInv' /\ view' = r /\ pendingHashKey' = NoKey
        /\ store'[r] # NoKey
    BY <1>3, OpenRoomKeeps
  <2> QED
    BY <1>1, <1>3, <2>1 DEF PageInv, ViewInv, Comes, Continues
<1>4. CASE /\ r \in nicks /\ hash # NoKey /\ OpenRoomByLink(r, hash, S)
           /\ UNCHANGED <<gate, peekStore>>
  <2>1. /\ ConnectionsInv' /\ Continues(S, ops')
        /\ view' = r /\ pendingHashKey' = hash
        /\ store'[r] # NoKey \/ Opening(r)' \/ hash = BadKey
    BY <1>4, OpenRoomByLinkKeeps
  <2> QED
    BY <1>4, <2>1 DEF PageInv, ViewInv, Comes, Opening
<1> QED
  BY <1>2, <1>3, <1>4 DEF EnterRoom

LEMMA ConfirmedKeeps ==
    ASSUME PageInv, ConnectionsInv, KeysInv, NEW r \in Rooms,
           NEW keys \in KeyMaps, NEW b64 \in TextMaps,
           \A n \in selfNicks \cup {r} : keys[n] # NoKey, NEW S, OpsOK(S),
           Confirmed(r, keys, b64, S)
    PROVE  PageInv' /\ ConnectionsInv' /\ KeysInv' /\ ViewInv' /\ Continues(S, ops')
<1>1. roomKeys' = keys /\ roomKeyB64' = b64 /\ selfNicks' = selfNicks \cup {r}
  BY DEF Confirmed
<1>2. KeysInv' /\ NoKey \in KeyTexts
  BY <1>1 DEF KeysInv, KeyTexts
<1>3. CASE gate.room \in selfNicks' /\ OpenGate(NoGate, S) /\ OpenRoom(gate.room, keys)
  <2>1. gate.room \in Rooms /\ keys[gate.room] # NoKey
    BY <1>1, <1>3 DEF KeysInv
  <2>2. GateOK(NoGate)
    BY NamesApart DEF GateOK, NoGate, KeyTexts
  <2>3. PageInv' /\ Continues(S, ops')
    BY <1>3, <2>2, OpenGateKeeps
  <2>4. /\ ConnectionsInv' /\ view' = gate.room /\ pendingHashKey' = NoKey
        /\ store'[gate.room] # NoKey
    BY <1>3, <2>1, OpenRoomKeeps
  <2> QED
    BY <1>2, <1>3, <2>1, <2>3, <2>4 DEF ViewInv, Comes
<1>4. ASSUME NEW q \in Rooms \cup {NullRoom}, NEW k \in KeyTexts,
             q \notin Rooms => k = NoKey, ShowGate(q, k, S), KeepStores
      PROVE  PageInv' /\ ConnectionsInv' /\ ViewInv' /\ Continues(S, ops')
  <2>1. /\ PageInv' /\ Continues(S, ops')
        /\ view' = JoinPage /\ pendingHashKey' = NoKey
    BY <1>4, ShowGateKeeps
  <2> QED
    BY <1>2, <1>4, <2>1, NamesApart DEF KeepStores, ConnectionsInv, ViewInv
<1>5. CASE /\ gate.room \in Rooms \ selfNicks' /\ ShowGate(gate.room, b64[gate.room], S)
           /\ KeepStores
  <2>1. b64[gate.room] \in KeyTexts
    BY <1>5 DEF TextMaps
  <2> QED
    BY <1>2, <1>4, <1>5, <2>1
<1>6. CASE gate.room \notin Rooms /\ ShowGate(NullRoom, NoKey, S) /\ KeepStores
  BY <1>2, <1>4, <1>6, NamesApart
<1> QED
  BY <1>3, <1>5, <1>6 DEF Confirmed

-----------------------------------------------------------------------------
(* The invariant *)

LEMMA InitHolds == Init => SessionInv
<1> SUFFICES ASSUME Init PROVE SessionInv
  OBVIOUS
<1>1. OpsOK(ops) /\ Turns(ops) = {}
  BY DEF Init, OpsOK, Turns
<1>2. CallsInv
  BY <1>1 DEF Init, CallsInv
<1>3. PageInv
  BY NamesApart DEF Init, PageInv, GateOK, NoGate, KeyTexts
<1>4. ConnectionsInv /\ KeysInv
  BY DEF Init, ConnectionsInv, KeysInv, KeyMaps, TextMaps, KeyTexts
<1>5. ViewInv
  BY NamesApart DEF Init, ViewInv, KeyTexts
<1> QED
  BY <1>2, <1>3, <1>4, <1>5 DEF SessionInv

(* The calls, when those of other kinds start or end. *)
LEMMA CallsContinue ==
    ASSUME CallsInv, Continues(ops, ops'), rotating' = rotating,
           joinCreating' = joinCreating \/ joinCreating' = FALSE
    PROVE  CallsInv'
  BY DEF CallsInv, Continues

LEMMA NavigateKeeps ==
    ASSUME SessionInv, NEW r \in Rooms, NEW hash \in KeyTexts, Navigate(r, hash)
    PROVE  SessionInv'
<1>1. UNCHANGED <<roomKeys, roomKeyB64, selfNicks, joinCreating, rotating>>
  BY DEF Navigate
<1>2. PageInv' /\ ConnectionsInv' /\ ViewInv' /\ Continues(ops, ops')
  BY <1>1, EnterRoomKeeps DEF Navigate, SessionInv, CallsInv, KeysInv
<1>3. CallsInv'
  BY <1>1, <1>2, CallsContinue DEF SessionInv
<1> QED
  BY <1>1, <1>2, <1>3 DEF SessionInv, KeysInv

LEMMA OtherPageKeeps == ASSUME SessionInv, GoHome \/ BackToGate PROVE SessionInv'
<1>1. /\ view' \in {Home, JoinPage} /\ pendingHashKey' = NoKey
      /\ UNCHANGED <<sessionVars, gate, joinCreating, peekStore, rotating, ops>>
  BY DEF GoHome, BackToGate
<1>2. ViewInv'
  BY <1>1, NamesApart DEF ViewInv, KeyTexts
<1> QED
  BY <1>1, <1>2 DEF sessionVars, SessionInv, CallsInv, PageInv, ConnectionsInv, KeysInv

LEMMA JoinRoomWithoutKeyKeeps ==
    ASSUME SessionInv, NEW r \in Rooms, JoinRoomWithoutKey(r)
    PROVE  SessionInv'
<1>1. roomKeyB64[r] \in KeyTexts
  BY DEF SessionInv, KeysInv, TextMaps
<1>2. /\ PageInv' /\ Continues(ops, ops')
      /\ view' = JoinPage /\ pendingHashKey' = NoKey
  BY <1>1, ShowGateKeeps DEF JoinRoomWithoutKey, SessionInv, CallsInv
<1>3. UNCHANGED <<sessionVars, joinCreating, rotating>>
  BY DEF JoinRoomWithoutKey
<1>4. CallsInv'
  BY <1>2, <1>3, CallsContinue DEF SessionInv
<1> QED
  BY <1>2, <1>3, <1>4, NamesApart
     DEF sessionVars, SessionInv, ConnectionsInv, KeysInv, ViewInv, KeyTexts

(* Rooms and page stay as they are, and so does what is in view. *)
LEMMA RestKeeps ==
    ASSUME SessionInv, UNCHANGED <<sessionVars, pageVars>>, Continues(ops, ops')
    PROVE  PageInv' /\ ConnectionsInv' /\ KeysInv' /\ ViewInv'
<1>1. Opening(view) => Opening(view)'
  BY DEF Opening, Continues, pageVars
<1> QED
  BY <1>1 DEF sessionVars, pageVars, SessionInv, PageInv, ConnectionsInv, KeysInv, ViewInv, Comes

(* A call that starts and leaves the page and the rooms alone. *)
LEMMA StartKeeps ==
    ASSUME SessionInv, NEW kind \in Kinds \ {"peek", "share", "local"},
           NEW r \in Rooms \cup {NoRoom}, NEW k \in Keys \cup {NoKey},
           kind = "rename" \/ k \in Keys, kind = "paste" \/ r \in Rooms, Start(kind, r, k),
           UNCHANGED <<sessionVars, pageVars, rotating>>
    PROVE  SessionInv'
<1>1. Continues(ops, ops')
  BY StartOps DEF Start, SessionInv, CallsInv
<1>2. CallsInv'
  BY <1>1, CallsContinue DEF SessionInv, pageVars
<1> QED
  BY <1>1, <1>2, RestKeeps DEF SessionInv

LEMMA StartsKeep ==
    ASSUME SessionInv, NEW r \in Rooms, NEW k \in Keys,
           JoinRoom(r, k) \/ CreateRoom(r, k) \/ PasteKey(k) \/ TypeKey \/ StartRename
    PROVE  SessionInv'
<1>1. CASE JoinRoom(r, k)
  BY <1>1, StartKeeps DEF JoinRoom, Kinds
<1>2. CASE CreateRoom(r, k)
  BY <1>2, StartKeeps DEF CreateRoom, Kinds
<1>3. CASE PasteKey(k)
  BY <1>3, StartKeeps DEF PasteKey, Kinds
<1>4. CASE TypeKey
  BY <1>4, StartKeeps DEF TypeKey, InPanel, Kinds
<1>5. CASE StartRename
  BY <1>5, StartKeeps DEF StartRename, InView, Kinds
<1> QED
  BY <1>1, <1>2, <1>3, <1>4, <1>5

LEMMA StartRotateKeeps ==
    ASSUME SessionInv, NEW kind \in {"share", "local"}, NEW k \in Keys, StartRotate(kind, k)
    PROVE  SessionInv'
<1> DEFINE r == IF kind = "share" THEN view ELSE NoRoom
<1>1. /\ r \in Rooms \cup {NoRoom} /\ (kind = "local" \/ r \in Rooms)
      /\ Turns(ops) = {} /\ kind \in Kinds \ {"peek"} /\ OpsOK(ops)
  BY DEF StartRotate, InView, Kinds, SessionInv, CallsInv
<1>2. StartAmong(ops, kind, r, k)
  BY DEF StartRotate, Start
<1> HIDE DEF r
<1>3. OpsOK(ops') /\ Turns(ops') # {} /\ ops \subseteq ops'
  BY <1>1, <1>2, StartOps
<1>4. rotating' = TRUE /\ UNCHANGED <<sessionVars, pageVars>>
  BY DEF StartRotate
<1>5. CallsInv'
  BY <1>3, <1>4 DEF pageVars, SessionInv, CallsInv
<1>6. Opening(view) => Opening(view)'
  BY <1>3, <1>4 DEF Opening, pageVars
<1> QED
  BY <1>4, <1>5, <1>6
     DEF sessionVars, pageVars, SessionInv, PageInv, ConnectionsInv, KeysInv, ViewInv, Comes

(* The store's key is another one, and the store is there as before. *)
LEMMA StoresStay ==
    ASSUME ConnectionsInv, NEW r \in Rooms, store[r] # NoKey, NEW k \in Keys,
           store' = [store EXCEPT ![r] = k], live' = live
    PROVE  ConnectionsInv' /\ \A q \in Rooms : store'[q] = NoKey <=> store[q] = NoKey
  BY NamesApart DEF ConnectionsInv, KeyMaps

LEMMA KeyUpdatedKeeps ==
    ASSUME SessionInv, NEW r \in Rooms, NEW k \in Keys, KeyUpdated(r, k)
    PROVE  SessionInv'
<1>1. /\ store[r] # NoKey /\ store' = [store EXCEPT ![r] = k]
      /\ roomKeyB64' = [roomKeyB64 EXCEPT ![r] = k]
      /\ UNCHANGED <<roomKeys, selfNicks, live, pageVars, rotating>>
  BY DEF KeyUpdated
<1>2. Continues(ops, ops')
  BY StartOps DEF KeyUpdated, Start, Kinds, SessionInv, CallsInv
<1>3. CallsInv'
  BY <1>1, <1>2, CallsContinue DEF SessionInv, pageVars
<1>4. ConnectionsInv' /\ \A q \in Rooms : store'[q] = NoKey <=> store[q] = NoKey
  BY <1>1, StoresStay DEF SessionInv
<1>5. KeysInv'
  BY <1>1 DEF SessionInv, KeysInv, TextMaps, KeyTexts
<1>6. Opening(view) => Opening(view)'
  BY <1>1, <1>2 DEF Opening, Continues, pageVars
<1>7. PageInv' /\ ViewInv'
  BY <1>1, <1>4, <1>6 DEF SessionInv, PageInv, ViewInv, Comes, pageVars
<1> QED
  BY <1>3, <1>4, <1>5, <1>7 DEF SessionInv

-----------------------------------------------------------------------------
(* What awaits bring to an end *)

LEMMA CallOK ==
    ASSUME SessionInv, NEW op \in ops
    PROVE  /\ op.kind \in {"open", "paste", "join", "confirm", "create", "share", "local",
                            "rotated"} => op.key \in Keys
           /\ op.kind \in {"open", "join", "confirm", "create", "rotated"} => op.room \in Rooms
           /\ op.kind = "peek" /\ op.id = 0 => op.room \in Rooms
  BY DEF SessionInv, CallsInv, OpsOK, OpOK, Cancelled

LEMMA KeyAdopted ==
    ASSUME KeysInv, NEW r \in Rooms, NEW k \in Keys, NEW b \in KeyTexts
    PROVE  /\ [roomKeys EXCEPT ![r] = k] \in KeyMaps
           /\ [roomKeyB64 EXCEPT ![r] = b] \in TextMaps
           /\ \A n \in selfNicks \cup {r} : [roomKeys EXCEPT ![r] = k][n] # NoKey
  BY NamesApart DEF KeysInv, KeyMaps, TextMaps

LEMMA FinishOpenRoomKeeps ==
    ASSUME SessionInv, NEW op \in ops, FinishOpenRoom(op)
    PROVE  SessionInv'
<1> DEFINE r == op.room
<1>1. r \in Rooms /\ op.key \in Keys /\ op.key \in KeyTexts
  BY CallOK DEF FinishOpenRoom, KeyTexts
<1>2. /\ op.kind = "open" /\ ops' = ops \ {op}
      /\ roomKeys' = [roomKeys EXCEPT ![r] = op.key]
      /\ roomKeyB64' = [roomKeyB64 EXCEPT ![r] = op.key]
      /\ UNCHANGED <<selfNicks, pageVars, rotating>>
  BY DEF FinishOpenRoom
<1>3. OpsOK(ops') /\ Turns(ops') = Turns(ops)
  BY <1>2, EndOps DEF SessionInv, CallsInv
<1>4. CallsInv'
  BY <1>2, <1>3 DEF SessionInv, CallsInv, pageVars
<1>5. /\ ConnectionsInv' /\ store'[r] # NoKey
      /\ \A q \in Rooms : store[q] # NoKey => store'[q] # NoKey
  <2>1. CASE NeedsStore(r)
    <3>1. ConnectionsInv' /\ store' = [store EXCEPT ![r] = op.key]
      BY <1>1, <2>1, AddStoreKeeps DEF FinishOpenRoom, StillNeedsStore, SessionInv
    <3> QED
      BY <1>1, <3>1, NamesApart DEF SessionInv, ConnectionsInv, KeyMaps
  <2>2. CASE ~NeedsStore(r)
    BY <2>2 DEF FinishOpenRoom, StillNeedsStore, KeepStores, NeedsStore, SessionInv,
                ConnectionsInv
  <2> QED
    BY <2>1, <2>2
<1>6. KeysInv'
  BY <1>1, <1>2, KeyAdopted DEF SessionInv, KeysInv
<1>7. \A q \in Rooms : Opening(q) /\ q # r => Opening(q)'
  BY <1>2 DEF Opening
<1>8. PageInv' /\ ViewInv'
  <2> HIDE DEF r
  <2>1. PageInv' /\ UNCHANGED <<view, pendingHashKey, selfNicks>>
    BY <1>2 DEF SessionInv, PageInv, pageVars
  <2>2. ASSUME view \in Rooms PROVE Comes(view)'
    BY <1>5, <1>7, <2>1, <2>2 DEF SessionInv, ViewInv, Comes, Opening
  <2> QED
    BY <2>1, <2>2 DEF SessionInv, ViewInv
<1> QED
  BY <1>4, <1>5, <1>6, <1>8 DEF SessionInv

LEMMA FinishPasteKeyKeeps ==
    ASSUME SessionInv, NEW op \in ops, FinishPasteKey(op)
    PROVE  SessionInv'
<1>1. op.key \in Keys /\ op.key \in KeyTexts /\ NoKey \in KeyTexts
  BY CallOK DEF FinishPasteKey, KeyTexts
<1>2. /\ op.kind = "paste" /\ ops' = ops \ {op}
      /\ UNCHANGED <<selfNicks, view, gate, joinCreating, peekStore, rotating>>
  BY DEF FinishPasteKey
<1>3. Continues(ops, ops')
  BY <1>2, EndOps DEF SessionInv, CallsInv
<1>4. CallsInv' /\ PageInv'
  BY <1>2, <1>3, CallsContinue DEF SessionInv, PageInv
<1>5. CASE /\ view \in Rooms
           /\ roomKeys' = [roomKeys EXCEPT ![view] = op.key]
           /\ roomKeyB64' = [roomKeyB64 EXCEPT ![view] = op.key]
           /\ pendingHashKey' = NoKey
           /\ IF NeedsStore(view) THEN AddStore(view, op.key)
              ELSE store' = [store EXCEPT ![view] = op.key] /\ UNCHANGED live
  <2>1. ConnectionsInv' /\ store' = [store EXCEPT ![view] = op.key]
    BY <1>1, <1>5, AddStoreKeeps, StoresStay DEF NeedsStore, SessionInv
  <2>2. store'[view] # NoKey
    BY <1>1, <1>5, <2>1, NamesApart DEF SessionInv, ConnectionsInv, KeyMaps
  <2>3. KeysInv'
    BY <1>1, <1>2, <1>5, KeyAdopted DEF SessionInv, KeysInv
  <2>4. ViewInv'
    BY <1>1, <1>2, <1>5, <2>2 DEF SessionInv, ViewInv, Comes
  <2> QED
    BY <1>4, <2>1, <2>3, <2>4 DEF SessionInv
<1>6. CASE /\ view \notin Rooms
           /\ UNCHANGED <<roomKeys, roomKeyB64, store, live, pendingHashKey>>
  BY <1>2, <1>4, <1>6 DEF SessionInv, ConnectionsInv, KeysInv, ViewInv
<1> QED
  BY <1>5, <1>6 DEF FinishPasteKey

LEMMA FinishJoinRoomKeeps ==
    ASSUME SessionInv, NEW op \in ops, FinishJoinRoom(op)
    PROVE  SessionInv'
<1>1. op.room \in Rooms /\ op.key \in Keys /\ op.key \in KeyTexts /\ NoKey \in KeyTexts
  BY CallOK DEF FinishJoinRoom, KeyTexts
<1>2. Continues(ops, ops \ {op}) /\ OpsOK(ops \ {op})
  BY EndOps DEF FinishJoinRoom, SessionInv, CallsInv
<1>3. /\ PageInv' /\ Continues(ops \ {op}, ops')
      /\ view' = JoinPage /\ pendingHashKey' = NoKey
  BY <1>1, <1>2, ShowGateKeeps DEF FinishJoinRoom, SessionInv
<1>4. KeysInv'
  BY <1>1, KeyAdopted DEF FinishJoinRoom, SessionInv, KeysInv
<1>5. UNCHANGED <<store, live, joinCreating, rotating>>
  BY DEF FinishJoinRoom
<1>6. CallsInv'
  BY <1>2, <1>3, <1>5, ContinuesTransitive, CallsContinue DEF SessionInv
<1> QED
  BY <1>1, <1>3, <1>4, <1>5, <1>6, NamesApart DEF SessionInv, ConnectionsInv, ViewInv

LEMMA FinishConfirmKeeps ==
    ASSUME SessionInv, NEW op \in ops, FinishConfirm(op)
    PROVE  SessionInv'
<1> DEFINE keys == [roomKeys EXCEPT ![op.room] = op.key]
           b64 == [roomKeyB64 EXCEPT ![op.room] = gate.key]
<1>1. op.room \in Rooms /\ op.key \in Keys /\ gate.key \in KeyTexts
  BY CallOK DEF FinishConfirm, SessionInv, PageInv, GateOK
<1>2. OpsOK(ops \ {op}) /\ Turns(ops \ {op}) = Turns(ops)
  BY EndOps DEF FinishConfirm, SessionInv, CallsInv
<1>3. /\ keys \in KeyMaps /\ b64 \in TextMaps
      /\ \A n \in selfNicks \cup {op.room} : keys[n] # NoKey
  BY <1>1, KeyAdopted DEF SessionInv
<1>4. /\ Confirmed(op.room, keys, b64, ops \ {op})
      /\ rotating' = rotating /\ joinCreating' = FALSE
  BY DEF FinishConfirm
<1> HIDE DEF keys, b64
<1>5. /\ PageInv' /\ ConnectionsInv' /\ KeysInv' /\ ViewInv'
      /\ OpsOK(ops') /\ Turns(ops') = Turns(ops)
  BY <1>1, <1>2, <1>3, <1>4, ConfirmedKeeps DEF SessionInv, Continues
<1> QED
  BY <1>4, <1>5 DEF SessionInv, CallsInv

LEMMA ConfirmKeeps == ASSUME SessionInv, Confirm PROVE SessionInv'
<1> DEFINE r == gate.room
           HasKey == r \in Rooms /\ roomKeys[r] # NoKey
<1>1. CASE HasKey /\ Confirmed(r, roomKeys, roomKeyB64, ops) /\ joinCreating' = FALSE
  <2>1. /\ r \in Rooms /\ roomKeys \in KeyMaps /\ roomKeyB64 \in TextMaps /\ OpsOK(ops)
        /\ \A n \in selfNicks \cup {r} : roomKeys[n] # NoKey
    BY <1>1 DEF SessionInv, KeysInv, CallsInv
  <2>2. PageInv' /\ ConnectionsInv' /\ KeysInv' /\ ViewInv' /\ Continues(ops, ops')
    <3> HIDE DEF r
    <3> QED BY <1>1, <2>1, ConfirmedKeeps DEF SessionInv
  <2> QED
    BY <1>1, <2>2, CallsContinue DEF Confirm, SessionInv
<1>2. CASE /\ gate.key \in Keys /\ Start("confirm", r, gate.key) /\ joinCreating' = TRUE
           /\ UNCHANGED <<sessionVars, view, pendingHashKey, gate, peekStore>>
  <2>1. gate.room \in Rooms
    BY <1>2, NamesApart DEF SessionInv, PageInv, GateOK
  <2>2. /\ Continues(ops, ops')
        /\ \E op \in ops' : op.kind = "confirm" /\ op.room = r
    <3>1. /\ OpsOK(ops) /\ StartAmong(ops, "confirm", r, gate.key)
          /\ "confirm" \in Kinds \ {"peek"}
      BY <1>2 DEF Start, Kinds, SessionInv, CallsInv
    <3> QED
      BY <1>2, <2>1, <3>1, StartOps
  <2>3. CallsInv'
    BY <1>2, <2>2 DEF Confirm, SessionInv, CallsInv, Continues
  <2>4. Opening(view) => Opening(view)'
    BY <1>2, <2>2 DEF Opening, Continues
  <2> QED
    BY <1>2, <2>3, <2>4
       DEF sessionVars, SessionInv, PageInv, ConnectionsInv, KeysInv, ViewInv, Comes
<1>3. CASE /\ joinCreating' = FALSE
           /\ UNCHANGED <<sessionVars, view, pendingHashKey, gate, peekStore, ops>>
  BY <1>3 DEF Confirm, sessionVars, SessionInv, CallsInv, PageInv, ConnectionsInv, KeysInv,
              ViewInv, Comes, Opening
<1> QED
  BY <1>1, <1>2, <1>3 DEF Confirm

LEMMA CancelJoinKeeps == ASSUME SessionInv, CancelJoin PROVE SessionInv'
<1>1. GateOK(NoGate)
  BY NamesApart DEF GateOK, NoGate, KeyTexts
<1>2. PageInv' /\ Continues(ops, ops')
  BY <1>1, OpenGateKeeps DEF CancelJoin, SessionInv, CallsInv
<1>3. view' = Home /\ UNCHANGED <<sessionVars, pendingHashKey, joinCreating, rotating>>
  BY DEF CancelJoin
<1>4. CallsInv'
  BY <1>2, <1>3, CallsContinue DEF SessionInv
<1> QED
  BY <1>2, <1>3, <1>4, NamesApart DEF sessionVars, SessionInv, ConnectionsInv, KeysInv, ViewInv

LEMMA StartPeekKeeps ==
    ASSUME SessionInv, NEW op \in ops, StartPeek(op)
    PROVE  SessionInv'
<1>1. Continues(ops, ops \ {op})
  BY EndOps DEF StartPeek, SessionInv, CallsInv
<1>2. /\ ops' = ops \ {op}
      /\ UNCHANGED <<sessionVars, view, pendingHashKey, gate, joinCreating, rotating>>
  BY DEF StartPeek
<1>3. PageInv'
  BY <1>2, CallOK DEF StartPeek, PeekWanted, SessionInv, PageInv
<1>4. CallsInv'
  BY <1>1, <1>2, CallsContinue DEF SessionInv
<1>5. Opening(view) => Opening(view)'
  BY <1>1, <1>2 DEF Opening, Continues
<1> QED
  BY <1>2, <1>3, <1>4, <1>5 DEF sessionVars, SessionInv, ConnectionsInv, KeysInv, ViewInv, Comes

LEMMA StopRoomNamePeekKeeps == ASSUME SessionInv, StopRoomNamePeek PROVE SessionInv'
  BY DEF StopRoomNamePeek, sessionVars, SessionInv, CallsInv, PageInv, ConnectionsInv, KeysInv,
         ViewInv, Comes, Opening

LEMMA FinishCreateRoomKeeps ==
    ASSUME SessionInv, NEW op \in ops, FinishCreateRoom(op)
    PROVE  SessionInv'
<1>1. op.room \in Rooms /\ op.key \in Keys /\ op.key \in KeyTexts /\ NoKey \in KeyTexts
  BY CallOK DEF FinishCreateRoom, KeyTexts
<1>2. Continues(ops, ops \ {op}) /\ OpsOK(ops \ {op})
  BY EndOps DEF FinishCreateRoom, SessionInv, CallsInv
<1>3. KeysInv'
  BY <1>1, KeyAdopted DEF FinishCreateRoom, SessionInv, KeysInv
<1>4. /\ EnterRoom(op.room, NoKey, roomKeys', roomKeyB64', selfNicks', ops \ {op})
      /\ UNCHANGED <<joinCreating, rotating>>
  BY DEF FinishCreateRoom
<1>5. PageInv' /\ ConnectionsInv' /\ ViewInv' /\ Continues(ops \ {op}, ops')
  BY <1>1, <1>2, <1>3, <1>4, EnterRoomKeeps DEF SessionInv, KeysInv
<1>6. CallsInv'
  BY <1>2, <1>4, <1>5, ContinuesTransitive, CallsContinue DEF SessionInv
<1> QED
  BY <1>3, <1>5, <1>6 DEF SessionInv

LEMMA FinishRotatedKeeps ==
    ASSUME SessionInv, NEW op \in ops, FinishRotated(op)
    PROVE  SessionInv'
<1>1. op.room \in Rooms /\ op.key \in Keys /\ op.key \in KeyTexts
  BY CallOK DEF FinishRotated, KeyTexts
<1>2. Continues(ops, ops')
  BY EndOps DEF FinishRotated, SessionInv, CallsInv
<1>3. UNCHANGED <<store, roomKeyB64, selfNicks, live, pageVars, rotating>>
  BY DEF FinishRotated
<1>4. KeysInv'
  BY <1>1, <1>3, KeyAdopted DEF FinishRotated, SessionInv, KeysInv
<1>5. CallsInv'
  BY <1>2, <1>3, CallsContinue DEF SessionInv, pageVars
<1>6. Opening(view) => Opening(view)'
  BY <1>2, <1>3 DEF Opening, Continues, pageVars
<1> QED
  BY <1>3, <1>4, <1>5, <1>6 DEF pageVars, SessionInv, PageInv, ConnectionsInv, ViewInv, Comes

LEMMA FinishRenameKeeps ==
    ASSUME SessionInv, NEW op \in ops, FinishRename(op)
    PROVE  SessionInv'
<1>1. Continues(ops, ops')
  BY EndOps DEF FinishRename, SessionInv, CallsInv
<1>2. UNCHANGED <<sessionVars, pageVars, rotating>>
  BY DEF FinishRename
<1>3. CallsInv'
  BY <1>1, <1>2, CallsContinue DEF SessionInv, pageVars
<1> QED
  BY <1>1, <1>2, <1>3, RestKeeps DEF SessionInv

(* A store that is there gets the key; where there is none, none is made. *)
LEMMA AdoptKeeps ==
    ASSUME SessionInv, NEW r \in Rooms, NEW k \in Keys, Adopt(r, k), UNCHANGED <<selfNicks, live>>
    PROVE  /\ ConnectionsInv' /\ KeysInv'
           /\ \A q \in Rooms : store'[q] = NoKey <=> store[q] = NoKey
<1>1. /\ roomKeys' = [roomKeys EXCEPT ![r] = k]
      /\ roomKeyB64' = [roomKeyB64 EXCEPT ![r] = k]
      /\ store' = IF NeedsStore(r) THEN store ELSE [store EXCEPT ![r] = k]
  BY DEF Adopt
<1>2. KeysInv'
  BY <1>1, KeyAdopted DEF SessionInv, KeysInv, KeyTexts
<1>3. CASE NeedsStore(r)
  BY <1>1, <1>2, <1>3 DEF SessionInv, ConnectionsInv
<1>4. CASE ~NeedsStore(r)
  BY <1>1, <1>2, <1>4, StoresStay DEF NeedsStore, SessionInv
<1> QED
  BY <1>3, <1>4

LEMMA FinishRotateKeeps ==
    ASSUME SessionInv, NEW op \in ops, FinishRotate(op)
    PROVE  SessionInv'
<1>1. op.kind \in {"share", "local"} /\ op.key \in Keys
  BY CallOK DEF FinishRotate
<1>2. OpsOK(ops \ {op}) /\ Turns(ops \ {op}) = {}
  BY <1>1, EndOps DEF SessionInv, CallsInv
<1>3. /\ ops' = ops \ {op} /\ rotating' = FALSE
      /\ UNCHANGED <<selfNicks, live, pageVars>>
  BY DEF FinishRotate, ResetFinally
<1>4. CallsInv' /\ PageInv'
  BY <1>1, <1>2, <1>3 DEF pageVars, SessionInv, CallsInv, PageInv
<1>5. Opening(view) => Opening(view)'
  BY <1>1, <1>3 DEF Opening, pageVars
<1>6. CASE view \in Rooms /\ Adopt(view, op.key)
  <2>1. /\ ConnectionsInv' /\ KeysInv'
        /\ \A q \in Rooms : store'[q] = NoKey <=> store[q] = NoKey
    BY <1>1, <1>3, <1>6, AdoptKeeps
  <2> QED
    BY <1>3, <1>4, <1>5, <2>1 DEF SessionInv, ViewInv, Comes, pageVars
<1>7. CASE UNCHANGED <<store, roomKeys, roomKeyB64>>
  BY <1>3, <1>4, <1>5, <1>7 DEF pageVars, SessionInv, ConnectionsInv, KeysInv, ViewInv, Comes
<1> QED
  BY <1>6, <1>7 DEF FinishRotate, InView

LEMMA LeaveRoomKeeps == ASSUME SessionInv, LeaveRoom PROVE SessionInv'
<1>1. /\ view \in Rooms /\ view' = Home /\ pendingHashKey' = NoKey
      /\ UNCHANGED <<gate, joinCreating, peekStore, rotating, ops>>
  BY DEF LeaveRoom
<1>2. ConnectionsInv'
  <2>1. store' = [store EXCEPT ![view] = NoKey] /\ live' = Disconnected(view)
    BY DEF LeaveRoom
  <2>2. store' \in KeyMaps
    BY <2>1 DEF SessionInv, ConnectionsInv, KeyMaps
  <2>3. live' = [r \in Rooms |-> IF store'[r] = NoKey THEN 0 ELSE 1]
    BY <1>1, <2>1 DEF Disconnected, SessionInv, ConnectionsInv, KeyMaps
  <2> QED
    BY <2>2, <2>3 DEF ConnectionsInv
<1>3. KeysInv'
  BY <1>1 DEF LeaveRoom, NickForgotten, SessionInv, KeysInv, KeyMaps, TextMaps, KeyTexts
<1> QED
  BY <1>1, <1>2, <1>3, NamesApart DEF SessionInv, CallsInv, PageInv, ViewInv, KeyTexts

LEMMA NextKeeps == SessionInv /\ [Next]_vars => SessionInv'
<1> SUFFICES ASSUME SessionInv, [Next]_vars PROVE SessionInv'
  OBVIOUS
<1>1. ASSUME NEW r \in Rooms, JoinRoomWithoutKey(r) PROVE SessionInv'
  BY <1>1, JoinRoomWithoutKeyKeeps
<1>2. ASSUME NEW r \in Rooms, NEW k \in Keys, JoinRoom(r, k) \/ CreateRoom(r, k)
      PROVE  SessionInv'
  BY <1>2, StartsKeep
<1>3. ASSUME NEW r \in Rooms, NEW k \in Keys, KeyUpdated(r, k) PROVE SessionInv'
  BY <1>3, KeyUpdatedKeeps
<1>4. ASSUME NEW r \in Rooms, NEW hash \in KeyTexts, Navigate(r, hash) PROVE SessionInv'
  BY <1>4, NavigateKeeps
<1>5. CASE TypeKey \/ StartRename
  <2>1. view \in Rooms /\ \E k \in Keys : TRUE
    BY <1>5 DEF TypeKey, InPanel, StartRename, InView, SessionInv, ConnectionsInv, KeyMaps
  <2> QED
    BY <1>5, <2>1, StartsKeep
<1>6. ASSUME NEW k \in Keys, PasteKey(k) PROVE SessionInv'
  <2>1. view \in Rooms
    BY <1>6 DEF PasteKey, InPanel
  <2> QED
    BY <1>6, <2>1, StartsKeep
<1>7. ASSUME NEW k \in Keys, NEW kind \in {"share", "local"}, StartRotate(kind, k)
      PROVE  SessionInv'
  BY <1>7, StartRotateKeeps
<1>8. CASE GoHome \/ BackToGate \/ Confirm \/ CancelJoin \/ StopRoomNamePeek \/ LeaveRoom
  BY <1>8, OtherPageKeeps, ConfirmKeeps, CancelJoinKeeps, StopRoomNamePeekKeeps, LeaveRoomKeeps
<1>9. ASSUME NEW op \in ops, \/ FinishJoinRoom(op) \/ FinishConfirm(op) \/ StartPeek(op)
                             \/ FinishCreateRoom(op) \/ FinishOpenRoom(op)
                             \/ FinishPasteKey(op) \/ FinishRotated(op)
      PROVE  SessionInv'
  BY <1>9, FinishJoinRoomKeeps, FinishConfirmKeeps, StartPeekKeeps, FinishCreateRoomKeeps,
     FinishOpenRoomKeeps, FinishPasteKeyKeeps, FinishRotatedKeeps
<1>10. ASSUME NEW op \in ops, FinishRotate(op) \/ FinishRename(op) PROVE SessionInv'
  BY <1>10, FinishRotateKeeps, FinishRenameKeeps
<1>11. CASE UNCHANGED vars
  BY <1>11 DEF vars, sessionVars, pageVars, SessionInv, CallsInv, PageInv, ConnectionsInv,
               KeysInv, ViewInv, Comes, Opening
<1> QED
  BY <1>1, <1>2, <1>3, <1>4, <1>5, <1>6, <1>7, <1>8, <1>9, <1>10, <1>11 DEF Next, Quiet

LEMMA InvariantHolds == Spec => []SessionInv
  BY InitHolds, NextKeeps, PTL DEF Spec

(* The state is well typed, the flag that guards rotations is up exactly   *)
(* while one is under way, and the gate says that it is busy only while a  *)
(* confirm is.                                                             *)
THEOREM TypeCorrect == Spec => []TypeOK
<1>1. SessionInv => TypeOK
  <2> SUFFICES ASSUME SessionInv PROVE TypeOK
    OBVIOUS
  <2>1. live \in [Rooms -> Nat]
    BY DEF SessionInv, ConnectionsInv
  <2>2. rotating <=> \E op \in ops : op.kind \in {"share", "local"}
    BY DEF SessionInv, CallsInv, Turns
  <2>3. \A op \in ops : op.id \in -1..MaxOps
    BY DEF SessionInv, CallsInv, OpsOK, OpOK, Operations
  <2>4. joinCreating => \E op \in ops : op.kind = "confirm"
    BY DEF SessionInv, CallsInv
  <2> QED
    BY <2>1, <2>2, <2>3, <2>4
       DEF SessionInv, PageInv, GateOK, ConnectionsInv, KeysInv, KeyMaps, TextMaps, ViewInv, TypeOK
<1> QED
  BY <1>1, InvariantHolds, PTL

(* One connected store per room that has one, and a peek only at the room  *)
(* of the gate, however the calls of any number of rooms interleave, and   *)
(* however many imports of link keys are under way for one room.           *)
THEOREM NoConnectionStrays == Spec => []NoStrayConnection
<1>1. SessionInv => NoStrayConnection
  BY DEF SessionInv, ConnectionsInv, PageInv, NoStrayConnection
<1> QED
  BY <1>1, InvariantHolds, PTL

(* The room in view has a nick and a key, and without its store only while *)
(* the import is under way that makes it, or when its link's key is none.  *)
THEOREM RoomsInViewOpen == Spec => []StoresComplete
<1>1. SessionInv => StoresComplete
  BY DEF SessionInv, ViewInv, KeysInv, Comes, StoresComplete
<1> QED
  BY <1>1, InvariantHolds, PTL

=============================================================================
