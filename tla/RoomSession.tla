----------------------------- MODULE RoomSession -----------------------------
(***************************************************************************)
(* frontend/src/App.svelte: one browser tab with several rooms.  A room    *)
(* has a store (its connection and cipher), a key in roomKeys and in       *)
(* roomKeyB64, and a nick, without which the nickname gate comes first.    *)
(*                                                                         *)
(* The user's clicks start async functions.  What such a function read     *)
(* before its awaits is kept in a record of ops; its last part is an       *)
(* action of its own and reads the rest then: channelId and channelStore   *)
(* always name the room in view.  Svelte's effects run right after the     *)
(* handler that changed what they depend on, so they are parts of actions. *)
(*                                                                         *)
(* Left out: error texts, and the names of rooms, except that the peek     *)
(* ends when it has learned one.  A text that stays in the paste-key panel *)
(* acts later as the key of a link would (joinRoom, the gate's effect), so *)
(* only its import is modelled.  Home is every page that is neither a      *)
(* room's nor the gate's.                                                  *)
(***************************************************************************)
EXTENDS Integers, FiniteSets

CONSTANTS
    Rooms,
    Keys,           \* well-formed keys, in links, pasted, made here or received
    MaxOps          \* bound on the async functions under way at once

ASSUME OpsAssumption == MaxOps \in Nat

VARIABLES
    view,           \* a room, Home or the gate's page
    pendingHashKey, \* the key in the address of the page in view
    gate,           \* joinPendingId and joinPendingKey
    joinCreating,   \* the gate says that a confirm is under way
    store,          \* store[r]: the key its cipher was made of, or NoKey
    roomKeys,
    roomKeyB64,
    selfNicks,      \* the rooms that have a nick
    rotating,       \* the flag that guards both rotations
    ops,            \* async functions under way
    peekStore,      \* the room the throwaway store peeks at, or NoRoom
    live,           \* live[r]: store objects of r that are connected
    frame           \* what the last step sent: the store's room, the room of its seal

sessionVars == <<store, roomKeys, roomKeyB64, selfNicks, live>>
pageVars == <<view, pendingHashKey, gate, joinCreating, peekStore>>
vars == <<sessionVars, pageVars, rotating, ops, frame>>

NoKey == "no key"
BadKey == "bad key"         \* a text in a link that is no key
NoRoom == "no room"
Home == "home"
JoinPage == "join"
NullRoom == "null"          \* what `/r/${null}` leads to
NoFrame == [via |-> NoRoom, sealed |-> NoRoom]
NoGate == [room |-> NoRoom, key |-> NoKey]

ASSUME NamesAssumption ==
    /\ Rooms \cap {Home, JoinPage, NullRoom, NoRoom} = {}
    /\ Keys \cap {NoKey, BadKey} = {}

(* What a link, and so the gate and roomKeyB64, may have for a key. *)
KeyTexts == Keys \cup {NoKey, BadKey}

Op(kind, room, key, id) == [kind |-> kind, room |-> room, key |-> key, id |-> id]

(* The ids tell equal calls apart; the gate's peek has id 0, and -1 when   *)
(* it is cancelled.                                                        *)

TypeOK ==
    /\ view \in Rooms \cup {Home, JoinPage}
    /\ pendingHashKey \in KeyTexts
    /\ gate \in [room : Rooms \cup {NoRoom, NullRoom}, key : KeyTexts]
    /\ store \in [Rooms -> Keys \cup {NoKey}]
    /\ roomKeys \in [Rooms -> Keys \cup {NoKey}]
    /\ roomKeyB64 \in [Rooms -> KeyTexts]
    /\ selfNicks \subseteq Rooms
    /\ peekStore \in Rooms \cup {NoRoom}
    /\ live \in [Rooms -> Nat]
    /\ joinCreating => \E op \in ops : op.kind = "confirm"
    /\ rotating <=> \E op \in ops : op.kind \in {"share", "local"}
    /\ \A op \in ops : op.id \in -1..MaxOps

Init ==
    /\ view = Home
    /\ pendingHashKey = NoKey
    /\ gate = NoGate
    /\ joinCreating = FALSE
    /\ store = [r \in Rooms |-> NoKey]
    /\ roomKeys = [r \in Rooms |-> NoKey]
    /\ roomKeyB64 = [r \in Rooms |-> NoKey]
    /\ selfNicks = {}
    /\ rotating = FALSE
    /\ ops = {}
    /\ peekStore = NoRoom
    /\ live = [r \in Rooms |-> 0]
    /\ frame = NoFrame

-----------------------------------------------------------------------------
(* Navigation and its effects *)

StartAmong(S, kind, room, key) ==
    /\ Cardinality({op \in S : op.kind # "peek"}) < MaxOps
    /\ \E id \in 1..MaxOps :
          /\ Op(kind, room, key, id) \notin S
          /\ \A i \in 1..id-1 : Op(kind, room, key, i) \in S
          /\ ops' = S \cup {Op(kind, room, key, id)}

Start(kind, room, key) == StartAmong(ops, kind, room, key)

(* The gate's effect: a change of the gate cancels the peek of the old one *)
(* and starts one for the new, if it has a key.                            *)
(* Whatever it was for, a cancelled peek does nothing any more.            *)
CancelPeeks(S) == {IF op.kind = "peek" THEN Op("peek", NoRoom, NoKey, -1) ELSE op : op \in S}

(* A room whose name is known gets no peek; names are not modelled. *)
OpenGate(g, S) ==
    /\ gate' = g
    /\ IF g = gate THEN ops' = S /\ UNCHANGED peekStore
       ELSE /\ peekStore' = NoRoom
            /\ \/ ops' = CancelPeeks(S)
               \/ /\ g.room # NoRoom /\ g.key \in Keys
                  /\ ops' = CancelPeeks(S) \cup {Op("peek", g.room, g.key, 0)}

NeedsStore(r) == store[r] = NoKey

AddStore(r, k) ==
    /\ store' = [store EXCEPT ![r] = k]
    /\ live' = [live EXCEPT ![r] = @ + 1]

KeepStores == UNCHANGED <<store, live>>

(* The effect without a key in the address: nothing but microtasks passes  *)
(* between the check and the new store.                                    *)
OpenRoom(r, keys) ==
    /\ view' = r
    /\ pendingHashKey' = NoKey
    /\ IF NeedsStore(r) /\ keys[r] # NoKey THEN AddStore(r, keys[r]) ELSE KeepStores

(* With a key in the address, which has to be imported first, if it can. *)
OpenRoomByLink(r, hash, S) ==
    /\ view' = r
    /\ pendingHashKey' = hash
    /\ IF NeedsStore(r) /\ hash # BadKey THEN StartAmong(S, "open", r, hash) ELSE ops' = S
    /\ KeepStores

ShowGate(r, k, S) ==
    /\ OpenGate([room |-> r, key |-> k], S)
    /\ view' = JoinPage
    /\ pendingHashKey' = NoKey

(* The room comes into view, with the key in its address or NoKey, and the *)
(* keys and nicks as they are then.  S are the operations under way.       *)
EnterRoom(r, hash, keys, b64, nicks, S) ==
    \/ /\ r \notin nicks
       /\ ShowGate(r, IF hash # NoKey THEN hash ELSE b64[r], S)
       /\ KeepStores
    \/ /\ r \in nicks /\ hash = NoKey
       /\ OpenRoom(r, keys)
       /\ ops' = S
       /\ UNCHANGED <<gate, peekStore>>
    \/ /\ r \in nicks /\ hash # NoKey
       /\ OpenRoomByLink(r, hash, S)
       /\ UNCHANGED <<gate, peekStore>>

(* A room that is being created is known to nobody yet. *)
Known(r) == ~\E op \in ops : op.kind = "create" /\ op.room = r

(* A click in the sidebar, a link that is opened in the tab, the browser's *)
(* back and forward buttons, a new key in the address of the page.         *)
Navigate(r, hash) ==
    /\ <<view, pendingHashKey>> # <<r, hash>> /\ Known(r)
    /\ EnterRoom(r, hash, roomKeys, roomKeyB64, selfNicks, ops)
    /\ UNCHANGED <<roomKeys, roomKeyB64, selfNicks, joinCreating, rotating>>

GoHome ==
    /\ view # Home
    /\ view' = Home
    /\ pendingHashKey' = NoKey
    /\ UNCHANGED <<sessionVars, gate, joinCreating, peekStore, rotating, ops>>

(* The back button: the gate is still there. *)
BackToGate ==
    /\ view # JoinPage /\ gate # NoGate
    /\ view' = JoinPage
    /\ pendingHashKey' = NoKey
    /\ UNCHANGED <<sessionVars, gate, joinCreating, peekStore, rotating, ops>>

StoreUnchecked(r) == TRUE

StillNeedsStore(r) == NeedsStore(r)

(* The import of the key in the address returns, whatever is in view and   *)
(* whether or not the room has been left.  A second store is not made.     *)
FinishOpenRoom(op) ==
    LET r == op.room
    IN  /\ op.kind = "open"
        /\ ops' = ops \ {op}
        /\ roomKeys' = [roomKeys EXCEPT ![r] = op.key]
        /\ roomKeyB64' = [roomKeyB64 EXCEPT ![r] = op.key]
        /\ IF StillNeedsStore(r) THEN AddStore(r, op.key) ELSE KeepStores
        /\ UNCHANGED <<selfNicks, pageVars, rotating>>

-----------------------------------------------------------------------------
(* The paste-key panel, where a room in view has no store (yet) *)

InPanel == view \in Rooms /\ NeedsStore(view)

(* A keystroke runs the effect again. *)
TypeKey ==
    /\ InPanel /\ pendingHashKey \in Keys
    /\ Start("open", view, pendingHashKey)
    /\ UNCHANGED <<sessionVars, pageVars, rotating>>

(* importPastedKey: the key becomes that of the room that is in view when  *)
(* its import returns.                                                     *)
PasteKey(k) ==
    /\ InPanel
    /\ Start("paste", NoRoom, k)
    /\ UNCHANGED <<sessionVars, pageVars, rotating>>

FinishPasteKey(op) ==
    /\ op.kind = "paste"
    /\ ops' = ops \ {op}
    /\ \/ /\ view \in Rooms
          /\ roomKeys' = [roomKeys EXCEPT ![view] = op.key]
          /\ roomKeyB64' = [roomKeyB64 EXCEPT ![view] = op.key]
          /\ pendingHashKey' = NoKey
          /\ IF NeedsStore(view) THEN AddStore(view, op.key)
             ELSE store' = [store EXCEPT ![view] = op.key] /\ UNCHANGED live
       \/ /\ view \notin Rooms
          /\ UNCHANGED <<roomKeys, roomKeyB64, store, live, pendingHashKey>>
    /\ UNCHANGED <<selfNicks, view, gate, joinCreating, peekStore, rotating>>

-----------------------------------------------------------------------------
(* joinRoom: an invite link is pasted into the sidebar. *)

JoinRoomWithoutKey(r) ==
    /\ Known(r)
    /\ ShowGate(r, roomKeyB64[r], ops)
    /\ UNCHANGED <<sessionVars, joinCreating, rotating>>

JoinRoom(r, k) ==
    /\ Known(r)
    /\ Start("join", r, k)
    /\ UNCHANGED <<sessionVars, pageVars, rotating>>

FinishJoinRoom(op) ==
    /\ op.kind = "join"
    /\ roomKeys' = [roomKeys EXCEPT ![op.room] = op.key]
    /\ roomKeyB64' = [roomKeyB64 EXCEPT ![op.room] = op.key]
    /\ ShowGate(op.room, op.key, ops \ {op})
    /\ UNCHANGED <<store, selfNicks, live, joinCreating, rotating>>

(* The end of handleJoinConfirm for room r.  The page it opens is that of  *)
(* the gate as it is then, and no room's when the gate has been closed.    *)
Confirmed(r, keys, b64, S) ==
    /\ roomKeys' = keys
    /\ roomKeyB64' = b64
    /\ selfNicks' = selfNicks \cup {r}
    /\ \/ /\ gate.room \in selfNicks'
          /\ OpenGate(NoGate, S)
          /\ OpenRoom(gate.room, keys)
       \/ /\ gate.room \in Rooms \ selfNicks'
          /\ ShowGate(gate.room, b64[gate.room], S)
          /\ KeepStores
       \/ /\ gate.room \notin Rooms
          /\ ShowGate(NullRoom, NoKey, S)
          /\ KeepStores

(* At the gate: the key is there, or must be imported, or is missing.  The *)
(* Enter key works while an earlier confirm is under way.                  *)
Confirm ==
    LET r == gate.room
        HasKey == r \in Rooms /\ roomKeys[r] # NoKey
    IN  /\ view = JoinPage /\ r # NoRoom
        /\ \/ /\ HasKey
              /\ Confirmed(r, roomKeys, roomKeyB64, ops)
              /\ joinCreating' = FALSE
           \/ /\ ~HasKey /\ gate.key \in Keys
              /\ Start("confirm", r, gate.key)
              /\ joinCreating' = TRUE
              /\ UNCHANGED <<sessionVars, view, pendingHashKey, gate, peekStore>>
           \/ /\ ~HasKey /\ gate.key \notin Keys
              /\ joinCreating' = FALSE
              /\ UNCHANGED <<sessionVars, view, pendingHashKey, gate, peekStore, ops>>
        /\ UNCHANGED <<rotating>>

(* The CryptoKey is that of the gate the user confirmed; the text next to  *)
(* it is joinPendingKey as it is by now.                                   *)
FinishConfirm(op) ==
    /\ op.kind = "confirm"
    /\ Confirmed(op.room, [roomKeys EXCEPT ![op.room] = op.key],
                 [roomKeyB64 EXCEPT ![op.room] = gate.key], ops \ {op})
    /\ joinCreating' = FALSE
    /\ UNCHANGED <<rotating>>

CancelJoin ==
    /\ view = JoinPage /\ gate # NoGate /\ ~joinCreating
    /\ OpenGate(NoGate, ops)
    /\ view' = Home
    /\ UNCHANGED <<sessionVars, pendingHashKey, joinCreating, rotating>>

(* The peek's import returns.  The effect checks that it is still wanted. *)
PeekWanted(op) == op.id = 0 /\ gate.room = op.room

StartPeek(op) ==
    /\ op.kind = "peek"
    /\ ops' = ops \ {op}
    /\ peekStore' = IF PeekWanted(op) THEN op.room ELSE peekStore
    /\ UNCHANGED <<sessionVars, view, pendingHashKey, gate, joinCreating, rotating>>

(* It has learned the name, or three seconds are over. *)
StopRoomNamePeek ==
    /\ peekStore # NoRoom
    /\ peekStore' = NoRoom
    /\ UNCHANGED <<sessionVars, view, pendingHashKey, gate, joinCreating, rotating, ops>>

-----------------------------------------------------------------------------
(* handleCreateRoom: the room is new. *)
CreateRoom(r, k) ==
    /\ ~\E op \in ops : op.kind = "create"
    /\ roomKeys[r] = NoKey /\ roomKeyB64[r] = NoKey /\ store[r] = NoKey /\ r \notin selfNicks
    /\ ~\E op \in ops : op.room = r
    /\ gate.room # r
    /\ Start("create", r, k)
    /\ UNCHANGED <<sessionVars, pageVars, rotating>>

FinishCreateRoom(op) ==
    LET r == op.room
    IN  /\ op.kind = "create"
        /\ roomKeys' = [roomKeys EXCEPT ![r] = op.key]
        /\ roomKeyB64' = [roomKeyB64 EXCEPT ![r] = op.key]
        /\ selfNicks' = selfNicks \cup {r}
        /\ EnterRoom(r, NoKey, roomKeys', roomKeyB64', selfNicks', ops \ {op})
        /\ UNCHANGED <<joinCreating, rotating>>

(* leaveRoom: everything the tab has of the room in view. *)
Disconnected(r) == [live EXCEPT ![r] = IF store[r] = NoKey THEN @ ELSE @ - 1]

NickKept(r) == selfNicks

NickForgotten(r) == selfNicks \ {r}

LeaveRoom ==
    /\ view \in Rooms
    /\ live' = Disconnected(view)
    /\ store' = [store EXCEPT ![view] = NoKey]
    /\ roomKeys' = [roomKeys EXCEPT ![view] = NoKey]
    /\ roomKeyB64' = [roomKeyB64 EXCEPT ![view] = NoKey]
    /\ selfNicks' = NickForgotten(view)
    /\ view' = Home
    /\ pendingHashKey' = NoKey
    /\ UNCHANGED <<gate, joinCreating, peekStore, rotating, ops>>

-----------------------------------------------------------------------------
(* Functions that go on in the room in view when their awaits return *)

InView == view \in Rooms /\ store[view] # NoKey

(* rotateKeyViaE2EE (share), which needs the current key and its text, and *)
(* rotateKeyLocally (local), which needs neither.                          *)
StartRotate(kind, k) ==
    /\ InView /\ ~rotating
    /\ kind = "share" => roomKeys[view] # NoKey /\ roomKeyB64[view] # NoKey
    /\ Start(kind, IF kind = "share" THEN view ELSE NoRoom, k)
    /\ rotating' = TRUE
    /\ UNCHANGED <<sessionVars, pageVars>>

Adopt(r, k) ==
    /\ roomKeys' = [roomKeys EXCEPT ![r] = k]
    /\ roomKeyB64' = [roomKeyB64 EXCEPT ![r] = k]
    /\ store' = IF NeedsStore(r) THEN store ELSE [store EXCEPT ![r] = k]

ResetOnSuccess(ok) == ~ok

ResetFinally(ok) == FALSE

(* The frame goes out if the socket is open; only then is the key adopted. *)
(* A local rotation sends none; without a store to be found it fails, but  *)
(* after it has set the keys.                                              *)
FinishRotate(op) ==
    /\ ops' = ops \ {op}
    /\ \/ /\ (op.kind = "share" /\ InView) \/ (op.kind = "local" /\ view \in Rooms)
          /\ Adopt(view, op.key)
          /\ frame' = IF op.kind = "share" THEN [via |-> view, sealed |-> op.room] ELSE NoFrame
          /\ rotating' = ResetFinally(InView)
       \/ /\ op.kind = "share" \/ (op.kind = "local" /\ view \notin Rooms)
          /\ UNCHANGED <<store, roomKeys, roomKeyB64>>
          /\ frame' = NoFrame
          /\ rotating' = ResetFinally(FALSE)
    /\ UNCHANGED <<selfNicks, live, pageVars>>

(* updateNick and updateRoomName: the name is sealed before the await. *)
StartRename ==
    /\ InView /\ roomKeys[view] # NoKey
    /\ Start("rename", view, NoKey)
    /\ UNCHANGED <<sessionVars, pageVars, rotating>>

FinishRename(op) ==
    /\ op.kind = "rename"
    /\ ops' = ops \ {op}
    /\ \/ frame' = NoFrame
       \/ InView /\ frame' = [via |-> view, sealed |-> op.room]
    /\ UNCHANGED <<sessionVars, pageVars, rotating>>

-----------------------------------------------------------------------------
(* A member of the room rotates its key: the store adopts it, onKeyRotated *)
(* stores the text at once and the imported key later, in view or not.     *)
KeyUpdated(r, k) ==
    /\ store[r] # NoKey
    /\ Start("rotated", r, k)
    /\ store' = [store EXCEPT ![r] = k]
    /\ roomKeyB64' = [roomKeyB64 EXCEPT ![r] = k]
    /\ UNCHANGED <<roomKeys, selfNicks, live, pageVars, rotating>>

FinishRotated(op) ==
    /\ op.kind = "rotated"
    /\ ops' = ops \ {op}
    /\ roomKeys' = [roomKeys EXCEPT ![op.room] = op.key]
    /\ UNCHANGED <<store, roomKeyB64, selfNicks, live, pageVars, rotating>>

Quiet ==
    \/ \E r \in Rooms :
          \/ JoinRoomWithoutKey(r)
          \/ \E k \in Keys : JoinRoom(r, k) \/ CreateRoom(r, k) \/ KeyUpdated(r, k)
          \/ \E hash \in KeyTexts : Navigate(r, hash)
    \/ TypeKey
    \/ \E k \in Keys : PasteKey(k) \/ \E kind \in {"share", "local"} : StartRotate(kind, k)
    \/ GoHome \/ BackToGate \/ Confirm \/ CancelJoin \/ StopRoomNamePeek \/ LeaveRoom
    \/ StartRename
    \/ \E op \in ops :
          \/ FinishJoinRoom(op) \/ FinishConfirm(op) \/ StartPeek(op) \/ FinishCreateRoom(op)
          \/ FinishOpenRoom(op) \/ FinishPasteKey(op) \/ FinishRotated(op)

Next ==
    \/ Quiet /\ frame' = NoFrame
    \/ \E op \in ops : FinishRotate(op) \/ FinishRename(op)

Spec == Init /\ [][Next]_vars

-----------------------------------------------------------------------------
(* Properties *)

(* A room has one connected store object, the one in stores, and none when *)
(* it has left stores: however many imports of a link's key are under way  *)
(* for it, and whatever gate, confirm, create and leave interleave, no     *)
(* socket is opened twice for a room and none is forgotten.  The peek's    *)
(* connection exists only for the room at the gate: a peek whose key       *)
(* import returns late starts nothing.                                     *)
NoStrayConnection ==
    /\ \A r \in Rooms : live[r] = IF store[r] = NoKey THEN 0 ELSE 1
    /\ peekStore # NoRoom => gate.room = peekStore

Opening(r) == \E op \in ops : op.kind = "open" /\ op.room = r

(* A room in view has a nick and its key in roomKeys, and it is connected, *)
(* or the import that leads to its store is under way, or the text in its  *)
(* address is no key: the paste-key panel never stays for any other reason.*)
StoresComplete ==
    view \in Rooms =>
        /\ view \in selfNicks
        /\ roomKeys[view] # NoKey
        /\ store[view] # NoKey \/ Opening(view) \/ pendingHashKey = BadKey

(* What a rotation or a rename sends goes to the room it was made for:     *)
(* "switching rooms only changes the view, never the connections"          *)
(* (App.svelte:30).                                                        *)
SentToItsRoom == frame.via = frame.sealed

=============================================================================
