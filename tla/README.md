# Private Chat in TLA+

A verification project for Private Chat: a Go server that relays end-to-end
encrypted frames between the members of in-memory rooms, and a browser client
that keeps a WebSocket per room. Paths below are relative to the repository
root (`src/`).

## 1. Inventory

| Part | Where | State | Operations |
|---|---|---|---|
| Channel manager | `backend/internal/channel/manager.go` | `channels` (members, `lastActive`), reverse index `connChannels`, one mutex | Create, JoinIfRoom, Touch, Leave, LeaveAll, Count, Snapshot, Exists, Expire |
| Sweeper | `backend/cmd/server/main.go` | a one-minute ticker | ExpireNow, CleanupRateLimits |
| Rate limiter | `backend/internal/ws/limiter.go` | a table of fixed windows, one mutex | Allow, CleanupConn, CleanupExpired |
| Handler | `backend/internal/ws/transport.go` | one goroutine per connection, a heartbeat goroutine beside it | the read loop with seven requests, broadcasts, deferred cleanup |
| Client transport | `frontend/src/transport.ts` | socket, status, reconnect timer, send queue | connect, disconnect, sendRaw, socket events |
| ChannelStore | `frontend/src/channel.svelte.ts` | cipher, identity, messages, replay cache, pinned nicks, online count | join on open, four senders, five asynchronous frame handlers |
| Creation dialog | `channel.svelte.ts` (`createChannel`), `App.svelte` (`handleCreateRoom`) | a promise, a timer, a socket of its own, the `creating` flag | create, answer, refusal, timeout, loss |
| App | `frontend/src/App.svelte` | view, gate, stores, keys, nicks, names per room, one input | navigate, join, confirm, peek, create, leave, rotate, rename, announce, send |
| Payloads | `e2ee.ts`, `identity.ts` | replay cache | wrap and unwrap functions, signature framing, readers |
| Wire codecs | `codec.ts`, `codec.go`, the generated types | none | encode, decode, the limits on payloads |
| Views | `Composer.svelte`, `JoinNickView.svelte`, `CreateRoomView.svelte`, ... | none of their own | keys and buttons that call the App, and when they are disabled |

**Interaction.** Handlers of all connections share the manager and the limiter.
Each manager call is atomic, and a handler makes several in one request, with
writes to other handlers' connections in between. The sweeper changes the rooms
underneath. The client transport hands frames to a socket or queues them; the
store joins the room from a promise callback after every open. The store's
handlers are async functions that stop at each call of Web Crypto, with other
handlers and the App's calls in between. They call the App back
(`onKeyRotated`, names, the online number), whose effects send frames through
the stores again. One tab has several rooms, hence several stores, and one view
and one input for all of them.

**What is hard, and what has to hold.**

* *Manager*: two indexes of one relation; check and insert on join; a sweep whose
  clock is older than its lock. Correct if the indexes agree, capacity holds,
  rooms are swept when they may be, not before, and not much later.
* *Limiter*: two collectors prune the table between calls. Correct if
  collecting never gives a budget back.
* *Handler*: snapshots that outlive the membership they show; peers that stop
  reading; loss of the connection anywhere in a request. Correct if nobody
  stays in a room after the end, messages reach room members only, everybody is
  told the number of members, and no peer can block a handler for good.
* *Client transport*: late events of old sockets, a timer, a queue with a limit.
  Correct if there is one plan to be connected at any time, and frames leave
  in order and once.
* *ChannelStore*: the checks and effects of one handler lie on both sides of
  its awaits. Correct if what a message says is shown once, one nick never has
  two verified owners (as far as fingerprints tell them apart), impersonation is
  shown, and a payload made for one kind
  of frame does nothing in another.
* *Creation dialog*: answer, timeout and a broken connection race. Correct if
  it settles once, leaves nothing behind and comes back.
* *App*: continuations after an await act on whatever is in view by then; the
  key is kept in three places and changed by several members. Correct if a room
  has one connection, a room in view has what it needs or is about to, a text
  goes where it was entered, and names and keys reach everybody.
* *Codecs*: the same limit in three units at three places. Correct if one side
  accepts what the other lets out.

## 2. Plan

| | Modules | Status |
|---|---|---|
| A | `RoomDirectory` (abstract), `ChannelManager`, `RoomLifetime`, proofs | done |
| B | `FixedWindow` (abstract), `RateLimiter`, `RateBurst`, proofs | done |
| C | `RelayServer` over `RoomDirectory`, `RelayAudit`, proofs | done |
| D | `Transport`, `RoomConnection`, proofs | done |
| E | `ReplayCache`, `InnerPayload`, `ChannelStore`: the asynchronous frame handlers, proofs | done |
| F | `RoomSession`, `KeyRotation`: the App's rooms and keys, proofs | done |
| G | `Announcements`, `RoomNameSync`: nicks and names between members, proofs | done |
| H | `WireCodec`, `SignatureFraming`, `CreateDialog`, `Composer`, `Tab`, proofs | done |
| I | `clientIP`, and the order in which a request's budgets are charged | open |

Every safety property of the passing runs is proved (section 6). I is next.

## 3. Modules and code

**`RoomDirectory`** is what the manager promises: one membership relation and,
per room, whether it exists and which of the two TTLs it has outlived
(`life`: active, quiet, idle). Its actions are the manager's methods.

**`ChannelManager`** is `manager.go`. `channels` and `connChannels` are functions
on the keys present, as in the Go maps. Each method holds the lock throughout,
so each is one action. `ExpireNow` evaluates `m.now()` before `Expire` locks, so
a sweep is `ReadSweepClock`, then `Expire`, with anything in between. Calls that
change nothing (joining a missing or full room, creating an existing one,
touching or leaving a missing one) are stuttering. `Tick` is the clock; it lets
a sweep that is due take at most `MaxLag`. `Directory` is the refinement
mapping: membership is read from the reverse index, `life` from `lastActive`.

**`RoomLifetime`** adds history: when each room was last emptied and when
somebody last arrived.

**`FixedWindow`** and **`RateLimiter`** are a budget per window and `limiter.go`.
A key is always used with one limit and one duration, as in `transport.go`.
`CleanupConn` removes the keys that start with the connection's address
(`KeysOf`). **`RateBurst`** adds the admitted events of the last `Dur`, each with
its time, its window and its number there.

**`RelayServer`** is the handler. `pc[c]` is the place in `Handler` between two
manager calls or writes; `room[c]`, `num[c]`, `todo[c]` are the request's
channelId, the count it has read and the recipients left in its loop. The
manager calls are the actions of `RoomDirectory`, which `ChannelManager` is
shown to implement, and `RoomsChange` is the sweeper and the clock. `send_message`,
`key_update`, `set_room_name` and `set_nickname` run the same steps on an opaque
payload and are one request. Frames that are not text are skipped by the code
and are stuttering. Whether the limiter refuses is arbitrary (`RefuseRequest`),
so everything shown here holds for any limits.
`link[c]` is the WebSocket seen from the server. A peer may stop reading
(`Stall`). Replies to the handler's own peer have no deadline and wait; writes
in a broadcast return after five seconds, when the WebSocket library closes the
connection it was writing to (`WriteTo`). A ping that gets no pong closes the
connection (`HeartbeatTimeout`), also when the peer is well but its handler is
held up in a broadcast and cannot see the pong. The deferred function is
`Cleanup` (LeaveAll), `NotifyLeftRoom` with the broadcast per room, and `Close`.

**`RelayAudit`** adds who has been told the current count and who was in the room
while a message was handled.

**`Transport`** is `transport.ts`. JavaScript runs a handler to its end, so each
handler and each call is one action; a socket's events come in between.
`onerror` fires in the same task as `onclose` and is part of `OnClose`. A socket
identity is used again once its socket is closed. Backoff delays are left out:
the timer fires at any time. The status and message callbacks of other modules
are not part of it.

**`RoomConnection`** composes `Transport` with the store's join and the server's
verdict. The callback on `identityReady` is a microtask: it runs after the
handler that registered it and before any other task (`Task`, `Microtask`).
`SendFrame` is the last step of the four senders, which are asynchronous: the
connection may be in any state by then. `App.svelte` disables the send button
while there is no connection, but the Enter key, a loss during the awaits of
`sendMessage` and the announcements of names reach `sendRaw` without one.

**`ReplayCache`** is the class of that name: a set and a queue. **`InnerPayload`**
has the plaintexts as records, their `wrap` functions, and the readers, which say
whether a payload is theirs. A public key is a pair, its first ten characters
and the rest: the client pins and compares `fpOf(pk)`, the former. A plaintext
without a tag that no reader knows is shown as it stands, as raw JSON if it is
an object (`AsItStands`).

**`ChannelStore`** is `onRawMessage`. Every envelope that arrives starts a run of
the handler (`Deliver`), a record of `tasks` that goes through the stages
`decrypt`, `verify` and `import` (`Resume`), in any order with the others. What
the handler read before an await (its cipher, whether the id was in the cache)
is in the record; what it reads after one is read then. `UpdateCrypto` is the
App's call. Frames whose payload is no envelope end in `Deliver`. `epoch`,
`adds` and `shown` count key changes, cache insertions and entries; the records
keep them so that `ShownOnce` can say which copies were handled at once.

**`RoomSession`** is the room part of `App.svelte`. An async function is a record
of `ops` with what it read before its awaits; the part after them is an action
that reads `channelId` and `channelStore` afresh, which always name the room in
view. An effect runs right after the handler that changed what it depends on,
so the start of the effect that opens stores and that of the peek's are parts of
the actions (`EnterRoom`, `OpenGate`). Without a key in the address the store is
there before the next event (`OpenRoom`: `roomKeys` has the key, and only
microtasks pass). With one, the effect looks for a store, awaits the import and
looks again: `OpenRoomByLink` and `FinishOpenRoom`, with anything in between, other
runs of the same effect (`TypeKey`: each keystroke in the paste-key panel starts
one), the import of a pasted key (`PasteKey`, `FinishPasteKey`) and `leaveRoom` among
it. `FinishConfirm` keeps apart what the code reads before and after its await:
the `CryptoKey` is that of the gate the user confirmed, its text and the page to
open are those of the gate as it is by then.
Left out: the third branch of `getCryptoForChannel`, which takes a key from the
panel's text. It needs a room with a nick and without a key in `roomKeys`, and
`StoresComplete` shows that none is in view. A text that stays in the panel's
input is used by `joinRoom` and by the gate as a link's key is, and is covered by
theirs, except that at the gate of a room called "null" (section 7) it might be
imported for that room. Left out as well: a handler of a key update that is under
way when its room is left, which writes the text of a room that is forgotten,
and that keys made are new (`Keys` has few, so that two may be alike).

**`KeyRotation`** is "Rotate & share" among the members of one room:
`StartRotate` before the awaits of `rotateKeyViaE2EE`, and after them `AbortRotate` (no
connection: nothing is adopted), `SendRotate`, or `RefuseRotate`: the server refuses
the update (its budget is used up, or the sender is no member), or the
connection is lost with it, and the sender has adopted the key all the same.
`Receive`, `Unwrap` and `AdoptUpdate` for the receiving store, `Imported` for
the App's import in `onKeyRotated`. Keys are numbers in the order they are made.

**`Announcements`** is the nick half of the effect that announces names when the
online number rises, over a server that changes membership first and counts
later: `Count` reads the number, `Tell` takes the snapshot and writes. The numbers
on their way to a client are a bag and arrive in any order, which contains every
order in which several handlers can write them. `Refuse` is the server's refusal
of `set_nickname`: ten frames a second per connection and thirty per address are
allowed, each rise of the number costs two, and a client does not send again.
`session[c]` tells a client's connections apart, for the server's `from`
is new for each. **`RoomNameSync`** is its name half, with renames, refusals, the
server's writes to one member after another, and the timeline.

**`CreateDialog`** is `createChannel` with `handleCreateRoom` around it: per
attempt a promise, a timer, a socket and its handlers, and the server's side,
which goes on after the client has given up. **`Composer`** is `handleSend` and
`sendMessage`: the text and the room are read when Enter is pressed, and the
input is cleared when the frame has been handed over. **`Tab`** composes both:
the end of the dialog changes the view under a send. The branch for
`from === "self"` (line 234) never runs, as no caller passes it.

**`WireCodec`** is a frame's way: built by a client (`encode`), read by the
server, rewritten for the members (`Broadcast`), read by a client (`decode`).
A frame is a record, a payload its lengths in the units of either side.
**`SignatureFraming`** builds the string that is signed, byte by byte, since the
property is about that string. How a length is printed is a constant
(`Numeral`) of any number of digits.

The modules `MC...` give constants and bounds. `MCRoomSync` holds three protocols
that share nothing and explores one per behaviour (`topic`): nicks with three
clients that join, nicks with two that come and go, the name, the key.
`MCChannelStore` has three families of frames (`replay`: copies around a key
change; `identity`: three identities, two of them with one fingerprint, contested
and forged nicks; `names`: names, malformed payloads and payloads in frames of
another kind, a new key in a message frame among them); a behaviour keeps
to one. `MCFormats` sends a frame or types two claims.

## 4. Runs

| Run | Bounds | Shows |
|---|---|---|
| `manager` | 3 connections, 2 rooms of 2, TTLs 1 and 2, sweep every 2 ticks with lag 1, 6 ticks | `IndexesAgree`, `WithinCapacity`, `IdleRoomsSwept`, `EmptyRoomsSwept`, `ArrivalsProtectRooms`, and that the manager implements the directory. A room lives at most IdleTTL + period + lag = 5 ticks, so 6 see a room swept at the last moment; a third connection meets a full room. |
| `limiter` | a connection key and an address key with a window three times as long, 8 ticks | `BurstBounded`; the table implements the budget. 8 ticks span several windows of each key. |
| `relay` | 3 connections, 1 room of 2, at most 2 handlers inside a request | `NoGhostMembers`, `EveryMemberTold`, `RelayStaysInRoom`. Two busy handlers give every pairwise interleaving; the third is a bystander, a member, or refused because the room is full. |
| `relay_progress` | 2 connections, 1 room, one redraw | `RequestsFinish`, `StalledPeersLeave` under fairness. |
| `room_connection` | 2 sockets, queue of 2, 4 frames, 2 waiting callbacks | `OnePlan`, `FramesInOrderOnce`, `Reconnects`, `OpenConnectionsJoin`. Two sockets: one in use and one still closing. Two callbacks: the connection opens twice before the identity is ready. Four frames overflow the queue. |
| `queued_frames` | 1 socket, 1 frame | **Violated**: `QueuedFramesTaken` (section 7). |
| `store` | three families of 5 to 12 frames, at most 4 deliveries, one key change by the user, a cache of 2 | `ShownOnce`, `VerifiedNicksUnique`, `ImpersonationShown`, `PayloadsKeepKind`. Four deliveries are a message, its copy and two ids that push the first out of the cache. |
| `room_session` | 2 rooms, 1 well-formed key beside malformed and missing ones, 2 functions under way | `NoStrayConnection`, `StoresComplete`; `TypeOK` has the rotation flag set exactly while a rotation is under way. Two functions are two imports for one room, or an import and a leave, confirm or rotation around it; which key a store has is no concern of these properties, so one will do. |
| `session_rotate` | the same with 2 keys | **Violated**: `SentToItsRoom`. |
| `room_sync` | 3 clients, of which 2 join; 2 clients, of which one leaves, is lost and comes back, with 3 connections; 2 clients, 2 names, 2 renames; 3 members, 2 rotations | `NicksLearned`, `NewcomersLearnName`, `OneRoomKey`, `KeyCopiesAgree`. Two renames or rotations are enough to overlap; a third client has a relay and a count to see in either order; three connections are a join, a return after a loss and a join anew. Every client may be refused. |
| `tab` | 2 attempts, 3 rooms, a text that fits and one that does not, 2 sends at once | `NothingLeftBehind`, `OrphansByTimeout`, `InputReachesItsRoom`, `DialogReturns`. A second attempt meets what the first has left. |
| `formats` | every frame kind with plaintexts around every limit; claims with nick and text of up to 2 bytes out of the separator, the length mark and two digits, lengths in binary | `EncodedIsRead`, `BudgetExact`, `SignatureBindsClaim`. The budget's limit, 6098 bytes, is among the lengths with its neighbours. In binary the length 2 has two digits, so that numerals differ in length. |

`manager`, `relay`, `room_session` and `session_rotate` use symmetry over connections
or rooms, and check only invariants and action properties with it. Deadlock is
not checked where the system may rest: a store that has disconnected, a room
where all has been said, a tab with nothing under way, a frame that has arrived.

What the properties leave open, they leave open on purpose, because the code
lets it happen (section 7):

* `ShownOnce` exempts copies that are handled at once.
* `VerifiedNicksUnique` and `ImpersonationShown` speak of fingerprints, as the code
  compares them.
* `PayloadsKeepKind` lets a plaintext without a tag be shown as it stands.
* `OneRoomKey` exempts rotations that overlap and updates that are refused or lost
  after they were adopted; half of `KeyCopiesAgree` exempts the former.
* `NicksLearned` exempts a client whose latest announcement was refused.
* `NewcomersLearnName` promises a name unless the creator's latest frame was
  refused, and agreement on it if every rename was made at rest, met no join and
  was not refused. The join matters from three clients on (a member that has not
  received the rename announces the old name to the newcomer); the theorem
  covers any number.
* `InputReachesItsRoom` counts a text as sent when `sendRaw` has accepted it. A text
  that is queued and then refused or dropped counts as sent too: that is the
  subject of `queued_frames`, and of section 7.
* `EncodedIsRead` follows what clients send and what is relayed of it. The server's
  own answers are not read back.

The exemptions of the four `room_sync` properties are all needed: without any one
of them TLC finds a counterexample (for the join, with three clients).

## 5. Fairness

* `relay_progress`: a handler that can move does (goroutines are scheduled, and
  a write with a deadline returns); the heartbeat's ticker fires and its ping
  times out. Clients are free to stop at any point.
* `room_connection`: timers fire; a connection attempt ends in `onopen` or
  `onclose`; a closing socket gets `onclose`; the server reads. The identity
  promise settles (its errors are caught and give no identity), and microtasks
  run. Strong fairness of opening says that the server is not down for good: of
  infinitely many attempts one succeeds.
* `tab`: the five-second timer fires, and the continuation of a promise that has
  settled runs. Nothing is assumed of the server, the network or the user.

## 6. Proofs

The theorems hold for any sets of connections, rooms, keys, sockets and frames,
and any limits, periods and bounds that satisfy the named assumptions. Most say
no more than that a bound is a natural number. The others are: `EmptyTTL <=
IdleTTL`, positive limits and sweep period, and a lag of at most one period,
beyond which a Go ticker drops ticks (`manager.go`, `limiter.go`, `main.go`); that
the constants for "no socket", "no room" and the pages are none of the sockets
and rooms; that there is a key in some invite; that the key in a payload is a
key or is missing, a public key has a fingerprint, and raw text has no tag
(`StoreAssumption`); that a creation never
gets the id of a room the tab is in (`TabAssumption`: ids are random); that
somebody creates the room, under a name (`RoomAssumption`); that lengths are
natural numbers (`LengthsAssumption`); and that the numerals of two lengths differ
and have no ":" in them (`FramingAssumption`). Decimal numerals are so, and a
proof of it would be an induction over their digits.

**Server**

* `ChannelManagerProofs`. `TypeCorrect` and `IndexesAlwaysAgree` are inductive
  with the types alone. `CapacityKept` also needs that members are finite sets,
  since a cardinality is only meaningful then (`CapacityInv`).
  `IdleRoomsAreSwept` needs where the sweep stands: the last finished sweep
  saw every room that is old now, and the running one has read a clock not
  older than its deadline (`SweepInv`). `EmptyRoomsAreSwept` needs the same of empty
  rooms, with the alternative that the room has been emptied since
  (`LifetimeInv`). `ArrivalsProtect` needs from it that an arrival is a use, so that
  a sweep with an old clock sees the room no older than it is.
  `ManagerImplementsDirectory` maps each action to its namesake, `Tick` to
  `PassTime`, and `Expire` to `SweepRooms`, which holds because a clock that is too
  old only makes rooms look younger.
* `RateLimiterProofs`. `TypeCorrect`, and `LimiterImplementsBudget`: a window that
  has run out is, for the budget, not there, whether it is still in the table or
  not, hence `CleanupExpired` is a stuttering step. `BurstsAreBounded` by `BurstInv`:
  an event is known by its window and its number there, windows that have
  events in one span are two at most, and an event of the earlier one has a
  number above one, since its first event is as old as the window.
* `RelayProofs`. `TypeCorrect` (with rooms finite, so that counts are
  numbers). `NoGhosts` by `GhostInv`: a handler whose cleanup has begun is only
  at steps from which no join follows, and one that was not accepted is at none.
  `MessagesStayInRoom` by `PresentInv`: once the sender has been
  checked it is among those seen in the room, and so is the snapshot.
  `MembersAreTold` by `TellInv`: as long as somebody has not been told the count,
  some handler will count yet (`WillCount`), or has counted rightly and has the
  members that lack it ahead of it (`WillTell`). The invariant is about one such
  handler; the others may be anywhere, with counts that are out of date.

**Client**

* `RoomConnectionProofs`. `TypeCorrect`, and `OnePlanKept`, which is inductive with
  the types. `FramesKept` by `FramesInv`: an open current socket leaves nothing in
  the queue, so a frame that is written at once overtakes none.
* `ChannelStoreProofs`, over the whole `Spec` of `ChannelStore`, while the run keeps to
  families of frames. `TypeCorrect` includes `CacheOK`: set and queue of the replay
  cache agree and keep within the limit. It rests on `CacheAddProperties`, which
  says what adding an id does to the cache. `MessagesShownOnce` by `ReplayInv`: ids are
  numbered when they enter the cache, so a place in the queue tells an id's
  number; an id that is gone is `CacheMax` behind; and a handler under way for a
  message that is in the timeline began before the entry, or after the id had
  been displaced. `NicksHaveOneOwner` by `PinsInv` (what is shown as verified is
  pinned, and pins stay) and `ConflictsAreShown` by `NoticesInv` and `ConnectionsInv`
  (pairs announced and notices in the timeline match one to one). The steps of a
  run are reduced to what they append and whether they touch the cache
  (`StepKind`), or to steps that say nothing of an identity (`AllNeutral`).
  `PayloadsAct` by `KindInv`: a run that waits for a signature has parsed its
  payload for the kind of its frame, and every entry is a placeholder or has a
  message frame as its source.
* `RoomSessionProofs`. One invariant, `SessionInv`, for `TypeCorrect`,
  `NoConnectionStrays` and `RoomsInViewOpen`: the functions under way have ids of
  their own (`FreeId`: there is one to spare whenever one starts) and carry keys,
  at most one is a rotation (`CallsInv`); a peek is for the gate (`PageInv`); live
  connections are exactly those in `stores` (`ConnectionsInv`, kept by an import
  that returns because it looks for a store again); a room with a nick has its
  key in `roomKeys` (`KeysInv`), wherever the text of that key has gone; a room in
  view has both, and is open or about to be (`ViewInv`).
* `TabProofs`. A step of the tab is a step of the dialog and a step of the
  composer, either of which may stutter (`StepsApart`). `CallsCleanUp` and
  `RefusalsLeaveNoRoom` by `DialogInv`: a call that waits has timer and handlers, one
  that has settled has neither; a call asks once, so no room is made after a
  refusal. `TextsReachTheirRoom` by `ComposerInv`: a send under way carries what was
  in the input when Enter was pressed, and the input still holds that text or
  one typed since.
* `PeerProofs`, over the specifications of `MCRoomSync` and `MCFormats`, since their
  properties are about these.
  `RotationsKeepOneKey` and `CopiesOfTheKeyAgree` by `KeyInv`: without overlap at most
  one rotation is under way, its update is in exactly one place for every
  receiver that has not adopted it unless an update was refused, and the App's
  text follows the store's cipher.
  `NewcomersBecomeKnown` by `JoinsInv` and `ChurnInv`. While clients only join, the
  online numbers on the way never exceed the number present, and a client that
  is not known has an announcement under way, or has yet to see the number rise,
  or was refused last. With churn, a newcomer that has somebody to introduce
  itself to has an announcement under way, or knows no number yet, or was
  refused.
  `NameReachesNewcomers` by `NameInv` and `Agreement`: the creator has a name, a
  member without one has a frame to come or the creator's latest was refused;
  for each member the renames that the server has yet to write to it, those that
  are arriving and those in its timeline are never more than were made
  (`EachCountsOnce`); and while nothing has disturbed a rename, one name is in all
  frames on the way, and whoever holds another has it coming in a rename that is
  alone in the room.
  `WrittenFramesAreRead` by `FrameInv`: what is on the wire has passed `encode`, what
  is relayed is complete, and a payload has no more runes than code units.
  `BudgetIsExact` by arithmetic on the envelope's length (`BudgetFits`).
  `SignaturesBind` by `FrameTells`: the first ":" ends the numeral
  (`NumeralsEqual`), which tells the length of what follows, so a framed field can
  be split off the string in one way only.

**Only model-checked.** Everything under fairness (`RequestsFinish`,
`StalledPeersLeave`, `Reconnects`, `OpenConnectionsJoin`, `DialogReturns`) is out of the
prover's reach. What TLC adds to the rest is that the cases happen: each
property is broken there by a plausible bug.

## 7. Disagreements found

Two have a run that shows them:

1. **Queued frames are refused** (`queued_frames`). `onopen` flushes the queue
   (`transport.ts:109`), and the store's `join_channel` follows in a microtask. The
   server handles the frames in order, so it answers each queued one with "not
   a member".
2. **Work moves to the room in view** (`session_rotate`). After its awaits
   `rotateKeyViaE2EE` (`App.svelte:579`), as `updateNick` and `updateRoomName`, uses
   the room in view: a key update made for one room is sent to another, and
   that room's maps and cipher get its key. Line 30 says "switching rooms only
   changes the view, never the connections".

The others were met while modelling. The models contain the behaviour, and the
properties allow it; no run is about it:

* *No rejoin window for a quiet room.* `Expire` (`manager.go:190`) measures an empty
  room's age from `lastActive`, which leaving does not refresh; the comment at
  line 120 and `SECURITY.md:58` promise the TTL as a window to rejoin.
* *A stale online count.* `broadcastOnlineCount` (backend `transport.go:374`) reads the
  count, then the snapshot, then writes; the handler with the older count may
  write last, and the store takes whatever comes last. Everybody has been sent
  the right count at some point (`EveryMemberTold`).
* *A dropped frame reported as queued.* `sendRaw` (`transport.ts:167`) returns true,
  "queued", when the queue is full.
* *Two keys with one fingerprint.* `recordIdentity` pins and compares the first ten
  characters of the public key (`channel.svelte.ts:422`, `identity.ts:65`), and so do
  the conflict notice and `fpByConn` (lines 265 and 283): of two keys with one
  prefix both are shown as verified owners of a nick, without notice or warning.
  `identity.ts:25` calls the fingerprint "presentation only", `SECURITY.md:85`
  "display-only", and `channel.svelte.ts:151` says that the same nick "from a
  different identity is flagged as a key change".
* *A new key in a message frame is shown.* The payload of a key update has no tag,
  and nothing in an envelope says what frame it was made for: delivered by the
  server in a message frame, it decrypts and is shown as raw JSON
  (`channel.svelte.ts:251`). `identity.ts:218` says that callers "never render the raw
  JSON" of structured payloads; the check is for those with a tag.
* *Copies handled at once.* The replay cache is asked before the awaits and told
  after them (`channel.svelte.ts:214`, 258): two copies that arrive together are
  both shown. `SECURITY.md:70` says a duplicate id is dropped.
* *A message on the heels of a key update.* `key_updated` swaps the cipher after two
  awaits (`channel.svelte.ts:307`); a message under the new key that follows
  closely is tried with the old one and shown as unreadable.
* *A refused key update splits the room.* The rotating member adopts the new key once
  the update is handed to its socket (`App.svelte:581`, "optimistic local update");
  if the server then refuses it (backend `transport.go:233` to 251), or the
  connection is lost with it, nobody else gets the key and the sender is not
  taken back.
* *Overlapping rotations split the room.* Two members that rotate at the same time
  each adopt their own key and cannot unwrap the other's (`App.svelte:579`); two
  updates that follow closely lose a receiver in the same way. The button
  (line 799) says "all members get new key".
* *A late import.* `onKeyRotated` (`App.svelte:223`) sets the key's text at once and the
  `CryptoKey` when an import returns, which nothing orders: an older key can
  overwrite a newer one, or come back for a room that was left. `SECURITY.md:72`
  says it "syncs the maps".
* *A pasted invite with another key* changes `roomKeys` only (`App.svelte:450`); the
  room's store keeps the old cipher. `SECURITY.md:73` expects it to stay readable.
* *A joiner without a key* is stopped at the gate (`App.svelte:485`); the comments at
  lines 457 and 551 send it to the paste-key panel, which it cannot reach: the
  panel shows only while a link's key is imported or when it is malformed
  (`StoresComplete`).
* *Enter twice at the gate* (`JoinNickView.svelte:35`, which does not look at
  `joinCreating`) ends at `/r/null` (`App.svelte:493`), and the second confirm stores
  the gate's key as it is by then, null, as the text of the room's key (line 483);
  when the gate has moved on, it is another room's key or a malformed text. The
  invite links made of it (line 59: "b64 copy solely to rebuild invite links")
  are wrong, and with null "Rotate & share" says "no current key" (line 573)
  though the room has one.
* *A room left during the import of a link's key* comes back: the effect's second
  look (`App.svelte:219`) finds no store and opens one, for a room without a nick.
* *A malformed key in the address* of a room that is not connected leaves the panel
  up with "invalid key in link" (`App.svelte:169`) although `roomKeys` has the key.
* *A refused announcement.* The server refuses a nick or a name over its budgets
  (backend `transport.go:315` to 322), and the client, whose socket has taken the
  frame, does not announce again until the number rises: the member stays
  unknown, or the newcomer without a name.
* *Nicks after a reconnect, or a leave and a join.* The effect (`App.svelte:318`) looks
  at the online number alone, which is the same as before; the comment at line
  320 promises a new announcement.
* *Names after overlapping renames* differ between members until the next rename
  (backend `transport.go:295`), and a member that announces the old name after a
  rename takes everybody back to it (`App.svelte:337`).

## 8. Not modelled

* AES-GCM, Ed25519 and key import: Web Crypto's, and ideal here. `identity.ts`'s
  probe of what the browser can do is one outcome of `identityReady`.
* `invite.ts`: regular expressions over one string. `RoomSession` takes their
  result.
* Deleting and clearing messages (filters of a list that nothing else reads),
  copying links. What is left out of the paste-key panel is in section 3.
* JSON: a frame is a record. Rendering, menus, scrolling, toasts.
* Shutdown of the server: all state is in memory and dropped.
* `clientIP` and the budgets a request charges: planned (I). The limiter's verdict
  is arbitrary in `RelayServer`. `generateClientID` is random.
* nginx, Docker, CI, the schema's generator: configuration and tools.
