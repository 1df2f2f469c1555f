------------------------ MODULE RoomConnectionProofs ------------------------
(***************************************************************************)
(* A room's connection with any number of sockets, any size of the queue   *)
(* and any number of frames: its types, its one plan to be connected, and  *)
(* the order of its frames.                                                *)
(***************************************************************************)
EXTENDS RoomConnection, SequenceTheorems, WellFoundedInduction, TLAPS

(* Highest is well defined: a sequence of frames has a greatest number. *)
LEMMA HighestProperties ==
    ASSUME NEW n \in Frames, NEW q \in Seq(Frames)
    PROVE  LET S == {n} \cup {q[i] : i \in 1..Len(q)}
           IN  Highest(n, q) \in S /\ \A y \in S : y <= Highest(n, q)
<1> DEFINE S == {n} \cup {q[i] : i \in 1..Len(q)}
           gaps == {m \in Nat : \E y \in S : m = MaxFrames - y}
<1>1. S \subseteq Frames
  OBVIOUS
<1>2. \A y \in S : MaxFrames - y \in gaps
  BY <1>1, TransportAssumption DEF Frames
<1>3. gaps # {} /\ gaps \subseteq Nat
  BY <1>2
<1>4. \A m \in gaps : \E x \in S : m = MaxFrames - x
  OBVIOUS
<1>5. Highest(n, q) = CHOOSE z \in S : \A y \in S : y <= z
  BY DEF Highest
<1> HIDE DEF S, gaps
<1>6. \E R : IsWellFoundedOn(R, Nat) /\ \A k, m \in Nat : k < m => <<k, m>> \in R
  <2>1. \A k, m \in Nat : k < m => <<k, m>> \in OpToRel(<, Nat)
    BY DEF OpToRel
  <2> QED
    BY <2>1, NatLessThanWellFounded
<1>7. PICK m \in gaps : \A k \in gaps : ~(k < m)
  <2>1. PICK R : IsWellFoundedOn(R, Nat) /\ \A k, m \in Nat : k < m => <<k, m>> \in R
    BY <1>6
  <2>2. IsWellFoundedOn(R, Nat)
    BY <2>1
  <2>3. PICK m \in gaps : \A k \in gaps : <<k, m>> \notin R
    BY <1>3, <2>2, WFMin
  <2> QED
    BY <1>3, <2>1, <2>3
<1>8. \A k \in gaps : m <= k
  BY <1>3, <1>7
<1>9. PICK x \in S : m = MaxFrames - x
  BY <1>4
<1>10. \A y \in S : y <= x
  BY <1>1, <1>2, <1>8, <1>9, TransportAssumption DEF Frames
<1>11. Highest(n, q) \in S /\ \A y \in S : y <= Highest(n, q)
  BY <1>5, <1>10
<1> QED
  BY <1>11 DEF S

(* The greatest of numbers below b is below b, and none of them exceeds it. *)
LEMMA HighestBounds ==
    ASSUME NEW n \in Frames, NEW q \in Seq(Frames)
    PROVE  /\ Highest(n, q) \in Frames
           /\ n <= Highest(n, q)
           /\ \A i \in 1..Len(q) : q[i] <= Highest(n, q)
           /\ \A b \in Nat :
                  n < b /\ (\A i \in 1..Len(q) : q[i] < b) => Highest(n, q) < b
<1>1. /\ Highest(n, q) \in {n} \cup {q[i] : i \in 1..Len(q)}
      /\ \A y \in {n} \cup {q[i] : i \in 1..Len(q)} : y <= Highest(n, q)
  BY HighestProperties
<1> QED
  BY <1>1

-----------------------------------------------------------------------------
(* Types *)

LEMMA TypeInit == Init => TypeOK
<1> SUFFICES ASSUME Init PROVE TypeOK
  OBVIOUS
<1> USE TransportAssumption, CallbacksAssumption DEF Init, TransportInit
<1>1. <<>> \in Seq(Frames) /\ Len(<<>>) <= QueueCap
  OBVIOUS
<1>2. out \in [Sockets -> Seq(Frames)] /\ sendQueue \in Seq(Frames) /\ Len(sendQueue) <= QueueCap
  BY <1>1
<1>3. sentUpTo \in Frames /\ nextFrame \in 1..(MaxFrames + 1)
  BY DEF Frames
<1>4. /\ sock \in [Sockets -> {"connecting", "open", "closing", "closed"}]
      /\ ws \in Sockets \cup {NoSocket} /\ (ws # NoSocket => sock[ws] # "closed")
  OBVIOUS
<1>5. TransportTypeOK
  BY <1>2, <1>3, <1>4 DEF TransportTypeOK
<1>6. callbacks \in 0..MaxCallbacks /\ member \in [Sockets -> BOOLEAN]
  OBVIOUS
<1> QED
  BY <1>5, <1>6 DEF TypeOK

(* Whatever sendRaw is given, it keeps the types of the queue and the wire. *)
LEMMA SendRawType ==
    ASSUME TypeOK, NEW f \in Frames, SendRaw(f)
    PROVE  /\ sendQueue' \in Seq(Frames) /\ Len(sendQueue') <= QueueCap
           /\ out' \in [Sockets -> Seq(Frames)]
           /\ sentUpTo' \in Frames
<1> USE DEF TypeOK, TransportTypeOK
<1>1. sentUpTo' \in Frames
  BY HighestBounds, <<f>> \in Seq(Frames) DEF SendRaw
<1>2. out' \in [Sockets -> Seq(Frames)]
  BY DEF SendRaw, Writable
<1>3. sendQueue' \in Seq(Frames) /\ Len(sendQueue') <= QueueCap
  BY TransportAssumption DEF SendRaw, HasRoom
<1> QED
  BY <1>1, <1>2, <1>3

LEMMA OpenSocketType ==
    ASSUME TypeOK, OpenSocket
    PROVE  TransportTypeOK'
<1> USE DEF TypeOK, TransportTypeOK, OpenSocket
<1>1. PICK s \in Sockets : /\ ws' = s
                           /\ sock' = [sock EXCEPT ![s] = "connecting"]
                           /\ out' = [out EXCEPT ![s] = <<>>]
  OBVIOUS
<1>2. out' \in [Sockets -> Seq(Frames)]
  BY <1>1, <<>> \in Seq(Frames)
<1>3. /\ sock' \in [Sockets -> {"connecting", "open", "closing", "closed"}]
      /\ ws' \in Sockets \cup {NoSocket} /\ (ws' # NoSocket => sock'[ws'] # "closed")
  BY <1>1
<1> QED
  BY <1>2, <1>3

LEMMA TypeNext == TypeOK /\ [Next]_vars => TypeOK'
<1> SUFFICES ASSUME TypeOK, [Next]_vars PROVE TypeOK'
  OBVIOUS
<1> USE TransportAssumption, CallbacksAssumption
<1>1. CASE IdentityReady
  BY <1>1 DEF TypeOK, TransportTypeOK, IdentityReady, transportVars, planVars, frameVars
<1>2. CASE RunCallback
  <2>1. callbacks' \in 0..MaxCallbacks
    BY <1>2 DEF RunCallback, Microtask, TypeOK
  <2>2. CASE status = "open"
    <3>1. SendRaw(Control) /\ Control \in Frames
      BY <1>2, <2>2 DEF RunCallback, Frames, Control
    <3> QED
      BY <1>2, <2>1, <2>2, <3>1, SendRawType DEF RunCallback, planVars, TypeOK, TransportTypeOK
  <2>3. CASE status # "open"
    BY <1>2, <2>1, <2>3 DEF RunCallback, planVars, frameVars, TypeOK, TransportTypeOK
  <2> QED
    BY <2>2, <2>3
<1>3. CASE SendFrame
  <2>1. SendRaw(nextFrame) /\ nextFrame \in Frames /\ nextFrame' \in 1..(MaxFrames + 1)
    BY <1>3 DEF SendFrame, Send, Frames, TypeOK, TransportTypeOK
  <2> QED
    BY <1>3, <2>1, SendRawType
    DEF SendFrame, Send, storeVars, planVars, TypeOK, TransportTypeOK
<1>4. CASE StoreConnect
  BY <1>4, OpenSocketType DEF StoreConnect, Connect, storeVars, TypeOK
<1>5. CASE StoreDisconnect
  <2>1. sendQueue' \in Seq(Frames) /\ Len(sendQueue') <= QueueCap
    BY <1>5, <<>> \in Seq(Frames), Len(<<>>) = 0 DEF StoreDisconnect, Disconnect
  <2>2. sock' \in [Sockets -> {"connecting", "open", "closing", "closed"}]
    BY <1>5 DEF StoreDisconnect, Disconnect, TypeOK, TransportTypeOK
  <2> QED
    BY <1>5, <2>1, <2>2 DEF StoreDisconnect, Disconnect, TypeOK, TransportTypeOK
<1>6. CASE Reconnect
  <2>1. CASE MayConnect
    BY <1>6, <2>1, OpenSocketType DEF Reconnect, TimerFires, storeVars, TypeOK
  <2>2. CASE ~MayConnect
    BY <1>6, <2>2
    DEF Reconnect, TimerFires, storeVars, frameVars, TypeOK, TransportTypeOK
  <2> QED
    BY <2>1, <2>2
<1>7. ASSUME NEW s \in Sockets, Open(s) PROVE TypeOK'
  <2>1. callbacks' \in 0..MaxCallbacks
    BY <1>7 DEF Open, JoinsRegistered, TypeOK
  <2>2. CASE ws = s
    <3>1. Highest(sentUpTo, sendQueue) \in Frames
      BY HighestBounds DEF TypeOK, TransportTypeOK
    <3>2. /\ out' = [out EXCEPT ![s] = @ \o sendQueue] /\ sentUpTo' \in Frames
          /\ sendQueue' = <<>> /\ nextFrame' = nextFrame
      BY <1>7, <2>2, <3>1 DEF Open, OnOpen, FlushQueue
    <3>3. out' \in [Sockets -> Seq(Frames)] /\ sendQueue' \in Seq(Frames) /\ Len(sendQueue') <= QueueCap
      BY <3>2 DEF TypeOK, TransportTypeOK
    <3> QED
      BY <1>7, <2>1, <2>2, <3>2, <3>3 DEF Open, OnOpen, TypeOK, TransportTypeOK
  <2>3. CASE ws # s
    BY <1>7, <2>1, <2>3 DEF Open, OnOpen, frameVars, TypeOK, TransportTypeOK
  <2> QED
    BY <2>2, <2>3
<1>8. ASSUME NEW s \in Sockets, SocketCloses(s) PROVE TypeOK'
  <2>1. out' \in [Sockets -> Seq(Frames)]
    BY <1>8, <<>> \in Seq(Frames) DEF SocketCloses, OnClose, TypeOK, TransportTypeOK
  <2>2. member' \in [Sockets -> BOOLEAN]
    BY <1>8 DEF SocketCloses, TypeOK
  <2> QED
    BY <1>8, <2>1, <2>2 DEF SocketCloses, OnClose, Schedules, TypeOK, TransportTypeOK
<1>9. ASSUME NEW s \in Sockets, SocketClosing(s) PROVE TypeOK'
  BY <1>9 DEF SocketClosing, ServerCloses, storeVars, frameVars, TypeOK, TransportTypeOK
<1>10. ASSUME NEW s \in Sockets, ServerHandles(s) PROVE TypeOK'
  <2>1. out[s] \in Seq(Frames) /\ out[s] # <<>>
    BY <1>10 DEF ServerHandles, ServerTakes, TypeOK, TransportTypeOK
  <2>2. Head(out[s]) \in Frames /\ Tail(out[s]) \in Seq(Frames)
    BY <2>1
  <2>3. refused' \subseteq 1..MaxFrames
    <3>1. Head(out[s]) # Control => Head(out[s]) \in 1..MaxFrames
      BY <2>2 DEF Control, Frames
    <3> QED
      BY <1>10, <3>1 DEF ServerHandles, TypeOK
  <2>4. out' \in [Sockets -> Seq(Frames)]
    BY <1>10, <2>2 DEF ServerHandles, ServerTakes, TypeOK, TransportTypeOK
  <2>5. member' \in [Sockets -> BOOLEAN]
    BY <1>10 DEF ServerHandles, TypeOK
  <2> QED
    BY <1>10, <2>3, <2>4, <2>5
    DEF ServerHandles, ServerTakes, planVars, TypeOK, TransportTypeOK
<1>11. CASE UNCHANGED vars
  BY <1>11 DEF vars, transportVars, planVars, frameVars, storeVars, TypeOK, TransportTypeOK
<1> QED
  BY <1>1, <1>2, <1>3, <1>4, <1>5, <1>6, <1>7, <1>8, <1>9, <1>10, <1>11 DEF Next

(* The transport and the store keep to their types; the queue in particular *)
(* never holds more than its capacity, and the current socket is not closed. *)
THEOREM TypeCorrect == Spec => []TypeOK
  BY TypeInit, TypeNext, PTL DEF Spec

-----------------------------------------------------------------------------
(* One plan to be connected *)

LEMMA PlanInit == Init => OnePlan
  BY DEF Init, TransportInit, OnePlan

(* connect() opens a socket only when the current one is neither connecting *)
(* nor open, so there is no second one. *)
LEMMA OpenSocketPlan ==
    ASSUME TypeOK, OnePlan, MayConnect, OpenSocket
    PROVE  OnePlan'
<1>1. PICK s \in Sockets : ws' = s /\ sock' = [sock EXCEPT ![s] = "connecting"]
  BY DEF OpenSocket
<1>2. \A t \in Sockets : sock'[t] \in {"connecting", "open"} => t = ws'
  BY <1>1, TransportAssumption DEF OnePlan, MayConnect, TypeOK, TransportTypeOK
<1>3. timer' = FALSE /\ shouldReconnect' = TRUE /\ ws' # NoSocket
  BY <1>1, TransportAssumption DEF OpenSocket
<1> QED
  BY <1>2, <1>3 DEF OnePlan

LEMMA PlanNext == TypeOK /\ OnePlan /\ [Next]_vars => OnePlan'
<1> SUFFICES ASSUME TypeOK, OnePlan, [Next]_vars PROVE OnePlan'
  OBVIOUS
<1> USE TransportAssumption
<1>1. CASE IdentityReady
  BY <1>1 DEF IdentityReady, transportVars, planVars, frameVars, OnePlan
<1>2. CASE RunCallback
  BY <1>2 DEF RunCallback, SendRaw, Queues, planVars, frameVars, OnePlan
<1>3. CASE SendFrame
  BY <1>3 DEF SendFrame, Send, SendRaw, Queues, planVars, OnePlan
<1>4. CASE StoreConnect
  BY <1>4, OpenSocketPlan DEF StoreConnect, Connect
<1>5. CASE StoreDisconnect
  <2>1. \A s \in Sockets : sock'[s] \notin {"connecting", "open"}
    BY <1>5 DEF StoreDisconnect, Disconnect, OnePlan, TypeOK, TransportTypeOK
  <2> QED
    BY <1>5, <2>1 DEF StoreDisconnect, Disconnect, OnePlan
<1>6. CASE Reconnect
  <2>1. CASE MayConnect
    BY <1>6, <2>1, OpenSocketPlan DEF Reconnect, TimerFires
  <2>2. CASE ~MayConnect
    <3>1. timer /\ ws # NoSocket /\ timer' = FALSE
          /\ UNCHANGED <<ws, sock, shouldReconnect, sendQueue>>
      BY <1>6, <2>2 DEF Reconnect, TimerFires, frameVars, MayConnect
    <3> QED
      BY <3>1 DEF OnePlan
  <2> QED
    BY <2>1, <2>2
<1>7. ASSUME NEW s \in Sockets, Open(s) PROVE OnePlan'
  <2>1. ws = s
    BY <1>7 DEF Open, OnOpen, OnePlan
  <2>2. sock' = [sock EXCEPT ![s] = "open"] /\ sendQueue' = <<>>
        /\ UNCHANGED <<ws, timer, shouldReconnect>>
    BY <1>7, <2>1 DEF Open, OnOpen, FlushQueue
  <2> QED
    BY <2>1, <2>2 DEF OnePlan, TypeOK, TransportTypeOK
<1>8. ASSUME NEW s \in Sockets, SocketCloses(s) PROVE OnePlan'
  <2>1. sock' = [sock EXCEPT ![s] = "closed"] /\ UNCHANGED <<shouldReconnect, sendQueue>>
    BY <1>8 DEF SocketCloses, OnClose
  <2>2. CASE ws = s
    <3>1. shouldReconnect /\ ws' = NoSocket /\ timer' = (timer \/ AutoReconnect)
      BY <1>8, <2>2 DEF SocketCloses, OnClose, Schedules, OnePlan
    <3>2. \A t \in Sockets : sock'[t] \notin {"connecting", "open"}
      BY <2>1, <2>2 DEF OnePlan, TypeOK, TransportTypeOK
    <3> QED
      BY <2>1, <3>1, <3>2 DEF OnePlan
  <2>3. CASE ws # s
    BY <1>8, <2>1, <2>3 DEF SocketCloses, OnClose, OnePlan, TypeOK, TransportTypeOK
  <2> QED
    BY <2>2, <2>3
<1>9. ASSUME NEW s \in Sockets, SocketClosing(s) PROVE OnePlan'
  BY <1>9 DEF SocketClosing, ServerCloses, storeVars, frameVars, OnePlan, TypeOK, TransportTypeOK
<1>10. ASSUME NEW s \in Sockets, ServerHandles(s) PROVE OnePlan'
  BY <1>10 DEF ServerHandles, ServerTakes, planVars, OnePlan
<1>11. CASE UNCHANGED vars
  BY <1>11 DEF vars, transportVars, planVars, frameVars, OnePlan
<1> QED
  BY <1>1, <1>2, <1>3, <1>4, <1>5, <1>6, <1>7, <1>8, <1>9, <1>10, <1>11 DEF Next

(* However sockets fail and timers fire around connect() and disconnect(): a *)
(* transport that wants a connection has exactly one socket or one timer for *)
(* it, and one that does not has neither and has forgotten its queue.        *)
THEOREM OnePlanKept == Spec => []OnePlan
  BY TypeInit, TypeNext, PlanInit, PlanNext, PTL DEF Spec

-----------------------------------------------------------------------------
(* The order of the frames *)

(* What is queued and what has been handed over came before the next frame; *)
(* and an open socket leaves nothing queued, since its open flushed it.      *)
FramesBelow ==
    /\ sentUpTo < nextFrame
    /\ \A i \in 1..Len(sendQueue) : sendQueue[i] < nextFrame
    /\ Writable => sendQueue = <<>>

FramesInv == FramesBelow /\ FramesInOrderOnce

LEMMA FramesInit == Init => FramesInv
  BY DEF Init, TransportInit, FramesInv, FramesBelow, FramesInOrderOnce, Writable

(* A step that leaves the frames alone and opens nothing keeps the order. *)
LEMMA FramesUntouched ==
    ASSUME FramesInv, Writable' => Writable,
           UNCHANGED <<sendQueue, sentUpTo, nextFrame>>
    PROVE  FramesInv'
  BY DEF FramesInv, FramesBelow, FramesInOrderOnce

(* sendRaw of the next frame, or of one without a number. *)
LEMMA SendRawFrames ==
    ASSUME TypeOK, FramesInv, NEW f \in Frames, SendRaw(f), UNCHANGED <<ws, sock>>,
           \/ f = nextFrame /\ nextFrame' = nextFrame + 1
           \/ f = Control /\ nextFrame' = nextFrame
    PROVE  FramesInv'
<1> USE DEF TypeOK, TransportTypeOK, FramesInv, FramesBelow
<1>1. f < nextFrame' /\ nextFrame <= nextFrame' /\ nextFrame' \in Nat
  BY DEF Control
<1>2. CASE Writable
  <2>1. sentUpTo' = Highest(sentUpTo, <<f>>) /\ sendQueue' = <<>>
    BY <1>2 DEF SendRaw
  <2>2. sentUpTo' < nextFrame'
    <3>1. sentUpTo < nextFrame' /\ \A i \in 1..Len(<<f>>) : <<f>>[i] < nextFrame'
      BY <1>1 DEF Frames
    <3> QED
      BY <1>1, <2>1, <3>1, HighestBounds, <<f>> \in Seq(Frames)
  <2> QED
    BY <2>1, <2>2 DEF FramesInOrderOnce
<1>3. CASE ~Writable
  <2>1. sentUpTo' = sentUpTo /\ ~Writable'
    BY <1>3 DEF SendRaw, Writable
  <2>2. CASE sendQueue' = sendQueue
    <3>1. /\ \A i \in 1..Len(sendQueue) : sendQueue[i] \in Nat /\ sendQueue[i] < nextFrame
          /\ sentUpTo \in Nat /\ sentUpTo < nextFrame
      <4>1. \A i \in 1..Len(sendQueue) : sendQueue[i] \in Frames
        OBVIOUS
      <4> QED
        BY <4>1 DEF Frames
    <3>2. sentUpTo' < nextFrame' /\ \A i \in 1..Len(sendQueue') : sendQueue'[i] < nextFrame'
      BY <1>1, <2>1, <2>2, <3>1
    <3> QED
      BY <2>1, <2>2, <3>2 DEF FramesInOrderOnce
  <2>3. CASE sendQueue' = Append(sendQueue, f)
    <3>1. /\ Len(sendQueue') = Len(sendQueue) + 1 /\ Len(sendQueue) \in Nat
          /\ \A i \in 1..Len(sendQueue) : sendQueue'[i] = sendQueue[i] /\ sendQueue[i] \in Frames
          /\ sendQueue'[Len(sendQueue) + 1] = f
      BY <2>3
    <3>2. \A i \in 1..Len(sendQueue') : sendQueue'[i] < nextFrame'
      BY <1>1, <3>1 DEF Frames
    <3>3. FramesInOrderOnce'
      <4>1. \A i \in 1..Len(sendQueue) : f # Control => sendQueue'[i] < f
        BY <3>1
      <4>2. f # Control => f > sentUpTo'
        BY <2>1 DEF Frames
      <4>3. SUFFICES ASSUME NEW i \in 1..Len(sendQueue'), sendQueue'[i] # Control
                     PROVE  /\ sendQueue'[i] > sentUpTo'
                            /\ \A j \in 1..(i - 1) : sendQueue'[j] < sendQueue'[i]
        BY DEF FramesInOrderOnce
      <4>4. CASE i \in 1..Len(sendQueue)
        <5>1. sendQueue[i] # Control /\ sendQueue'[i] = sendQueue[i]
          BY <3>1, <4>3, <4>4
        <5>2. /\ sendQueue[i] > sentUpTo
              /\ \A j \in 1..(i - 1) : sendQueue[j] < sendQueue[i]
          BY <4>4, <5>1 DEF FramesInOrderOnce
        <5>3. \A j \in 1..(i - 1) : sendQueue'[j] = sendQueue[j]
          BY <3>1, <4>4
        <5> QED
          BY <2>1, <5>1, <5>2, <5>3
      <4>5. CASE i = Len(sendQueue) + 1
        BY <3>1, <4>1, <4>2, <4>3, <4>5
      <4> QED
        BY <3>1, <4>4, <4>5
    <3> QED
      BY <1>1, <2>1, <3>2, <3>3 DEF Frames
  <2> QED
    BY <2>2, <2>3 DEF SendRaw
<1> QED
  BY <1>2, <1>3

LEMMA FramesNext ==
    TypeOK /\ OnePlan /\ FramesInv /\ [Next]_vars => FramesInv'
<1> SUFFICES ASSUME TypeOK, OnePlan, FramesInv, [Next]_vars PROVE FramesInv'
  OBVIOUS
<1>1. CASE IdentityReady
  BY <1>1, FramesUntouched DEF IdentityReady, transportVars, planVars, frameVars, Writable
<1>2. CASE RunCallback
  <2>1. CASE status = "open"
    <3>1. SendRaw(Control) /\ Control \in Frames /\ UNCHANGED <<ws, sock, nextFrame>>
      BY <1>2, <2>1, TransportAssumption DEF RunCallback, planVars, Control, Frames
    <3> QED
      BY <3>1, SendRawFrames
  <2>2. CASE status # "open"
    BY <1>2, <2>2, FramesUntouched DEF RunCallback, planVars, frameVars, Writable
  <2> QED
    BY <2>1, <2>2
<1>3. CASE SendFrame
  <2>1. SendRaw(nextFrame) /\ nextFrame' = nextFrame + 1 /\ UNCHANGED <<ws, sock>>
    BY <1>3 DEF SendFrame, Send, planVars
  <2>2. nextFrame \in Frames
    BY <1>3, TransportAssumption DEF SendFrame, Send, Frames, TypeOK, TransportTypeOK
  <2> QED
    BY <2>1, <2>2, SendRawFrames
<1>4. CASE OpenSocket
  <2>1. ~Writable' /\ UNCHANGED <<sendQueue, sentUpTo, nextFrame>>
    BY <1>4 DEF OpenSocket, Writable, TypeOK, TransportTypeOK
  <2> QED
    BY <2>1, FramesUntouched
<1>5. CASE StoreDisconnect
  BY <1>5
  DEF StoreDisconnect, Disconnect, Writable, FramesInv, FramesBelow, FramesInOrderOnce
<1>6. CASE Reconnect
  <2>1. CASE ~MayConnect
    BY <1>6, <2>1, FramesUntouched DEF Reconnect, TimerFires, frameVars, Writable
  <2> QED
    BY <1>4, <1>6, <2>1 DEF Reconnect, TimerFires
<1>7. ASSUME NEW s \in Sockets, Open(s) PROVE FramesInv'
  <2>1. ws = s
    BY <1>7 DEF Open, OnOpen, OnePlan
  <2>2. /\ sendQueue' = <<>> /\ nextFrame' = nextFrame
        /\ sentUpTo' = Highest(sentUpTo, sendQueue)
    BY <1>7, <2>1 DEF Open, OnOpen, FlushQueue
  <2>3. sentUpTo' < nextFrame'
    BY <2>2, HighestBounds DEF FramesInv, FramesBelow, TypeOK, TransportTypeOK
  <2> QED
    BY <2>2, <2>3 DEF FramesInv, FramesBelow, FramesInOrderOnce
<1>8. ASSUME NEW s \in Sockets, SocketCloses(s) PROVE FramesInv'
  <2>1. Writable' => Writable
    BY <1>8 DEF SocketCloses, OnClose, Writable, TypeOK, TransportTypeOK
  <2> QED
    BY <1>8, <2>1, FramesUntouched DEF SocketCloses, OnClose
<1>9. ASSUME NEW s \in Sockets, SocketClosing(s) PROVE FramesInv'
  <2>1. Writable' => Writable
    BY <1>9 DEF SocketClosing, ServerCloses, Writable, TypeOK, TransportTypeOK
  <2> QED
    BY <1>9, <2>1, FramesUntouched DEF SocketClosing, ServerCloses, frameVars
<1>10. ASSUME NEW s \in Sockets, ServerHandles(s) PROVE FramesInv'
  BY <1>10, FramesUntouched DEF ServerHandles, ServerTakes, planVars, Writable
<1>11. CASE UNCHANGED vars
  BY <1>11, FramesUntouched DEF vars, transportVars, planVars, frameVars, Writable
<1> QED
  BY <1>1, <1>2, <1>3, <1>4, <1>5, <1>6, <1>7, <1>8, <1>9, <1>10, <1>11
  DEF Next, StoreConnect, Connect

(* No frame is sent twice and none overtakes another one, over any number of *)
(* connections lost with frames queued in between.                           *)
THEOREM FramesKept == Spec => []FramesInOrderOnce
<1>1. FramesInv => FramesInOrderOnce
  BY DEF FramesInv
<1> QED
  BY TypeInit, TypeNext, PlanInit, PlanNext, FramesInit, FramesNext, <1>1, PTL DEF Spec
=============================================================================
