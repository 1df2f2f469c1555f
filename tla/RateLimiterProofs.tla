-------------------------- MODULE RateLimiterProofs --------------------------
(***************************************************************************)
(* Proofs about RateLimiter and the bursts of RateBurst, for any keys,     *)
(* limits and window lengths.                                              *)
(***************************************************************************)
EXTENDS RateBurst, FiniteSetTheorems, FunctionTheorems, TLAPS

LEMMA TypeInit == Init => TypeOK
  BY DEF Init, TypeOK, Window

LEMMA TypeNext == TypeOK /\ [Next]_vars => TypeOK'
<1> SUFFICES ASSUME TypeOK, [Next]_vars PROVE TypeOK'
  OBVIOUS
<1> USE LimitAssumption, KeysOfAssumption, ClockAssumption DEF TypeOK, Window
<1>1. ASSUME NEW k \in Keys, OpenWindow(k)
      PROVE  TypeOK'
  <2>1. verdict' \in {<<>>} \cup (Keys \X BOOLEAN)
    BY <1>1 DEF OpenWindow
  <2>2. windows' \in [DOMAIN windows' -> Window] /\ DOMAIN windows' \subseteq Keys
    BY <1>1 DEF OpenWindow
  <2>3. \A x \in DOMAIN windows' : windows'[x].start <= now' /\ windows'[x].dur = Dur[x]
    BY <1>1 DEF OpenWindow
  <2> QED
    BY <1>1, <2>1, <2>2, <2>3 DEF OpenWindow
<1>2. ASSUME NEW k \in Keys, CountEvent(k)
      PROVE  TypeOK'
  <2>1. verdict' \in {<<>>} \cup (Keys \X BOOLEAN)
    BY <1>2 DEF CountEvent
  <2>2. windows' \in [DOMAIN windows' -> Window] /\ DOMAIN windows' \subseteq Keys
    BY <1>2 DEF CountEvent, NoLiveWindow
  <2>3. \A x \in DOMAIN windows' : windows'[x].start <= now' /\ windows'[x].dur = Dur[x]
    BY <1>2 DEF CountEvent, NoLiveWindow
  <2> QED
    BY <1>2, <2>1, <2>2, <2>3 DEF CountEvent
<1>3. ASSUME NEW k \in Keys, RefuseEvent(k)
      PROVE  TypeOK'
  BY <1>3 DEF RefuseEvent
<1>4. ASSUME NEW ks, Collect(ks)
      PROVE  TypeOK'
  BY <1>4 DEF Collect
<1>5. CASE Tick
  BY <1>5 DEF Tick
<1>6. CASE UNCHANGED vars
  BY <1>6 DEF vars
<1> QED
  BY <1>1, <1>2, <1>3, <1>4, <1>5, <1>6 DEF Next, Allow, CleanupConn, CleanupExpired

(* Windows in the table are well formed: a positive count, a start no later *)
(* than now, the duration of their key.                                     *)
THEOREM TypeCorrect == Spec => []TypeOK
  BY TypeInit, TypeNext, PTL DEF Spec

-----------------------------------------------------------------------------
(* Refinement *)

LEMMA BudgetInitially == Init => Budget!BudgetInit
  BY DEF Init, Live, Budget!BudgetInit, Budget!NoVerdict

LEMMA BudgetStep ==
    TypeOK /\ [Next]_vars => [Budget!BudgetNext]_(Budget!budgetVars)
<1> SUFFICES ASSUME TypeOK, [Next]_vars
             PROVE  [Budget!BudgetNext]_(Budget!budgetVars)
  OBVIOUS
<1> USE LimitAssumption, KeysOfAssumption, ClockAssumption DEF TypeOK, Window
<1> DEFINE used(k) == IF Live(k) THEN windows[k].count ELSE 0
           age(k) == IF Live(k) THEN now - windows[k].start ELSE 0
<1>1. ASSUME NEW k \in Keys, OpenWindow(k)
      PROVE  Budget!Admit(k)
  <2>1. ~Live(k) /\ Live(k)'
    BY <1>1 DEF OpenWindow, NoLiveWindow, Live
  <2>2. \A x \in Keys : x # k => used(x)' = used(x) /\ age(x)' = age(x)
    BY <1>1 DEF OpenWindow, Live
  <2>3. used(k)' = 1 /\ age(k)' = 0 /\ used(k) = 0 /\ age(k) = 0
    BY <1>1, <2>1 DEF OpenWindow
  <2>4. verdict' = <<k, TRUE>>
    BY <1>1 DEF OpenWindow
  <2>5. [x \in Keys |-> used(x)'] = [[x \in Keys |-> used(x)] EXCEPT ![k] = @ + 1]
    <3>1. [x \in Keys |-> used(x)][k] + 1 = 1
      BY <2>3
    <3>2. [x \in Keys |-> used(x)'][k] = 1
      BY <2>3
    <3> QED
      BY <2>2, <3>1, <3>2
  <2>6. [x \in Keys |-> age(x)'] = [x \in Keys |-> age(x)]
    BY <2>2, <2>3
  <2>7. [x \in Keys |-> used(x)][k] = 0
    BY <2>3
  <2> QED
    BY <2>4, <2>5, <2>6, <2>7 DEF Budget!Admit
<1>2. ASSUME NEW k \in Keys, CountEvent(k)
      PROVE  Budget!Admit(k)
  <2>1. Live(k) /\ Live(k)'
    BY <1>2 DEF CountEvent, NoLiveWindow, Live
  <2>2. \A x \in Keys : x # k => used(x)' = used(x) /\ age(x)' = age(x)
    BY <1>2 DEF CountEvent, Live
  <2>3. /\ used(k)' = used(k) + 1
        /\ age(k)' = age(k)
        /\ used(k) < Limit[k]
    BY <1>2, <2>1 DEF CountEvent, Spent, Live
  <2>4. verdict' = <<k, TRUE>>
    BY <1>2 DEF CountEvent
  <2> QED
    BY <2>2, <2>3, <2>4 DEF Budget!Admit
<1>3. ASSUME NEW k \in Keys, RefuseEvent(k)
      PROVE  Budget!Refuse(k)
  <2>1. Live(k) /\ used(k) > 0 /\ used(k) >= Limit[k]
    BY <1>3 DEF RefuseEvent, NoLiveWindow, Spent, Live
  <2>2. \A x \in Keys : used(x)' = used(x) /\ age(x)' = age(x)
    BY <1>3 DEF RefuseEvent, Live
  <2>3. verdict' = <<k, FALSE>>
    BY <1>3 DEF RefuseEvent
  <2> QED
    BY <2>1, <2>2, <2>3 DEF Budget!Refuse
<1>4. ASSUME NEW conn \in Conns, CleanupConn(conn)
      PROVE  Budget!Retire(conn)
  <2>1. \A x \in Keys : /\ used(x)' = IF x \in KeysOf[conn] THEN 0 ELSE used(x)
                        /\ age(x)' = IF x \in KeysOf[conn] THEN 0 ELSE age(x)
    BY <1>4 DEF CleanupConn, Collect, Live
  <2>2. verdict' = verdict
    BY <1>4 DEF CleanupConn, Collect
  <2> QED
    BY <2>1, <2>2 DEF Budget!Retire
<1>5. CASE CleanupExpired
  <2>1. \A x \in Keys : used(x)' = used(x) /\ age(x)' = age(x)
    BY <1>5 DEF CleanupExpired, Collect, RunOut, Live
  <2>2. verdict' = verdict
    BY <1>5 DEF CleanupExpired, Collect
  <2> QED
    BY <2>1, <2>2 DEF Budget!budgetVars
<1>6. CASE Tick
  <2>1. \A x \in Keys :
            LET open == used(x) > 0 /\ age(x) < Dur[x]
            IN  /\ used(x)' = IF open THEN used(x) ELSE 0
                /\ age(x)' = IF open THEN age(x) + 1 ELSE 0
    BY <1>6 DEF Tick, Live
  <2>2. verdict' = verdict
    BY <1>6 DEF Tick
  <2>3. Budget!Elapse
    BY <2>1, <2>2 DEF Budget!Elapse, Budget!StillOpen
  <2> QED
    BY <2>3 DEF Budget!BudgetNext
<1>7. CASE UNCHANGED vars
  BY <1>7 DEF vars, Live, Budget!budgetVars
<1> QED
  <2>1. ASSUME NEW conn \in Conns, CleanupConn(conn)
        PROVE  Budget!BudgetNext
    BY <1>4, <2>1 DEF Budget!BudgetNext
  <2>2. ASSUME NEW k \in Keys, Allow(k)
        PROVE  Budget!BudgetNext
    BY <1>1, <1>2, <1>3, <2>2 DEF Allow, Budget!BudgetNext
  <2> QED
    BY <2>1, <2>2, <1>5, <1>6, <1>7 DEF Next

(* The limiter's table answers as a budget per window would, for any limits *)
(* and durations: neither collector ever restores a budget that a window    *)
(* still running has spent, nor does a lazy reset come early or late.       *)
THEOREM LimiterImplementsBudget == Spec => ImplementsBudget
<1>1. Spec => []TypeOK
  BY TypeCorrect
<1> QED
  BY <1>1, BudgetInitially, BudgetStep, PTL DEF Spec, ImplementsBudget, Budget!BudgetSpec

-----------------------------------------------------------------------------
(* Bursts *)

Event == [at : Nat, from : Nat, nth : Nat]

(* An event of k's table entry or of a window before it: the first of a     *)
(* window opens it, the others follow within Dur, Limit of them at most.    *)
EventOK(k, e) ==
    /\ e \in Event
    /\ e.from <= e.at /\ e.at <= now
    /\ now - e.at <= Dur[k]
    /\ e.at - e.from <= Dur[k]
    /\ e.nth \in 1..Limit[k]
    /\ e.nth = 1 => e.at = e.from
    /\ k \in DOMAIN windows =>
           \/ windows[k].start - e.from > Dur[k]
           \/ e.from = windows[k].start /\ e.nth <= windows[k].count
    /\ k \notin DOMAIN windows => now - e.from > Dur[k]

(* Events are numbered in their window, and windows do not overlap. *)
EventsApart(k, e, f) ==
    /\ e.from = f.from /\ e.nth = f.nth => e = f
    /\ e.from < f.from => f.from - e.from > Dur[k]

BurstInv ==
    /\ DOMAIN hits = Keys
    /\ \A k \in DOMAIN windows : windows[k].count <= Limit[k]
    /\ \A k \in Keys :
           /\ \A e \in hits[k] : EventOK(k, e)
           /\ \A e, f \in hits[k] : EventsApart(k, e, f)

LEMMA BurstInitially == BurstInit => BurstInv
  BY DEF BurstInit, Init, BurstInv

(* Events that are kept while the table entry of k is kept, or goes with    *)
(* its window run out, keep their places.                                   *)
LEMMA EventsKept ==
    ASSUME TypeOK, BurstInv, NEW k \in Keys, now' \in Nat, now <= now',
           hits'[k] \subseteq hits[k],
           \A e \in hits'[k] : now' - e.at <= Dur[k],
           \/ k \in DOMAIN windows' /\ k \in DOMAIN windows /\ windows'[k] = windows[k]
           \/ k \notin DOMAIN windows' /\ k \notin DOMAIN windows
           \/ k \notin DOMAIN windows' /\ k \in DOMAIN windows /\ now - windows[k].start > Dur[k]
    PROVE  /\ \A e \in hits'[k] : EventOK(k, e)'
           /\ \A e, f \in hits'[k] : EventsApart(k, e, f)'
<1>1. ASSUME NEW e \in hits'[k] PROVE EventOK(k, e)'
  <2>1. EventOK(k, e)
    BY <1>1 DEF BurstInv
  <2>2. Dur[k] \in Nat /\ now \in Nat /\ (k \in DOMAIN windows => windows[k].start \in Nat)
    BY LimitAssumption DEF TypeOK, Window
  <2> QED
    BY <2>1, <2>2 DEF EventOK, Event
<1>2. ASSUME NEW e \in hits'[k], NEW f \in hits'[k] PROVE EventsApart(k, e, f)'
  BY <1>2 DEF BurstInv, EventsApart
<1> QED
  BY <1>1, <1>2

(* Allow admits one more event of k, the last of the window it leaves. *)
LEMMA EventAdded ==
    ASSUME TypeOK, BurstInv, NEW k \in Keys, now' = now,
           hits'[k] = hits[k] \cup {Hit(k)},
           k \in DOMAIN windows',
           \/ /\ NoLiveWindow(k)
              /\ windows'[k].start = now /\ windows'[k].count = 1
           \/ /\ ~NoLiveWindow(k) /\ ~Spent(k)
              /\ windows'[k].start = windows[k].start
              /\ windows'[k].count = windows[k].count + 1
    PROVE  /\ \A e \in hits'[k] : EventOK(k, e)'
           /\ \A e, f \in hits'[k] : EventsApart(k, e, f)'
<1>0. PICK h : h = Hit(k)
  OBVIOUS
<1>1. /\ Dur[k] \in Nat /\ now \in Nat /\ Limit[k] \in Nat \ {0}
      /\ k \in DOMAIN windows => /\ windows[k].start \in Nat /\ windows[k].count \in Nat \ {0}
                                 /\ windows[k].start <= now
  BY LimitAssumption DEF TypeOK, Window
<1>2. \A e \in hits[k] : EventOK(k, e) /\ e \in Event
  BY DEF BurstInv, EventOK
<1>3. \A e, f \in hits[k] : EventsApart(k, e, f)
  BY DEF BurstInv
<1>4. h \in Event /\ h.at = now /\ h.from = windows'[k].start /\ h.nth = windows'[k].count
  BY <1>0, <1>1 DEF Hit, Event, NoLiveWindow
<1>5. EventOK(k, h)'
  BY <1>1, <1>4 DEF EventOK, NoLiveWindow, Spent
<1>6. ASSUME NEW e \in hits[k]
      PROVE  /\ EventOK(k, e)'
             /\ e.from = h.from => e.nth < h.nth
             /\ e.from <= h.from
             /\ e.from < h.from => h.from - e.from > Dur[k]
  <2>1. EventOK(k, e)
    BY <1>2, <1>6
  <2>2. e.at \in Nat /\ e.from \in Nat /\ e.nth \in Nat
    BY <1>2, <1>6 DEF Event
  <2>3. CASE NoLiveWindow(k)
    <3>1. now - e.from > Dur[k]
      BY <1>1, <2>1, <2>2, <2>3 DEF EventOK, NoLiveWindow
    <3> QED
      BY <1>1, <1>4, <2>1, <2>2, <2>3, <3>1 DEF EventOK
  <2>4. CASE ~NoLiveWindow(k)
    <3>1. k \in DOMAIN windows /\ h.from = windows[k].start /\ h.nth = windows[k].count + 1
      BY <1>4, <2>4 DEF NoLiveWindow
    <3> QED
      BY <1>1, <1>4, <2>1, <2>2, <2>4, <3>1 DEF EventOK
  <2> QED
    BY <2>3, <2>4
<1>7. ASSUME NEW e \in hits'[k], NEW f \in hits'[k] PROVE EventsApart(k, e, f)
  <2>1. CASE e \in hits[k] /\ f \in hits[k]
    BY <1>3, <2>1
  <2>2. CASE e = h /\ f = h
    BY <1>4, <2>2 DEF EventsApart, Event
  <2>3. CASE e \in hits[k] /\ f = h
    BY <1>2, <1>4, <1>6, <2>3 DEF EventsApart, Event
  <2>4. CASE e = h /\ f \in hits[k]
    BY <1>2, <1>4, <1>6, <2>4 DEF EventsApart, Event
  <2> QED
    BY <1>0, <1>7, <2>1, <2>2, <2>3, <2>4
<1> QED
  BY <1>0, <1>5, <1>6, <1>7 DEF EventsApart

LEMMA BurstStep == TypeOK /\ BurstInv /\ [BurstNext]_burstVars => BurstInv'
<1> SUFFICES ASSUME TypeOK, BurstInv, [BurstNext]_burstVars PROVE BurstInv'
  OBVIOUS
<1>0. now \in Nat /\ \A k \in Keys : \A e \in hits[k] : now - e.at <= Dur[k]
  BY DEF TypeOK, BurstInv, EventOK
<1>1. ASSUME NEW k \in Keys, Allow(k),
             hits' = IF verdict'[2] THEN [hits EXCEPT ![k] = @ \cup {Hit(k)}] ELSE hits
      PROVE  BurstInv'
  <2>1. ASSUME NEW x \in Keys, x # k
        PROVE  /\ \A e \in hits'[x] : EventOK(x, e)'
               /\ \A e, f \in hits'[x] : EventsApart(x, e, f)'
    <3>1. /\ now' = now
          /\ \/ x \in DOMAIN windows' /\ x \in DOMAIN windows /\ windows'[x] = windows[x]
             \/ x \notin DOMAIN windows' /\ x \notin DOMAIN windows
      BY <1>1, <2>1 DEF Allow, OpenWindow, CountEvent, RefuseEvent
    <3>2. hits'[x] = hits[x]
      BY <1>1, <2>1 DEF BurstInv
    <3> QED
      BY <1>0, <3>1, <3>2, EventsKept
  <2>2. CASE OpenWindow(k)
    <3>1. hits' = [hits EXCEPT ![k] = @ \cup {Hit(k)}] /\ now' = now
      BY <1>1, <2>2 DEF OpenWindow
    <3>2. hits'[k] = hits[k] \cup {Hit(k)} /\ DOMAIN hits' = Keys
      BY <3>1 DEF BurstInv
    <3>3. NoLiveWindow(k) /\ k \in DOMAIN windows' /\ windows'[k].start = now /\ windows'[k].count = 1
      BY <2>2 DEF OpenWindow
    <3>4. /\ \A e \in hits'[k] : EventOK(k, e)'
          /\ \A e, f \in hits'[k] : EventsApart(k, e, f)'
      BY <3>1, <3>2, <3>3, EventAdded
    <3>5. \A x \in DOMAIN windows' : windows'[x].count <= Limit[x]
      BY <2>2, LimitAssumption DEF OpenWindow, BurstInv
    <3> QED
      BY <2>1, <3>2, <3>4, <3>5 DEF BurstInv
  <2>3. CASE CountEvent(k)
    <3>1. hits' = [hits EXCEPT ![k] = @ \cup {Hit(k)}] /\ now' = now
      BY <1>1, <2>3 DEF CountEvent
    <3>2. hits'[k] = hits[k] \cup {Hit(k)} /\ DOMAIN hits' = Keys
      BY <3>1 DEF BurstInv
    <3>3. /\ ~NoLiveWindow(k) /\ ~Spent(k) /\ k \in DOMAIN windows' /\ k \in DOMAIN windows
          /\ windows'[k].start = windows[k].start
          /\ windows'[k].count = windows[k].count + 1
      BY <2>3 DEF CountEvent, NoLiveWindow, TypeOK, Window
    <3>4. /\ \A e \in hits'[k] : EventOK(k, e)'
          /\ \A e, f \in hits'[k] : EventsApart(k, e, f)'
      BY <3>1, <3>2, <3>3, EventAdded
    <3>5. \A x \in DOMAIN windows' : windows'[x].count <= Limit[x]
      <4>1. windows[k].count \in Nat /\ Limit[k] \in Nat
        BY <3>3, LimitAssumption DEF TypeOK, Window
      <4> QED
        BY <2>3, <3>3, <4>1 DEF CountEvent, Spent, BurstInv
    <3> QED
      BY <2>1, <3>2, <3>4, <3>5 DEF BurstInv
  <2>4. CASE RefuseEvent(k)
    <3>1. hits' = hits /\ UNCHANGED <<windows, now>>
      BY <1>1, <2>4 DEF RefuseEvent
    <3> QED
      BY <3>1 DEF BurstInv, EventOK, EventsApart
  <2> QED
    BY <1>1, <2>2, <2>3, <2>4 DEF Allow
<1>2. ASSUME NEW conn \in Conns, CleanupConn(conn),
             hits' = [k \in Keys |-> IF k \in KeysOf[conn] THEN {} ELSE hits[k]]
      PROVE  BurstInv'
  <2>1. now' = now /\ windows' = [k \in DOMAIN windows \ KeysOf[conn] |-> windows[k]]
    BY <1>2 DEF CleanupConn, Collect
  <2>2. ASSUME NEW k \in Keys
        PROVE  /\ \A e \in hits'[k] : EventOK(k, e)'
               /\ \A e, f \in hits'[k] : EventsApart(k, e, f)'
    <3>1. CASE k \in KeysOf[conn]
      BY <1>2, <3>1
    <3>2. CASE k \notin KeysOf[conn]
      <4>1. now' \in Nat /\ now <= now' /\ hits'[k] = hits[k]
            /\ \A e \in hits'[k] : now' - e.at <= Dur[k]
        BY <1>0, <1>2, <2>1, <3>2
      <4>2. \/ k \in DOMAIN windows' /\ k \in DOMAIN windows /\ windows'[k] = windows[k]
            \/ k \notin DOMAIN windows' /\ k \notin DOMAIN windows
        BY <2>1, <3>2
      <4> QED
        BY <4>1, <4>2, EventsKept
    <3> QED
      BY <3>1, <3>2
  <2> QED
    BY <1>2, <2>1, <2>2 DEF BurstInv
<1>3. CASE CleanupExpired /\ UNCHANGED hits
  <2>1. now' = now /\ windows' = [k \in DOMAIN windows \ RunOut |-> windows[k]]
    BY <1>3 DEF CleanupExpired, Collect
  <2>2. \A k \in RunOut : now - windows[k].start > Dur[k]
    BY DEF RunOut, TypeOK
  <2>3. ASSUME NEW k \in Keys
        PROVE  /\ \A e \in hits'[k] : EventOK(k, e)'
               /\ \A e, f \in hits'[k] : EventsApart(k, e, f)'
    <3>1. now' \in Nat /\ now <= now' /\ hits'[k] = hits[k]
          /\ \A e \in hits'[k] : now' - e.at <= Dur[k]
      BY <1>0, <1>3, <2>1
    <3>2. \/ k \in DOMAIN windows' /\ k \in DOMAIN windows /\ windows'[k] = windows[k]
          \/ k \notin DOMAIN windows' /\ k \notin DOMAIN windows
          \/ k \notin DOMAIN windows' /\ k \in DOMAIN windows /\ now - windows[k].start > Dur[k]
      BY <2>1, <2>2
    <3> QED
      BY <3>1, <3>2, EventsKept
  <2> QED
    BY <1>3, <2>1, <2>3 DEF BurstInv
<1>4. CASE Tick /\ hits' = [k \in Keys |-> Recent(k, hits[k], now')]
  <2>1. now' = now + 1 /\ windows' = windows
    BY <1>4 DEF Tick
  <2>2. ASSUME NEW k \in Keys
        PROVE  /\ \A e \in hits'[k] : EventOK(k, e)'
               /\ \A e, f \in hits'[k] : EventsApart(k, e, f)'
    <3>1. hits'[k] \subseteq hits[k] /\ \A e \in hits'[k] : now' - e.at <= Dur[k]
      BY <1>4 DEF Recent
    <3> QED
      BY <1>0, <2>1, <3>1, EventsKept
  <2> QED
    BY <1>4, <2>1, <2>2 DEF BurstInv
<1>5. CASE UNCHANGED burstVars
  BY <1>5 DEF burstVars, vars, BurstInv, EventOK, EventsApart
<1> QED
  BY <1>1, <1>2, <1>3, <1>4, <1>5 DEF BurstNext

(* Events of the last Dur come from two windows at most, and of the older   *)
(* one the event that opened it is too old: number those of the newer one   *)
(* 1..Limit and the others Limit + 1..2 * Limit - 1.                        *)
LEMMA BurstCount == TypeOK /\ BurstInv => BurstBounded
<1> SUFFICES ASSUME TypeOK, BurstInv, NEW k \in Keys
             PROVE  Cardinality(hits[k]) <= 2 * Limit[k] - 1
  BY DEF BurstBounded
<1>0. PICK L : L = Limit[k]
  OBVIOUS
<1> DEFINE Old(e) == \E f \in hits[k] : e.from < f.from
           place == [e \in hits[k] |-> IF Old(e) THEN L + e.nth - 1 ELSE e.nth]
<1>1. L \in Nat /\ L >= 1 /\ Dur[k] \in Nat /\ now \in Nat
  BY <1>0, LimitAssumption DEF TypeOK
<1>2. \A e \in hits[k] : EventOK(k, e) /\ e.at \in Nat /\ e.from \in Nat /\ e.nth \in 1..L
  BY <1>0 DEF BurstInv, EventOK, Event
<1>3. \A e, f \in hits[k] : EventsApart(k, e, f)
  BY DEF BurstInv
<1>4. ASSUME NEW e \in hits[k], Old(e)
      PROVE  e.nth # 1 /\ \A f, g \in hits[k] : ~(e.from < f.from /\ f.from < g.from)
  <2>1. PICK f \in hits[k] : e.from < f.from
    BY <1>4
  <2>2. f.from - e.from > Dur[k] /\ f.from <= now
    BY <1>1, <1>2, <1>3, <2>1 DEF EventsApart, EventOK
  <2>3. e.nth # 1
    BY <1>1, <1>2, <2>2 DEF EventOK
  <2>4. ASSUME NEW a \in hits[k], NEW b \in hits[k], e.from < a.from, a.from < b.from
        PROVE  FALSE
    <3>1. b.from - a.from > Dur[k] /\ b.from <= now
      BY <1>1, <1>2, <1>3, <2>4 DEF EventsApart, EventOK
    <3>2. a.from - e.from > Dur[k]
      BY <1>3, <2>4 DEF EventsApart
    <3>3. e.at - e.from <= Dur[k] /\ now - e.at <= Dur[k]
      BY <1>2 DEF EventOK
    <3> QED
      BY <1>1, <1>2, <3>1, <3>2, <3>3
  <2> QED
    BY <2>3, <2>4
<1>5. \A e \in hits[k] : /\ Old(e) => place[e] \in (L + 1)..(2 * L - 1)
                         /\ ~Old(e) => place[e] \in 1..L
  BY <1>1, <1>2, <1>4
<1>6. ASSUME NEW e \in hits[k], NEW f \in hits[k], place[e] = place[f] PROVE e = f
  <2>1. Old(e) <=> Old(f)
    <3> HIDE DEF place, Old
    <3> QED
      BY <1>1, <1>5, <1>6
  <2>2. e.from = f.from
    <3>1. CASE Old(e)
      <4>1. PICK a \in hits[k] : e.from < a.from
        BY <3>1
      <4>2. PICK b \in hits[k] : f.from < b.from
        BY <2>1, <3>1
      <4> QED
        BY <1>2, <1>4, <2>1, <3>1, <4>1, <4>2
    <3>2. CASE ~Old(e)
      BY <1>2, <2>1, <3>2
    <3> QED
      BY <3>1, <3>2
  <2>3. e.nth = f.nth
    BY <1>1, <1>2, <1>6, <2>1
  <2> QED
    BY <1>3, <2>2, <2>3 DEF EventsApart
<1>7. place \in Injection(hits[k], 1..(2 * L - 1))
  <2>1. place \in [hits[k] -> 1..(2 * L - 1)]
    <3>1. ASSUME NEW e \in hits[k] PROVE place[e] \in 1..(2 * L - 1)
      <4> HIDE DEF place, Old
      <4> QED
        BY <1>1, <1>5
    <3> QED
      BY <3>1
  <2> HIDE DEF place
  <2> QED
    BY <1>6, <2>1, Fun_IsInj
<1>8. IsFiniteSet(1..(2 * L - 1)) /\ Cardinality(1..(2 * L - 1)) = 2 * L - 1
  <2>1. PICK n \in Int : n = 2 * L - 1 /\ n >= 1
    BY <1>1
  <2>2. IsFiniteSet(1..n) /\ Cardinality(1..n) = n
    BY <2>1, FS_Interval
  <2> QED
    BY <2>1, <2>2
<1> HIDE DEF place
<1> QED
  BY <1>0, <1>7, <1>8, FS_Injection

(* Two windows can meet, but never more than two, and never with all of     *)
(* both budgets: collectors, lazy resets and the boundary tick included.    *)
THEOREM BurstsAreBounded == BurstSpec => []BurstBounded
<1>1. BurstInit => TypeOK /\ BurstInv
  BY TypeInit, BurstInitially DEF BurstInit
<1>2. [BurstNext]_burstVars => [Next]_vars
  BY DEF BurstNext, burstVars, Next
<1>3. TypeOK /\ BurstInv /\ [BurstNext]_burstVars => (TypeOK /\ BurstInv)'
  BY <1>2, TypeNext, BurstStep
<1> QED
  BY <1>1, <1>3, BurstCount, PTL DEF BurstSpec
=============================================================================
