----------------------------- MODULE RateLimiter -----------------------------
(***************************************************************************)
(* backend/internal/ws/limiter.go: fixed-window counters in a table that   *)
(* two collectors prune, the minute sweep and every disconnect.            *)
(*                                                                         *)
(* Each method holds the limiter's mutex throughout and reads the clock    *)
(* inside, so each is one action.  A key is always used with one limit and *)
(* one duration (transport.go), here Limit[k] and Dur[k].                  *)
(***************************************************************************)
EXTENDS Integers

CONSTANTS
    Keys,           \* "<conn>:join", "<ip>:create", ...
    Limit,          \* Limit[k]: the limit argument of Allow
    Dur,            \* Dur[k]: its dur argument
    Conns,          \* connections
    KeysOf,         \* KeysOf[c]: the keys that start with connection c's address
    MaxTime         \* bound on the clock

ASSUME LimitAssumption ==
    /\ Limit \in [Keys -> Nat \ {0}]
    /\ Dur \in [Keys -> Nat]
ASSUME KeysOfAssumption == KeysOf \in [Conns -> SUBSET Keys]
ASSUME ClockAssumption == MaxTime \in Nat

VARIABLES
    windows,        \* key -> [count, start, dur], for the keys in the table
    now,            \* the clock behind l.now()
    verdict         \* the last answer of Allow, <<key, admitted>>

vars == <<windows, now, verdict>>

Window == [count : Nat \ {0}, start : Nat, dur : Nat]

TypeOK ==
    /\ DOMAIN windows \subseteq Keys
    /\ windows \in [DOMAIN windows -> Window]
    /\ \A k \in DOMAIN windows : windows[k].start <= now /\ windows[k].dur = Dur[k]
    /\ now \in Nat
    /\ verdict \in {<<>>} \cup (Keys \X BOOLEAN)

-----------------------------------------------------------------------------
Init ==
    /\ windows = [k \in {} |-> [count |-> 1, start |-> 0, dur |-> 0]]
    /\ now = 0
    /\ verdict = <<>>

NoLiveWindowYet(k) == k \in DOMAIN windows => now - windows[k].start >= Dur[k]

(* Allow starts a new window for k: there is none, or it has run out. *)
NoLiveWindow(k) == k \in DOMAIN windows => now - windows[k].start > Dur[k]

OpenWindowAtZero(k) ==
    /\ NoLiveWindow(k)
    /\ windows' = [x \in DOMAIN windows \cup {k} |->
                       IF x = k THEN [count |-> 0, start |-> now, dur |-> Dur[k]] ELSE windows[x]]
    /\ verdict' = <<k, TRUE>>
    /\ UNCHANGED now

OpenWindow(k) ==
    /\ NoLiveWindow(k)
    /\ windows' = [x \in DOMAIN windows \cup {k} |->
                       IF x = k THEN [count |-> 1, start |-> now, dur |-> Dur[k]] ELSE windows[x]]
    /\ verdict' = <<k, TRUE>>
    /\ UNCHANGED now

Spent(k) == windows[k].count >= Limit[k]

CountEvent(k) ==
    /\ ~NoLiveWindow(k)
    /\ ~Spent(k)
    /\ windows' = [windows EXCEPT ![k].count = @ + 1]
    /\ verdict' = <<k, TRUE>>
    /\ UNCHANGED now

RefuseEvent(k) ==
    /\ ~NoLiveWindow(k)
    /\ Spent(k)
    /\ verdict' = <<k, FALSE>>
    /\ UNCHANGED <<windows, now>>

Allow(k) == OpenWindow(k) \/ CountEvent(k) \/ RefuseEvent(k)

-----------------------------------------------------------------------------
Collect(ks) ==
    /\ windows' = [k \in DOMAIN windows \ ks |-> windows[k]]
    /\ UNCHANGED <<now, verdict>>

(* The handler's last use of the limiter for conn. *)
CleanupConn(conn) == Collect(KeysOf[conn])

RunOutAtOneAge == {k \in DOMAIN windows : now - windows[k].start > 1}

RunOut == {k \in DOMAIN windows : now - windows[k].start > windows[k].dur}

(* Called by the minute sweep and after every disconnect. *)
CleanupExpired == Collect(RunOut)

Tick ==
    /\ now < MaxTime
    /\ now' = now + 1
    /\ UNCHANGED <<windows, verdict>>

Next ==
    \/ \E k \in Keys : Allow(k)
    \/ \E conn \in Conns : CleanupConn(conn)
    \/ CleanupExpired
    \/ Tick

Spec == Init /\ [][Next]_vars

-----------------------------------------------------------------------------
Live(k) == k \in DOMAIN windows /\ now - windows[k].start <= Dur[k]

Budget == INSTANCE FixedWindow WITH
    used <- [k \in Keys |-> IF Live(k) THEN windows[k].count ELSE 0],
    age <- [k \in Keys |-> IF Live(k) THEN now - windows[k].start ELSE 0]

(* The table with its lazy resets and its two collectors answers exactly    *)
(* as a budget per window would: collecting never restores a budget early,  *)
(* which is what CleanupExpired's per-window age is for.                    *)
ImplementsBudget == Budget!BudgetSpec
=============================================================================
