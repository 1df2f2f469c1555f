----------------------------- MODULE FixedWindow -----------------------------
(***************************************************************************)
(* What the rate limiter promises: every key has a budget of Limit[k]      *)
(* events in a window that opens with the first of them and lasts Dur[k].  *)
(* There is no table to be collected: a window that has run out is simply  *)
(* not there any more.                                                     *)
(***************************************************************************)
EXTENDS Naturals

CONSTANTS
    Keys,           \* what is limited: a connection or an address, per operation
    Limit,          \* Limit[k]: events per window
    Dur,            \* Dur[k]: length of the window
    Conns,          \* connections
    KeysOf          \* KeysOf[c]: the keys that are connection c's own

VARIABLES
    used,           \* used[k]: events admitted in k's open window, 0 if none is open
    age,            \* age[k]: how long k's window has been open, 0 if none is open
    verdict         \* the last answer given, <<key, admitted>>

budgetVars == <<used, age, verdict>>

NoVerdict == <<>>

BudgetInit ==
    /\ used = [k \in Keys |-> 0]
    /\ age = [k \in Keys |-> 0]
    /\ verdict = NoVerdict

Admit(k) ==
    /\ used[k] = 0 \/ used[k] < Limit[k]
    /\ used' = [used EXCEPT ![k] = @ + 1]
    /\ verdict' = <<k, TRUE>>
    /\ UNCHANGED age

Refuse(k) ==
    /\ used[k] > 0
    /\ used[k] >= Limit[k]
    /\ verdict' = <<k, FALSE>>
    /\ UNCHANGED <<used, age>>

(* The keys of a closed connection are forgotten: nothing else gives a      *)
(* budget back before its window has run out.                               *)
Retire(c) ==
    /\ used' = [k \in Keys |-> IF k \in KeysOf[c] THEN 0 ELSE used[k]]
    /\ age' = [k \in Keys |-> IF k \in KeysOf[c] THEN 0 ELSE age[k]]
    /\ UNCHANGED verdict

StillOpen(k) == used[k] > 0 /\ age[k] < Dur[k]

Elapse ==
    /\ used' = [k \in Keys |-> IF StillOpen(k) THEN used[k] ELSE 0]
    /\ age' = [k \in Keys |-> IF StillOpen(k) THEN age[k] + 1 ELSE 0]
    /\ UNCHANGED verdict

BudgetNext ==
    \/ \E k \in Keys : Admit(k) \/ Refuse(k)
    \/ \E c \in Conns : Retire(c)
    \/ Elapse

BudgetSpec == BudgetInit /\ [][BudgetNext]_budgetVars
=============================================================================
