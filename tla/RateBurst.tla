------------------------------ MODULE RateBurst ------------------------------
(***************************************************************************)
(* RateLimiter with the history of what it admitted, to bound a burst that *)
(* straddles two windows.                                                  *)
(***************************************************************************)
EXTENDS RateLimiter, FiniteSets

VARIABLE hits       \* hits[k]: the events admitted for k in the last Dur[k]

burstVars == <<vars, hits>>

BurstInit == Init /\ hits = [k \in Keys |-> {}]

(* An event that Allow(k) admits now.  The window it counts in and its      *)
(* number there tell it from others of the same time.                       *)
Hit(k) == [at |-> now, from |-> windows'[k].start, nth |-> windows'[k].count]

(* The events no older than Dur[k] at time t; older ones no longer matter. *)
Recent(k, events, t) == {e \in events : t - e.at <= Dur[k]}

BurstNext ==
    \/ \E k \in Keys :
        /\ Allow(k)
        /\ hits' = IF verdict'[2]
                   THEN [hits EXCEPT ![k] = @ \cup {Hit(k)}]
                   ELSE hits
    \/ \E conn \in Conns :
        /\ CleanupConn(conn)
        /\ hits' = [k \in Keys |-> IF k \in KeysOf[conn] THEN {} ELSE hits[k]]
    \/ CleanupExpired /\ UNCHANGED hits
    \/ Tick /\ hits' = [k \in Keys |-> Recent(k, hits[k], now')]

BurstSpec == BurstInit /\ [][BurstNext]_burstVars

-----------------------------------------------------------------------------
(* In no span of Dur[k] are more than 2 * Limit[k] - 1 events admitted: the *)
(* "worst case ~20 across window boundary" of transport.go for 10 a second, *)
(* with the collectors running at any moment.                               *)
BurstBounded == \A k \in Keys : Cardinality(hits[k]) <= 2 * Limit[k] - 1
=============================================================================
