----------------------------- MODULE ReplayCache -----------------------------
(***************************************************************************)
(* frontend/src/e2ee.ts, class ReplayCache: the ids of the last CacheMax   *)
(* envelopes, as a set for has() and a queue for the order of eviction.    *)
(***************************************************************************)
EXTENDS Integers, Sequences, FiniteSets

CONSTANT CacheMax       \* the constructor's max (1000)

ASSUME CacheAssumption == CacheMax \in Nat \ {0}

EmptyCache == [seen |-> {}, queue |-> <<>>]

CacheHas(c, id) == id \in c.seen

CacheAddKeepingSeen(c, id) ==
    LET q == Append(c.queue, id)
    IN  IF CacheHas(c, id) THEN c
        ELSE [seen |-> c.seen \cup {id}, queue |-> IF Len(q) > CacheMax THEN Tail(q) ELSE q]

(* has() gives an id no new place in the queue, and neither does a second  *)
(* add: eviction is first in, first out.                                   *)
CacheAdd(c, id) ==
    LET q == Append(c.queue, id)
    IN  IF CacheHas(c, id) THEN c
        ELSE IF Len(q) > CacheMax
             THEN [seen |-> (c.seen \cup {id}) \ {Head(q)}, queue |-> Tail(q)]
             ELSE [seen |-> c.seen \cup {id}, queue |-> q]

(* The two halves name the same ids, each once, and no more than CacheMax. *)
CacheOK(c) ==
    /\ c.seen = {c.queue[i] : i \in 1..Len(c.queue)}
    /\ Cardinality(c.seen) = Len(c.queue)
    /\ Len(c.queue) <= CacheMax

=============================================================================
