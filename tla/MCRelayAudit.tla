----------------------------- MODULE MCRelayAudit -----------------------------
(***************************************************************************)
(* RelayAudit with at most MaxBusy handlers inside a request or their      *)
(* cleanup at a time; the other connections are members and bystanders.    *)
(***************************************************************************)
EXTENDS RelayAudit, TLC

CONSTANT MaxBusy

Busy == {c \in Conns : pc[c] \notin {"none", "read", "done"}}

FewBusy == Cardinality(Busy) <= MaxBusy

MCSymmetry == Permutations(Conns)
=============================================================================
