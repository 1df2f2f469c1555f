---------------------------- MODULE MCRelayServer ----------------------------
(* RelayServer on a small instance, for liveness: no symmetry. *)
EXTENDS RelayServer
=============================================================================
