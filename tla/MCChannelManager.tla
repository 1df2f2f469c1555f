--------------------------- MODULE MCChannelManager ---------------------------
(***************************************************************************)
(* ChannelManager with the history of RoomLifetime on a small instance.    *)
(* Connections and rooms are interchangeable, so both sets are symmetric.  *)
(***************************************************************************)
EXTENDS RoomLifetime, TLC

MCSymmetry == Permutations(Conns) \cup Permutations(ChannelIds)
=============================================================================
