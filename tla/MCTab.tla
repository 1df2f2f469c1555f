-------------------------------- MODULE MCTab --------------------------------
(* Tab with two attempts to create a room. *)
EXTENDS Tab

MCNewRoom == <<"first", "second">>
=============================================================================
