---------------------------- MODULE MCRateLimiter ----------------------------
(***************************************************************************)
(* A connection's short budget beside an address's long one, as for        *)
(* create_channel: 5 a minute and 20 an hour.                              *)
(***************************************************************************)
EXTENDS RateBurst, TLC

CONSTANTS c1, connCreate, ipCreateHour

MCLimit == (connCreate :> 2) @@ (ipCreateHour :> 3)

MCDur == (connCreate :> 1) @@ (ipCreateHour :> 3)

MCKeysOf == (c1 :> {connCreate})
=============================================================================
