----------------------------- MODULE RoomLifetime -----------------------------
(***************************************************************************)
(* ChannelManager with two history variables, to say how long rooms live   *)
(* in terms of what happened to them rather than of lastActive.            *)
(***************************************************************************)
EXTENDS ChannelManager

VARIABLES
    vacantAt,       \* when each existing room was created or last emptied
    arrivalAt       \* when each existing room was created or last gained a member

historyVars == <<vars, vacantAt, arrivalAt>>

(* The history after a step in which something happened to the given rooms. *)
Recorded(past, happened) ==
    [ch \in DOMAIN channels' |-> IF ch \in happened THEN now ELSE past[ch]]

NewRooms == DOMAIN channels' \ DOMAIN channels

KeptRooms == DOMAIN channels' \cap DOMAIN channels

HistoryInit ==
    /\ Init
    /\ vacantAt = [ch \in {} |-> 0]
    /\ arrivalAt = [ch \in {} |-> 0]

HistoryNext ==
    /\ Next
    /\ vacantAt' = Recorded(vacantAt, NewRooms \cup
           {ch \in KeptRooms : channels[ch].conns # {} /\ channels'[ch].conns = {}})
    /\ arrivalAt' = Recorded(arrivalAt, NewRooms \cup
           {ch \in KeptRooms : ~(channels'[ch].conns \subseteq channels[ch].conns)})

HistorySpec == HistoryInit /\ [][HistoryNext]_historyVars

-----------------------------------------------------------------------------
(* An empty room is gone once a sweep, with its lag, has had the time to    *)
(* see it both empty and unused for EmptyTTL (main.go: the 1 minute sweep;  *)
(* manager.go: Expire).                                                     *)
EmptyRoomsSwept ==
    \A ch \in DOMAIN channels :
        channels[ch].conns = {} =>
            \/ now - channels[ch].lastActive <= EmptyTTL + SweepPeriod + MaxLag
            \/ now - vacantAt[ch] <= SweepPeriod + MaxLag

(* A room with somebody in it is never swept within IdleTTL of the last     *)
(* arrival, also when that arrival falls between the moment the sweep reads *)
(* the clock and the moment it gets the lock (ExpireNow, JoinIfRoom).       *)
ArrivalsProtectRooms ==
    [][\A ch \in DOMAIN channels \ DOMAIN channels' :
            channels[ch].conns # {} => now - arrivalAt[ch] > IdleTTL]_historyVars
=============================================================================
