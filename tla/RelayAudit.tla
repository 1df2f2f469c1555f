------------------------------ MODULE RelayAudit ------------------------------
(***************************************************************************)
(* RelayServer with the history its guarantees to clients are about: who   *)
(* has been told the current number of members, and who has been in a room *)
(* while a message to it was handled.                                      *)
(***************************************************************************)
EXTENDS RelayServer

VARIABLES
    told,           \* told[ch]: who got the right count since ch's membership last changed
    present         \* present[c]: who was in room[c] at some time since c's request to relay

auditVars == <<vars, told, present>>

(* The peers told in this step how many are in ch. *)
ToldNow(ch) ==
    UNION {Reached(c) : c \in {x \in Conns : /\ At(x, "tell")
                                             /\ room[x] = ch
                                             /\ num[x] = Cardinality(members[ch])}}

Relaying(c) == pc[c] \in RelaySteps

AuditInit ==
    /\ Init
    /\ told = [ch \in ChannelIds |-> {}]
    /\ present = [c \in Conns |-> {}]

AuditNext ==
    /\ Next
    /\ told' = [ch \in ChannelIds |->
                    IF members'[ch] # members[ch] THEN {} ELSE told[ch] \cup ToldNow(ch)]
    /\ present' = [c \in Conns |->
                       IF Relaying(c)' THEN present[c] \cup members[room'[c]] \cup members'[room'[c]]
                       ELSE {}]

AuditSpec == AuditInit /\ [][AuditNext]_auditVars

-----------------------------------------------------------------------------
(* When the server is at rest, every member who reads has been sent the     *)
(* right number of members since the last change: the Count, Snapshot and   *)
(* write of broadcastOnlineCount are not atomic, yet whoever changed the    *)
(* room last tells everybody in it.                                         *)
EveryMemberTold ==
    Quiescent =>
        \A ch \in ChannelIds : \A d \in members[ch] : link[d] = "up" => d \in told[ch]

(* A message goes from a connection that was in the room to connections     *)
(* that were in the room, while it was being handled, whatever joins,       *)
(* leaves, disconnects and sweeps come between the check of the sender, the *)
(* snapshot and the writes.                                                 *)
RelayStaysInRoom ==
    [][\A c \in Conns :
          At(c, "fanout") /\ Reached(c) # {} => {c} \cup Reached(c) \subseteq present[c]]_auditVars
=============================================================================
