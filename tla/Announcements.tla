---------------------------- MODULE Announcements ----------------------------
(***************************************************************************)
(* How the members of one room learn each other's nick: the effect in      *)
(* frontend/src/App.svelte that announces the nick when the room's online  *)
(* number rises.  A nick is known per connection (peerNicks is keyed by    *)
(* the server's `from`, which is new for every connection), so a client    *)
(* that reconnects has to be learned again.                                *)
(*                                                                         *)
(* The server (backend/internal/ws/transport.go) changes the membership    *)
(* first and counts later, when it answers and when it broadcasts; a       *)
(* broadcast counts, and looks up whom to write to afterwards.  Handlers   *)
(* write at the same time, so the numbers sent to one connection arrive in *)
(* any order.  What a relayed nick does at its receivers does not depend   *)
(* on when it arrives: it is received with its relay.  A lost connection   *)
(* is noticed by the server before the client is back.                     *)
(***************************************************************************)
EXTENDS Integers, FiniteSets

CONSTANTS
    Clients,
    Founders,       \* who is in the room from the start; the others join
    MaxSessions,    \* bound on the connections of a client that may come back
    Leavers,        \* clients that may leave (and come back)
    Droppers        \* clients whose connection may be lost

VARIABLES
    members,        \* the server's room
    session,        \* session[c]: the number of c's connections so far
    replies,        \* joined clients whose `joined` answer is not sent yet
    tells,          \* broadcasts of online_count that are due
    counted,        \* counted[n]: those that have counted n and not sent it yet
    inbox,          \* inbox[c][n]: joined and online_count frames on the way to c
    outbox,         \* outbox[c]: set_nickname frames on the way from c
    refused,        \* clients whose latest announcement the server has refused
    lastOnline,     \* lastOnlineByRoom of c's tab
    peerNicks,      \* peerNicks[c]: the connections whose nick c knows
    returning,      \* clients whose next join is a reconnect
    owed            \* owed[c]: those who were members when c joined anew

serverVars == <<members, session, replies, tells, counted>>
clientVars == <<lastOnline, peerNicks, returning, owed>>
vars == <<serverVars, inbox, outbox, refused, clientVars>>

Conn(c) == <<c, session[c]>>

Numbers == 1..Cardinality(Clients)

None == [n \in Numbers |-> 0]

(* The founders have met: all that they announced has been delivered. *)
Init ==
    /\ members = Founders
    /\ session = [c \in Clients |-> IF c \in Founders THEN 1 ELSE 0]
    /\ replies = {}
    /\ tells = 0
    /\ counted = None
    /\ inbox = [c \in Clients |-> None]
    /\ outbox = [c \in Clients |-> 0]
    /\ refused = {}
    /\ lastOnline = [c \in Clients |-> IF c \in Founders THEN Cardinality(Founders) ELSE 0]
    /\ peerNicks = [c \in Clients |-> IF c \in Founders THEN {Conn(d) : d \in Founders} ELSE {}]
    /\ returning = {}
    /\ owed = [c \in Clients |-> {}]

-----------------------------------------------------------------------------
(* The server *)

Join(c) ==
    /\ c \notin members
    /\ session[c] < (IF c \in Leavers \cup Droppers THEN MaxSessions ELSE 1)
    /\ session' = [session EXCEPT ![c] = @ + 1]
    /\ members' = members \cup {c}
    /\ replies' = replies \cup {c}
    /\ owed' = [owed EXCEPT ![c] = IF c \in returning THEN {} ELSE members]
    /\ returning' = returning \ {c}
    /\ UNCHANGED <<tells, counted, inbox, outbox, refused, lastOnline, peerNicks>>

Reply(c) ==
    /\ c \in replies
    /\ replies' = replies \ {c}
    /\ inbox' = [inbox EXCEPT ![c][Cardinality(members)] = @ + 1]
    /\ tells' = tells + 1
    /\ UNCHANGED <<members, session, counted, outbox, refused, clientVars>>

(* broadcastOnlineCount: nobody is told of an empty room. *)
Count ==
    /\ tells > 0
    /\ tells' = tells - 1
    /\ counted' = IF members = {} THEN counted
                  ELSE [counted EXCEPT ![Cardinality(members)] = @ + 1]
    /\ UNCHANGED <<members, session, replies, inbox, outbox, refused, clientVars>>

Tell(n) ==
    /\ counted[n] > 0
    /\ counted' = [counted EXCEPT ![n] = @ - 1]
    /\ inbox' = [c \in Clients |->
                     IF c \in members THEN [inbox[c] EXCEPT ![n] = @ + 1] ELSE inbox[c]]
    /\ UNCHANGED <<members, session, replies, tells, outbox, refused, clientVars>>

(* A nick reaches every member and the store of each stores it. *)
Relay(c) ==
    /\ outbox[c] > 0
    /\ outbox' = [outbox EXCEPT ![c] = @ - 1]
    /\ refused' = refused \ {c}
    /\ peerNicks' = [d \in Clients |->
                         IF d \in members THEN peerNicks[d] \cup {Conn(c)} ELSE peerNicks[d]]
    /\ UNCHANGED <<serverVars, inbox, lastOnline, returning, owed>>

(* One of the budgets is used up.  The client does not send again. *)
Refuse(c) ==
    /\ outbox[c] > 0
    /\ outbox' = [outbox EXCEPT ![c] = @ - 1]
    /\ refused' = refused \cup {c}
    /\ UNCHANGED <<serverVars, inbox, clientVars>>

(* c's connection is gone, with every frame under way on it. *)
Removed(c) ==
    /\ c \in members \ replies
    /\ members' = members \ {c}
    /\ tells' = tells + 1
    /\ inbox' = [inbox EXCEPT ![c] = None]
    /\ outbox' = [outbox EXCEPT ![c] = 0]
    /\ refused' = refused \ {c}
    /\ owed' = [d \in Clients |-> IF d = c THEN {} ELSE owed[d] \ {c}]
    /\ UNCHANGED <<session, replies, counted>>

(* The tab reconnects by itself and keeps what it has. *)
Drop(c) ==
    /\ c \in Droppers
    /\ Removed(c)
    /\ returning' = returning \cup {c}
    /\ UNCHANGED <<lastOnline, peerNicks>>

OnlineForgotten(c) == [lastOnline EXCEPT ![c] = 0]

(* leaveRoom forgets the room. *)
Leave(c) ==
    /\ c \in Leavers
    /\ Removed(c)
    /\ lastOnline' = OnlineForgotten(c)
    /\ peerNicks' = [peerNicks EXCEPT ![c] = {}]
    /\ UNCHANGED returning

-----------------------------------------------------------------------------
(* The clients *)

AnnouncesOnce(c, online) == lastOnline[c] = 0

Announces(c, online) == online > lastOnline[c]

(* The store takes the number and the effect runs right after. *)
ReceiveCount(c, online) ==
    /\ inbox[c][online] > 0
    /\ inbox' = [inbox EXCEPT ![c][online] = @ - 1]
    /\ lastOnline' = [lastOnline EXCEPT ![c] = online]
    /\ outbox' = [outbox EXCEPT ![c] = IF Announces(c, online) THEN @ + 1 ELSE @]
    /\ UNCHANGED <<serverVars, refused, peerNicks, returning, owed>>

Next ==
    \/ Count
    \/ \E n \in Numbers : Tell(n)
    \/ \E c \in Clients :
          \/ Join(c) \/ Reply(c) \/ Relay(c) \/ Refuse(c) \/ Drop(c) \/ Leave(c)
          \/ \E n \in Numbers : ReceiveCount(c, n)

Spec == Init /\ [][Next]_vars

-----------------------------------------------------------------------------
(* Properties *)

AtRest ==
    /\ replies = {} /\ tells = 0 /\ counted = None
    /\ \A c \in Clients : inbox[c] = None /\ outbox[c] = 0

(* Once everything has been delivered, every member knows the nick of      *)
(* every member, except one whose latest announcement was refused: the     *)
(* effect announces names so that new members learn the existing ones and  *)
(* the existing ones learn theirs.  It decides by the online number alone, *)
(* which is enough as long as nobody leaves, whatever order numbers come   *)
(* in.                                                                     *)
EveryNickKnown ==
    AtRest => \A c \in members, d \in members \ refused : c = d \/ Conn(d) \in peerNicks[c]

(* Whatever comes and goes: those who were in the room when a client       *)
(* joined it anew, and still are, come to know its nick, unless its latest *)
(* announcement was refused.                                               *)
NewcomerIntroduced ==
    AtRest => \A c \in members \ refused : \A d \in owed[c] : Conn(c) \in peerNicks[d]

=============================================================================
