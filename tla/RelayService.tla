---------------------------- MODULE RelayService ----------------------------
(***************************************************************************)
(* What the relay promises one client connection (relay/relay.go), without *)
(* its goroutines, locks and queues.  The requests of a client for a       *)
(* channel are served in any order: a LEAVE may overtake an earlier JOIN   *)
(* and the other way round.  A request may be refused, or forgotten when   *)
(* the channel ends for want of clients.  A client gets the payloads of    *)
(* the channels it is a member of, and nothing once its connection is      *)
(* closed.                                                                 *)
(***************************************************************************)
EXTENDS Naturals, Sequences

CONSTANTS Address, ChannelId, NoChannel, Blob, NoBlob

VARIABLES
  joins,   \* JOINs of a client for a channel that have not been answered
  leaves,  \* LEAVEs of a client for a channel that have not been served
  member,  \* the channels a client is a member of
  open,    \* the connection of a client is open
  out      \* messages written to the connection of a client

vars == <<joins, leaves, member, open, out>>

Init ==
  /\ joins = [c \in Address |-> [id \in ChannelId |-> 0]]
  /\ leaves = [c \in Address |-> [id \in ChannelId |-> 0]]
  /\ member = [c \in Address |-> {}]
  /\ open = [c \in Address |-> TRUE]
  /\ out = [c \in Address |-> <<>>]

Message(type, id, b) == [type |-> type, channel |-> id, blob |-> b]

Write(c, m) == out' = IF open[c] THEN [out EXCEPT ![c] = Append(@, m)] ELSE out

\* The relay reads a JOIN or a LEAVE...
AskJoin(c, id) ==
  /\ joins' = [joins EXCEPT ![c][id] = @ + 1]
  /\ UNCHANGED <<leaves, member, open, out>>

AskLeave(c, id) ==
  /\ leaves' = [leaves EXCEPT ![c][id] = @ + 1]
  /\ UNCHANGED <<joins, member, open, out>>

\* ... or refuses the message: it has too many channels.
Refuse(c) ==
  /\ Write(c, Message("JOIN_FAILURE", NoChannel, NoBlob))
  /\ UNCHANGED <<joins, leaves, member, open>>

\* A JOIN is answered; who is a member already is accepted again.
Accept(c, id) ==
  /\ joins[c][id] > 0
  /\ joins' = [joins EXCEPT ![c][id] = @ - 1]
  /\ member' = [member EXCEPT ![c] = @ \cup {id}]
  /\ Write(c, Message("JOIN_OK", id, NoBlob))
  /\ UNCHANGED <<leaves, open>>

Full(c, id) ==
  /\ joins[c][id] > 0
  /\ id \notin member[c]
  /\ joins' = [joins EXCEPT ![c][id] = @ - 1]
  /\ Write(c, Message("JOIN_FAILURE", id, NoBlob))
  /\ UNCHANGED <<leaves, member, open>>

Leave(c, id) ==
  /\ leaves[c][id] > 0
  /\ leaves' = [leaves EXCEPT ![c][id] = @ - 1]
  /\ member' = [member EXCEPT ![c] = @ \ {id}]
  /\ UNCHANGED <<joins, open, out>>

\* The channel ends: nobody is a member, and pending requests are forgotten.
Forget(id) ==
  /\ \A c \in Address : id \notin member[c]
  /\ joins' = [c \in Address |-> [joins[c] EXCEPT ![id] = 0]]
  /\ leaves' = [c \in Address |-> [leaves[c] EXCEPT ![id] = 0]]
  /\ UNCHANGED <<member, open, out>>

Forward(c, id, b) ==
  /\ id \in member[c]
  /\ Write(c, Message("EGRESS", id, b))
  /\ UNCHANGED <<joins, leaves, member, open>>

\* Connections are closed, all of them when the relay stops.
HangUp(C) ==
  /\ open' = [c \in Address |-> open[c] /\ c \notin C]
  /\ UNCHANGED <<joins, leaves, member, out>>

Next ==
  \/ \E c \in Address, id \in ChannelId :
       \/ AskJoin(c, id) \/ AskLeave(c, id)
       \/ Accept(c, id) \/ Full(c, id) \/ Leave(c, id)
       \/ \E b \in Blob : Forward(c, id, b)
  \/ \E c \in Address : Refuse(c)
  \/ \E id \in ChannelId : Forget(id)
  \/ \E C \in SUBSET Address : HangUp(C)

Spec == Init /\ [][Next]_vars

=============================================================================
