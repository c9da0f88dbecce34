------------------------------ MODULE LocalConn ------------------------------
(***************************************************************************)
(* The in-process connections of network/local.go.  A connection is a pair *)
(* of LocalConns.  Each has two bounded Go channels, incomingQueue and     *)
(* outgoingQueue, and a goroutine start() that moves messages from the one *)
(* to the other.  One mutex of the LocalManager serialises connect, Send   *)
(* and Close of all connections; Send waits for room in a queue, and Close *)
(* for the goroutines, with this mutex held.  LocalManager adds the        *)
(* listeners, which need the same mutex.                                   *)
(***************************************************************************)
EXTENDS Naturals, Sequences

CONSTANTS
  Pair,            \* connections, each opened at most once
  LocalMaxBuffer,  \* capacity of the queues, 200 in the code
  MaxSent,         \* bound of the model: messages sent to an end
  None             \* nobody holds the mutex

\* The outgoing and the incoming LocalConn of a connection.
End == Pair \X {"out", "inc"}

ASSUME LocalConnAssumption ==
  /\ LocalMaxBuffer \in Nat \ {0}
  /\ MaxSent \in [End -> Nat]
  /\ None \notin [op : {"send", "close", "closePeer"}, end : End]

Peer(e) == <<e[1], IF e[2] = "out" THEN "inc" ELSE "out">>

VARIABLES
  conns,     \* LocalManager.conns
  holder,    \* the call that holds the manager's mutex
  incoming,  \* LocalConn.incomingQueue
  outgoing,  \* LocalConn.outgoingQueue
  closeCh,   \* LocalConn.closeCh has been closed
  routine,   \* where start() is
  buff,      \* the message start() has in hand
  panicked,  \* a closed Go channel has been closed again or sent on
  sent,      \* history: number of messages sent to this end
  received   \* history: the last message received at this end

queueVars == <<incoming, outgoing, buff>>
connVars == <<conns, holder, queueVars, closeCh, routine, panicked, sent, received>>

\* A message is its rank among those sent to an end; 0 is none.
Msg == Nat \ {0}

ConnTypeOK ==
  /\ conns \subseteq End
  /\ holder \in [op : {"send", "close", "closePeer"}, end : End] \cup {None}
  /\ incoming \in [End -> Seq(Msg)]
  /\ outgoing \in [End -> Seq(Msg)]
  /\ closeCh \in [End -> BOOLEAN]
  /\ routine \in [End -> {"none", "select", "forward", "confirm", "returned"}]
  /\ buff \in [End -> Msg \cup {0}]
  /\ panicked \in BOOLEAN
  /\ sent \in [End -> Nat] /\ received \in [End -> Nat]
  /\ \A e \in End : Len(incoming[e]) <= LocalMaxBuffer /\ Len(outgoing[e]) <= LocalMaxBuffer

ConnInit ==
  /\ conns = {}
  /\ holder = None
  /\ incoming = [e \in End |-> <<>>]
  /\ outgoing = [e \in End |-> <<>>]
  /\ closeCh = [e \in End |-> FALSE]
  /\ routine = [e \in End |-> "none"]
  /\ buff = [e \in End |-> 0]
  /\ panicked = FALSE
  /\ sent = [e \in End |-> 0]
  /\ received = [e \in End |-> 0]

-----------------------------------------------------------------------------
\* LocalManager.connect, to an address that is listening: two LocalConns, each
\* with its goroutine.
NewConns(p) ==
  /\ holder = None
  /\ routine[<<p, "out">>] = "none"
  /\ conns' = conns \cup ({p} \X {"out", "inc"})
  /\ routine' = [e \in End |-> IF e[1] = p THEN "select" ELSE routine[e]]
  /\ UNCHANGED <<holder, queueVars, closeCh, panicked, sent, received>>

HasRoom(q) == Len(q) < LocalMaxBuffer

\* Send takes the mutex; it returns ErrClosed at once if the remote end is gone.
SendStart(e) ==
  /\ holder = None
  /\ Peer(e) \in conns
  /\ sent[Peer(e)] < MaxSent[Peer(e)]
  /\ sent' = [sent EXCEPT ![Peer(e)] = @ + 1]
  /\ holder' = [op |-> "send", end |-> e]
  /\ UNCHANGED <<conns, queueVars, closeCh, routine, panicked, received>>

\* It waits for room in the remote incomingQueue, which must not be closed.
SendQueue(e) ==
  /\ holder = [op |-> "send", end |-> e]
  /\ HasRoom(incoming[Peer(e)])
  /\ incoming' = [incoming EXCEPT ![Peer(e)] = Append(@, sent[Peer(e)])]
  /\ panicked' = (panicked \/ routine[Peer(e)] \in {"confirm", "returned"})
  /\ holder' = None
  /\ UNCHANGED <<conns, outgoing, buff, closeCh, routine, sent, received>>

\* start().
Forward(e) ==
  /\ routine[e] = "select"
  /\ incoming[e] # <<>>
  /\ buff' = [buff EXCEPT ![e] = Head(incoming[e])]
  /\ incoming' = [incoming EXCEPT ![e] = Tail(@)]
  /\ routine' = [routine EXCEPT ![e] = "forward"]
  /\ UNCHANGED <<conns, holder, outgoing, closeCh, panicked, sent, received>>

\* Mutant: start() does not wait for room, the message is lost.
Forwarded_NoWait(e) ==
  /\ routine[e] = "forward"
  /\ outgoing' = IF HasRoom(outgoing[e]) THEN [outgoing EXCEPT ![e] = Append(@, buff[e])] ELSE outgoing
  /\ buff' = [buff EXCEPT ![e] = 0]
  /\ routine' = [routine EXCEPT ![e] = "select"]
  /\ UNCHANGED <<conns, holder, incoming, closeCh, panicked, sent, received>>

Forwarded(e) ==
  /\ routine[e] = "forward"
  /\ HasRoom(outgoing[e])
  /\ outgoing' = [outgoing EXCEPT ![e] = Append(@, buff[e])]
  /\ buff' = [buff EXCEPT ![e] = 0]
  /\ routine' = [routine EXCEPT ![e] = "select"]
  /\ UNCHANGED <<conns, holder, incoming, closeCh, panicked, sent, received>>

\* Mutant: start() returns without a word.
Confirming_Silent == "returned"

\* start() waits for closeChannels to take its confirmation.
Confirming == "confirm"

\* case <-lc.closeCh: the queues are closed; what outgoingQueue holds can still
\* be received, what incomingQueue holds is lost.
RoutineCloses(e) ==
  /\ routine[e] = "select"
  /\ closeCh[e]
  /\ routine' = [routine EXCEPT ![e] = Confirming]
  /\ UNCHANGED <<conns, holder, queueVars, closeCh, panicked, sent, received>>

\* Receive.
Receive(e) ==
  /\ outgoing[e] # <<>>
  /\ outgoing' = [outgoing EXCEPT ![e] = Tail(@)]
  /\ received' = [received EXCEPT ![e] = Head(outgoing[e])]
  /\ UNCHANGED <<conns, holder, incoming, buff, closeCh, routine, panicked, sent>>

-----------------------------------------------------------------------------
(***************************************************************************)
(* Close, with the mutex: this end is unregistered and its goroutine told  *)
(* to stop and waited for (closeChannels), then the same for the remote    *)
(* end.  It returns ErrClosed at once if this end is gone.                 *)
(***************************************************************************)

\* Mutant: the remote end stays registered.
Forgotten_Stays(e) == {}

Forgotten(e) == {e}

\* Mutant: nobody looks whether the end is still registered.
Closable_Any(e) == routine[e] # "none"

Closable(e) == e \in conns

CloseStart(e) ==
  /\ holder = None
  /\ Closable(e)
  /\ conns' = conns \ {e}
  /\ closeCh' = [closeCh EXCEPT ![e] = TRUE]
  /\ panicked' = (panicked \/ closeCh[e])
  /\ holder' = [op |-> "close", end |-> e]
  /\ UNCHANGED <<queueVars, routine, sent, received>>

ClosePeer(e) ==
  /\ holder = [op |-> "close", end |-> e]
  /\ routine[e] = "confirm"
  /\ routine' = [routine EXCEPT ![e] = "returned"]
  /\ IF Peer(e) \in conns
     THEN /\ conns' = conns \ Forgotten(Peer(e))
          /\ closeCh' = [closeCh EXCEPT ![Peer(e)] = TRUE]
          /\ panicked' = (panicked \/ closeCh[Peer(e)])
          /\ holder' = [op |-> "closePeer", end |-> e]
     ELSE /\ holder' = None
          /\ UNCHANGED <<conns, closeCh, panicked>>
  /\ UNCHANGED <<queueVars, sent, received>>

CloseReturns(e) ==
  /\ holder = [op |-> "closePeer", end |-> e]
  /\ routine[Peer(e)] = "confirm"
  /\ routine' = [routine EXCEPT ![Peer(e)] = "returned"]
  /\ holder' = None
  /\ UNCHANGED <<conns, queueVars, closeCh, panicked, sent, received>>

-----------------------------------------------------------------------------
RoutineStep(e) == Forward(e) \/ Forwarded(e) \/ RoutineCloses(e)

CallGoesOn(e) == SendQueue(e) \/ ClosePeer(e) \/ CloseReturns(e)

ConnNext == \E e \in End :
  SendStart(e) \/ CloseStart(e) \/ CallGoesOn(e) \/ RoutineStep(e) \/ Receive(e)

-----------------------------------------------------------------------------
(***************************************************************************)
(* Properties.                                                             *)
(***************************************************************************)

\* No Go channel is closed twice or sent on when it is closed, whichever ends
\* are closed and sent to at the same time (send, close, closeChannels, start).
NoPanic == ~panicked

\* When nobody is in the middle of a call, the two ends of a connection are both
\* registered with their goroutines running, or neither is: after Close at either
\* end every Send at both returns ErrClosed.
EndsTogether == holder = None => \A e \in End :
  /\ e \in conns <=> Peer(e) \in conns
  /\ e \in conns <=> routine[e] \in {"select", "forward"}

\* The messages sent to an end that have been put into its incomingQueue.
Queued(e) == IF holder = [op |-> "send", end |-> Peer(e)] THEN sent[e] - 1 ELSE sent[e]

InHand(e) == IF buff[e] = 0 THEN <<>> ELSE <<buff[e]>>

\* Those between incomingQueue and Receive, the next one first.
InTransit(e) == outgoing[e] \o InHand(e) \o incoming[e]

\* The messages after the r-th, up to the n-th.
Following(r, n) == [i \in 1..(n - r) |-> r + i]

\* start() has closed the queues of this end.
QueuesClosed(e) == routine[e] \in {"confirm", "returned"}

\* What Receive still returns at an end, now or later.
Receivable(e) == IF QueuesClosed(e) THEN outgoing[e] ELSE InTransit(e)

\* How many messages are left in a closed incomingQueue: Send has returned without an
\* error, and nobody will ever receive them.
Abandoned(e) == IF QueuesClosed(e) THEN Len(incoming[e]) ELSE 0

\* No message is doubled or overtaken, and none is lost as long as the goroutine of the
\* end runs: what Receive has returned and will return are all messages that Sends have
\* queued.  When the end is closed, whichever end calls Close, a suffix of them is lost
\* and no other: what is left in incomingQueue (send, start, closeChannels, Receive).
MessagesInOrder == \A e \in End :
  Receivable(e) = Following(received[e], Queued(e) - Abandoned(e))

=============================================================================
