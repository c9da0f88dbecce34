--------------------------- MODULE ReliableStream ---------------------------
(***************************************************************************)
(* reliableStream of client/stream.go: a stop-and-wait protocol with        *)
(* acknowledgements and retransmissions between two peers, in both          *)
(* directions at once, and the loop of client/router.go that reads it.      *)
(*                                                                         *)
(* Each peer runs three goroutines: the caller of send (one at a time,      *)
(* sendMut), stateMachine, and the reader processStream.                    *)
(*                                                                         *)
(* The stream below is external.  It carries packets in order, as the       *)
(* relay does for one sender, may lose any of them, and may fail.           *)
(***************************************************************************)
EXTENDS Naturals, Sequences

CONSTANTS
  Initiator, Responder,    \* the two peers
  SeqMod,                  \* sequence numbers are modulo SeqMod, 2^32 in the code
  ReliableMessageBuffer,   \* capacity of dataCh and ackCh, 100 in the code
  MaxIncorrectMessages,    \* budget of send, 100 in the code
  MaxSends,                \* bound of the model: calls of send by each peer
  MaxWire,                 \* bound of the model: packets under way to one peer
  None                     \* no packet

ASSUME StreamAssumption ==
  /\ Initiator # Responder
  /\ SeqMod \in Nat \ {0}
  /\ ReliableMessageBuffer \in Nat \ {0}
  /\ MaxIncorrectMessages \in Nat \ {0}
  /\ MaxWire \in Nat \ {0}
  /\ None \notin [type : {"DATA", "ACK"}, seq : 0..(SeqMod - 1), data : Nat]

Peer == {Initiator, Responder}

ASSUME BoundAssumption == MaxSends \in [Peer -> Nat]

Other(p) == IF p = Initiator THEN Responder ELSE Initiator

(***************************************************************************)
(* The payload of a packet is the rank of the message among those of its   *)
(* sender: its sequence number before reduction modulo SeqMod.              *)
(***************************************************************************)
Sequence == 0..(SeqMod - 1)

Packet == [type : {"DATA", "ACK"}, seq : Sequence, data : Nat]

VARIABLES
  sequence,   \* reliableStream.sequence
  sending,    \* a call of send is waiting for its acknowledgement
  tries,      \* i, the loop counter of send
  ackCh,      \* reliableStream.ackCh
  dataCh,     \* reliableStream.dataCh
  machine,    \* where stateMachine is
  held,       \* the packet stateMachine is handling
  lastAckd,   \* local variable of stateMachine
  failed,     \* errCh is closed
  done,       \* done is closed
  reading,    \* processStream has not returned
  wire,       \* packets under way to this peer
  count,      \* history: number of calls of send
  confirmed,  \* history: payloads whose send returned nil
  queued,     \* history: payloads this peer's stateMachine has put into dataCh
  received    \* history: payloads this peer's reader has received

sendVars == <<sequence, sending, tries, count, confirmed>>
machineVars == <<machine, held, lastAckd, queued>>
readVars == <<reading, received>>
vars == <<sendVars, machineVars, readVars, ackCh, dataCh, failed, done, wire>>

\* What one timeout costs: i += ceil(MaxIncorrectMessages / 10), then i++.
RetryCost == ((MaxIncorrectMessages + 9) \div 10) + 1

TypeOK ==
  /\ sequence \in [Peer -> Sequence]
  /\ sending \in [Peer -> BOOLEAN]
  /\ tries \in [Peer -> 0..(MaxIncorrectMessages + RetryCost)]
  /\ ackCh \in [Peer -> Seq(Sequence)]
  /\ dataCh \in [Peer -> Seq(Nat)]
  /\ machine \in [Peer -> {"receive", "acked", "ack", "returned"}]
  /\ held \in [Peer -> Packet \cup {None}]
  /\ lastAckd \in [Peer -> Sequence]
  /\ failed \in [Peer -> BOOLEAN]
  /\ done \in [Peer -> BOOLEAN]
  /\ reading \in [Peer -> BOOLEAN]
  /\ wire \in [Peer -> Seq(Packet)]
  /\ count \in [Peer -> Nat]
  /\ confirmed \in [Peer -> SUBSET Nat]
  /\ queued \in [Peer -> Seq(Nat)]
  /\ received \in [Peer -> Seq(Nat)]
  /\ \A p \in Peer : /\ machine[p] = "acked" => held[p] # None /\ held[p].type = "DATA"
                     /\ machine[p] = "ack" => held[p] # None /\ held[p].type = "ACK"

Init ==
  /\ sequence = [p \in Peer |-> 0]
  /\ sending = [p \in Peer |-> FALSE]
  /\ tries = [p \in Peer |-> 0]
  /\ ackCh = [p \in Peer |-> <<>>]
  /\ dataCh = [p \in Peer |-> <<>>]
  /\ machine = [p \in Peer |-> "receive"]
  /\ held = [p \in Peer |-> None]
  /\ lastAckd = [p \in Peer |-> 0]
  /\ failed = [p \in Peer |-> FALSE]
  /\ done = [p \in Peer |-> FALSE]
  /\ reading = [p \in Peer |-> TRUE]
  /\ wire = [p \in Peer |-> <<>>]
  /\ count = [p \in Peer |-> 0]
  /\ confirmed = [p \in Peer |-> {}]
  /\ queued = [p \in Peer |-> <<>>]
  /\ received = [p \in Peer |-> <<>>]

-----------------------------------------------------------------------------
Data(p) == [type |-> "DATA", seq |-> sequence[p], data |-> count[p]]

Ack(seq) == [type |-> "ACK", seq |-> seq, data |-> 0]

\* stream.send(pkt) towards q without an error: the packet gets under way, or
\* is lost.
Transmit(q, pkt) ==
  \/ UNCHANGED wire
  \/ Len(wire[q]) < MaxWire /\ wire' = [wire EXCEPT ![q] = Append(@, pkt)]

\* setError: the first error closes errCh.
SetError(p) == failed' = [failed EXCEPT ![p] = TRUE]

-----------------------------------------------------------------------------
(***************************************************************************)
(* send.                                                                   *)
(***************************************************************************)

\* A new sequence number, and the packet goes out for the first time.
SendFirst(p) ==
  /\ ~sending[p]
  /\ count[p] < MaxSends[p]
  /\ sequence' = [sequence EXCEPT ![p] = (@ + 1) % SeqMod]
  /\ count' = [count EXCEPT ![p] = @ + 1]
  /\ \/ /\ Transmit(Other(p), Data(p)')
        /\ sending' = [sending EXCEPT ![p] = TRUE]
        /\ tries' = [tries EXCEPT ![p] = 0]
        /\ UNCHANGED failed
     \/ SetError(p) /\ UNCHANGED <<wire, sending, tries>>
  /\ UNCHANGED <<confirmed, machineVars, readVars, ackCh, dataCh, done>>

\* send returns.
SendReturn(p) == sending' = [sending EXCEPT ![p] = FALSE]

Waiting(p) == sending[p] /\ tries[p] < MaxIncorrectMessages

\* Mutant: any acknowledgement will do.
AckMatches_Any(p, ack) == TRUE

AckMatches(p, ack) == ack = sequence[p]

\* case ack := <-r.ackCh: a stale acknowledgement costs one try.
SendAck(p) ==
  /\ Waiting(p)
  /\ ackCh[p] # <<>>
  /\ ackCh' = [ackCh EXCEPT ![p] = Tail(@)]
  /\ IF AckMatches(p, Head(ackCh[p]))
     THEN /\ SendReturn(p)
          /\ confirmed' = [confirmed EXCEPT ![p] = @ \cup {count[p]}]
          /\ UNCHANGED tries
     ELSE /\ tries' = [tries EXCEPT ![p] = @ + 1]
          /\ UNCHANGED <<sending, confirmed>>
  /\ UNCHANGED <<sequence, count, machineVars, readVars, dataCh, failed, done, wire>>

\* case <-r.errCh and case <-r.done.
SendAbort(p) ==
  /\ Waiting(p)
  /\ failed[p] \/ done[p]
  /\ SendReturn(p)
  /\ UNCHANGED <<sequence, count, tries, confirmed, machineVars, readVars, ackCh, dataCh,
                 failed, done, wire>>

\* Mutant: a retransmission is free.
AfterRetry_Free(i) == i

AfterRetry(i) == i + RetryCost

\* case <-time.After: the same packet goes out again.
SendRetry(p) ==
  /\ Waiting(p)
  /\ \/ /\ Transmit(Other(p), Data(p))
        /\ tries' = [tries EXCEPT ![p] = AfterRetry(@)]
        /\ UNCHANGED <<sending, failed>>
     \/ SetError(p) /\ SendReturn(p) /\ UNCHANGED <<tries, wire>>
  /\ UNCHANGED <<sequence, count, confirmed, machineVars, readVars, ackCh, dataCh, done>>

\* The budget is spent: ErrTimeout.
SendTimeout(p) ==
  /\ sending[p]
  /\ tries[p] >= MaxIncorrectMessages
  /\ SendReturn(p)
  /\ UNCHANGED <<sequence, count, tries, confirmed, machineVars, readVars, ackCh, dataCh,
                 failed, done, wire>>

-----------------------------------------------------------------------------
(***************************************************************************)
(* stateMachine.                                                           *)
(***************************************************************************)

\* A packet of data: it is acknowledged before anything else is done with it.
MachineData(p) ==
  /\ machine[p] = "receive"
  /\ wire[p] # <<>> /\ Head(wire[p]).type = "DATA"
  /\ LET pkt == Head(wire[p])
         rest == [wire EXCEPT ![p] = Tail(@)]
     IN  \/ /\ \/ wire' = rest
               \/ /\ Len(wire[Other(p)]) < MaxWire
                  /\ wire' = [rest EXCEPT ![Other(p)] = Append(@, Ack(pkt.seq))]
            /\ machine' = [machine EXCEPT ![p] = "acked"]
            /\ held' = [held EXCEPT ![p] = pkt]
            /\ UNCHANGED failed
         \/ /\ wire' = rest
            /\ machine' = [machine EXCEPT ![p] = "returned"]
            /\ SetError(p)
            /\ UNCHANGED held
  /\ UNCHANGED <<lastAckd, queued, sendVars, readVars, ackCh, dataCh, done>>

\* Mutant: the last packet is taken for new when it comes again.
Fresh_LastAgain(p, pkt) == pkt.seq >= lastAckd[p]

Fresh(p, pkt) == pkt.seq > lastAckd[p]

Release(p) ==
  /\ machine' = [machine EXCEPT ![p] = "receive"]
  /\ held' = [held EXCEPT ![p] = None]

\* A packet that is not newer than the last one is dropped.
MachineDrop(p) ==
  /\ machine[p] = "acked"
  /\ ~Fresh(p, held[p])
  /\ Release(p)
  /\ UNCHANGED <<lastAckd, queued, sendVars, readVars, ackCh, dataCh, failed, done, wire>>

HasRoom(ch) == Len(ch) < ReliableMessageBuffer

\* Mutant: lastAckd is never brought up to date.
MachineDeliver_Forgets(p) ==
  /\ machine[p] = "acked"
  /\ Fresh(p, held[p])
  /\ HasRoom(dataCh[p])
  /\ dataCh' = [dataCh EXCEPT ![p] = Append(@, held[p].data)]
  /\ queued' = [queued EXCEPT ![p] = Append(@, held[p].data)]
  /\ Release(p)
  /\ UNCHANGED <<lastAckd, sendVars, readVars, ackCh, failed, done, wire>>

\* Mutant: a packet that finds dataCh full is dropped, as a non-blocking send would.
MachineDeliver_Drops(p) ==
  /\ machine[p] = "acked"
  /\ Fresh(p, held[p])
  /\ lastAckd' = [lastAckd EXCEPT ![p] = held[p].seq]
  /\ IF HasRoom(dataCh[p])
     THEN /\ dataCh' = [dataCh EXCEPT ![p] = Append(@, held[p].data)]
          /\ queued' = [queued EXCEPT ![p] = Append(@, held[p].data)]
     ELSE UNCHANGED <<dataCh, queued>>
  /\ Release(p)
  /\ UNCHANGED <<sendVars, readVars, ackCh, failed, done, wire>>

\* A new one goes to the reader, as soon as dataCh has room.
MachineDeliver(p) ==
  /\ machine[p] = "acked"
  /\ Fresh(p, held[p])
  /\ HasRoom(dataCh[p])
  /\ lastAckd' = [lastAckd EXCEPT ![p] = held[p].seq]
  /\ dataCh' = [dataCh EXCEPT ![p] = Append(@, held[p].data)]
  /\ queued' = [queued EXCEPT ![p] = Append(@, held[p].data)]
  /\ Release(p)
  /\ UNCHANGED <<sendVars, readVars, ackCh, failed, done, wire>>

\* An acknowledgement...
MachineAck(p) ==
  /\ machine[p] = "receive"
  /\ wire[p] # <<>> /\ Head(wire[p]).type = "ACK"
  /\ machine' = [machine EXCEPT ![p] = "ack"]
  /\ held' = [held EXCEPT ![p] = Head(wire[p])]
  /\ wire' = [wire EXCEPT ![p] = Tail(@)]
  /\ UNCHANGED <<lastAckd, queued, sendVars, readVars, ackCh, dataCh, failed, done>>

\* ... goes to send, as soon as ackCh has room.
MachineAckDeliver(p) ==
  /\ machine[p] = "ack"
  /\ HasRoom(ackCh[p])
  /\ ackCh' = [ackCh EXCEPT ![p] = Append(@, held[p].seq)]
  /\ Release(p)
  /\ UNCHANGED <<lastAckd, queued, sendVars, readVars, dataCh, failed, done, wire>>

\* stream.receive returns an error, or what cannot be decoded.
MachineFails(p) ==
  /\ machine[p] = "receive"
  /\ machine' = [machine EXCEPT ![p] = "returned"]
  /\ SetError(p)
  /\ UNCHANGED <<held, lastAckd, queued, sendVars, readVars, ackCh, dataCh, done, wire>>

-----------------------------------------------------------------------------
\* receive returns data to processStream.
Receive(p) ==
  /\ reading[p]
  /\ dataCh[p] # <<>>
  /\ received' = [received EXCEPT ![p] = Append(@, Head(dataCh[p]))]
  /\ dataCh' = [dataCh EXCEPT ![p] = Tail(@)]
  /\ UNCHANGED <<reading, sendVars, machineVars, ackCh, failed, done, wire>>

\* receive returns an error, for which processStream returns: the error of the
\* stream or ErrClosed, even if there is data, or ErrTimeout when there is none.
ReceiveFails(p) ==
  /\ reading[p]
  /\ failed[p] \/ done[p] \/ dataCh[p] = <<>>
  /\ reading' = [reading EXCEPT ![p] = FALSE]
  /\ UNCHANGED <<received, sendVars, machineVars, ackCh, dataCh, failed, done, wire>>

\* close, called once: a second call closes a closed Go channel and panics.
Close(p) ==
  /\ ~done[p]
  /\ done' = [done EXCEPT ![p] = TRUE]
  /\ UNCHANGED <<sendVars, machineVars, readVars, ackCh, dataCh, failed, wire>>

-----------------------------------------------------------------------------
SendLoop(p) == SendAck(p) \/ SendAbort(p) \/ SendRetry(p) \/ SendTimeout(p)

MachineDequeues(p) == MachineDrop(p) \/ MachineDeliver(p) \/ MachineAckDeliver(p)

Next == \E p \in Peer :
  \/ SendFirst(p)
  \/ SendLoop(p)
  \/ MachineData(p)
  \/ MachineAck(p)
  \/ MachineDequeues(p)
  \/ MachineFails(p)
  \/ Receive(p)
  \/ ReceiveFails(p)
  \/ Close(p)

Spec == Init /\ [][Next]_vars

(***************************************************************************)
(* Fairness: a goroutine that can go on goes on, and the timer of send      *)
(* expires.  Nobody has to send or to close, no packet has to arrive, and   *)
(* nothing has to fail.                                                     *)
(***************************************************************************)
FairSpec ==
  /\ Spec
  /\ \A p \in Peer : /\ WF_vars(SendLoop(p))
                     /\ WF_vars(MachineDequeues(p))
                     /\ WF_vars(Receive(p))

-----------------------------------------------------------------------------
(***************************************************************************)
(* Properties.                                                             *)
(***************************************************************************)

\* The peers do not send so much that sequence numbers start again.
NoWrap == \A p \in Peer : MaxSends[p] < SeqMod

InOrder(s) == \A i, j \in DOMAIN s : i < j => s[i] < s[j]

Occurs(x, s) == \E i \in DOMAIN s : s[i] = x

\* What the peer's machine has accepted of the messages of p: what it has
\* queued for its reader and the new packet it holds, already acknowledged.
Accepted(p) ==
  LET q == Other(p)
  IN  IF machine[q] = "acked" /\ Fresh(q, held[q])
      THEN Append(queued[q], held[q].data)
      ELSE queued[q]

\* The messages of a peer reach the reader of the other end in the order sent
\* and none twice, whatever is lost, retransmitted, given up or blocked on a full
\* Go channel on the way (send, stateMachine, receive).
ReceivedInOrder == \A p \in Peer : InOrder(received[p])

\* When send returns nil the other end has accepted this very message: neither
\* a late acknowledgement of an earlier message nor one of a duplicate is taken
\* for it (send, stateMachine).
ConfirmedAccepted == \A p \in Peer : \A n \in confirmed[p] : Occurs(n, Accepted(p))

Delivery == INSTANCE OrderedDelivery WITH
  submitted <- count, accepted <- [p \in Peer |-> Accepted(p)], confirmed <- confirmed

\* The two directions of the stream are two ordered deliveries (reliableStream:
\* "provides super basic properties like ordering and reliability").
DeliverySpec == Delivery!Spec

\* A call of send returns, whatever is lost (the budget of its loop).
SendReturns == \A p \in Peer : sending[p] ~> ~sending[p]

\* A confirmed message reaches the reader of the other end, unless the other
\* end's stream has failed, is closed, or its reader has given up.
ConfirmedReceived == \A p \in Peer : \A n \in 1..MaxSends[p] :
  n \in confirmed[p] ~> \/ Occurs(n, received[Other(p)])
                        \/ failed[Other(p)] \/ done[Other(p)] \/ ~reading[Other(p)]

=============================================================================
