------------------------ MODULE ReliableStreamProofs ------------------------
(***************************************************************************)
(* Theorems about ReliableStream, for every capacity of its Go channels,   *)
(* every budget of send and every number of messages that the sequence     *)
(* numbers can tell apart.                                                 *)
(***************************************************************************)
EXTENDS ReliableStream, SequenceTheorems, TLAPS

-----------------------------------------------------------------------------
(***************************************************************************)
(* Types.                                                                  *)
(***************************************************************************)

\* The other peer, and what a timeout costs.
LEMMA PeerFacts ==
  /\ \A p \in Peer : Other(p) \in Peer /\ Other(p) # p /\ Other(Other(p)) = p
  /\ \A p, q \in Peer : q # p => q = Other(p)
  /\ RetryCost \in Nat /\ MaxIncorrectMessages \in Nat
  BY StreamAssumption DEF Peer, Other, RetryCost

\* Both kinds of packets are packets.
LEMMA PacketTypes ==
  ASSUME NEW s \in Sequence, NEW n \in Nat
  PROVE  /\ [type |-> "DATA", seq |-> s, data |-> n] \in Packet
         /\ Ack(s) \in Packet
  BY DEF Packet, Ack

\* What stream.send does keeps the type of the medium.
LEMMA TransmitType ==
  ASSUME wire \in [Peer -> Seq(Packet)], NEW q \in Peer, NEW pkt \in Packet,
         Transmit(q, pkt)
  PROVE  wire' \in [Peer -> Seq(Packet)]
  BY DEF Transmit

\* The head and the tail of a non-empty queue.
LEMMA HeadTail ==
  ASSUME NEW S, NEW s \in Seq(S), s # <<>>
  PROVE  Head(s) \in S /\ Tail(s) \in Seq(S)
  OBVIOUS

Channels ==
  /\ ackCh \in [Peer -> Seq(Sequence)]
  /\ dataCh \in [Peer -> Seq(Nat)]
  /\ wire \in [Peer -> Seq(Packet)]

SendTypes ==
  /\ sequence \in [Peer -> Sequence]
  /\ sending \in [Peer -> BOOLEAN]
  /\ tries \in [Peer -> 0..(MaxIncorrectMessages + RetryCost)]
  /\ count \in [Peer -> Nat]
  /\ confirmed \in [Peer -> SUBSET Nat]

MachineTypes ==
  /\ machine \in [Peer -> {"receive", "acked", "ack", "returned"}]
  /\ held \in [Peer -> Packet \cup {None}]
  /\ lastAckd \in [Peer -> Sequence]
  /\ queued \in [Peer -> Seq(Nat)]
  /\ \A p \in Peer : /\ machine[p] = "acked" => held[p] # None /\ held[p].type = "DATA"
                     /\ machine[p] = "ack" => held[p] # None /\ held[p].type = "ACK"

OtherTypes ==
  /\ failed \in [Peer -> BOOLEAN]
  /\ done \in [Peer -> BOOLEAN]
  /\ reading \in [Peer -> BOOLEAN]
  /\ received \in [Peer -> Seq(Nat)]

\* The type invariant by groups of variables.
LEMMA TypeGroups == TypeOK <=> Channels /\ SendTypes /\ MachineTypes /\ OtherTypes
  BY DEF TypeOK, Channels, SendTypes, MachineTypes, OtherTypes

\* The goroutine that calls send keeps the types.
LEMMA SendNextType ==
  ASSUME Channels, SendTypes, MachineTypes, OtherTypes, NEW p \in Peer,
         SendFirst(p) \/ SendLoop(p)
  PROVE  Channels' /\ SendTypes' /\ MachineTypes' /\ OtherTypes'
<1> USE DEF SendTypes
<1>1. MachineTypes'
  BY DEF MachineTypes, SendFirst, SendLoop, SendAck, SendAbort, SendRetry, SendTimeout, machineVars
<1>2. OtherTypes'
  BY DEF OtherTypes, SendFirst, SendLoop, SendAck, SendAbort, SendRetry, SendTimeout, readVars,
     SetError
<1>3. CASE SendFirst(p)
  <2>1. sequence' \in [Peer -> Sequence] /\ count' \in [Peer -> Nat]
    BY <1>3, StreamAssumption DEF SendFirst, Sequence
  <2>2. Data(p)' \in Packet
    BY <2>1, PacketTypes DEF Data
  <2>3. wire' \in [Peer -> Seq(Packet)]
    BY <1>3, <2>2, TransmitType, PeerFacts DEF SendFirst, Channels
  <2>4. tries' \in [Peer -> 0..(MaxIncorrectMessages + RetryCost)]
    <3>1. 0 \in 0..(MaxIncorrectMessages + RetryCost)
      BY PeerFacts
    <3> QED
      BY <1>3, <3>1 DEF SendFirst
  <2>5. sending' \in [Peer -> BOOLEAN]
    BY <1>3 DEF SendFirst
  <2>6. SendTypes'
    BY <1>3, <2>1, <2>4, <2>5 DEF SendFirst
  <2> QED
    BY <1>1, <1>2, <1>3, <2>3, <2>6 DEF SendFirst, Channels
<1>4. CASE SendAck(p)
  <2>1. ackCh' \in [Peer -> Seq(Sequence)]
    BY <1>4, HeadTail DEF SendAck, Channels
  <2>2. tries[p] + 1 \in 0..(MaxIncorrectMessages + RetryCost)
    BY <1>4, PeerFacts DEF SendAck, Waiting
  <2>3. tries' \in [Peer -> 0..(MaxIncorrectMessages + RetryCost)]
    BY <1>4, <2>2 DEF SendAck
  <2>4. sending' \in [Peer -> BOOLEAN]
    BY <1>4 DEF SendAck, SendReturn
  <2>5. confirmed' \in [Peer -> SUBSET Nat]
    <3>1. confirmed[p] \cup {count[p]} \in SUBSET Nat
      OBVIOUS
    <3>2. confirmed' = confirmed \/ confirmed' = [confirmed EXCEPT ![p] = confirmed[p] \cup {count[p]}]
      BY <1>4 DEF SendAck
    <3> QED
      BY <3>1, <3>2
  <2> QED
    BY <1>1, <1>2, <1>4, <2>1, <2>3, <2>4, <2>5 DEF SendAck, Channels
<1>5. CASE SendAbort(p)
  BY <1>1, <1>2, <1>5 DEF SendAbort, SendReturn, Channels
<1>6. CASE SendRetry(p)
  <2>1. Data(p) \in Packet
    BY PacketTypes DEF Data
  <2>2. wire' \in [Peer -> Seq(Packet)]
    BY <1>6, <2>1, TransmitType, PeerFacts DEF SendRetry, Channels
  <2>3. AfterRetry(tries[p]) \in 0..(MaxIncorrectMessages + RetryCost)
    BY <1>6, PeerFacts DEF SendRetry, Waiting, AfterRetry
  <2>4. tries' \in [Peer -> 0..(MaxIncorrectMessages + RetryCost)]
    BY <1>6, <2>3 DEF SendRetry
  <2> QED
    BY <1>1, <1>2, <1>6, <2>2, <2>4 DEF SendRetry, SendReturn, Channels
<1>7. CASE SendTimeout(p)
  BY <1>1, <1>2, <1>7 DEF SendTimeout, SendReturn, Channels
<1> QED
  BY <1>3, <1>4, <1>5, <1>6, <1>7 DEF SendLoop

Machine(p) == MachineData(p) \/ MachineAck(p) \/ MachineDequeues(p) \/ MachineFails(p)

\* stateMachine keeps the types.
LEMMA MachineNextType ==
  ASSUME Channels, SendTypes, MachineTypes, OtherTypes, NEW p \in Peer, Machine(p)
  PROVE  Channels' /\ SendTypes' /\ MachineTypes' /\ OtherTypes'
<1> USE DEF Machine, MachineDequeues
<1>0. None \notin Packet
  BY StreamAssumption DEF Packet, Sequence
<1>1. SendTypes'
  BY DEF SendTypes, MachineData, MachineAck, MachineDrop, MachineDeliver, MachineAckDeliver,
     MachineFails, sendVars
<1>2. OtherTypes'
  BY DEF OtherTypes, MachineData, MachineAck, MachineDrop, MachineDeliver, MachineAckDeliver,
     MachineFails, readVars, SetError
<1>3. ASSUME wire[p] # <<>>
      PROVE  Head(wire[p]) \in Packet /\ Tail(wire[p]) \in Seq(Packet)
  BY <1>3, HeadTail DEF Channels
<1>4. CASE MachineData(p)
  <2> DEFINE pkt == Head(wire[p])
  <2>1. pkt \in Packet /\ Tail(wire[p]) \in Seq(Packet)
    BY <1>3, <1>4 DEF MachineData
  <2>2. Ack(pkt.seq) \in Packet
    BY <2>1, PacketTypes DEF Packet
  <2> DEFINE rest == [wire EXCEPT ![p] = Tail(@)]
  <2>3. rest \in [Peer -> Seq(Packet)]
    BY <2>1 DEF Channels
  <2>4. wire' \in [Peer -> Seq(Packet)]
    <3>1. \/ wire' = rest
          \/ wire' = [rest EXCEPT ![Other(p)] = Append(@, Ack(pkt.seq))]
      BY <1>4 DEF MachineData
    <3>2. [rest EXCEPT ![Other(p)] = Append(@, Ack(pkt.seq))] \in [Peer -> Seq(Packet)]
      <4> HIDE DEF rest, pkt
      <4> QED
        BY <2>2, <2>3, PeerFacts
    <3> QED
      BY <2>3, <3>1, <3>2
  <2>5. MachineTypes'
    BY <1>0, <1>4, <2>1, ZenonT(60) DEF MachineTypes, MachineData
  <2> QED
    BY <1>1, <1>2, <1>4, <2>4, <2>5 DEF MachineData, Channels
<1>5. CASE MachineAck(p)
  <2>1. MachineTypes'
    BY <1>0, <1>3, <1>5 DEF MachineTypes, MachineAck
  <2>2. wire' \in [Peer -> Seq(Packet)]
    BY <1>3, <1>5 DEF Channels, MachineAck
  <2> QED
    BY <1>1, <1>2, <1>5, <2>1, <2>2 DEF MachineAck, Channels
<1>6. CASE MachineDrop(p)
  BY <1>1, <1>2, <1>6 DEF MachineDrop, Release, MachineTypes, Channels
<1>7. CASE MachineDeliver(p)
  <2>1. held[p].seq \in Sequence /\ held[p].data \in Nat
    BY <1>7 DEF MachineDeliver, MachineTypes, Packet
  <2> QED
    BY <1>1, <1>2, <1>7, <2>1 DEF MachineDeliver, Release, MachineTypes, Channels
<1>8. CASE MachineAckDeliver(p)
  <2>1. held[p].seq \in Sequence
    BY <1>8 DEF MachineAckDeliver, MachineTypes, Packet
  <2> QED
    BY <1>1, <1>2, <1>8, <2>1 DEF MachineAckDeliver, Release, MachineTypes, Channels
<1>9. CASE MachineFails(p)
  BY <1>1, <1>2, <1>9 DEF MachineFails, MachineTypes, Channels
<1> QED
  BY <1>4, <1>5, <1>6, <1>7, <1>8, <1>9

\* Every step keeps the types.
LEMMA TypeNext == TypeOK /\ [Next]_vars => TypeOK'
<1> SUFFICES ASSUME Channels, SendTypes, MachineTypes, OtherTypes, [Next]_vars
             PROVE  Channels' /\ SendTypes' /\ MachineTypes' /\ OtherTypes'
  BY TypeGroups DEF TypeOK, Channels, SendTypes, MachineTypes, OtherTypes
<1>1. ASSUME NEW p \in Peer, Receive(p) PROVE Channels' /\ OtherTypes'
  <2>1. Head(dataCh[p]) \in Nat /\ Tail(dataCh[p]) \in Seq(Nat)
    BY <1>1, HeadTail DEF Receive, Channels
  <2> QED
    BY <1>1, <2>1 DEF Receive, Channels, OtherTypes
<1>2. ASSUME NEW p \in Peer, ReceiveFails(p) \/ Close(p) PROVE Channels' /\ OtherTypes'
  BY <1>2 DEF ReceiveFails, Close, Channels, OtherTypes, readVars
<1>3. ASSUME NEW p \in Peer, Receive(p) \/ ReceiveFails(p) \/ Close(p)
      PROVE  SendTypes' /\ MachineTypes'
  BY <1>3 DEF Receive, ReceiveFails, Close, SendTypes, MachineTypes, sendVars, machineVars
<1>4. CASE UNCHANGED vars
  BY <1>4 DEF vars, sendVars, machineVars, readVars, Channels, SendTypes, MachineTypes, OtherTypes
<1> QED
  BY <1>1, <1>2, <1>3, <1>4, SendNextType, MachineNextType DEF Next, Machine

\* The state of the stream keeps its types for ever.
THEOREM TypeCorrect == Spec => []TypeOK
<1>1. Init => TypeOK
  BY StreamAssumption, PeerFacts DEF Init, TypeOK, Sequence
<1> QED
  BY <1>1, TypeNext, PTL DEF Spec

-----------------------------------------------------------------------------
(***************************************************************************)
(* The invariant, as long as sequence numbers do not start again.  A data  *)
(* packet is numbered like the message it carries.  An acknowledgement of  *)
(* the message being sent is somewhere on its way only if the other end    *)
(* has accepted this message; older ones are stale and harmless.           *)
(***************************************************************************)

Numbered == \A p \in Peer :
  /\ sequence[p] = count[p] /\ count[p] <= MaxSends[p]
  /\ sending[p] => count[p] > 0

DataOk(p, pkt) == pkt.seq = pkt.data /\ pkt.data \in 1..count[p]

AckOk(p, k) ==
  /\ k \in 1..count[p]
  /\ k = count[p] => Occurs(k, Accepted(p))

DataInv == \A p \in Peer :
  /\ \A i \in DOMAIN wire[Other(p)] :
       wire[Other(p)][i].type = "DATA" => DataOk(p, wire[Other(p)][i])
  /\ machine[Other(p)] = "acked" => DataOk(p, held[Other(p)])

AckInv == \A p \in Peer :
  /\ \A i \in DOMAIN wire[p] : wire[p][i].type = "ACK" => AckOk(p, wire[p][i].seq)
  /\ machine[p] = "ack" => AckOk(p, held[p].seq)
  /\ \A i \in DOMAIN ackCh[p] : AckOk(p, ackCh[p][i])

QueueInv == \A p \in Peer :
  /\ lastAckd[p] <= count[Other(p)]
  /\ \A i \in DOMAIN queued[p] : queued[p][i] \in 1..lastAckd[p]
  /\ lastAckd[p] # 0 => Occurs(lastAckd[p], queued[p])
  /\ InOrder(queued[p])

StreamInv == Numbered /\ DataInv /\ AckInv /\ QueueInv /\ ConfirmedAccepted

\* The number of messages grows by send only, one at a time, and stays equal to
\* the sequence number.
LEMMA CountSteps ==
  ASSUME NoWrap, TypeOK, Numbered, [Next]_vars, NEW p \in Peer
  PROVE  /\ sequence'[p] = count'[p] /\ count'[p] <= MaxSends[p]
         /\ count'[p] = count[p] \/ (SendFirst(p) /\ count'[p] = count[p] + 1)
<1>1. ASSUME NEW q \in Peer, SendFirst(q)
      PROVE  /\ sequence'[p] = count'[p] /\ count'[p] <= MaxSends[p]
             /\ count'[p] = count[p] \/ (q = p /\ count'[p] = count[p] + 1)
  <2>1. CASE q # p
    BY <1>1, <2>1 DEF SendFirst, TypeOK, Numbered
  <2>2. CASE q = p
    <3>1. count'[p] = count[p] + 1 /\ sequence'[p] = (count[p] + 1) % SeqMod
      BY <1>1, <2>2 DEF SendFirst, TypeOK, Numbered
    <3>2. /\ count[p] \in Nat /\ MaxSends[p] \in Nat /\ SeqMod \in Nat
          /\ count[p] < MaxSends[p] /\ MaxSends[p] < SeqMod
      BY <1>1, <2>2, StreamAssumption, BoundAssumption DEF SendFirst, TypeOK, NoWrap
    <3>3. (count[p] + 1) % SeqMod = count[p] + 1
      BY <3>2
    <3> QED
      BY <2>2, <3>1, <3>2, <3>3
  <2> QED
    BY <2>1, <2>2
<1>2. CASE UNCHANGED <<sequence, count>>
  BY <1>2 DEF Numbered
<1> QED
  BY <1>1, <1>2 DEF Next, SendLoop, SendAck, SendAbort, SendRetry, SendTimeout, MachineData,
     MachineAck, MachineDequeues, MachineDrop, MachineDeliver, MachineAckDeliver, MachineFails,
     Receive, ReceiveFails, Close, vars, sendVars

\* Every step keeps the numbering.
LEMMA NumberedNext ==
  ASSUME NoWrap, TypeOK, Numbered, [Next]_vars
  PROVE  Numbered'
<1> SUFFICES ASSUME NEW p \in Peer, sending'[p] PROVE count'[p] > 0
  BY CountSteps DEF Numbered
<1>1. count[p] \in Nat /\ (count'[p] = count[p] \/ count'[p] = count[p] + 1)
  BY CountSteps DEF TypeOK
<1>2. SendFirst(p) => count'[p] = count[p] + 1
  BY DEF SendFirst, TypeOK
<1>3. sending[p] \/ SendFirst(p)
  <2>1. ASSUME NEW r \in Peer, r # p, SendFirst(r) PROVE sending'[p] = sending[p]
    <3>1. sending' = sending \/ sending' = [sending EXCEPT ![r] = TRUE]
      BY <2>1 DEF SendFirst
    <3>2. sending \in [Peer -> BOOLEAN]
      BY DEF TypeOK
    <3> QED
      BY <2>1, <3>1, <3>2
  <2>2. ASSUME NEW r \in Peer, SendLoop(r) PROVE sending'[p] => sending[p]
    BY <2>2 DEF SendLoop, SendAck, SendAbort, SendRetry, SendTimeout, SendReturn, TypeOK
  <2>3. \/ UNCHANGED sending
        \/ \E r \in Peer : SendFirst(r) \/ SendLoop(r)
    BY DEF Next, MachineData, MachineAck, MachineDequeues, MachineDrop, MachineDeliver,
       MachineAckDeliver, MachineFails, Receive, ReceiveFails, Close, vars, sendVars
  <2> QED
    BY <2>1, <2>2, <2>3
<1> QED
  BY <1>1, <1>2, <1>3 DEF Numbered

\* What a step does to the state of a peer's stateMachine.
LEMMA MachineSteps ==
  ASSUME TypeOK, [Next]_vars, NEW q \in Peer
  PROVE  \/ /\ machine'[q] = machine[q] /\ held'[q] = held[q]
            /\ lastAckd'[q] = lastAckd[q] /\ queued'[q] = queued[q]
         \/ Machine(q)
<1>1. ASSUME NEW p \in Peer, p # q, Machine(p)
      PROVE  /\ machine'[q] = machine[q] /\ held'[q] = held[q]
             /\ lastAckd'[q] = lastAckd[q] /\ queued'[q] = queued[q]
  BY <1>1 DEF Machine, MachineData, MachineAck, MachineDequeues, MachineDrop, MachineDeliver,
     MachineAckDeliver, MachineFails, Release, TypeOK
<1>2. \/ UNCHANGED machineVars
      \/ \E p \in Peer : Machine(p)
  BY DEF Next, Machine, SendFirst, SendLoop, SendAck, SendAbort, SendRetry, SendTimeout,
     Receive, ReceiveFails, Close, vars
<1> QED
  BY <1>1, <1>2 DEF machineVars

\* An element of a sequence occurs in every extension of it.
LEMMA OccursAppend ==
  ASSUME NEW s \in Seq(Nat), NEW n \in Nat
  PROVE  /\ Append(s, n) \in Seq(Nat)
         /\ Occurs(n, Append(s, n))
         /\ \A x : Occurs(x, s) => Occurs(x, Append(s, n))
         /\ \A i \in DOMAIN Append(s, n) :
              (i \in DOMAIN s /\ Append(s, n)[i] = s[i])
                \/ (i = Len(s) + 1 /\ Append(s, n)[i] = n)
<1>1. /\ DOMAIN Append(s, n) = 1..(Len(s) + 1) /\ DOMAIN s = 1..Len(s)
      /\ Append(s, n)[Len(s) + 1] = n /\ \A i \in DOMAIN s : Append(s, n)[i] = s[i]
      /\ Append(s, n) \in Seq(Nat) /\ Len(s) \in Nat
  OBVIOUS
<1>2. Occurs(n, Append(s, n))
  BY <1>1 DEF Occurs
<1>3. \A x : Occurs(x, s) => Occurs(x, Append(s, n))
  BY <1>1 DEF Occurs
<1> QED
  BY <1>1, <1>2, <1>3

\* What a step does to what the other end has accepted.
LEMMA AcceptedSteps ==
  ASSUME TypeOK, [Next]_vars, NEW p \in Peer
  PROVE  \/ Accepted(p)' = Accepted(p)
         \/ /\ MachineData(Other(p)) /\ wire[Other(p)] # <<>>
            /\ Head(wire[Other(p)]).type = "DATA"
            /\ Fresh(Other(p), Head(wire[Other(p)]))
            /\ Accepted(p) = queued[Other(p)]
            /\ Accepted(p)' = Append(Accepted(p), Head(wire[Other(p)]).data)
<1> DEFINE q == Other(p)
<1>0. q \in Peer
  BY PeerFacts
<1>1. CASE /\ machine'[q] = machine[q] /\ held'[q] = held[q]
           /\ lastAckd'[q] = lastAckd[q] /\ queued'[q] = queued[q]
  BY <1>1 DEF Accepted, Fresh
<1>2. CASE MachineData(q)
  <2>1. /\ machine[q] = "receive" /\ queued'[q] = queued[q] /\ lastAckd'[q] = lastAckd[q]
        /\ wire[q] # <<>> /\ Head(wire[q]).type = "DATA"
        /\ \/ machine'[q] = "acked" /\ held'[q] = Head(wire[q])
           \/ machine'[q] = "returned"
    BY <1>0, <1>2 DEF MachineData, TypeOK
  <2> QED
    BY <1>2, <2>1 DEF Accepted, Fresh
<1>3. CASE MachineAck(q)
  BY <1>0, <1>3 DEF MachineAck, TypeOK, Accepted
<1>4. CASE MachineDrop(q)
  BY <1>0, <1>4 DEF MachineDrop, Release, TypeOK, Accepted
<1>5. CASE MachineDeliver(q)
  BY <1>0, <1>5 DEF MachineDeliver, Release, TypeOK, Accepted
<1>6. CASE MachineAckDeliver(q)
  BY <1>0, <1>6 DEF MachineAckDeliver, Release, TypeOK, Accepted
<1>7. CASE MachineFails(q)
  BY <1>0, <1>7 DEF MachineFails, TypeOK, Accepted
<1> QED
  BY <1>0, <1>1, <1>2, <1>3, <1>4, <1>5, <1>6, <1>7, MachineSteps DEF Machine, MachineDequeues

\* What has been accepted stays accepted.
LEMMA AcceptedGrows ==
  ASSUME TypeOK, [Next]_vars, NEW p \in Peer, NEW x, Occurs(x, Accepted(p))
  PROVE  Occurs(x, Accepted(p)')
<1>1. CASE Accepted(p)' = Accepted(p)
  BY <1>1
<1>2. ASSUME wire[Other(p)] # <<>>, Accepted(p) = queued[Other(p)],
             Accepted(p)' = Append(Accepted(p), Head(wire[Other(p)]).data)
      PROVE  Occurs(x, Accepted(p)')
  <2>1. Accepted(p) \in Seq(Nat) /\ Head(wire[Other(p)]).data \in Nat
    <3>1. Other(p) \in Peer
      BY PeerFacts
    <3>2. queued[Other(p)] \in Seq(Nat) /\ wire[Other(p)] \in Seq(Packet)
      BY <3>1 DEF TypeOK
    <3>3. Head(wire[Other(p)]) \in Packet
      BY <1>2, <3>2, HeadTail
    <3> QED
      BY <1>2, <3>2, <3>3 DEF Packet
  <2> QED
    BY <1>2, <2>1, OccursAppend
<1> QED
  BY <1>1, <1>2, AcceptedSteps

Acknowledges(p) ==
  /\ MachineData(p) /\ wire[p] # <<>> /\ Head(wire[p]).type = "DATA"
  /\ machine'[p] = "acked" /\ held'[p] = Head(wire[p])

\* What the receipt of a data packet does to the packets under way.
LEMMA MachineDataWire ==
  ASSUME TypeOK, NEW r \in Peer, NEW o \in Peer, o = Other(r), o # r, MachineData(r)
  PROVE  /\ wire[r] # <<>> /\ wire'[r] = Tail(wire[r])
         /\ \/ wire'[o] = wire[o]
            \/ Acknowledges(r) /\ wire'[o] = Append(wire[o], Ack(Head(wire[r]).seq))
<1> DEFINE rest == [wire EXCEPT ![r] = Tail(@)]
<1>1. wire[r] # <<>> /\ Head(wire[r]).type = "DATA"
  BY DEF MachineData
<1>2. rest[r] = Tail(wire[r]) /\ rest[o] = wire[o] /\ DOMAIN rest = Peer
  BY DEF TypeOK
<1>3. \/ wire' = rest
      \/ /\ wire' = [rest EXCEPT ![o] = Append(@, Ack(Head(wire[r]).seq))]
         /\ machine' = [machine EXCEPT ![r] = "acked"]
         /\ held' = [held EXCEPT ![r] = Head(wire[r])]
  BY DEF MachineData
<1>4. CASE wire' = rest
  BY <1>1, <1>2, <1>4
<1>5. CASE /\ wire' = [rest EXCEPT ![o] = Append(@, Ack(Head(wire[r]).seq))]
           /\ machine' = [machine EXCEPT ![r] = "acked"]
           /\ held' = [held EXCEPT ![r] = Head(wire[r])]
  <2>1. Acknowledges(r)
    BY <1>1, <1>5 DEF Acknowledges, TypeOK
  <2>2. wire'[r] = rest[r] /\ wire'[o] = Append(rest[o], Ack(Head(wire[r]).seq))
    <3> HIDE DEF rest
    <3> QED
      BY <1>2, <1>5
  <2> QED
    BY <1>1, <1>2, <2>1, <2>2
<1> QED
  BY <1>3, <1>4, <1>5

\* Where the packets under way to a peer come from.
LEMMA WireElements ==
  ASSUME TypeOK, [Next]_vars, NEW p \in Peer, NEW i \in DOMAIN wire'[Other(p)]
  PROVE  \/ \E j \in DOMAIN wire[Other(p)] : wire'[Other(p)][i] = wire[Other(p)][j]
         \/ SendFirst(p) /\ wire'[Other(p)][i] = Data(p)'
         \/ SendRetry(p) /\ wire'[Other(p)][i] = Data(p)
         \/ Acknowledges(p) /\ wire'[Other(p)][i] = Ack(Head(wire[p]).seq)
<1> DEFINE q == Other(p)
<1>0. q \in Peer /\ q # p /\ Other(q) = p /\ wire[q] \in Seq(Packet) /\ TypeOK'
  BY PeerFacts, TypeNext DEF TypeOK
<1>1. CASE wire'[q] = wire[q]
  BY <1>1
<1>2. CASE wire[q] # <<>> /\ wire'[q] = Tail(wire[q])
  <2>1. i + 1 \in DOMAIN wire[q] /\ wire'[q][i] = wire[q][i + 1]
    BY <1>0, <1>2
  <2> QED
    BY <2>1
<1>3. ASSUME NEW pkt, wire'[q] = Append(wire[q], pkt)
      PROVE  (\E j \in DOMAIN wire[q] : wire'[q][i] = wire[q][j]) \/ wire'[q][i] = pkt
  <2>1. i \in 1..(Len(wire[q]) + 1)
    BY <1>0, <1>3
  <2>2. CASE i \in 1..Len(wire[q])
    BY <1>0, <1>3, <2>2
  <2>3. CASE i = Len(wire[q]) + 1
    BY <1>0, <1>3, <2>3
  <2> QED
    BY <1>0, <2>1, <2>2, <2>3
<1>4. ASSUME NEW r \in Peer, NEW pkt, Transmit(Other(r), pkt)
      PROVE  wire'[q] = wire[q] \/ (r = p /\ wire'[q] = Append(wire[q], pkt))
  <2>1. r = p \/ (r = q /\ Other(r) = p)
    BY <1>0, PeerFacts
  <2>2. CASE r = p
    BY <1>0, <1>4, <2>2 DEF Transmit, TypeOK
  <2>3. CASE Other(r) = p
    BY <1>0, <1>4, <2>3 DEF Transmit, TypeOK
  <2> QED
    BY <2>1, <2>2, <2>3
<1>5. CASE SendFirst(p) \/ SendFirst(q)
  <2>1. ASSUME NEW r \in Peer, SendFirst(r) PROVE wire' = wire \/ Transmit(Other(r), Data(r)')
    BY <2>1 DEF SendFirst
  <2> QED
    BY <1>0, <1>1, <1>3, <1>4, <1>5, <2>1
<1>6. CASE SendRetry(p) \/ SendRetry(q)
  <2>1. ASSUME NEW r \in Peer, SendRetry(r) PROVE wire' = wire \/ Transmit(Other(r), Data(r))
    BY <2>1 DEF SendRetry
  <2> QED
    BY <1>0, <1>1, <1>3, <1>4, <1>6, <2>1
<1>7. CASE MachineData(q) \/ MachineAck(q)
  <2>1. wire[q] # <<>> /\ wire'[q] = Tail(wire[q])
    BY <1>0, <1>7, MachineDataWire, ZenonT(60) DEF MachineAck, TypeOK
  <2> QED
    BY <1>2, <2>1
<1>8. CASE MachineData(p)
  <2>1. \/ wire'[q] = wire[q]
        \/ Acknowledges(p) /\ wire'[q] = Append(wire[q], Ack(Head(wire[p]).seq))
    BY <1>0, <1>8, MachineDataWire
  <2> QED
    BY <1>1, <1>3, <2>1
<1>9. CASE MachineAck(p)
  BY <1>0, <1>1, <1>9 DEF MachineAck, TypeOK
<1>10. CASE UNCHANGED wire
  BY <1>1, <1>10
<1>11. ASSUME NEW r \in Peer PROVE r = p \/ r = q
  BY PeerFacts
<1>12. \/ UNCHANGED wire
       \/ \E r \in Peer : SendFirst(r) \/ SendRetry(r) \/ MachineData(r) \/ MachineAck(r)
  BY DEF Next, SendLoop, SendAck, SendAbort, SendTimeout, MachineDequeues, MachineDrop,
     MachineDeliver, MachineAckDeliver, MachineFails, Receive, ReceiveFails, Close, vars
<1> QED
  BY <1>5, <1>6, <1>7, <1>8, <1>9, <1>10, <1>11, <1>12

\* Where the acknowledgements handed to send come from.
LEMMA AckElements ==
  ASSUME TypeOK, [Next]_vars, NEW p \in Peer, NEW i \in DOMAIN ackCh'[p]
  PROVE  \/ \E j \in DOMAIN ackCh[p] : ackCh'[p][i] = ackCh[p][j]
         \/ MachineAckDeliver(p) /\ machine[p] = "ack" /\ ackCh'[p][i] = held[p].seq
<1>0. ackCh[p] \in Seq(Sequence)
  BY DEF TypeOK
<1>1. CASE ackCh'[p] = ackCh[p]
  BY <1>1
<1>2. ASSUME NEW r \in Peer, SendAck(r)
      PROVE  ackCh'[p] = ackCh[p] \/ (ackCh[p] # <<>> /\ ackCh'[p] = Tail(ackCh[p]))
  BY <1>2 DEF SendAck, TypeOK
<1>3. CASE ackCh[p] # <<>> /\ ackCh'[p] = Tail(ackCh[p])
  <2>1. i + 1 \in DOMAIN ackCh[p] /\ ackCh'[p][i] = ackCh[p][i + 1]
    BY <1>0, <1>3
  <2> QED
    BY <2>1
<1>4. ASSUME NEW r \in Peer, MachineAckDeliver(r)
      PROVE  \/ ackCh'[p] = ackCh[p]
             \/ r = p /\ machine[p] = "ack" /\ ackCh'[p] = Append(ackCh[p], held[p].seq)
  BY <1>4 DEF MachineAckDeliver, TypeOK
<1>5. ASSUME NEW k, ackCh'[p] = Append(ackCh[p], k)
      PROVE  (\E j \in DOMAIN ackCh[p] : ackCh'[p][i] = ackCh[p][j]) \/ ackCh'[p][i] = k
  <2>1. i \in 1..(Len(ackCh[p]) + 1)
    BY <1>0, <1>5
  <2>2. CASE i \in 1..Len(ackCh[p])
    BY <1>0, <1>5, <2>2
  <2>3. CASE i = Len(ackCh[p]) + 1
    BY <1>0, <1>5, <2>3
  <2> QED
    BY <1>0, <2>1, <2>2, <2>3
<1>6. \/ UNCHANGED ackCh
      \/ \E r \in Peer : SendAck(r) \/ MachineAckDeliver(r)
  BY DEF Next, SendFirst, SendLoop, SendAbort, SendRetry, SendTimeout, MachineData, MachineAck,
     MachineDequeues, MachineDrop, MachineDeliver, MachineFails, Receive, ReceiveFails, Close, vars
<1> QED
  BY <1>1, <1>2, <1>3, <1>4, <1>5, <1>6

-----------------------------------------------------------------------------
(***************************************************************************)
(* The invariant is kept by every step.                                    *)
(***************************************************************************)

\* A data packet stays correctly numbered.
LEMMA DataOkStays ==
  ASSUME NoWrap, TypeOK, Numbered, [Next]_vars, NEW p \in Peer, NEW pkt, DataOk(p, pkt)
  PROVE  DataOk(p, pkt)'
<1>1. count[p] \in Nat /\ (count'[p] = count[p] \/ count'[p] = count[p] + 1)
  BY CountSteps DEF TypeOK
<1> QED
  BY <1>1 DEF DataOk

\* An acknowledgement stays true, or becomes stale.
LEMMA AckOkStays ==
  ASSUME NoWrap, TypeOK, Numbered, [Next]_vars, NEW p \in Peer, NEW k, AckOk(p, k)
  PROVE  AckOk(p, k)'
<1>1. count[p] \in Nat /\ (count'[p] = count[p] \/ count'[p] = count[p] + 1)
  BY CountSteps DEF TypeOK
<1>2. CASE count'[p] = count[p] + 1
  BY <1>1, <1>2 DEF AckOk
<1>3. CASE count'[p] = count[p]
  <2>1. k = count[p] => Occurs(k, Accepted(p)')
    BY AcceptedGrows DEF AckOk
  <2>2. Occurs(k, Accepted(p)') => Occurs(k, Accepted(p))'
    BY DEF Occurs
  <2> QED
    BY <1>1, <1>3, <2>1, <2>2 DEF AckOk
<1> QED
  BY <1>1, <1>2, <1>3

\* The data packets of a step are correctly numbered.
LEMMA DataInvNext ==
  ASSUME NoWrap, TypeOK, Numbered, DataInv, [Next]_vars
  PROVE  DataInv'
<1> SUFFICES ASSUME NEW p \in Peer
             PROVE  /\ \A i \in DOMAIN wire'[Other(p)] : wire'[Other(p)][i].type = "DATA" =>
                         \E pkt : pkt = wire'[Other(p)][i] /\ DataOk(p, pkt)'
                    /\ machine'[Other(p)] = "acked" =>
                         \E pkt : pkt = held'[Other(p)] /\ DataOk(p, pkt)'
  BY DEF DataInv, DataOk
<1> DEFINE q == Other(p)
<1>0. q \in Peer /\ count[p] \in Nat /\ count'[p] \in Nat
  BY PeerFacts, TypeNext DEF TypeOK
<1>1. ASSUME NEW j \in DOMAIN wire[q], wire[q][j].type = "DATA"
      PROVE  \E pkt : pkt = wire[q][j] /\ DataOk(p, pkt) /\ DataOk(p, pkt)'
  BY <1>1, DataOkStays DEF DataInv
<1>2. ASSUME NEW i \in DOMAIN wire'[q], wire'[q][i].type = "DATA"
      PROVE  \E pkt : pkt = wire'[q][i] /\ DataOk(p, pkt)'
  <2>1. CASE SendFirst(p) /\ wire'[q][i] = Data(p)'
    <3>1. count'[p] = count[p] + 1 /\ sequence'[p] = count'[p]
      BY <2>1, CountSteps DEF SendFirst, TypeOK
    <3> QED
      BY <1>0, <2>1, <3>1 DEF Data, DataOk
  <2>2. CASE SendRetry(p) /\ wire'[q][i] = Data(p)
    <3>1. UNCHANGED <<count, sequence>> /\ sending[p]
      BY <2>2 DEF SendRetry, Waiting
    <3> QED
      BY <1>0, <2>2, <3>1 DEF Data, DataOk, Numbered
  <2>3. CASE wire'[q][i] = Ack(Head(wire[p]).seq)
    BY <1>2, <2>3 DEF Ack
  <2> QED
    BY <1>1, <1>2, <2>1, <2>2, <2>3, WireElements
<1>3. ASSUME machine'[q] = "acked" PROVE \E pkt : pkt = held'[q] /\ DataOk(p, pkt)'
  <2>1. CASE MachineData(q)
    <3>1. 1 \in DOMAIN wire[q] /\ wire[q][1] = Head(wire[q]) /\ Head(wire[q]).type = "DATA"
      BY <1>0, <2>1 DEF MachineData, TypeOK
    <3>2. held'[q] = Head(wire[q])
      BY <1>0, <1>3, <2>1 DEF MachineData, TypeOK
    <3> QED
      BY <1>1, <3>1, <3>2
  <2>2. CASE machine'[q] = machine[q] /\ held'[q] = held[q]
    BY <1>3, <2>2, DataOkStays DEF DataInv
  <2> QED
    BY <1>0, <1>3, <2>1, <2>2, MachineSteps DEF Machine, MachineAck, MachineDequeues, MachineDrop,
       MachineDeliver, MachineAckDeliver, MachineFails, Release, TypeOK
<1> QED
  BY <1>2, <1>3

\* The acknowledgements of a step are true or stale.
LEMMA AckInvNext ==
  ASSUME NoWrap, TypeOK, Numbered, DataInv, AckInv, QueueInv, [Next]_vars
  PROVE  AckInv'
<1> SUFFICES ASSUME NEW p \in Peer
             PROVE  /\ \A i \in DOMAIN wire'[p] : wire'[p][i].type = "ACK" =>
                         \E k : k = wire'[p][i].seq /\ AckOk(p, k)'
                    /\ machine'[p] = "ack" => \E k : k = held'[p].seq /\ AckOk(p, k)'
                    /\ \A i \in DOMAIN ackCh'[p] : \E k : k = ackCh'[p][i] /\ AckOk(p, k)'
  BY DEF AckInv, AckOk, Occurs
<1> DEFINE q == Other(p)
<1>0. q \in Peer /\ Other(q) = p /\ q # p /\ count[p] \in Nat
  BY PeerFacts DEF TypeOK
<1>1. ASSUME NEW j \in DOMAIN wire[p], wire[p][j].type = "ACK"
      PROVE  \E k : k = wire[p][j].seq /\ AckOk(p, k)'
  BY <1>1, AckOkStays DEF AckInv
<1>2. ASSUME Acknowledges(q)
      PROVE  \E k : k = Ack(Head(wire[q]).seq).seq /\ AckOk(p, k)'
  <2> DEFINE pkt == Head(wire[q])
  <2>1. wire[q] \in Seq(Packet) /\ wire[q] # <<>> /\ pkt.type = "DATA"
    BY <1>0, <1>2 DEF Acknowledges, TypeOK
  <2>2. 1 \in DOMAIN wire[q] /\ pkt = wire[q][1]
    BY <2>1
  <2>3. pkt.seq = pkt.data /\ pkt.data \in 1..count[p]
    BY <2>1, <2>2 DEF DataInv, DataOk
  <2>4. UNCHANGED <<count, queued, lastAckd>>
    BY <1>2 DEF Acknowledges, MachineData, sendVars
  <2>5. ASSUME pkt.seq = count[p] PROVE Occurs(pkt.seq, Accepted(p)')
    <3>1. queued[q] \in Seq(Nat) /\ lastAckd[q] \in Nat /\ lastAckd[q] <= count[p]
      BY <1>0, StreamAssumption DEF TypeOK, QueueInv, Sequence
    <3>2. CASE Fresh(q, pkt)
      <4>1. Accepted(p)' = Append(queued[q], pkt.data)
        BY <1>2, <2>4, <3>2 DEF Accepted, Acknowledges, Fresh
      <4> QED
        BY <2>3, <3>1, <4>1, <1>0, OccursAppend
    <3>3. CASE ~Fresh(q, pkt)
      <4>1. lastAckd[q] = pkt.seq /\ lastAckd[q] # 0
        BY <1>0, <2>3, <2>5, <3>1, <3>3 DEF Fresh
      <4>2. Occurs(pkt.seq, queued[q])
        BY <1>0, <4>1 DEF QueueInv
      <4>3. Accepted(p)' = queued[q]
        BY <1>2, <2>4, <3>3 DEF Accepted, Acknowledges, Fresh
      <4> QED
        BY <4>2, <4>3
    <3> QED
      BY <3>2, <3>3
  <2>6. Ack(pkt.seq).seq = pkt.seq
    BY DEF Ack
  <2> QED
    BY <2>3, <2>4, <2>5, <2>6 DEF AckOk, Occurs
<1>3. ASSUME NEW i \in DOMAIN wire'[p], wire'[p][i].type = "ACK"
      PROVE  \E k : k = wire'[p][i].seq /\ AckOk(p, k)'
  <2>1. Data(q).type # "ACK" /\ Data(q)'.type # "ACK"
    BY DEF Data
  <2>2. \/ \E j \in DOMAIN wire[p] : wire'[p][i] = wire[p][j]
        \/ Acknowledges(q) /\ wire'[p][i] = Ack(Head(wire[q]).seq)
    BY <1>0, <1>3, <2>1, WireElements
  <2> QED
    BY <1>1, <1>2, <1>3, <2>2
<1>4. ASSUME machine'[p] = "ack" PROVE \E k : k = held'[p].seq /\ AckOk(p, k)'
  <2>1. CASE MachineAck(p)
    <3>1. 1 \in DOMAIN wire[p] /\ wire[p][1] = Head(wire[p]) /\ Head(wire[p]).type = "ACK"
      BY <2>1 DEF MachineAck, TypeOK
    <3>2. held'[p] = Head(wire[p])
      BY <2>1 DEF MachineAck, TypeOK
    <3> QED
      BY <1>1, <3>1, <3>2
  <2>2. CASE machine'[p] = machine[p] /\ held'[p] = held[p]
    BY <1>4, <2>2, AckOkStays DEF AckInv
  <2> QED
    BY <1>4, <2>1, <2>2, MachineSteps DEF Machine, MachineData, MachineDequeues, MachineDrop,
       MachineDeliver, MachineAckDeliver, MachineFails, Release, TypeOK
<1>5. ASSUME NEW i \in DOMAIN ackCh'[p] PROVE \E k : k = ackCh'[p][i] /\ AckOk(p, k)'
  <2>1. ASSUME NEW j \in DOMAIN ackCh[p], ackCh'[p][i] = ackCh[p][j]
        PROVE  \E k : k = ackCh'[p][i] /\ AckOk(p, k)'
    BY <2>1, AckOkStays DEF AckInv
  <2>2. CASE machine[p] = "ack" /\ ackCh'[p][i] = held[p].seq
    BY <2>2, AckOkStays DEF AckInv
  <2> QED
    BY <2>1, <2>2, AckElements
<1> QED
  BY <1>3, <1>4, <1>5

\* What is queued for the reader stays sorted and below lastAckd.
LEMMA QueueInvNext ==
  ASSUME NoWrap, TypeOK, Numbered, DataInv, QueueInv, [Next]_vars
  PROVE  QueueInv'
<1> SUFFICES ASSUME NEW q \in Peer
             PROVE  /\ lastAckd'[q] <= count'[Other(q)]
                    /\ \A i \in DOMAIN queued'[q] : queued'[q][i] \in 1..lastAckd'[q]
                    /\ lastAckd'[q] # 0 => Occurs(lastAckd'[q], queued'[q])
                    /\ InOrder(queued'[q])
  BY DEF QueueInv, Occurs, InOrder
<1> DEFINE p == Other(q)
<1>0. /\ p \in Peer /\ Other(p) = q
      /\ count[p] \in Nat /\ count'[p] \in Nat /\ count[p] <= count'[p]
      /\ lastAckd[q] \in Nat /\ queued[q] \in Seq(Nat)
  <2>1. p \in Peer /\ Other(p) = q
    BY PeerFacts
  <2>2. count[p] \in Nat /\ lastAckd[q] \in Nat /\ queued[q] \in Seq(Nat)
    BY <2>1, StreamAssumption DEF TypeOK, Sequence
  <2>3. count'[p] = count[p] \/ count'[p] = count[p] + 1
    BY <2>1, CountSteps
  <2> QED
    BY <2>1, <2>2, <2>3
<1>1. CASE lastAckd'[q] = lastAckd[q] /\ queued'[q] = queued[q]
  BY <1>0, <1>1 DEF QueueInv
<1>2. CASE MachineDeliver(q)
  <2> DEFINE n == held[q].data
  <2>1. machine[q] = "acked" /\ held[q].seq > lastAckd[q] /\ UNCHANGED count
    BY <1>2 DEF MachineDeliver, Fresh, sendVars
  <2>2. held[q].seq = n /\ n \in 1..count[p]
    BY <1>0, <2>1 DEF DataInv, DataOk
  <2>3. lastAckd'[q] = n /\ queued'[q] = Append(queued[q], n)
    BY <1>2, <2>2 DEF MachineDeliver, TypeOK
  <2> HIDE DEF n
  <2>4. n \in Nat /\ n > lastAckd[q]
    BY <1>0, <2>1, <2>2
  <2>5. Occurs(n, Append(queued[q], n))
    BY <1>0, <2>4, OccursAppend
  <2>6. \A i \in DOMAIN queued[q] : queued[q][i] < n
    BY <1>0, <2>4 DEF QueueInv
  <2>7. \A i \in DOMAIN queued'[q] : queued'[q][i] \in 1..n
    BY <1>0, <2>2, <2>3, <2>4, OccursAppend DEF QueueInv
  <2>8. InOrder(queued'[q])
    <3> SUFFICES ASSUME NEW i \in DOMAIN queued'[q], NEW j \in DOMAIN queued'[q], i < j
                 PROVE  queued'[q][i] < queued'[q][j]
      BY DEF InOrder
    <3>1. i \in DOMAIN queued[q] /\ queued'[q][i] = queued[q][i]
      BY <1>0, <2>3, <2>4
    <3>2. \/ j \in DOMAIN queued[q] /\ queued'[q][j] = queued[q][j]
          \/ queued'[q][j] = n
      BY <1>0, <2>3, <2>4, OccursAppend
    <3> QED
      BY <2>6, <3>1, <3>2 DEF QueueInv, InOrder
  <2> QED
    BY <1>0, <2>1, <2>2, <2>3, <2>5, <2>7, <2>8
<1> QED
  BY <1>1, <1>2, MachineSteps DEF Machine, MachineData, MachineAck, MachineDequeues, MachineDrop,
     MachineAckDeliver, MachineFails

\* What a step does to the confirmed messages: send confirms the message it has
\* just sent, which the other end has accepted.
LEMMA ConfirmedSteps ==
  ASSUME TypeOK, Numbered, AckInv, [Next]_vars, NEW p \in Peer
  PROVE  \/ confirmed'[p] = confirmed[p]
         \/ /\ SendAck(p) /\ confirmed' = [confirmed EXCEPT ![p] = @ \cup {count[p]}]
            /\ Occurs(count[p], Accepted(p))
<1>1. ASSUME NEW r \in Peer, SendAck(r)
      PROVE  \/ confirmed'[p] = confirmed[p]
             \/ /\ r = p /\ confirmed' = [confirmed EXCEPT ![p] = @ \cup {count[p]}]
                /\ ackCh[p] # <<>> /\ Head(ackCh[p]) = sequence[p]
  BY <1>1 DEF SendAck, AckMatches, TypeOK
<1>2. ASSUME ackCh[p] # <<>>, Head(ackCh[p]) = sequence[p] PROVE Occurs(count[p], Accepted(p))
  <2>1. ackCh[p] \in Seq(Sequence) /\ sequence[p] = count[p]
    BY DEF TypeOK, Numbered
  <2>2. 1 \in DOMAIN ackCh[p] /\ ackCh[p][1] = count[p]
    BY <1>2, <2>1
  <2> QED
    BY <2>2 DEF AckInv, AckOk
<1>3. \/ UNCHANGED confirmed
      \/ \E r \in Peer : SendAck(r)
  BY DEF Next, SendFirst, SendLoop, SendAbort, SendRetry, SendTimeout, MachineData, MachineAck,
     MachineDequeues, MachineDrop, MachineDeliver, MachineAckDeliver, MachineFails, Receive,
     ReceiveFails, Close, vars, sendVars
<1> QED
  BY <1>1, <1>2, <1>3

\* The whole invariant is kept.
LEMMA StreamInvNext == NoWrap /\ TypeOK /\ StreamInv /\ [Next]_vars => StreamInv'
<1> SUFFICES ASSUME NoWrap, TypeOK, StreamInv, [Next]_vars PROVE StreamInv'
  OBVIOUS
<1> USE DEF StreamInv
<1>1. Numbered' /\ DataInv' /\ AckInv' /\ QueueInv'
  BY NumberedNext, DataInvNext, AckInvNext, QueueInvNext
<1>2. ASSUME NEW p \in Peer, NEW n \in confirmed'[p] PROVE Occurs(n, Accepted(p)')
  <2>1. CASE n \in confirmed[p]
    BY <2>1, AcceptedGrows DEF ConfirmedAccepted
  <2>2. CASE n \notin confirmed[p]
    <3>0. /\ confirmed' = [confirmed EXCEPT ![p] = @ \cup {count[p]}]
          /\ Occurs(count[p], Accepted(p))
      BY <1>2, <2>2, ConfirmedSteps
    <3>1. n = count[p] /\ Occurs(n, Accepted(p))
      BY <1>2, <2>2, <3>0 DEF TypeOK
    <3> QED
      BY <3>1, AcceptedGrows
  <2> QED
    BY <2>1, <2>2
<1>3. ConfirmedAccepted'
  BY <1>2 DEF ConfirmedAccepted, Occurs
<1> QED
  BY <1>1, <1>3

\* It holds when the two streams are created.
LEMMA StreamInvInit == Init => StreamInv
<1> SUFFICES ASSUME Init PROVE StreamInv
  OBVIOUS
<1>1. \A p \in Peer : Other(p) \in Peer /\ 0 <= MaxSends[p]
  BY PeerFacts, BoundAssumption
<1> QED
  BY <1>1 DEF Init, StreamInv, Numbered, DataInv, AckInv, QueueInv, ConfirmedAccepted, InOrder

\* A nil error of send means that the other end has accepted the message, as
\* long as sequence numbers do not start again.
THEOREM ConfirmedCorrect == ASSUME NoWrap PROVE Spec => []ConfirmedAccepted
<1>1. TypeOK /\ StreamInv /\ [Next]_vars => StreamInv'
  BY StreamInvNext
<1>2. StreamInv => ConfirmedAccepted
  BY DEF StreamInv
<1> QED
  BY <1>1, <1>2, StreamInvInit, TypeCorrect, PTL DEF Spec

-----------------------------------------------------------------------------
(***************************************************************************)
(* Refinement: each direction of the stream is an ordered delivery.        *)
(***************************************************************************)

\* The initial states map to initial states.
LEMMA DeliveryInit == Init => Delivery!Init
  BY PeerFacts DEF Init, Delivery!Init, Accepted

\* Every step maps to a step of the abstract specification, or to a stutter.
LEMMA DeliveryNext ==
  ASSUME NoWrap, TypeOK, StreamInv, [Next]_vars
  PROVE  [Delivery!Next]_(Delivery!vars)
<1> DEFINE acc == [p \in Peer |-> Accepted(p)]
           acc1 == [p \in Peer |-> Accepted(p)']
<1> USE DEF StreamInv
<1>1. ASSUME NEW p \in Peer, SendFirst(p)
      PROVE  Delivery!Submit(p)
  <2>1. UNCHANGED <<confirmed, machine, held, lastAckd, queued>>
    BY <1>1 DEF SendFirst, machineVars
  <2>2. acc1 = acc
    BY <2>1 DEF Accepted, Fresh
  <2> QED
    BY <1>1, <2>1, <2>2 DEF Delivery!Submit, SendFirst
<1>2. ASSUME NEW p \in Peer, SendAck(p)
      PROVE  Delivery!Confirm(p) \/ UNCHANGED Delivery!vars
  <2>1. UNCHANGED <<count, machine, held, lastAckd, queued>>
    BY <1>2 DEF SendAck, machineVars
  <2>2. acc1 = acc
    BY <2>1 DEF Accepted, Fresh
  <2>3. \/ UNCHANGED confirmed
        \/ confirmed' = [confirmed EXCEPT ![p] = @ \cup {count[p]}] /\ confirmed'[p] # confirmed[p]
    BY <1>2 DEF SendAck, TypeOK
  <2>4. CASE UNCHANGED confirmed
    BY <2>1, <2>2, <2>4 DEF Delivery!vars
  <2>5. CASE /\ confirmed' = [confirmed EXCEPT ![p] = @ \cup {count[p]}]
             /\ confirmed'[p] # confirmed[p]
    <3>1. Occurs(count[p], acc[p])
      BY <2>5, ConfirmedSteps
    <3> QED
      BY <2>1, <2>2, <2>5, <3>1 DEF Delivery!Confirm, Occurs
  <2> QED
    BY <2>3, <2>4, <2>5
<1>3. ASSUME NEW q \in Peer, MachineData(q)
      PROVE  UNCHANGED Delivery!vars \/ \E n \in 1..count[Other(q)] : Delivery!Accept(Other(q), n)
  <2> DEFINE p == Other(q)
             n == Head(wire[q]).data
  <2>1. p \in Peer /\ Other(p) = q /\ UNCHANGED <<count, confirmed>>
    BY <1>3, PeerFacts DEF MachineData, sendVars
  <2>2. Accepted(q)' = Accepted(q)
    <3>1. p # q
      BY PeerFacts
    <3>2. machine'[p] = machine[p] /\ held'[p] = held[p]
      <4>1. machine \in [Peer -> {"receive", "acked", "ack", "returned"}]
        BY DEF TypeOK
      <4>2. held \in [Peer -> Packet \cup {None}]
        BY DEF TypeOK
      <4>3. p \in Peer /\ q \in Peer
        BY <1>3, <2>1
      <4>4. \/ machine' = [machine EXCEPT ![q] = "acked"]
            \/ machine' = [machine EXCEPT ![q] = "returned"]
        BY <1>3 DEF MachineData
      <4>5. UNCHANGED held \/ \E pkt : held' = [held EXCEPT ![q] = pkt]
        BY <1>3 DEF MachineData
      <4> QED
        BY <3>1, <4>1, <4>2, <4>3, <4>4, <4>5
    <3>3. UNCHANGED <<lastAckd, queued>>
      BY <1>3 DEF MachineData
    <3>4. Other(q) = p
      OBVIOUS
    <3> QED
      BY <3>2, <3>3, <3>4 DEF Accepted, Fresh
  <2>3. CASE Accepted(p)' = Accepted(p)
    <3>1. \A r \in Peer : Accepted(r)' = Accepted(r)
      BY <2>2, <2>3, PeerFacts
    <3>2. acc1 = acc
      BY <3>1
    <3> QED
      BY <2>1, <3>2 DEF Delivery!vars
  <2>4. CASE /\ wire[q] # <<>> /\ Head(wire[q]).type = "DATA" /\ Fresh(q, Head(wire[q]))
             /\ Accepted(p) = queued[q] /\ Accepted(p)' = Append(Accepted(p), n)
    <3>1. 1 \in DOMAIN wire[q] /\ Head(wire[q]) = wire[q][1]
      BY <2>4 DEF TypeOK
    <3>2. Head(wire[q]).seq = n /\ n \in 1..count[p]
      BY <2>1, <2>4, <3>1 DEF DataInv, DataOk
    <3>3. \A i \in DOMAIN acc[p] : acc[p][i] < n
      <4>1. lastAckd[q] < n
        BY <2>4, <3>2 DEF Fresh
      <4>a. lastAckd[q] \in Nat
        BY <1>3, StreamAssumption DEF TypeOK, Sequence
      <4>b. count[p] \in Nat
        BY <2>1 DEF TypeOK
      <4>c. n \in Nat
        BY <3>2, <4>b
      <4>2. \A i \in DOMAIN queued[q] : queued[q][i] \in 1..lastAckd[q]
        BY DEF QueueInv
      <4> QED
        BY <2>1, <2>4, <4>1, <4>2, <4>a, <4>c
    <3>4. acc1 = [acc EXCEPT ![p] = Append(@, n)]
      <4>1. \A r \in Peer : r = p \/ r = q
        BY <2>1, PeerFacts
      <4> QED
        BY <2>1, <2>2, <2>4, <4>1
    <3>5. Delivery!Accept(p, n)
      BY <2>1, <3>2, <3>3, <3>4 DEF Delivery!Accept
    <3> QED
      BY <3>2, <3>5
  <2> QED
    BY <2>1, <2>3, <2>4, AcceptedSteps
<1>4. ASSUME UNCHANGED <<count, confirmed>>, \A q \in Peer : ~MachineData(q)
      PROVE  UNCHANGED Delivery!vars
  <2>1. \A p \in Peer : Accepted(p)' = Accepted(p)
    BY <1>4, AcceptedSteps, PeerFacts
  <2>2. acc1 = acc
    BY <2>1
  <2> QED
    BY <1>4, <2>2 DEF Delivery!vars
<1>5. \/ UNCHANGED <<count, confirmed>>
      \/ \E p \in Peer : SendFirst(p) \/ SendAck(p)
  BY DEF Next, SendLoop, SendAbort, SendRetry, SendTimeout, MachineData, MachineAck,
     MachineDequeues, MachineDrop, MachineDeliver, MachineAckDeliver, MachineFails, Receive,
     ReceiveFails, Close, vars, sendVars
<1>6. \A q \in Peer : Other(q) \in Peer
  BY PeerFacts
<1> QED
  BY <1>1, <1>2, <1>3, <1>4, <1>5, <1>6 DEF Delivery!Next

\* reliableStream implements an ordered delivery in both directions, for every
\* capacity of its queues and every budget of send, as long as sequence numbers
\* do not start again.
THEOREM DeliveryCorrect == ASSUME NoWrap PROVE Spec => DeliverySpec
<1>1. TypeOK /\ StreamInv /\ [Next]_vars => StreamInv'
  BY StreamInvNext
<1>2. TypeOK /\ StreamInv /\ [Next]_vars => [Delivery!Next]_(Delivery!vars)
  BY DeliveryNext
<1> QED
  BY <1>1, <1>2, StreamInvInit, DeliveryInit, TypeCorrect, PTL DEF Spec, DeliverySpec, Delivery!Spec

-----------------------------------------------------------------------------
(***************************************************************************)
(* Order at the reader: nothing is lost, reordered or repeated between the *)
(* machine, which queues in order, and the reader.                         *)
(***************************************************************************)

ReadInv == \A p \in Peer : queued[p] = received[p] \o dataCh[p]

\* What is appended to the second part is appended to the whole.
LEMMA AppendConcat ==
  ASSUME NEW s \in Seq(Nat), NEW t \in Seq(Nat), NEW n \in Nat
  PROVE  s \o Append(t, n) = Append(s \o t, n)
<1>1. s \o Append(t, n) \in Seq(Nat) /\ Append(s \o t, n) \in Seq(Nat)
  OBVIOUS
<1>2. Len(s \o Append(t, n)) = Len(Append(s \o t, n))
  OBVIOUS
<1>3. \A i \in 1..Len(s \o Append(t, n)) : (s \o Append(t, n))[i] = Append(s \o t, n)[i]
  OBVIOUS
<1> QED
  BY <1>1, <1>2, <1>3, SeqEqual

\* The head of the second part may move to the end of the first.
LEMMA MoveHead ==
  ASSUME NEW s \in Seq(Nat), NEW t \in Seq(Nat), t # <<>>
  PROVE  Append(s, Head(t)) \o Tail(t) = s \o t
<1>1. Head(t) \in Nat /\ Tail(t) \in Seq(Nat) /\ Len(Tail(t)) = Len(t) - 1 /\ Len(t) \in Nat \ {0}
  OBVIOUS
<1>2. Append(s, Head(t)) \in Seq(Nat) /\ Len(Append(s, Head(t))) = Len(s) + 1
  BY <1>1
<1>3. Append(s, Head(t)) \o Tail(t) \in Seq(Nat) /\ s \o t \in Seq(Nat)
  BY <1>1, <1>2
<1>4. Len(Append(s, Head(t)) \o Tail(t)) = Len(s \o t)
  BY <1>1, <1>2
<1>5. ASSUME NEW i \in 1..Len(s \o t)
      PROVE  (Append(s, Head(t)) \o Tail(t))[i] = (s \o t)[i]
  BY <1>1, <1>2
<1> QED
  BY <1>3, <1>4, <1>5, SeqEqual

\* The first part of an ordered sequence is ordered.
LEMMA InOrderPrefix ==
  ASSUME NEW s \in Seq(Nat), NEW t \in Seq(Nat), InOrder(s \o t)
  PROVE  InOrder(s)
<1> DEFINE u == s \o t
<1>1. \A i \in DOMAIN s : i \in DOMAIN u /\ u[i] = s[i]
  OBVIOUS
<1>2. \A i, j \in DOMAIN u : i < j => u[i] < u[j]
  BY DEF InOrder
<1> HIDE DEF u
<1> QED
  BY <1>1, <1>2 DEF InOrder

\* Every step keeps the parts together: only MachineDeliver adds to queued, and
\* it adds the same to dataCh.
LEMMA ReadInvNext == TypeOK /\ ReadInv /\ [Next]_vars => ReadInv'
<1> SUFFICES ASSUME TypeOK, ReadInv, [Next]_vars, NEW q \in Peer
             PROVE  queued'[q] = received'[q] \o dataCh'[q]
  BY DEF ReadInv
<1>0. /\ queued[q] = received[q] \o dataCh[q]
      /\ received[q] \in Seq(Nat) /\ dataCh[q] \in Seq(Nat)
  BY DEF TypeOK, ReadInv
<1>1. CASE UNCHANGED <<queued, received, dataCh>>
  BY <1>0, <1>1
<1>2. ASSUME NEW p \in Peer, MachineDeliver(p)
      PROVE  queued'[q] = received'[q] \o dataCh'[q]
  <2>1. UNCHANGED received
    BY <1>2 DEF MachineDeliver, readVars
  <2>2. CASE p # q
    BY <1>0, <1>2, <2>1, <2>2 DEF MachineDeliver, TypeOK
  <2>3. CASE p = q
    <3>1. held[q].data \in Nat
      BY <1>2, <2>3 DEF MachineDeliver, TypeOK, Packet
    <3>2. /\ queued'[q] = Append(queued[q], held[q].data)
          /\ dataCh'[q] = Append(dataCh[q], held[q].data)
      BY <1>2, <2>3 DEF MachineDeliver, TypeOK
    <3> QED
      BY <1>0, <2>1, <3>1, <3>2, AppendConcat, ZenonT(60)
  <2> QED
    BY <2>2, <2>3
<1>3. ASSUME NEW p \in Peer, Receive(p)
      PROVE  queued'[q] = received'[q] \o dataCh'[q]
  <2>1. UNCHANGED queued
    BY <1>3 DEF Receive, machineVars
  <2>2. CASE p # q
    BY <1>0, <1>3, <2>1, <2>2 DEF Receive, TypeOK
  <2>3. CASE p = q
    <3>1. /\ received'[q] = Append(received[q], Head(dataCh[q]))
          /\ dataCh'[q] = Tail(dataCh[q]) /\ dataCh[q] # <<>>
      BY <1>3, <2>3 DEF Receive, TypeOK
    <3> QED
      BY <1>0, <2>1, <3>1, MoveHead
  <2> QED
    BY <2>2, <2>3
<1>4. \/ UNCHANGED <<queued, received, dataCh>>
      \/ \E p \in Peer : MachineDeliver(p) \/ Receive(p)
  BY DEF Next, SendFirst, SendLoop, SendAck, SendAbort, SendRetry, SendTimeout, MachineData,
     MachineAck, MachineDequeues, MachineDrop, MachineAckDeliver, MachineFails,
     ReceiveFails, Close, vars, machineVars, readVars
<1> QED
  BY <1>1, <1>2, <1>3, <1>4

\* The messages of a peer reach the reader of the other end in the order sent
\* and none twice, as long as sequence numbers do not start again.
THEOREM ReceivedCorrect == ASSUME NoWrap PROVE Spec => []ReceivedInOrder
<1>1. TypeOK /\ StreamInv /\ [Next]_vars => StreamInv'
  BY StreamInvNext
<1>2. Init => ReadInv
  BY DEF Init, ReadInv
<1>3. TypeOK /\ StreamInv /\ ReadInv => ReceivedInOrder
  <2> SUFFICES ASSUME TypeOK, StreamInv, ReadInv, NEW p \in Peer
               PROVE  InOrder(received[p])
    BY DEF ReceivedInOrder
  <2>1. received[p] \in Seq(Nat) /\ dataCh[p] \in Seq(Nat)
    BY DEF TypeOK
  <2>2. InOrder(received[p] \o dataCh[p])
    BY DEF StreamInv, QueueInv, ReadInv
  <2> QED
    BY <2>1, <2>2, InOrderPrefix
<1> QED
  BY <1>1, <1>2, <1>3, StreamInvInit, ReadInvNext, TypeCorrect, PTL DEF Spec

-----------------------------------------------------------------------------
(***************************************************************************)
(* Where the stream comes to rest.                                         *)
(***************************************************************************)

\* No goroutine has a step to take by itself under FairSpec.  A send always has one, since
\* its timer expires.
AtRest == \A p \in Peer :
  /\ ~sending[p]
  /\ machine[p] = "acked" => Fresh(p, held[p]) /\ ~HasRoom(dataCh[p])
  /\ machine[p] = "ack" => ~HasRoom(ackCh[p])
  /\ reading[p] => dataCh[p] = <<>>

\* Nothing is added at the end.
LEMMA ConcatEmpty == \A s \in Seq(Nat) : s \o <<>> = s
OBVIOUS

\* The safety half of ConfirmedReceived.  Once no goroutine can go on by itself, every
\* message whose send returned nil has been received at the other end, or the reader
\* there has given up: none is left in dataCh, or in the hands of a stateMachine that has
\* acknowledged it and waits for room, while there is a reader (stateMachine, receive,
\* processStream).
THEOREM RestCorrect ==
  ASSUME NoWrap
  PROVE  Spec => [](AtRest => \A p \in Peer : \A n \in confirmed[p] :
                                Occurs(n, received[Other(p)]) \/ ~reading[Other(p)])
<1>1. TypeOK /\ StreamInv /\ [Next]_vars => StreamInv'
  BY StreamInvNext
<1>2. Init => ReadInv
  BY DEF Init, ReadInv
<1>3. ASSUME TypeOK, StreamInv, ReadInv, AtRest, NEW p \in Peer, NEW n \in confirmed[p],
             reading[Other(p)]
      PROVE  Occurs(n, received[Other(p)])
  <2>. DEFINE q == Other(p)
  <2>1. q \in Peer
    BY PeerFacts
  <2>2. received[q] \in Seq(Nat) /\ dataCh[q] = <<>>
    BY <1>3, <2>1 DEF TypeOK, AtRest
  <2>3. queued[q] = received[q]
    <3>1. queued[q] = received[q] \o <<>>
      BY <1>3, <2>1, <2>2 DEF ReadInv
    <3>2. \A s \in Seq(Nat) : s \o <<>> = s
      BY ConcatEmpty
    <3>. QED
      BY <2>2, <3>1, <3>2
  <2>4. HasRoom(dataCh[q])
    BY <2>2, StreamAssumption DEF HasRoom
  <2>5. machine[q] # "acked"
    BY <1>3, <2>1, <2>4 DEF AtRest
  <2>6. Accepted(p) = received[q]
    BY <2>3, <2>5 DEF Accepted
  <2>. QED
    BY <1>3, <2>6 DEF StreamInv, ConfirmedAccepted
<1>4. TypeOK /\ StreamInv /\ ReadInv =>
        (AtRest => \A p \in Peer : \A n \in confirmed[p] :
                     Occurs(n, received[Other(p)]) \/ ~reading[Other(p)])
  BY <1>3
<1>. QED
  BY <1>1, <1>2, <1>4, StreamInvInit, ReadInvNext, TypeCorrect, PTL DEF Spec

\* What a timeout costs is positive.
LEMMA RetryCosts == RetryCost \in Nat \ {0}
<1>1. ASSUME NEW m \in Nat PROVE ((m + 9) \div 10) + 1 \in Nat \ {0}
  OBVIOUS
<1>. QED
  BY <1>1, StreamAssumption DEF RetryCost

\* The variant of SendReturns.  A call of send that is not over has used up more of its
\* budget after every step of its loop, whichever case of the select it was, and no step
\* of anybody gives budget back; TypeCorrect bounds what it can use.  So a send whose
\* goroutine runs returns after at most MaxIncorrectMessages + 1 steps (send).
THEOREM SendUsesItsBudget ==
  Spec => [][\A p \in Peer : sending[p] /\ sending'[p] =>
               /\ tries'[p] >= tries[p]
               /\ SendLoop(p) => tries'[p] > tries[p]]_vars
<1>1. ASSUME TypeOK, NEW p \in Peer, SendLoop(p), sending'[p] PROVE tries'[p] > tries[p]
  <2>1. sending \in [Peer -> BOOLEAN] /\ tries \in [Peer -> Nat]
    BY <1>1, RetryCosts, StreamAssumption DEF TypeOK
  <2>2. CASE SendAck(p)
    BY <1>1, <2>1, <2>2 DEF SendAck, SendReturn
  <2>3. CASE SendAbort(p)
    BY <1>1, <2>1, <2>3 DEF SendAbort, SendReturn
  <2>4. CASE SendRetry(p)
    BY <1>1, <2>1, <2>4, RetryCosts DEF SendRetry, SendReturn, AfterRetry
  <2>5. CASE SendTimeout(p)
    BY <1>1, <2>1, <2>5 DEF SendTimeout, SendReturn
  <2>. QED
    BY <1>1, <2>2, <2>3, <2>4, <2>5 DEF SendLoop
<1>2. ASSUME TypeOK, [Next]_vars, NEW p \in Peer, sending[p], ~SendLoop(p) PROVE tries'[p] = tries[p]
  <2>1. \/ UNCHANGED tries
        \/ \E q \in Peer : SendFirst(q) \/ SendLoop(q)
    BY <1>2 DEF Next, MachineData, MachineAck, MachineDequeues, MachineDrop, MachineDeliver,
       MachineAckDeliver, MachineFails, Receive, ReceiveFails, Close, vars, sendVars
  <2>2. ASSUME NEW q \in Peer, SendFirst(q) \/ SendLoop(q) PROVE tries'[p] = tries[p]
    <3>1. q # p
      BY <1>2, <2>2 DEF SendFirst
    <3>2. tries' = tries \/ \E x : tries' = [tries EXCEPT ![q] = x]
      BY <2>2 DEF SendFirst, SendLoop, SendAck, SendAbort, SendRetry, SendTimeout
    <3>. QED
      BY <1>2, <3>1, <3>2 DEF TypeOK
  <2>. QED
    BY <2>1, <2>2
<1>3. ASSUME TypeOK, [Next]_vars
      PROVE  \A p \in Peer : sending[p] /\ sending'[p] =>
               /\ tries'[p] >= tries[p]
               /\ SendLoop(p) => tries'[p] > tries[p]
  <2>1. tries \in [Peer -> Nat] /\ tries' \in [Peer -> Nat]
    <3>1. TypeOK'
      BY <1>3, TypeNext
    <3>. QED
      BY <1>3, <3>1, RetryCosts, StreamAssumption DEF TypeOK
  <2>. QED
    BY <1>1, <1>2, <1>3, <2>1
<1>4. TypeOK /\ [Next]_vars =>
        [\A p \in Peer : sending[p] /\ sending'[p] =>
           /\ tries'[p] >= tries[p]
           /\ SendLoop(p) => tries'[p] > tries[p]]_vars
  BY <1>3
<1>. QED
  BY <1>4, TypeCorrect, PTL DEF Spec

=============================================================================
