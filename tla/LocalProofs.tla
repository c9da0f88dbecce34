----------------------------- MODULE LocalProofs -----------------------------
(***************************************************************************)
(* Proofs about LocalConn and the two that use it, LocalManager and        *)
(* LocalRouters, for any number of connections, listeners, calls and       *)
(* routers and any size of the queues.                                     *)
(***************************************************************************)
EXTENDS LocalManager, LocalRouters, FiniteSetTheorems, SequenceTheorems, TLAPS

\* The call that has the manager's mutex.
InCall(op, e) == holder # None /\ holder.op = op /\ holder.end = e

\* A Close waits for the goroutine of this end.
Closing(e) == InCall("close", e) \/ InCall("closePeer", Peer(e))

\* What holds of an end and its peer, in the middle of a Send or a Close too.
Paired(e) ==
  /\ e \in conns <=> routine[e] # "none" /\ ~closeCh[e]
  /\ closeCh[e] => routine[e] # "none"
  /\ routine[e] \in {"confirm", "returned"} => closeCh[e]
  /\ closeCh[e] /\ routine[e] # "returned" <=> Closing(e)
  /\ routine[e] = "none" => routine[Peer(e)] = "none"
  /\ e \in conns /\ Peer(e) \notin conns => InCall("close", Peer(e))
  /\ InCall("send", e) => Peer(e) \in conns /\ sent[Peer(e)] > 0
  /\ routine[e] = "forward" => buff[e] # 0

\* The inductive invariant of the connections.
ConnInv == ConnTypeOK /\ NoPanic /\ \A e \in End : Paired(e)

-----------------------------------------------------------------------------
\* The other end of a connection.
LEMMA PeerFacts ==
  ASSUME NEW e \in End
  PROVE  Peer(e) \in End /\ Peer(Peer(e)) = e /\ Peer(e) # e /\ Peer(e)[1] = e[1]
BY DEF Peer, End

\* The call that has the mutex.
LEMMA InCallFacts ==
  /\ \A op, e : holder = None => ~InCall(op, e)
  /\ \A op \in {"send", "close", "closePeer"}, e \in End :
       holder = [op |-> op, end |-> e] => \A p, f : InCall(p, f) <=> p = op /\ f = e
  /\ \A op, e : holder' = None => ~InCall(op, e)'
  /\ \A op \in {"send", "close", "closePeer"}, e \in End :
       holder' = [op |-> op, end |-> e] => \A p, f : InCall(p, f)' <=> p = op /\ f = e
BY LocalConnAssumption DEF InCall

\* Nothing is registered, and nobody does anything, at first.
LEMMA ConnInitInv == ConnInit => ConnInv
<1>. SUFFICES ASSUME ConnInit PROVE ConnInv
  OBVIOUS
<1>1. ConnTypeOK
  <2>1. \A e \in End : Len(incoming[e]) = 0 /\ Len(outgoing[e]) = 0
    BY DEF ConnInit
  <2>2. incoming \in [End -> Seq(Msg)] /\ outgoing \in [End -> Seq(Msg)]
    BY DEF ConnInit
  <2>3. \A e \in End : Len(incoming[e]) <= LocalMaxBuffer /\ Len(outgoing[e]) <= LocalMaxBuffer
    BY <2>1, LocalConnAssumption
  <2>. QED
    BY <2>2, <2>3 DEF ConnInit, ConnTypeOK
<1>2. ASSUME NEW e \in End PROVE Paired(e)
  BY PeerFacts, InCallFacts DEF ConnInit, Paired, Closing
<1>. QED
  BY <1>1, <1>2 DEF ConnInv, NoPanic, ConnInit

\* connect.
LEMMA NewConnsInv == ASSUME ConnInv, NEW p \in Pair, NewConns(p) PROVE ConnInv'
<1>1. /\ conns' = conns \cup ({p} \X {"out", "inc"})
      /\ routine' = [e \in End |-> IF e[1] = p THEN "select" ELSE routine[e]]
      /\ holder' = holder /\ incoming' = incoming /\ outgoing' = outgoing /\ buff' = buff
      /\ closeCh' = closeCh /\ panicked' = panicked /\ sent' = sent /\ received' = received
      /\ holder = None /\ routine[<<p, "out">>] = "none"
  BY DEF NewConns, queueVars
<1>2. ConnTypeOK'
  <2>1. conns' \subseteq End
    BY <1>1 DEF End, ConnInv, ConnTypeOK
  <2>2. routine' \in [End -> {"none", "select", "forward", "confirm", "returned"}]
    BY <1>1 DEF ConnInv, ConnTypeOK
  <2>. QED
    BY <1>1, <2>1, <2>2 DEF ConnInv, ConnTypeOK
<1>3. ASSUME NEW e \in End PROVE Paired(e)'
  <2>1. e \in conns' <=> e \in conns \/ e[1] = p
    BY <1>1 DEF End
  <2>2. Peer(e) \in conns' <=> Peer(e) \in conns \/ e[1] = p
    BY <1>1, PeerFacts DEF End
  <2>3. ASSUME e[1] = p PROVE routine[e] = "none" /\ routine[Peer(e)] = "none"
    <3>1. <<p, "out">> \in End
      BY DEF End
    <3>2. e = <<p, "out">> \/ Peer(e) = <<p, "out">>
      BY <2>3 DEF End, Peer
    <3>. QED
      BY <3>1, <3>2, <1>1, PeerFacts DEF ConnInv, Paired
  <2>4. Paired(e) /\ Paired(Peer(e))
    BY PeerFacts DEF ConnInv
  <2>5. /\ routine'[e] = (IF e[1] = p THEN "select" ELSE routine[e])
        /\ routine'[Peer(e)] = (IF e[1] = p THEN "select" ELSE routine[Peer(e)])
    BY <1>1, PeerFacts
  <2>. QED
    BY <1>1, <2>1, <2>2, <2>3, <2>4, <2>5, PeerFacts, InCallFacts DEF Paired, Closing
<1>. QED
  BY <1>1, <1>2, <1>3 DEF ConnInv, NoPanic

\* Send, before it waits.
LEMMA SendStartInv == ASSUME ConnInv, NEW e \in End, SendStart(e) PROVE ConnInv'
<1>1. /\ holder = None /\ Peer(e) \in conns
      /\ sent' = [sent EXCEPT ![Peer(e)] = @ + 1]
      /\ holder' = [op |-> "send", end |-> e]
      /\ conns' = conns /\ incoming' = incoming /\ outgoing' = outgoing /\ buff' = buff
      /\ closeCh' = closeCh /\ routine' = routine /\ panicked' = panicked /\ received' = received
  BY DEF SendStart, queueVars
<1>2. Peer(e) \in End /\ Peer(Peer(e)) = e /\ Peer(e) # e /\ Paired(e) /\ Paired(Peer(e))
  BY PeerFacts DEF ConnInv
<1>3. ConnTypeOK'
  BY <1>1, <1>2 DEF ConnInv, ConnTypeOK
<1>7. /\ routine \in [End -> {"none", "select", "forward", "confirm", "returned"}]
      /\ closeCh \in [End -> BOOLEAN] /\ buff \in [End -> Msg \cup {0}]
      /\ sent \in [End -> Nat]
  BY DEF ConnInv, ConnTypeOK
<1>8. ASSUME NEW f \in End PROVE Paired(f)'
  <2>1. Peer(f) \in End /\ Peer(Peer(f)) = f /\ Peer(f) # f /\ Paired(f) /\ Paired(Peer(f))
    BY PeerFacts DEF ConnInv
  <2>2. /\ ~Closing(f) /\ ~Closing(f)'
        /\ InCall("send", f)' => f = e
        /\ ~InCall("close", Peer(f)) /\ ~InCall("close", Peer(f))'
    BY <1>1, <1>2, <2>1, InCallFacts DEF Closing
  <2>. QED
    BY <1>1, <1>2, <1>7, <2>1, <2>2 DEF Paired
<1>. QED
  BY <1>1, <1>2, <1>3, <1>8 DEF ConnInv, NoPanic, Paired

\* Send, when there is room.
LEMMA SendQueueInv == ASSUME ConnInv, NEW e \in End, SendQueue(e) PROVE ConnInv'
<1>1. /\ holder = [op |-> "send", end |-> e] /\ holder' = None
      /\ incoming' = [incoming EXCEPT ![Peer(e)] = Append(@, sent[Peer(e)])]
      /\ panicked' = (panicked \/ routine[Peer(e)] \in {"confirm", "returned"})
      /\ HasRoom(incoming[Peer(e)])
      /\ conns' = conns /\ outgoing' = outgoing /\ buff' = buff
      /\ closeCh' = closeCh /\ routine' = routine /\ sent' = sent /\ received' = received
  BY DEF SendQueue
<1>2. Peer(e) \in End /\ Peer(Peer(e)) = e /\ Peer(e) # e /\ Paired(e) /\ Paired(Peer(e))
  BY PeerFacts DEF ConnInv
<1>4. Peer(e) \in conns /\ sent[Peer(e)] > 0
  BY <1>1, <1>2, InCallFacts DEF Paired
<1>5. panicked' = FALSE
  BY <1>1, <1>2, <1>4 DEF Paired, ConnInv, NoPanic
<1>3. ConnTypeOK'
  <2>1. sent[Peer(e)] \in Msg
    BY <1>2, <1>4 DEF ConnInv, ConnTypeOK, Msg
  <2>2. /\ Append(incoming[Peer(e)], sent[Peer(e)]) \in Seq(Msg)
        /\ Len(Append(incoming[Peer(e)], sent[Peer(e)])) <= LocalMaxBuffer
    BY <1>1, <1>2, <2>1, LocalConnAssumption DEF ConnInv, ConnTypeOK, HasRoom
  <2>3. incoming' \in [End -> Seq(Msg)] /\ \A f \in End : Len(incoming'[f]) <= LocalMaxBuffer
    BY <1>1, <1>2, <2>2 DEF ConnInv, ConnTypeOK
  <2>. QED
    BY <1>1, <1>5, <2>3 DEF ConnInv, ConnTypeOK
<1>7. /\ routine \in [End -> {"none", "select", "forward", "confirm", "returned"}]
      /\ closeCh \in [End -> BOOLEAN] /\ buff \in [End -> Msg \cup {0}]
      /\ sent \in [End -> Nat]
  BY DEF ConnInv, ConnTypeOK
<1>8. ASSUME NEW f \in End PROVE Paired(f)'
  <2>1. Peer(f) \in End /\ Peer(Peer(f)) = f /\ Peer(f) # f /\ Paired(f) /\ Paired(Peer(f))
    BY PeerFacts DEF ConnInv
  <2>2. /\ ~Closing(f) /\ ~Closing(f)'
        /\ ~InCall("send", f)'
        /\ ~InCall("close", Peer(f)) /\ ~InCall("close", Peer(f))'
    BY <1>1, <1>2, <2>1, InCallFacts DEF Closing
  <2>. QED
    BY <1>1, <1>2, <1>7, <2>1, <2>2 DEF Paired
<1>. QED
  BY <1>3, <1>5, <1>8 DEF ConnInv, NoPanic

\* start() takes a message...
LEMMA ForwardInv == ASSUME ConnInv, NEW e \in End, Forward(e) PROVE ConnInv'
<1>1. /\ routine[e] = "select" /\ incoming[e] # <<>>
      /\ buff' = [buff EXCEPT ![e] = Head(incoming[e])]
      /\ incoming' = [incoming EXCEPT ![e] = Tail(@)]
      /\ routine' = [routine EXCEPT ![e] = "forward"]
      /\ conns' = conns /\ holder' = holder /\ outgoing' = outgoing
      /\ closeCh' = closeCh /\ panicked' = panicked /\ sent' = sent /\ received' = received
  BY DEF Forward
<1>2. Peer(e) \in End /\ Peer(Peer(e)) = e /\ Peer(e) # e /\ Paired(e) /\ Paired(Peer(e))
  BY PeerFacts DEF ConnInv
<1>4. Head(incoming[e]) \in Msg /\ Head(incoming[e]) # 0
  BY <1>1 DEF ConnInv, ConnTypeOK, Msg
<1>3. ConnTypeOK'
  <2>1. Tail(incoming[e]) \in Seq(Msg) /\ Len(Tail(incoming[e])) <= LocalMaxBuffer
    BY <1>1, <1>2, LocalConnAssumption DEF ConnInv, ConnTypeOK
  <2>2. incoming' \in [End -> Seq(Msg)] /\ \A f \in End : Len(incoming'[f]) <= LocalMaxBuffer
    BY <1>1, <1>2, <2>1 DEF ConnInv, ConnTypeOK
  <2>3. buff' \in [End -> Msg \cup {0}]
    BY <1>1, <1>4 DEF ConnInv, ConnTypeOK
  <2>. QED
    BY <1>1, <2>2, <2>3 DEF ConnInv, ConnTypeOK
<1>7. /\ routine \in [End -> {"none", "select", "forward", "confirm", "returned"}]
      /\ closeCh \in [End -> BOOLEAN] /\ buff \in [End -> Msg \cup {0}]
      /\ sent \in [End -> Nat]
  BY DEF ConnInv, ConnTypeOK
<1>8. ASSUME NEW f \in End PROVE Paired(f)'
  <2>1. Peer(f) \in End /\ Peer(Peer(f)) = f /\ Peer(f) # f /\ Paired(f) /\ Paired(Peer(f))
    BY PeerFacts DEF ConnInv
  <2>. QED
    BY <1>1, <1>2, <1>4, <1>7, <2>1 DEF Paired, Closing, InCall
<1>. QED
  BY <1>1, <1>2, <1>4, <1>3, <1>8 DEF ConnInv, NoPanic, Paired

\* ... and hands it on.
LEMMA ForwardedInv == ASSUME ConnInv, NEW e \in End, Forwarded(e) PROVE ConnInv'
<1>1. /\ routine[e] = "forward" /\ HasRoom(outgoing[e])
      /\ outgoing' = [outgoing EXCEPT ![e] = Append(@, buff[e])]
      /\ buff' = [buff EXCEPT ![e] = 0]
      /\ routine' = [routine EXCEPT ![e] = "select"]
      /\ conns' = conns /\ holder' = holder /\ incoming' = incoming
      /\ closeCh' = closeCh /\ panicked' = panicked /\ sent' = sent /\ received' = received
  BY DEF Forwarded
<1>2. Peer(e) \in End /\ Peer(Peer(e)) = e /\ Peer(e) # e /\ Paired(e) /\ Paired(Peer(e))
  BY PeerFacts DEF ConnInv
<1>3. ConnTypeOK'
  <2>1. buff[e] \in Msg
    BY <1>1, <1>2 DEF ConnInv, ConnTypeOK, Paired
  <2>2. /\ Append(outgoing[e], buff[e]) \in Seq(Msg)
        /\ Len(Append(outgoing[e], buff[e])) <= LocalMaxBuffer
    BY <1>1, <2>1, LocalConnAssumption DEF ConnInv, ConnTypeOK, HasRoom
  <2>3. outgoing' \in [End -> Seq(Msg)] /\ \A f \in End : Len(outgoing'[f]) <= LocalMaxBuffer
    BY <1>1, <2>2 DEF ConnInv, ConnTypeOK
  <2>. QED
    BY <1>1, <2>3 DEF ConnInv, ConnTypeOK
<1>7. /\ routine \in [End -> {"none", "select", "forward", "confirm", "returned"}]
      /\ closeCh \in [End -> BOOLEAN] /\ buff \in [End -> Msg \cup {0}]
      /\ sent \in [End -> Nat]
  BY DEF ConnInv, ConnTypeOK
<1>8. ASSUME NEW f \in End PROVE Paired(f)'
  <2>1. Peer(f) \in End /\ Peer(Peer(f)) = f /\ Peer(f) # f /\ Paired(f) /\ Paired(Peer(f))
    BY PeerFacts DEF ConnInv
  <2>. QED
    BY <1>1, <1>2, <1>7, <2>1 DEF Paired, Closing, InCall
<1>. QED
  BY <1>1, <1>2, <1>3, <1>8 DEF ConnInv, NoPanic, Paired

\* start() closes its queues.
LEMMA RoutineClosesInv == ASSUME ConnInv, NEW e \in End, RoutineCloses(e) PROVE ConnInv'
<1>1. /\ routine[e] = "select" /\ closeCh[e]
      /\ routine' = [routine EXCEPT ![e] = "confirm"]
      /\ conns' = conns /\ holder' = holder /\ incoming' = incoming /\ outgoing' = outgoing
      /\ buff' = buff
      /\ closeCh' = closeCh /\ panicked' = panicked /\ sent' = sent /\ received' = received
  BY DEF RoutineCloses, Confirming, queueVars
<1>2. Peer(e) \in End /\ Peer(Peer(e)) = e /\ Peer(e) # e /\ Paired(e) /\ Paired(Peer(e))
  BY PeerFacts DEF ConnInv
<1>3. ConnTypeOK'
  BY <1>1, <1>2 DEF ConnInv, ConnTypeOK
<1>7. /\ routine \in [End -> {"none", "select", "forward", "confirm", "returned"}]
      /\ closeCh \in [End -> BOOLEAN] /\ buff \in [End -> Msg \cup {0}]
      /\ sent \in [End -> Nat]
  BY DEF ConnInv, ConnTypeOK
<1>8. ASSUME NEW f \in End PROVE Paired(f)'
  <2>1. Peer(f) \in End /\ Peer(Peer(f)) = f /\ Peer(f) # f /\ Paired(f) /\ Paired(Peer(f))
    BY PeerFacts DEF ConnInv
  <2>. QED
    BY <1>1, <1>2, <1>7, <2>1 DEF Paired, Closing, InCall
<1>. QED
  BY <1>1, <1>2, <1>3, <1>8 DEF ConnInv, NoPanic, Paired

\* Receive.
LEMMA ReceiveInv == ASSUME ConnInv, NEW e \in End, Receive(e) PROVE ConnInv'
<1>1. /\ outgoing[e] # <<>> /\ outgoing' = [outgoing EXCEPT ![e] = Tail(@)]
      /\ conns' = conns /\ holder' = holder /\ incoming' = incoming /\ buff' = buff
      /\ closeCh' = closeCh /\ routine' = routine /\ panicked' = panicked /\ sent' = sent
      /\ received' = [received EXCEPT ![e] = Head(outgoing[e])]
  BY DEF Receive
<1>2. Peer(e) \in End /\ Peer(Peer(e)) = e /\ Peer(e) # e /\ Paired(e) /\ Paired(Peer(e))
  BY PeerFacts DEF ConnInv
<1>3. ConnTypeOK'
  <2>1. Tail(outgoing[e]) \in Seq(Msg) /\ Len(Tail(outgoing[e])) <= LocalMaxBuffer
    BY <1>1, LocalConnAssumption DEF ConnInv, ConnTypeOK
  <2>2. outgoing' \in [End -> Seq(Msg)] /\ \A f \in End : Len(outgoing'[f]) <= LocalMaxBuffer
    BY <1>1, <2>1 DEF ConnInv, ConnTypeOK
  <2>3. received' \in [End -> Nat]
    BY <1>1 DEF ConnInv, ConnTypeOK, Msg
  <2>. QED
    BY <1>1, <2>2, <2>3 DEF ConnInv, ConnTypeOK
<1>7. /\ routine \in [End -> {"none", "select", "forward", "confirm", "returned"}]
      /\ closeCh \in [End -> BOOLEAN] /\ buff \in [End -> Msg \cup {0}]
      /\ sent \in [End -> Nat]
  BY DEF ConnInv, ConnTypeOK
<1>8. ASSUME NEW f \in End PROVE Paired(f)'
  <2>1. Peer(f) \in End /\ Peer(Peer(f)) = f /\ Peer(f) # f /\ Paired(f) /\ Paired(Peer(f))
    BY PeerFacts DEF ConnInv
  <2>. QED
    BY <1>1, <1>2, <1>7, <2>1 DEF Paired, Closing, InCall
<1>. QED
  BY <1>1, <1>2, <1>3, <1>8 DEF ConnInv, NoPanic, Paired

\* Close: this end...
LEMMA CloseStartInv == ASSUME ConnInv, NEW e \in End, CloseStart(e) PROVE ConnInv'
<1>1. /\ holder = None /\ e \in conns
      /\ conns' = conns \ {e}
      /\ closeCh' = [closeCh EXCEPT ![e] = TRUE]
      /\ panicked' = (panicked \/ closeCh[e])
      /\ holder' = [op |-> "close", end |-> e]
      /\ incoming' = incoming /\ outgoing' = outgoing /\ buff' = buff
      /\ routine' = routine /\ sent' = sent /\ received' = received
  BY DEF CloseStart, Closable, queueVars
<1>2. Peer(e) \in End /\ Peer(Peer(e)) = e /\ Peer(e) # e /\ Paired(e) /\ Paired(Peer(e))
  BY PeerFacts DEF ConnInv
<1>3. ConnTypeOK'
  BY <1>1, <1>2 DEF ConnInv, ConnTypeOK
<1>7. /\ routine \in [End -> {"none", "select", "forward", "confirm", "returned"}]
      /\ closeCh \in [End -> BOOLEAN] /\ buff \in [End -> Msg \cup {0}]
      /\ sent \in [End -> Nat]
  BY DEF ConnInv, ConnTypeOK
<1>8. ASSUME NEW f \in End PROVE Paired(f)'
  <2>1. Peer(f) \in End /\ Peer(Peer(f)) = f /\ Peer(f) # f /\ Paired(f) /\ Paired(Peer(f))
    BY PeerFacts DEF ConnInv
  <2>2. /\ ~Closing(f) /\ (Closing(f)' <=> f = e)
        /\ ~InCall("send", f)' /\ ~InCall("close", Peer(f))
        /\ InCall("close", Peer(f))' <=> Peer(f) = e
    BY <1>1, <1>2, <2>1, InCallFacts DEF Closing
  <2>. QED
    BY <1>1, <1>2, <1>7, <2>1, <2>2 DEF Paired
<1>. QED
  BY <1>1, <1>2, <1>3, <1>8 DEF ConnInv, NoPanic, Paired

\* ... the remote end, if it is registered...
LEMMA ClosePeerInv == ASSUME ConnInv, NEW e \in End, ClosePeer(e) PROVE ConnInv'
<1>1. /\ holder = [op |-> "close", end |-> e] /\ routine[e] = "confirm"
      /\ routine' = [routine EXCEPT ![e] = "returned"]
      /\ \/ /\ Peer(e) \in conns /\ conns' = conns \ {Peer(e)}
            /\ closeCh' = [closeCh EXCEPT ![Peer(e)] = TRUE]
            /\ panicked' = (panicked \/ closeCh[Peer(e)])
            /\ holder' = [op |-> "closePeer", end |-> e]
         \/ /\ Peer(e) \notin conns /\ holder' = None
            /\ conns' = conns /\ closeCh' = closeCh /\ panicked' = panicked
      /\ incoming' = incoming /\ outgoing' = outgoing /\ buff' = buff /\ sent' = sent /\ received' = received
  BY DEF ClosePeer, Forgotten, queueVars
<1>2. Peer(e) \in End /\ Peer(Peer(e)) = e /\ Peer(e) # e /\ Paired(e) /\ Paired(Peer(e))
  BY PeerFacts DEF ConnInv
<1>4. panicked' = FALSE
  <2>1. panicked = FALSE /\ (Peer(e) \in conns => closeCh[Peer(e)] = FALSE)
    BY <1>2 DEF Paired, ConnInv, ConnTypeOK, NoPanic
  <2>. QED
    BY <1>1, <2>1
<1>3. ConnTypeOK'
  <2>1. /\ closeCh' \in [End -> BOOLEAN] /\ conns' \subseteq End
        /\ routine' \in [End -> {"none", "select", "forward", "confirm", "returned"}]
    BY <1>1, <1>2 DEF ConnInv, ConnTypeOK
  <2>2. holder' \in [op : {"send", "close", "closePeer"}, end : End] \cup {None}
    BY <1>1
  <2>. QED
    BY <1>1, <1>4, <2>1, <2>2 DEF ConnInv, ConnTypeOK
<1>7. /\ routine \in [End -> {"none", "select", "forward", "confirm", "returned"}]
      /\ closeCh \in [End -> BOOLEAN] /\ buff \in [End -> Msg \cup {0}]
      /\ sent \in [End -> Nat]
  BY DEF ConnInv, ConnTypeOK
<1>8. ASSUME NEW f \in End PROVE Paired(f)'
  <2>1. Peer(f) \in End /\ Peer(Peer(f)) = f /\ Peer(f) # f /\ Paired(f) /\ Paired(Peer(f))
    BY PeerFacts DEF ConnInv
  <2>2. /\ Closing(f) <=> f = e
        /\ Closing(f)' <=> Peer(e) \in conns /\ f = Peer(e)
        /\ ~InCall("send", f)' /\ ~InCall("close", Peer(f))'
        /\ InCall("close", Peer(f)) <=> Peer(f) = e
    BY <1>1, <1>2, <2>1, InCallFacts DEF Closing
  <2>. QED
    BY <1>1, <1>2, <1>7, <2>1, <2>2 DEF Paired
<1>. QED
  BY <1>3, <1>4, <1>8 DEF ConnInv, NoPanic

\* ... and its end.
LEMMA CloseReturnsInv == ASSUME ConnInv, NEW e \in End, CloseReturns(e) PROVE ConnInv'
<1>1. /\ holder = [op |-> "closePeer", end |-> e] /\ routine[Peer(e)] = "confirm"
      /\ holder' = None
      /\ routine' = [routine EXCEPT ![Peer(e)] = "returned"]
      /\ conns' = conns /\ incoming' = incoming /\ outgoing' = outgoing /\ buff' = buff
      /\ closeCh' = closeCh /\ panicked' = panicked /\ sent' = sent /\ received' = received
  BY DEF CloseReturns, queueVars
<1>2. Peer(e) \in End /\ Peer(Peer(e)) = e /\ Peer(e) # e /\ Paired(e) /\ Paired(Peer(e))
  BY PeerFacts DEF ConnInv
<1>3. ConnTypeOK'
  BY <1>1, <1>2 DEF ConnInv, ConnTypeOK
<1>7. /\ routine \in [End -> {"none", "select", "forward", "confirm", "returned"}]
      /\ closeCh \in [End -> BOOLEAN] /\ buff \in [End -> Msg \cup {0}]
      /\ sent \in [End -> Nat]
  BY DEF ConnInv, ConnTypeOK
<1>8. ASSUME NEW f \in End PROVE Paired(f)'
  <2>1. Peer(f) \in End /\ Peer(Peer(f)) = f /\ Peer(f) # f /\ Paired(f) /\ Paired(Peer(f))
    BY PeerFacts DEF ConnInv
  <2>2. /\ (Closing(f) <=> f = Peer(e)) /\ ~Closing(f)'
        /\ ~InCall("send", f)' /\ ~InCall("close", Peer(f))'
        /\ ~InCall("close", Peer(f))
    BY <1>1, <1>2, <2>1, InCallFacts DEF Closing
  <2>. QED
    BY <1>1, <1>2, <1>7, <2>1, <2>2 DEF Paired
<1>. QED
  BY <1>1, <1>2, <1>3, <1>8 DEF ConnInv, NoPanic, Paired

\* A step that leaves the connections alone.
LEMMA ConnUnchangedInv == ASSUME ConnInv, UNCHANGED connVars PROVE ConnInv'
BY DEF ConnInv, connVars, queueVars, ConnTypeOK, NoPanic, Paired, Closing, InCall

\* Any step of a connection.
LEMMA ConnNextInv == ASSUME ConnInv, ConnNext PROVE ConnInv'
BY SendStartInv, SendQueueInv, ForwardInv, ForwardedInv, RoutineClosesInv, ReceiveInv,
   CloseStartInv, ClosePeerInv, CloseReturnsInv DEF ConnNext, CallGoesOn, RoutineStep

\* EndsTogether, from the invariant.
LEMMA ConnInvEnds == ConnInv => EndsTogether
<1>. SUFFICES ASSUME ConnInv, holder = None, NEW e \in End
              PROVE  /\ e \in conns <=> Peer(e) \in conns
                     /\ e \in conns <=> routine[e] \in {"select", "forward"}
  BY DEF EndsTogether
<1>1. Peer(e) \in End /\ Peer(Peer(e)) = e /\ Paired(e) /\ Paired(Peer(e))
  BY PeerFacts DEF ConnInv
<1>2. ~Closing(e) /\ ~InCall("close", e) /\ ~InCall("close", Peer(e))
  BY <1>1, InCallFacts DEF Closing
<1>3. routine[e] \in {"none", "select", "forward", "confirm", "returned"}
  BY DEF ConnInv, ConnTypeOK
<1>. QED
  BY <1>1, <1>2, <1>3 DEF Paired

-----------------------------------------------------------------------------
(***************************************************************************)
(* The messages of a connection.                                           *)
(***************************************************************************)

\* The messages of an end, message by message: r is the last one received, o, b and q
\* have those that follow, up to the n-th (b is 0 when there is none in between).
Held(b) == IF b = 0 THEN 0 ELSE 1

HeldSeq(b) == IF b = 0 THEN <<>> ELSE <<b>>

Chain(o, b, q, r, n) ==
  /\ n = r + Len(o) + Held(b) + Len(q)
  /\ \A i \in 1..Len(o) : o[i] = r + i
  /\ b # 0 => b = r + Len(o) + 1
  /\ \A i \in 1..Len(q) : q[i] = r + Len(o) + Held(b) + i

\* The inductive invariant of the connections with their messages.
Ordered(e) ==
  /\ routine[e] # "forward" => buff[e] = 0
  /\ Chain(outgoing[e], buff[e], incoming[e], received[e], Queued(e))

OrderInv == ConnInv /\ \A e \in End : Ordered(e)

\* A message is put at the end, ...
LEMMA ChainAppend ==
  ASSUME NEW o \in Seq(Nat), NEW q \in Seq(Nat), NEW b \in Nat, NEW r \in Nat, NEW n \in Nat,
         Chain(o, b, q, r, n)
  PROVE  Chain(o, b, Append(q, n + 1), r, n + 1)
<1>1. /\ Append(q, n + 1) \in Seq(Nat) /\ Len(Append(q, n + 1)) = Len(q) + 1
      /\ \A i \in 1..Len(q) : Append(q, n + 1)[i] = q[i]
      /\ Append(q, n + 1)[Len(q) + 1] = n + 1
  OBVIOUS
<1>2. Held(b) \in Nat /\ Len(o) \in Nat /\ Len(q) \in Nat
  BY DEF Held
<1>. QED
  BY <1>1, <1>2 DEF Chain

\* ... taken from the one queue, ...
LEMMA ChainTake ==
  ASSUME NEW o \in Seq(Nat), NEW q \in Seq(Nat), NEW r \in Nat, NEW n \in Nat,
         Chain(o, 0, q, r, n), q # <<>>
  PROVE  Chain(o, Head(q), Tail(q), r, n)
<1>1. /\ Tail(q) \in Seq(Nat) /\ Len(Tail(q)) = Len(q) - 1 /\ Len(q) > 0
      /\ \A i \in 1..Len(Tail(q)) : i + 1 \in 1..Len(q) /\ Tail(q)[i] = q[i + 1]
      /\ Head(q) = q[1]
  OBVIOUS
<1>2. Held(0) = 0 /\ Len(o) \in Nat /\ Len(q) \in Nat
  BY DEF Held
<1>3. Head(q) = r + Len(o) + 1
  BY <1>1, <1>2 DEF Chain
<1>4. Held(Head(q)) = 1
  BY <1>2, <1>3 DEF Held
<1>. QED
  BY <1>1, <1>2, <1>3, <1>4 DEF Chain

\* ... put into the other, ...
LEMMA ChainPass ==
  ASSUME NEW o \in Seq(Nat), NEW q \in Seq(Nat), NEW b \in Nat, NEW r \in Nat, NEW n \in Nat,
         Chain(o, b, q, r, n), b # 0
  PROVE  Chain(Append(o, b), 0, q, r, n)
<1>1. /\ Append(o, b) \in Seq(Nat) /\ Len(Append(o, b)) = Len(o) + 1
      /\ \A i \in 1..Len(o) : Append(o, b)[i] = o[i]
      /\ Append(o, b)[Len(o) + 1] = b
  OBVIOUS
<1>2. Held(0) = 0 /\ Held(b) = 1 /\ Len(o) \in Nat /\ Len(q) \in Nat
  BY DEF Held
<1>3. b = r + Len(o) + 1 /\ \A i \in 1..Len(o) : o[i] = r + i
  BY DEF Chain
<1>4. ASSUME NEW i \in 1..Len(Append(o, b)) PROVE Append(o, b)[i] = r + i
  <2>1. i \in 1..Len(o) \/ i = Len(o) + 1
    BY <1>1, <1>2
  <2>2. i \in 1..Len(o) => Append(o, b)[i] = r + i
    BY <1>1, <1>3
  <2>3. i = Len(o) + 1 => Append(o, b)[i] = r + i
    BY <1>1, <1>2, <1>3
  <2>. QED
    BY <2>1, <2>2, <2>3
<1>5. /\ n = r + Len(Append(o, b)) + Len(q)
      /\ \A i \in 1..Len(q) : q[i] = r + Len(Append(o, b)) + i
  BY <1>1, <1>2 DEF Chain
<1>. QED
  BY <1>2, <1>4, <1>5 DEF Chain

\* ... and received, which is the next one.
LEMMA ChainReceive ==
  ASSUME NEW o \in Seq(Nat), NEW q \in Seq(Nat), NEW b \in Nat, NEW r \in Nat, NEW n \in Nat,
         Chain(o, b, q, r, n), o # <<>>
  PROVE  Chain(Tail(o), b, q, Head(o), n) /\ Head(o) = r + 1
<1>1. /\ Tail(o) \in Seq(Nat) /\ Len(Tail(o)) = Len(o) - 1 /\ Len(o) > 0
      /\ \A i \in 1..Len(Tail(o)) : i + 1 \in 1..Len(o) /\ Tail(o)[i] = o[i + 1]
      /\ Head(o) = o[1]
  OBVIOUS
<1>2. Held(b) \in Nat /\ Len(o) \in Nat /\ Len(q) \in Nat
  BY DEF Held
<1>3. Head(o) = r + 1
  BY <1>1, <1>2 DEF Chain
<1>4. n = Head(o) + Len(Tail(o)) + Held(b) + Len(q)
  BY <1>1, <1>2, <1>3 DEF Chain
<1>6. ASSUME NEW i \in 1..Len(Tail(o)) PROVE Tail(o)[i] = Head(o) + i
  <2>1. o[i + 1] = r + (i + 1)
    BY <1>1 DEF Chain
  <2>. QED
    BY <1>1, <1>2, <1>3, <2>1
<1>5. /\ b # 0 => b = Head(o) + Len(Tail(o)) + 1
      /\ \A i \in 1..Len(q) : q[i] = Head(o) + Len(Tail(o)) + Held(b) + i
  BY <1>1, <1>2, <1>3 DEF Chain
<1>. QED
  BY <1>3, <1>4, <1>5, <1>6 DEF Chain

\* All of them together are one sequence.
LEMMA ChainSeq ==
  ASSUME NEW o \in Seq(Nat), NEW q \in Seq(Nat), NEW b \in Nat, NEW r \in Nat, NEW n \in Nat,
         Chain(o, b, q, r, n)
  PROVE  o \o HeldSeq(b) \o q = Following(r, n)
<1>. DEFINE h == HeldSeq(b)
<1>1. h \in Seq(Nat) /\ Len(h) = Held(b) /\ (b # 0 => h[1] = b)
  BY DEF Held, HeldSeq
<1>2. /\ Held(b) \in Nat /\ Len(o) \in Nat /\ Len(q) \in Nat
      /\ Held(b) <= 1 /\ (Held(b) = 1 <=> b # 0)
  BY DEF Held
<1>. HIDE DEF h
<1>3. /\ o \o h \in Seq(Nat) /\ Len(o \o h) = Len(o) + Held(b)
      /\ \A i \in 1..(Len(o) + Held(b)) :
           (o \o h)[i] = IF i <= Len(o) THEN o[i] ELSE h[i - Len(o)]
  <2>1. /\ o \o h \in Seq(Nat) /\ Len(o \o h) = Len(o) + Len(h)
        /\ \A i \in 1..(Len(o) + Len(h)) :
             (o \o h)[i] = IF i <= Len(o) THEN o[i] ELSE h[i - Len(o)]
    BY <1>1, ConcatProperties, ZenonT(30)
  <2>. QED
    BY <1>1, <2>1
<1>. DEFINE oh == o \o h
<1>4. oh \in Seq(Nat) /\ Len(oh) = Len(o) + Held(b)
  BY <1>3
<1>5. ASSUME NEW i \in 1..(Len(o) + Held(b))
      PROVE  oh[i] = r + i
  <2>1. CASE i <= Len(o)
    BY <1>2, <1>3, <2>1 DEF Chain
  <2>2. CASE ~(i <= Len(o))
    <3>1. i = Len(o) + 1 /\ b # 0 /\ i - Len(o) = 1
      BY <1>2, <2>2
    <3>2. oh[i] = h[1]
      BY <1>3, <2>2, <3>1
    <3>. QED
      BY <1>1, <3>1, <3>2 DEF Chain
  <2>. QED
    BY <2>1, <2>2
<1>. HIDE DEF oh
<1>6. /\ oh \o q \in Seq(Nat) /\ Len(oh \o q) = Len(oh) + Len(q)
      /\ \A i \in 1..(Len(oh) + Len(q)) :
           (oh \o q)[i] = IF i <= Len(oh) THEN oh[i] ELSE q[i - Len(oh)]
  BY <1>4, ConcatProperties, ZenonT(30)
<1>7. n - r = Len(oh) + Len(q) /\ n - r \in Nat
  BY <1>2, <1>4 DEF Chain
<1>8. ASSUME NEW i \in 1..(n - r)
      PROVE  (oh \o q)[i] = r + i
  <2>1. CASE i <= Len(oh)
    BY <1>2, <1>4, <1>5, <1>6, <1>7, <2>1
  <2>2. CASE ~(i <= Len(oh))
    <3>1. i - Len(oh) \in 1..Len(q)
      BY <1>2, <1>4, <1>7, <2>2
    <3>2. q[i - Len(oh)] = r + Len(o) + Held(b) + (i - Len(oh))
      BY <3>1 DEF Chain
    <3>3. (oh \o q)[i] = q[i - Len(oh)]
      <4>1. i \in 1..(Len(oh) + Len(q))
        BY <1>7
      <4>. QED
        BY <1>6, <2>2, <4>1, Zenon
    <3>4. r + Len(o) + Held(b) + (i - Len(oh)) = r + i
      <4>1. i \in Nat /\ \A x, y \in Nat : r + x + y + (i - (x + y)) = r + i
        BY <1>7
      <4>. QED
        BY <1>2, <1>4, <4>1
    <3>. QED
      BY <3>2, <3>3, <3>4
  <2>. QED
    BY <2>1, <2>2
<1>9. oh \o q = [i \in 1..Len(oh \o q) |-> (oh \o q)[i]]
  BY <1>6, LenProperties
<1>10. oh \o q = [i \in 1..(n - r) |-> r + i]
  BY <1>6, <1>7, <1>8, <1>9
<1>. QED
  BY <1>10 DEF oh, h, Following

\* The messages of an end are numbers.
LEMMA MessageTypes ==
  ASSUME ConnInv, NEW e \in End
  PROVE  /\ incoming[e] \in Seq(Nat) /\ outgoing[e] \in Seq(Nat)
         /\ received[e] \in Nat /\ buff[e] \in Nat /\ Queued(e) \in Nat
<1>1. InCall("send", Peer(e)) => sent[e] > 0
  BY PeerFacts DEF ConnInv, Paired
<1>2. holder = [op |-> "send", end |-> Peer(e)] => InCall("send", Peer(e))
  BY PeerFacts, InCallFacts
<1>. QED
  BY <1>1, <1>2 DEF ConnInv, ConnTypeOK, Msg, Queued

\* What has gone through an end that holds no message in between is one sequence, up to
\* those left in its incomingQueue.
LEMMA ChainPrefix ==
  ASSUME NEW o \in Seq(Nat), NEW q \in Seq(Nat), NEW r \in Nat, NEW n \in Nat,
         Chain(o, 0, q, r, n)
  PROVE  o = Following(r, n - Len(q))
<1>1. Len(o) \in Nat /\ Len(q) \in Nat /\ n - Len(q) - r = Len(o)
  BY DEF Chain, Held
<1>2. \A i \in 1..Len(o) : o[i] = r + i
  BY DEF Chain
<1>3. o = [i \in 1..Len(o) |-> o[i]]
  BY LenProperties
<1>4. o = [i \in 1..Len(o) |-> r + i]
  BY <1>2, <1>3
<1>. QED
  BY <1>1, <1>4 DEF Following

\* The property, from the invariant.
LEMMA OrderedMessages == OrderInv => MessagesInOrder
<1>. SUFFICES ASSUME OrderInv, NEW e \in End
              PROVE  Receivable(e) = Following(received[e], Queued(e) - Abandoned(e))
  BY DEF MessagesInOrder
<1>1. /\ Chain(outgoing[e], buff[e], incoming[e], received[e], Queued(e))
      /\ QueuesClosed(e) => buff[e] = 0
  BY DEF OrderInv, Ordered, QueuesClosed
<1>2. /\ incoming[e] \in Seq(Nat) /\ outgoing[e] \in Seq(Nat)
      /\ received[e] \in Nat /\ buff[e] \in Nat /\ Queued(e) \in Nat
  BY MessageTypes DEF OrderInv
<1>3. \A o, q \in Seq(Nat), b, r, n \in Nat :
        /\ Chain(o, b, q, r, n) => o \o HeldSeq(b) \o q = Following(r, n)
        /\ Chain(o, 0, q, r, n) => o = Following(r, n - Len(q))
  BY ChainSeq, ChainPrefix
<1>4. /\ outgoing[e] \o HeldSeq(buff[e]) \o incoming[e] = Following(received[e], Queued(e))
      /\ QueuesClosed(e) =>
           outgoing[e] = Following(received[e], Queued(e) - Len(incoming[e]))
  <2>. DEFINE o == outgoing[e]
              q == incoming[e]
              b == buff[e]
              r == received[e]
              n == Queued(e)
  <2>1. /\ o \in Seq(Nat) /\ q \in Seq(Nat) /\ b \in Nat /\ r \in Nat /\ n \in Nat
        /\ Chain(o, b, q, r, n) /\ (QueuesClosed(e) => b = 0)
    BY <1>1, <1>2
  <2>. HIDE DEF o, q, b, r, n
  <2>2. o \o HeldSeq(b) \o q = Following(r, n)
    BY <1>3, <2>1
  <2>3. QueuesClosed(e) => o = Following(r, n - Len(q))
    BY <1>3, <2>1
  <2>. QED
    BY <2>2, <2>3 DEF o, q, b, r, n
<1>5. CASE QueuesClosed(e)
  BY <1>4, <1>5 DEF Receivable, Abandoned
<1>6. CASE ~QueuesClosed(e)
  <2>1. Queued(e) - Abandoned(e) = Queued(e)
    BY <1>2, <1>6 DEF Abandoned
  <2>. QED
    BY <1>4, <1>6, <2>1 DEF Receivable, InTransit, InHand, HeldSeq
<1>. QED
  BY <1>5, <1>6

\* There are no messages at first.
LEMMA ConnInitOrder == ConnInit => OrderInv
<1>. SUFFICES ASSUME ConnInit PROVE OrderInv
  OBVIOUS
<1>1. ASSUME NEW e \in End PROVE Ordered(e)
  <2>1. /\ outgoing[e] = <<>> /\ incoming[e] = <<>> /\ buff[e] = 0 /\ received[e] = 0
        /\ sent[e] = 0 /\ holder = None
    BY DEF ConnInit
  <2>2. Queued(e) = 0
    BY <2>1, PeerFacts, LocalConnAssumption DEF Queued
  <2>. QED
    BY <2>1, <2>2 DEF Ordered, Chain, Held
<1>. QED
  BY <1>1, ConnInitInv DEF OrderInv

\* The messages at an end stay as they are.
SameMessages(e) ==
  /\ incoming'[e] = incoming[e] /\ outgoing'[e] = outgoing[e] /\ buff'[e] = buff[e]
  /\ received'[e] = received[e] /\ Queued(e)' = Queued(e)
  /\ routine'[e] = "forward" <=> routine[e] = "forward"

LEMMA SameOrder == ASSUME NEW e \in End, Ordered(e), SameMessages(e) PROVE Ordered(e)'
BY DEF Ordered, SameMessages

\* Calls of connect, of Close and of Send up to its wait, and start() when it ends.
LEMMA NewConnsOrder ==
  ASSUME OrderInv, NEW p \in Pair, NewConns(p) PROVE OrderInv'
<1>1. ASSUME NEW e \in End PROVE SameMessages(e)
  <2>1. e[1] = p => routine[e] # "forward"
    <3>1. <<p, "out">> \in End
      BY DEF End
    <3>2. e[1] = p => e = <<p, "out">> \/ Peer(e) = <<p, "out">>
      BY DEF End, Peer
    <3>3. routine[<<p, "out">>] = "none"
      BY DEF NewConns
    <3>4. routine[Peer(e)] = "none" => routine[e] = "none"
      BY PeerFacts DEF OrderInv, ConnInv, Paired
    <3>. QED
      BY <3>2, <3>3, <3>4
  <2>. QED
    BY <2>1 DEF NewConns, SameMessages, Queued, queueVars
<1>. QED
  BY <1>1, SameOrder, NewConnsInv DEF OrderInv

LEMMA CallsOrder ==
  ASSUME OrderInv, NEW e \in End,
         SendStart(e) \/ CloseStart(e) \/ ClosePeer(e) \/ CloseReturns(e) \/ RoutineCloses(e)
  PROVE  OrderInv'
<1>1. /\ incoming' = incoming /\ outgoing' = outgoing /\ buff' = buff
      /\ received' = received
  BY DEF SendStart, CloseStart, ClosePeer, CloseReturns, RoutineCloses, queueVars
<1>2. ASSUME NEW f \in End PROVE SameMessages(f)
  <2>1. /\ Peer(e) \in End /\ Peer(Peer(e)) = e /\ Peer(f) \in End /\ Peer(Peer(f)) = f
    BY PeerFacts
  <2>2. routine'[f] = "forward" <=> routine[f] = "forward"
    BY <2>1 DEF SendStart, CloseStart, ClosePeer, CloseReturns, RoutineCloses, Confirming,
                OrderInv, ConnInv, ConnTypeOK
  <2>3. Queued(f)' = Queued(f)
    <3>1. None # [op |-> "send", end |-> Peer(f)]
      BY <2>1, LocalConnAssumption
    <3>2. CASE SendStart(e)
      <4>1. /\ holder = None /\ holder' = [op |-> "send", end |-> e]
            /\ sent' = [sent EXCEPT ![Peer(e)] = @ + 1] /\ sent \in [End -> Nat]
        BY <3>2 DEF SendStart, OrderInv, ConnInv, ConnTypeOK
      <4>2. Queued(f) = sent[f] /\ sent[f] \in Nat
        BY <3>1, <4>1 DEF Queued
      <4>3. CASE f = Peer(e)
        BY <2>1, <4>1, <4>2, <4>3 DEF Queued
      <4>4. CASE f # Peer(e)
        <5>1. e # Peer(f)
          BY <2>1, <4>4
        <5>. QED
          BY <4>1, <4>2, <4>4, <5>1 DEF Queued
      <4>. QED
        BY <4>3, <4>4
    <3>3. CASE CloseStart(e)
      BY <3>1, <3>3 DEF CloseStart, Queued
    <3>4. CASE ClosePeer(e)
      BY <3>1, <3>4 DEF ClosePeer, Queued
    <3>5. CASE CloseReturns(e)
      BY <3>1, <3>5 DEF CloseReturns, Queued
    <3>6. CASE RoutineCloses(e)
      BY <3>6 DEF RoutineCloses, Queued
    <3>. QED
      BY <3>2, <3>3, <3>4, <3>5, <3>6
  <2>. QED
    BY <1>1, <2>2, <2>3 DEF SameMessages
<1>3. ConnInv'
  BY SendStartInv, CloseStartInv, ClosePeerInv, CloseReturnsInv, RoutineClosesInv DEF OrderInv
<1>. QED
  BY <1>2, <1>3, SameOrder DEF OrderInv

\* Send puts the message behind all others.
LEMMA SendQueueOrder ==
  ASSUME OrderInv, NEW e \in End, SendQueue(e) PROVE OrderInv'
<1>. DEFINE g == Peer(e)
<1>1. /\ holder = [op |-> "send", end |-> e] /\ holder' = None
      /\ incoming' = [incoming EXCEPT ![g] = Append(@, sent[g])]
      /\ outgoing' = outgoing /\ buff' = buff /\ routine' = routine
      /\ sent' = sent /\ received' = received
  BY DEF SendQueue
<1>2. ConnInv' /\ g \in End /\ Peer(g) = e
  BY SendQueueInv, PeerFacts DEF OrderInv
<1>3. ASSUME NEW f \in End PROVE Ordered(f)'
  <2>1. Peer(f) \in End /\ Peer(Peer(f)) = f /\ Ordered(f)
    BY PeerFacts DEF OrderInv
  <2>2. None # [op |-> "send", end |-> Peer(f)]
    BY <2>1, LocalConnAssumption
  <2>3. incoming \in [End -> Seq(Msg)]
    BY DEF OrderInv, ConnInv, ConnTypeOK
  <2>4. CASE f # g
    <3>1. Peer(f) # e
      BY <1>2, <2>1, <2>4
    <3>2. Queued(f)' = Queued(f)
      BY <1>1, <2>2, <3>1 DEF Queued
    <3>. QED
      BY <1>1, <2>1, <2>3, <2>4, <3>2, SameOrder DEF SameMessages
  <2>5. CASE f = g
    <3>1. Queued(f)' = Queued(f) + 1 /\ sent[f] = Queued(f) + 1
      BY <1>1, <1>2, <2>2, <2>5 DEF Queued, OrderInv, ConnInv, ConnTypeOK
    <3>2. /\ incoming'[f] = Append(incoming[f], Queued(f) + 1)
          /\ outgoing'[f] = outgoing[f] /\ received'[f] = received[f] /\ buff'[f] = buff[f]
          /\ routine'[f] = routine[f]
      BY <1>1, <2>3, <2>5, <3>1
    <3>. QED
      BY <2>1, <3>1, <3>2, MessageTypes, ChainAppend DEF Ordered, OrderInv
  <2>. QED
    BY <2>4, <2>5
<1>. QED
  BY <1>2, <1>3 DEF OrderInv

\* Steps that move a message on at one end.
LEMMA MovesOrder ==
  ASSUME OrderInv, NEW e \in End, Forward(e) \/ Forwarded(e) \/ Receive(e)
  PROVE  OrderInv'
<1>1. ConnInv'
  BY ForwardInv, ForwardedInv, ReceiveInv DEF OrderInv
<1>2. /\ incoming \in [End -> Seq(Nat)] /\ outgoing \in [End -> Seq(Nat)]
      /\ received \in [End -> Nat] /\ buff \in [End -> Nat]
      /\ routine \in [End -> {"none", "select", "forward", "confirm", "returned"}]
  BY DEF OrderInv, ConnInv, ConnTypeOK, Msg
<1>3. ASSUME NEW f \in End PROVE Queued(f)' = Queued(f)
  BY DEF Forward, Forwarded, Receive, Queued
<1>4. ASSUME NEW f \in End, f # e PROVE SameMessages(f)
  BY <1>2, <1>3, <1>4 DEF Forward, Forwarded, Receive, SameMessages
<1>5. /\ Ordered(e) /\ Queued(e)' = Queued(e)
      /\ incoming[e] \in Seq(Nat) /\ outgoing[e] \in Seq(Nat)
      /\ received[e] \in Nat /\ buff[e] \in Nat /\ Queued(e) \in Nat
  BY <1>3, MessageTypes DEF OrderInv
<1>7. ASSUME Forward(e) PROVE Ordered(e)'
  <2>1. /\ incoming[e] # <<>> /\ buff[e] = 0
        /\ buff'[e] = Head(incoming[e]) /\ incoming'[e] = Tail(incoming[e])
        /\ outgoing'[e] = outgoing[e] /\ received'[e] = received[e] /\ routine'[e] = "forward"
    BY <1>2, <1>5, <1>7 DEF Forward, Ordered
  <2>. QED
    BY <1>5, <2>1, ChainTake DEF Ordered
<1>8. ASSUME Forwarded(e) PROVE Ordered(e)'
  <2>1. /\ buff[e] # 0 /\ buff'[e] = 0
        /\ outgoing'[e] = Append(outgoing[e], buff[e])
        /\ incoming'[e] = incoming[e] /\ received'[e] = received[e]
    BY <1>2, <1>8 DEF Forwarded, OrderInv, ConnInv, Paired
  <2>. QED
    BY <1>5, <2>1, ChainPass DEF Ordered
<1>9. ASSUME Receive(e) PROVE Ordered(e)'
  <2>1. /\ outgoing[e] # <<>> /\ outgoing'[e] = Tail(outgoing[e])
        /\ received'[e] = Head(outgoing[e])
        /\ incoming'[e] = incoming[e] /\ buff'[e] = buff[e] /\ routine'[e] = routine[e]
    BY <1>2, <1>9 DEF Receive
  <2>. QED
    BY <1>5, <2>1, ChainReceive DEF Ordered
<1>10. ASSUME NEW f \in End PROVE Ordered(f)'
  <2>1. CASE f = e
    BY <1>7, <1>8, <1>9, <2>1
  <2>2. CASE f # e
    BY <1>4, <2>2, SameOrder DEF OrderInv
  <2>. QED
    BY <2>1, <2>2
<1>. QED
  BY <1>1, <1>10 DEF OrderInv

\* A step that leaves the connections alone, and any step of a connection.
LEMMA UnchangedOrder == ASSUME OrderInv, UNCHANGED connVars PROVE OrderInv'
<1>1. \A e \in End : SameMessages(e)
  BY DEF connVars, queueVars, SameMessages, Queued
<1>. QED
  BY <1>1, SameOrder, ConnUnchangedInv DEF OrderInv

LEMMA ConnNextOrder == ASSUME OrderInv, ConnNext PROVE OrderInv'
BY CallsOrder, SendQueueOrder, MovesOrder DEF ConnNext, CallGoesOn, RoutineStep

\* Any step that what uses the connections may take with them.
LEMMA ConnStepOrder ==
  ASSUME OrderInv, (\E p \in Pair : NewConns(p)) \/ ConnNext \/ UNCHANGED connVars
  PROVE  OrderInv'
BY NewConnsOrder, ConnNextOrder, UnchangedOrder

-----------------------------------------------------------------------------
(***************************************************************************)
(* The listeners.                                                          *)
(***************************************************************************)

\* The calls of Listen that have made a quit.
Listened == {c \in Call : pc[c] \notin {"new", "refused"}}

\* The inductive invariant of LocalManager: its types, and why quit has one of
\* the numbers in Quit; only a listener that has been created is listening.
ManagerInv ==
  /\ TypeOK
  /\ \A l \in Listener : quit[l] <= Cardinality(Listened)
  /\ \A l \in Listener : listening[l] => l \in created
  /\ ListeningIsRegistered

\* The number of quits is bounded by the number of calls.
LEMMA ListenedFacts ==
  /\ Cardinality(Call) \in Nat /\ Cardinality(Listened) \in Nat
  /\ Cardinality(Listened) <= Cardinality(Call)
  /\ \A c \in Call : c \notin Listened => Cardinality(Listened \cup {c}) = Cardinality(Listened) + 1
<1>1. Listened \subseteq Call /\ IsFiniteSet(Call)
  BY LocalManagerAssumption DEF Listened
<1>2. IsFiniteSet(Listened) /\ Cardinality(Listened) <= Cardinality(Call)
  BY <1>1, FS_Subset
<1>3. \A c \in Call : c \notin Listened => Cardinality(Listened \cup {c}) = Cardinality(Listened) + 1
  BY <1>2, FS_AddElement
<1>. QED
  BY <1>1, <1>2, <1>3, FS_CardinalityType

\* Nobody is listening at first.
LEMMA ManagerInitInv == Init => ConnInv /\ ManagerInv
<1>. SUFFICES ASSUME Init PROVE ConnInv /\ ManagerInv
  OBVIOUS
<1>1. ConnInv
  BY ConnInitInv DEF Init
<1>2. TypeOK
  <2>1. 0 \in Quit
    BY ListenedFacts DEF Quit
  <2>. QED
    BY <1>1, <2>1, LocalManagerAssumption DEF Init, TypeOK, ConnInv
<1>3. \A l \in Listener : quit[l] <= Cardinality(Listened)
  BY ListenedFacts DEF Init
<1>4. ListeningIsRegistered
  BY LocalManagerAssumption DEF Init, ListeningIsRegistered
<1>. QED
  BY <1>1, <1>2, <1>3, <1>4 DEF ManagerInv, Init

\* NewLocalListenerWithManager: who was alone may not be any more.
LEMMA NewListenerInv ==
  ASSUME ManagerInv, ConnInv', NEW l \in Listener, NewListener(l)
  PROVE  ManagerInv'
<1>1. /\ created' = created \cup {l}
      /\ manager' = manager /\ listening' = listening /\ quit' = quit /\ open' = open /\ pc' = pc
      /\ waitsFor' = waitsFor /\ tries' = tries /\ accepted' = accepted /\ stops' = stops
  BY DEF NewListener, listenVars, connectVars, vars
<1>2. TypeOK'
  BY <1>1, LocalManagerAssumption DEF ManagerInv, TypeOK, ConnInv
<1>3. \A x \in Listener : quit'[x] <= Cardinality(Listened')
  BY <1>1 DEF ManagerInv, Listened
<1>4. \A x \in Listener : listening'[x] => x \in created'
  BY <1>1 DEF ManagerInv
<1>5. ListeningIsRegistered'
  BY <1>1, LocalManagerAssumption DEF ManagerInv, TypeOK, ListeningIsRegistered, Alone
<1>. QED
  BY <1>2, <1>3, <1>4, <1>5 DEF ManagerInv

\* Listen that finds the listener listening.
LEMMA ListenRefusedInv ==
  ASSUME ManagerInv, ConnInv', NEW c \in Call, ListenRefused(c)
  PROVE  ManagerInv'
<1>1. /\ pc[c] = "new" /\ pc' = [pc EXCEPT ![c] = "refused"]
      /\ manager' = manager /\ created' = created /\ listening' = listening /\ quit' = quit
      /\ open' = open
      /\ waitsFor' = waitsFor /\ tries' = tries /\ accepted' = accepted /\ stops' = stops
  BY DEF ListenRefused, listenVars, connectVars, vars
<1>2. TypeOK'
  BY <1>1, LocalManagerAssumption DEF ManagerInv, TypeOK, ConnInv
<1>3. \A x \in Listener : quit'[x] <= Cardinality(Listened')
  <2>1. Listened' = Listened
    BY <1>1 DEF ManagerInv, TypeOK, Listened
  <2>. QED
    BY <1>1, <2>1 DEF ManagerInv
<1>4. \A x \in Listener : listening'[x] => x \in created'
  BY <1>1 DEF ManagerInv
<1>5. ListeningIsRegistered'
  BY <1>1, LocalManagerAssumption DEF ManagerInv, TypeOK, ListeningIsRegistered, Alone
<1>. QED
  BY <1>2, <1>3, <1>4, <1>5 DEF ManagerInv

\* Listen: another call has made a quit, and the listener has its address.
LEMMA ListenInv ==
  ASSUME ManagerInv, ConnInv', NEW c \in Call, Listen(c)
  PROVE  ManagerInv'
<1>1. /\ pc[c] = "new" /\ pc' = [pc EXCEPT ![c] = "unlocked"]
      /\ Of[c] \in created
      /\ quit' = [quit EXCEPT ![Of[c]] = @ + 1]
      /\ open' = [open EXCEPT ![Of[c]] = @ \cup {quit'[Of[c]]}]
      /\ manager' = [manager EXCEPT ![Addr[Of[c]]] = Of[c]]
      /\ listening' = [listening EXCEPT ![Of[c]] = TRUE]
      /\ created' = created /\ waitsFor' = waitsFor
      /\ tries' = tries /\ accepted' = accepted /\ stops' = stops
  BY DEF Listen, SetListening, connectVars
<1>6. Of[c] \in Listener /\ Addr[Of[c]] \in Address
  BY LocalManagerAssumption
<1>7. Cardinality(Listened') = Cardinality(Listened) + 1 /\ Cardinality(Listened') <= Cardinality(Call)
  <2>1. Listened' = Listened \cup {c} /\ c \notin Listened
    BY <1>1 DEF ManagerInv, TypeOK, Listened
  <2>2. Listened' \subseteq Call /\ IsFiniteSet(Call)
    BY LocalManagerAssumption DEF Listened
  <2>. QED
    BY <2>1, <2>2, FS_Subset, ListenedFacts
<1>2. TypeOK'
  <2>1. quit'[Of[c]] \in Quit
    BY <1>1, <1>6, <1>7, ListenedFacts DEF ManagerInv, TypeOK, Quit
  <2>2. quit' \in [Listener -> Quit] /\ open' \in [Listener -> SUBSET Quit]
    BY <1>1, <1>6, <2>1 DEF ManagerInv, TypeOK
  <2>3. pc' \in [Call -> {"new", "unlocked", "wait", "returned", "refused"}]
    BY <1>1 DEF ManagerInv, TypeOK
  <2>4. manager' \in [Address -> Listener \cup {None}] /\ listening' \in [Listener -> BOOLEAN]
    BY <1>1, <1>6 DEF ManagerInv, TypeOK
  <2>. QED
    BY <1>1, <2>2, <2>3, <2>4 DEF ManagerInv, TypeOK, ConnInv
<1>3. \A x \in Listener : quit'[x] <= Cardinality(Listened')
  BY <1>1, <1>6, <1>7, ListenedFacts DEF ManagerInv, TypeOK, Quit
<1>4. \A x \in Listener : listening'[x] => x \in created'
  BY <1>1, <1>6 DEF ManagerInv, TypeOK
<1>5. ListeningIsRegistered'
  <2>1. ASSUME NEW l \in Listener, Alone(l)'
        PROVE  listening'[l] <=> manager'[Addr[l]] = l
    <3>1. Alone(l)
      BY <2>1, <1>1 DEF Alone
    <3>2. Addr[l] = Addr[Of[c]] => l = Of[c]
      BY <1>1, <3>1 DEF Alone
    <3>3. Addr[l] \in Address /\ (listening[l] <=> manager[Addr[l]] = l)
      BY <3>1, LocalManagerAssumption DEF ManagerInv, ListeningIsRegistered
    <3>. QED
      BY <1>1, <1>6, <3>2, <3>3 DEF ManagerInv, TypeOK
  <2>2. ASSUME NEW a \in Address, manager'[a] # None
        PROVE  Addr[manager'[a]] = a /\ listening'[manager'[a]]
    BY <1>1, <1>6, <2>2 DEF ManagerInv, TypeOK, ListeningIsRegistered
  <2>. QED
    BY <2>1, <2>2 DEF ListeningIsRegistered
<1>. QED
  BY <1>2, <1>3, <1>4, <1>5 DEF ManagerInv

\* Listen reads quit...
LEMMA ReadQuitInv ==
  ASSUME ManagerInv, ConnInv', NEW c \in Call, ReadQuit(c)
  PROVE  ManagerInv'
<1>1. /\ pc' = [pc EXCEPT ![c] = "wait"]
      /\ pc[c] \in {"unlocked", "wait"}
      /\ manager' = manager /\ created' = created /\ listening' = listening /\ quit' = quit
      /\ open' = open
      /\ tries' = tries /\ accepted' = accepted /\ stops' = stops
      /\ waitsFor' = [waitsFor EXCEPT ![c] = quit[Of[c]]]
  BY DEF ReadQuit, connectVars
<1>2. TypeOK'
  BY <1>1, LocalManagerAssumption DEF ManagerInv, TypeOK, ConnInv
<1>3. \A x \in Listener : quit'[x] <= Cardinality(Listened')
  <2>1. Listened' = Listened
    BY <1>1 DEF ManagerInv, TypeOK, Listened
  <2>. QED
    BY <1>1, <2>1 DEF ManagerInv
<1>4. \A x \in Listener : listening'[x] => x \in created'
  BY <1>1 DEF ManagerInv
<1>5. ListeningIsRegistered'
  BY <1>1, LocalManagerAssumption DEF ManagerInv, TypeOK, ListeningIsRegistered, Alone
<1>. QED
  BY <1>2, <1>3, <1>4, <1>5 DEF ManagerInv

\* ... and returns.
LEMMA ListenReturnsInv ==
  ASSUME ManagerInv, ConnInv', NEW c \in Call, ListenReturns(c)
  PROVE  ManagerInv'
<1>1. /\ pc' = [pc EXCEPT ![c] = "returned"]
      /\ pc[c] \in {"unlocked", "wait"}
      /\ manager' = manager /\ created' = created /\ listening' = listening /\ quit' = quit
      /\ open' = open
      /\ tries' = tries /\ accepted' = accepted /\ stops' = stops
      /\ waitsFor' = waitsFor
  BY DEF ListenReturns, connectVars
<1>2. TypeOK'
  BY <1>1, LocalManagerAssumption DEF ManagerInv, TypeOK, ConnInv
<1>3. \A x \in Listener : quit'[x] <= Cardinality(Listened')
  <2>1. Listened' = Listened
    BY <1>1 DEF ManagerInv, TypeOK, Listened
  <2>. QED
    BY <1>1, <2>1 DEF ManagerInv
<1>4. \A x \in Listener : listening'[x] => x \in created'
  BY <1>1 DEF ManagerInv
<1>5. ListeningIsRegistered'
  BY <1>1, LocalManagerAssumption DEF ManagerInv, TypeOK, ListeningIsRegistered, Alone
<1>. QED
  BY <1>2, <1>3, <1>4, <1>5 DEF ManagerInv

\* Stop: the address is free.
LEMMA StopInv ==
  ASSUME ManagerInv, ConnInv', NEW l \in Listener, Stop(l)
  PROVE  ManagerInv'
<1>1. /\ listening[l] /\ stops < MaxStops /\ stops' = stops + 1
      /\ manager' = [manager EXCEPT ![Addr[l]] = None]
      /\ open' = [open EXCEPT ![l] = @ \ {quit[l]}]
      /\ listening' = [listening EXCEPT ![l] = FALSE]
      /\ created' = created /\ quit' = quit /\ pc' = pc /\ waitsFor' = waitsFor
      /\ tries' = tries /\ accepted' = accepted
  BY DEF Stop, Unset, StillOpen, Stopped, connectVars
<1>6. Addr[l] \in Address /\ l \in created /\ l # None
  BY <1>1, LocalManagerAssumption DEF ManagerInv
<1>2. TypeOK'
  BY <1>1, <1>6, LocalManagerAssumption DEF ManagerInv, TypeOK, ConnInv
<1>3. \A x \in Listener : quit'[x] <= Cardinality(Listened')
  BY <1>1 DEF ManagerInv, Listened
<1>4. \A x \in Listener : listening'[x] => x \in created'
  BY <1>1 DEF ManagerInv, TypeOK
<1>5. ListeningIsRegistered'
  <2>1. ASSUME NEW m \in Listener, Alone(m)'
        PROVE  listening'[m] <=> manager'[Addr[m]] = m
    <3>1. Alone(m) /\ (Addr[m] = Addr[l] => m = l)
      BY <2>1, <1>1, <1>6 DEF Alone
    <3>2. Addr[m] \in Address /\ m # None /\ (listening[m] <=> manager[Addr[m]] = m)
      BY <3>1, LocalManagerAssumption DEF ManagerInv, ListeningIsRegistered
    <3>. QED
      BY <1>1, <1>6, <3>1, <3>2 DEF ManagerInv, TypeOK
  <2>2. ASSUME NEW a \in Address, manager'[a] # None
        PROVE  Addr[manager'[a]] = a /\ listening'[manager'[a]]
    <3>1. a # Addr[l] /\ manager'[a] = manager[a]
      BY <1>1, <1>6, <2>2 DEF ManagerInv, TypeOK
    <3>. QED
      BY <1>1, <2>2, <3>1 DEF ManagerInv, TypeOK, ListeningIsRegistered
  <2>. QED
    BY <2>1, <2>2 DEF ListeningIsRegistered
<1>. QED
  BY <1>2, <1>3, <1>4, <1>5 DEF ManagerInv

\* A try of Connect that gets a connection...
LEMMA ConnectInv ==
  ASSUME ManagerInv, ConnInv', NEW k \in Pair, Connect(k)
  PROVE  ManagerInv'
<1>1. /\ accepted' = [accepted EXCEPT ![k] = manager[To[k]]]
      /\ manager' = manager /\ created' = created /\ listening' = listening /\ quit' = quit
      /\ open' = open /\ pc' = pc
      /\ waitsFor' = waitsFor /\ tries' = tries /\ stops' = stops
  BY DEF Connect, listenVars
<1>2. TypeOK'
  BY <1>1, LocalManagerAssumption DEF ManagerInv, TypeOK, ConnInv
<1>3. \A x \in Listener : quit'[x] <= Cardinality(Listened')
  BY <1>1 DEF ManagerInv, Listened
<1>4. \A x \in Listener : listening'[x] => x \in created'
  BY <1>1 DEF ManagerInv
<1>5. ListeningIsRegistered'
  BY <1>1, LocalManagerAssumption DEF ManagerInv, TypeOK, ListeningIsRegistered, Alone
<1>. QED
  BY <1>2, <1>3, <1>4, <1>5 DEF ManagerInv

\* ... and one that does not.
LEMMA ConnectFailsInv ==
  ASSUME ManagerInv, ConnInv', NEW k \in Pair, ConnectFails(k)
  PROVE  ManagerInv'
<1>1. /\ tries[k] < MaxRetryConnect * MaxRetryConnect
      /\ tries' = [tries EXCEPT ![k] = @ + 1]
      /\ manager' = manager /\ created' = created /\ listening' = listening /\ quit' = quit
      /\ open' = open /\ pc' = pc
      /\ waitsFor' = waitsFor /\ accepted' = accepted /\ stops' = stops
  BY DEF ConnectFails, MoreTries, listenVars
<1>2. TypeOK'
  <2>1. tries' \in [Pair -> 0..(MaxRetryConnect * MaxRetryConnect)]
    <3>. DEFINE M == MaxRetryConnect * MaxRetryConnect
    <3>1. M \in Nat
      BY LocalManagerAssumption
    <3>2. tries \in [Pair -> 0..M] /\ tries[k] < M
      BY <1>1 DEF ManagerInv, TypeOK
    <3>. HIDE DEF M
    <3>3. tries[k] + 1 \in 0..M
      BY <3>1, <3>2
    <3>4. tries' \in [Pair -> 0..M]
      BY <1>1, <3>2, <3>3
    <3>. QED
      BY <3>4 DEF M
  <2>. QED
    BY <1>1, <2>1 DEF ManagerInv, TypeOK, ConnInv
<1>3. \A x \in Listener : quit'[x] <= Cardinality(Listened')
  BY <1>1 DEF ManagerInv, Listened
<1>4. \A x \in Listener : listening'[x] => x \in created'
  BY <1>1 DEF ManagerInv
<1>5. ListeningIsRegistered'
  BY <1>1, LocalManagerAssumption DEF ManagerInv, TypeOK, ListeningIsRegistered, Alone
<1>. QED
  BY <1>2, <1>3, <1>4, <1>5 DEF ManagerInv

\* A step that leaves the listeners alone.
LEMMA ListenersUnchangedInv ==
  ASSUME ManagerInv, ConnInv', UNCHANGED <<listenVars, connectVars, stops>>
  PROVE  ManagerInv'
BY DEF ManagerInv, TypeOK, ConnInv, listenVars, connectVars, Listened, ListeningIsRegistered, Alone

\* Every step of LocalManager keeps both invariants.
LEMMA NextInv == ConnInv /\ ManagerInv /\ [Next]_vars => ConnInv' /\ ManagerInv'
<1>. SUFFICES ASSUME ConnInv, ManagerInv, [Next]_vars PROVE ConnInv' /\ ManagerInv'
  OBVIOUS
<1>1. ASSUME NEW l \in Listener, NewListener(l) \/ Stop(l) PROVE ConnInv' /\ ManagerInv'
  <2>1. ConnInv'
    BY <1>1, ConnUnchangedInv DEF NewListener, Stop
  <2>. QED
    BY <1>1, <2>1, NewListenerInv, StopInv
<1>2. ASSUME NEW c \in Call, Listen(c) \/ ListenRefused(c) \/ ListenGoes(c)
      PROVE  ConnInv' /\ ManagerInv'
  <2>1. ConnInv'
    BY <1>2, ConnUnchangedInv DEF Listen, ListenRefused, ListenGoes, ReadQuit, ListenReturns
  <2>. QED
    BY <1>2, <2>1, ListenInv, ListenRefusedInv, ReadQuitInv, ListenReturnsInv DEF ListenGoes
<1>3. ASSUME NEW k \in Pair, Connect(k) PROVE ConnInv' /\ ManagerInv'
  <2>1. ConnInv'
    BY <1>3, NewConnsInv DEF Connect
  <2>. QED
    BY <1>3, <2>1, ConnectInv
<1>4. ASSUME NEW k \in Pair, ConnectFails(k) PROVE ConnInv' /\ ManagerInv'
  <2>1. ConnInv'
    BY <1>4, ConnUnchangedInv DEF ConnectFails
  <2>. QED
    BY <1>4, <2>1, ConnectFailsInv
<1>5. ASSUME ConnNext /\ UNCHANGED <<listenVars, connectVars, stops>>
      PROVE  ConnInv' /\ ManagerInv'
  BY <1>5, ConnNextInv, ListenersUnchangedInv
<1>6. ASSUME UNCHANGED vars PROVE ConnInv' /\ ManagerInv'
  <2>1. ConnInv'
    BY <1>6, ConnUnchangedInv DEF vars
  <2>. QED
    BY <1>6, <2>1, ListenersUnchangedInv DEF vars
<1>. QED
  BY <1>1, <1>2, <1>3, <1>4, <1>5, <1>6 DEF Next

-----------------------------------------------------------------------------
(***************************************************************************)
(* The results.                                                            *)
(***************************************************************************)

\* The inductive invariant.
LEMMA ManagerCorrect == Spec => [](ConnInv /\ ManagerInv)
BY ManagerInitInv, NextInv, PTL DEF Spec

\* Every variable of local.go has its type: no queue is longer than its capacity, and
\* no listener makes more quits than there are calls of Listen (LocalConn.start, Send,
\* Listen, Stop).
THEOREM TypeCorrect == Spec => []TypeOK
<1>1. ManagerInv => TypeOK
  BY DEF ManagerInv
<1>. QED
  BY <1>1, ManagerCorrect, PTL

\* No Go channel is closed twice or sent on when it is closed, with any number of
\* connections, and whoever sends and closes at the same time (send, close,
\* closeChannels, start).
THEOREM NoPanicCorrect == Spec => []NoPanic
<1>1. ConnInv => NoPanic
  BY DEF ConnInv
<1>. QED
  BY <1>1, ManagerCorrect, PTL

\* Between the calls the two ends of every connection are both registered and running
\* or neither is (connect, close).
THEOREM EndsTogetherCorrect == Spec => []EndsTogether
BY ConnInvEnds, ManagerCorrect, PTL

\* A connection doubles and reorders no message, and loses none as long as the goroutine
\* of the end runs, for any number of connections and any size of the queues.  Closing
\* loses those that its incomingQueue still holds, the last ones sent, and no other (send,
\* start, closeChannels, Receive).
THEOREM MessagesCorrect == Spec => []MessagesInOrder
<1>1. Init => OrderInv
  BY ConnInitOrder DEF Init
<1>2. OrderInv /\ [Next]_vars => OrderInv'
  <2>. SUFFICES ASSUME OrderInv, [Next]_vars PROVE OrderInv'
    OBVIOUS
  <2>1. (\E p \in Pair : NewConns(p)) \/ ConnNext \/ UNCHANGED connVars
    BY DEF Next, vars, NewListener, Stop, Listen, ListenRefused, ListenGoes, ReadQuit,
           ListenReturns, Connect, ConnectFails
  <2>. QED
    BY <2>1, ConnStepOrder
<1>. QED
  BY <1>1, <1>2, OrderedMessages, PTL DEF Spec

\* Connections to an address go to a listener of this address that is listening, and a
\* listener that is alone gets them exactly while it is listening (Listen, Stop,
\* setListening, unsetListening).
THEOREM ListeningCorrect == Spec => []ListeningIsRegistered
<1>1. ManagerInv => ListeningIsRegistered
  BY DEF ManagerInv
<1>. QED
  BY <1>1, ManagerCorrect, PTL

-----------------------------------------------------------------------------
(***************************************************************************)
(* Where connections and listeners come to rest: the safety halves of      *)
(* MutexReleased and ListenEnds.                                           *)
(***************************************************************************)

\* Nobody has a step to take by itself under FairSpec.
ManagerAtRest ==
  /\ \A e \in End :
       /\ outgoing[e] = <<>>
       /\ routine[e] = "select" => incoming[e] = <<>> /\ ~closeCh[e]
       /\ routine[e] # "forward"
       /\ holder = [op |-> "send", end |-> e] => ~HasRoom(incoming[Peer(e)])
       /\ holder = [op |-> "close", end |-> e] => routine[e] # "confirm"
       /\ holder = [op |-> "closePeer", end |-> e] => routine[Peer(e)] # "confirm"
  /\ \A c \in Call :
       /\ pc[c] # "unlocked"
       /\ pc[c] = "wait" => waitsFor[c] \in open[Of[c]]

\* The manager's mutex is free, all that was sent to an end that is not closed has been
\* received, and a Listen has returned if its listener is not listening.
ManagerSettled ==
  /\ holder = None
  /\ \A e \in conns : received[e] = sent[e]
  /\ \A c \in Call : InListen(c) => listening[Of[c]]

\* The inductive invariant: but for the first one, only the last quit of a listener may be
\* open, and only as long as it is listening; a Listen waits for a later one than the
\* first.
Quits ==
  /\ \A l \in Listener : \A x \in open[l] : x = 0 \/ (listening[l] /\ x = quit[l])
  /\ \A c \in Call : pc[c] = "unlocked" => quit[Of[c]] > 0
  /\ \A c \in Call : pc[c] = "wait" => waitsFor[c] > 0

\* Listen makes a quit when the one before is closed, and Stop closes it.
LEMMA QuitsNext == TypeOK /\ Quits /\ [Next]_vars => Quits'
<1>. SUFFICES ASSUME TypeOK, Quits, [Next]_vars PROVE Quits'
  OBVIOUS
<1>. USE LocalManagerAssumption DEF TypeOK, Quit
<1>0. quit \in [Listener -> Nat] /\ waitsFor \in [Call -> Nat]
  OBVIOUS
<1>1. CASE UNCHANGED <<listening, quit, open, pc, waitsFor>>
  BY <1>1 DEF Quits
<1>2. ASSUME NEW l \in Listener, Stop(l) PROVE Quits'
  <2>1. /\ quit' = quit /\ pc' = pc /\ waitsFor' = waitsFor
        /\ \A k \in Listener : open'[k] = (IF k = l THEN open[l] \ {quit[l]} ELSE open[k])
        /\ \A k \in Listener : k # l => listening'[k] = listening[k]
    BY <1>2 DEF Stop, StillOpen, Stopped
  <2>. QED
    BY <2>1 DEF Quits
<1>3. ASSUME NEW c \in Call, Listen(c) PROVE Quits'
  <2>1. PICK l \in Listener : l = Of[c]
    OBVIOUS
  <2>2. /\ ~listening[l] /\ pc[c] = "new" /\ waitsFor' = waitsFor
        /\ \A k \in Listener : quit'[k] = (IF k = l THEN quit[l] + 1 ELSE quit[k])
        /\ \A k \in Listener : open'[k] = (IF k = l THEN open[l] \cup {quit'[l]} ELSE open[k])
        /\ \A k \in Listener : listening'[k] = (IF k = l THEN TRUE ELSE listening[k])
        /\ \A d \in Call : pc'[d] = (IF d = c THEN "unlocked" ELSE pc[d])
    BY <1>3, <2>1 DEF Listen
  <2>3. ASSUME NEW k \in Listener, NEW x \in open'[k] PROVE x = 0 \/ (listening'[k] /\ x = quit'[k])
    <3>1. CASE k = l
      <4>1. x \in open[l] \/ x = quit'[l]
        BY <2>2, <2>3, <3>1
      <4>2. \A y \in open[l] : y = 0
        BY <2>2 DEF Quits
      <4>. QED
        BY <2>2, <3>1, <4>1, <4>2
    <3>2. CASE k # l
      BY <2>2, <2>3, <3>2 DEF Quits
    <3>. QED
      BY <3>1, <3>2
  <2>4. ASSUME NEW d \in Call, pc'[d] = "unlocked" PROVE quit'[Of[d]] > 0
    BY <1>0, <2>1, <2>2, <2>4 DEF Quits
  <2>5. ASSUME NEW d \in Call, pc'[d] = "wait" PROVE waitsFor'[d] > 0
    BY <2>2, <2>5 DEF Quits
  <2>. QED
    BY <2>3, <2>4, <2>5 DEF Quits
<1>4. ASSUME NEW c \in Call, ListenRefused(c) \/ ListenReturns(c) PROVE Quits'
  <2>1. /\ UNCHANGED <<listening, quit, open, waitsFor>>
        /\ \A d \in Call : pc'[d] \in {"unlocked", "wait"} => pc'[d] = pc[d]
    BY <1>4 DEF ListenRefused, ListenReturns
  <2>. QED
    BY <2>1 DEF Quits
<1>5. ASSUME NEW c \in Call, ReadQuit(c) PROVE Quits'
  <2>1. /\ UNCHANGED <<listening, quit, open>> /\ pc[c] = "unlocked"
        /\ \A d \in Call : pc'[d] = (IF d = c THEN "wait" ELSE pc[d])
        /\ \A d \in Call : waitsFor'[d] = (IF d = c THEN quit[Of[c]] ELSE waitsFor[d])
    BY <1>5 DEF ReadQuit
  <2>. QED
    BY <2>1 DEF Quits
<1>. QED
  BY <1>1, <1>2, <1>3, <1>4, <1>5
  DEF Next, NewListener, Connect, ConnectFails, ListenGoes, listenVars, vars

\* A call that has the mutex has somebody who takes its message or confirms.
LEMMA RestFree == ASSUME ConnInv, ManagerAtRest PROVE holder = None
<1>. SUFFICES ASSUME holder # None PROVE FALSE
  OBVIOUS
<1>1. PICK e \in End, op \in {"send", "close", "closePeer"} : holder = [op |-> op, end |-> e]
  BY DEF ConnInv, ConnTypeOK
<1>2. Peer(e) \in End /\ Peer(Peer(e)) = e /\ Paired(e) /\ Paired(Peer(e))
  BY PeerFacts DEF ConnInv
<1>3. /\ routine \in [End -> {"none", "select", "forward", "confirm", "returned"}]
      /\ closeCh \in [End -> BOOLEAN]
  BY DEF ConnInv, ConnTypeOK
<1>4. InCall(op, e)
  BY <1>1, InCallFacts
<1>5. CASE op = "send"
  <2>1. routine[Peer(e)] = "select"
    BY <1>2, <1>3, <1>4, <1>5 DEF Paired, ManagerAtRest
  <2>2. incoming[Peer(e)] = <<>> /\ ~HasRoom(incoming[Peer(e)])
    BY <1>1, <1>2, <1>5, <2>1 DEF ManagerAtRest
  <2>. QED
    BY <2>2, LocalConnAssumption DEF HasRoom
<1>6. CASE op = "close"
  <2>1. closeCh[e] /\ routine[e] \in {"select", "forward", "confirm"}
    BY <1>2, <1>3, <1>4, <1>6 DEF Paired, Closing
  <2>. QED
    BY <1>1, <1>6, <2>1 DEF ManagerAtRest
<1>7. CASE op = "closePeer"
  <2>1. closeCh[Peer(e)] /\ routine[Peer(e)] \in {"select", "forward", "confirm"}
    BY <1>2, <1>3, <1>4, <1>7 DEF Paired, Closing
  <2>. QED
    BY <1>1, <1>2, <1>7, <2>1 DEF ManagerAtRest
<1>. QED
  BY <1>5, <1>6, <1>7

\* Nothing is left on its way.
LEMMA RestAllReceived ==
  ASSUME OrderInv, ManagerAtRest, holder = None, NEW e \in conns
  PROVE  received[e] = sent[e]
<1>1. e \in End /\ Paired(e) /\ Ordered(e) /\ received[e] \in Nat
  BY DEF OrderInv, ConnInv, ConnTypeOK
<1>2. routine[e] = "select"
  BY <1>1 DEF Paired, ManagerAtRest, OrderInv, ConnInv, ConnTypeOK
<1>3. outgoing[e] = <<>> /\ incoming[e] = <<>> /\ buff[e] = 0
  BY <1>1, <1>2 DEF ManagerAtRest, Ordered
<1>4. Queued(e) = sent[e]
  BY LocalConnAssumption, <1>1, PeerFacts DEF Queued
<1>5. Queued(e) = received[e] + Len(<<>>) + 0 + Len(<<>>)
  BY <1>1, <1>3 DEF Ordered, Chain, Held
<1>. QED
  BY <1>1, <1>4, <1>5

\* Once nobody can go on by himself and all messages are received, nobody has the manager's
\* mutex, so that every Listen, Stop, Connect, Send and Close finds it free; no open
\* connection has kept a message back; and no Listen waits on a listener that has been
\* stopped, whenever it came to read quit (send, close, start, Listen, Stop).
THEOREM ManagerRests == Spec => [](ManagerAtRest => ManagerSettled)
<1>1. Init => OrderInv /\ Quits
  <2>1. ASSUME Init PROVE Quits
    BY <2>1 DEF Init, Quits
  <2>. QED
    BY <2>1, ConnInitOrder DEF Init
<1>2. OrderInv /\ [Next]_vars => OrderInv'
  <2>. SUFFICES ASSUME OrderInv, [Next]_vars PROVE OrderInv'
    OBVIOUS
  <2>1. (\E p \in Pair : NewConns(p)) \/ ConnNext \/ UNCHANGED connVars
    BY DEF Next, vars, NewListener, Stop, Listen, ListenRefused, ListenGoes, ReadQuit,
           ListenReturns, Connect, ConnectFails
  <2>. QED
    BY <2>1, ConnStepOrder
<1>3. ASSUME TypeOK, OrderInv, Quits, ManagerAtRest PROVE ManagerSettled
  <2>1. holder = None
    BY <1>3, RestFree DEF OrderInv
  <2>2. ASSUME NEW c \in Call, InListen(c) PROVE listening[Of[c]]
    <3>1. pc[c] = "wait" /\ waitsFor[c] \in open[Of[c]] /\ Of[c] \in Listener
      BY <1>3, <2>2, LocalManagerAssumption DEF InListen, ManagerAtRest
    <3>2. waitsFor[c] # 0
      BY <1>3, <3>1 DEF Quits
    <3>. QED
      BY <1>3, <3>1, <3>2 DEF Quits
  <2>. QED
    BY <1>3, <2>1, <2>2, RestAllReceived DEF ManagerSettled
<1>4. TypeOK /\ OrderInv /\ Quits => (ManagerAtRest => ManagerSettled)
  BY <1>3
<1>. QED
  BY <1>1, <1>2, <1>4, QuitsNext, TypeCorrect, PTL DEF Spec

-----------------------------------------------------------------------------
(***************************************************************************)
(* The routers.                                                            *)
(***************************************************************************)

\* The router that has an end, and the one at the other end.
LEMMA OwnerFacts ==
  ASSUME NEW e \in End
  PROVE  /\ Owner(e) \in Router /\ Remote(e) \in Router
         /\ Remote(e) = Owner(Peer(e))
BY LocalRoutersAssumption, PeerFacts DEF Owner, Remote, End, Peer

\* An end has been told to close, and no Close of it is under way.
Shut(e) == closeCh[e] /\ ~InCall("close", e)

RouterTypes ==
  /\ connections \in [Router -> [Router -> End \cup {None}]]
  /\ setup \in [End -> {"none", "register", "launch", "launched", "refused"}]
  /\ handler \in [End -> {"none", "receive", "check", "failed", "close", "closing",
                          "remove", "returned"}]
  /\ stop \in [Router -> {"no", "called", "host", "locked", "wait", "returned"}]
  /\ toClose \in [Router -> SUBSET End]

Registered(e) == connections[Owner(e)][Remote(e)] = e

\* What a router knows of an end.
Handled(e) ==
  /\ setup[e] # "none" \/ e \in toClose[Owner(e)] => routine[e] # "none"
  /\ Registered(e) => setup[e] \in {"launch", "launched", "refused"}
  /\ handler[e] # "none" <=> setup[e] = "launched"
  /\ handler[e] \in {"failed", "closing"} => closeCh[e]
  /\ handler[e] = "close" => Shut(e) \/ stop[Owner(e)] \in {"wait", "returned"}
  /\ handler[e] \in {"remove", "returned"} => Shut(e)
  /\ InCall("close", e) => handler[e] = "closing" \/ stop[Owner(e)] = "locked"
  /\ Registered(e) /\ stop[Owner(e)] = "locked" =>
       e \in toClose[Owner(e)] \/ closeCh[e]
  /\ Registered(e) /\ stop[Owner(e)] \in {"wait", "returned"} => closeCh[e]
  /\ stop[Owner(e)] = "returned" => handler[e] \in {"none", "remove", "returned"}

\* A router registers its own ends, each at the address of the other router, and only
\* Stop closes them from the registry.
Owned == \A r \in Router :
  /\ \A e \in toClose[r] : stop[r] = "locked" /\ Owner(e) = r
  /\ \A x \in Router, e \in End : connections[r][x] = e => Owner(e) = r /\ Remote(e) = x

\* The inductive invariant of the routers, on top of that of the connections.
RoutersInv ==
  /\ RouterTypes
  /\ Owned
  /\ \A e \in End : Handled(e)

\* The property, from the invariant: whoever has been told to close, with no Close
\* under way, is closed at both ends.
LEMMA ShutBoth ==
  ASSUME ConnInv, NEW e \in End, Shut(e)
  PROVE  {e, Peer(e)} \cap conns = {} /\ closeCh[e] /\ closeCh[Peer(e)]
<1>1. Peer(e) \in End /\ Peer(Peer(e)) = e /\ Paired(e) /\ Paired(Peer(e))
  BY PeerFacts DEF ConnInv
<1>2. /\ closeCh \in [End -> BOOLEAN]
      /\ routine \in [End -> {"none", "select", "forward", "confirm", "returned"}]
  BY DEF ConnInv, ConnTypeOK
<1>3. e \notin conns
  BY <1>1 DEF Paired, Shut
<1>4. Peer(e) \notin conns
  BY <1>1, <1>3 DEF Paired, Shut
<1>5. closeCh[Peer(e)]
  BY <1>1, <1>2, <1>4 DEF Paired, Shut
<1>. QED
  BY <1>3, <1>4, <1>5 DEF Shut

LEMMA RoutersInvStopped ==
  ASSUME ConnInv, RoutersInv PROVE StoppedIsClosed
<1>. SUFFICES ASSUME NEW r \in Router, stop[r] = "returned", NEW e \in End, Owner(e) = r
              PROVE  \/ /\ setup[e] \in {"none", "register", "launch", "refused"}
                        /\ ~Registered(e)
                     \/ {e, Peer(e)} \cap conns = {} /\ closeCh[e] /\ closeCh[Peer(e)]
  BY DEF StoppedIsClosed, Registered
<1>1. Handled(e) /\ setup[e] \in {"none", "register", "launch", "launched", "refused"}
  BY DEF RoutersInv, RouterTypes
<1>2. CASE setup[e] = "launched"
  BY <1>1, <1>2, ShutBoth DEF Handled
<1>3. CASE setup[e] # "launched" /\ Registered(e)
  <2>1. Shut(e)
    BY <1>1, <1>3 DEF Handled, Shut
  <2>. QED
    BY <2>1, ShutBoth
<1>. QED
  BY <1>1, <1>2, <1>3

\* No router has done anything at first.
LEMMA RoutersInitInv == RoutersInit => ConnInv /\ RoutersInv
<1>. SUFFICES ASSUME RoutersInit PROVE ConnInv /\ RoutersInv
  OBVIOUS
<1>1. /\ ConnInit
      /\ connections = [r \in Router |-> [x \in Router |-> None]]
      /\ setup = [e \in End |-> "none"]
      /\ handler = [e \in End |-> "none"]
      /\ stop = [r \in Router |-> "no"]
      /\ toClose = [r \in Router |-> {}]
  BY DEF RoutersInit
<1>2. RouterTypes
  BY <1>1 DEF RouterTypes
<1>3. None \notin End
  BY LocalRoutersAssumption
<1>4. Owned
  BY <1>1, <1>3 DEF Owned
<1>5. ASSUME NEW e \in End PROVE Handled(e)
  <2>1. ~Registered(e)
    BY <1>1, <1>3, OwnerFacts DEF Registered
  <2>2. ~InCall("close", e)
    BY <1>1, InCallFacts DEF ConnInit
  <2>3. stop[Owner(e)] = "no"
    BY <1>1, OwnerFacts
  <2>4. e \notin toClose[Owner(e)]
    BY <1>1, OwnerFacts
  <2>. QED
    BY <1>1, <2>1, <2>2, <2>3, <2>4 DEF Handled
<1>. QED
  BY <1>1, <1>2, <1>4, <1>5, ConnInitInv DEF RoutersInv

-----------------------------------------------------------------------------
(***************************************************************************)
(* What a step of the connections leaves to the routers.                   *)
(***************************************************************************)

\* An end that exists or has been told to close remains so, and no Close begins.
Kept(e) ==
  /\ routine[e] # "none" => routine'[e] # "none"
  /\ closeCh[e] => closeCh'[e]
  /\ InCall("close", e)' => InCall("close", e)

\* Steps other than connect and the beginning of a Close.
LEMMA QuietKeeps ==
  ASSUME ConnInv, NEW f \in End, NEW e \in End,
         SendStart(f) \/ CallGoesOn(f) \/ RoutineStep(f) \/ Receive(f)
  PROVE  ConnInv' /\ Kept(e)
<1>1. ConnInv'
  BY ConnNextInv DEF ConnNext
<1>2. /\ closeCh \in [End -> BOOLEAN]
      /\ routine \in [End -> {"none", "select", "forward", "confirm", "returned"}]
  BY DEF ConnInv, ConnTypeOK
<1>3. Peer(f) \in End
  BY PeerFacts
<1>4. CASE SendStart(f)
  BY <1>4, <1>1, InCallFacts DEF SendStart, Kept
<1>5. CASE SendQueue(f)
  BY <1>5, <1>1, InCallFacts DEF SendQueue, Kept
<1>6. CASE ClosePeer(f)
  BY <1>6, <1>1, <1>2, <1>3, InCallFacts DEF ClosePeer, Kept
<1>7. CASE CloseReturns(f)
  BY <1>7, <1>1, <1>2, <1>3, InCallFacts DEF CloseReturns, Kept
<1>8. CASE RoutineStep(f)
  BY <1>8, <1>1, <1>2 DEF RoutineStep, Forward, Forwarded, RoutineCloses, Confirming, Kept, InCall
<1>9. CASE Receive(f)
  BY <1>9, <1>1 DEF Receive, Kept, InCall
<1>. QED
  BY <1>4, <1>5, <1>6, <1>7, <1>8, <1>9 DEF CallGoesOn

LEMMA UnchangedKeeps ==
  ASSUME ConnInv, UNCHANGED connVars, NEW e \in End PROVE ConnInv' /\ Kept(e)
BY ConnUnchangedInv DEF connVars, Kept, InCall

\* connect has no end of its own yet.
LEMMA NewConnsKeeps ==
  ASSUME ConnInv, NEW p \in Pair, NewConns(p), NEW e \in End
  PROVE  /\ ConnInv' /\ Kept(e)
         /\ e[1] = p => routine[e] = "none" /\ routine'[e] # "none"
<1>1. ConnInv'
  BY NewConnsInv
<1>2. /\ routine' = [x \in End |-> IF x[1] = p THEN "select" ELSE routine[x]]
      /\ holder' = holder /\ closeCh' = closeCh /\ routine[<<p, "out">>] = "none"
  BY DEF NewConns
<1>3. e[1] = p => routine[e] = "none"
  <2>1. <<p, "out">> \in End
    BY DEF End
  <2>2. e[1] = p => e = <<p, "out">> \/ e = Peer(<<p, "out">>)
    BY DEF End, Peer
  <2>. QED
    BY <2>1, <2>2, <1>2, PeerFacts DEF ConnInv, Paired
<1>. QED
  BY <1>1, <1>2, <1>3 DEF Kept, InCall

\* A Close begins, at an end that was not told to close before.
LEMMA CloseStartKeeps ==
  ASSUME ConnInv, NEW f \in End, CloseStart(f)
  PROVE  /\ ConnInv' /\ ~closeCh[f] /\ closeCh'[f] /\ routine' = routine
         /\ \A e \in End : e # f => Kept(e)
         /\ \A e \in End : ~InCall("close", e)
<1>1. ConnInv'
  BY CloseStartInv
<1>2. /\ holder = None /\ f \in conns /\ holder' = [op |-> "close", end |-> f]
      /\ closeCh' = [closeCh EXCEPT ![f] = TRUE] /\ routine' = routine
  BY DEF CloseStart, Closable
<1>3. closeCh \in [End -> BOOLEAN] /\ Paired(f)
  BY DEF ConnInv, ConnTypeOK
<1>4. ~closeCh[f] /\ closeCh'[f]
  BY <1>2, <1>3 DEF Paired
<1>5. ASSUME NEW e \in End, e # f PROVE Kept(e)
  BY <1>2, <1>3, <1>5, InCallFacts DEF Kept
<1>. QED
  BY <1>1, <1>2, <1>4, <1>5, InCallFacts

\* Who has been closed stays so.
LEMMA KeptShut == ASSUME NEW e \in End, Kept(e), Shut(e) PROVE Shut(e)'
BY DEF Kept, Shut

\* A step of the connections alone.
LEMMA KeptHandled ==
  ASSUME NEW e \in End, Handled(e), Kept(e), UNCHANGED <<connections, setup, handler, stop, toClose>>
  PROVE  Handled(e)'
<1>1. Registered(e)' <=> Registered(e)
  BY DEF Registered
<1>2. Shut(e) => Shut(e)'
  BY KeptShut
<1>. QED
  BY <1>1, <1>2 DEF Handled, Kept

-----------------------------------------------------------------------------
(***************************************************************************)
(* The steps of the routers.                                               *)
(***************************************************************************)

\* Send, and the goroutines of the connections.
LEMMA ConnStepRouters ==
  ASSUME ConnInv, RoutersInv, NEW f \in End,
         Send(f) \/ Goroutine(f)
  PROVE  ConnInv' /\ RoutersInv'
<1>1. /\ SendStart(f) \/ CallGoesOn(f) \/ RoutineStep(f)
      /\ UNCHANGED <<connections, setup, handler, stop, toClose>>
  BY DEF Send, Goroutine, routerVars
<1>2. ConnInv' /\ \A e \in End : Kept(e)
  BY <1>1, QuietKeeps
<1>3. \A e \in End : Handled(e)'
  BY <1>1, <1>2, KeptHandled DEF RoutersInv
<1>4. RouterTypes' /\ Owned'
  BY <1>1 DEF RoutersInv, RouterTypes, Owned
<1>. QED
  BY <1>2, <1>3, <1>4 DEF RoutersInv

\* connect gives both routers an end to register.
LEMMA ConnectRouters ==
  ASSUME ConnInv, RoutersInv, NEW p \in Pair, RouterConnects(p)
  PROVE  ConnInv' /\ RoutersInv'
<1>1. /\ NewConns(p)
      /\ setup' = [e \in End |-> IF e[1] = p THEN "register" ELSE setup[e]]
      /\ connections' = connections /\ handler' = handler /\ stop' = stop /\ toClose' = toClose
  BY DEF RouterConnects
<1>2. ConnInv'
  BY <1>1, NewConnsInv
<1>3. RouterTypes' /\ Owned'
  BY <1>1 DEF RoutersInv, RouterTypes, Owned
<1>4. ASSUME NEW e \in End PROVE Handled(e)'
  <2>1. Kept(e) /\ (e[1] = p => routine[e] = "none" /\ routine'[e] # "none")
    BY <1>1, NewConnsKeeps
  <2>2. Handled(e) /\ (Registered(e)' <=> Registered(e)) /\ (Shut(e) => Shut(e)')
    BY <1>1, <2>1, KeptShut DEF RoutersInv, Registered
  <2>3. setup'[e] = IF e[1] = p THEN "register" ELSE setup[e]
    BY <1>1
  <2>4. CASE e[1] = p
    <3>1. setup[e] = "none"
      BY <2>1, <2>2, <2>4 DEF Handled, RoutersInv, RouterTypes
    <3>. QED
      BY <1>1, <2>1, <2>2, <2>3, <2>4, <3>1 DEF Handled, Kept
  <2>5. CASE e[1] # p
    BY <1>1, <2>1, <2>2, <2>3, <2>5 DEF Handled, Kept
  <2>. QED
    BY <2>4, <2>5
<1>. QED
  BY <1>2, <1>3, <1>4 DEF RoutersInv

\* registerConnection, which a router that is closed refuses.
LEMMA RegisterRouters ==
  ASSUME ConnInv, RoutersInv, NEW f \in End, RegisterConnection(f)
  PROVE  ConnInv' /\ RoutersInv'
<1>. DEFINE o == Owner(f)
<1>1. /\ setup[f] = "register" /\ stop[o] # "locked"
      /\ setup' = [setup EXCEPT ![f] = IF IsClosed(o) THEN "refused" ELSE "launch"]
      /\ connections' = IF IsClosed(o) \/ connections[o][Remote(f)] # None
                        THEN connections
                        ELSE [connections EXCEPT ![o][Remote(f)] = f]
      /\ UNCHANGED connVars
      /\ handler' = handler /\ stop' = stop /\ toClose' = toClose
  BY DEF RegisterConnection, Locked, connVars, queueVars
<1>2. ConnInv' /\ \A e \in End : Kept(e)
  BY <1>1, UnchangedKeeps
<1>3. o \in Router /\ Remote(f) \in Router
  BY OwnerFacts
<1>4. RouterTypes'
  BY <1>1, <1>3 DEF RoutersInv, RouterTypes
<1>5. ASSUME NEW r \in Router, NEW x \in Router, connections'[r][x] # connections[r][x]
      PROVE  r = o /\ x = Remote(f) /\ connections'[r][x] = f /\ ~IsClosed(o)
  BY <1>1, <1>3, <1>5 DEF RoutersInv, RouterTypes
<1>6. Owned'
  <2>1. \A r \in Router : \A e \in toClose'[r] : stop'[r] = "locked" /\ Owner(e) = r
    BY <1>1 DEF RoutersInv, Owned
  <2>2. \A r \in Router, x \in Router, e \in End :
        connections'[r][x] = e => Owner(e) = r /\ Remote(e) = x
    BY <1>5 DEF RoutersInv, Owned
  <2>. QED
    BY <2>1, <2>2 DEF Owned
<1>7. ASSUME NEW e \in End PROVE Handled(e)'
  <2>1. Handled(e) /\ Kept(e) /\ (Shut(e) => Shut(e)')
    BY <1>2, KeptShut DEF RoutersInv
  <2>2. Registered(e)' => Registered(e) \/ (e = f /\ stop[o] \in {"no", "called", "host"})
    <3>1. Owner(e) \in Router /\ Remote(e) \in Router
      BY OwnerFacts
    <3>2. stop[o] \in {"no", "called", "host", "locked", "wait", "returned"}
      BY <1>3 DEF RoutersInv, RouterTypes
    <3>3. ~IsClosed(o) => stop[o] \in {"no", "called", "host"}
      BY <3>2 DEF IsClosed
    <3>4. ASSUME Registered(e)', ~Registered(e)
          PROVE  e = f /\ ~IsClosed(o)
      BY <3>1, <3>4, <1>5 DEF Registered
    <3>. QED
      BY <3>3, <3>4
  <2>3. setup'[e] = (IF e = f THEN IF IsClosed(o) THEN "refused" ELSE "launch" ELSE setup[e])
    BY <1>1 DEF RoutersInv, RouterTypes
  <2>. QED
    BY <1>1, <2>1, <2>2, <2>3 DEF Handled, Kept
<1>. QED
  BY <1>2, <1>4, <1>6, <1>7 DEF RoutersInv

\* launchHandleRoutine, which a router that is closed refuses, too.
LEMMA LaunchRouters ==
  ASSUME ConnInv, RoutersInv, NEW f \in End, LaunchHandleRoutine(f)
  PROVE  ConnInv' /\ RoutersInv'
<1>. DEFINE o == Owner(f)
<1>1. /\ setup[f] = "launch" /\ stop[o] # "locked"
      /\ \/ /\ stop[o] \in {"wait", "returned"}
            /\ setup' = [setup EXCEPT ![f] = "refused"] /\ handler' = handler
         \/ /\ stop[o] \notin {"wait", "returned"}
            /\ setup' = [setup EXCEPT ![f] = "launched"]
            /\ handler' = [handler EXCEPT ![f] = "receive"]
      /\ UNCHANGED connVars
      /\ connections' = connections /\ stop' = stop /\ toClose' = toClose
  BY DEF LaunchHandleRoutine, Locked, IsClosed, connVars, queueVars
<1>2. ConnInv' /\ \A e \in End : Kept(e)
  BY <1>1, UnchangedKeeps
<1>3. RouterTypes' /\ Owned'
  BY <1>1 DEF RoutersInv, RouterTypes, Owned
<1>4. ASSUME NEW e \in End PROVE Handled(e)'
  <2>1. Handled(e) /\ Kept(e) /\ (Shut(e) => Shut(e)') /\ (Registered(e)' <=> Registered(e))
    BY <1>1, <1>2, KeptShut DEF RoutersInv, Registered
  <2>2. e # f => setup'[e] = setup[e] /\ handler'[e] = handler[e]
    BY <1>1 DEF RoutersInv, RouterTypes
  <2>3. CASE e # f
    BY <1>1, <2>1, <2>2, <2>3 DEF Handled, Kept
  <2>4. CASE e = f
    BY <1>1, <2>1, <2>4 DEF Handled, Kept, RoutersInv, RouterTypes
  <2>. QED
    BY <2>3, <2>4
<1>. QED
  BY <1>2, <1>3, <1>4 DEF RoutersInv

\* A step of handleConn: where it may go, given what it leaves of its end.
LEMMA MovesRouters ==
  ASSUME RoutersInv, NEW f \in End, NEW next,
         \A e \in End : e # f => Kept(e),
         routine[f] # "none" => routine'[f] # "none", closeCh[f] => closeCh'[f],
         handler[f] # "none", handler' = [handler EXCEPT ![f] = next],
         UNCHANGED <<connections, setup, stop, toClose>>,
         next \in {"receive", "check", "failed", "close", "closing", "remove", "returned"},
         next \in {"failed", "closing"} => closeCh'[f],
         next = "close" => Shut(f)' \/ stop[Owner(f)] \in {"wait", "returned"},
         next \in {"remove", "returned"} => Shut(f)',
         InCall("close", f)' => next = "closing" \/ stop[Owner(f)] = "locked",
         stop[Owner(f)] = "returned" => next \in {"remove", "returned"}
  PROVE  RoutersInv'
<1>1. RouterTypes' /\ Owned'
  BY DEF RoutersInv, RouterTypes, Owned
<1>2. ASSUME NEW e \in End PROVE Handled(e)'
  <2>1. Handled(e) /\ (Registered(e)' <=> Registered(e))
    BY DEF RoutersInv, Registered
  <2>2. handler'[e] = IF e = f THEN next ELSE handler[e]
    BY DEF RoutersInv, RouterTypes
  <2>3. CASE e # f
    <3>1. Kept(e) /\ (Shut(e) => Shut(e)')
      BY <2>3, KeptShut
    <3>. QED
      BY <2>1, <2>2, <2>3, <3>1 DEF Handled, Kept
  <2>4. CASE e = f
    BY <2>1, <2>2, <2>4 DEF Handled
  <2>. QED
    BY <2>3, <2>4
<1>. QED
  BY <1>1, <1>2 DEF RoutersInv

\* Receive, with a message or an error, and r.Closed() after it.
LEMMA ReadsRouters ==
  ASSUME ConnInv, RoutersInv, NEW f \in End,
         HandlerReceives(f) \/ HandlerFails(f) \/ HandlerChecks(f)
  PROVE  ConnInv' /\ RoutersInv'
<1>. DEFINE o == Owner(f)
<1>1. Handled(f) /\ Paired(f) /\ o \in Router
  BY OwnerFacts DEF RoutersInv, ConnInv
<1>2. CASE HandlerReceives(f)
  <2>1. /\ handler[f] = "receive" /\ handler' = [handler EXCEPT ![f] = "check"] /\ Receive(f)
        /\ UNCHANGED <<connections, setup, stop, toClose>>
    BY <1>2 DEF HandlerReceives, Moves
  <2>2. ConnInv' /\ \A e \in End : Kept(e)
    BY <2>1, QuietKeeps
  <2>3. InCall("close", f)' => stop[o] = "locked"
    BY <2>1, <2>2, <1>1 DEF Kept, Handled
  <2>4. stop[o] # "returned"
    BY <2>1, <1>1 DEF Handled
  <2>5. RoutersInv'
    BY <2>1, <2>2, <2>3, <2>4, MovesRouters DEF Kept
  <2>. QED
    BY <2>2, <2>5
<1>3. CASE HandlerFails(f)
  <2>1. /\ handler[f] = "receive" /\ handler' = [handler EXCEPT ![f] = "failed"]
        /\ routine[f] \in {"confirm", "returned"} /\ UNCHANGED connVars
        /\ UNCHANGED <<connections, setup, stop, toClose>>
    BY <1>3 DEF HandlerFails, Moves
  <2>2. ConnInv' /\ \A e \in End : Kept(e)
    BY <2>1, UnchangedKeeps
  <2>3. InCall("close", f)' => stop[o] = "locked"
    BY <2>1, <2>2, <1>1 DEF Kept, Handled
  <2>4. stop[o] # "returned"
    BY <2>1, <1>1 DEF Handled
  <2>5. closeCh'[f]
    BY <2>1, <2>2, <1>1 DEF Paired, Kept
  <2>6. RoutersInv'
    BY <2>1, <2>2, <2>3, <2>4, <2>5, MovesRouters DEF Kept
  <2>. QED
    BY <2>2, <2>6
<1>4. CASE HandlerChecks(f)
  <2>1. PICK next \in {"receive", "close"} :
          /\ handler[f] \in {"check", "failed"} /\ handler' = [handler EXCEPT ![f] = next]
          /\ stop[o] # "locked" /\ UNCHANGED connVars
          /\ next = "close" => handler[f] = "failed" \/ stop[o] \in {"wait", "returned"}
          /\ UNCHANGED <<connections, setup, stop, toClose>>
    BY <1>1, <1>4
       DEF HandlerChecks, Moves, Locked, IsClosed
  <2>2. ConnInv' /\ \A e \in End : Kept(e)
    BY <2>1, UnchangedKeeps
  <2>3. ~InCall("close", f)'
    BY <2>1, <2>2, <1>1 DEF Kept, Handled
  <2>4. stop[o] # "returned"
    BY <2>1, <1>1 DEF Handled
  <2>5. handler[f] = "failed" => Shut(f)'
    BY <2>1, <2>2, <2>3, <1>1 DEF Handled, Kept, Shut
  <2>6. RoutersInv'
    BY <2>1, <2>2, <2>3, <2>4, <2>5, MovesRouters DEF Kept
  <2>. QED
    BY <2>2, <2>6
<1>. QED
  BY <1>2, <1>3, <1>4

\* The deferred function: Close, which returns at once if somebody else has closed the end...
LEMMA ClosesRouters ==
  ASSUME ConnInv, RoutersInv, NEW f \in End, HandlerCloses(f)
  PROVE  ConnInv' /\ RoutersInv'
<1>. DEFINE o == Owner(f)
<1>1. Handled(f) /\ o \in Router
  BY OwnerFacts DEF RoutersInv
<1>2. handler[f] = "close" /\ UNCHANGED <<connections, setup, stop, toClose>>
  BY DEF HandlerCloses, Moves
<1>3. stop[o] # "returned"
  BY <1>1, <1>2 DEF Handled
<1>4. CASE handler' = [handler EXCEPT ![f] = "closing"] /\ CloseStart(f)
  <2>1. /\ ConnInv' /\ closeCh'[f] /\ routine' = routine
        /\ \A e \in End : e # f => Kept(e)
    BY <1>4, CloseStartKeeps
  <2>2. RoutersInv'
    BY <1>2, <1>3, <1>4, <2>1, MovesRouters
  <2>. QED
    BY <2>1, <2>2
<1>5. CASE handler' = [handler EXCEPT ![f] = "remove"] /\ closeCh[f] /\ UNCHANGED connVars
  <2>1. ConnInv' /\ \A e \in End : Kept(e)
    BY <1>5, UnchangedKeeps
  <2>2. Shut(f)
    BY <1>1, <1>2, <1>5 DEF Handled, Shut
  <2>3. Shut(f)'
    BY <2>1, <2>2, KeptShut
  <2>4. RoutersInv'
    BY <1>2, <1>3, <1>5, <2>1, <2>3, MovesRouters DEF Kept, Shut
  <2>. QED
    BY <2>1, <2>4
<1>. QED
  BY <1>4, <1>5 DEF HandlerCloses, Moves

\* ... wg.Done() when it has returned...
LEMMA ClosedRouters ==
  ASSUME ConnInv, RoutersInv, NEW f \in End, HandlerClosed(f)
  PROVE  ConnInv' /\ RoutersInv'
<1>. DEFINE o == Owner(f)
<1>1. Handled(f) /\ o \in Router
  BY OwnerFacts DEF RoutersInv
<1>2. /\ handler[f] = "closing" /\ handler' = [handler EXCEPT ![f] = "remove"]
      /\ ~InClose(f) /\ UNCHANGED connVars
      /\ UNCHANGED <<connections, setup, stop, toClose>>
  BY DEF HandlerClosed, Moves
<1>3. ConnInv' /\ \A e \in End : Kept(e)
  BY <1>2, UnchangedKeeps
<1>4. Shut(f)
  BY <1>1, <1>2 DEF Handled, Shut, InClose, InCall
<1>5. Shut(f)'
  BY <1>3, <1>4, KeptShut
<1>6. RoutersInv'
  BY <1>1, <1>2, <1>3, <1>5, MovesRouters DEF Kept, Shut
<1>. QED
  BY <1>3, <1>6

\* ... and removeConnection.
LEMMA RemoveRouters ==
  ASSUME ConnInv, RoutersInv, NEW f \in End, RemoveConnection(f)
  PROVE  ConnInv' /\ RoutersInv'
<1>. DEFINE o == Owner(f)
<1>1. /\ handler[f] = "remove" /\ handler' = [handler EXCEPT ![f] = "returned"]
      /\ connections' = [connections EXCEPT ![o][Remote(f)] = None]
      /\ UNCHANGED connVars
      /\ setup' = setup /\ stop' = stop /\ toClose' = toClose
  BY DEF RemoveConnection, Moves
<1>2. ConnInv' /\ \A e \in End : Kept(e)
  BY <1>1, UnchangedKeeps
<1>3. o \in Router /\ Remote(f) \in Router /\ None \notin End
  BY OwnerFacts, LocalRoutersAssumption
<1>4. RouterTypes'
  BY <1>1, <1>3 DEF RoutersInv, RouterTypes
<1>5. \A r, x \in Router, e \in End : connections'[r][x] = e => connections[r][x] = e
  BY <1>1, <1>3 DEF RoutersInv, RouterTypes
<1>6. Owned'
  BY <1>1, <1>5 DEF RoutersInv, Owned
<1>7. ASSUME NEW e \in End PROVE Handled(e)'
  <2>1. Handled(e) /\ Kept(e) /\ (Shut(e) => Shut(e)')
    BY <1>2, KeptShut DEF RoutersInv
  <2>2. Registered(e)' => Registered(e)
    BY <1>5, OwnerFacts DEF Registered
  <2>3. handler'[e] = IF e = f THEN "returned" ELSE handler[e]
    BY <1>1 DEF RoutersInv, RouterTypes
  <2>. QED
    BY <1>1, <2>1, <2>2, <2>3 DEF Handled, Kept
<1>. QED
  BY <1>2, <1>4, <1>6, <1>7 DEF RoutersInv

\* Stop, without what it does to connections: it has the lock for the registry, it has
\* told all registered ends to close when it unlocks, and no handler is left at the end.
LEMMA StopStepsRouters ==
  ASSUME ConnInv, RoutersInv, NEW r \in Router,
         StopCalled(r) \/ StopHost(r) \/ StopLocks(r)
           \/ StopUnlocks(r) \/ StopReturn(r)
  PROVE  ConnInv' /\ RoutersInv'
<1>1. PICK next \in {"called", "host", "locked", "wait", "returned"} :
        /\ stop' = [stop EXCEPT ![r] = next]
        /\ UNCHANGED connVars /\ connections' = connections /\ setup' = setup /\ handler' = handler
        /\ \A q \in Router : q # r => toClose'[q] = toClose[q]
        /\ next # "locked" => toClose' = toClose
        /\ next \in {"called", "host"} => stop[r] \in {"no", "called"}
        /\ next = "locked" => /\ stop[r] = "host"
                              /\ toClose' = [toClose EXCEPT ![r] =
                                   {connections[r][x] : x \in Router} \ {None}]
        /\ next = "wait" => /\ stop[r] = "locked" /\ toClose[r] = {}
                            /\ \A e \in End : Owner(e) = r /\ InClose(e) =>
                                 handler[e] = "closing"
        /\ next = "returned" => /\ stop[r] = "wait"
                                /\ \A e \in End : Owner(e) = r => ~Active(e)
  BY DEF StopCalled, StopHost, StopLocks, StopUnlocks,
                   StopReturn, Progress, RoutersInv, RouterTypes
<1>2. ConnInv' /\ \A e \in End : Kept(e)
  <2>1. UNCHANGED connVars
    BY <1>1
  <2>. QED
    BY <2>1, ConnUnchangedInv, UnchangedKeeps
<1>3. /\ stop \in [Router -> {"no", "called", "host", "locked", "wait", "returned"}]
      /\ toClose \in [Router -> SUBSET End]
      /\ connections \in [Router -> [Router -> End \cup {None}]]
  BY DEF RoutersInv, RouterTypes
<1>4. stop'[r] = next /\ \A q \in Router : q # r => stop'[q] = stop[q]
  BY <1>1, <1>3
<1>5. RouterTypes'
  <2>1. toClose' \in [Router -> SUBSET End]
    BY <1>1, <1>3
  <2>. QED
    BY <1>1, <2>1 DEF RoutersInv, RouterTypes
<1>6. Owned'
  <2>1. ASSUME NEW q \in Router, NEW e \in toClose'[q]
        PROVE  stop'[q] = "locked" /\ Owner(e) = q
    <3>1. CASE q # r
      BY <3>1, <1>1, <1>4 DEF RoutersInv, Owned
    <3>2. CASE q = r /\ next = "locked"
      <4>1. PICK x \in Router : e = connections[r][x] /\ e # None
        BY <1>1, <1>3, <3>2
      <4>2. e \in End
        BY <1>3, <4>1
      <4>. QED
        BY <1>4, <3>2, <4>1, <4>2 DEF RoutersInv, Owned
    <3>3. CASE q = r /\ next # "locked"
      <4>1. e \in toClose[r] /\ stop[r] = "locked"
        BY <1>1, <3>3 DEF RoutersInv, Owned
      <4>. QED
        BY <1>1, <3>3, <4>1
    <3>. QED
      BY <3>1, <3>2, <3>3
  <2>2. \A q, x \in Router, e \in End : connections'[q][x] = e => Owner(e) = q /\ Remote(e) = x
    BY <1>1 DEF RoutersInv, Owned
  <2>. QED
    BY <2>1, <2>2 DEF Owned
<1>7. ASSUME NEW e \in End PROVE Handled(e)'
  <2>1. /\ Handled(e) /\ Kept(e) /\ (Shut(e) => Shut(e)') /\ (Registered(e)' <=> Registered(e))
        /\ Owner(e) \in Router /\ Remote(e) \in Router
    BY <1>1, <1>2, KeptShut, OwnerFacts DEF RoutersInv, Registered
  <2>2. CASE Owner(e) # r
    BY <1>1, <1>4, <2>1, <2>2 DEF Handled, Kept
  <2>3. CASE Owner(e) = r
    <3>1. next = "locked" => (Registered(e) <=> e \in toClose'[r])
      <4>1. None \notin End
        BY LocalRoutersAssumption
      <4>2. \A x \in Router : connections[r][x] = e => Remote(e) = x
        BY DEF RoutersInv, Owned
      <4>. QED
        BY <1>1, <1>3, <2>1, <2>3, <4>1, <4>2 DEF Registered
    <3>2. next = "wait" /\ InCall("close", e) => handler[e] = "closing"
      BY <1>1, <2>3 DEF InClose, InCall
    <3>3. next = "returned" => handler[e] \in {"none", "remove", "returned"}
      BY <1>1, <2>3 DEF Active
    <3>4. next = "returned" => stop[r] = "wait"
      BY <1>1
    <3>5. next = "wait" => stop[r] = "locked" /\ toClose[r] = {}
      BY <1>1
    <3>6. next \in {"called", "host"} => stop[r] \in {"no", "called"}
      BY <1>1
    <3>7. next = "locked" => stop[r] = "host"
      BY <1>1
    <3>. QED
      BY <1>1, <1>4, <2>1, <2>3, <3>1, <3>2, <3>3, <3>4, <3>5, <3>6, <3>7 DEF Handled, Kept
  <2>. QED
    BY <2>2, <2>3
<1>. QED
  BY <1>2, <1>5, <1>6, <1>7 DEF RoutersInv

\* Stop closes a registered end, if nobody else has.
LEMMA StopClosesRouters ==
  ASSUME ConnInv, RoutersInv, NEW r \in Router, NEW f \in End,
         StopCloses(r, f)
  PROVE  ConnInv' /\ RoutersInv'
<1>1. /\ f \in toClose[r]
      /\ toClose' = [toClose EXCEPT ![r] = @ \ {f}]
      /\ CloseStart(f) \/ (closeCh[f] /\ UNCHANGED connVars)
      /\ connections' = connections /\ setup' = setup /\ handler' = handler /\ stop' = stop
  BY DEF StopCloses
<1>2. /\ ConnInv' /\ closeCh'[f] /\ (routine[f] # "none" => routine'[f] # "none")
      /\ \A e \in End : e # f => Kept(e)
      /\ (Shut(f) => Shut(f)')
  <2>1. CASE CloseStart(f)
    BY <2>1, CloseStartKeeps DEF Shut
  <2>2. CASE closeCh[f] /\ UNCHANGED connVars
    <3>1. ConnInv' /\ \A e \in End : Kept(e)
      BY <2>2, UnchangedKeeps
    <3>. QED
      BY <2>2, <3>1, KeptShut DEF Kept
  <2>. QED
    BY <1>1, <2>1, <2>2
<1>3. stop[r] = "locked" /\ Owner(f) = r
  BY <1>1 DEF RoutersInv, Owned
<1>4. RouterTypes' /\ \A q \in Router : toClose'[q] \subseteq toClose[q]
  BY <1>1 DEF RoutersInv, RouterTypes
<1>5. Owned'
  BY <1>1, <1>4 DEF RoutersInv, Owned
<1>6. ASSUME NEW e \in End PROVE Handled(e)'
  <2>1. /\ Handled(e) /\ (Registered(e)' <=> Registered(e))
        /\ Owner(e) \in Router
    BY <1>1, OwnerFacts DEF RoutersInv, Registered
  <2>2. e # f => (e \in toClose'[Owner(e)] <=> e \in toClose[Owner(e)])
    BY <1>1, <2>1 DEF RoutersInv, RouterTypes
  <2>3. CASE e # f
    <3>1. Kept(e) /\ (Shut(e) => Shut(e)')
      BY <1>2, <2>3, KeptShut
    <3>. QED
      BY <1>1, <2>1, <2>2, <2>3, <3>1 DEF Handled, Kept
  <2>4. CASE e = f
    BY <1>1, <1>2, <1>3, <2>1, <2>4 DEF Handled
  <2>. QED
    BY <2>3, <2>4
<1>. QED
  BY <1>2, <1>4, <1>5, <1>6 DEF RoutersInv

\* Any step of the routers.
LEMMA RoutersInvNext ==
  ASSUME ConnInv, RoutersInv, [RoutersNext]_networkVars
  PROVE  ConnInv' /\ RoutersInv'
<1>1. CASE UNCHANGED networkVars
  <2>1. UNCHANGED connVars /\ UNCHANGED <<connections, setup, handler, stop, toClose>>
    BY <1>1 DEF networkVars, routerVars
  <2>2. ConnInv' /\ \A e \in End : Kept(e)
    BY <2>1, ConnUnchangedInv, UnchangedKeeps
  <2>3. \A e \in End : Handled(e)'
    BY <2>1, <2>2, KeptHandled DEF RoutersInv
  <2>4. RouterTypes' /\ Owned'
    BY <2>1 DEF RoutersInv, RouterTypes, Owned
  <2>. QED
    BY <2>2, <2>3, <2>4 DEF RoutersInv
<1>2. CASE \E p \in Pair : RouterConnects(p)
  BY <1>2, ConnectRouters
<1>3. CASE \E e \in End : Send(e) \/ Goroutine(e)
  BY <1>3, ConnStepRouters
<1>4. CASE \E e \in End : SetUp(e)
  BY <1>4, RegisterRouters, LaunchRouters DEF SetUp
<1>5. CASE \E e \in End : HandlerGoes(e)
  BY <1>5, ReadsRouters, ClosesRouters, ClosedRouters, RemoveRouters DEF HandlerGoes
<1>6. CASE \E r \in Router : StopCalled(r) \/ StopGoes(r)
  BY <1>6, StopStepsRouters, StopClosesRouters DEF StopGoes
<1>. QED
  BY <1>1, <1>2, <1>3, <1>4, <1>5, <1>6 DEF RoutersNext, GoesOn

\* When Stop of a router has returned, every connection that it had taken over is
\* unregistered at both ends, and whatever it leaves open is not in its registry, for any
\* routers, connections and queues (Router.Stop, handleConn, LocalManager.close).
THEOREM StoppedCorrect == RoutersSpec => []StoppedIsClosed
<1>1. RoutersInit => ConnInv /\ RoutersInv
  BY RoutersInitInv
<1>2. ConnInv /\ RoutersInv /\ [RoutersNext]_networkVars => ConnInv' /\ RoutersInv'
  BY RoutersInvNext
<1>3. ConnInv /\ RoutersInv => StoppedIsClosed
  BY RoutersInvStopped
<1>. QED
  BY <1>1, <1>2, <1>3, PTL DEF RoutersSpec

\* Every variable of routers on connections has its type: no queue is longer than its
\* capacity, and a router has ends of connections in its registry (Router, LocalConn).
THEOREM RoutersTypeCorrect == RoutersSpec => []RoutersTypeOK
<1>1. RoutersInit => ConnInv /\ RoutersInv
  BY RoutersInitInv
<1>2. ConnInv /\ RoutersInv /\ [RoutersNext]_networkVars => ConnInv' /\ RoutersInv'
  BY RoutersInvNext
<1>3. ConnInv /\ RoutersInv => RoutersTypeOK
  BY DEF ConnInv, ConnTypeOK, Msg, Peer, End, RoutersInv, RouterTypes, RoutersTypeOK
<1>. QED
  BY <1>1, <1>2, <1>3, PTL DEF RoutersSpec

\* On the routers' connections, too, no Go channel is closed twice or sent on when it
\* is closed (send, close, closeChannels, start).
THEOREM RoutersNoPanic == RoutersSpec => []NoPanic
<1>1. RoutersInit => ConnInv /\ RoutersInv
  BY RoutersInitInv
<1>2. ConnInv /\ RoutersInv /\ [RoutersNext]_networkVars => ConnInv' /\ RoutersInv'
  BY RoutersInvNext
<1>3. ConnInv => NoPanic
  BY DEF ConnInv, NoPanic
<1>. QED
  BY <1>1, <1>2, <1>3, PTL DEF RoutersSpec

\* The same of the connections of routers: what Stop and the handlers close in the meantime
\* cuts off the last messages only (send, start, Receive, Router.Stop, handleConn).
THEOREM RoutersMessages == RoutersSpec => []MessagesInOrder
<1>1. RoutersInit => OrderInv
  BY ConnInitOrder DEF RoutersInit
<1>2. OrderInv /\ [RoutersNext]_networkVars => OrderInv'
  <2>. SUFFICES ASSUME OrderInv, [RoutersNext]_networkVars PROVE OrderInv'
    OBVIOUS
  <2>1. CASE \E e \in End : HandlerGoes(e)
    BY <2>1, ConnStepOrder DEF HandlerGoes, HandlerReceives, HandlerFails, HandlerChecks,
       HandlerCloses, HandlerClosed, RemoveConnection, ConnNext
  <2>2. CASE \E r \in Router : StopCalled(r) \/ StopGoes(r)
    BY <2>2, ConnStepOrder DEF StopGoes, StopCalled, StopHost, StopLocks, StopUnlocks,
       StopReturn, StopCloses, ConnNext
  <2>3. CASE \E e \in End : Send(e) \/ SetUp(e) \/ Goroutine(e)
    BY <2>3, ConnStepOrder DEF Send, SetUp, RegisterConnection, LaunchHandleRoutine,
       Goroutine, ConnNext
  <2>4. CASE (\E p \in Pair : RouterConnects(p)) \/ UNCHANGED networkVars
    BY <2>4, ConnStepOrder DEF RouterConnects, networkVars
  <2>. QED
    BY <2>1, <2>2, <2>3, <2>4 DEF RoutersNext, GoesOn
<1>. QED
  BY <1>1, <1>2, OrderedMessages, PTL DEF RoutersSpec

-----------------------------------------------------------------------------
(***************************************************************************)
(* Where goroutines are at rest.                                           *)
(***************************************************************************)

\* No goroutine has a step when all are at rest.
LEMMA RestIsRest ==
  ASSUME ConnInv, RoutersInv, AtRest
  PROVE  ~GoesOn
<1>1. ASSUME NEW e \in End PROVE ~SetUp(e)
  BY DEF AtRest, SetUp, RegisterConnection, LaunchHandleRoutine
<1>2. ASSUME NEW e \in End PROVE ~HandlerGoes(e)
  <2>1. ~HandlerReceives(e) /\ ~HandlerFails(e)
    BY DEF AtRest, HandlerReceives, HandlerFails, Moves, Receive
  <2>2. ~HandlerChecks(e) /\ ~HandlerClosed(e) /\ ~RemoveConnection(e)
    BY DEF AtRest, HandlerChecks, HandlerClosed, RemoveConnection, Moves
  <2>3. ~HandlerCloses(e)
    BY DEF AtRest, CanClose, HandlerCloses, Moves, CloseStart
  <2>. QED
    BY <2>1, <2>2, <2>3 DEF HandlerGoes
<1>3. ASSUME NEW e \in End PROVE ~Goroutine(e)
  <2>1. ~RoutineStep(e)
    BY DEF AtRest, RoutineStep, Forward, Forwarded, RoutineCloses
  <2>2. ~CallGoesOn(e)
    BY DEF AtRest, CallGoesOn, SendQueue, ClosePeer, CloseReturns
  <2>. QED
    BY <2>1, <2>2 DEF Goroutine
<1>4. ASSUME NEW r \in Router PROVE ~StopGoes(r)
  <2>1. ~StopHost(r) /\ ~StopLocks(r) /\ ~StopUnlocks(r) /\ ~StopReturn(r)
    BY DEF AtRest, StopHost, StopLocks, StopUnlocks, StopReturn, Progress
  <2>2. ASSUME NEW e \in End PROVE ~StopCloses(r, e)
    BY DEF AtRest, CanClose, StopCloses, CloseStart, RoutersInv, Owned
  <2>. QED
    BY <2>1, <2>2 DEF StopGoes
<1>. QED
  BY <1>1, <1>2, <1>3, <1>4 DEF GoesOn

\* A goroutine that rests with a message in hand has nobody who takes it.
LEMMA RestNoReader ==
  ASSUME ConnInv, AtRest, NEW f \in End, routine[f] = "forward"
  PROVE  NoReader(f)
<1>1. ~HasRoom(outgoing[f]) /\ outgoing[f] # <<>>
  <2>1. ~HasRoom(outgoing[f])
    BY DEF AtRest
  <2>. QED
    BY <2>1, LocalConnAssumption DEF HasRoom
<1>2. handler[f] # "receive" /\ (handler[f] = "check" => IsClosed(Owner(f)))
  BY <1>1 DEF AtRest, Locked, IsClosed
<1>. QED
  BY <1>1, <1>2 DEF NoReader

\* A call that rests with the manager's mutex waits for such a goroutine.
LEMMA RestManager ==
  ASSUME ConnInv, AtRest, holder # None
  PROVE  ManagerStuck
<1>1. PICK e \in End, op \in {"send", "close", "closePeer"} : holder = [op |-> op, end |-> e]
  BY DEF ConnInv, ConnTypeOK
<1>2. Peer(e) \in End /\ Peer(Peer(e)) = e /\ Paired(e) /\ Paired(Peer(e))
  BY PeerFacts DEF ConnInv
<1>3. /\ routine \in [End -> {"none", "select", "forward", "confirm", "returned"}]
      /\ closeCh \in [End -> BOOLEAN]
  BY DEF ConnInv, ConnTypeOK
<1>4. InCall(op, e)
  BY <1>1, InCallFacts
<1>5. CASE op = "send"
  <2>1. ~closeCh[Peer(e)] /\ routine[Peer(e)] \in {"select", "forward"}
    BY <1>2, <1>3, <1>4, <1>5 DEF Paired
  <2>2. incoming[Peer(e)] # <<>>
    <3>1. ~HasRoom(incoming[Peer(e)])
      BY <1>1, <1>5 DEF AtRest
    <3>. QED
      BY <3>1, LocalConnAssumption DEF HasRoom
  <2>3. routine[Peer(e)] = "forward"
    BY <1>2, <2>1, <2>2 DEF AtRest
  <2>. QED
    BY <1>1, <1>2, <1>5, <2>3, RestNoReader DEF ManagerStuck, WaitsFor
<1>6. CASE op = "close"
  <2>1. closeCh[e] /\ routine[e] \in {"select", "forward", "confirm"}
    BY <1>2, <1>3, <1>4, <1>6 DEF Paired, Closing
  <2>2. routine[e] = "forward"
    BY <1>1, <1>6, <2>1 DEF AtRest
  <2>. QED
    BY <1>1, <1>6, <2>2, RestNoReader DEF ManagerStuck, WaitsFor
<1>7. CASE op = "closePeer"
  <2>1. closeCh[Peer(e)] /\ routine[Peer(e)] \in {"select", "forward", "confirm"}
    BY <1>2, <1>3, <1>4, <1>7 DEF Paired, Closing
  <2>2. routine[Peer(e)] = "forward"
    BY <1>1, <1>2, <1>7, <2>1 DEF AtRest
  <2>. QED
    BY <1>1, <1>2, <1>7, <2>2, RestNoReader DEF ManagerStuck, WaitsFor
<1>. QED
  BY <1>5, <1>6, <1>7

\* When nobody has the manager's mutex, every end that has been connected can be closed.
LEMMA FreeCloses ==
  ASSUME ConnInv, holder = None, NEW e \in End, routine[e] # "none"
  PROVE  CanClose(e)
BY DEF ConnInv, ConnTypeOK, Paired, CanClose, Closable

\* Then a Stop that rests waits for a handler on a second connection.
LEMMA RestStop ==
  ASSUME ConnInv, RoutersInv, AtRest, holder = None,
         NEW r \in Router, stop[r] \notin {"no", "returned"}
  PROVE  \E e \in End : Owner(e) = r /\ Orphan(e)
<1>1. \A e \in End : Paired(e) /\ Handled(e)
  BY DEF ConnInv, RoutersInv
<1>2. /\ routine \in [End -> {"none", "select", "forward", "confirm", "returned"}]
      /\ closeCh \in [End -> BOOLEAN]
  BY DEF ConnInv, ConnTypeOK
<1>3. stop[r] \in {"called", "host", "locked", "wait"}
  BY DEF RoutersInv, RouterTypes
<1>4. stop[r] # "called" /\ stop[r] # "host"
  BY DEF AtRest
<1>5. stop[r] # "locked"
  <2>. SUFFICES ASSUME stop[r] = "locked" PROVE FALSE
    OBVIOUS
  <2>1. toClose[r] = {}
    <3>. SUFFICES ASSUME NEW e \in toClose[r] PROVE FALSE
      OBVIOUS
    <3>1. e \in End /\ Owner(e) = r
      BY DEF RoutersInv, RouterTypes, Owned
    <3>2. routine[e] # "none"
      BY <1>1, <3>1 DEF Handled
    <3>. QED
      BY <3>1, <3>2, FreeCloses DEF AtRest
  <2>2. \A e \in End : ~InClose(e)
    BY DEF InClose
  <2>. QED
    BY <2>1, <2>2 DEF AtRest
<1>6. PICK e \in End : Owner(e) = r /\ Active(e)
  BY <1>3, <1>4, <1>5 DEF AtRest
<1>7. ~Locked(Owner(e)) /\ stop[Owner(e)] = "wait"
  BY <1>3, <1>4, <1>5, <1>6 DEF Locked
<1>8. routine[e] # "none" /\ CanClose(e)
  BY <1>1, <1>6, FreeCloses DEF Handled, Active
<1>9. handler[e] = "receive"
  <2>1. handler[e] \in {"receive", "check", "failed", "close", "closing"}
    BY <1>6 DEF Active, RoutersInv, RouterTypes
  <2>2. handler[e] \notin {"check", "failed"}
    BY <1>7 DEF AtRest
  <2>3. handler[e] # "close"
    BY <1>8 DEF AtRest
  <2>4. handler[e] # "closing"
    BY DEF AtRest, InClose
  <2>. QED
    BY <2>1, <2>2, <2>3, <2>4
<1>10. ~closeCh[e]
  <2>. SUFFICES ASSUME closeCh[e] PROVE FALSE
    OBVIOUS
  <2>1. ~Closing(e)
    BY InCallFacts DEF Closing
  <2>2. routine[e] = "returned"
    BY <1>1, <2>1 DEF Paired
  <2>. QED
    BY <1>9, <2>2 DEF AtRest
<1>11. e \in conns /\ ~Registered(e)
  BY <1>1, <1>7, <1>8, <1>10 DEF Paired, Handled
<1>. QED
  BY <1>6, <1>9, <1>11 DEF Orphan, Registered

\* AtRest says what it should: no goroutine of routers that are at rest has a step
\* (start, Send, Close, handleConn, Router.Stop).
THEOREM RestCorrect == RoutersSpec => [][AtRest => ~GoesOn]_networkVars
<1>1. RoutersInit => ConnInv /\ RoutersInv
  BY RoutersInitInv
<1>2. ConnInv /\ RoutersInv /\ [RoutersNext]_networkVars => ConnInv' /\ RoutersInv'
  BY RoutersInvNext
<1>3. ConnInv /\ RoutersInv => (AtRest => ~GoesOn)
  BY RestIsRest
<1>. QED
  BY <1>1, <1>2, <1>3, PTL DEF RoutersSpec

\* On the in-process network Stop returns, for any routers, connections and queues: when
\* no goroutine can go on, every Stop that has been called has returned, unless a call
\* has the manager's mutex and waits for a start() without a reader, or the router has a
\* handler on a second connection with the same router (Router.Stop, handleConn,
\* LocalManager.send and close).
THEOREM StopReturnsCorrect == RoutersSpec => []StopReturnsOrStuck
<1>1. RoutersInit => ConnInv /\ RoutersInv
  BY RoutersInitInv
<1>2. ConnInv /\ RoutersInv /\ [RoutersNext]_networkVars => ConnInv' /\ RoutersInv'
  BY RoutersInvNext
<1>3. ConnInv /\ RoutersInv => StopReturnsOrStuck
  BY RestManager, RestStop DEF StopReturnsOrStuck
<1>. QED
  BY <1>1, <1>2, <1>3, PTL DEF RoutersSpec

=============================================================================
