------------------------- MODULE ClientRouterProofs -------------------------
(***************************************************************************)
(* Proofs about ClientRouter, for any number of clients and of calls of    *)
(* Send and Broadcast, and for any number of messages of strangers.        *)
(***************************************************************************)
EXTENDS ClientRouter, SequenceTheorems, TLAPS

-----------------------------------------------------------------------------
(***************************************************************************)
(* The inductive invariant.                                                *)
(***************************************************************************)
Contents(q) == {q[i] : i \in 1..Len(q)}

Once(q, m) == \A i, j \in 1..Len(q) : q[i] = m /\ q[j] = m => i = j

\* The call has not said hello yet.
Early(c) == pc[c] \in {"new", "start", "open", "handshake"}

\* A stream is made once, after the handshake, and its destination does not change.
Calls == \A c \in Call :
  /\ c.job \in Job /\ job[c.job] = "new" => pc[c] = "new"
  /\ pc[c] \notin {"new", "start"} => to[c] \in Peer
  /\ Early(c) \/ pc[c] = "receive" => session[c] = None /\ machine[c] = "none"
  /\ pc[c] = "reply" => session[c] # None /\ ~First(c)

\* A hello is under way at most once, to the peer that it is for, and while it is no
\* stream is built on it.
Hellos == \A p, q \in Peer, c \in Call :
  /\ Hello(c) \in Contents(inbound[p][q]) =>
       /\ q = c.from /\ p = to[c] /\ First(c) /\ ~Early(c)
       /\ \A d \in Call : session[d] # c
  /\ Once(inbound[p][q], Hello(c))

\* The server has a stream for the handshake of c.
Served(c) == \E d \in Call : session[d] = c /\ machine[d] # "none"

\* A reply is under way to the client of its handshake, and the server has the stream.
Replies == \A p, q \in Peer, c \in Call :
  Reply(c) \in Contents(inbound[p][q]) => p = c.from /\ First(c) /\ ~Early(c) /\ Served(c)

\* A handshake has one client, whose hello it began with, and at most one server.
Sessions ==
  /\ \A c \in Call : session[c] # None =>
       \/ session[c] = c /\ First(c) /\ Served(c)
       \/ ~First(c) /\ First(session[c]) /\ Opposite(c, session[c]) /\ ~Early(session[c])
  /\ \A c, d \in Call :
       session[c] # None /\ session[c] = session[d] /\ ~First(c) /\ ~First(d) => c = d

RouterInv == CallTypes /\ Calls /\ Hellos /\ Replies /\ Sessions

\* What is in the egress of a channel has been sent, and routine() waits with a message.
Mux ==
  /\ MuxTypes
  /\ \A p, q \in Peer : egress[p][q] <= Len(inbound[p][q])
  /\ \A p, q \in Peer : chanMut[p] = q => egress[p][q] < Len(inbound[p][q])

\* What the invariant says of handshakes.
LEMMA InvAgreement == RouterInv => HandshakeAgreement
<1>. SUFFICES ASSUME RouterInv PROVE HandshakeAgreement
  OBVIOUS
<1>1. ASSUME NEW c \in Call, NEW d \in Call, c # d, session[c] # None, session[c] = session[d]
      PROVE  Opposite(c, d)
  <2>1. CASE First(c) /\ First(d)
    BY <1>1, <2>1 DEF RouterInv, Sessions
  <2>2. CASE First(c) /\ ~First(d)
    BY <1>1, <2>2 DEF RouterInv, Sessions, Opposite
  <2>3. CASE ~First(c) /\ First(d)
    BY <1>1, <2>3 DEF RouterInv, Sessions, Opposite
  <2>4. CASE ~First(c) /\ ~First(d)
    BY <1>1, <2>4 DEF RouterInv, Sessions
  <2>. QED
    BY <2>1, <2>2, <2>3, <2>4
<1>2. ASSUME NEW c \in Call, session[c] # None, First(c)
      PROVE  \E d \in Call : session[d] = c /\ machine[d] # "none"
  BY <1>2 DEF RouterInv, Sessions, Served
<1>. QED
  BY <1>1, <1>2 DEF HandshakeAgreement

\* At first no call has begun, and no message is under way.
LEMMA RouterInitInv == Init => RouterInv
<1>. SUFFICES ASSUME Init PROVE RouterInv
  OBVIOUS
<1>1. CallTypes
  <2>1. inbound \in [Peer -> [Peer -> Seq(Message)]]
    BY DEF Init
  <2>. QED
    BY <2>1, RouterAssumption DEF Init, CallTypes
<1>2. Calls
  BY RouterAssumption DEF Init, Calls, First
<1>3. \A p, q \in Peer : Contents(inbound[p][q]) = {} /\ \A m : Once(inbound[p][q], m)
  BY DEF Init, Contents, Once
<1>4. Hellos /\ Replies
  BY <1>3 DEF Hellos, Replies
<1>5. Sessions
  BY DEF Init, Sessions
<1>. QED
  BY <1>1, <1>2, <1>4, <1>5 DEF RouterInv

-----------------------------------------------------------------------------
(***************************************************************************)
(* The queues.                                                             *)
(***************************************************************************)

\* Who reads or writes a message.
LEMMA MessageTypes ==
  /\ \A c \in Call : Hello(c) \in Message /\ Reply(c) \in Message
  /\ [type |-> "junk", session |-> None] \in Message
  /\ \A m \in Message : /\ m.session \in Call \cup {None}
                        /\ m.type = "hello" => m.session \in Call /\ m = Hello(m.session)
BY DEF Message, Hello, Reply

\* No two of them are confused.
LEMMA MessagesDiffer ==
  ASSUME NEW c, NEW d
  PROVE  /\ Hello(c) # Reply(d)
         /\ Hello(c) = Hello(d) => c = d
         /\ Reply(c) = Reply(d) => c = d
         /\ [type |-> "junk", session |-> None] # Hello(c)
         /\ [type |-> "junk", session |-> None] # Reply(c)
BY DEF Hello, Reply

\* A message enters a queue.
LEMMA AppendContents ==
  ASSUME NEW q \in Seq(Message), NEW m \in Message
  PROVE  /\ Contents(Append(q, m)) = Contents(q) \cup {m}
         /\ \A h : Once(q, h) /\ (h = m => h \notin Contents(q)) => Once(Append(q, m), h)
<1>1. /\ Len(Append(q, m)) = Len(q) + 1 /\ Len(q) \in Nat
      /\ \A i \in 1..Len(q) : Append(q, m)[i] = q[i]
      /\ Append(q, m)[Len(q) + 1] = m
  OBVIOUS
<1>2. \A i : i \in 1..Len(q) + 1 <=> i \in 1..Len(q) \/ i = Len(q) + 1
  BY <1>1
<1>3. Contents(Append(q, m)) = Contents(q) \cup {m}
  BY <1>1, <1>2 DEF Contents
<1>4. ASSUME NEW h, Once(q, h), h = m => h \notin Contents(q) PROVE Once(Append(q, m), h)
  BY <1>1, <1>2, <1>4 DEF Contents, Once
<1>. QED
  BY <1>3, <1>4

\* A message leaves a queue.
LEMMA TailContents ==
  ASSUME NEW q \in Seq(Message), q # <<>>
  PROVE  /\ Contents(Tail(q)) \subseteq Contents(q)
         /\ Head(q) \in Contents(q)
         /\ \A h : Once(q, h) => Once(Tail(q), h)
         /\ Once(q, Head(q)) => Head(q) \notin Contents(Tail(q))
<1>1. /\ Len(q) \in Nat /\ Len(q) >= 1 /\ Head(q) = q[1] /\ Len(Tail(q)) = Len(q) - 1
      /\ \A i \in 1..Len(Tail(q)) : Tail(q)[i] = q[i + 1]
  OBVIOUS
<1>2. \A i \in 1..Len(Tail(q)) : i + 1 \in 1..Len(q) /\ i + 1 # 1 /\ i \in Nat
  BY <1>1
<1>3. 1 \in 1..Len(q)
  BY <1>1
<1>4. Contents(Tail(q)) \subseteq Contents(q) /\ Head(q) \in Contents(q)
  BY <1>1, <1>2, <1>3 DEF Contents
<1>5. ASSUME NEW h, Once(q, h) PROVE Once(Tail(q), h)
  <2>. SUFFICES ASSUME NEW i \in 1..Len(Tail(q)), NEW j \in 1..Len(Tail(q)),
                       Tail(q)[i] = h, Tail(q)[j] = h
                PROVE  i = j
    BY DEF Once
  <2>1. i + 1 = j + 1
    BY <1>1, <1>2, <1>5 DEF Once
  <2>. QED
    BY <2>1, <1>2
<1>6. ASSUME Once(q, Head(q)), Head(q) \in Contents(Tail(q)) PROVE FALSE
  <2>1. PICK i \in 1..Len(Tail(q)) : Tail(q)[i] = Head(q)
    BY <1>6 DEF Contents
  <2>2. i + 1 = 1
    BY <2>1, <1>1, <1>2, <1>3, <1>6 DEF Once
  <2>. QED
    BY <2>2, <1>2
<1>. QED
  BY <1>4, <1>5, <1>6

\* What is read from egress has been sent.
LEMMA TakeFinds ==
  ASSUME CallTypes, Mux, NEW p \in Peer, NEW q \in Peer, Take(p, q)
  PROVE  inbound[p][q] # <<>>
<1>1. PICK x \in Seq(Message) : x = inbound[p][q]
  BY DEF CallTypes
<1>2. PICK n \in Nat : n = egress[p][q] /\ n > 0 /\ n <= Len(x)
  BY <1>1 DEF Mux, MuxTypes, Take
<1>3. x # <<>>
  BY <1>2
<1>. QED
  BY <1>1, <1>3

\* A peer reads a message.
LEMMA TakeMessage ==
  ASSUME CallTypes, NEW p \in Peer, NEW q \in Peer, inbound[p][q] # <<>>,
         inbound' = [inbound EXCEPT ![p][q] = Tail(@)]
  PROVE  /\ inbound' \in [Peer -> [Peer -> Seq(Message)]]
         /\ Head(inbound[p][q]) \in Message
         /\ Head(inbound[p][q]) \in Contents(inbound[p][q])
         /\ Once(inbound[p][q], Head(inbound[p][q])) =>
              Head(inbound[p][q]) \notin Contents(inbound'[p][q])
         /\ \A r, s \in Peer : /\ Contents(inbound'[r][s]) \subseteq Contents(inbound[r][s])
                               /\ \A h : Once(inbound[r][s], h) => Once(inbound'[r][s], h)
<1>1. PICK x \in Seq(Message) : x = inbound[p][q] /\ x # <<>>
  BY DEF CallTypes
<1>2. Tail(x) \in Seq(Message) /\ Head(x) \in Message
  BY <1>1
<1>3. /\ inbound'[p][q] = Tail(x)
      /\ \A r, s \in Peer : (r = p /\ s = q) \/ inbound'[r][s] = inbound[r][s]
  BY <1>1 DEF CallTypes
<1>4. inbound' \in [Peer -> [Peer -> Seq(Message)]]
  BY <1>1, <1>2 DEF CallTypes
<1>. QED
  BY <1>1, <1>2, <1>3, <1>4, TailContents

\* A message is put into the queue of a peer.
LEMMA PutMessage ==
  ASSUME CallTypes, NEW p \in Peer, NEW q \in Peer, NEW m \in Message,
         \/ inbound' = [inbound EXCEPT ![p][q] = Append(@, m)]
         \/ UNCHANGED inbound
  PROVE  /\ inbound' \in [Peer -> [Peer -> Seq(Message)]]
         /\ \A r, s \in Peer : \A h :
              /\ h \in Contents(inbound'[r][s]) =>
                   h \in Contents(inbound[r][s]) \/ (h = m /\ r = p /\ s = q)
              /\ Once(inbound[r][s], h) /\ (h = m => h \notin Contents(inbound[r][s]))
                   => Once(inbound'[r][s], h)
<1>1. CASE UNCHANGED inbound
  BY <1>1 DEF CallTypes
<1>2. CASE inbound' = [inbound EXCEPT ![p][q] = Append(@, m)]
  <2>1. PICK x \in Seq(Message) : x = inbound[p][q]
    BY DEF CallTypes
  <2>2. Append(x, m) \in Seq(Message)
    BY <2>1
  <2>3. /\ inbound'[p][q] = Append(x, m)
        /\ \A r, s \in Peer : (r = p /\ s = q) \/ inbound'[r][s] = inbound[r][s]
    BY <1>2, <2>1 DEF CallTypes
  <2>4. inbound' \in [Peer -> [Peer -> Seq(Message)]]
    BY <1>2, <2>1, <2>2 DEF CallTypes
  <2>5. ASSUME NEW r \in Peer, NEW s \in Peer, NEW h
        PROVE  /\ h \in Contents(inbound'[r][s]) =>
                    h \in Contents(inbound[r][s]) \/ (h = m /\ r = p /\ s = q)
               /\ Once(inbound[r][s], h) /\ (h = m => h \notin Contents(inbound[r][s]))
                    => Once(inbound'[r][s], h)
    <3>1. CASE r = p /\ s = q
      BY <3>1, <2>1, <2>3, AppendContents
    <3>2. CASE ~(r = p /\ s = q)
      BY <3>2, <2>3
    <3>. QED
      BY <3>1, <3>2
  <2>. QED
    BY <2>4, <2>5
<1>. QED
  BY <1>1, <1>2

-----------------------------------------------------------------------------
(***************************************************************************)
(* The calls.                                                              *)
(***************************************************************************)
PC == {"new", "start", "open", "handshake", "receive", "reply", "send", "report", "returned"}

\* A call goes on: what it must leave alone, and what must be so where it arrives.
LEMMA CallStep ==
  ASSUME CallTypes, Calls, NEW c \in Call, pc[c] # "new", NEW x \in PC \ {"new"},
         pc' = [pc EXCEPT ![c] = x],
         \A d \in Call : d # c => /\ to'[d] = to[d] /\ session'[d] = session[d]
                                  /\ machine'[d] = machine[d],
         \A j \in Job : job'[j] = "new" => job[j] = "new",
         to'[c] \in Peer,
         x \in {"start", "open", "handshake", "receive"} => session'[c] = None /\ machine'[c] = "none",
         x = "reply" => session'[c] # None /\ ~First(c)'
  PROVE  /\ Calls' /\ pc' \in [Call -> PC]
         /\ pc'[c] = x /\ \A d \in Call : d # c => pc'[d] = pc[d]
<1>1. pc' \in [Call -> PC] /\ pc'[c] = x /\ \A d \in Call : d # c => pc'[d] = pc[d]
  BY DEF CallTypes, PC
<1>2. ASSUME NEW d \in Call
      PROVE  /\ d.job \in Job /\ job'[d.job] = "new" => pc'[d] = "new"
             /\ pc'[d] \notin {"new", "start"} => to'[d] \in Peer
             /\ Early(d)' \/ pc'[d] = "receive" => session'[d] = None /\ machine'[d] = "none"
             /\ pc'[d] = "reply" => session'[d] # None /\ ~First(d)'
  <2>1. CASE d = c
    BY <2>1, <1>1 DEF Calls, Early
  <2>2. CASE d # c
    BY <2>2, <1>1 DEF Calls, Early, First
  <2>. QED
    BY <2>1, <2>2
<1>. QED
  BY <1>1, <1>2 DEF Calls

\* No call says hello again or changes its destination after that.
Onward == \A c \in Call : /\ Early(c)' => Early(c)
                          /\ ~Early(c) => to'[c] = to[c]

\* What the invariant says of handshakes stays.
LEMMA OnwardKeeps ==
  ASSUME Onward, NEW c \in Call, ~Early(c)
  PROVE  /\ ~Early(c)' /\ (First(c)' <=> First(c))
         /\ \A d \in Call : ~Early(d) => (Opposite(c, d)' <=> Opposite(c, d))
<1>1. ~Early(c)' /\ to'[c] = to[c] /\ \A d \in Call : ~Early(d) => to'[d] = to[d]
  BY DEF Onward
<1>2. First(c)' <=> First(c)
  BY <1>1 DEF First
<1>3. ASSUME NEW d \in Call, ~Early(d) PROVE Opposite(c, d)' <=> Opposite(c, d)
  BY <1>1, <1>3 DEF Opposite
<1>. QED
  BY <1>1, <1>2, <1>3

\* While no stream is made, sessions stay as they are.
LEMMA SessionsKept ==
  ASSUME CallTypes, Calls, Sessions, Onward, UNCHANGED session,
         \A c \in Call : machine[c] # "none" => machine'[c] # "none"
  PROVE  Sessions'
<1>1. \A c \in Call : Served(c) => Served(c)'
  BY DEF Served
<1>2. \A c \in Call : session[c] # None => ~Early(c)
  BY DEF Calls
<1>3. ASSUME NEW c \in Call, session[c] # None
      PROVE  \/ session[c] = c /\ First(c)' /\ Served(c)'
             \/ /\ ~First(c)' /\ First(session[c])' /\ Opposite(c, session[c])'
                /\ ~Early(session[c])'
  <2>1. CASE session[c] = c /\ First(c) /\ Served(c)
    BY <1>1, <1>2, <1>3, <2>1, OnwardKeeps
  <2>2. CASE ~First(c) /\ First(session[c]) /\ Opposite(c, session[c]) /\ ~Early(session[c])
    <3>1. PICK d \in Call : d = session[c] /\ d = session'[c]
      BY <1>3 DEF CallTypes
    <3>2. ~First(c)' /\ First(d)' /\ Opposite(c, d)' /\ ~Early(d)'
      BY <1>2, <1>3, <2>2, <3>1, OnwardKeeps
    <3>. QED
      BY <3>1, <3>2 DEF First, Opposite, Early
  <2>. QED
    BY <1>3, <2>1, <2>2 DEF Sessions
<1>4. ASSUME NEW c \in Call, NEW d \in Call,
             session[c] # None, session[c] = session[d], ~First(c)', ~First(d)'
      PROVE  c = d
  BY <1>2, <1>4, OnwardKeeps DEF Sessions
<1>. QED
  BY <1>3, <1>4 DEF Sessions

\* A step that begins no handshake: the replies that it sends come from the server.
LEMMA QuietStep ==
  ASSUME CallTypes, Calls, Hellos, Replies, Sessions, Onward, UNCHANGED session,
         \A c \in Call : machine[c] # "none" => machine'[c] # "none",
         \A p, q \in Peer, c \in Call :
           /\ Hello(c) \in Contents(inbound'[p][q]) => Hello(c) \in Contents(inbound[p][q])
           /\ Once(inbound[p][q], Hello(c)) => Once(inbound'[p][q], Hello(c))
           /\ Reply(c) \in Contents(inbound'[p][q]) =>
                \/ Reply(c) \in Contents(inbound[p][q])
                \/ p = c.from /\ First(c) /\ ~Early(c) /\ Served(c)'
  PROVE  Hellos' /\ Replies' /\ Sessions'
<1>1. \A c \in Call : Served(c) => Served(c)'
  BY DEF Served
<1>2. Hellos'
  <2>1. ASSUME NEW p \in Peer, NEW q \in Peer, NEW c \in Call
        PROVE  /\ Hello(c) \in Contents(inbound'[p][q]) =>
                    /\ q = c.from /\ p = to'[c] /\ First(c)' /\ ~Early(c)'
                    /\ \A d \in Call : session[d] # c
               /\ Once(inbound'[p][q], Hello(c))
    <3>1. Once(inbound'[p][q], Hello(c))
      BY DEF Hellos
    <3>2. ASSUME Hello(c) \in Contents(inbound'[p][q])
          PROVE  /\ q = c.from /\ p = to'[c] /\ First(c)' /\ ~Early(c)'
                 /\ \A d \in Call : session[d] # c
      <4>1. /\ q = c.from /\ p = to[c] /\ First(c) /\ ~Early(c)
            /\ \A d \in Call : session[d] # c
        BY <3>2 DEF Hellos
      <4>. QED
        BY <4>1, OnwardKeeps DEF Onward
    <3>. QED
      BY <3>1, <3>2
  <2>. QED
    BY <2>1 DEF Hellos, Hello, Contents, Once
<1>3. Replies'
  <2>1. ASSUME NEW p \in Peer, NEW q \in Peer, NEW c \in Call,
               Reply(c) \in Contents(inbound'[p][q])
        PROVE  p = c.from /\ First(c)' /\ ~Early(c)' /\ Served(c)'
    <3>1. p = c.from /\ First(c) /\ ~Early(c) /\ Served(c)'
      BY <2>1, <1>1 DEF Replies
    <3>. QED
      BY <3>1, OnwardKeeps
  <2>. QED
    BY <2>1 DEF Replies, Reply, Contents
<1>4. Sessions'
  BY SessionsKept
<1>. QED
  BY <1>2, <1>3, <1>4

\* A call returns from Send.
LEMMA SendReturnsTypes ==
  ASSUME CallTypes, NEW c \in Call, NEW res \in {"nil", "error"}, SendReturns(c, res)
  PROVE  /\ \E x \in {"returned", "report"} : pc' = [pc EXCEPT ![c] = x]
         /\ result' \in [Call -> {"nil", "error", "pending"}]
         /\ lock' \in [Peer -> Call \cup {None}]
BY RouterAssumption DEF SendReturns, GoesTo, Unlock, CallTypes

\* A call goes on, and neither makes a stream nor sends a message.
LEMMA QuietCall ==
  ASSUME RouterInv, NEW c \in Call, pc[c] # "new",
         NEW x \in {"open", "handshake", "report", "returned"},
         pc' = [pc EXCEPT ![c] = x],
         x \in {"open", "handshake"} => Early(c),
         UNCHANGED <<session, machine, inbound>>,
         to'[c] \in Peer, Early(c) \/ to'[c] = to[c],
         \A d \in Call : d # c => to'[d] = to[d],
         \A j \in Job : job'[j] = "new" => job[j] = "new",
         pc' \in [Call -> PC] => CallTypes'
  PROVE  RouterInv'
<1>1. x \in PC \ {"new"} /\ x # "reply"
  BY DEF PC
<1>2. x \in {"start", "open", "handshake", "receive"} => session[c] = None /\ machine[c] = "none"
  BY DEF RouterInv, Calls
<1>3. /\ Calls' /\ pc' \in [Call -> PC]
      /\ pc'[c] = x /\ \A d \in Call : d # c => pc'[d] = pc[d]
  BY <1>1, <1>2, CallStep DEF RouterInv
<1>4. Onward
  BY <1>3 DEF Onward, Early
<1>5. Hellos' /\ Replies' /\ Sessions'
  BY <1>4, QuietStep DEF RouterInv
<1>. QED
  BY <1>3, <1>5 DEF RouterInv

\* Send takes the mutex, or returns ErrClosed.
LEMMA SendStartInv ==
  ASSUME RouterInv, NEW c \in Call, NEW q \in Peer, SendStart(c, q) PROVE RouterInv'
<1>1. /\ pc[c] = "start" /\ to' = [to EXCEPT ![c] = q]
      /\ UNCHANGED <<done, session, tries, machine, joined, inbound, job, events>>
  BY DEF SendStart
<1>2. /\ to'[c] = q /\ \A d \in Call : d # c => to'[d] = to[d]
      /\ to' \in [Call -> Peer \cup {None}]
  BY <1>1 DEF RouterInv, CallTypes
<1>3. PICK x \in {"open", "report", "returned"} : pc' = [pc EXCEPT ![c] = x]
  BY DEF SendStart, SendReturns, GoesTo
<1>4. lock' \in [Peer -> Call \cup {None}] /\ result' \in [Call -> {"nil", "error", "pending"}]
  <2>1. CASE SendReturns(c, "error")
    BY <2>1, SendReturnsTypes DEF RouterInv
  <2>2. CASE lock' = [lock EXCEPT ![c.from] = c] /\ UNCHANGED result
    BY <2>2 DEF RouterInv, CallTypes
  <2>. QED
    BY <2>1, <2>2 DEF SendStart
<1>5. pc' \in [Call -> PC] => CallTypes'
  BY <1>1, <1>2, <1>4 DEF RouterInv, CallTypes, PC
<1>6. Early(c)
  BY <1>1 DEF Early
<1>. QED
  BY <1>1, <1>2, <1>3, <1>5, <1>6, QuietCall

\* Send goes on, or returns.
LEMMA QuietCallsInv ==
  ASSUME RouterInv, NEW c \in Call,
         OpenChannel(c) \/ HandshakeFails(c) \/ StreamSend(c) \/ BroadcastTakes(c)
  PROVE  RouterInv'
<1>1. /\ pc[c] \in {"open", "receive", "send", "report"} /\ pc[c] # "new"
      /\ UNCHANGED <<done, to, session, tries, machine, inbound, events>>
  BY DEF OpenChannel, HandshakeFails, StreamSend, BroadcastTakes, streamVars
<1>2. PICK x \in {"handshake", "report", "returned"} :
        pc' = [pc EXCEPT ![c] = x] /\ (x = "handshake" => pc[c] = "open")
  BY DEF OpenChannel, HandshakeFails, StreamSend, BroadcastTakes, SendReturns, GoesTo
<1>3. to[c] \in Peer
  BY <1>1 DEF RouterInv, Calls
<1>4. /\ lock' \in [Peer -> Call \cup {None}]
      /\ result' \in [Call -> {"nil", "error", "pending"}]
  <2>1. CASE UNCHANGED <<lock, result>>
    BY <2>1 DEF RouterInv, CallTypes
  <2>2. CASE \E res \in {"nil", "error"} : SendReturns(c, res)
    BY <2>2, SendReturnsTypes DEF RouterInv
  <2>. QED
    BY <2>1, <2>2 DEF OpenChannel, HandshakeFails, StreamSend, BroadcastTakes
<1>5. joined' \in [Peer -> SUBSET Peer]
  <2>1. joined' = joined \/ joined' = [joined EXCEPT ![c.from] = @ \cup {to[c]}]
    BY DEF OpenChannel, HandshakeFails, StreamSend, BroadcastTakes
  <2>2. joined \in [Peer -> SUBSET Peer] /\ c.from \in Peer
    BY RouterAssumption DEF RouterInv, CallTypes
  <2>3. joined[c.from] \cup {to[c]} \in SUBSET Peer
    BY <1>3, <2>2
  <2>. QED
    BY <2>1, <2>2, <2>3
<1>6. /\ job' \in [Job -> {"new", "waiting", "returned"}]
      /\ \A j \in Job : job'[j] = "new" => job[j] = "new"
  <2>1. job' = job \/ job' = [job EXCEPT ![c.job] = "returned"]
    BY DEF OpenChannel, HandshakeFails, StreamSend, BroadcastTakes
  <2>. QED
    BY <2>1 DEF RouterInv, CallTypes
<1>7. pc' \in [Call -> PC] => CallTypes'
  BY <1>1, <1>4, <1>5, <1>6 DEF RouterInv, CallTypes, PC
<1>8. x = "handshake" => Early(c)
  BY <1>2 DEF Early
<1>. QED
  BY <1>1, <1>2, <1>3, <1>6, <1>7, <1>8, QuietCall

\* A message of a peer reaches the queue that the other peer has for their channel.
LEMMA TransmitPuts ==
  ASSUME RouterInv, NEW c \in Call, to[c] \in Peer, NEW m \in Message, Transmit(c, m)
  PROVE  /\ inbound' \in [Peer -> [Peer -> Seq(Message)]]
         /\ \A r, s \in Peer : \A h :
              /\ h \in Contents(inbound'[r][s]) =>
                   h \in Contents(inbound[r][s]) \/ (h = m /\ r = to[c] /\ s = c.from)
              /\ Once(inbound[r][s], h) /\ (h = m => h \notin Contents(inbound[r][s]))
                   => Once(inbound'[r][s], h)
<1>1. PICK p \in Peer, q \in Peer : p = c.from /\ q = to[c]
  BY RouterAssumption
<1>2. \/ inbound' = [inbound EXCEPT ![q][p] = Append(@, m)]
      \/ UNCHANGED inbound
  BY <1>1 DEF Transmit
<1>3. CallTypes
  BY DEF RouterInv
<1>4. /\ inbound' \in [Peer -> [Peer -> Seq(Message)]]
      /\ \A r, s \in Peer : \A h :
           /\ h \in Contents(inbound'[r][s]) =>
                h \in Contents(inbound[r][s]) \/ (h = m /\ r = q /\ s = p)
           /\ Once(inbound[r][s], h) /\ (h = m => h \notin Contents(inbound[r][s]))
                => Once(inbound'[r][s], h)
  BY <1>2, <1>3, PutMessage
<1>. QED
  BY <1>1, <1>4

\* The client says hello.
LEMMA HelloInv ==
  ASSUME RouterInv, NEW c \in Call, pc[c] = "handshake", First(c), Transmit(c, Hello(c)),
         pc' = [pc EXCEPT ![c] = "receive"],
         UNCHANGED <<lock, done, to, result, session, tries, machine, joined, job, events>>
  PROVE  RouterInv'
<1>1. Early(c) /\ to[c] \in Peer /\ session[c] = None /\ machine[c] = "none"
  BY DEF Early, RouterInv, Calls
<1>2. /\ Calls' /\ pc' \in [Call -> PC]
      /\ pc'[c] = "receive" /\ \A d \in Call : d # c => pc'[d] = pc[d]
  BY <1>1, CallStep DEF RouterInv, PC
<1>3. Onward /\ ~Early(c)'
  BY <1>2 DEF Onward, Early
<1>4. /\ inbound' \in [Peer -> [Peer -> Seq(Message)]]
      /\ \A r, s \in Peer : \A h :
           /\ h \in Contents(inbound'[r][s]) =>
                h \in Contents(inbound[r][s]) \/ (h = Hello(c) /\ r = to[c] /\ s = c.from)
           /\ Once(inbound[r][s], h) /\ (h = Hello(c) => h \notin Contents(inbound[r][s]))
                => Once(inbound'[r][s], h)
  BY <1>1, TransmitPuts, MessageTypes
<1>5. CallTypes'
  BY <1>2, <1>4 DEF RouterInv, CallTypes, PC
<1>6. \A p, q \in Peer : Hello(c) \notin Contents(inbound[p][q])
  BY <1>1 DEF RouterInv, Hellos
<1>7. \A d \in Call : session[d] # c
  <2>1. ASSUME NEW d \in Call, session[d] = c PROVE FALSE
    <3>1. c # None
      BY RouterAssumption
    <3>2. CASE session[d] = d
      BY <2>1, <3>1, <3>2, <1>1
    <3>3. CASE ~Early(session[d])
      BY <2>1, <3>3, <1>1
    <3>. QED
      BY <2>1, <3>1, <3>2, <3>3 DEF RouterInv, Sessions
  <2>. QED
    BY <2>1
<1>8. Hellos'
  <2>1. ASSUME NEW p \in Peer, NEW q \in Peer, NEW d \in Call
        PROVE  /\ Hello(d) \in Contents(inbound'[p][q]) =>
                    /\ q = d.from /\ p = to[d] /\ First(d)' /\ ~Early(d)'
                    /\ \A e \in Call : session[e] # d
               /\ Once(inbound'[p][q], Hello(d))
    <3>1. Once(inbound'[p][q], Hello(d))
      <4>1. Once(inbound[p][q], Hello(d))
        BY DEF RouterInv, Hellos
      <4>. QED
        BY <4>1, <1>4, <1>6
    <3>2. CASE d = c
      BY <3>1, <3>2, <1>3, <1>4, <1>6, <1>7 DEF First
    <3>3. CASE d # c /\ Hello(d) \in Contents(inbound'[p][q])
      <4>1. Hello(d) \in Contents(inbound[p][q])
        BY <3>3, <1>4, MessagesDiffer
      <4>. QED
        BY <3>1, <4>1, <1>3, OnwardKeeps DEF RouterInv, Hellos
    <3>. QED
      BY <3>1, <3>2, <3>3
  <2>. QED
    BY <2>1 DEF Hellos, Hello, Contents, Once
<1>9. Replies'
  <2>1. ASSUME NEW p \in Peer, NEW q \in Peer, NEW d \in Call,
               Reply(d) \in Contents(inbound'[p][q])
        PROVE  p = d.from /\ First(d)' /\ ~Early(d)' /\ Served(d)'
    <3>1. Reply(d) \in Contents(inbound[p][q])
      BY <2>1, <1>4, MessagesDiffer
    <3>2. p = d.from /\ First(d) /\ ~Early(d) /\ Served(d)
      BY <3>1 DEF RouterInv, Replies
    <3>. QED
      BY <3>2, <1>3, OnwardKeeps DEF Served
  <2>. QED
    BY <2>1 DEF Replies, Reply, Contents
<1>10. Sessions'
  BY <1>3, SessionsKept DEF RouterInv
<1>. QED
  BY <1>2, <1>5, <1>8, <1>9, <1>10 DEF RouterInv

\* A call takes a message of the handshake s, and no hello of s is left.
Begins(c, s, x) ==
  /\ pc[c] = "receive"
  /\ pc' = [pc EXCEPT ![c] = x] /\ (x = "reply" => ~First(c))
  /\ session' = [session EXCEPT ![c] = s]
  /\ machine' \in [Call -> {"none", "running", "returned"}]
  /\ \A d \in Call : d # c => machine'[d] = machine[d]
  /\ inbound' \in [Peer -> [Peer -> Seq(Message)]]
  /\ \A p, q \in Peer : /\ Contents(inbound'[p][q]) \subseteq Contents(inbound[p][q])
                        /\ Hello(s) \notin Contents(inbound'[p][q])
                        /\ \A h : Once(inbound[p][q], h) => Once(inbound'[p][q], h)
  /\ UNCHANGED <<lock, done, to, result, tries, joined, job, events>>

\* It is the client of s, which the server has, or the server, which s has not yet.
Fits(c, s) ==
  \/ s = c /\ First(c) /\ Served(c)
  \/ /\ ~First(c) /\ First(s) /\ Opposite(c, s) /\ ~Early(s)
     /\ \A d \in Call : session[d] # s

\* The stream of this call belongs to that handshake.
LEMMA NewSession ==
  ASSUME RouterInv, NEW c \in Call, NEW s \in Call, NEW x \in {"send", "reply"},
         Begins(c, s, x), Fits(c, s)
  PROVE  RouterInv'
<1>1. /\ pc[c] = "receive" /\ pc' = [pc EXCEPT ![c] = x] /\ (x = "reply" => ~First(c))
      /\ session' = [session EXCEPT ![c] = s]
      /\ UNCHANGED <<lock, done, to, result, tries, joined, job, events>>
  BY DEF Begins
<1>2. /\ machine' \in [Call -> {"none", "running", "returned"}]
      /\ \A d \in Call : d # c => machine'[d] = machine[d]
  BY DEF Begins
<1>3. /\ inbound' \in [Peer -> [Peer -> Seq(Message)]]
      /\ \A p, q \in Peer : /\ Contents(inbound'[p][q]) \subseteq Contents(inbound[p][q])
                            /\ Hello(s) \notin Contents(inbound'[p][q])
                            /\ \A h : Once(inbound[p][q], h) => Once(inbound'[p][q], h)
  BY DEF Begins
<1>4. to[c] \in Peer /\ session[c] = None /\ s # None
  BY <1>1, RouterAssumption DEF RouterInv, Calls
<1>5. session' \in [Call -> Call \cup {None}] /\ session'[c] = s
      /\ \A d \in Call : d # c => session'[d] = session[d]
  BY <1>1 DEF RouterInv, CallTypes
<1>6. /\ Calls' /\ pc' \in [Call -> PC]
      /\ pc'[c] = x /\ \A d \in Call : d # c => pc'[d] = pc[d]
  <2>1. First(c)' <=> First(c)
    BY <1>1 DEF First
  <2>. QED
    BY <2>1, <1>1, <1>2, <1>4, <1>5, CallStep DEF RouterInv, PC
<1>7. CallTypes'
  BY <1>1, <1>2, <1>3, <1>5, <1>6 DEF RouterInv, CallTypes, PC
<1>8. \A d \in Call : /\ First(d)' <=> First(d)
                      /\ Early(d)' <=> Early(d)
                      /\ Served(d) => Served(d)'
                      /\ \A e \in Call : Opposite(d, e)' <=> Opposite(d, e)
  <2>1. ASSUME NEW d \in Call, Served(d) PROVE Served(d)'
    <3>1. PICK e \in Call : session[e] = d /\ machine[e] # "none"
      BY <2>1 DEF Served
    <3>2. e # c
      BY <3>1, <1>4, RouterAssumption
    <3>. QED
      BY <3>1, <3>2, <1>2, <1>5 DEF Served
  <2>2. \A d \in Call : Early(d)' <=> Early(d)
    BY <1>1, <1>6 DEF Early
  <2>3. \A d \in Call : /\ First(d)' <=> First(d)
                        /\ \A e \in Call : Opposite(d, e)' <=> Opposite(d, e)
    BY <1>1 DEF First, Opposite
  <2>. QED
    BY <2>1, <2>2, <2>3
<1>9. Hellos'
  <2>1. ASSUME NEW p \in Peer, NEW q \in Peer, NEW d \in Call
        PROVE  /\ Hello(d) \in Contents(inbound'[p][q]) =>
                    /\ q = d.from /\ p = to[d] /\ First(d)' /\ ~Early(d)'
                    /\ \A e \in Call : session'[e] # d
               /\ Once(inbound'[p][q], Hello(d))
    <3>1. Once(inbound'[p][q], Hello(d))
      BY <1>3 DEF RouterInv, Hellos
    <3>2. ASSUME Hello(d) \in Contents(inbound'[p][q])
          PROVE  /\ q = d.from /\ p = to[d] /\ First(d)' /\ ~Early(d)'
                 /\ \A e \in Call : session'[e] # d
      <4>1. d # s /\ Hello(d) \in Contents(inbound[p][q])
        BY <3>2, <1>3
      <4>2. /\ q = d.from /\ p = to[d] /\ First(d) /\ ~Early(d)
            /\ \A e \in Call : session[e] # d
        BY <4>1 DEF RouterInv, Hellos
      <4>. QED
        BY <4>1, <4>2, <1>5, <1>8
    <3>. QED
      BY <3>1, <3>2
  <2>. QED
    BY <2>1, <1>1 DEF Hellos, Hello, Contents, Once
<1>10. Replies'
  <2>1. ASSUME NEW p \in Peer, NEW q \in Peer, NEW d \in Call,
               Reply(d) \in Contents(inbound'[p][q])
        PROVE  p = d.from /\ First(d)' /\ ~Early(d)' /\ Served(d)'
    <3>1. Reply(d) \in Contents(inbound[p][q])
      BY <2>1, <1>3
    <3>2. p = d.from /\ First(d) /\ ~Early(d) /\ Served(d)
      BY <3>1 DEF RouterInv, Replies
    <3>. QED
      BY <3>2, <1>8
  <2>. QED
    BY <2>1 DEF Replies, Reply, Contents
<1>11. Sessions'
  <2>1. ASSUME NEW d \in Call, session'[d] # None
        PROVE  \/ session'[d] = d /\ First(d)' /\ Served(d)'
               \/ /\ ~First(d)' /\ First(session[d])' /\ Opposite(d, session[d])'
                  /\ ~Early(session[d])'
    <3>1. PICK e \in Call : e = session'[d]
      BY <2>1, <1>5
    <3>2. \/ e = d /\ First(d) /\ Served(d)
          \/ ~First(d) /\ First(e) /\ Opposite(d, e) /\ ~Early(e)
      <4>1. CASE d = c
        BY <3>1, <4>1, <1>5 DEF Fits
      <4>2. CASE d # c
        BY <2>1, <3>1, <4>2, <1>5 DEF RouterInv, Sessions
      <4>. QED
        BY <4>1, <4>2
    <3>3. \/ e = d /\ First(d)' /\ Served(d)'
          \/ ~First(d)' /\ First(e)' /\ Opposite(d, e)' /\ ~Early(e)'
      BY <3>2, <1>8
    <3>. QED
      BY <3>1, <3>3 DEF First, Opposite, Early
  <2>2. ASSUME NEW d \in Call, NEW e \in Call,
               session'[d] # None, session'[d] = session'[e], ~First(d)', ~First(e)'
        PROVE  d = e
    <3>1. session[c] = None /\ session'[d] # None /\ session'[d] = session'[e]
          /\ ~First(d) /\ ~First(e)
      BY <2>2, <1>4, <1>8
    <3>2. CASE d = c \/ e = c
      BY <3>1, <3>2, <1>5 DEF Fits
    <3>3. CASE d # c /\ e # c
      BY <3>1, <3>3, <1>5 DEF RouterInv, Sessions
    <3>. QED
      BY <3>2, <3>3
  <2>. QED
    BY <2>1, <2>2 DEF Sessions
<1>. QED
  BY <1>6, <1>7, <1>9, <1>10, <1>11 DEF RouterInv

\* The calls stay where they are, and no handshake message is sent.
LEMMA IdleStep ==
  ASSUME RouterInv, CallTypes', UNCHANGED <<pc, to, session, job>>,
         \A c \in Call : machine[c] # "none" <=> machine'[c] # "none",
         \A p, q \in Peer, c \in Call :
           /\ Hello(c) \in Contents(inbound'[p][q]) => Hello(c) \in Contents(inbound[p][q])
           /\ Once(inbound[p][q], Hello(c)) => Once(inbound'[p][q], Hello(c))
           /\ Reply(c) \in Contents(inbound'[p][q]) => Reply(c) \in Contents(inbound[p][q])
  PROVE  RouterInv'
<1>1. Onward
  BY DEF Onward, Early
<1>2. Hellos' /\ Replies' /\ Sessions'
  BY <1>1, QuietStep DEF RouterInv
<1>3. Calls'
  BY DEF RouterInv, Calls, Early, First
<1>. QED
  BY <1>2, <1>3 DEF RouterInv

\* The client says hello, the server nothing.
LEMMA StartHandshakeSends ==
  ASSUME NEW c \in Call, StartHandshake(c), pc' = [pc EXCEPT ![c] = "receive"]
  PROVE  (First(c) /\ Transmit(c, Hello(c))) \/ UNCHANGED inbound
BY DEF StartHandshake

\* doHandshake begins: the server only waits, and so does the client when it has said
\* hello.
LEMMA StartHandshakeInv ==
  ASSUME RouterInv, NEW c \in Call, StartHandshake(c) PROVE RouterInv'
<1>1. /\ pc[c] = "handshake" /\ to[c] \in Peer
      /\ UNCHANGED <<done, to, session, tries, machine, joined, job, events>>
  BY DEF StartHandshake, streamVars, RouterInv, Calls
<1>2. CASE SendReturns(c, "error") /\ UNCHANGED inbound
  <2>1. PICK x \in {"returned", "report"} : pc' = [pc EXCEPT ![c] = x]
    BY <1>2, SendReturnsTypes DEF RouterInv
  <2>2. /\ lock' \in [Peer -> Call \cup {None}]
        /\ result' \in [Call -> {"nil", "error", "pending"}]
    BY <1>2, SendReturnsTypes DEF RouterInv
  <2>3. pc' \in [Call -> PC] => CallTypes'
    BY <1>1, <1>2, <2>2 DEF RouterInv, CallTypes, PC
  <2>. QED
    BY <1>1, <1>2, <2>1, <2>3, QuietCall
<1>3. CASE pc' = [pc EXCEPT ![c] = "receive"] /\ UNCHANGED <<lock, result>>
  <2>1. CASE First(c) /\ Transmit(c, Hello(c))
    BY <1>1, <1>3, <2>1, HelloInv
  <2>2. CASE UNCHANGED inbound
    <3>1. Early(c) /\ session[c] = None /\ machine[c] = "none"
      BY <1>1 DEF Early, RouterInv, Calls
    <3>2. /\ Calls' /\ pc' \in [Call -> PC]
          /\ pc'[c] = "receive" /\ \A d \in Call : d # c => pc'[d] = pc[d]
      BY <1>1, <1>3, <3>1, CallStep DEF RouterInv, PC
    <3>3. Onward
      BY <1>1, <3>2 DEF Onward, Early
    <3>4. Hellos' /\ Replies' /\ Sessions'
      BY <1>1, <2>2, <3>3, QuietStep DEF RouterInv
    <3>5. CallTypes'
      BY <1>1, <1>3, <2>2, <3>2 DEF RouterInv, CallTypes, PC
    <3>. QED
      BY <3>2, <3>4, <3>5 DEF RouterInv
  <2>. QED
    BY <1>3, <2>1, <2>2, StartHandshakeSends
<1>. QED
  BY <1>2, <1>3 DEF StartHandshake, GoesTo

\* receiveHandshake takes a message.
LEMMA ReceiveHandshakeInv ==
  ASSUME RouterInv, Mux, NEW c \in Call, ReceiveHandshake(c) PROVE RouterInv'
<1>1. /\ pc[c] = "receive" /\ to[c] \in Peer /\ session[c] = None /\ MoreTries(c)
      /\ UNCHANGED <<lock, done, to, result, joined, job, events>>
  BY DEF ReceiveHandshake, RouterInv, Calls
<1>1a. PICK p \in Peer, q \in Peer : p = c.from /\ q = to[c]
  BY <1>1, RouterAssumption
<1>1b. PICK m : m = Head(inbound[p][q])
  OBVIOUS
<1>2. p = c.from /\ q = to[c] /\ m = Head(inbound[p][q])
  BY <1>1a, <1>1b
<1>3. /\ inbound[p][q] # <<>> /\ inbound' = [inbound EXCEPT ![p][q] = Tail(@)]
      /\ CallTypes
  BY <1>2, TakeFinds DEF ReceiveHandshake, RouterInv, Take
<1>4. /\ inbound' \in [Peer -> [Peer -> Seq(Message)]]
      /\ m \in Message /\ m \in Contents(inbound[p][q])
      /\ Once(inbound[p][q], m) => m \notin Contents(inbound'[p][q])
      /\ \A r, s \in Peer : /\ Contents(inbound'[r][s]) \subseteq Contents(inbound[r][s])
                            /\ \A h : Once(inbound[r][s], h) => Once(inbound'[r][s], h)
  BY <1>2, <1>3, TakeMessage
<1>5. CASE Valid(c, m)
  <2>1. session' = [session EXCEPT ![c] = m.session] /\ UNCHANGED tries
    BY <1>2, <1>5 DEF ReceiveHandshake
  <2>2. PICK x \in {"send", "reply"} :
          pc' = [pc EXCEPT ![c] = x] /\ (x = "reply" => ~First(c))
    BY <1>2, <1>5 DEF ReceiveHandshake, StartStream, GoesTo
  <2>3. machine' = machine \/ machine' = [machine EXCEPT ![c] = "running"]
    BY <1>2, <1>5 DEF ReceiveHandshake, StartStream
  <2>4. /\ machine' \in [Call -> {"none", "running", "returned"}]
        /\ \A d \in Call : d # c => machine'[d] = machine[d]
    BY <2>3 DEF RouterInv, CallTypes
  <2>5. CASE First(c)
    <3>1. m = Reply(c) /\ m.session = c
      BY <1>5, <2>5 DEF Valid, Reply
    <3>2. Served(c)
      BY <3>1, <1>4 DEF RouterInv, Replies
    <3>3. ASSUME NEW r \in Peer, NEW s \in Peer PROVE Hello(c) \notin Contents(inbound'[r][s])
      <4>1. Hello(c) \notin Contents(inbound[r][s])
        BY <3>2 DEF RouterInv, Hellos, Served
      <4>. QED
        BY <4>1, <1>4
    <3>4. \A r, s \in Peer :
            /\ Contents(inbound'[r][s]) \subseteq Contents(inbound[r][s])
            /\ Hello(c) \notin Contents(inbound'[r][s])
            /\ \A h : Once(inbound[r][s], h) => Once(inbound'[r][s], h)
      BY <1>4, <3>3
    <3>5. Begins(c, c, x)
      BY <1>1, <1>4, <2>1, <2>2, <2>4, <3>1, <3>4 DEF Begins
    <3>6. Fits(c, c)
      BY <2>5, <3>2 DEF Fits
    <3>. QED
      BY <2>2, <3>5, <3>6, NewSession
  <2>6. CASE ~First(c)
    <3>1. PICK s \in Call : s = m.session /\ m = Hello(s)
      BY <1>4, <1>5, <2>6, MessageTypes DEF Valid
    <3>2. /\ q = s.from /\ p = to[s] /\ First(s) /\ ~Early(s)
          /\ \A d \in Call : session[d] # s
      BY <3>1, <1>4 DEF RouterInv, Hellos
    <3>3. Opposite(c, s)
      BY <3>2, <1>2 DEF Opposite
    <3>4. ASSUME NEW r \in Peer, NEW t \in Peer PROVE Hello(s) \notin Contents(inbound'[r][t])
      <4>1. CASE r = p /\ t = q
        BY <4>1, <3>1, <1>4 DEF RouterInv, Hellos
      <4>2. CASE ~(r = p /\ t = q)
        <5>1. Hello(s) \notin Contents(inbound[r][t])
          BY <4>2, <3>2 DEF RouterInv, Hellos
        <5>. QED
          BY <5>1, <1>4
      <4>. QED
        BY <4>1, <4>2
    <3>5. \A r, t \in Peer :
            /\ Contents(inbound'[r][t]) \subseteq Contents(inbound[r][t])
            /\ Hello(s) \notin Contents(inbound'[r][t])
            /\ \A h : Once(inbound[r][t], h) => Once(inbound'[r][t], h)
      BY <1>4, <3>4
    <3>6. Begins(c, s, x)
      BY <1>1, <1>4, <2>1, <2>2, <2>4, <3>1, <3>5 DEF Begins
    <3>7. Fits(c, s)
      BY <2>6, <3>2, <3>3 DEF Fits
    <3>. QED
      BY <2>2, <3>6, <3>7, NewSession
  <2>. QED
    BY <2>5, <2>6
<1>6. CASE ~Valid(c, m)
  <2>1. tries' = [tries EXCEPT ![c] = @ + 1] /\ UNCHANGED <<session, machine, pc>>
    BY <1>2, <1>6 DEF ReceiveHandshake
  <2>2. tries' \in [Call -> 0..MaxIncorrectMessages]
    <3>1. PICK k \in Nat : k = tries[c] /\ k < MaxIncorrectMessages
      BY <1>1 DEF RouterInv, CallTypes, MoreTries
    <3>2. k + 1 \in 0..MaxIncorrectMessages
      BY <3>1, RouterAssumption
    <3>3. tries' = [tries EXCEPT ![c] = k + 1]
      BY <2>1, <3>1
    <3>. QED
      BY <3>2, <3>3 DEF RouterInv, CallTypes
  <2>3. CallTypes'
    <3>1. inbound' \in [Peer -> [Peer -> Seq(Message)]]
      BY <1>4
    <3>. QED
      BY <1>1, <2>1, <2>2, <3>1 DEF RouterInv, CallTypes
  <2>. QED
    BY <1>1, <1>4, <2>1, <2>3, IdleStep
<1>. QED
  BY <1>5, <1>6

\* The state machine of a stream takes a message.
LEMMA MachineReceivesInv ==
  ASSUME RouterInv, Mux, NEW c \in Call, MachineReceives(c) PROVE RouterInv'
<1>1. /\ machine[c] = "running" /\ pc[c] \notin {"new", "start"} /\ to[c] \in Peer
      /\ machine' = [machine EXCEPT ![c] = "returned"]
      /\ UNCHANGED <<lock, done, pc, to, result, session, tries, joined, job, events>>
  BY DEF MachineReceives, RouterInv, Calls, Early
<1>2. PICK p \in Peer, q \in Peer : p = c.from /\ q = to[c]
  BY <1>1, RouterAssumption
<1>3. inbound[p][q] # <<>> /\ inbound' = [inbound EXCEPT ![p][q] = Tail(@)] /\ CallTypes
  BY <1>2, TakeFinds DEF MachineReceives, RouterInv, Take
<1>4. /\ inbound' \in [Peer -> [Peer -> Seq(Message)]]
      /\ \A r, s \in Peer : /\ Contents(inbound'[r][s]) \subseteq Contents(inbound[r][s])
                            /\ \A h : Once(inbound[r][s], h) => Once(inbound'[r][s], h)
  BY <1>3, TakeMessage
<1>5. /\ machine' \in [Call -> {"none", "running", "returned"}]
      /\ \A d \in Call : machine[d] # "none" <=> machine'[d] # "none"
  BY <1>1 DEF RouterInv, CallTypes
<1>6. CallTypes'
  BY <1>1, <1>4, <1>5 DEF RouterInv, CallTypes
<1>. QED
  BY <1>1, <1>4, <1>5, <1>6, IdleStep

\* The server replies to the client of its handshake, and makes its stream.
LEMMA ReplyHandshakeInv ==
  ASSUME RouterInv, NEW c \in Call, ReplyHandshake(c) PROVE RouterInv'
<1>1. /\ pc[c] = "reply" /\ to[c] \in Peer /\ session[c] # None /\ ~First(c)
      /\ UNCHANGED <<done, to, session, tries, joined, job, events>>
  BY DEF ReplyHandshake, RouterInv, Calls
<1>2. CASE SendReturns(c, "error") /\ UNCHANGED <<inbound, machine>>
  <2>1. PICK x \in {"returned", "report"} : pc' = [pc EXCEPT ![c] = x]
    BY <1>2, SendReturnsTypes DEF RouterInv
  <2>2. /\ lock' \in [Peer -> Call \cup {None}]
        /\ result' \in [Call -> {"nil", "error", "pending"}]
    BY <1>2, SendReturnsTypes DEF RouterInv
  <2>3. pc' \in [Call -> PC] => CallTypes'
    BY <1>1, <1>2, <2>2 DEF RouterInv, CallTypes, PC
  <2>. QED
    BY <1>1, <1>2, <2>1, <2>3, QuietCall
<1>3. CASE Answer(c) /\ StartStream(c) /\ UNCHANGED <<lock, result>>
  <2>1. PICK s \in Call : s = session[c]
    BY <1>1 DEF RouterInv, CallTypes
  <2>2. First(s) /\ s.from = to[c] /\ ~Early(s)
    BY <1>1, <2>1 DEF RouterInv, Sessions, Opposite
  <2>3. /\ machine' \in [Call -> {"none", "running", "returned"}] /\ machine'[c] = "running"
        /\ \A d \in Call : d # c => machine'[d] = machine[d]
    BY <1>3 DEF StartStream, RouterInv, CallTypes
  <2>4. Served(s)'
    BY <1>1, <2>1, <2>3 DEF Served
  <2>5. /\ inbound' \in [Peer -> [Peer -> Seq(Message)]]
        /\ \A p, q \in Peer : \A h :
             /\ h \in Contents(inbound'[p][q]) =>
                  h \in Contents(inbound[p][q]) \/ (h = Reply(s) /\ p = to[c] /\ q = c.from)
             /\ Once(inbound[p][q], h) /\ (h = Reply(s) => h \notin Contents(inbound[p][q]))
                  => Once(inbound'[p][q], h)
    <3>1. PICK m \in Message : m = Reply(s)
      BY MessageTypes
    <3>2. Transmit(c, m)
      BY <1>3, <2>1, <3>1 DEF Answer
    <3>. QED
      BY <1>1, <3>1, <3>2, TransmitPuts
  <2>6. ASSUME NEW p \in Peer, NEW q \in Peer, NEW d \in Call
        PROVE  /\ Hello(d) \in Contents(inbound'[p][q]) => Hello(d) \in Contents(inbound[p][q])
               /\ Once(inbound[p][q], Hello(d)) => Once(inbound'[p][q], Hello(d))
               /\ Reply(d) \in Contents(inbound'[p][q]) =>
                    \/ Reply(d) \in Contents(inbound[p][q])
                    \/ p = d.from /\ First(d) /\ ~Early(d) /\ Served(d)'
    <3>1. Hello(d) # Reply(s) /\ (Reply(d) = Reply(s) => d = s)
      BY MessagesDiffer
    <3>2. /\ Hello(d) \in Contents(inbound'[p][q]) => Hello(d) \in Contents(inbound[p][q])
          /\ Once(inbound[p][q], Hello(d)) => Once(inbound'[p][q], Hello(d))
      BY <3>1, <2>5
    <3>3. Reply(d) \in Contents(inbound'[p][q]) =>
            Reply(d) \in Contents(inbound[p][q]) \/ (d = s /\ p = to[c])
      BY <3>1, <2>5
    <3>. QED
      BY <3>2, <3>3, <2>2, <2>4
  <2>7. /\ Calls' /\ pc' \in [Call -> PC]
        /\ pc'[c] = "send" /\ \A d \in Call : d # c => pc'[d] = pc[d]
    BY <1>1, <1>3, <2>3, CallStep DEF StartStream, GoesTo, RouterInv, PC
  <2>8. Onward
    BY <1>1, <2>7 DEF Onward, Early
  <2>9. \A d \in Call : machine[d] # "none" => machine'[d] # "none"
    BY <2>3
  <2>10. Hellos' /\ Replies' /\ Sessions'
    BY <1>1, <2>6, <2>8, <2>9, QuietStep DEF RouterInv
  <2>11. CallTypes'
    BY <1>1, <1>3, <2>3, <2>5, <2>7 DEF RouterInv, CallTypes, PC
  <2>. QED
    BY <2>7, <2>10, <2>11 DEF RouterInv
<1>. QED
  BY <1>2, <1>3 DEF ReplyHandshake

\* The count of events stays within its bound.
LEMMA EventTypes == ASSUME RouterInv, Event PROVE events' \in 0..MaxEvents
BY RouterAssumption DEF Event, RouterInv, CallTypes

\* A stranger sends a message to a channel.
LEMMA StrangerInv ==
  ASSUME RouterInv, NEW p \in Peer, NEW q \in Peer, Stranger(p, q) PROVE RouterInv'
<1>1. PICK m \in Message : m = [type |-> "junk", session |-> None]
  BY MessageTypes
<1>2. /\ UNCHANGED <<lock, done, pc, to, result, session, tries, machine, joined, job>>
      /\ inbound' = [inbound EXCEPT ![p][q] = Append(@, m)] /\ events' \in 0..MaxEvents
  BY <1>1, EventTypes DEF Stranger, callVars, streamVars, RouterInv, CallTypes
<1>3. CallTypes
  BY DEF RouterInv
<1>4. /\ inbound' \in [Peer -> [Peer -> Seq(Message)]]
      /\ \A r, s \in Peer : \A h :
           /\ h \in Contents(inbound'[r][s]) =>
                h \in Contents(inbound[r][s]) \/ (h = m /\ r = p /\ s = q)
           /\ Once(inbound[r][s], h) /\ (h = m => h \notin Contents(inbound[r][s]))
                => Once(inbound'[r][s], h)
  BY <1>2, <1>3, PutMessage
<1>5. \A c \in Call : Hello(c) # m /\ Reply(c) # m
  BY <1>1, MessagesDiffer
<1>6. CallTypes'
  BY <1>2, <1>3, <1>4 DEF CallTypes
<1>. QED
  BY <1>2, <1>4, <1>5, <1>6, IdleStep

\* What the multiplexer does with messages.
Dispatches(p) == (\E q \in Peer : Dispatch(p, q)) \/ Dispatched(p)

\* What fails.
Fails == RelayStops \/ \E p \in Peer : RoutineReturns(p)

\* Router.Close, and what happens to the multiplexer.
LEMMA CloseInv ==
  ASSUME RouterInv, (\E p \in Peer : Close(p) \/ Dispatches(p)) \/ Fails PROVE RouterInv'
<1>1. UNCHANGED <<lock, pc, to, result, session, tries, machine, joined, inbound, job>>
  BY DEF Close, Dispatches, Dispatch, Dispatched, Fails, RelayStops, RoutineReturns, callVars,
     streamVars
<1>2. done' \in [Peer -> BOOLEAN]
  BY DEF Close, Dispatches, Dispatch, Dispatched, Fails, RelayStops, RoutineReturns, RouterInv,
     CallTypes
<1>3. events' \in 0..MaxEvents
  <2>1. UNCHANGED events \/ Event
    BY DEF Close, Dispatches, Dispatch, Dispatched, Fails, RelayStops, RoutineReturns
  <2>. QED
    BY <2>1, EventTypes DEF RouterInv, CallTypes
<1>4. CallTypes'
  BY <1>1, <1>2, <1>3 DEF RouterInv, CallTypes
<1>. QED
  BY <1>1, <1>4, IdleStep

\* The calls of a Broadcast begin: none of them had begun.
LEMMA BroadcastInv == ASSUME RouterInv, NEW j \in Job, Broadcast(j) PROVE RouterInv'
<1>1. /\ job[j] = "new" /\ job' = [job EXCEPT ![j] = "waiting"]
      /\ pc' = [c \in Call |-> IF c.job = j THEN "start" ELSE pc[c]]
      /\ UNCHANGED <<lock, done, to, result, session, tries, machine, joined, inbound, events>>
  BY DEF Broadcast, streamVars
<1>2. \A c \in Call : c.job = j => pc[c] = "new" /\ pc'[c] = "start"
  BY <1>1 DEF RouterInv, Calls
<1>3. \A c \in Call : c.job # j => pc'[c] = pc[c]
  BY <1>1
<1>4. CallTypes'
  BY <1>1 DEF RouterInv, CallTypes
<1>5. \A c \in Call : /\ Early(c)' <=> Early(c)
                      /\ First(c)' <=> First(c)
  BY <1>1, <1>2, <1>3 DEF Early, First
<1>6. Calls'
  <2>1. ASSUME NEW c \in Call
        PROVE  /\ c.job \in Job /\ job'[c.job] = "new" => pc'[c] = "new"
               /\ pc'[c] \notin {"new", "start"} => to[c] \in Peer
               /\ Early(c)' \/ pc'[c] = "receive" => session[c] = None /\ machine[c] = "none"
               /\ pc'[c] = "reply" => session[c] # None /\ ~First(c)'
    <3>1. CASE c.job = j
      BY <3>1, <1>1, <1>2, <1>5 DEF RouterInv, Calls, Early, CallTypes
    <3>2. CASE c.job # j
      BY <3>2, <1>1, <1>3, <1>5 DEF RouterInv, Calls, CallTypes
    <3>. QED
      BY <3>1, <3>2
  <2>. QED
    BY <2>1, <1>1 DEF Calls
<1>7. Onward
  BY <1>1, <1>5 DEF Onward
<1>8. Hellos' /\ Replies' /\ Sessions'
  BY <1>1, <1>7, QuietStep DEF RouterInv
<1>. QED
  BY <1>4, <1>6, <1>8 DEF RouterInv

-----------------------------------------------------------------------------
(***************************************************************************)
(* The theorems.                                                           *)
(***************************************************************************)

\* No step breaks the invariant.
LEMMA RouterInvStep == RouterInv /\ Mux /\ [Next]_vars => RouterInv'
<1>. SUFFICES ASSUME RouterInv, Mux, [Next]_vars PROVE RouterInv'
  OBVIOUS
<1>1. ASSUME NEW c \in Call, Continue(c) PROVE RouterInv'
  BY <1>1, SendStartInv, QuietCallsInv, StartHandshakeInv, ReceiveHandshakeInv, ReplyHandshakeInv
     DEF Continue
<1>2. ASSUME NEW c \in Call, MachineReceives(c) PROVE RouterInv'
  BY <1>2, MachineReceivesInv
<1>3. ASSUME NEW p \in Peer, NEW q \in Peer, Stranger(p, q) PROVE RouterInv'
  BY <1>3, StrangerInv
<1>4. ASSUME (\E p \in Peer : Close(p) \/ Dispatches(p)) \/ Fails PROVE RouterInv'
  BY <1>4, CloseInv
<1>5. ASSUME NEW j \in Job, Broadcast(j) PROVE RouterInv'
  BY <1>5, BroadcastInv
<1>6. CASE UNCHANGED vars
  <2>1. UNCHANGED <<pc, to, session, machine, inbound, job>>
    BY <1>6 DEF vars, callVars, streamVars
  <2>2. CallTypes'
    BY <1>6 DEF vars, callVars, streamVars, RouterInv, CallTypes
  <2>. QED
    BY <2>1, <2>2, IdleStep
<1>. QED
  BY <1>1, <1>2, <1>3, <1>4, <1>5, <1>6 DEF Next, Dispatches, Fails

-----------------------------------------------------------------------------
(***************************************************************************)
(* The multiplexer.                                                        *)
(***************************************************************************)

\* At first nothing has been sent.
LEMMA MuxInit == Init => Mux
<1>. SUFFICES ASSUME Init PROVE Mux
  OBVIOUS
<1>1. MuxTypes
  BY RouterAssumption DEF Init, MuxTypes
<1>2. \A p, q \in Peer : egress[p][q] = 0 /\ Len(inbound[p][q]) = 0 /\ chanMut[p] # q
  BY RouterAssumption DEF Init
<1>. QED
  BY <1>1, <1>2 DEF Mux

\* Messages are only added.
LEMMA MuxSends ==
  ASSUME CallTypes, Mux, UNCHANGED muxVars,
         \/ UNCHANGED inbound
         \/ \E p, q \in Peer, m \in Message :
              inbound' = [inbound EXCEPT ![p][q] = Append(@, m)]
  PROVE  Mux'
<1>1. UNCHANGED <<egress, routine, chanMut, relay>>
  BY DEF muxVars
<1>2. MuxTypes'
  BY <1>1 DEF Mux, MuxTypes
<1>3. ASSUME NEW r \in Peer, NEW s \in Peer
      PROVE  /\ Len(inbound[r][s]) \in Nat /\ Len(inbound'[r][s]) \in Nat
             /\ Len(inbound[r][s]) <= Len(inbound'[r][s])
  <2>1. PICK x \in Seq(Message) : x = inbound[r][s]
    BY DEF CallTypes
  <2>2. inbound'[r][s] = x \/ \E m \in Message : inbound'[r][s] = Append(x, m)
    <3>1. ASSUME NEW p \in Peer, NEW q \in Peer, NEW m \in Message,
                 inbound' = [inbound EXCEPT ![p][q] = Append(@, m)]
          PROVE  inbound'[r][s] = x \/ inbound'[r][s] = Append(x, m)
      <4>1. CASE r = p /\ s = q
        BY <2>1, <3>1, <4>1 DEF CallTypes
      <4>2. CASE ~(r = p /\ s = q)
        BY <2>1, <3>1, <4>2 DEF CallTypes
      <4>. QED
        BY <4>1, <4>2
    <3>. QED
      BY <2>1, <3>1
  <2>3. \A m \in Message : Len(Append(x, m)) = Len(x) + 1
    OBVIOUS
  <2>4. Len(x) \in Nat
    OBVIOUS
  <2>. QED
    BY <2>1, <2>2, <2>3, <2>4
<1>4. ASSUME NEW r \in Peer, NEW s \in Peer
      PROVE  /\ egress'[r][s] <= Len(inbound'[r][s])
             /\ chanMut'[r] = s => egress'[r][s] < Len(inbound'[r][s])
  <2>1. PICK n \in Nat : n = egress[r][s] /\ n = egress'[r][s]
    BY <1>1 DEF Mux, MuxTypes
  <2>2. n <= Len(inbound[r][s]) /\ (chanMut[r] = s => n < Len(inbound[r][s]))
    BY <2>1 DEF Mux
  <2>. QED
    BY <1>1, <1>3, <2>1, <2>2
<1>. QED
  BY <1>2, <1>4 DEF Mux

\* A message is read.
LEMMA MuxTakes ==
  ASSUME CallTypes, Mux, NEW p \in Peer, NEW q \in Peer, Take(p, q)
  PROVE  Mux'
<1>1. PICK x \in Seq(Message) : x = inbound[p][q] /\ x # <<>>
  BY TakeFinds DEF CallTypes
<1>2. /\ egress[p][q] > 0
      /\ egress' = [egress EXCEPT ![p][q] = @ - 1]
      /\ inbound' = [inbound EXCEPT ![p][q] = Tail(@)]
      /\ UNCHANGED <<routine, chanMut, relay>>
  BY DEF Take
<1>3. PICK n \in 0..QueueSize : n = egress[p][q] /\ n > 0
  BY <1>2 DEF Mux, MuxTypes
<1>4. n - 1 \in 0..QueueSize
  BY <1>3, RouterAssumption
<1>5. /\ egress' \in [Peer -> [Peer -> 0..QueueSize]] /\ egress'[p][q] = n - 1
      /\ \A r, s \in Peer : (r = p /\ s = q) \/ egress'[r][s] = egress[r][s]
  BY <1>2, <1>3, <1>4 DEF Mux, MuxTypes
<1>6. /\ inbound'[p][q] = Tail(x)
      /\ \A r, s \in Peer : (r = p /\ s = q) \/ inbound'[r][s] = inbound[r][s]
  BY <1>1, <1>2 DEF CallTypes
<1>7. Len(Tail(x)) = Len(x) - 1 /\ Len(x) \in Nat
  BY <1>1
<1>8. n <= Len(x) /\ (chanMut[p] = q => n < Len(x))
  BY <1>1, <1>3 DEF Mux
<1>9. n - 1 <= Len(x) - 1 /\ (chanMut[p] = q => n - 1 < Len(x) - 1)
  BY <1>3, <1>7, <1>8
<1>10. ASSUME NEW r \in Peer, NEW s \in Peer
       PROVE  /\ egress'[r][s] <= Len(inbound'[r][s])
              /\ chanMut[r] = s => egress'[r][s] < Len(inbound'[r][s])
  <2>1. CASE r = p /\ s = q
    BY <2>1, <1>5, <1>6, <1>7, <1>9
  <2>2. CASE ~(r = p /\ s = q)
    BY <2>2, <1>5, <1>6 DEF Mux
  <2>. QED
    BY <2>1, <2>2
<1>11. MuxTypes'
  BY <1>2, <1>5 DEF Mux, MuxTypes
<1>. QED
  BY <1>2, <1>10, <1>11 DEF Mux

\* A message comes to egress, and routine() has chanMut no more.
LEMMA MuxBrings ==
  ASSUME CallTypes, Mux, NEW p \in Peer, NEW q \in Peer, HasRoom(p, q),
         egress[p][q] < Len(inbound[p][q]),
         egress' = [egress EXCEPT ![p][q] = @ + 1],
         chanMut' \in [Peer -> Peer \cup {None}], chanMut'[p] = None,
         \A r \in Peer : r # p => chanMut'[r] = chanMut[r],
         UNCHANGED <<inbound, routine, relay>>
  PROVE  Mux'
<1>1. PICK n \in 0..QueueSize : n = egress[p][q] /\ n < QueueSize
  BY DEF Mux, MuxTypes, HasRoom
<1>2. n + 1 \in 0..QueueSize
  BY <1>1, RouterAssumption
<1>3. /\ egress' \in [Peer -> [Peer -> 0..QueueSize]] /\ egress'[p][q] = n + 1
      /\ \A r, s \in Peer : (r = p /\ s = q) \/ egress'[r][s] = egress[r][s]
  BY <1>1, <1>2 DEF Mux, MuxTypes
<1>4. PICK x \in Seq(Message) : x = inbound[p][q]
  BY DEF CallTypes
<1>5. n + 1 <= Len(x)
  BY <1>1, <1>4
<1>6. ASSUME NEW r \in Peer, NEW s \in Peer
      PROVE  /\ egress'[r][s] <= Len(inbound[r][s])
             /\ chanMut'[r] = s => egress'[r][s] < Len(inbound[r][s])
  <2>1. CASE r = p /\ s = q
    BY <2>1, <1>3, <1>4, <1>5, RouterAssumption
  <2>2. CASE r = p /\ s # q
    BY <2>2, <1>3, RouterAssumption DEF Mux
  <2>3. CASE r # p
    BY <2>3, <1>3 DEF Mux
  <2>. QED
    BY <2>1, <2>2, <2>3
<1>7. MuxTypes'
  BY <1>3 DEF Mux, MuxTypes
<1>. QED
  BY <1>6, <1>7 DEF Mux

\* routine() dispatches a message.
LEMMA MuxDispatches ==
  ASSUME CallTypes, Mux, NEW p \in Peer, Dispatches(p)
  PROVE  Mux'
<1>1. ASSUME NEW q \in Peer, Dispatch(p, q) PROVE Mux'
  <2>1. /\ chanMut[p] = None /\ egress[p][q] < Len(inbound[p][q])
        /\ UNCHANGED <<inbound, routine, relay>>
    BY <1>1 DEF Dispatch
  <2>2. CASE HasRoom(p, q)
    <3>1. egress' = [egress EXCEPT ![p][q] = @ + 1] /\ UNCHANGED chanMut
      BY <1>1, <2>2 DEF Dispatch
    <3>2. chanMut \in [Peer -> Peer \cup {None}]
      BY DEF Mux, MuxTypes
    <3>. QED
      BY <2>1, <2>2, <3>1, <3>2, MuxBrings
  <2>3. CASE ~HasRoom(p, q)
    <3>1. chanMut' = [chanMut EXCEPT ![p] = q] /\ UNCHANGED egress
      BY <1>1, <2>3 DEF Dispatch
    <3>2. MuxTypes'
      BY <2>1, <3>1 DEF Mux, MuxTypes
    <3>3. chanMut'[p] = q /\ \A r \in Peer : r # p => chanMut'[r] = chanMut[r]
      BY <3>1 DEF Mux, MuxTypes
    <3>. QED
      BY <2>1, <3>1, <3>2, <3>3 DEF Mux
  <2>. QED
    BY <2>2, <2>3
<1>2. ASSUME Dispatched(p) PROVE Mux'
  <2>1. /\ chanMut[p] # None /\ HasRoom(p, chanMut[p])
        /\ egress' = [egress EXCEPT ![p][chanMut[p]] = @ + 1]
        /\ chanMut' = [chanMut EXCEPT ![p] = None]
        /\ UNCHANGED <<inbound, routine, relay>>
    BY <1>2 DEF Dispatched
  <2>2. PICK q \in Peer : q = chanMut[p]
    BY <2>1 DEF Mux, MuxTypes
  <2>3. /\ HasRoom(p, q) /\ egress' = [egress EXCEPT ![p][q] = @ + 1]
        /\ egress[p][q] < Len(inbound[p][q])
    BY <2>1, <2>2 DEF Mux
  <2>4. /\ chanMut' \in [Peer -> Peer \cup {None}] /\ chanMut'[p] = None
        /\ \A r \in Peer : r # p => chanMut'[r] = chanMut[r]
    BY <2>1 DEF Mux, MuxTypes
  <2>. QED
    BY <2>1, <2>3, <2>4, MuxBrings
<1>. QED
  BY <1>1, <1>2 DEF Dispatches

\* routine() returns, or the relay stops.
LEMMA MuxFails == ASSUME CallTypes, Mux, Fails PROVE Mux'
<1>1. UNCHANGED <<inbound, egress, chanMut>>
  BY DEF Fails, RelayStops, RoutineReturns
<1>2. routine' \in [Peer -> {"runs", "returned"}] /\ relay' \in {"serves", "stuck"}
  BY DEF Fails, RelayStops, RoutineReturns, Mux, MuxTypes
<1>3. MuxTypes'
  BY <1>1, <1>2 DEF Mux, MuxTypes
<1>. QED
  BY <1>1, <1>3 DEF Mux

\* A call that sends puts one message into the queue of a peer.
LEMMA MuxTransmits ==
  ASSUME CallTypes, Mux, UNCHANGED muxVars, NEW c \in Call, to[c] \in Peer, NEW m \in Message,
         Transmit(c, m)
  PROVE  Mux'
<1>1. PICK p \in Peer, q \in Peer : p = c.from /\ q = to[c]
  BY RouterAssumption
<1>2. \/ inbound' = [inbound EXCEPT ![q][p] = Append(@, m)]
      \/ UNCHANGED inbound
  BY <1>1 DEF Transmit
<1>. QED
  BY <1>2, MuxSends

\* No step breaks it.
LEMMA MuxNext == RouterInv /\ Mux /\ [Next]_vars => Mux'
<1>. SUFFICES ASSUME CallTypes, Calls, Mux, [Next]_vars PROVE Mux'
  BY DEF RouterInv
<1>1. ASSUME NEW c \in Call, StartHandshake(c) PROVE Mux'
  <2>1. UNCHANGED muxVars /\ to[c] \in Peer
    BY <1>1 DEF StartHandshake, Calls
  <2>2. Transmit(c, Hello(c)) \/ UNCHANGED inbound
    BY <1>1 DEF StartHandshake
  <2>3. Hello(c) \in Message
    BY MessageTypes
  <2>. QED
    BY <2>1, <2>2, <2>3, MuxTransmits, MuxSends
<1>2. ASSUME NEW c \in Call, ReplyHandshake(c) PROVE Mux'
  <2>1. UNCHANGED muxVars /\ to[c] \in Peer /\ session[c] # None
    BY <1>2 DEF ReplyHandshake, Calls
  <2>2. Transmit(c, Reply(session[c])) \/ UNCHANGED inbound
    BY <1>2 DEF ReplyHandshake, Answer
  <2>3. Reply(session[c]) \in Message
    BY <2>1, MessageTypes DEF CallTypes
  <2>. QED
    BY <2>1, <2>2, <2>3, MuxTransmits, MuxSends
<1>3. ASSUME NEW c \in Call, ReceiveHandshake(c) \/ MachineReceives(c) PROVE Mux'
  <2>1. c.from \in Peer /\ to[c] \in Peer
    BY <1>3, RouterAssumption DEF ReceiveHandshake, MachineReceives, Calls, Early
  <2>2. Take(c.from, to[c])
    BY <1>3 DEF ReceiveHandshake, MachineReceives
  <2>. QED
    BY <2>1, <2>2, MuxTakes
<1>4. ASSUME NEW p \in Peer, NEW q \in Peer, Stranger(p, q) PROVE Mux'
  <2>1. PICK m \in Message : m = [type |-> "junk", session |-> None]
    BY MessageTypes
  <2>2. UNCHANGED muxVars /\ inbound' = [inbound EXCEPT ![p][q] = Append(@, m)]
    BY <1>4, <2>1 DEF Stranger
  <2>. QED
    BY <2>2, MuxSends
<1>5. ASSUME NEW c \in Call,
             \/ \E q \in Peer : SendStart(c, q)
             \/ OpenChannel(c) \/ HandshakeFails(c) \/ StreamSend(c) \/ BroadcastTakes(c)
      PROVE  UNCHANGED <<inbound, muxVars>>
  BY <1>5 DEF SendStart, OpenChannel, HandshakeFails, StreamSend, BroadcastTakes
<1>6. ASSUME (\E p \in Peer : Close(p)) \/ (\E j \in Job : Broadcast(j)) \/ UNCHANGED vars
      PROVE  UNCHANGED <<inbound, muxVars>>
  BY <1>6 DEF Close, Broadcast, vars
<1>7. UNCHANGED <<inbound, muxVars>> => Mux'
  BY MuxSends
<1>. QED
  BY <1>1, <1>2, <1>3, <1>4, <1>5, <1>6, <1>7, MuxDispatches, MuxFails
     DEF Next, Continue, Dispatches, Fails

\* The invariant holds throughout: what it says of handshakes, and of the multiplexer.
THEOREM InvCorrect == Spec => [](RouterInv /\ Mux)
BY RouterInitInv, MuxInit, RouterInvStep, MuxNext, PTL DEF Spec

\* Every variable keeps its type: in particular a handshake never takes more than
\* MaxIncorrectMessages messages that are not valid (TypeOK, receiveHandshake).
THEOREM TypeCorrect == Spec => []TypeOK
<1>1. RouterInv /\ Mux => TypeOK
  BY DEF RouterInv, Mux, TypeOK
<1>. QED
  BY <1>1, InvCorrect, PTL

\* The streams that come out of handshakes belong together in pairs, however many calls
\* of Send share the channel of a pair of clients, and whatever late replies and messages
\* of strangers are on it (doHandshake, receiveHandshake).
THEOREM AgreementCorrect == Spec => []HandshakeAgreement
BY InvCorrect, InvAgreement, PTL

-----------------------------------------------------------------------------
(***************************************************************************)
(* The mutex, and where the clients come to rest.                          *)
(***************************************************************************)
Inside == {"open", "handshake", "receive", "reply", "send"}

\* The mutex of a router is held by the call of Send that is past Lock, and by nobody
\* else.
Locks ==
  /\ \A c \in Call : pc[c] \in Inside => lock[c.from] = c
  /\ \A p \in Peer : lock[p] # None => lock[p].from = p /\ pc[lock[p]] \in Inside
  /\ \A c \in Call : pc[c] = "report" => c.job \in Job

\* A call takes the mutex, keeps it, or gives it back: where it arrives, and who else has it.
LEMMA LocksStep ==
  ASSUME CallTypes, Locks, NEW c \in Call, NEW x \in PC, pc' = [pc EXCEPT ![c] = x],
         pc[c] \in Inside \/ Unlocked(c.from),
         lock' = [lock EXCEPT ![c.from] = IF x \in Inside THEN c ELSE None],
         x = "report" => c.job \in Job
  PROVE  Locks'
<1>1. c.from \in Peer /\ c # None
  BY RouterAssumption
<1>2. pc'[c] = x /\ \A d \in Call : d # c => pc'[d] = pc[d]
  BY DEF CallTypes
<1>3. /\ lock'[c.from] = IF x \in Inside THEN c ELSE None
      /\ \A p \in Peer : p # c.from => lock'[p] = lock[p]
  BY <1>1 DEF CallTypes
<1>4. ASSUME NEW d \in Call, d # c, d.from = c.from PROVE pc[d] \notin Inside
  <2>1. d # None
    BY RouterAssumption
  <2>2. CASE pc[c] \in Inside
    <3>1. lock[c.from] = c
      BY <2>2 DEF Locks
    <3>. QED
      BY <1>4, <3>1 DEF Locks
  <2>3. CASE lock[c.from] = None
    BY <1>4, <2>1, <2>3 DEF Locks
  <2>. QED
    BY <2>2, <2>3 DEF Unlocked
<1>5. ASSUME NEW d \in Call, pc'[d] \in Inside PROVE lock'[d.from] = d
  <2>1. d.from \in Peer
    BY RouterAssumption
  <2>. QED
    BY <1>2, <1>3, <1>4, <1>5, <2>1 DEF Locks
<1>6. ASSUME NEW p \in Peer, lock'[p] # None PROVE lock'[p].from = p /\ pc'[lock'[p]] \in Inside
  <2>1. CASE p = c.from
    BY <1>2, <1>3, <1>6, <2>1
  <2>2. CASE p # c.from
    <3>1. lock'[p] = lock[p] /\ lock[p] \in Call /\ lock[p].from = p
      BY <1>3, <1>6, <2>2 DEF Locks, CallTypes
    <3>. QED
      BY <1>2, <1>6, <2>2, <3>1 DEF Locks
  <2>. QED
    BY <2>1, <2>2
<1>7. ASSUME NEW d \in Call, pc'[d] = "report" PROVE d.job \in Job
  BY <1>2, <1>7 DEF Locks
<1>. QED
  BY <1>5, <1>6, <1>7 DEF Locks

\* Send returns.
LEMMA LocksReturn ==
  ASSUME CallTypes, Locks, NEW c \in Call, pc[c] \in Inside \/ Unlocked(c.from), NEW res,
         SendReturns(c, res)
  PROVE  Locks'
<1>1. c.job \in Job \cup {None}
  BY RouterAssumption
<1>. DEFINE x == IF c.job = None THEN "returned" ELSE "report"
<1>2. x \in PC /\ x \notin Inside /\ (x = "report" => c.job \in Job)
  BY <1>1 DEF PC, Inside
<1>3. pc' = [pc EXCEPT ![c] = x] /\ lock' = [lock EXCEPT ![c.from] = None]
  BY DEF SendReturns, GoesTo, Unlock
<1>. HIDE DEF x
<1>. QED
  BY <1>2, <1>3, LocksStep

\* A call goes on with the mutex.
LEMMA LocksKept ==
  ASSUME CallTypes, Locks, NEW c \in Call, pc[c] \in Inside, NEW x \in Inside, GoesTo(c, x),
         UNCHANGED lock
  PROVE  Locks'
<1>1. lock' = [lock EXCEPT ![c.from] = c]
  <2>1. lock[c.from] = c /\ c.from \in Peer
    BY RouterAssumption DEF Locks
  <2>. QED
    BY <2>1 DEF CallTypes
<1>2. x \in PC /\ x # "report"
  BY DEF PC, Inside
<1>3. lock' = [lock EXCEPT ![c.from] = IF x \in Inside THEN c ELSE None]
  BY <1>1
<1>4. pc' = [pc EXCEPT ![c] = x]
  BY DEF GoesTo
<1>. QED
  BY <1>2, <1>3, <1>4, LocksStep

\* The mutex is where it was while nobody comes to Lock or to Unlock.
LEMMA LocksSame ==
  ASSUME Locks, UNCHANGED lock,
         \A c \in Call : /\ pc'[c] \in Inside <=> pc[c] \in Inside
                         /\ pc'[c] = "report" => pc[c] = "report",
         CallTypes
  PROVE  Locks'
<1>1. \A p \in Peer : lock[p] \in Call \cup {None}
  BY DEF CallTypes
<1>. QED
  BY <1>1 DEF Locks

\* What happens beside the calls.
Beside ==
  \/ \E p \in Peer : Close(p) \/ Dispatches(p)
  \/ \E p, q \in Peer : Stranger(p, q)
  \/ Fails
  \/ UNCHANGED vars

\* It leaves them where they are.
LEMMA BesideKeeps == ASSUME Beside PROVE UNCHANGED <<lock, pc, to, result, joined, job>>
BY DEF Beside, Close, Dispatches, Dispatch, Dispatched, Stranger, Fails, RelayStops,
   RoutineReturns, vars, callVars

\* No step breaks it.
LEMMA LocksNext == RouterInv /\ Locks /\ [Next]_vars => Locks'
<1>. SUFFICES ASSUME CallTypes, Calls, Locks, [Next]_vars PROVE Locks'
  BY DEF RouterInv
<1>1. ASSUME NEW c \in Call, NEW q \in Peer, SendStart(c, q) PROVE Locks'
  <2>1. CASE done[c.from]
    BY <1>1, <2>1, LocksReturn DEF SendStart
  <2>2. CASE ~done[c.from]
    BY <1>1, <2>2, LocksStep DEF SendStart, GoesTo, PC, Inside
  <2>. QED
    BY <2>1, <2>2
<1>2. ASSUME NEW c \in Call, OpenChannel(c) PROVE Locks'
  <2>1. pc[c] \in Inside /\ "handshake" \in Inside
    BY <1>2 DEF OpenChannel, Inside
  <2>. QED
    BY <1>2, <2>1, LocksReturn, LocksKept DEF OpenChannel
<1>3. ASSUME NEW c \in Call, StartHandshake(c) PROVE Locks'
  <2>1. pc[c] \in Inside /\ "receive" \in Inside
    BY <1>3 DEF StartHandshake, Inside
  <2>. QED
    BY <1>3, <2>1, LocksReturn, LocksKept DEF StartHandshake
<1>4. ASSUME NEW c \in Call, ReceiveHandshake(c) PROVE Locks'
  <2>1. pc[c] \in Inside /\ "send" \in Inside /\ "reply" \in Inside /\ UNCHANGED lock
    BY <1>4 DEF ReceiveHandshake, Inside
  <2>2. GoesTo(c, "send") \/ GoesTo(c, "reply") \/ UNCHANGED pc
    BY <1>4 DEF ReceiveHandshake, StartStream
  <2>. QED
    BY <2>1, <2>2, LocksKept, LocksSame
<1>5. ASSUME NEW c \in Call, HandshakeFails(c) PROVE Locks'
  BY <1>5, LocksReturn DEF HandshakeFails, Inside
<1>6. ASSUME NEW c \in Call, ReplyHandshake(c) PROVE Locks'
  <2>1. pc[c] \in Inside /\ "send" \in Inside
    BY <1>6 DEF ReplyHandshake, Inside
  <2>. QED
    BY <1>6, <2>1, LocksReturn, LocksKept DEF ReplyHandshake, StartStream
<1>7. ASSUME NEW c \in Call, StreamSend(c) PROVE Locks'
  BY <1>7, LocksReturn DEF StreamSend, Inside
<1>8. ASSUME NEW c \in Call, BroadcastTakes(c) PROVE Locks'
  <2>1. UNCHANGED lock /\ pc[c] = "report" /\ pc' = [pc EXCEPT ![c] = "returned"]
    BY <1>8 DEF BroadcastTakes, GoesTo
  <2>2. pc'[c] = "returned" /\ \A d \in Call : d # c => pc'[d] = pc[d]
    BY <2>1 DEF CallTypes
  <2>. QED
    BY <2>1, <2>2, LocksSame DEF Inside
<1>9. ASSUME NEW c \in Call, MachineReceives(c) PROVE Locks'
  BY <1>9, LocksSame DEF MachineReceives
<1>10. CASE Beside
  BY <1>10, BesideKeeps, LocksSame
<1>11. ASSUME NEW j \in Job, Broadcast(j) PROVE Locks'
  <2>1. /\ UNCHANGED lock /\ job[j] = "new"
        /\ pc' = [c \in Call |-> IF c.job = j THEN "start" ELSE pc[c]]
    BY <1>11 DEF Broadcast
  <2>2. \A c \in Call : pc'[c] = pc[c] \/ (pc[c] = "new" /\ pc'[c] = "start")
    BY <2>1 DEF Calls
  <2>. QED
    BY <2>1, <2>2, LocksSame DEF Inside
<1>. QED
  BY <1>1, <1>2, <1>3, <1>4, <1>5, <1>6, <1>7, <1>8, <1>9, <1>10, <1>11
     DEF Next, Continue, Beside, Dispatches, Fails

\* It holds at first.
LEMMA LocksInit == Init => Locks
BY RouterAssumption DEF Init, Locks, Inside

\* Two calls of Send of one client are never both past Lock, whether they were made alone
\* or by a Broadcast, and whatever path each of them returns by (Send, newStream).
THEOREM OneSendAtATime ==
  Spec => [](\A c, d \in Call :
               c.from = d.from /\ pc[c] \in Inside /\ pc[d] \in Inside => c = d)
<1>1. Locks => \A c, d \in Call : c.from = d.from /\ pc[c] \in Inside /\ pc[d] \in Inside => c = d
  BY DEF Locks
<1>. QED
  BY <1>1, LocksInit, LocksNext, InvCorrect, PTL DEF Spec

Linked == {"handshake", "receive", "reply", "send"}

\* A call that is past Channel has joined its channel, and nobody leaves one.
Joins == \A c \in Call : pc[c] \in Linked => to[c] \in joined[c.from]

\* Nobody leaves.
Stay == \A p \in Peer : joined[p] \subseteq joined'[p]

\* A call goes on.
LEMMA JoinsStep ==
  ASSUME CallTypes, Joins, NEW c \in Call, NEW x, pc' = [pc EXCEPT ![c] = x],
         \A d \in Call : d # c => to'[d] = to[d],
         Stay,
         x \in Linked => to'[c] \in joined'[c.from]
  PROVE  Joins'
<1>1. pc'[c] = x /\ \A d \in Call : d # c => pc'[d] = pc[d]
  BY DEF CallTypes
<1>2. ASSUME NEW d \in Call, pc'[d] \in Linked PROVE to'[d] \in joined'[d.from]
  <2>1. CASE d = c
    BY <1>1, <1>2, <2>1
  <2>2. CASE d # c
    BY <1>1, <1>2, <2>2, RouterAssumption DEF Joins, Stay
  <2>. QED
    BY <2>1, <2>2
<1>. QED
  BY <1>2 DEF Joins

\* No step breaks it.
LEMMA JoinsNext == RouterInv /\ Joins /\ [Next]_vars => Joins'
<1>. SUFFICES ASSUME CallTypes, Joins, [Next]_vars PROVE Joins'
  BY DEF RouterInv
<1>1. ASSUME NEW c \in Call, NEW q \in Peer, SendStart(c, q) PROVE Joins'
  <2>1. PICK x : pc' = [pc EXCEPT ![c] = x] /\ x \notin Linked
    BY <1>1 DEF SendStart, SendReturns, GoesTo, Linked
  <2>2. UNCHANGED joined /\ \A d \in Call : d # c => to'[d] = to[d]
    BY <1>1 DEF SendStart, CallTypes
  <2>. QED
    BY <2>1, <2>2, JoinsStep DEF Stay
<1>2. ASSUME NEW c \in Call, OpenChannel(c) PROVE Joins'
  <2>1. c.from \in Peer /\ UNCHANGED to
    BY <1>2, RouterAssumption DEF OpenChannel
  <2>2. CASE joined' = [joined EXCEPT ![c.from] = @ \cup {to[c]}] /\ GoesTo(c, "handshake")
    <3>1. Stay /\ to'[c] \in joined'[c.from]
      BY <2>1, <2>2 DEF CallTypes, Stay
    <3>. QED
      BY <2>1, <2>2, <3>1, JoinsStep DEF GoesTo
  <2>3. CASE SendReturns(c, "error") /\ UNCHANGED joined
    <3>1. PICK x \in {"returned", "report"} : pc' = [pc EXCEPT ![c] = x]
      BY <2>3 DEF SendReturns, GoesTo
    <3>2. x \notin Linked
      BY DEF Linked
    <3>. QED
      BY <2>1, <2>3, <3>1, <3>2, JoinsStep DEF Stay
  <2>. QED
    BY <1>2, <2>2, <2>3 DEF OpenChannel
<1>3. ASSUME NEW c \in Call,
             \/ StartHandshake(c) \/ ReceiveHandshake(c) \/ HandshakeFails(c)
             \/ ReplyHandshake(c) \/ StreamSend(c) \/ BroadcastTakes(c)
      PROVE  Joins'
  <2>1. UNCHANGED <<to, joined>>
    BY <1>3 DEF StartHandshake, ReceiveHandshake, HandshakeFails, ReplyHandshake, StreamSend,
       BroadcastTakes
  <2>2. \/ pc[c] \in Linked
        \/ pc' = [pc EXCEPT ![c] = "returned"]
    BY <1>3 DEF StartHandshake, ReceiveHandshake, HandshakeFails, ReplyHandshake, StreamSend,
       BroadcastTakes, GoesTo, Linked
  <2>3. UNCHANGED pc \/ \E x : pc' = [pc EXCEPT ![c] = x]
    BY <1>3 DEF StartHandshake, ReceiveHandshake, HandshakeFails, ReplyHandshake, StreamSend,
       BroadcastTakes, SendReturns, StartStream, GoesTo
  <2>4. "returned" \notin Linked
    BY DEF Linked
  <2>5. CASE UNCHANGED pc
    BY <2>1, <2>5 DEF Joins
  <2>6. CASE pc[c] \in Linked /\ \E x : pc' = [pc EXCEPT ![c] = x]
    <3>1. to[c] \in joined[c.from]
      BY <2>6 DEF Joins
    <3>. QED
      BY <2>1, <2>6, <3>1, JoinsStep DEF Stay
  <2>7. CASE pc' = [pc EXCEPT ![c] = "returned"]
    BY <2>1, <2>4, <2>7, JoinsStep DEF Stay
  <2>. QED
    BY <2>2, <2>3, <2>5, <2>6, <2>7
<1>4. ASSUME (\E c \in Call : MachineReceives(c)) \/ Beside PROVE Joins'
  <2>1. UNCHANGED <<pc, to, joined>>
    BY <1>4, BesideKeeps DEF MachineReceives
  <2>. QED
    BY <2>1 DEF Joins
<1>5. ASSUME NEW j \in Job, Broadcast(j) PROVE Joins'
  <2>1. /\ UNCHANGED <<to, joined>>
        /\ pc' = [c \in Call |-> IF c.job = j THEN "start" ELSE pc[c]]
    BY <1>5 DEF Broadcast
  <2>. QED
    BY <2>1 DEF Joins, Linked
<1>. QED
  BY <1>1, <1>2, <1>3, <1>4, <1>5 DEF Next, Continue, Beside, Dispatches, Fails

\* No goroutine has a step to take that FairSpec lets it take: but for writes to a relay
\* that is stuck, and for messages that such a relay may not have forwarded.
AtRest ==
  /\ \A c \in Call :
       /\ pc[c] = "start" => ~Unlocked(c.from)
       /\ pc[c] = "open" => chanMut[c.from] # None \/ WaitsForRelay(c)
       /\ pc[c] = "handshake" => WaitsForRelay(c)
       /\ pc[c] = "receive" => MoreTries(c) /\ egress[c.from][to[c]] = 0
       /\ pc[c] \in {"reply", "send"} => WaitsForRelay(c)
       /\ pc[c] = "report" => job[c.job] # "waiting"
       /\ machine[c] = "running" => egress[c.from][to[c]] = 0
  /\ \A p \in Peer : chanMut[p] # None => ~HasRoom(p, chanMut[p])
  /\ relay = "serves" => \A p, q \in Peer :
       routine[p] = "runs" /\ chanMut[p] = None /\ q \in joined[p] =>
         ~(egress[p][q] < Len(inbound[p][q]))

\* Where a call of Send may stay for ever: it is held up, or waits for the mutex of one
\* that is, or its Broadcast has returned and takes no more results.
Stays(c) ==
  \/ HeldUp(c)
  \/ pc[c] = "start" /\ \E d \in Call : d.from = c.from /\ d # c /\ HeldUp(d)
  \/ pc[c] = "report" /\ c.job \in Job /\ job[c.job] = "returned"

\* The egress of a channel is full, and no call of the client reads it: none waits for a
\* handshake message on the channel, and the state machines of its streams have returned.
Unread(p, q) ==
  /\ egress[p][q] = QueueSize
  /\ \A c \in Call : c.from = p /\ to[c] = q => pc[c] # "receive" /\ machine[c] # "running"

\* A call that has the mutex, at rest.
LEMMA InsideRests ==
  ASSUME RouterInv, Mux, Joins, AtRest, NEW c \in Call, pc[c] \in Inside
  PROVE  HeldUp(c)
<1>1. c.from \in Peer /\ to[c] \in Peer
  BY RouterAssumption DEF RouterInv, Calls, Inside
<1>2. CASE pc[c] # "receive"
  BY <1>2 DEF AtRest, Inside, HeldUp, WaitsForRoutine
<1>3. CASE pc[c] = "receive"
  <2>1. Waits(c) /\ to[c] \in joined[c.from]
    BY <1>3 DEF AtRest, Waits, Joins, Linked
  <2>2. CASE relay = "stuck" \/ Silent(c.from)
    BY <2>1, <2>2 DEF HeldUp, WaitsForRoutine
  <2>3. CASE relay # "stuck" /\ ~Silent(c.from)
    <3>1. relay = "serves" /\ routine[c.from] = "runs" /\ chanMut[c.from] = None
      BY <1>1, <2>3 DEF Silent, Mux, MuxTypes
    <3>2. ~(egress[c.from][to[c]] < Len(inbound[c.from][to[c]]))
      BY <1>1, <2>1, <3>1 DEF AtRest
    <3>3. PICK x \in Seq(Message) : x = inbound[c.from][to[c]]
      BY <1>1 DEF RouterInv, CallTypes
    <3>4. ~(0 < Len(x))
      BY <2>1, <3>2, <3>3 DEF Waits
    <3>5. x = <<>>
      BY <3>4
    <3>. QED
      BY <2>1, <3>3, <3>5 DEF HeldUp, WaitsForPeer
  <2>. QED
    BY <2>2, <2>3
<1>. QED
  BY <1>2, <1>3

\* The safety half of RouterReleased.  Once no goroutine can go on by itself, every call of
\* Send has returned, has not begun, or stays: the mutex is never left locked behind, and
\* nobody waits for anything but a handshake message, chanMut, a relay that is stuck, the
\* mutex of one who does, or a Broadcast that has returned with an error.  And routine()
\* keeps chanMut only for an egress that is full and that nobody reads (Send, Channel,
\* receiveHandshake, routine, dispatch, Broadcast).
THEOREM RestCorrect ==
  Spec => [](AtRest =>
               /\ \A c \in Call : pc[c] \in {"new", "returned"} \/ Stays(c)
               /\ \A p \in Peer : chanMut[p] # None => Unread(p, chanMut[p]))
<1>1. ASSUME RouterInv, Mux, Locks, Joins, AtRest, NEW c \in Call,
             pc[c] \notin {"new", "returned"}
      PROVE  Stays(c)
  <2>1. pc[c] \in Inside \/ pc[c] \in {"start", "report"}
    BY <1>1 DEF RouterInv, CallTypes, Inside
  <2>2. CASE pc[c] \in Inside
    BY <1>1, <2>2, InsideRests DEF Stays
  <2>3. CASE pc[c] = "report"
    <3>1. c.job \in Job /\ job[c.job] # "waiting" /\ job[c.job] # "new"
      BY <1>1, <2>3 DEF AtRest, Locks, RouterInv, Calls
    <3>. QED
      BY <1>1, <2>3, <3>1 DEF Stays, RouterInv, CallTypes
  <2>4. CASE pc[c] = "start"
    <3>1. c.from \in Peer /\ lock[c.from] # None
      BY <1>1, <2>4, RouterAssumption DEF AtRest, Unlocked
    <3>. DEFINE d == lock[c.from]
    <3>2. d \in Call /\ d.from = c.from /\ pc[d] \in Inside
      BY <1>1, <3>1 DEF Locks, RouterInv, CallTypes
    <3>. HIDE DEF d
    <3>3. HeldUp(d) /\ d # c
      BY <1>1, <2>4, <3>2, InsideRests DEF Inside
    <3>. QED
      BY <2>4, <3>2, <3>3 DEF Stays
  <2>. QED
    BY <2>1, <2>2, <2>3, <2>4
<1>2. ASSUME Mux, AtRest, NEW p \in Peer, chanMut[p] # None PROVE Unread(p, chanMut[p])
  <2>1. PICK q \in Peer : q = chanMut[p]
    BY <1>2 DEF Mux, MuxTypes
  <2>2. egress[p][q] \in 0..QueueSize /\ ~(egress[p][q] < QueueSize)
    BY <1>2, <2>1 DEF AtRest, HasRoom, Mux, MuxTypes
  <2>3. egress[p][q] = QueueSize /\ egress[p][q] # 0
    BY <2>2, RouterAssumption
  <2>4. ASSUME NEW c \in Call, c.from = p, to[c] = q
        PROVE  pc[c] # "receive" /\ machine[c] # "running"
    BY <1>2, <2>3, <2>4 DEF AtRest
  <2>. QED
    BY <2>1, <2>3, <2>4 DEF Unread
<1>3. RouterInv /\ Mux /\ Locks /\ Joins =>
        (AtRest => /\ \A c \in Call : pc[c] \in {"new", "returned"} \/ Stays(c)
                   /\ \A p \in Peer : chanMut[p] # None => Unread(p, chanMut[p]))
  BY <1>1, <1>2
<1>4. Init => Joins
  BY DEF Init, Joins, Linked
<1>. QED
  BY <1>3, <1>4, LocksInit, LocksNext, JoinsNext, InvCorrect, PTL DEF Spec

-----------------------------------------------------------------------------
(***************************************************************************)
(* What Broadcast returns.                                                 *)
(***************************************************************************)

\* A Broadcast that has returned has taken an error.
FailedOnly == \A j \in Job : job[j] = "returned" =>
  \E c \in Call : c.job = j /\ pc[c] = "returned" /\ result[c] = "error"

\* The result of a call that has returned stays.
LEMMA ReturnedStays ==
  ASSUME RouterInv, [Next]_vars, NEW d \in Call, pc[d] = "returned"
  PROVE  pc'[d] = "returned" /\ result'[d] = result[d]
<1>1. pc \in [Call -> PC] /\ result \in [Call -> {"nil", "error", "pending"}]
  BY DEF RouterInv, CallTypes, PC
<1>2. ASSUME NEW c \in Call, Continue(c) PROVE pc'[d] = "returned" /\ result'[d] = result[d]
  <2>1. c # d
    BY <1>2 DEF Continue, SendStart, OpenChannel, StartHandshake, ReceiveHandshake,
       HandshakeFails, ReplyHandshake, StreamSend, BroadcastTakes
  <2>2. pc' = pc \/ \E x : pc' = [pc EXCEPT ![c] = x]
    BY <1>2 DEF Continue, SendStart, OpenChannel, StartHandshake, ReceiveHandshake,
       HandshakeFails, ReplyHandshake, StreamSend, BroadcastTakes, SendReturns, StartStream, GoesTo
  <2>3. result' = result \/ \E x : result' = [result EXCEPT ![c] = x]
    BY <1>2 DEF Continue, SendStart, OpenChannel, StartHandshake, ReceiveHandshake,
       HandshakeFails, ReplyHandshake, StreamSend, BroadcastTakes, SendReturns
  <2>. QED
    BY <1>1, <2>1, <2>2, <2>3
<1>3. ASSUME NEW j \in Job, Broadcast(j) PROVE pc'[d] = "returned" /\ result'[d] = result[d]
  BY <1>3 DEF Broadcast, RouterInv, Calls
<1>4. ASSUME (\E c \in Call : MachineReceives(c)) \/ Beside
      PROVE  UNCHANGED <<pc, result>>
  BY <1>4, BesideKeeps DEF MachineReceives
<1>. QED
  BY <1>2, <1>3, <1>4 DEF Next, Beside, Dispatches, Fails

\* What makes a Broadcast return.
LEMMA BroadcastSteps ==
  ASSUME RouterInv, Locks, [Next]_vars, NEW j \in Job, job[j] # "returned", job'[j] = "returned"
  PROVE  \E c \in Call : c.job = j /\ pc'[c] = "returned" /\ result'[c] = "error"
<1>1. job \in [Job -> {"new", "waiting", "returned"}] /\ pc \in [Call -> PC]
  BY DEF RouterInv, CallTypes, PC
<1>2. \/ UNCHANGED job
      \/ \E i \in Job : Broadcast(i)
      \/ \E c \in Call : BroadcastTakes(c)
  <2>1. \/ Beside
        \/ \E c \in Call : Continue(c) \/ MachineReceives(c)
        \/ \E i \in Job : Broadcast(i)
    BY DEF Next, Beside, Dispatches, Fails
  <2>2. ASSUME NEW c \in Call, Continue(c) \/ MachineReceives(c)
        PROVE  UNCHANGED job \/ BroadcastTakes(c)
    BY <2>2 DEF Continue, SendStart, OpenChannel, StartHandshake, ReceiveHandshake,
       HandshakeFails, ReplyHandshake, StreamSend, MachineReceives
  <2>. QED
    BY <2>1, <2>2, BesideKeeps
<1>3. ASSUME NEW i \in Job, Broadcast(i) PROVE job'[j] # "returned"
  BY <1>1, <1>3 DEF Broadcast
<1>4. ASSUME NEW c \in Call, BroadcastTakes(c)
      PROVE  c.job = j /\ pc'[c] = "returned" /\ result'[c] = "error"
  <2>1. /\ pc[c] = "report" /\ pc' = [pc EXCEPT ![c] = "returned"] /\ UNCHANGED result
        /\ job' = IF result[c] = "error" THEN [job EXCEPT ![c.job] = "returned"] ELSE job
    BY <1>4 DEF BroadcastTakes, GoesTo
  <2>2. c.job \in Job
    BY <2>1 DEF Locks
  <2>. QED
    BY <1>1, <2>1, <2>2
<1>. QED
  BY <1>2, <1>3, <1>4

\* Broadcast never returns nil: once it has returned, one of its Sends has returned an
\* error, however many of them have succeeded (Broadcast, which never raises n).
THEOREM BroadcastReturnsErrors == Spec => []FailedOnly
<1>1. Init => FailedOnly
  BY DEF Init, FailedOnly
<1>2. ASSUME RouterInv, Locks, FailedOnly, [Next]_vars PROVE FailedOnly'
  <2>. SUFFICES ASSUME NEW j \in Job, job'[j] = "returned"
                PROVE  \E c \in Call : c.job = j /\ pc'[c] = "returned" /\ result'[c] = "error"
    BY DEF FailedOnly
  <2>1. CASE job[j] = "returned"
    <3>1. PICK c \in Call : c.job = j /\ pc[c] = "returned" /\ result[c] = "error"
      BY <1>2, <2>1 DEF FailedOnly
    <3>. QED
      BY <1>2, <3>1, ReturnedStays
  <2>2. CASE job[j] # "returned"
    BY <1>2, <2>2, BroadcastSteps
  <2>. QED
    BY <2>1, <2>2
<1>. QED
  BY <1>1, <1>2, LocksInit, LocksNext, InvCorrect, PTL DEF Spec

=============================================================================
