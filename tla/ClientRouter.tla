---------------------------- MODULE ClientRouter ----------------------------
(***************************************************************************)
(* The client's Router of client/router.go and the streams it opens,        *)
(* client/stream.go: Send takes the router's one mutex, joins the channel   *)
(* of the pair, makes the noise handshake on it, starts the state machine   *)
(* of the new stream and sends.  Broadcast runs one Send per destination    *)
(* in goroutines.                                                           *)
(*                                                                         *)
(* Nothing is ever put into Router.streams: every Send opens a stream of    *)
(* its own, and the streams of a pair read from one clientChannel, the one  *)
(* the multiplexer has for the pair.  The relay passes a message on to the  *)
(* other peer if it has joined the channel, and forgets it otherwise.       *)
(*                                                                         *)
(* One goroutine of the client's multiplexer, routine(), brings all that    *)
(* the relay sends.  It waits for room in the egress of a channel with      *)
(* chanMut held, and returns for good when reading fails or times out.  The *)
(* relay itself may stop to read for good (Relay: a client that does not    *)
(* read, the lock cycle); one that is only slow is a delay like any other.  *)
(*                                                                         *)
(* The handshakes are in this module.  What the streams exchange after them *)
(* is ReliableStream: here its send returns, with or without an error.      *)
(***************************************************************************)
EXTENDS Naturals, Sequences

CONSTANTS
  Peer,                  \* clients, each with its router
  Rank,                  \* the order of their identities
  Call,                  \* calls of Send: [from, ids, pos, job]
  Job,                   \* calls of Broadcast
  MaxIncorrectMessages,  \* tries of receiveHandshake, 100 in the code
  QueueSize,             \* channel.go: queueSize, 20 in the code
  MaxEvents,             \* bound of the model: messages of strangers, failures and closes
  None                   \* no call, no job

ASSUME RouterAssumption ==
  /\ Rank \in [Peer -> Nat]
  /\ \A p, q \in Peer : Rank[p] = Rank[q] => p = q
  /\ \A c \in Call : /\ c.from \in Peer
                     /\ c.ids \in Seq(Peer) /\ c.pos \in DOMAIN c.ids
                     /\ c.job \in Job \cup {None}
  /\ MaxIncorrectMessages \in Nat \ {0}
  /\ QueueSize \in Nat \ {0}
  /\ MaxEvents \in Nat
  /\ None \notin Call \cup Job \cup Peer

VARIABLES
  lock,     \* Router.Mutex: the call of Send that holds it
  done,     \* Router.done
  pc,       \* where a call of Send is
  to,       \* its destination
  result,   \* what it has returned
  session,  \* the handshake its stream is built on: the call that said hello
  tries,    \* i, the loop counter of receiveHandshake
  machine,  \* stateMachine of its stream
  joined,   \* the peers with whom a peer has joined a channel
  inbound,  \* messages to a peer on the channel with another, the next one first
  egress,   \* how many of them are in clientChannel.egress already
  routine,  \* routine() of the multiplexer of a peer
  chanMut,  \* the channel for which routine() waits with chanMut, or None
  relay,    \* whether the relay still reads and forwards
  job,      \* where a call of Broadcast is
  events    \* history: messages of strangers, failures and closes

streamVars == <<session, tries, machine>>
callVars == <<pc, to, result, streamVars>>
muxVars == <<egress, routine, chanMut, relay>>
vars == <<lock, done, callVars, joined, inbound, muxVars, job, events>>

Hello(c) == [type |-> "hello", session |-> c]

Reply(c) == [type |-> "reply", session |-> c]

Message == [type : {"hello", "reply"}, session : Call]
             \cup [type : {"junk"}, session : {None}]

CallTypes ==
  /\ lock \in [Peer -> Call \cup {None}]
  /\ done \in [Peer -> BOOLEAN]
  /\ pc \in [Call -> {"new", "start", "open", "handshake", "receive", "reply", "send",
                      "report", "returned"}]
  /\ to \in [Call -> Peer \cup {None}]
  /\ result \in [Call -> {"nil", "error", "pending"}]
  /\ session \in [Call -> Call \cup {None}]
  /\ tries \in [Call -> 0..MaxIncorrectMessages]
  /\ machine \in [Call -> {"none", "running", "returned"}]
  /\ joined \in [Peer -> SUBSET Peer]
  /\ inbound \in [Peer -> [Peer -> Seq(Message)]]
  /\ job \in [Job -> {"new", "waiting", "returned"}]
  /\ events \in 0..MaxEvents

MuxTypes ==
  /\ egress \in [Peer -> [Peer -> 0..QueueSize]]
  /\ routine \in [Peer -> {"runs", "returned"}]
  /\ chanMut \in [Peer -> Peer \cup {None}]
  /\ relay \in {"serves", "stuck"}

TypeOK == CallTypes /\ MuxTypes

Init ==
  /\ lock = [p \in Peer |-> None]
  /\ done = [p \in Peer |-> FALSE]
  /\ pc = [c \in Call |-> IF c.job = None THEN "start" ELSE "new"]
  /\ to = [c \in Call |-> None]
  /\ result = [c \in Call |-> "pending"]
  /\ session = [c \in Call |-> None]
  /\ tries = [c \in Call |-> 0]
  /\ machine = [c \in Call |-> "none"]
  /\ joined = [p \in Peer |-> {}]
  /\ inbound = [p \in Peer |-> [q \in Peer |-> <<>>]]
  /\ egress = [p \in Peer |-> [q \in Peer |-> 0]]
  /\ routine = [p \in Peer |-> "runs"]
  /\ chanMut = [p \in Peer |-> None]
  /\ relay = "serves"
  /\ job = [j \in Job |-> "new"]
  /\ events = 0

-----------------------------------------------------------------------------
Unlocked(p) == lock[p] = None

\* What nobody has to do, and the model counts.
Event == events < MaxEvents /\ events' = events + 1

GoesTo(c, next) == pc' = [pc EXCEPT ![c] = next]

\* Mutant: an error leaves the mutex locked.
Unlock_NotOnError(c, res) == IF res = "nil" THEN [lock EXCEPT ![c.from] = None] ELSE lock

\* The deferred Unlock.
Unlock(c, res) == [lock EXCEPT ![c.from] = None]

\* Send returns; the goroutine of a Broadcast still has to report.
SendReturns(c, res) ==
  /\ GoesTo(c, IF c.job = None THEN "returned" ELSE "report")
  /\ result' = [result EXCEPT ![c] = res]
  /\ lock' = Unlock(c, res)

\* The destinations a goroutine of Broadcast may read: the variable of the loop
\* is shared by all of them and the loop goes on.
Destination(c) == {c.ids[i] : i \in c.pos..Len(c.ids)}

\* Send with the mutex: ErrClosed, or on to newStream.
SendStart(c, q) ==
  /\ pc[c] = "start"
  /\ q \in Destination(c)
  /\ Unlocked(c.from)
  /\ to' = [to EXCEPT ![c] = q]
  /\ IF done[c.from]
     THEN SendReturns(c, "error")
     ELSE /\ lock' = [lock EXCEPT ![c.from] = c]
          /\ GoesTo(c, "open")
          /\ UNCHANGED result
  /\ UNCHANGED <<done, session, tries, machine, joined, inbound, muxVars, job, events>>

\* multiplexer.Channel, which needs chanMut: joined already, joined now, if routine()
\* brings the response, or an error, at the latest after JoinTimeout.
OpenChannel(c) ==
  /\ pc[c] = "open"
  /\ chanMut[c.from] = None
  /\ \/ /\ to[c] \in joined[c.from] \/ routine[c.from] = "runs"
        /\ joined' = [joined EXCEPT ![c.from] = @ \cup {to[c]}]
        /\ GoesTo(c, "handshake")
        /\ UNCHANGED <<lock, result>>
     \/ /\ to[c] \notin joined[c.from]
        /\ SendReturns(c, "error")
        /\ UNCHANGED joined
  /\ UNCHANGED <<done, to, session, tries, machine, inbound, muxVars, job, events>>

-----------------------------------------------------------------------------
(***************************************************************************)
(* The multiplexer of a client, and the relay.                             *)
(***************************************************************************)
HasRoom(p, q) == egress[p][q] < QueueSize

\* routine() reads the next message for the channel with q and dispatches it, or has
\* to wait for room, with chanMut.
Dispatch(p, q) ==
  /\ routine[p] = "runs"
  /\ chanMut[p] = None
  /\ q \in joined[p]
  /\ egress[p][q] < Len(inbound[p][q])
  /\ IF HasRoom(p, q)
     THEN egress' = [egress EXCEPT ![p][q] = @ + 1] /\ UNCHANGED chanMut
     ELSE chanMut' = [chanMut EXCEPT ![p] = q] /\ UNCHANGED egress
  /\ UNCHANGED <<lock, done, callVars, joined, inbound, routine, relay, job, events>>

\* There is room, and chanMut is released.
Dispatched(p) ==
  /\ chanMut[p] # None
  /\ HasRoom(p, chanMut[p])
  /\ egress' = [egress EXCEPT ![p][chanMut[p]] = @ + 1]
  /\ chanMut' = [chanMut EXCEPT ![p] = None]
  /\ UNCHANGED <<lock, done, callVars, joined, inbound, routine, relay, job, events>>

\* conn.Receive returns an error, or times out, and routine() returns.
RoutineReturns(p) ==
  /\ routine[p] = "runs"
  /\ chanMut[p] = None
  /\ Event
  /\ routine' = [routine EXCEPT ![p] = "returned"]
  /\ UNCHANGED <<lock, done, callVars, joined, inbound, egress, chanMut, relay, job>>

\* The relay reads and forwards no more; what is under way may still arrive, and what
\* is written to it may still find room in the connection, or not.
RelayStops ==
  /\ relay = "serves"
  /\ Event
  /\ relay' = "stuck"
  /\ UNCHANGED <<lock, done, callVars, joined, inbound, egress, routine, chanMut, job>>

\* channel.Receive takes a message.
Take(p, q) ==
  /\ egress[p][q] > 0
  /\ egress' = [egress EXCEPT ![p][q] = @ - 1]
  /\ inbound' = [inbound EXCEPT ![p][q] = Tail(@)]
  /\ UNCHANGED <<routine, chanMut, relay>>

-----------------------------------------------------------------------------
(***************************************************************************)
(* The noise handshake, over the channel of the pair.                      *)
(***************************************************************************)

\* channelID: who says hello.  Nobody does to himself.
First(c) == Rank[c.from] < Rank[to[c]]

\* channel.Send: through the relay to the peer, if it has joined.
Transmit(c, m) == LET p == c.from
                      q == to[c]
  IN  inbound' = IF p # q /\ p \in joined[q] THEN [inbound EXCEPT ![q][p] = Append(@, m)]
                                            ELSE inbound

\* doHandshake: the client of the pair says hello, unless channel.Send fails.
StartHandshake(c) ==
  /\ pc[c] = "handshake"
  /\ \/ /\ IF First(c) THEN Transmit(c, Hello(c)) ELSE UNCHANGED inbound
        /\ GoesTo(c, "receive")
        /\ UNCHANGED <<lock, result>>
     \/ /\ First(c)
        /\ SendReturns(c, "error")
        /\ UNCHANGED inbound
  /\ UNCHANGED <<done, to, streamVars, joined, muxVars, job, events>>

\* Mutant: a reply to another handshake will do.
Valid_AnySession(c, m) == m.type = (IF First(c) THEN "reply" ELSE "hello")

\* handshake.ReadMessage without an error (the noise library): the server takes
\* a hello of the peer, the client the reply to its own hello.
Valid(c, m) == IF First(c) THEN m = Reply(c) ELSE m.type = "hello"

\* newReliableStream, and its stateMachine is started.
StartStream(c) ==
  /\ machine' = [machine EXCEPT ![c] = "running"]
  /\ GoesTo(c, "send")

MoreTries(c) == tries[c] < MaxIncorrectMessages

\* receiveHandshake: a message that is not valid costs a try.
ReceiveHandshake(c) ==
  /\ pc[c] = "receive"
  /\ MoreTries(c)
  /\ egress[c.from][to[c]] > 0
  /\ LET m == Head(inbound[c.from][to[c]])
     IN  IF Valid(c, m)
         THEN /\ session' = [session EXCEPT ![c] = m.session]
              /\ IF First(c) THEN StartStream(c) ELSE GoesTo(c, "reply") /\ UNCHANGED machine
              /\ UNCHANGED tries
         ELSE /\ tries' = [tries EXCEPT ![c] = @ + 1]
              /\ UNCHANGED <<session, machine, pc>>
  /\ Take(c.from, to[c])
  /\ UNCHANGED <<lock, done, to, result, joined, job, events>>

HandshakeFails(c) ==
  /\ pc[c] = "receive"
  /\ ~MoreTries(c)
  /\ SendReturns(c, "error")
  /\ UNCHANGED <<done, to, streamVars, joined, inbound, muxVars, job, events>>

\* Mutant: the reply is not sent.
Answer_Silent(c) == UNCHANGED inbound

Answer(c) == Transmit(c, Reply(session[c]))

\* The server replies, unless channel.Send fails.
ReplyHandshake(c) ==
  /\ pc[c] = "reply"
  /\ \/ /\ Answer(c)
        /\ StartStream(c)
        /\ UNCHANGED <<lock, result>>
     \/ /\ SendReturns(c, "error")
        /\ UNCHANGED <<inbound, machine>>
  /\ UNCHANGED <<done, to, session, tries, joined, muxVars, job, events>>

-----------------------------------------------------------------------------
Acknowledges(d, c) == d # c /\ session[d] = session[c] /\ machine[d] # "none"

\* stream.send returns: nil only if the other end of the stream has answered.
StreamSend(c) ==
  /\ pc[c] = "send"
  /\ \/ (\E d \in Call : Acknowledges(d, c)) /\ SendReturns(c, "nil")
     \/ SendReturns(c, "error")
  /\ UNCHANGED <<done, to, streamVars, joined, inbound, muxVars, job, events>>

\* The state machine of a stream receives what was meant for another stream of
\* the pair, or comes from a stranger: it cannot decrypt it, and returns.
MachineReceives(c) ==
  /\ machine[c] = "running"
  /\ Take(c.from, to[c])
  /\ machine' = [machine EXCEPT ![c] = "returned"]
  /\ UNCHANGED <<lock, done, pc, to, result, session, tries, joined, job, events>>

\* "Anybody could join and spam any channel": a message of a stranger, passed on
\* to a peer that has joined.
Stranger(p, q) ==
  /\ q \in joined[p]
  /\ Event
  /\ inbound' = [inbound EXCEPT ![p][q] = Append(@, [type |-> "junk", session |-> None])]
  /\ UNCHANGED <<lock, done, callVars, joined, muxVars, job>>

\* Close, with the mutex; there are no streams to close.
Close(p) ==
  /\ Unlocked(p)
  /\ ~done[p]
  /\ Event
  /\ done' = [done EXCEPT ![p] = TRUE]
  /\ UNCHANGED <<lock, callVars, joined, inbound, muxVars, job>>

-----------------------------------------------------------------------------
(***************************************************************************)
(* Broadcast.                                                              *)
(***************************************************************************)
Broadcast(j) ==
  /\ job[j] = "new"
  /\ job' = [job EXCEPT ![j] = "waiting"]
  /\ pc' = [c \in Call |-> IF c.job = j THEN "start" ELSE pc[c]]
  /\ UNCHANGED <<lock, done, to, result, streamVars, joined, inbound, muxVars, events>>

\* err := <-done: Broadcast returns the first error, and counts nothing.
BroadcastTakes(c) ==
  /\ pc[c] = "report"
  /\ job[c.job] = "waiting"
  /\ GoesTo(c, "returned")
  /\ job' = IF result[c] = "error" THEN [job EXCEPT ![c.job] = "returned"] ELSE job
  /\ UNCHANGED <<lock, done, to, result, streamVars, joined, inbound, muxVars, events>>

-----------------------------------------------------------------------------
Continue(c) ==
  \/ \E q \in Peer : SendStart(c, q)
  \/ OpenChannel(c)
  \/ StartHandshake(c) \/ ReceiveHandshake(c) \/ HandshakeFails(c) \/ ReplyHandshake(c)
  \/ StreamSend(c)
  \/ BroadcastTakes(c)

Next ==
  \/ \E c \in Call : Continue(c) \/ MachineReceives(c)
  \/ \E p \in Peer : Close(p) \/ Dispatched(p) \/ RoutineReturns(p)
  \/ \E p, q \in Peer : Stranger(p, q) \/ Dispatch(p, q)
  \/ \E j \in Job : Broadcast(j)
  \/ RelayStops

Spec == Init /\ [][Next]_vars

\* The call writes to the connection with the relay.
Writes(c) ==
  \/ pc[c] = "open" /\ to[c] \notin joined[c.from]
  \/ pc[c] = "handshake" /\ First(c)
  \/ pc[c] \in {"reply", "send"}

\* A write has no deadline: it need not return once the relay does not read.
WaitsForRelay(c) == relay = "stuck" /\ Writes(c)

(***************************************************************************)
(* Fairness: goroutines go on, a waiter for the mutex gets it in the end    *)
(* (Go's mutexes do not starve anybody), and calls of libraries return, but *)
(* for writes to a relay that is stuck.  What the relay has forwarded is    *)
(* read in the end.  Nobody has to close or to broadcast, no reader has to  *)
(* fail, and the relay need not stop.                                       *)
(***************************************************************************)
FairSpec ==
  /\ Spec
  /\ \A c \in Call : /\ SF_vars(Continue(c) /\ ~WaitsForRelay(c))
                     /\ WF_vars(MachineReceives(c))
  /\ \A p \in Peer : /\ WF_vars(Dispatched(p))
                     /\ WF_vars(relay = "serves" /\ \E q \in Peer : Dispatch(p, q))

-----------------------------------------------------------------------------
(***************************************************************************)
(* Properties.                                                             *)
(***************************************************************************)
Opposite(c, d) == c.from = to[d] /\ d.from = to[c]

\* A handshake has at most one stream at either end, both of the same pair, and
\* the client's stream is never without the server's: whatever late replies,
\* messages of strangers and other streams of the pair there are on the channel
\* (receiveHandshake).
HandshakeAgreement ==
  /\ \A c, d \in Call : c # d /\ session[c] # None /\ session[c] = session[d] => Opposite(c, d)
  /\ \A c \in Call : session[c] # None /\ First(c) =>
       \E d \in Call : session[d] = c /\ machine[d] # "none"

\* The call waits for a handshake message, and none is in egress.
Waits(c) == pc[c] = "receive" /\ egress[c.from][to[c]] = 0

\* None has been sent to it.
WaitsForPeer(c) == Waits(c) /\ inbound[c.from][to[c]] = <<>>

\* routine() brings nothing any more: it has returned, or waits with chanMut for room
\* in the egress of a channel.
Silent(p) == routine[p] = "returned" \/ chanMut[p] # None

\* The call waits for a message, or for chanMut, that routine() keeps.
WaitsForRoutine(c) ==
  \/ Waits(c) /\ Silent(c.from)
  \/ pc[c] = "open" /\ chanMut[c.from] # None

\* The call waits for what need not come: a message that the peer does not send, that
\* routine() does not bring or that the relay does not forward; chanMut; or room in the
\* connection with the relay.
HeldUp(c) ==
  \/ WaitsForPeer(c)
  \/ WaitsForRoutine(c)
  \/ WaitsForRelay(c)
  \/ Waits(c) /\ relay = "stuck"

\* A Send that never returns is held up, or waits for the mutex with which another of the
\* client is held up: by its peer, by an egress that has filled and that nobody reads, by
\* a routine() that has returned, or by the relay.  On every other path Send returns
\* and the mutex is released (Send, newStream, Channel, receiveHandshake).
RouterReleased == \A c \in Call :
  <>[](pc[c] \notin {"new", "report", "returned"}) =>
    <>[](\E d \in Call : d.from = c.from /\ HeldUp(d))

StreamsOf(p, q) == {c \in Call : c.from = p /\ to[c] = q /\ machine[c] # "none"}

\* A hello that finds the server waiting, and no older stream of the pair that might
\* take it, leads to a stream at the server, unless it could not send its reply, and
\* then to one at the client, unless strangers use up its tries: as long as the relay
\* serves, and routine() neither returns at one of the two nor waits there for ever for
\* room in the egress of some channel (doHandshake, receiveHandshake, routine).
HelloHeard == \A c, d \in Call : Rank[c.from] < Rank[d.from] => [](
  /\ pc[c] = "receive" /\ pc[d] = "receive"
  /\ StreamsOf(d.from, c.from) = {} /\ StreamsOf(c.from, d.from) = {}
  /\ Opposite(c, d) /\ inbound[d.from][c.from] = <<Hello(c)>>
  => \/ <>(\/ result[d] = "error" /\ machine[d] = "none"
           \/ machine[d] # "none" /\ (machine[c] # "none" \/ tries[c] = MaxIncorrectMessages)
           \/ relay = "stuck"
           \/ routine[c.from] = "returned" \/ routine[d.from] = "returned")
     \/ <>[](chanMut[c.from] # None \/ chanMut[d.from] # None))

=============================================================================
