------------------------------- MODULE Relay -------------------------------
(***************************************************************************)
(* The relay server of relay/relay.go: the registry of channels            *)
(* (Relay.channels, guarded by channelsMut), the goroutine process() that  *)
(* every channel runs, the three bounded Go channels that connect the two, *)
(* and Relay.Stop.                                                         *)
(*                                                                         *)
(* Threads.  One handleConn goroutine per client connection calls          *)
(* Relay.Process, serialised by the dispatcher's mutex and by channelsMut; *)
(* `call' is the one Process call that holds them.  One goroutine per      *)
(* channel.  One caller of Stop.  A client may send any message at any     *)
(* time; what it sends is chosen when its handler reads it.  A client may  *)
(* stop reading: TCPConn.sendRaw writes without a deadline, so that a Send *)
(* to it waits until it reads again or the connection is closed.           *)
(***************************************************************************)
EXTENDS Naturals, Sequences, FiniteSets

CONSTANTS
  Address,           \* addresses of the client connections
  ChannelId,         \* non-empty channel identifiers
  ChannelSize,       \* relay.go: ChannelSize, 30 in the code
  MaxChannel,        \* relay.go: MaxChannel, 50 in the code
  ChannelQueueSize,  \* relay.go: ChannelQueueSize, 100 in the code
  MaxSent,           \* bound of the model: messages read from each client
  MayStall,          \* bound of the model: clients that may stop reading
  NoCall,            \* no Process call holds channelsMut
  NoChannel,         \* the empty channel id
  NoClient,          \* no Send waits
  NoBlob             \* the payload of a message without one

ASSUME ConstantsAssumption ==
  /\ ChannelSize \in Nat \ {0}
  /\ MaxChannel \in Nat
  /\ ChannelQueueSize \in Nat \ {0}
  /\ MaxSent \in [Address -> Nat]
  /\ IsFiniteSet(ChannelId) /\ IsFiniteSet(Address)
  /\ NoChannel \notin ChannelId /\ NoClient \notin Address
  /\ MayStall \subseteq Address

(***************************************************************************)
(* A payload is opaque to the relay; here it is the client that sent it    *)
(* and the rank of the message among those of this client.                 *)
(***************************************************************************)
Blob == [from : Address, n : Nat]

RequestType == {"JOIN", "LEAVE", "INGRESS", "OTHER"}

\* A call without a channel is one that refuses the message (ProcessRefused).
Call == [from : Address, channel : ChannelId \cup {NoChannel}, type : RequestType, n : Nat]

Message == [type : {"JOIN_OK", "JOIN_FAILURE", "EGRESS"},
            channel : ChannelId \cup {NoChannel},
            blob : Blob \cup {NoBlob}]

VARIABLES
  channels,   \* Relay.channels: the registered ids
  routine,    \* where the goroutine process() of a channel is
  join,       \* channel.join, a Go channel of addresses
  leave,      \* channel.leave, a Go channel of addresses
  incoming,   \* channel.incoming, a Go channel of payloads
  clients,    \* channel.clients
  current,    \* payload the goroutine is broadcasting
  todo,       \* clients the broadcast loop still has to send to
  sending,    \* client that the goroutine's Send waits for, or NoClient
  done,       \* channel.done
  finished,   \* channel.finished has been closed
  call,       \* the Process call that holds channelsMut, or NoCall
  up,         \* the connection with this client is open
  sent,       \* number of messages read from this client
  out,        \* messages given to the open connection of this client, in order
  stalled,    \* clients that do not read, and whose window is full
  stopping,   \* progress of Relay.Stop: "no", "router", "done"
  inflight    \* handlers past their Closed() test when the router stopped

chanVars == <<join, leave, incoming, clients, current, todo, sending, done, finished>>
connVars == <<up, sent, out, stalled>>
stopVars == <<stopping, inflight>>
vars == <<channels, routine, chanVars, call, connVars, stopVars>>

TypeOK ==
  /\ channels \subseteq ChannelId
  /\ routine \in [ChannelId -> {"none", "select", "broadcast", "delete", "returned"}]
  /\ join \in [ChannelId -> Seq(Address)]
  /\ leave \in [ChannelId -> Seq(Address)]
  /\ incoming \in [ChannelId -> Seq(Blob)]
  /\ clients \in [ChannelId -> SUBSET Address]
  /\ current \in [ChannelId -> Blob \cup {NoBlob}]
  /\ todo \in [ChannelId -> SUBSET Address]
  /\ sending \in [ChannelId -> Address \cup {NoClient}]
  /\ done \in [ChannelId -> BOOLEAN]
  /\ finished \in [ChannelId -> BOOLEAN]
  /\ call \in Call \cup {NoCall}
  /\ up \in [Address -> BOOLEAN]
  /\ sent \in [Address -> Nat]
  /\ out \in [Address -> Seq(Message)]
  /\ stalled \subseteq Address
  /\ stopping \in {"no", "router", "done"}
  /\ inflight \subseteq Address

Init ==
  /\ channels = {}
  /\ routine = [id \in ChannelId |-> "none"]
  /\ join = [id \in ChannelId |-> <<>>]
  /\ leave = [id \in ChannelId |-> <<>>]
  /\ incoming = [id \in ChannelId |-> <<>>]
  /\ clients = [id \in ChannelId |-> {}]
  /\ current = [id \in ChannelId |-> NoBlob]
  /\ todo = [id \in ChannelId |-> {}]
  /\ sending = [id \in ChannelId |-> NoClient]
  /\ done = [id \in ChannelId |-> FALSE]
  /\ finished = [id \in ChannelId |-> FALSE]
  /\ call = NoCall
  /\ up = [c \in Address |-> TRUE]
  /\ sent = [c \in Address |-> 0]
  /\ out = [c \in Address |-> <<>>]
  /\ stalled = {}
  /\ stopping = "no"
  /\ inflight = {}

-----------------------------------------------------------------------------
(***************************************************************************)
(* router.Send(c, m): given to the connection, or an error that every      *)
(* caller only logs (a client does not listen, so the router's attempt to  *)
(* connect again fails).  Router.Stop has closed every connection.  When   *)
(* the client does not read, the Send has begun and does not return.       *)
(***************************************************************************)
Reachable(c) == up[c] /\ stopping = "no"

Blocked(c) == Reachable(c) /\ c \in stalled

Send(c, m) == out' = IF Reachable(c) THEN [out EXCEPT ![c] = Append(@, m)] ELSE out

\* Send by the goroutine of a channel, which stays in it while c does not read.
ChannelSend(id, c, m) ==
  /\ Send(c, m)
  /\ sending' = IF Blocked(c) THEN [sending EXCEPT ![id] = c] ELSE sending

Response(status, id) == [type |-> status, channel |-> id, blob |-> NoBlob]

Egress(id, b) == [type |-> "EGRESS", channel |-> id, blob |-> b]

-----------------------------------------------------------------------------
(***************************************************************************)
(* Relay.Process, up to the call of newMessage.                            *)
(***************************************************************************)

\* handleConn of c has read a message and its Dispatch takes the mutexes.
HandlerReads(c) ==
  /\ call = NoCall
  /\ sent[c] < MaxSent[c]
  /\ \/ stopping = "no" /\ up[c] /\ UNCHANGED inflight
     \/ stopping = "router" /\ c \in inflight /\ inflight' = inflight \ {c}
  /\ sent' = [sent EXCEPT ![c] = @ + 1]

\* A message without a channel id is logged and ignored.
ProcessWithoutId(c) ==
  /\ HandlerReads(c)
  /\ UNCHANGED <<channels, routine, chanVars, call, up, out, stalled, stopping>>

TooManyChannels == Cardinality(channels) > MaxChannel

\* Unknown id, registry full: the failure response, whatever the type of the
\* message, carries no channel id; it is sent with channelsMut held.
ProcessRefused(c, id) ==
  /\ HandlerReads(c)
  /\ id \notin channels
  /\ TooManyChannels
  /\ Send(c, Response("JOIN_FAILURE", NoChannel))
  /\ call' = IF Blocked(c)
             THEN [from |-> c, channel |-> NoChannel, type |-> "OTHER", n |-> sent'[c]]
             ELSE call
  /\ UNCHANGED <<channels, routine, chanVars, up, stalled, stopping>>

\* Process waits in the Send of a refusal...
Refusing == call # NoCall /\ call.channel = NoChannel

\* ... until the client reads or the connection is closed.
RefusalReturns ==
  /\ Refusing
  /\ ~Blocked(call.from)
  /\ call' = NoCall
  /\ UNCHANGED <<channels, routine, chanVars, connVars, stopVars>>

\* Known id, or a new channel whose goroutine is launched, whatever the type
\* of the message; newMessage is then called with channelsMut held.
Process(c, id, type) ==
  /\ HandlerReads(c)
  /\ id \in channels \/ ~TooManyChannels
  /\ channels' = channels \cup {id}
  /\ routine' = IF id \in channels THEN routine ELSE [routine EXCEPT ![id] = "select"]
  /\ call' = [from |-> c, channel |-> id, type |-> type, n |-> sent'[c]]
  /\ UNCHANGED <<chanVars, up, out, stalled, stopping>>

\* Mutant: the last message is taken first.
Enqueue_Front(q, x) == <<x>> \o q

Enqueue(q, x) == Append(q, x)

HasRoom(q) == Len(q) < ChannelQueueSize

\* Mutant: a message of unknown type is never done with.
EnqueueCall_Stuck(id) ==
  \/ /\ call.type = "JOIN" /\ HasRoom(join[id])
     /\ join' = [join EXCEPT ![id] = Enqueue(@, call.from)]
     /\ UNCHANGED <<leave, incoming>>
  \/ /\ call.type = "LEAVE" /\ HasRoom(leave[id])
     /\ leave' = [leave EXCEPT ![id] = Enqueue(@, call.from)]
     /\ UNCHANGED <<join, incoming>>
  \/ /\ call.type = "INGRESS" /\ HasRoom(incoming[id])
     /\ incoming' = [incoming EXCEPT ![id] = Enqueue(@, [from |-> call.from, n |-> call.n])]
     /\ UNCHANGED <<join, leave>>

\* channel.newMessage: a send on a Go channel, which blocks while it is full.
EnqueueCall(id) ==
  \/ /\ call.type = "JOIN" /\ HasRoom(join[id])
     /\ join' = [join EXCEPT ![id] = Enqueue(@, call.from)]
     /\ UNCHANGED <<leave, incoming>>
  \/ /\ call.type = "LEAVE" /\ HasRoom(leave[id])
     /\ leave' = [leave EXCEPT ![id] = Enqueue(@, call.from)]
     /\ UNCHANGED <<join, incoming>>
  \/ /\ call.type = "INGRESS" /\ HasRoom(incoming[id])
     /\ incoming' = [incoming EXCEPT ![id] = Enqueue(@, [from |-> call.from, n |-> call.n])]
     /\ UNCHANGED <<join, leave>>
  \/ /\ call.type = "OTHER"
     /\ UNCHANGED <<join, leave, incoming>>

\* newMessage returns, then Process, which releases channelsMut.
NewMessage ==
  /\ call # NoCall /\ ~Refusing
  /\ EnqueueCall(call.channel)
  /\ call' = NoCall
  /\ UNCHANGED <<channels, routine, clients, current, todo, sending, done, finished,
                 connVars, stopVars>>

-----------------------------------------------------------------------------
(***************************************************************************)
(* The goroutine channel.process(): one case of its select per action.     *)
(* select chooses freely among the cases that are ready, so messages of    *)
(* different kinds overtake each other.                                    *)
(***************************************************************************)

Accepts(id, c) == c \in clients[id] \/ Cardinality(clients[id]) < ChannelSize

\* case <-ch.join, with addClient.
ChannelJoin(id) ==
  /\ routine[id] = "select" /\ sending[id] = NoClient
  /\ join[id] # <<>>
  /\ LET c == Head(join[id])
         accepted == Accepts(id, c)
     IN  /\ clients' = IF accepted THEN [clients EXCEPT ![id] = @ \cup {c}] ELSE clients
         /\ ChannelSend(id, c, Response(IF accepted THEN "JOIN_OK" ELSE "JOIN_FAILURE", id))
  /\ join' = [join EXCEPT ![id] = Tail(@)]
  /\ UNCHANGED <<channels, routine, leave, incoming, current, todo, done, finished,
                 call, up, sent, stalled, stopVars>>

\* case <-ch.leave; when nobody is left, setDone and on to deleteChannel.
ChannelLeave(id) ==
  /\ routine[id] = "select" /\ sending[id] = NoClient
  /\ leave[id] # <<>>
  /\ LET rest == clients[id] \ {Head(leave[id])}
     IN  /\ clients' = [clients EXCEPT ![id] = rest]
         /\ done' = IF rest = {} THEN [done EXCEPT ![id] = TRUE] ELSE done
         /\ routine' = IF rest = {} THEN [routine EXCEPT ![id] = "delete"] ELSE routine
  /\ leave' = [leave EXCEPT ![id] = Tail(@)]
  /\ UNCHANGED <<channels, join, incoming, current, todo, sending, finished, call, connVars,
                 stopVars>>

\* Mutant: broadcast to every connection of the relay.
Recipients_Everyone(id, b) == IF b.from \in clients[id] THEN Address \ {b.from} ELSE {}

Recipients(id, b) == IF b.from \in clients[id] THEN clients[id] \ {b.from} ELSE {}

\* Mutant: a message of an unregistered sender ends the goroutine.
ChannelIncoming_Returns(id) ==
  /\ routine[id] = "select" /\ sending[id] = NoClient
  /\ incoming[id] # <<>>
  /\ Head(incoming[id]).from \notin clients[id]
  /\ routine' = [routine EXCEPT ![id] = "returned"]
  /\ incoming' = [incoming EXCEPT ![id] = Tail(@)]
  /\ UNCHANGED <<channels, join, leave, clients, current, todo, sending, done, finished,
                 call, connVars, stopVars>>

\* case <-ch.incoming: dropped unless its sender is a client and is not alone.
ChannelIncoming(id) ==
  /\ routine[id] = "select" /\ sending[id] = NoClient
  /\ incoming[id] # <<>>
  /\ LET b == Head(incoming[id])
         dest == Recipients(id, b)
     IN  IF dest = {}
         THEN UNCHANGED <<routine, current, todo>>
         ELSE /\ routine' = [routine EXCEPT ![id] = "broadcast"]
              /\ current' = [current EXCEPT ![id] = b]
              /\ todo' = [todo EXCEPT ![id] = dest]
  /\ incoming' = [incoming EXCEPT ![id] = Tail(@)]
  /\ UNCHANGED <<channels, join, leave, clients, sending, done, finished, call, connVars,
                 stopVars>>

\* Mutant: after one send the payload goes back to the queue.
ChannelBroadcast_Requeues(id, c) ==
  /\ routine[id] = "broadcast" /\ sending[id] = NoClient
  /\ c \in todo[id]
  /\ ChannelSend(id, c, Egress(id, current[id]))
  /\ todo' = [todo EXCEPT ![id] = {}]
  /\ routine' = [routine EXCEPT ![id] = "select"]
  /\ current' = [current EXCEPT ![id] = NoBlob]
  /\ incoming' = [incoming EXCEPT ![id] =
                    IF todo[id] = {c} THEN @ ELSE Enqueue(@, current[id])]
  /\ UNCHANGED <<channels, join, leave, clients, done, finished, call, up, sent, stalled,
                 stopVars>>

\* One turn of the broadcast loop; a Go map is ranged over in any order.
ChannelBroadcast(id, c) ==
  /\ routine[id] = "broadcast" /\ sending[id] = NoClient
  /\ c \in todo[id]
  /\ ChannelSend(id, c, Egress(id, current[id]))
  /\ todo' = [todo EXCEPT ![id] = @ \ {c}]
  /\ IF todo[id] = {c}
     THEN /\ routine' = [routine EXCEPT ![id] = "select"]
          /\ current' = [current EXCEPT ![id] = NoBlob]
     ELSE UNCHANGED <<routine, current>>
  /\ UNCHANGED <<channels, join, leave, incoming, clients, done, finished, call,
                 up, sent, stalled, stopVars>>

\* The Send that the goroutine waits in returns: the client reads, or the
\* connection has been closed.
SendReturns(id) ==
  /\ sending[id] # NoClient
  /\ ~Blocked(sending[id])
  /\ sending' = [sending EXCEPT ![id] = NoClient]
  /\ UNCHANGED <<channels, routine, join, leave, incoming, clients, current, todo, done,
                 finished, call, connVars, stopVars>>

\* Mutant: the id stays registered.
Unregister_Forgotten(id) == channels

Unregister(id) == channels \ {id}

\* Mutant: channelsMut is not taken.
DeleteChannel_Unlocked(id) ==
  /\ routine[id] = "delete"
  /\ channels' = Unregister(id)
  /\ routine' = [routine EXCEPT ![id] = "none"]
  /\ join' = [join EXCEPT ![id] = <<>>]
  /\ leave' = [leave EXCEPT ![id] = <<>>]
  /\ incoming' = [incoming EXCEPT ![id] = <<>>]
  /\ done' = [done EXCEPT ![id] = FALSE]
  /\ finished' = [finished EXCEPT ![id] = FALSE]
  /\ UNCHANGED <<clients, current, todo, sending, call, connVars, stopVars>>

\* Relay.deleteChannel, which needs channelsMut; the goroutine returns, and
\* whatever its Go channels still hold is garbage.
DeleteChannel(id) ==
  /\ routine[id] = "delete"
  /\ call = NoCall
  /\ channels' = Unregister(id)
  /\ routine' = [routine EXCEPT ![id] = "none"]
  /\ join' = [join EXCEPT ![id] = <<>>]
  /\ leave' = [leave EXCEPT ![id] = <<>>]
  /\ incoming' = [incoming EXCEPT ![id] = <<>>]
  /\ done' = [done EXCEPT ![id] = FALSE]
  /\ finished' = [finished EXCEPT ![id] = FALSE]
  /\ UNCHANGED <<clients, current, todo, sending, call, connVars, stopVars>>

\* case <-ch.finished.
ChannelFinished(id) ==
  /\ routine[id] = "select" /\ sending[id] = NoClient
  /\ finished[id]
  /\ routine' = [routine EXCEPT ![id] = "returned"]
  /\ UNCHANGED <<channels, chanVars, call, connVars, stopVars>>

-----------------------------------------------------------------------------
\* The connection of c ends.  handleConn returns; it publishes no event, so
\* Relay.Receive is not called and the channels keep their client.
ConnDown(c) ==
  /\ up[c]
  /\ stopping = "no"
  /\ up' = [up EXCEPT ![c] = FALSE]
  /\ UNCHANGED <<channels, routine, chanVars, call, sent, out, stalled, stopVars>>

\* A client keeps its connection and stops reading until the window is full...
Stall(c) ==
  /\ c \in MayStall \ stalled
  /\ Reachable(c)
  /\ stalled' = stalled \cup {c}
  /\ UNCHANGED <<channels, routine, chanVars, call, up, sent, out, stopVars>>

\* ... or reads again.
ReadsAgain(c) ==
  /\ c \in stalled
  /\ Reachable(c)
  /\ stalled' = stalled \ {c}
  /\ UNCHANGED <<channels, routine, chanVars, call, up, sent, out, stopVars>>

CanBeInFlight(c) ==
  /\ up[c]
  /\ sent[c] < MaxSent[c]
  /\ call = NoCall \/ call.from # c

\* Relay.Stop calls router.Stop: the connections are closed.  Any handlers
\* may just have passed their Closed() test with a message in hand.
StopRouter ==
  /\ stopping = "no"
  /\ stopping' = "router"
  /\ inflight' \in SUBSET {c \in Address : CanBeInFlight(c)}
  /\ UNCHANGED <<channels, routine, chanVars, call, connVars>>

\* Mutant: an empty channel is not told to finish.
ToStop_OnlyWithClients(id) == id \in channels /\ ~done[id] /\ clients[id] # {}

ToStop(id) == id \in channels /\ ~done[id]

\* wg.Wait has returned; with channelsMut, stop() on every registered channel:
\* one that is done is skipped, any other is marked and told to finish.
StopChannels ==
  /\ stopping = "router"
  /\ call = NoCall
  /\ inflight = {}
  /\ finished' = [id \in ChannelId |-> finished[id] \/ ToStop(id)]
  /\ done' = [id \in ChannelId |-> done[id] \/ ToStop(id)]
  /\ stopping' = "done"
  /\ UNCHANGED <<channels, routine, join, leave, incoming, clients, current, todo, sending,
                 call, connVars, inflight>>

-----------------------------------------------------------------------------
Handler(c) ==
  \/ ProcessWithoutId(c)
  \/ \E id \in ChannelId : ProcessRefused(c, id)
  \/ \E id \in ChannelId, type \in RequestType : Process(c, id, type)

ChannelStep(id) ==
  \/ ChannelJoin(id)
  \/ ChannelLeave(id)
  \/ ChannelIncoming(id)
  \/ \E c \in Address : ChannelBroadcast(id, c)
  \/ SendReturns(id)
  \/ DeleteChannel(id)
  \/ ChannelFinished(id)

Next ==
  \/ \E c \in Address : Handler(c)
  \/ NewMessage
  \/ RefusalReturns
  \/ \E id \in ChannelId : ChannelStep(id)
  \/ \E c \in Address : ConnDown(c) \/ Stall(c) \/ ReadsAgain(c)
  \/ StopRouter
  \/ StopChannels

Spec == Init /\ [][Next]_vars

(***************************************************************************)
(* Fairness of the Go scheduler: a goroutine that can run does run.  No    *)
(* client has to send, to read or to disconnect, and nobody has to call    *)
(* Stop.                                                                   *)
(***************************************************************************)
FairSpec ==
  /\ Spec
  /\ WF_vars(NewMessage)
  /\ WF_vars(RefusalReturns)
  /\ \A id \in ChannelId : WF_vars(ChannelStep(id))
  /\ \A c \in Address : WF_vars(stopping = "router" /\ Handler(c))
  /\ WF_vars(StopChannels)

-----------------------------------------------------------------------------
(***************************************************************************)
(* Safety.                                                                 *)
(***************************************************************************)

\* A channel is registered exactly as long as its goroutine has not unregistered
\* it, the goroutine returns otherwise only after Stop, and the channel newMessage
\* is queueing for stays registered until it is done: a message is never queued
\* for a goroutine that a concurrent last LEAVE has ended, and newChannel never
\* launches a second goroutine for an id (Process against deleteChannel).
RoutineRegistered ==
  /\ \A id \in ChannelId :
       /\ id \in channels <=> routine[id] # "none"
       /\ routine[id] = "returned" => finished[id]
  /\ call # NoCall /\ ~Refusing => call.channel \in channels

\* "MaxChannel represents the maximum number of channels allowed for this relay":
\* the registry never holds more.
RegistryBounded == Cardinality(channels) <= MaxChannel

IsEgress(m, id) == m.type = "EGRESS" /\ m.channel = id

\* A client receives nothing of a channel before the response that accepts
\* it there, which clientChannel.join takes for granted, and never its own
\* messages (addClient, process).
EgressAfterJoin == \A c \in Address, id \in ChannelId : \A i \in DOMAIN out[c] :
  IsEgress(out[c][i], id) =>
    /\ out[c][i].blob.from # c
    /\ \E j \in 1..(i - 1) : out[c][j] = Response("JOIN_OK", id)

\* What a client receives from one sender on one channel is in the order
\* sent and without repetition, through handler, queue and broadcast loop.
SenderOrder == \A c \in Address, id \in ChannelId : \A i, j \in DOMAIN out[c] :
  /\ i < j
  /\ IsEgress(out[c][i], id) /\ IsEgress(out[c][j], id)
  /\ out[c][i].blob.from = out[c][j].blob.from
  => out[c][i].blob.n < out[c][j].blob.n

\* Two clients never see two messages of one channel in opposite orders: the
\* goroutine finishes a broadcast before it takes the next message.
ChannelTotalOrder == \A c, d \in Address, id \in ChannelId :
  \A i, j \in DOMAIN out[c], k, l \in DOMAIN out[d] :
    /\ i < j /\ k < l
    /\ IsEgress(out[c][i], id) /\ IsEgress(out[c][j], id)
    => ~(out[c][i] = out[d][l] /\ out[c][j] = out[d][k])

-----------------------------------------------------------------------------
(***************************************************************************)
(* Refinement: what the relay promises each client.                        *)
(***************************************************************************)

Requests(queue, c) == Cardinality({i \in DOMAIN queue : queue[i] = c})

\* The requests of c of one type that wait in a Go channel or in newMessage.
Pending(queue, type, c, id) ==
  Requests(queue[id], c)
    + (IF call # NoCall /\ call.from = c /\ call.channel = id /\ call.type = type
       THEN 1 ELSE 0)

Service == INSTANCE RelayService WITH
  Blob <- UNION {[from : {c}, n : 1..MaxSent[c]] : c \in Address},
  joins <- [c \in Address |-> [id \in ChannelId |-> Pending(join, "JOIN", c, id)]],
  leaves <- [c \in Address |-> [id \in ChannelId |-> Pending(leave, "LEAVE", c, id)]],
  member <- [c \in Address |-> {id \in ChannelId : c \in clients[id]}],
  open <- [c \in Address |-> Reachable(c)]

\* To every client, the relay with its goroutines, mutex and bounded queues is
\* the service on which the multiplexer of relay/channel.go is built: nothing
\* is answered twice or unasked, and only a member gets payloads (Process,
\* newMessage, process, deleteChannel, Stop).
ServiceSpec == Service!Spec

-----------------------------------------------------------------------------
(***************************************************************************)
(* Liveness, under FairSpec.                                               *)
(***************************************************************************)

QueueOf(type, id) ==
  CASE type = "JOIN" -> join[id]
    [] type = "LEAVE" -> leave[id]
    [] type = "INGRESS" -> incoming[id]
    [] type = "OTHER" -> <<>>

\* Process holds channelsMut and waits for room in a Go channel that only a
\* goroutine waiting for channelsMut could empty.
LockCycle ==
  /\ call # NoCall /\ ~Refusing
  /\ routine[call.channel] = "delete"
  /\ ~HasRoom(QueueOf(call.type, call.channel))

\* "Stop closes all channel, and closes all connections to the Relay": a call
\* of Stop returns.
StopReturns == stopping = "router" ~> stopping = "done"

\* The lock cycle is the only thing that can keep Stop from returning.
StopReturnsOrLockCycle == stopping = "router" ~> (stopping = "done" \/ LockCycle)

\* After Stop the goroutine of every channel ends, in whichever order the
\* select and a concurrent last LEAVE come (stop, setDone, process).
RoutinesEnd ==
  stopping = "done" ~> \A id \in ChannelId : routine[id] \in {"none", "returned"}

\* The goroutine of a channel is in a Send to a client that does not read.
SendBlocked(id) == sending[id] # NoClient /\ Blocked(sending[id])

\* Process holds channelsMut and waits for a client that does not read: to refuse
\* its message, or for room in the queue of a goroutine that waits for a client.
CallBlocked ==
  \/ Refusing /\ Blocked(call.from)
  \/ /\ call # NoCall /\ ~Refusing
     /\ ~HasRoom(QueueOf(call.type, call.channel))
     /\ SendBlocked(call.channel)

\* A channel is held up by a client that does not read, of this channel or, through
\* channelsMut, of any other.
HeldUp(id) == SendBlocked(id) \/ (routine[id] = "delete" /\ CallBlocked)

\* No message stays in a channel's queue for ever, unless the relay is stopped or
\* caught in the lock cycle, or a client that keeps its connection and does not read
\* holds the channel up; one that is not a client of it does so only when the channel
\* is ending (process, newMessage, deleteChannel, sendRaw).
QueuesDrain == \A id \in ChannelId, type \in {"JOIN", "LEAVE", "INGRESS"} :
  QueueOf(type, id) # <<>> ~>
    (QueueOf(type, id) = <<>> \/ stopping = "done" \/ LockCycle \/ HeldUp(id))

=============================================================================
