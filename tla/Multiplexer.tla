----------------------------- MODULE Multiplexer -----------------------------
(***************************************************************************)
(* The client end of a relay connection, relay/channel.go: a Multiplexer    *)
(* shares one connection between channels.  Its goroutine routine() reads   *)
(* the connection and hands each message to the clientChannel registered    *)
(* for its id, with chanMut held; goroutines of the application call        *)
(* Channel, Receive and Close.                                              *)
(*                                                                         *)
(* The relay is RelayService, for this one client.  A request is read by    *)
(* the relay at the moment it is sent: the relay serves JOIN and LEAVE in   *)
(* any order anyway.  clientChannel.Send and a Receive that returns         *)
(* ErrClosed change no state of this module.                                *)
(***************************************************************************)
EXTENDS Naturals, Sequences

CONSTANTS
  Thread,       \* goroutines of the application
  ChannelId,    \* channel identifiers
  Uses,         \* the channels that a goroutine works with
  Client,       \* the address of this client at the relay
  QueueSize,    \* queueSize, 20 in the code
  MaxMade,      \* bound of the model: clientChannels created
  MaxForward,   \* bound of the model: payloads the relay forwards on a channel
  MaxOut,       \* bound of the model: messages under way from the relay
  NoChannel,    \* the empty channel id
  NoBlob,       \* the payload of a message without one
  NoMessage     \* routine() has no message in hand

ASSUME MultiplexerAssumption ==
  /\ QueueSize \in Nat \ {0}
  /\ MaxMade \in Nat /\ MaxForward \in [ChannelId -> Nat] /\ MaxOut \in Nat
  /\ Uses \in [Thread -> SUBSET ChannelId]
  /\ NoChannel \notin ChannelId

\* Instances of clientChannel, in the order of their creation; 0 is none.
Object == 1..MaxMade

VARIABLES
  channels,   \* Multiplexer.channels
  made,       \* number of clientChannels created
  ident,      \* clientChannel.id
  egress,     \* clientChannel.egress
  done,       \* clientChannel.done; clientChannel.stop is closed with it
  routine,    \* where routine() is; it holds chanMut in "dispatch"
  message,    \* the message routine() has in hand
  target,     \* the clientChannel routine() hands it to
  pc,         \* where a goroutine is in Channel or Close
  object,     \* the clientChannel a goroutine is creating or closing
  holds,      \* clientChannels that Channel has returned to a goroutine
  closed,     \* this end has closed the connection
  received,   \* history: payloads that came out of a clientChannel
  forwarded,  \* history: number of payloads forwarded on a channel
  joins, leaves, member, open, out   \* the relay

relayVars == <<joins, leaves, member, open, out>>
objectVars == <<channels, made, ident>>
threadVars == <<pc, object, holds>>
routineVars == <<routine, message, target>>
historyVars == <<received, forwarded>>
vars == <<objectVars, egress, done, routineVars, threadVars, closed, historyVars, relayVars>>

Blob == UNION {1..MaxForward[id] : id \in ChannelId}

Relay == INSTANCE RelayService WITH Address <- {Client}

Message == [type : {"JOIN_OK", "JOIN_FAILURE", "EGRESS"},
            channel : ChannelId \cup {NoChannel},
            blob : Blob \cup {NoBlob}]

TypeOK ==
  /\ channels \in [ChannelId -> Object \cup {0}]
  /\ made \in 0..MaxMade
  /\ ident \in [Object -> ChannelId \cup {NoChannel}]
  /\ egress \in [Object -> Seq(Message)]
  /\ done \in [Object -> BOOLEAN]
  /\ routine \in {"receive", "lock", "dispatch", "returned"}
  /\ message \in Message \cup {NoMessage}
  /\ target \in Object \cup {0}
  /\ pc \in [Thread -> {"idle", "join", "wait", "failed", "closing"}]
  /\ object \in [Thread -> Object \cup {0}]
  /\ holds \in [Thread -> SUBSET Object]
  /\ closed \in BOOLEAN
  /\ received \in [Object -> Seq(Blob)]
  /\ forwarded \in [ChannelId -> Nat]
  /\ joins \in [{Client} -> [ChannelId -> Nat]]
  /\ leaves \in [{Client} -> [ChannelId -> Nat]]
  /\ member \in [{Client} -> SUBSET ChannelId]
  /\ open \in [{Client} -> BOOLEAN]
  /\ out \in [{Client} -> Seq(Message)]

Init ==
  /\ channels = [id \in ChannelId |-> 0]
  /\ made = 0
  /\ ident = [o \in Object |-> NoChannel]
  /\ egress = [o \in Object |-> <<>>]
  /\ done = [o \in Object |-> FALSE]
  /\ routine = "receive"
  /\ message = NoMessage
  /\ target = 0
  /\ pc = [t \in Thread |-> "idle"]
  /\ object = [t \in Thread |-> 0]
  /\ holds = [t \in Thread |-> {}]
  /\ closed = FALSE
  /\ received = [o \in Object |-> <<>>]
  /\ forwarded = [id \in ChannelId |-> 0]
  /\ Relay!Init

-----------------------------------------------------------------------------
\* Nobody else holds chanMut: every other critical section is one step.
MutexFree == routine # "dispatch"

\* Multiplexer.send without an error.  A request that the relay does not read
\* because it has just closed the connection is lost.
Sends(ask) == ~closed /\ \/ open[Client] /\ ask
                         \/ ~open[Client] /\ UNCHANGED relayVars

\* Multiplexer.send with an error.
SendFails == (closed \/ ~open[Client]) /\ UNCHANGED relayVars

-----------------------------------------------------------------------------
(***************************************************************************)
(* Multiplexer.Channel.                                                    *)
(***************************************************************************)

\* The id is registered: Channel returns its clientChannel.
ChannelKnown(t, id) ==
  /\ pc[t] = "idle" /\ id \in Uses[t]
  /\ MutexFree
  /\ channels[id] # 0
  /\ channels[id] \notin holds[t]
  /\ holds' = [holds EXCEPT ![t] = @ \cup {channels[id]}]
  /\ UNCHANGED <<objectVars, egress, done, routineVars, pc, object, closed, historyVars,
                 relayVars>>

\* It is not: a new clientChannel is registered, and then joins.
ChannelNew(t, id) ==
  /\ pc[t] = "idle" /\ id \in Uses[t]
  /\ MutexFree
  /\ channels[id] = 0
  /\ made < MaxMade
  /\ made' = made + 1
  /\ ident' = [ident EXCEPT ![made'] = id]
  /\ channels' = [channels EXCEPT ![id] = made']
  /\ pc' = [pc EXCEPT ![t] = "join"]
  /\ object' = [object EXCEPT ![t] = made']
  /\ UNCHANGED <<egress, done, routineVars, holds, closed, historyVars, relayVars>>

\* join sends its request, which the relay queues or refuses.
JoinSend(t) ==
  /\ pc[t] = "join"
  /\ \/ /\ Sends(Relay!AskJoin(Client, ident[object[t]]) \/ Relay!Refuse(Client))
        /\ pc' = [pc EXCEPT ![t] = "wait"]
     \/ /\ SendFails
        /\ pc' = [pc EXCEPT ![t] = "failed"]
  /\ UNCHANGED <<objectVars, egress, done, routineVars, object, holds, closed, historyVars>>

\* Mutant: any response will do.
Joined_AnyStatus(m) == m.type \in {"JOIN_OK", "JOIN_FAILURE"}

Joined(m) == m.type = "JOIN_OK"

\* The first message decides: Channel returns the clientChannel, or an error.
JoinAnswer(t) ==
  /\ pc[t] = "wait"
  /\ egress[object[t]] # <<>>
  /\ egress' = [egress EXCEPT ![object[t]] = Tail(@)]
  /\ IF Joined(Head(egress[object[t]]))
     THEN /\ pc' = [pc EXCEPT ![t] = "idle"]
          /\ object' = [object EXCEPT ![t] = 0]
          /\ holds' = [holds EXCEPT ![t] = @ \cup {object[t]}]
     ELSE /\ pc' = [pc EXCEPT ![t] = "failed"]
          /\ UNCHANGED <<object, holds>>
  /\ UNCHANGED <<objectVars, done, routineVars, closed, historyVars, relayVars>>

\* Mutant: join waits for its answer without a limit.
JoinTimeout_Never(t) == FALSE /\ UNCHANGED vars

\* case <-time.After(JoinTimeout).
JoinTimeout(t) ==
  /\ pc[t] = "wait"
  /\ pc' = [pc EXCEPT ![t] = "failed"]
  /\ UNCHANGED <<objectVars, egress, done, routineVars, object, holds, closed, historyVars,
                 relayVars>>

\* Channel unregisters the id and returns the error.
JoinCleanup(t) ==
  /\ pc[t] = "failed"
  /\ MutexFree
  /\ channels' = [channels EXCEPT ![ident[object[t]]] = 0]
  /\ pc' = [pc EXCEPT ![t] = "idle"]
  /\ object' = [object EXCEPT ![t] = 0]
  /\ UNCHANGED <<made, ident, egress, done, routineVars, holds, closed, historyVars,
                 relayVars>>

-----------------------------------------------------------------------------
(***************************************************************************)
(* clientChannel.                                                          *)
(***************************************************************************)

\* What Receive returns of a message: an error if it is not EGRESS.
Delivered(m) == IF m.type = "EGRESS" THEN <<m.blob>> ELSE <<>>

\* Receive takes the next message, closed or not.
Receive(t, o) ==
  /\ pc[t] = "idle" /\ o \in holds[t]
  /\ egress[o] # <<>>
  /\ egress' = [egress EXCEPT ![o] = Tail(@)]
  /\ received' = [received EXCEPT ![o] = @ \o Delivered(Head(egress[o]))]
  /\ UNCHANGED <<objectVars, done, routineVars, threadVars, closed, forwarded, relayVars>>

\* Close, under the clientChannel's own mutex: LEAVE is sent, whether or not it
\* succeeds, and stop is closed; a second Close does nothing.
CloseLeave(t, o) ==
  /\ pc[t] = "idle" /\ o \in holds[t]
  /\ ~done[o]
  /\ done' = [done EXCEPT ![o] = TRUE]
  /\ Sends(Relay!AskLeave(Client, ident[o]) \/ Relay!Refuse(Client)) \/ SendFails
  /\ pc' = [pc EXCEPT ![t] = "closing"]
  /\ object' = [object EXCEPT ![t] = o]
  /\ UNCHANGED <<objectVars, egress, routineVars, holds, closed, historyVars>>

\* Mutant: the connection is closed with any channel.
LastChannel_Any(id) == TRUE

LastChannel(id) == \A other \in ChannelId \ {id} : channels[other] = 0

\* Mutant: chanMut is not taken.
ChannelDone_Unlocked(t) ==
  /\ pc[t] = "closing"
  /\ channels' = [channels EXCEPT ![ident[object[t]]] = 0]
  /\ closed' = (closed \/ LastChannel(ident[object[t]]))
  /\ pc' = [pc EXCEPT ![t] = "idle"]
  /\ object' = [object EXCEPT ![t] = 0]
  /\ UNCHANGED <<made, ident, egress, done, routineVars, holds, historyVars, relayVars>>

\* channelDone: the id is unregistered, and with the last one the connection is
\* closed.
ChannelDone(t) ==
  /\ pc[t] = "closing"
  /\ MutexFree
  /\ channels' = [channels EXCEPT ![ident[object[t]]] = 0]
  /\ closed' = (closed \/ LastChannel(ident[object[t]]))
  /\ pc' = [pc EXCEPT ![t] = "idle"]
  /\ object' = [object EXCEPT ![t] = 0]
  /\ UNCHANGED <<made, ident, egress, done, routineVars, holds, historyVars, relayVars>>

-----------------------------------------------------------------------------
(***************************************************************************)
(* routine().                                                              *)
(***************************************************************************)

\* conn.Receive.
RoutineReceive ==
  /\ routine = "receive"
  /\ ~closed
  /\ out[Client] # <<>>
  /\ message' = Head(out[Client])
  /\ out' = [out EXCEPT ![Client] = Tail(@)]
  /\ routine' = "lock"
  /\ UNCHANGED <<target, objectVars, egress, done, threadVars, closed, historyVars,
                 joins, leaves, member, open>>

\* conn.Receive returns an error: the connection is closed by either end.
RoutineReturns ==
  /\ routine = "receive"
  /\ closed \/ ~open[Client]
  /\ routine' = "returned"
  /\ UNCHANGED <<objectVars, egress, done, message, target, threadVars, closed, historyVars,
                 relayVars>>

Registered(id) == id \in ChannelId /\ channels[id] # 0

\* chanMut is taken; a message for an id that is not registered is dropped.
RoutineLookup ==
  /\ routine = "lock"
  /\ IF Registered(message.channel)
     THEN /\ routine' = "dispatch"
          /\ target' = channels[message.channel]
          /\ UNCHANGED message
     ELSE /\ routine' = "receive"
          /\ message' = NoMessage
          /\ UNCHANGED target
  /\ UNCHANGED <<objectVars, egress, done, threadVars, closed, historyVars, relayVars>>

HasRoom(o) == Len(egress[o]) < QueueSize

\* Mutant: a message that finds egress full is dropped.
RoutineDispatch_Drops ==
  /\ routine = "dispatch"
  /\ egress' = IF HasRoom(target)
               THEN [egress EXCEPT ![target] = Append(@, message)] ELSE egress
  /\ routine' = "receive"
  /\ message' = NoMessage
  /\ target' = 0
  /\ UNCHANGED <<objectVars, done, threadVars, closed, historyVars, relayVars>>

\* dispatch: routine() holds chanMut for as long as egress is full.
RoutineDispatch ==
  /\ routine = "dispatch"
  /\ HasRoom(target)
  /\ egress' = [egress EXCEPT ![target] = Append(@, message)]
  /\ routine' = "receive"
  /\ message' = NoMessage
  /\ target' = 0
  /\ UNCHANGED <<objectVars, done, threadVars, closed, historyVars, relayVars>>

-----------------------------------------------------------------------------
(***************************************************************************)
(* The relay.  The payloads forwarded on a channel are numbered.           *)
(***************************************************************************)
muxVars == <<objectVars, egress, done, routineVars, threadVars, closed, received>>

RelayServes(id) ==
  /\ \/ Len(out[Client]) < MaxOut /\ (Relay!Accept(Client, id) \/ Relay!Full(Client, id))
     \/ Relay!Leave(Client, id)
     \/ joins[Client][id] + leaves[Client][id] > 0 /\ Relay!Forget(id)
  /\ UNCHANGED <<muxVars, forwarded>>

RelayForwards(id) ==
  /\ forwarded[id] < MaxForward[id]
  /\ Len(out[Client]) < MaxOut
  /\ forwarded' = [forwarded EXCEPT ![id] = @ + 1]
  /\ Relay!Forward(Client, id, forwarded'[id])
  /\ UNCHANGED muxVars

RelayHangsUp ==
  /\ open[Client]
  /\ Relay!HangUp({Client})
  /\ UNCHANGED <<muxVars, forwarded>>

-----------------------------------------------------------------------------
Continue(t) == JoinSend(t) \/ JoinAnswer(t) \/ JoinTimeout(t) \/ JoinCleanup(t) \/ ChannelDone(t)

RoutineStep == RoutineReceive \/ RoutineReturns \/ RoutineLookup \/ RoutineDispatch

Next ==
  \/ \E t \in Thread : \/ \E id \in ChannelId : ChannelKnown(t, id) \/ ChannelNew(t, id)
                       \/ \E o \in Object : Receive(t, o) \/ CloseLeave(t, o)
                       \/ Continue(t)
  \/ RoutineStep
  \/ \E id \in ChannelId : RelayServes(id) \/ RelayForwards(id)
  \/ RelayHangsUp

Spec == Init /\ [][Next]_vars

(***************************************************************************)
(* Fairness: a goroutine that can go on goes on, and the timer of join     *)
(* expires.  The relay does not have to answer, and nobody has to call     *)
(* anything, Receive included.                                             *)
(***************************************************************************)
FairSpec == Spec /\ WF_vars(RoutineStep) /\ \A t \in Thread : WF_vars(Continue(t))

-----------------------------------------------------------------------------
(***************************************************************************)
(* Properties.                                                             *)
(***************************************************************************)

Held(o) == ~done[o] /\ \E t \in Thread : o \in holds[t]

\* Only one goroutine uses the id of this clientChannel.
Private(o) == \A t, u \in Thread : ident[o] \in Uses[t] /\ ident[o] \in Uses[u] => t = u

Consecutive(s) == \A i \in 1..(Len(s) - 1) : s[i + 1] = s[i] + 1

IsEgress(m) == m.type = "EGRESS"

\* The payloads of a clientChannel that come before the i-th message in its egress.
Earlier(o, i) == {received[o][k] : k \in DOMAIN received[o]}
                   \cup {egress[o][k].blob : k \in {j \in 1..(i - 1) : IsEgress(egress[o][j])}}

\* From the first payload it gets to the last, a clientChannel misses none and
\* gets none twice, however slow its reader and whatever happens on channels that
\* others share, as long as it has one user: what Receive has returned is consecutive,
\* and so is what waits in egress, each payload being a new one that follows an earlier
\* one (routine, dispatch, join, Receive).
NoGap == \A o \in Object : Private(o) =>
  /\ Consecutive(received[o])
  /\ \A i \in DOMAIN egress[o] : IsEgress(egress[o][i]) /\ Earlier(o, i) # {} =>
       egress[o][i].blob - 1 \in Earlier(o, i) /\ egress[o][i].blob \notin Earlier(o, i)

\* Once Close has returned, the clientChannel is not registered and routine() has
\* no message in hand for it: the id is free for a new clientChannel (Close,
\* channelDone, dispatch under chanMut).
ClosedIsGone == \A o \in Object :
  done[o] /\ (\A t \in Thread : object[t] # o) =>
    target # o /\ \A id \in ChannelId : channels[id] # o

\* A clientChannel with one user, who has not closed it, is registered under its id,
\* and this end has not closed the connection below it.
HeldIsRegistered == \A o \in Object :
  Private(o) /\ Held(o) => channels[ident[o]] = o /\ ~closed

\* Channel "creates it and join the channel on the relay": a clientChannel with one
\* user, who has not closed it, is a member at the relay, if it is the first for its
\* id.  A later one may not be: the relay may serve the LEAVE of an earlier one after
\* its JOIN (join, Close).
FirstIsMember == \A o \in Object :
  Private(o) /\ Held(o) /\ (\A p \in Object : ident[p] = ident[o] => p = o)
    => ident[o] \in member[Client]

\* routine() waits, with chanMut held, for room in the egress of a clientChannel.
Blocked == routine = "dispatch" /\ ~HasRoom(target)

\* Channel and Close return, whether or not the relay answers, unless routine()
\* is blocked for ever by a clientChannel that nobody reads.
CallsReturn == \A t \in Thread : []<>(pc[t] = "idle") \/ <>[]Blocked

=============================================================================
