---------------------------- MODULE RelayProofs ----------------------------
(***************************************************************************)
(* Theorems about Relay, for every set of clients and of channel ids and   *)
(* for every value of the limits.                                          *)
(***************************************************************************)
EXTENDS Relay, FiniteSetTheorems, TLAPS

-----------------------------------------------------------------------------
(***************************************************************************)
(* Types.                                                                  *)
(***************************************************************************)

\* What router.Send does to the connections keeps their type.
LEMMA SendType ==
  ASSUME out \in [Address -> Seq(Message)],
         NEW c \in Address, NEW m \in Message, Send(c, m)
  PROVE  out' \in [Address -> Seq(Message)]
  BY DEF Send

\* Every message the relay builds is a Message.
LEMMA MessageTypes ==
  /\ \A s \in {"JOIN_OK", "JOIN_FAILURE"}, id \in ChannelId \cup {NoChannel} :
        Response(s, id) \in Message
  /\ \A id \in ChannelId, b \in Blob \cup {NoBlob} : Egress(id, b) \in Message
  BY DEF Response, Egress, Message

\* A handler that reads a message keeps the types of what it changes.
LEMMA HandlerType ==
  ASSUME TypeOK, NEW c \in Address, HandlerReads(c)
  PROVE  sent' \in [Address -> Nat] /\ inflight' \subseteq Address
  BY DEF TypeOK, HandlerReads

\* newMessage keeps the types of the three Go channels.
LEMMA EnqueueType ==
  ASSUME TypeOK, call \in Call, call.channel # NoChannel, EnqueueCall(call.channel)
  PROVE  /\ join' \in [ChannelId -> Seq(Address)]
         /\ leave' \in [ChannelId -> Seq(Address)]
         /\ incoming' \in [ChannelId -> Seq(Blob)]
<1> DEFINE id == call.channel
           b == [from |-> call.from, n |-> call.n]
<1>1. id \in ChannelId /\ call.from \in Address /\ b \in Blob
  BY DEF Call, Blob
<1>2. /\ Append(join[id], call.from) \in Seq(Address)
      /\ Append(leave[id], call.from) \in Seq(Address)
      /\ Append(incoming[id], b) \in Seq(Blob)
  BY <1>1 DEF TypeOK
<1> QED
  BY <1>1, <1>2, ZenonT(60) DEF TypeOK, EnqueueCall, Enqueue

\* The relay starts in a well-typed state.
LEMMA TypeInit == Init => TypeOK
  BY DEF Init, TypeOK

\* Every step of the relay, by any of its goroutines, keeps the types.
LEMMA TypeNext == TypeOK /\ [Next]_vars => TypeOK'
<1> SUFFICES ASSUME TypeOK, [Next]_vars PROVE TypeOK'
  OBVIOUS
<1>1. ASSUME NEW c \in Address, ProcessWithoutId(c) PROVE TypeOK'
  BY <1>1 DEF TypeOK, ProcessWithoutId, HandlerReads, chanVars
<1>2. ASSUME NEW c \in Address, NEW id \in ChannelId, ProcessRefused(c, id) PROVE TypeOK'
  <2>1. out' \in [Address -> Seq(Message)]
    BY <1>2, SendType, MessageTypes DEF TypeOK, ProcessRefused
  <2>2. sent' \in [Address -> Nat] /\ inflight' \subseteq Address
    BY <1>2, HandlerType DEF ProcessRefused
  <2>3. call' \in Call \cup {NoCall}
    BY <1>2, <2>2 DEF ProcessRefused, Call, RequestType, TypeOK
  <2> QED
    BY <1>2, <2>1, <2>2, <2>3 DEF TypeOK, ProcessRefused, chanVars
<1>3. ASSUME NEW c \in Address, NEW id \in ChannelId, NEW type \in RequestType,
             Process(c, id, type)
      PROVE TypeOK'
  <2>1. sent' \in [Address -> Nat] /\ inflight' \subseteq Address
    BY <1>3, HandlerType DEF Process
  <2>2. call' \in Call
    BY <1>3, <2>1 DEF Process, Call
  <2> QED
    BY <1>3, <2>1, <2>2 DEF TypeOK, Process, chanVars
<1>4. CASE NewMessage
  <2>1. call \in Call /\ call.channel # NoChannel
    BY <1>4 DEF NewMessage, Refusing, TypeOK
  <2>2. /\ join' \in [ChannelId -> Seq(Address)]
        /\ leave' \in [ChannelId -> Seq(Address)]
        /\ incoming' \in [ChannelId -> Seq(Blob)]
    BY <1>4, <2>1, EnqueueType DEF NewMessage, Refusing
  <2> QED
    BY <1>4, <2>2 DEF NewMessage, TypeOK, connVars, stopVars, Refusing
<1>5. ASSUME NEW id \in ChannelId, ChannelJoin(id) PROVE TypeOK'
  <2>1. Head(join[id]) \in Address /\ Tail(join[id]) \in Seq(Address)
    BY <1>5 DEF ChannelJoin, TypeOK, ChannelSend
  <2>2. out' \in [Address -> Seq(Message)]
    BY <1>5, <2>1, SendType, MessageTypes DEF ChannelJoin, TypeOK, ChannelSend
  <2> QED
    BY <1>5, <2>1, <2>2 DEF ChannelJoin, TypeOK, stopVars, ChannelSend
<1>6. ASSUME NEW id \in ChannelId, ChannelLeave(id) PROVE TypeOK'
  BY <1>6, SMTT(30) DEF ChannelLeave, TypeOK, connVars, stopVars
<1>7. ASSUME NEW id \in ChannelId, ChannelIncoming(id) PROVE TypeOK'
  <2>1. Head(incoming[id]) \in Blob /\ Tail(incoming[id]) \in Seq(Blob)
    BY <1>7 DEF ChannelIncoming, TypeOK
  <2>2. Recipients(id, Head(incoming[id])) \subseteq Address
    BY DEF Recipients, TypeOK
  <2> QED
    BY <1>7, <2>1, <2>2, ZenonT(60) DEF ChannelIncoming, TypeOK, connVars, stopVars
<1>8. ASSUME NEW id \in ChannelId, NEW c \in Address, ChannelBroadcast(id, c) PROVE TypeOK'
  <2>1. out' \in [Address -> Seq(Message)]
    BY <1>8, SendType, MessageTypes DEF ChannelBroadcast, TypeOK, ChannelSend
  <2> QED
    BY <1>8, <2>1 DEF ChannelBroadcast, TypeOK, stopVars, ChannelSend
<1>9. ASSUME NEW id \in ChannelId, DeleteChannel(id) PROVE TypeOK'
  BY <1>9 DEF DeleteChannel, Unregister, TypeOK, connVars, stopVars
<1>10. ASSUME NEW id \in ChannelId, ChannelFinished(id) PROVE TypeOK'
  BY <1>10 DEF ChannelFinished, TypeOK, chanVars, connVars, stopVars
<1>11. ASSUME NEW c \in Address, ConnDown(c) PROVE TypeOK'
  BY <1>11 DEF ConnDown, TypeOK, chanVars, stopVars
<1>15. ASSUME NEW c \in Address, Stall(c) \/ ReadsAgain(c) PROVE TypeOK'
  BY <1>15 DEF Stall, ReadsAgain, TypeOK, chanVars, stopVars
<1>16. ASSUME NEW id \in ChannelId, SendReturns(id) PROVE TypeOK'
  BY <1>16 DEF SendReturns, TypeOK, connVars, stopVars
<1>17. CASE RefusalReturns
  BY <1>17 DEF RefusalReturns, TypeOK, chanVars, connVars, stopVars
<1>12. CASE StopRouter
  BY <1>12 DEF StopRouter, TypeOK, chanVars, connVars
<1>13. CASE StopChannels
  BY <1>13 DEF StopChannels, ToStop, TypeOK, connVars
<1>14. CASE UNCHANGED vars
  BY <1>14 DEF vars, TypeOK, chanVars, connVars, stopVars
<1> QED
  BY <1>1, <1>2, <1>3, <1>4, <1>5, <1>6, <1>7, <1>8, <1>9, <1>10, <1>11, <1>12, <1>13,
     <1>14, <1>15, <1>16, <1>17 DEF Next, Handler, ChannelStep

\* The relay's state keeps its types for ever.
THEOREM TypeCorrect == Spec => []TypeOK
  BY TypeInit, TypeNext, PTL DEF Spec

-----------------------------------------------------------------------------
(***************************************************************************)
(* The registry.                                                           *)
(***************************************************************************)

\* Registration and goroutine of a channel go together: newChannel and
\* deleteChannel change both, under channelsMut.
THEOREM RegistrationCorrect == Spec => []RoutineRegistered
<1>1. Init => RoutineRegistered
  BY DEF Init, RoutineRegistered, Refusing
<1>2. TypeOK /\ RoutineRegistered /\ [Next]_vars => RoutineRegistered'
  <2> SUFFICES ASSUME TypeOK, RoutineRegistered, [Next]_vars PROVE RoutineRegistered'
    OBVIOUS
  <2> USE DEF RoutineRegistered, Refusing
  <2>1. ASSUME NEW c \in Address, ProcessWithoutId(c) PROVE RoutineRegistered'
    BY <2>1 DEF ProcessWithoutId, chanVars
  <2>2. ASSUME NEW c \in Address, NEW id \in ChannelId, ProcessRefused(c, id)
        PROVE RoutineRegistered'
    BY <2>2 DEF ProcessRefused, chanVars
  <2>3. ASSUME NEW c \in Address, NEW id \in ChannelId, NEW type \in RequestType,
               Process(c, id, type)
        PROVE RoutineRegistered'
    BY <2>3 DEF Process, TypeOK, chanVars
  <2>4. CASE NewMessage
    BY <2>4 DEF NewMessage, Refusing
  <2>5. ASSUME NEW id \in ChannelId, ChannelJoin(id) PROVE RoutineRegistered'
    BY <2>5 DEF ChannelJoin, ChannelSend
  <2>6. ASSUME NEW id \in ChannelId, ChannelLeave(id) PROVE RoutineRegistered'
    BY <2>6 DEF ChannelLeave, TypeOK
  <2>7. ASSUME NEW id \in ChannelId, ChannelIncoming(id) PROVE RoutineRegistered'
    BY <2>7 DEF ChannelIncoming, TypeOK
  <2>8. ASSUME NEW id \in ChannelId, NEW c \in Address, ChannelBroadcast(id, c)
        PROVE RoutineRegistered'
    BY <2>8 DEF ChannelBroadcast, TypeOK, ChannelSend
  <2>9. ASSUME NEW id \in ChannelId, DeleteChannel(id) PROVE RoutineRegistered'
    BY <2>9 DEF DeleteChannel, Unregister, TypeOK
  <2>10. ASSUME NEW id \in ChannelId, ChannelFinished(id) PROVE RoutineRegistered'
    BY <2>10 DEF ChannelFinished, TypeOK, chanVars
  <2>11. ASSUME NEW c \in Address, ConnDown(c) PROVE RoutineRegistered'
    BY <2>11 DEF ConnDown, chanVars
  <2>12. CASE StopRouter
    BY <2>12 DEF StopRouter, chanVars
  <2>13. CASE StopChannels
    BY <2>13 DEF StopChannels, TypeOK
  <2>14. CASE UNCHANGED vars
    BY <2>14 DEF vars, chanVars
  <2>15. ASSUME NEW c \in Address, Stall(c) \/ ReadsAgain(c) PROVE RoutineRegistered'
    BY <2>15 DEF Stall, ReadsAgain, chanVars
  <2>16. ASSUME NEW id \in ChannelId, SendReturns(id) PROVE RoutineRegistered'
    BY <2>16 DEF SendReturns
  <2>17. CASE RefusalReturns
    BY <2>17 DEF RefusalReturns, chanVars
  <2> QED
    BY <2>1, <2>2, <2>3, <2>4, <2>5, <2>6, <2>7, <2>8, <2>9, <2>10, <2>11, <2>12, <2>13,
       <2>14, <2>15, <2>16, <2>17 DEF Next, Handler, ChannelStep
<1> QED
  BY <1>1, <1>2, TypeCorrect, PTL DEF Spec

OneMoreChannel == Cardinality(channels) <= MaxChannel + 1

\* What the registry is really bounded by: Process tests len > MaxChannel before it
\* adds a channel, so one more than MaxChannel gets in, and no interleaving of Process
\* calls and deletions brings in another.
THEOREM RegistryBound == Spec => []OneMoreChannel
<1>1. Init => OneMoreChannel
  BY FS_EmptySet, ConstantsAssumption DEF Init, OneMoreChannel
<1>2. TypeOK /\ OneMoreChannel /\ [Next]_vars => OneMoreChannel'
  <2> SUFFICES ASSUME TypeOK, OneMoreChannel, [Next]_vars PROVE OneMoreChannel'
    OBVIOUS
  <2> USE DEF OneMoreChannel
  <2>1. IsFiniteSet(channels) /\ Cardinality(channels) \in Nat /\ MaxChannel \in Nat
    BY FS_Subset, FS_CardinalityType, ConstantsAssumption DEF TypeOK
  <2>2. ASSUME NEW c \in Address, NEW id \in ChannelId, NEW type \in RequestType,
               Process(c, id, type)
        PROVE OneMoreChannel'
    <3>1. CASE id \in channels
      <4>1. channels' = channels
        BY <2>2, <3>1 DEF Process
      <4> QED
        BY <4>1
    <3>2. CASE id \notin channels
      <4>1. channels' = channels \cup {id} /\ Cardinality(channels) <= MaxChannel
        BY <2>1, <2>2, <3>2 DEF Process, TooManyChannels
      <4>2. Cardinality(channels') = Cardinality(channels) + 1
        BY <2>1, <3>2, <4>1, FS_AddElement
      <4> QED
        BY <2>1, <4>1, <4>2
    <3> QED
      BY <3>1, <3>2
  <2>3. ASSUME NEW id \in ChannelId, DeleteChannel(id) PROVE OneMoreChannel'
    <3>1. channels' \subseteq channels
      BY <2>3 DEF DeleteChannel, Unregister
    <3>2. Cardinality(channels') \in Nat /\ Cardinality(channels') <= Cardinality(channels)
      BY <2>1, <3>1, FS_Subset, FS_CardinalityType
    <3> QED
      BY <2>1, <3>2
  <2>4. CASE UNCHANGED channels
    BY <2>4
  <2> QED
    BY <2>2, <2>3, <2>4 DEF Next, Handler, ChannelStep, ProcessWithoutId, ProcessRefused,
       NewMessage, ChannelJoin, ChannelLeave, ChannelIncoming, ChannelBroadcast,
       ChannelFinished, SendReturns, ConnDown, Stall, ReadsAgain, RefusalReturns, StopRouter,
       StopChannels, vars, ChannelSend, Refusing
<1> QED
  BY <1>1, <1>2, TypeCorrect, PTL DEF Spec

ClientsBounded == \A id \in ChannelId : Cardinality(clients[id]) <= ChannelSize

\* addClient never lets more than ChannelSize clients into a channel.
THEOREM ClientsBound == Spec => []ClientsBounded
<1>1. Init => ClientsBounded
  BY FS_EmptySet, ConstantsAssumption DEF Init, ClientsBounded
<1>2. TypeOK /\ ClientsBounded /\ [Next]_vars => ClientsBounded'
  <2> SUFFICES ASSUME TypeOK, ClientsBounded, [Next]_vars, NEW k \in ChannelId
               PROVE Cardinality(clients'[k]) <= ChannelSize
    BY DEF ClientsBounded
  <2>1. /\ IsFiniteSet(clients[k]) /\ Cardinality(clients[k]) \in Nat
        /\ ChannelSize \in Nat /\ Cardinality(clients[k]) <= ChannelSize
    BY FS_Subset, FS_CardinalityType, ConstantsAssumption DEF TypeOK, ClientsBounded
  <2>2. ASSUME NEW id \in ChannelId, ChannelJoin(id), clients'[k] # clients[k]
        PROVE Cardinality(clients'[k]) <= ChannelSize
    <3> DEFINE c == Head(join[id])
    <3>1. /\ clients'[k] = clients[k] \cup {c} /\ c \notin clients[k]
          /\ Cardinality(clients[k]) < ChannelSize
      BY <2>2 DEF ChannelJoin, Accepts, TypeOK, ChannelSend
    <3>2. Cardinality(clients'[k]) = Cardinality(clients[k]) + 1
      BY <2>1, <3>1, FS_AddElement
    <3> QED
      BY <2>1, <3>1, <3>2
  <2>3. ASSUME NEW id \in ChannelId, ChannelLeave(id)
        PROVE Cardinality(clients'[k]) <= ChannelSize
    <3>1. clients'[k] \subseteq clients[k]
      BY <2>3 DEF ChannelLeave, TypeOK
    <3>2. /\ Cardinality(clients'[k]) \in Nat
          /\ Cardinality(clients'[k]) <= Cardinality(clients[k])
      BY <2>1, <3>1, FS_Subset, FS_CardinalityType
    <3> QED
      BY <2>1, <3>2
  <2>4. CASE clients'[k] = clients[k]
    BY <2>1, <2>4
  <2> QED
    BY <2>2, <2>3, <2>4 DEF Next, Handler, ChannelStep, ProcessWithoutId, ProcessRefused,
       Process, NewMessage, ChannelIncoming, ChannelBroadcast, DeleteChannel, ChannelFinished,
       SendReturns, ConnDown, Stall, ReadsAgain, RefusalReturns, StopRouter, StopChannels,
       vars, chanVars, ChannelSend, Refusing
<1> QED
  BY <1>1, <1>2, TypeCorrect, PTL DEF Spec

-----------------------------------------------------------------------------
(***************************************************************************)
(* What a client receives.  EgressAfterJoin is not inductive by itself: it *)
(* needs that a client of a channel has its JOIN_OK, and that the          *)
(* broadcast loop only has clients of the channel left to serve.           *)
(***************************************************************************)

HasJoined(c, id) == \E j \in DOMAIN out[c] : out[c][j] = Response("JOIN_OK", id)

ClientsJoined == \A id \in ChannelId : \A c \in clients[id] :
  HasJoined(c, id) \/ ~Reachable(c)

TodoAreClients == \A id \in ChannelId : routine[id] = "broadcast" =>
  \A c \in todo[id] : c \in clients[id] /\ c # current[id].from

JoinInv == ClientsJoined /\ TodoAreClients /\ EgressAfterJoin

\* What router.Send does to the connection of any client.
LEMMA SendGrows ==
  ASSUME TypeOK, NEW c \in Address, NEW m, Send(c, m), NEW d \in Address
  PROVE  out'[d] = IF d = c /\ Reachable(c) THEN Append(out[d], m) ELSE out[d]
  BY DEF Send, TypeOK

\* A sequence that a message may be appended to keeps its elements.
LEMMA AppendKeeps ==
  ASSUME NEW s \in Seq(Message), NEW m \in Message
  PROVE  /\ Append(s, m) \in Seq(Message)
         /\ Len(Append(s, m)) = Len(s) + 1
         /\ DOMAIN Append(s, m) = 1..(Len(s) + 1) /\ DOMAIN s = 1..Len(s)
         /\ \A i \in DOMAIN s : Append(s, m)[i] = s[i]
         /\ Append(s, m)[Len(s) + 1] = m
  OBVIOUS

\* In every step nothing makes an unreachable client reachable again, and each
\* connection is left alone, or a message that is not an EGRESS is appended, or
\* it is ChannelBroadcast that appends.
LEMMA ConnectionSteps ==
  ASSUME TypeOK, [Next]_vars, NEW d \in Address
  PROVE  /\ Reachable(d)' => Reachable(d)
         /\ \/ out'[d] = out[d]
            \/ \E m \in Message : m.type # "EGRESS" /\ out'[d] = Append(out[d], m)
            \/ \E id \in ChannelId : /\ ChannelBroadcast(id, d)
                                     /\ Reachable(d)
                                     /\ out'[d] = Append(out[d], Egress(id, current[id]))
<1>1. CASE UNCHANGED vars
  BY <1>1 DEF vars, connVars, stopVars, Reachable
<1>2. ASSUME NEW c \in Address, Handler(c) PROVE UNCHANGED <<up, stopping>>
  BY <1>2 DEF Handler, ProcessWithoutId, ProcessRefused, Process
<1>3. ASSUME NEW c \in Address, NEW id \in ChannelId, ProcessRefused(c, id)
      PROVE  out'[d] = out[d] \/ \E m \in Message : m.type # "EGRESS" /\ out'[d] = Append(out[d], m)
  <2>1. Send(c, Response("JOIN_FAILURE", NoChannel))
    BY <1>3 DEF ProcessRefused
  <2>2. Response("JOIN_FAILURE", NoChannel) \in Message
    BY MessageTypes
  <2>3. Response("JOIN_FAILURE", NoChannel).type # "EGRESS"
    BY DEF Response
  <2> QED
    BY <2>1, <2>2, <2>3, SendGrows
<1>4. ASSUME NEW id \in ChannelId, ChannelJoin(id)
      PROVE  out'[d] = out[d] \/ \E m \in Message : m.type # "EGRESS" /\ out'[d] = Append(out[d], m)
  <2> DEFINE c == Head(join[id])
             s == IF Accepts(id, c) THEN "JOIN_OK" ELSE "JOIN_FAILURE"
  <2>1. c \in Address /\ Send(c, Response(s, id))
    BY <1>4 DEF ChannelJoin, TypeOK, ChannelSend
  <2>2. Response(s, id) \in Message /\ Response(s, id).type # "EGRESS"
    BY DEF Response, Message
  <2> QED
    BY <2>1, <2>2, SendGrows
<1>5. ASSUME NEW id \in ChannelId, NEW c \in Address, ChannelBroadcast(id, c)
      PROVE  \/ out'[d] = out[d]
             \/ c = d /\ Reachable(d) /\ out'[d] = Append(out[d], Egress(id, current[id]))
  BY <1>5, SendGrows DEF ChannelBroadcast, ChannelSend
<1>6. ASSUME NEW id \in ChannelId, ChannelStep(id) PROVE UNCHANGED <<up, stopping>>
  BY <1>6 DEF ChannelStep, ChannelJoin, ChannelLeave, ChannelIncoming, ChannelBroadcast,
     DeleteChannel, ChannelFinished, SendReturns, connVars, stopVars, ChannelSend
<1>7. Reachable(d)' => Reachable(d)
  <2>1. ASSUME NEW c \in Address, ConnDown(c) PROVE Reachable(d)' => Reachable(d)
    BY <2>1 DEF ConnDown, stopVars, Reachable, TypeOK
  <2> QED
    BY <1>1, <1>2, <1>6, <2>1 DEF Next, Reachable, NewMessage, RefusalReturns, Stall,
       ReadsAgain, StopRouter, StopChannels, connVars, stopVars
<1>8. \/ UNCHANGED out
      \/ \E c \in Address, id \in ChannelId : ProcessRefused(c, id)
      \/ \E id \in ChannelId : ChannelJoin(id)
      \/ \E id \in ChannelId, c \in Address : ChannelBroadcast(id, c)
  BY <1>1 DEF Next, Handler, ChannelStep, ProcessWithoutId, Process, NewMessage, ChannelLeave,
     ChannelIncoming, DeleteChannel, ChannelFinished, SendReturns, ConnDown, Stall,
     ReadsAgain, RefusalReturns, StopRouter, StopChannels, connVars, vars, Refusing
<1> QED
  BY <1>3, <1>4, <1>5, <1>7, <1>8

\* The membership of a channel and the broadcast in progress only change in the
\* steps of its own goroutine.
LEMMA OthersSteps ==
  ASSUME TypeOK, RoutineRegistered, [Next]_vars, NEW k \in ChannelId, ~ChannelStep(k)
  PROVE  /\ clients'[k] = clients[k] /\ current'[k] = current[k] /\ todo'[k] = todo[k]
         /\ routine'[k] = "broadcast" <=> routine[k] = "broadcast"
<1>1. ASSUME NEW c \in Address, Handler(c)
      PROVE /\ clients'[k] = clients[k] /\ current'[k] = current[k] /\ todo'[k] = todo[k]
            /\ routine'[k] = "broadcast" <=> routine[k] = "broadcast"
  BY <1>1 DEF Handler, ProcessWithoutId, ProcessRefused, Process, chanVars, TypeOK,
     RoutineRegistered, Refusing
<1>2. ASSUME NEW id \in ChannelId, id # k, ChannelStep(id)
      PROVE /\ clients'[k] = clients[k] /\ current'[k] = current[k] /\ todo'[k] = todo[k]
            /\ routine'[k] = routine[k]
  BY <1>2 DEF ChannelStep, ChannelJoin, ChannelLeave, ChannelIncoming, ChannelBroadcast,
     DeleteChannel, ChannelFinished, SendReturns, chanVars, TypeOK, ChannelSend
<1>3. \/ UNCHANGED <<clients, current, todo, routine>>
      \/ \E c \in Address : Handler(c)
      \/ \E id \in ChannelId : id # k /\ ChannelStep(id)
  BY DEF Next, NewMessage, ConnDown, Stall, ReadsAgain, RefusalReturns, StopRouter,
     StopChannels, vars, chanVars, Refusing
<1> QED
  BY <1>1, <1>2, <1>3

\* One step keeps a client's JOIN_OK, or leaves the client unreachable.
LEMMA JoinedStays ==
  ASSUME TypeOK, [Next]_vars, NEW c \in Address, NEW id \in ChannelId,
         HasJoined(c, id) \/ ~Reachable(c)
  PROVE  HasJoined(c, id)' \/ ~Reachable(c)'
<1> SUFFICES ASSUME HasJoined(c, id), Reachable(c) PROVE HasJoined(c, id)'
  BY ConnectionSteps
<1>1. PICK j \in DOMAIN out[c] : out[c][j] = Response("JOIN_OK", id)
  BY DEF HasJoined
<1>2. out[c] \in Seq(Message) /\ \A k \in ChannelId : Egress(k, current[k]) \in Message
  BY MessageTypes DEF TypeOK
<1>3. \/ out'[c] = out[c]
      \/ \E m \in Message : out'[c] = Append(out[c], m)
  BY <1>2, ConnectionSteps
<1>4. j \in DOMAIN out'[c] /\ out'[c][j] = out[c][j]
  BY <1>2, <1>3, AppendKeeps
<1> QED
  BY <1>1, <1>4 DEF HasJoined, Response

\* What makes EgressAfterJoin true is kept by every step.
LEMMA JoinInvNext == TypeOK /\ RoutineRegistered /\ JoinInv /\ [Next]_vars => JoinInv'
<1> SUFFICES ASSUME TypeOK, RoutineRegistered, JoinInv, [Next]_vars PROVE JoinInv'
  OBVIOUS
<1>1. ASSUME NEW id \in ChannelId, NEW c \in clients'[id]
      PROVE  HasJoined(c, id)' \/ ~Reachable(c)'
  <2>1. TypeOK'
    BY TypeNext
  <2>2. c \in Address
    BY <2>1 DEF TypeOK
  <2>3. CASE c \in clients[id]
    BY <2>2, <2>3, JoinedStays DEF JoinInv, ClientsJoined
  <2>4. CASE c \notin clients[id]
    <3>1. ChannelStep(id)
      BY <2>4, OthersSteps
    <3>2. ChannelJoin(id) /\ c = Head(join[id]) /\ Accepts(id, c)
      <4>1. CASE ChannelJoin(id)
        BY <2>4, <4>1 DEF ChannelJoin, TypeOK
      <4>2. CASE ChannelLeave(id)
        BY <2>4, <4>2 DEF ChannelLeave, TypeOK
      <4>3. ChannelJoin(id) \/ ChannelLeave(id)
        BY <2>4, <3>1 DEF ChannelStep, ChannelIncoming, ChannelBroadcast, DeleteChannel,
           ChannelFinished, SendReturns, chanVars
      <4> QED
        BY <2>4, <4>1, <4>2, <4>3
    <3>3. Send(c, Response("JOIN_OK", id)) /\ (Reachable(c)' <=> Reachable(c))
      BY <3>2 DEF ChannelJoin, Reachable, stopVars, ChannelSend
    <3> SUFFICES ASSUME Reachable(c) PROVE HasJoined(c, id)'
      BY <3>3
    <3>4. out'[c] = Append(out[c], Response("JOIN_OK", id))
      BY <2>2, <3>3, SendGrows
    <3>5. out[c] \in Seq(Message) /\ Response("JOIN_OK", id) \in Message
      BY <2>2, MessageTypes DEF TypeOK
    <3>6. /\ Len(out[c]) + 1 \in DOMAIN out'[c]
          /\ out'[c][Len(out[c]) + 1] = Response("JOIN_OK", id)
      BY <3>4, <3>5, AppendKeeps
    <3> QED
      BY <3>6 DEF HasJoined, Response
  <2> QED
    BY <2>3, <2>4
<1>2. ASSUME NEW id \in ChannelId, routine'[id] = "broadcast", NEW c \in todo'[id]
      PROVE  c \in clients'[id] /\ c # current'[id].from
  <2>1. CASE ~ChannelStep(id)
    BY <1>2, <2>1, OthersSteps DEF JoinInv, TodoAreClients
  <2>2. CASE ChannelIncoming(id)
    BY <1>2, <2>2 DEF ChannelIncoming, Recipients, TypeOK
  <2>3. ASSUME NEW d \in Address, ChannelBroadcast(id, d)
        PROVE  c \in clients'[id] /\ c # current'[id].from
    BY <1>2, <2>3 DEF ChannelBroadcast, TypeOK, JoinInv, TodoAreClients, ChannelSend
  <2>4. CASE SendReturns(id)
    BY <1>2, <2>4 DEF SendReturns, JoinInv, TodoAreClients
  <2>5. CASE ChannelJoin(id)
    BY <1>2, <2>5 DEF ChannelJoin, TypeOK
  <2>6. CASE ChannelLeave(id)
    BY <1>2, <2>6 DEF ChannelLeave, TypeOK
  <2>7. CASE DeleteChannel(id) \/ ChannelFinished(id)
    BY <1>2, <2>7 DEF DeleteChannel, ChannelFinished, TypeOK
  <2> QED
    BY <2>1, <2>2, <2>3, <2>4, <2>5, <2>6, <2>7 DEF ChannelStep
<1>3. ASSUME NEW c \in Address, NEW id \in ChannelId, NEW i \in DOMAIN out'[c],
             IsEgress(out'[c][i], id)
      PROVE  /\ out'[c][i].blob.from # c
             /\ \E j \in 1..(i - 1) : out'[c][j] = Response("JOIN_OK", id)
  <2>1. out[c] \in Seq(Message)
    BY DEF TypeOK
  <2>2. CASE i \in DOMAIN out[c] /\ out'[c][i] = out[c][i]
                /\ \A j \in DOMAIN out[c] : out'[c][j] = out[c][j]
    <3>1. PICK j \in 1..(i - 1) : out[c][j] = Response("JOIN_OK", id)
      BY <1>3, <2>2 DEF JoinInv, EgressAfterJoin
    <3>2. j \in DOMAIN out[c]
      BY <2>1, <2>2
    <3> QED
      BY <1>3, <2>2, <3>1, <3>2 DEF JoinInv, EgressAfterJoin
  <2>3. CASE out'[c] = out[c]
    BY <2>2, <2>3
  <2>4. ASSUME NEW m \in Message, m.type # "EGRESS", out'[c] = Append(out[c], m)
        PROVE  i \in DOMAIN out[c] /\ \A j \in DOMAIN out[c] : out'[c][j] = out[c][j]
    <3>1. \A j \in DOMAIN out[c] : out'[c][j] = out[c][j]
      BY <2>1, <2>4, AppendKeeps
    <3>2. i \in 1..(Len(out[c]) + 1) /\ i # Len(out[c]) + 1
      BY <1>3, <2>1, <2>4, AppendKeeps DEF IsEgress
    <3> QED
      BY <2>1, <3>1, <3>2
  <2>5. ASSUME NEW k \in ChannelId, ChannelBroadcast(k, c), Reachable(c),
               out'[c] = Append(out[c], Egress(k, current[k])), i \notin DOMAIN out[c]
        PROVE  /\ out'[c][i].blob.from # c
               /\ \E j \in 1..(i - 1) : out'[c][j] = Response("JOIN_OK", id)
    <3>1. Egress(k, current[k]) \in Message
      BY MessageTypes DEF TypeOK
    <3>2. i = Len(out[c]) + 1 /\ out'[c][i] = Egress(k, current[k])
      BY <2>1, <2>5, <3>1, AppendKeeps
    <3>3. k = id /\ c \in clients[k] /\ c # current[k].from
      <4>1. routine[k] = "broadcast" /\ c \in todo[k]
        BY <2>5 DEF ChannelBroadcast
      <4> QED
        BY <1>3, <3>2, <4>1 DEF IsEgress, Egress, JoinInv, TodoAreClients
    <3>4. PICK j \in DOMAIN out[c] : out[c][j] = Response("JOIN_OK", id)
      BY <2>5, <3>3 DEF JoinInv, ClientsJoined, HasJoined
    <3>5. j \in 1..(i - 1) /\ out'[c][j] = out[c][j]
      BY <2>1, <2>5, <3>1, <3>2, AppendKeeps
    <3> QED
      BY <3>2, <3>3, <3>4, <3>5 DEF Egress
  <2>6. ASSUME NEW k \in ChannelId, out'[c] = Append(out[c], Egress(k, current[k]))
        PROVE  \A j \in DOMAIN out[c] : out'[c][j] = out[c][j]
    <3>1. Egress(k, current[k]) \in Message
      BY MessageTypes DEF TypeOK
    <3> QED
      BY <2>1, <2>6, <3>1, AppendKeeps
  <2> QED
    BY <2>2, <2>3, <2>4, <2>5, <2>6, ConnectionSteps
<1> QED
  BY <1>1, <1>2, <1>3 DEF JoinInv, ClientsJoined, TodoAreClients, EgressAfterJoin,
     HasJoined, Reachable, Response

\* No client receives a message of a channel that has not accepted it, nor its
\* own messages, however JOIN, LEAVE and INGRESS overtake each other.
THEOREM EgressCorrect == Spec => []EgressAfterJoin
<1>1. Init => JoinInv
  BY DEF Init, JoinInv, ClientsJoined, TodoAreClients, EgressAfterJoin
<1>2. JoinInv => EgressAfterJoin
  BY DEF JoinInv
<1> QED
  BY <1>1, <1>2, JoinInvNext, TypeCorrect, RegistrationCorrect, PTL DEF Spec

-----------------------------------------------------------------------------
(***************************************************************************)
(* Order.  A payload travels from the handler (call) through the queue     *)
(* incoming and the broadcast loop (current, todo) to the connections.     *)
(* At each station the payloads of one sender are newer than those further *)
(* on, and those of the queue are sorted.                                  *)
(***************************************************************************)

SameSender(b, d) == b.from = d.from

\* b was read before the payload that the pending call carries.
Older(b) ==
  /\ b.n <= sent[b.from]
  /\ call # NoCall /\ call.from = b.from => b.n < call.n

CallFresh == call # NoCall => call.n = sent[call.from]

OutOlder == \A c \in Address : \A i \in DOMAIN out[c] :
  out[c][i].type = "EGRESS" => out[c][i].blob \in Blob /\ Older(out[c][i].blob)

IncomingOlder == \A id \in ChannelId : \A j \in DOMAIN incoming[id] : Older(incoming[id][j])

IncomingSorted == \A id \in ChannelId : \A j, k \in DOMAIN incoming[id] :
  j < k /\ SameSender(incoming[id][j], incoming[id][k]) => incoming[id][j].n < incoming[id][k].n

CurrentOlder == \A id \in ChannelId : routine[id] = "broadcast" =>
  /\ current[id] \in Blob /\ Older(current[id])
  /\ \A j \in DOMAIN incoming[id] :
       SameSender(current[id], incoming[id][j]) => current[id].n < incoming[id][j].n

OutBeforeIncoming == \A c \in Address, id \in ChannelId :
  \A i \in DOMAIN out[c], j \in DOMAIN incoming[id] :
    IsEgress(out[c][i], id) /\ SameSender(out[c][i].blob, incoming[id][j])
      => out[c][i].blob.n < incoming[id][j].n

OutBeforeCurrent == \A id \in ChannelId : routine[id] = "broadcast" =>
  \A c \in todo[id] : \A i \in DOMAIN out[c] :
    IsEgress(out[c][i], id) /\ SameSender(out[c][i].blob, current[id])
      => out[c][i].blob.n < current[id].n

OrderInv ==
  /\ CallFresh /\ OutOlder /\ IncomingOlder /\ IncomingSorted /\ CurrentOlder
  /\ OutBeforeIncoming /\ OutBeforeCurrent /\ SenderOrder

\* A call carries the rank of the last message read from its client.
LEMMA CallFreshNext ==
  ASSUME TypeOK, CallFresh, [Next]_vars
  PROVE  CallFresh'
<1>1. ASSUME NEW c \in Address, Handler(c) PROVE CallFresh'
  BY <1>1 DEF Handler, ProcessWithoutId, ProcessRefused, Process, HandlerReads, CallFresh
<1>2. CASE NewMessage \/ RefusalReturns
  BY <1>2 DEF NewMessage, RefusalReturns, CallFresh
<1>3. CASE UNCHANGED <<call, sent>>
  BY <1>3 DEF CallFresh
<1> QED
  BY <1>1, <1>2, <1>3 DEF Next, ChannelStep, ChannelJoin, ChannelLeave, ChannelIncoming,
     ChannelBroadcast, DeleteChannel, ChannelFinished, SendReturns, ConnDown, Stall,
     ReadsAgain, RefusalReturns, StopRouter, StopChannels, vars, connVars, ChannelSend

\* A payload older than the pending call is older than any later one.
LEMMA OlderStays ==
  ASSUME TypeOK, CallFresh, [Next]_vars, NEW b \in Blob, Older(b)
  PROVE  Older(b)'
<1>1. ASSUME NEW c \in Address, Handler(c) PROVE Older(b)'
  <2>1. call = NoCall /\ sent' = [sent EXCEPT ![c] = @ + 1]
    BY <1>1 DEF Handler, ProcessWithoutId, ProcessRefused, Process, HandlerReads
  <2>2. call' = call \/ (call'.from = c /\ call'.n = sent'[c])
    BY <1>1 DEF Handler, ProcessWithoutId, ProcessRefused, Process
  <2> QED
    BY <2>1, <2>2 DEF Older, Blob, TypeOK
<1>2. CASE NewMessage \/ RefusalReturns
  BY <1>2 DEF NewMessage, RefusalReturns, Older, connVars
<1>3. CASE UNCHANGED <<call, sent>>
  BY <1>3 DEF Older
<1> QED
  BY <1>1, <1>2, <1>3 DEF Next, ChannelStep, ChannelJoin, ChannelLeave, ChannelIncoming,
     ChannelBroadcast, DeleteChannel, ChannelFinished, SendReturns, ConnDown, Stall,
     ReadsAgain, RefusalReturns, StopRouter, StopChannels, vars, connVars, ChannelSend

Carried == [from |-> call.from, n |-> call.n]

QueuesCall(k) ==
  /\ NewMessage /\ call \in Call /\ call.channel = k
  /\ incoming'[k] = Append(incoming[k], Carried)

\* What a step does to the queue of payloads of a channel.
LEMMA QueueSteps ==
  ASSUME TypeOK, [Next]_vars, NEW k \in ChannelId
  PROVE  \/ incoming'[k] = incoming[k]
         \/ QueuesCall(k)
         \/ ChannelIncoming(k) /\ incoming[k] # <<>> /\ incoming'[k] = Tail(incoming[k])
         \/ incoming'[k] = <<>>
<1>1. CASE NewMessage
  <2>1. call \in Call
    BY <1>1 DEF NewMessage, TypeOK, Refusing
  <2>2. \/ UNCHANGED incoming
        \/ incoming' = [incoming EXCEPT ![call.channel] = Append(@, Carried)]
    BY <1>1 DEF NewMessage, EnqueueCall, Enqueue, Carried, Refusing
  <2> QED
    BY <1>1, <2>1, <2>2 DEF QueuesCall, TypeOK
<1>2. ASSUME NEW id \in ChannelId, ChannelIncoming(id)
      PROVE  \/ incoming'[k] = incoming[k]
             \/ id = k /\ incoming[k] # <<>> /\ incoming'[k] = Tail(incoming[k])
  BY <1>2 DEF ChannelIncoming, TypeOK
<1>3. ASSUME NEW id \in ChannelId, DeleteChannel(id)
      PROVE  incoming'[k] = incoming[k] \/ incoming'[k] = <<>>
  BY <1>3 DEF DeleteChannel, TypeOK
<1>4. \/ UNCHANGED incoming
      \/ NewMessage
      \/ \E id \in ChannelId : ChannelIncoming(id) \/ DeleteChannel(id)
  BY DEF Next, Handler, ProcessWithoutId, ProcessRefused, Process, ChannelStep, ChannelJoin,
     ChannelLeave, ChannelBroadcast, ChannelFinished, SendReturns, ConnDown, Stall,
     ReadsAgain, RefusalReturns, StopRouter, StopChannels, vars, chanVars, ChannelSend
<1> QED
  BY <1>1, <1>2, <1>3, <1>4

\* Every payload of the queue was there before the step or is the one that the
\* pending call carries.
LEMMA QueueElements ==
  ASSUME TypeOK, [Next]_vars, NEW k \in ChannelId, NEW j \in DOMAIN incoming'[k]
  PROVE  \/ \E i \in DOMAIN incoming[k] : incoming'[k][j] = incoming[k][i]
         \/ QueuesCall(k) /\ incoming'[k][j] = Carried
<1>1. incoming[k] \in Seq(Blob)
  BY DEF TypeOK
<1>2. CASE QueuesCall(k)
  <2>1. Carried \in Blob /\ incoming'[k] = Append(incoming[k], Carried)
    BY <1>2 DEF QueuesCall, Carried, Call, Blob
  <2> QED
    BY <1>1, <1>2, <2>1
<1>3. CASE incoming[k] # <<>> /\ incoming'[k] = Tail(incoming[k])
  <2>1. j + 1 \in DOMAIN incoming[k] /\ incoming'[k][j] = incoming[k][j + 1]
    BY <1>1, <1>3
  <2> QED
    BY <2>1
<1> QED
  BY <1>2, <1>3, QueueSteps

\* Every EGRESS of a connection was there before the step, at the same place,
\* or is the last one and has just been written by the broadcast loop.
LEMMA OutElements ==
  ASSUME TypeOK, [Next]_vars, NEW c \in Address, NEW i \in DOMAIN out'[c],
         out'[c][i].type = "EGRESS"
  PROVE  \/ i \in DOMAIN out[c] /\ out'[c][i] = out[c][i]
         \/ \E id \in ChannelId : /\ ChannelBroadcast(id, c)
                                  /\ out'[c][i] = Egress(id, current[id])
                                  /\ i = Len(out[c]) + 1
<1>1. out[c] \in Seq(Message) /\ \A id \in ChannelId : Egress(id, current[id]) \in Message
  BY MessageTypes DEF TypeOK
<1>2. ASSUME NEW m \in Message, m.type # "EGRESS", out'[c] = Append(out[c], m)
      PROVE  i \in DOMAIN out[c] /\ out'[c][i] = out[c][i]
  BY <1>1, <1>2, AppendKeeps
<1>3. ASSUME NEW id \in ChannelId, out'[c] = Append(out[c], Egress(id, current[id]))
      PROVE  \/ i \in DOMAIN out[c] /\ out'[c][i] = out[c][i]
             \/ i = Len(out[c]) + 1 /\ out'[c][i] = Egress(id, current[id])
  BY <1>1, <1>3, AppendKeeps
<1> QED
  BY <1>2, <1>3, ConnectionSteps

\* What makes SenderOrder true is kept by every step.
LEMMA OrderInvNext == TypeOK /\ RoutineRegistered /\ OrderInv /\ [Next]_vars => OrderInv'
<1> SUFFICES ASSUME TypeOK, RoutineRegistered, OrderInv, [Next]_vars PROVE OrderInv'
  OBVIOUS
<1> USE DEF SameSender
<1>1. CallFresh'
  BY CallFreshNext DEF OrderInv
<1>2. ASSUME NEW b \in Blob, Older(b) PROVE Older(b)'
  BY <1>2, OlderStays DEF OrderInv
<1>3. ASSUME NEW k \in ChannelId, QueuesCall(k)
      PROVE  /\ \E b \in Blob : b = Carried /\ Older(b)'
             /\ \A b \in Blob : Older(b) /\ SameSender(b, Carried) => b.n < Carried.n
  BY <1>3 DEF QueuesCall, Carried, Older, OrderInv, CallFresh, Blob, Call, TypeOK,
     NewMessage, connVars, Refusing
<1>4. ASSUME NEW k \in ChannelId, NEW j \in DOMAIN incoming[k]
      PROVE  incoming[k][j] \in Blob /\ Older(incoming[k][j])
  BY DEF OrderInv, IncomingOlder, TypeOK
<1>5. ASSUME NEW k \in ChannelId, NEW c \in Address, ChannelBroadcast(k, c)
      PROVE  /\ routine[k] = "broadcast" /\ c \in todo[k]
             /\ current[k] \in Blob /\ Older(current[k])
             /\ Egress(k, current[k]).blob = current[k] /\ UNCHANGED incoming
  BY <1>5 DEF ChannelBroadcast, OrderInv, CurrentOlder, Egress, ChannelSend
<1>6. OutOlder'
  <2> SUFFICES ASSUME NEW c \in Address, NEW i \in DOMAIN out'[c], out'[c][i].type = "EGRESS"
               PROVE  \E b \in Blob : b = out'[c][i].blob /\ Older(b)'
    BY DEF OutOlder, Older
  <2>1. CASE i \in DOMAIN out[c] /\ out'[c][i] = out[c][i]
    BY <1>2, <2>1 DEF OrderInv, OutOlder
  <2>2. ASSUME NEW k \in ChannelId, ChannelBroadcast(k, c), out'[c][i] = Egress(k, current[k])
        PROVE  \E b \in Blob : b = out'[c][i].blob /\ Older(b)'
    BY <1>2, <1>5, <2>2
  <2> QED
    BY <2>1, <2>2, OutElements
<1>7. IncomingOlder'
  <2> SUFFICES ASSUME NEW k \in ChannelId, NEW j \in DOMAIN incoming'[k]
               PROVE  \E b \in Blob : b = incoming'[k][j] /\ Older(b)'
    BY DEF IncomingOlder, Older
  <2> QED
    BY <1>2, <1>3, <1>4, QueueElements
<1>8. IncomingSorted'
  <2> SUFFICES ASSUME NEW k \in ChannelId, NEW j \in DOMAIN incoming'[k],
                      NEW l \in DOMAIN incoming'[k], j < l,
                      SameSender(incoming'[k][j], incoming'[k][l])
               PROVE  incoming'[k][j].n < incoming'[k][l].n
    BY DEF IncomingSorted
  <2>1. incoming[k] \in Seq(Blob)
    BY DEF TypeOK
  <2>2. CASE incoming'[k] = incoming[k]
    BY <2>2 DEF OrderInv, IncomingSorted
  <2>3. CASE QueuesCall(k)
    <3>1. incoming'[k] = Append(incoming[k], Carried) /\ Carried \in Blob
      BY <1>3, <2>3 DEF QueuesCall
    <3>2. j \in DOMAIN incoming[k] /\ incoming'[k][j] = incoming[k][j]
      BY <2>1, <3>1
    <3>3. CASE l \in DOMAIN incoming[k]
      <4>1. incoming'[k][l] = incoming[k][l]
        BY <2>1, <3>1, <3>3
      <4> QED
        BY <3>2, <3>3, <4>1 DEF OrderInv, IncomingSorted
    <3>4. CASE incoming'[k][l] = Carried
      BY <1>3, <1>4, <2>3, <3>2, <3>4
    <3> QED
      BY <2>1, <3>1, <3>3, <3>4
  <2>4. CASE incoming[k] # <<>> /\ incoming'[k] = Tail(incoming[k])
    <3>1. /\ j + 1 \in DOMAIN incoming[k] /\ incoming'[k][j] = incoming[k][j + 1]
          /\ l + 1 \in DOMAIN incoming[k] /\ incoming'[k][l] = incoming[k][l + 1]
          /\ j + 1 < l + 1
      BY <2>1, <2>4
    <3> QED
      BY <3>1 DEF OrderInv, IncomingSorted
  <2>5. CASE incoming'[k] = <<>>
    BY <2>5
  <2> QED
    BY <2>2, <2>3, <2>4, <2>5, QueueSteps
<1>9. CurrentOlder'
  <2> SUFFICES ASSUME NEW k \in ChannelId, routine'[k] = "broadcast"
               PROVE  /\ \E b \in Blob : b = current'[k] /\ Older(b)'
                      /\ \A j \in DOMAIN incoming'[k] :
                           SameSender(current'[k], incoming'[k][j])
                             => current'[k].n < incoming'[k][j].n
    BY DEF CurrentOlder, Older
  <2>1. CASE ChannelIncoming(k)
    <3> DEFINE b == Head(incoming[k])
    <3>1. incoming[k] \in Seq(Blob) /\ incoming[k] # <<>>
      BY <2>1 DEF TypeOK, ChannelIncoming
    <3>2. current'[k] = b /\ incoming'[k] = Tail(incoming[k])
      BY <2>1 DEF ChannelIncoming, TypeOK
    <3>3. 1 \in DOMAIN incoming[k] /\ b = incoming[k][1]
      BY <3>1
    <3>4. \E d \in Blob : d = b /\ Older(d)'
      BY <1>2, <1>4, <3>3
    <3>5. ASSUME NEW j \in DOMAIN incoming'[k], SameSender(b, incoming'[k][j])
          PROVE  b.n < incoming'[k][j].n
      <4>1. j + 1 \in DOMAIN incoming[k] /\ incoming'[k][j] = incoming[k][j + 1] /\ 1 < j + 1
        BY <3>1, <3>2
      <4> QED
        BY <3>3, <3>5, <4>1 DEF OrderInv, IncomingSorted
    <3> QED
      BY <3>2, <3>4, <3>5
  <2>2. CASE ~ChannelIncoming(k)
    <3>1. routine[k] = "broadcast" /\ current'[k] = current[k]
      BY <2>2, OthersSteps DEF ChannelStep, ChannelJoin, ChannelLeave, ChannelBroadcast,
         DeleteChannel, ChannelFinished, SendReturns, TypeOK, ChannelSend
    <3>2. /\ current[k] \in Blob /\ Older(current[k])
          /\ \A j \in DOMAIN incoming[k] :
               SameSender(current[k], incoming[k][j]) => current[k].n < incoming[k][j].n
      BY <3>1 DEF OrderInv, CurrentOlder
    <3>3. \E b \in Blob : b = current'[k] /\ Older(b)'
      BY <1>2, <3>1, <3>2
    <3>4. ASSUME NEW j \in DOMAIN incoming'[k], SameSender(current[k], incoming'[k][j])
          PROVE  current[k].n < incoming'[k][j].n
      BY <1>3, <3>2, <3>4, QueueElements
    <3> QED
      BY <3>1, <3>2, <3>3, <3>4
  <2> QED
    BY <2>1, <2>2
<1>10. OutBeforeIncoming'
  <2> SUFFICES ASSUME NEW c \in Address, NEW k \in ChannelId, NEW i \in DOMAIN out'[c],
                      NEW j \in DOMAIN incoming'[k], IsEgress(out'[c][i], k),
                      SameSender(out'[c][i].blob, incoming'[k][j])
               PROVE  out'[c][i].blob.n < incoming'[k][j].n
    BY DEF OutBeforeIncoming, IsEgress
  <2>1. CASE i \in DOMAIN out[c] /\ out'[c][i] = out[c][i]
    <3>1. out[c][i].blob \in Blob /\ Older(out[c][i].blob)
      BY <2>1 DEF OrderInv, OutOlder, IsEgress
    <3>2. CASE QueuesCall(k) /\ incoming'[k][j] = Carried
      BY <1>3, <2>1, <3>1, <3>2
    <3>3. ASSUME NEW l \in DOMAIN incoming[k], incoming'[k][j] = incoming[k][l]
          PROVE  out'[c][i].blob.n < incoming'[k][j].n
      BY <2>1, <3>3 DEF OrderInv, OutBeforeIncoming
    <3> QED
      BY <3>2, <3>3, QueueElements
  <2>2. ASSUME NEW id \in ChannelId, ChannelBroadcast(id, c), out'[c][i] = Egress(id, current[id])
        PROVE  out'[c][i].blob.n < incoming'[k][j].n
    <3>1. id = k
      BY <2>2 DEF IsEgress, Egress
    <3> QED
      BY <1>5, <2>2, <3>1 DEF OrderInv, CurrentOlder
  <2> QED
    BY <2>1, <2>2, OutElements DEF IsEgress
<1>11. OutBeforeCurrent'
  <2> SUFFICES ASSUME NEW k \in ChannelId, routine'[k] = "broadcast", NEW c \in todo'[k],
                      NEW i \in DOMAIN out'[c], IsEgress(out'[c][i], k),
                      SameSender(out'[c][i].blob, current'[k])
               PROVE  out'[c][i].blob.n < current'[k].n
    BY DEF OutBeforeCurrent, IsEgress
  <2>1. c \in Address
    BY TypeNext DEF TypeOK
  <2>2. CASE ChannelIncoming(k)
    <3>1. incoming[k] \in Seq(Blob) /\ incoming[k] # <<>>
      BY <2>2 DEF TypeOK, ChannelIncoming
    <3>2. current'[k] = incoming[k][1] /\ 1 \in DOMAIN incoming[k] /\ UNCHANGED out
      BY <2>2, <3>1 DEF ChannelIncoming, TypeOK, connVars
    <3> QED
      BY <2>1, <3>2 DEF OrderInv, OutBeforeIncoming
  <2>3. CASE ~ChannelIncoming(k)
    <3>1. routine[k] = "broadcast" /\ current'[k] = current[k] /\ c \in todo[k]
      <4>1. ASSUME NEW d \in Address, ChannelBroadcast(k, d)
            PROVE routine[k] = "broadcast" /\ current'[k] = current[k] /\ c \in todo[k]
        BY <4>1 DEF ChannelBroadcast, TypeOK, ChannelSend
      <4>2. CASE ~ChannelStep(k)
        BY <4>2, OthersSteps
      <4> QED
        BY <2>3, <4>1, <4>2 DEF ChannelStep, ChannelJoin, ChannelLeave, DeleteChannel,
           ChannelFinished, SendReturns, TypeOK, ChannelSend
    <3>2. ASSUME NEW id \in ChannelId, ChannelBroadcast(id, c) PROVE id # k
      BY <3>2 DEF ChannelBroadcast, TypeOK, ChannelSend
    <3>3. i \in DOMAIN out[c] /\ out'[c][i] = out[c][i]
      <4>1. out'[c][i].type = "EGRESS" /\ out'[c][i].channel = k
        BY DEF IsEgress
      <4>2. ASSUME NEW id \in ChannelId, out'[c][i] = Egress(id, current[id]) PROVE id = k
        BY <4>1, <4>2 DEF Egress
      <4> QED
        BY <2>1, <3>2, <4>1, <4>2, OutElements
    <3> QED
      BY <3>1, <3>3 DEF OrderInv, OutBeforeCurrent
  <2> QED
    BY <2>2, <2>3
<1>12. SenderOrder'
  <2> SUFFICES ASSUME NEW c \in Address, NEW k \in ChannelId, NEW i \in DOMAIN out'[c],
                      NEW j \in DOMAIN out'[c], i < j, IsEgress(out'[c][i], k),
                      IsEgress(out'[c][j], k), out'[c][i].blob.from = out'[c][j].blob.from
               PROVE  out'[c][i].blob.n < out'[c][j].blob.n
    BY DEF SenderOrder, IsEgress
  <2>1. out[c] \in Seq(Message) /\ DOMAIN out'[c] \subseteq Nat
    BY TypeNext, SMTT(30) DEF TypeOK
  <2>2. i \in DOMAIN out[c] /\ out'[c][i] = out[c][i]
    <3>1. out'[c][i].type = "EGRESS" /\ out'[c][j].type = "EGRESS"
      BY DEF IsEgress
    <3>2. j \in DOMAIN out[c] \/ j = Len(out[c]) + 1
      BY <3>1, OutElements
    <3>3. j <= Len(out[c]) + 1 /\ i \in Nat /\ j \in Nat /\ Len(out[c]) \in Nat
      BY <2>1, <3>2
    <3>4. i # Len(out[c]) + 1
      BY <3>3
    <3> QED
      BY <3>1, <3>4, OutElements
  <2>3. CASE j \in DOMAIN out[c] /\ out'[c][j] = out[c][j]
    BY <2>2, <2>3 DEF OrderInv, SenderOrder
  <2>4. ASSUME NEW id \in ChannelId, ChannelBroadcast(id, c), out'[c][j] = Egress(id, current[id])
        PROVE  out'[c][i].blob.n < out'[c][j].blob.n
    <3>1. id = k
      BY <2>4 DEF IsEgress, Egress
    <3> QED
      BY <1>5, <2>2, <2>4, <3>1 DEF OrderInv, OutBeforeCurrent
  <2> QED
    BY <2>3, <2>4, OutElements DEF IsEgress
<1> QED
  BY <1>1, <1>6, <1>7, <1>8, <1>9, <1>10, <1>11, <1>12 DEF OrderInv

\* The relay delivers the messages of one sender on one channel in the order it
\* read them, none of them twice.
THEOREM SenderOrderCorrect == Spec => []SenderOrder
<1>1. Init => OrderInv
  BY DEF Init, OrderInv, CallFresh, OutOlder, IncomingOlder, IncomingSorted, CurrentOlder,
     OutBeforeIncoming, OutBeforeCurrent, SenderOrder
<1>2. OrderInv => SenderOrder
  BY DEF OrderInv
<1> QED
  BY <1>1, <1>2, OrderInvNext, TypeCorrect, RegistrationCorrect, PTL DEF Spec

-----------------------------------------------------------------------------
(***************************************************************************)
(* Order between clients.  ChannelTotalOrder is not inductive by itself: a *)
(* broadcast in progress has reached some clients and not others, and it   *)
(* must be the latest message of the channel wherever it has arrived.      *)
(***************************************************************************)

CurrentIsLatest == \A id \in ChannelId : routine[id] = "broadcast" =>
  \A c \in Address : \A i, j \in DOMAIN out[c] :
    i < j /\ IsEgress(out[c][i], id) /\ IsEgress(out[c][j], id) => out[c][i].blob # current[id]

TotalOrderInv == CurrentIsLatest /\ ChannelTotalOrder

\* Of two messages of a connection that the broadcast loop has written, the
\* earlier was there before the step, and the later too unless the step writes it.
LEMMA TwoEgress ==
  ASSUME TypeOK, [Next]_vars, NEW k \in ChannelId, NEW c \in Address,
         NEW i \in DOMAIN out'[c], NEW j \in DOMAIN out'[c], i < j,
         IsEgress(out'[c][i], k), IsEgress(out'[c][j], k)
  PROVE  /\ i \in DOMAIN out[c] /\ out'[c][i] = out[c][i]
         /\ \/ j \in DOMAIN out[c] /\ out'[c][j] = out[c][j]
            \/ ChannelBroadcast(k, c) /\ out'[c][j].blob = current[k]
<1>1. out[c] \in Seq(Message) /\ out'[c] \in Seq(Message)
  BY TypeNext DEF TypeOK
<1>2. out'[c][i].type = "EGRESS" /\ out'[c][j].type = "EGRESS" /\ out'[c][j].channel = k
  BY DEF IsEgress
<1>3. \/ j \in DOMAIN out[c] /\ out'[c][j] = out[c][j]
      \/ j = Len(out[c]) + 1 /\ ChannelBroadcast(k, c) /\ out'[c][j].blob = current[k]
  <2>1. ASSUME NEW id \in ChannelId, out'[c][j] = Egress(id, current[id])
        PROVE  id = k /\ out'[c][j].blob = current[k]
    BY <1>2, <2>1 DEF Egress
  <2> QED
    BY <1>2, <2>1, OutElements
<1>4. i # Len(out[c]) + 1
  <2>1. j <= Len(out[c]) + 1 /\ i \in Nat /\ j \in Nat /\ Len(out[c]) \in Nat
    BY <1>1, <1>3
  <2> QED
    BY <2>1
<1> QED
  BY <1>2, <1>3, <1>4, OutElements

\* A message the broadcast loop still has to send to a client is not one that the
\* client already has.
LEMMA BroadcastIsNew ==
  ASSUME TypeOK, OrderInv, NEW k \in ChannelId, NEW c \in Address, ChannelBroadcast(k, c),
         NEW i \in DOMAIN out[c], IsEgress(out[c][i], k)
  PROVE  out[c][i].blob # current[k]
<1>1. routine[k] = "broadcast" /\ c \in todo[k]
  BY DEF ChannelBroadcast, ChannelSend
<1>2. current[k] \in Blob
  BY <1>1 DEF OrderInv, CurrentOlder
<1> QED
  BY <1>1, <1>2 DEF OrderInv, OutBeforeCurrent, SameSender, Blob

\* What makes ChannelTotalOrder true is kept by every step.
LEMMA TotalOrderInvNext ==
  TypeOK /\ RoutineRegistered /\ OrderInv /\ TotalOrderInv /\ [Next]_vars => TotalOrderInv'
<1> SUFFICES ASSUME TypeOK, RoutineRegistered, OrderInv, TotalOrderInv, [Next]_vars
             PROVE  TotalOrderInv'
  OBVIOUS
<1>1. CurrentIsLatest'
  <2> SUFFICES ASSUME NEW k \in ChannelId, routine'[k] = "broadcast", NEW c \in Address,
                      NEW i \in DOMAIN out'[c], NEW j \in DOMAIN out'[c], i < j,
                      IsEgress(out'[c][i], k), IsEgress(out'[c][j], k)
               PROVE  out'[c][i].blob # current'[k]
    BY DEF CurrentIsLatest, IsEgress
  <2>1. /\ i \in DOMAIN out[c] /\ out'[c][i] = out[c][i]
        /\ \/ j \in DOMAIN out[c] /\ out'[c][j] = out[c][j]
           \/ ChannelBroadcast(k, c) /\ out'[c][j].blob = current[k]
    BY TwoEgress
  <2>2. CASE ChannelIncoming(k)
    <3>1. incoming[k] \in Seq(Blob) /\ incoming[k] # <<>>
      BY <2>2 DEF TypeOK, ChannelIncoming
    <3>2. 1 \in DOMAIN incoming[k] /\ current'[k] = incoming[k][1] /\ incoming[k][1] \in Blob
      BY <2>2, <3>1 DEF ChannelIncoming, TypeOK
    <3>3. IsEgress(out[c][i], k)
      BY <2>1
    <3>4. SameSender(out[c][i].blob, incoming[k][1]) => out[c][i].blob.n < incoming[k][1].n
      BY <2>1, <3>2, <3>3 DEF OrderInv, OutBeforeIncoming
    <3> QED
      BY <2>1, <3>2, <3>4 DEF SameSender, Blob
  <2>3. CASE ~ChannelIncoming(k)
    <3>1. routine[k] = "broadcast" /\ current'[k] = current[k]
      BY <2>3, OthersSteps DEF ChannelStep, ChannelJoin, ChannelLeave, ChannelBroadcast,
         DeleteChannel, ChannelFinished, SendReturns, TypeOK, ChannelSend
    <3>2. CASE j \in DOMAIN out[c] /\ out'[c][j] = out[c][j]
      BY <2>1, <3>1, <3>2 DEF TotalOrderInv, CurrentIsLatest
    <3>3. CASE ChannelBroadcast(k, c)
      BY <2>1, <3>1, <3>3, BroadcastIsNew
    <3> QED
      BY <2>1, <3>2, <3>3
  <2> QED
    BY <2>2, <2>3
<1>2. ChannelTotalOrder'
  <2> SUFFICES ASSUME NEW c \in Address, NEW d \in Address, NEW k \in ChannelId,
                      NEW i \in DOMAIN out'[c], NEW j \in DOMAIN out'[c],
                      NEW m \in DOMAIN out'[d], NEW l \in DOMAIN out'[d], i < j, m < l,
                      IsEgress(out'[c][i], k), IsEgress(out'[c][j], k),
                      out'[c][i] = out'[d][l], out'[c][j] = out'[d][m]
               PROVE  FALSE
    BY DEF ChannelTotalOrder, IsEgress
  <2>1. IsEgress(out'[d][m], k) /\ IsEgress(out'[d][l], k)
    OBVIOUS
  <2>2. /\ i \in DOMAIN out[c] /\ out'[c][i] = out[c][i] /\ IsEgress(out[c][i], k)
        /\ \/ j \in DOMAIN out[c] /\ out'[c][j] = out[c][j]
           \/ ChannelBroadcast(k, c) /\ out'[c][j].blob = current[k]
    BY TwoEgress
  <2>3. /\ m \in DOMAIN out[d] /\ out'[d][m] = out[d][m] /\ IsEgress(out[d][m], k)
        /\ \/ l \in DOMAIN out[d] /\ out'[d][l] = out[d][l]
           \/ ChannelBroadcast(k, d) /\ out'[d][l].blob = current[k]
    BY <2>1, TwoEgress
  <2>4. ASSUME ChannelBroadcast(k, c) \/ ChannelBroadcast(k, d)
        PROVE  routine[k] = "broadcast"
    BY <2>4 DEF ChannelBroadcast, ChannelSend
  <2>5. CASE /\ j \in DOMAIN out[c] /\ out'[c][j] = out[c][j]
             /\ l \in DOMAIN out[d] /\ out'[d][l] = out[d][l]
    <3>1. IsEgress(out[c][j], k) /\ out[c][i] = out[d][l] /\ out[c][j] = out[d][m]
      BY <2>2, <2>3, <2>5
    <3>2. ChannelTotalOrder
      BY DEF TotalOrderInv
    <3> QED
      BY <2>2, <2>3, <2>5, <3>1, <3>2 DEF ChannelTotalOrder
  <2>6. CASE ChannelBroadcast(k, d) /\ out'[d][l].blob = current[k]
    <3>1. out[c][i].blob = current[k]
      BY <2>2, <2>6
    <3>2. CASE j \in DOMAIN out[c] /\ out'[c][j] = out[c][j]
      BY <2>2, <2>4, <2>6, <3>1, <3>2 DEF TotalOrderInv, CurrentIsLatest
    <3>3. CASE ChannelBroadcast(k, c)
      BY <2>2, <3>1, <3>3, BroadcastIsNew
    <3> QED
      BY <2>2, <3>2, <3>3
  <2>7. CASE ChannelBroadcast(k, c) /\ out'[c][j].blob = current[k]
    <3>1. out[d][m].blob = current[k]
      BY <2>3, <2>7
    <3>2. CASE l \in DOMAIN out[d] /\ out'[d][l] = out[d][l]
      BY <2>1, <2>3, <2>4, <2>7, <3>1, <3>2 DEF TotalOrderInv, CurrentIsLatest
    <3> QED
      BY <2>3, <2>6, <3>2
  <2> QED
    BY <2>2, <2>3, <2>5, <2>6, <2>7
<1> QED
  BY <1>1, <1>2 DEF TotalOrderInv

\* The members of a channel see its messages in one order: no two of them have
\* received the same two messages in opposite orders.
THEOREM TotalOrderCorrect == Spec => []ChannelTotalOrder
<1>1. Init => OrderInv
  BY DEF Init, OrderInv, CallFresh, OutOlder, IncomingOlder, IncomingSorted, CurrentOlder,
     OutBeforeIncoming, OutBeforeCurrent, SenderOrder
<1>2. Init => TotalOrderInv
  BY DEF Init, TotalOrderInv, CurrentIsLatest, ChannelTotalOrder
<1>3. TotalOrderInv => ChannelTotalOrder
  BY DEF TotalOrderInv
<1> QED
  BY <1>1, <1>2, <1>3, OrderInvNext, TotalOrderInvNext, TypeCorrect, RegistrationCorrect,
     PTL DEF Spec

-----------------------------------------------------------------------------
(***************************************************************************)
(* Refinement.  Every step of the relay is one of RelayService or changes  *)
(* nothing a client could tell: reading a JOIN or a LEAVE asks for it,     *)
(* queueing it changes nothing, the goroutine's select serves it.  First,  *)
(* what a Go channel of requests holds for one client.                     *)
(***************************************************************************)

\* A queue is finite, and so is every part of it.
LEMMA RequestsType ==
  ASSUME NEW q \in Seq(Address), NEW c
  PROVE  /\ IsFiniteSet({i \in DOMAIN q : q[i] = c})
         /\ Requests(q, c) \in Nat
<1>1. Len(q) \in Nat /\ DOMAIN q = 1..Len(q)
  OBVIOUS
<1>2. IsFiniteSet(DOMAIN q)
  BY <1>1, FS_Interval
<1>3. IsFiniteSet({i \in DOMAIN q : q[i] = c})
  BY <1>2, FS_Subset
<1> QED
  BY <1>3, FS_CardinalityType DEF Requests

\* An empty queue holds no request.
LEMMA RequestsEmpty == ASSUME NEW c PROVE Requests(<<>>, c) = 0
<1>1. {i \in DOMAIN <<>> : <<>>[i] = c} = {}
  OBVIOUS
<1> QED
  BY <1>1, FS_EmptySet DEF Requests

\* A request more, if it is one of this client.
LEMMA RequestsAppend ==
  ASSUME NEW q \in Seq(Address), NEW x \in Address, NEW c
  PROVE  Requests(Append(q, x), c) = Requests(q, c) + (IF x = c THEN 1 ELSE 0)
<1> DEFINE S == {i \in DOMAIN q : q[i] = c}
           T == {i \in DOMAIN Append(q, x) : Append(q, x)[i] = c}
           n == Len(q) + 1
<1>1. /\ DOMAIN q = 1..Len(q) /\ DOMAIN Append(q, x) = 1..n /\ Len(q) \in Nat
      /\ \A i \in DOMAIN q : Append(q, x)[i] = q[i]
      /\ Append(q, x)[n] = x
  OBVIOUS
<1>2. n \notin S
  BY <1>1
<1>3. T = IF x = c THEN S \cup {n} ELSE S
  BY <1>1
<1>4. IsFiniteSet(S) /\ Cardinality(S) \in Nat
  BY RequestsType DEF Requests
<1>5. Requests(q, c) = Cardinality(S) /\ Requests(Append(q, x), c) = Cardinality(T)
  BY DEF Requests
<1> HIDE DEF S, T, n
<1>6. Cardinality(S \cup {n}) = Cardinality(S) + 1
  BY <1>2, <1>4, FS_AddElement
<1> QED
  BY <1>3, <1>4, <1>5, <1>6

\* A request less, if the first is one of this client.
LEMMA RequestsTail ==
  ASSUME NEW q \in Seq(Address), q # <<>>, NEW c
  PROVE  Requests(q, c) = Requests(Tail(q), c) + (IF Head(q) = c THEN 1 ELSE 0)
<1> DEFINE S == {i \in DOMAIN q : q[i] = c}
           R == S \ {1}
           T == {i \in DOMAIN Tail(q) : Tail(q)[i] = c}
           F == [i \in T |-> i + 1]
<1>1. /\ DOMAIN q = 1..Len(q) /\ DOMAIN Tail(q) = 1..(Len(q) - 1) /\ Len(q) \in Nat \ {0}
      /\ \A i \in DOMAIN Tail(q) : Tail(q)[i] = q[i + 1]
      /\ Head(q) = q[1] /\ Tail(q) \in Seq(Address)
  OBVIOUS
<1>2. Cardinality(R) = Cardinality(T)
  <2>1. F \in [T -> R]
    BY <1>1
  <2>2. \A i, j \in T : F[i] = F[j] => i = j
    BY <1>1
  <2>3. \A k \in R : \E i \in T : F[i] = k
    <3> SUFFICES ASSUME NEW k \in R PROVE \E i \in T : F[i] = k
      OBVIOUS
    <3>1. k \in Nat /\ k \in 2..Len(q) /\ q[k] = c
      BY <1>1
    <3>2. k - 1 \in DOMAIN Tail(q) /\ (k - 1) + 1 = k
      BY <1>1, <3>1
    <3>3. k - 1 \in T
      BY <1>1, <3>1, <3>2
    <3> QED
      BY <3>2, <3>3
  <2>4. F \in Bijection(T, R)
    BY <2>1, <2>2, <2>3 DEF Bijection, Injection, Surjection, IsInjective
  <2> HIDE DEF F
  <2>5. ExistsBijection(T, R)
    BY <2>4 DEF ExistsBijection
  <2>6. IsFiniteSet(T)
    BY <1>1, RequestsType
  <2> HIDE DEF T, R
  <2> QED
    BY <2>5, <2>6, FS_Bijection
<1>3. IsFiniteSet(S) /\ Cardinality(S) \in Nat /\ Cardinality(T) \in Nat
  BY <1>1, RequestsType DEF Requests
<1>4. Cardinality(R) = IF 1 \in S THEN Cardinality(S) - 1 ELSE Cardinality(S)
  BY <1>3, FS_RemoveElement
<1>5. 1 \in S <=> Head(q) = c
  BY <1>1
<1>6. Requests(q, c) = Cardinality(S) /\ Requests(Tail(q), c) = Cardinality(T)
  BY DEF Requests
<1> HIDE DEF S, T, R
<1> QED
  BY <1>2, <1>3, <1>4, <1>5, <1>6

(***************************************************************************)
(* The state of RelayService that a state of the relay stands for.         *)
(***************************************************************************)

Joins(c, id) == Pending(join, "JOIN", c, id)
Leaves(c, id) == Pending(leave, "LEAVE", c, id)

joins == [c \in Address |-> [id \in ChannelId |-> Joins(c, id)]]
leaves == [c \in Address |-> [id \in ChannelId |-> Leaves(c, id)]]
member == [c \in Address |-> {id \in ChannelId : c \in clients[id]}]
open == [c \in Address |-> Reachable(c)]

\* A relay that starts is a service without members and without requests.
LEMMA ServiceInit == Init => Service!Init
<1> SUFFICES ASSUME Init PROVE Service!Init
  OBVIOUS
<1>1. \A c \in Address, id \in ChannelId : Joins(c, id) = 0 /\ Leaves(c, id) = 0
  <2>1. \A id \in ChannelId : join[id] = <<>> /\ leave[id] = <<>>
    BY DEF Init
  <2>2. call = NoCall
    BY DEF Init
  <2> QED
    BY <2>1, <2>2, RequestsEmpty DEF Pending, Joins, Leaves
<1>2. \A c \in Address, id \in ChannelId : c \notin clients[id] /\ Reachable(c)
  BY DEF Init, Reachable
<1>3. /\ joins = [c \in Address |-> [id \in ChannelId |-> 0]]
      /\ leaves = [c \in Address |-> [id \in ChannelId |-> 0]]
  BY <1>1 DEF joins, leaves
<1>4. member = [c \in Address |-> {}]
  BY <1>2 DEF member
<1>5. open = [c \in Address |-> TRUE]
  <2>1. \A c \in Address : up[c] = TRUE
    BY DEF Init
  <2>2. stopping = "no"
    BY DEF Init
  <2> QED
    BY <2>1, <2>2 DEF open, Reachable
<1>6. out = [c \in Address |-> <<>>]
  BY DEF Init
<1> QED
  BY <1>3, <1>4, <1>5, <1>6 DEF Service!Init, joins, leaves, Joins, Leaves, member, open

\* What a client sees depends on the queues of requests, on the pending call, on
\* the membership of the channels and on the connections, and on nothing else.
LEMMA Views ==
  /\ UNCHANGED <<join, call>> => joins' = joins
  /\ UNCHANGED <<leave, call>> => leaves' = leaves
  /\ UNCHANGED clients => member' = member
  /\ UNCHANGED <<up, stopping>> => open' = open
  BY DEF joins, leaves, member, open, Joins, Leaves, Pending, Reachable

\* No call is at a channel: none at all, or one that refuses its message.
Unanswered == call = NoCall \/ call.channel = NoChannel

\* A call that refuses its message counts for no channel.
LEMMA CallViews ==
  ASSUME Unanswered, Unanswered'
  PROVE  /\ UNCHANGED join => joins' = joins
         /\ UNCHANGED leave => leaves' = leaves
<1>1. ASSUME UNCHANGED join, NEW c \in Address, NEW id \in ChannelId
      PROVE  Joins(c, id)' = Joins(c, id)
  BY <1>1, ConstantsAssumption DEF Unanswered, Joins, Pending
<1>2. ASSUME UNCHANGED leave, NEW c \in Address, NEW id \in ChannelId
      PROVE  Leaves(c, id)' = Leaves(c, id)
  BY <1>2, ConstantsAssumption DEF Unanswered, Leaves, Pending
<1> QED
  BY <1>1, <1>2 DEF joins, leaves

\* A step that changes none of this is no step of the service.
LEMMA ServiceStutters ==
  ASSUME UNCHANGED <<joins, leaves, member, open, out>>
  PROVE  UNCHANGED Service!vars
  BY DEF Service!vars, joins, leaves, Joins, Leaves, member, open

\* router.Send is the service's Write.
LEMMA Writes ==
  ASSUME NEW c \in Address, NEW m, Send(c, m)
  PROVE  Service!Write(c, m)
  BY DEF Send, Service!Write

\* The JOINs of one client for one channel change.
LEMMA JoinsChange ==
  ASSUME NEW c \in Address, NEW id \in ChannelId, NEW v,
         \A d \in Address, k \in ChannelId :
           Joins(d, k)' = IF d = c /\ k = id THEN v ELSE Joins(d, k)
  PROVE  joins' = [joins EXCEPT ![c][id] = v]
<1>1. joins' = [d \in Address |-> [k \in ChannelId |-> Joins(d, k)']]
  BY DEF joins
<1> QED
  BY <1>1 DEF joins

\* The LEAVEs of one client for one channel change.
LEMMA LeavesChange ==
  ASSUME NEW c \in Address, NEW id \in ChannelId, NEW v,
         \A d \in Address, k \in ChannelId :
           Leaves(d, k)' = IF d = c /\ k = id THEN v ELSE Leaves(d, k)
  PROVE  leaves' = [leaves EXCEPT ![c][id] = v]
<1>1. leaves' = [d \in Address |-> [k \in ChannelId |-> Leaves(d, k)']]
  BY DEF leaves
<1> QED
  BY <1>1 DEF leaves

\* The channels that one client is a member of change.
LEMMA MemberChange ==
  ASSUME NEW c \in Address, NEW v,
         \A d \in Address : member'[d] = IF d = c THEN v ELSE member[d]
  PROVE  member' = [member EXCEPT ![c] = v]
<1>1. /\ member = [d \in Address |-> member[d]]
      /\ member' = [d \in Address |-> member'[d]]
  BY DEF member
<1> QED
  BY <1>1

\* Process asks the service for what a JOIN or a LEAVE asks for; other messages
\* ask for nothing.
LEMMA ProcessMaps ==
  ASSUME TypeOK, NEW c \in Address, NEW id \in ChannelId, NEW type \in RequestType,
         Process(c, id, type)
  PROVE  Service!Next \/ UNCHANGED Service!vars
<1>1. /\ UNCHANGED <<join, leave, clients, up, out, stopping>> /\ call = NoCall
      /\ call'.from = c /\ call'.channel = id /\ call'.type = type
  BY DEF Process, HandlerReads, chanVars
<1>2. UNCHANGED <<member, open>>
  BY <1>1, Views
<1>3. CASE call' = NoCall
  <2>1. UNCHANGED <<joins, leaves>>
    BY <1>1, <1>3, Views
  <2> QED
    BY <1>1, <1>2, <2>1, ServiceStutters
<1>4. CASE call' # NoCall
  <2>1. ASSUME NEW d \in Address, NEW k \in ChannelId
        PROVE  /\ Joins(d, k)' = IF d = c /\ k = id /\ type = "JOIN"
                                 THEN Joins(d, k) + 1 ELSE Joins(d, k)
               /\ Leaves(d, k)' = IF d = c /\ k = id /\ type = "LEAVE"
                                  THEN Leaves(d, k) + 1 ELSE Leaves(d, k)
    <3>1. join[k] \in Seq(Address) /\ leave[k] \in Seq(Address)
      BY DEF TypeOK
    <3>2. Requests(join[k], d) \in Nat /\ Requests(leave[k], d) \in Nat
      BY <3>1, RequestsType
    <3>3. Joins(d, k) = Requests(join[k], d) /\ Leaves(d, k) = Requests(leave[k], d)
      BY <1>1, <3>2 DEF Joins, Leaves, Pending
    <3>4. /\ Joins(d, k)' = Requests(join[k], d)
                             + (IF c = d /\ id = k /\ type = "JOIN" THEN 1 ELSE 0)
          /\ Leaves(d, k)' = Requests(leave[k], d)
                              + (IF c = d /\ id = k /\ type = "LEAVE" THEN 1 ELSE 0)
      BY <1>1, <1>4 DEF Joins, Leaves, Pending
    <3> QED
      BY <3>2, <3>3, <3>4
  <2>2. CASE type = "JOIN"
    <3>1. joins' = [joins EXCEPT ![c][id] = Joins(c, id) + 1]
      BY <2>1, <2>2, JoinsChange
    <3>2. leaves' = leaves
      BY <2>1, <2>2 DEF leaves
    <3>3. Service!AskJoin(c, id)
      BY <1>1, <1>2, <3>1, <3>2 DEF Service!AskJoin, joins, leaves, Joins, Leaves, member, open
    <3> QED
      BY <3>3 DEF Service!Next
  <2>3. CASE type = "LEAVE"
    <3>1. leaves' = [leaves EXCEPT ![c][id] = Leaves(c, id) + 1]
      BY <2>1, <2>3, LeavesChange
    <3>2. joins' = joins
      BY <2>1, <2>3 DEF joins
    <3>3. Service!AskLeave(c, id)
      BY <1>1, <1>2, <3>1, <3>2 DEF Service!AskLeave, joins, leaves, Joins, Leaves, member, open
    <3> QED
      BY <3>3 DEF Service!Next
  <2>4. CASE type # "JOIN" /\ type # "LEAVE"
    <3>1. joins' = joins /\ leaves' = leaves
      BY <2>1, <2>4 DEF joins, leaves
    <3> QED
      BY <1>1, <1>2, <3>1, ServiceStutters
  <2> QED
    BY <2>2, <2>3, <2>4
<1> QED
  BY <1>3, <1>4

\* newMessage moves a request from the call to a queue, where it is still pending.
LEMMA NewMessageMaps ==
  ASSUME TypeOK, NewMessage
  PROVE  UNCHANGED Service!vars
<1> DEFINE c == call.from
           id == call.channel
<1>1. /\ call \in Call /\ c \in Address /\ id \in ChannelId
      /\ call # NoCall /\ call' = NoCall
      /\ UNCHANGED <<clients, up, out, stopping>>
  BY DEF NewMessage, TypeOK, Call, connVars, stopVars, Refusing
<1>2. UNCHANGED <<member, open>>
  BY <1>1, Views
<1>3. /\ join' = IF call.type = "JOIN" THEN [join EXCEPT ![id] = Append(@, c)] ELSE join
      /\ leave' = IF call.type = "LEAVE" THEN [leave EXCEPT ![id] = Append(@, c)] ELSE leave
  BY DEF NewMessage, EnqueueCall, Enqueue, Refusing
<1>4. ASSUME NEW d \in Address, NEW k \in ChannelId
      PROVE  Joins(d, k)' = Joins(d, k) /\ Leaves(d, k)' = Leaves(d, k)
  <2>1. join[k] \in Seq(Address) /\ leave[k] \in Seq(Address)
    BY DEF TypeOK
  <2>2. /\ Requests(join[k], d) \in Nat /\ Requests(leave[k], d) \in Nat
        /\ Requests(Append(join[k], c), d) = Requests(join[k], d) + (IF c = d THEN 1 ELSE 0)
        /\ Requests(Append(leave[k], c), d) = Requests(leave[k], d) + (IF c = d THEN 1 ELSE 0)
    <3>1. c \in Address
      BY <1>1
    <3> HIDE DEF c
    <3>2. Requests(join[k], d) \in Nat /\ Requests(leave[k], d) \in Nat
      BY <2>1, RequestsType
    <3>3. Requests(Append(join[k], c), d) = Requests(join[k], d) + (IF c = d THEN 1 ELSE 0)
      BY <2>1, <3>1, RequestsAppend
    <3>4. Requests(Append(leave[k], c), d) = Requests(leave[k], d) + (IF c = d THEN 1 ELSE 0)
      BY <2>1, <3>1, RequestsAppend
    <3> QED
      BY <3>2, <3>3, <3>4
  <2>3. /\ join'[k] = IF k = id /\ call.type = "JOIN" THEN Append(join[k], c) ELSE join[k]
        /\ leave'[k] = IF k = id /\ call.type = "LEAVE" THEN Append(leave[k], c) ELSE leave[k]
    BY <1>3 DEF TypeOK
  <2>4. /\ Joins(d, k)' = Requests(join'[k], d) + 0
        /\ Leaves(d, k)' = Requests(leave'[k], d) + 0
    BY <1>1 DEF Joins, Leaves, Pending
  <2>5. /\ Joins(d, k) = Requests(join[k], d)
                          + (IF k = id /\ c = d /\ call.type = "JOIN" THEN 1 ELSE 0)
        /\ Leaves(d, k) = Requests(leave[k], d)
                           + (IF k = id /\ c = d /\ call.type = "LEAVE" THEN 1 ELSE 0)
    BY <1>1 DEF Joins, Leaves, Pending
  <2> QED
    BY <2>2, <2>3, <2>4, <2>5
<1>5. joins' = joins /\ leaves' = leaves
  BY <1>4 DEF joins, leaves
<1> QED
  BY <1>1, <1>2, <1>5, ServiceStutters

\* A client whose request is taken from a queue has one request less, others none.
LEMMA ServedRequest ==
  ASSUME NEW c \in Address, NEW q \in Seq(Address), q # <<>>, NEW n \in Nat
  PROVE  /\ Requests(Tail(q), c) + n = IF Head(q) = c THEN Requests(q, c) + n - 1
                                                     ELSE Requests(q, c) + n
         /\ Head(q) = c => Requests(q, c) + n > 0
<1>1. Tail(q) \in Seq(Address)
  OBVIOUS
<1>2. Requests(q, c) \in Nat /\ Requests(Tail(q), c) \in Nat
  BY <1>1, RequestsType
<1> QED
  BY <1>2, RequestsTail

\* addClient answers one JOIN of the client: accepted, or the channel is full.
LEMMA ChannelJoinMaps ==
  ASSUME TypeOK, NEW id \in ChannelId, ChannelJoin(id)
  PROVE  Service!Next
<1> PICK c \in Address : c = Head(join[id])
  BY DEF ChannelJoin, TypeOK, ChannelSend
<1>1. /\ join[id] \in Seq(Address) /\ join[id] # <<>>
      /\ join' = [join EXCEPT ![id] = Tail(@)]
      /\ UNCHANGED <<leave, call, up, stopping>>
  BY DEF ChannelJoin, TypeOK, stopVars, ChannelSend
<1>2. UNCHANGED <<leaves, open>>
  BY <1>1, Views
<1>3. ASSUME NEW d \in Address, NEW k \in ChannelId
      PROVE  Joins(d, k)' = IF d = c /\ k = id THEN Joins(d, k) - 1 ELSE Joins(d, k)
  <2> DEFINE n == IF call # NoCall /\ call.from = d /\ call.channel = k /\ call.type = "JOIN"
                  THEN 1 ELSE 0
  <2>1. n \in Nat
    OBVIOUS
  <2>2. Joins(d, k) = Requests(join[k], d) + n /\ Joins(d, k)' = Requests(join'[k], d) + n
    BY <1>1 DEF Joins, Pending
  <2>3. join'[k] = IF k = id THEN Tail(join[k]) ELSE join[k]
    BY <1>1 DEF TypeOK
  <2> HIDE DEF n
  <2>4. CASE k = id
    <3>1. Tail(join[id]) \in Seq(Address)
      BY <1>1
    <3>2. Requests(join[id], d) \in Nat /\ Requests(Tail(join[id]), d) \in Nat
      BY <1>1, <3>1, RequestsType
    <3>3. Requests(Tail(join[id]), d) + n = IF c = d THEN Requests(join[id], d) + n - 1
                                                   ELSE Requests(join[id], d) + n
      BY <1>1, <2>1, ServedRequest
    <3> QED
      BY <2>1, <2>2, <2>3, <2>4, <3>2, <3>3
  <2> QED
    BY <2>2, <2>3, <2>4
<1>4. joins' = [joins EXCEPT ![c][id] = Joins(c, id) - 1]
  <2>1. \A d \in Address, k \in ChannelId :
           Joins(d, k)' = IF d = c /\ k = id THEN Joins(c, id) - 1 ELSE Joins(d, k)
    BY <1>3
  <2> QED
    BY <2>1, JoinsChange
<1>5. joins[c][id] > 0
  <2> DEFINE n == IF call # NoCall /\ call.from = c /\ call.channel = id /\ call.type = "JOIN"
                  THEN 1 ELSE 0
  <2>1. n \in Nat
    OBVIOUS
  <2>2. Joins(c, id) = Requests(join[id], c) + n
    BY DEF Joins, Pending
  <2> HIDE DEF n
  <2>3. Joins(c, id) > 0
    BY <1>1, <2>1, <2>2, ServedRequest
  <2> QED
    BY <1>1, <2>3 DEF joins
<1>6. CASE Accepts(id, c)
  <2>1. clients' = [clients EXCEPT ![id] = @ \cup {c}] /\ Send(c, Response("JOIN_OK", id))
    BY <1>6 DEF ChannelJoin, ChannelSend
  <2>2. Service!Write(c, Service!Message("JOIN_OK", id, NoBlob))
    BY <1>1, <2>1, Writes DEF Response, Service!Message
  <2>3. member' = [member EXCEPT ![c] = @ \cup {id}]
    <3>1. \A d \in Address, k \in ChannelId :
             d \in clients'[k] <=> d \in clients[k] \/ (d = c /\ k = id)
      BY <2>1 DEF TypeOK
    <3>2. \A d \in Address : {k \in ChannelId : d \in clients'[k]} =
             IF d = c THEN {k \in ChannelId : d \in clients[k]} \cup {id}
                      ELSE {k \in ChannelId : d \in clients[k]}
      <4> SUFFICES ASSUME NEW d \in Address
                   PROVE  {k \in ChannelId : d \in clients'[k]} =
                            IF d = c THEN {k \in ChannelId : d \in clients[k]} \cup {id}
                                     ELSE {k \in ChannelId : d \in clients[k]}
        OBVIOUS
      <4>1. ASSUME d = c
            PROVE  {k \in ChannelId : d \in clients'[k]}
                     = {k \in ChannelId : d \in clients[k]} \cup {id}
        BY <3>1, <4>1
      <4>2. ASSUME d # c
            PROVE  {k \in ChannelId : d \in clients'[k]} = {k \in ChannelId : d \in clients[k]}
        BY <3>1, <4>2
      <4> QED
        BY <4>1, <4>2
    <3>3. \A d \in Address : member'[d] = IF d = c THEN member[c] \cup {id} ELSE member[d]
      BY <3>2 DEF member
    <3> QED
      BY <1>1, <3>3, MemberChange
  <2>4. Service!Accept(c, id)
    BY <1>1, <1>2, <1>4, <1>5, <2>2, <2>3
       DEF Service!Accept, joins, leaves, Joins, Leaves, member, open
  <2> QED
    BY <1>1, <2>4 DEF Service!Next
<1>7. CASE ~Accepts(id, c)
  <2>1. UNCHANGED clients /\ Send(c, Response("JOIN_FAILURE", id)) /\ c \notin clients[id]
    BY <1>7 DEF ChannelJoin, Accepts, ChannelSend
  <2>2. Service!Write(c, Service!Message("JOIN_FAILURE", id, NoBlob))
    BY <1>1, <2>1, Writes DEF Response, Service!Message
  <2>3. member' = member /\ id \notin member[c]
    BY <1>1, <2>1 DEF member
  <2>4. Service!Full(c, id)
    BY <1>1, <1>2, <1>4, <1>5, <2>2, <2>3
       DEF Service!Full, joins, leaves, Joins, Leaves, member, open
  <2> QED
    BY <1>1, <2>4 DEF Service!Next
<1> QED
  BY <1>6, <1>7

\* case <-ch.leave serves one LEAVE of the client.
LEMMA ChannelLeaveMaps ==
  ASSUME TypeOK, NEW id \in ChannelId, ChannelLeave(id)
  PROVE  Service!Next
<1> PICK c \in Address : c = Head(leave[id])
  BY DEF ChannelLeave, TypeOK
<1>1. /\ leave[id] \in Seq(Address) /\ leave[id] # <<>>
      /\ leave' = [leave EXCEPT ![id] = Tail(@)]
      /\ clients' = [clients EXCEPT ![id] = @ \ {c}]
      /\ UNCHANGED <<join, call, up, out, stopping>>
  BY DEF ChannelLeave, TypeOK, connVars, stopVars
<1>2. UNCHANGED <<joins, open>>
  BY <1>1, Views
<1>3. ASSUME NEW d \in Address, NEW k \in ChannelId
      PROVE  Leaves(d, k)' = IF d = c /\ k = id THEN Leaves(d, k) - 1 ELSE Leaves(d, k)
  <2> DEFINE n == IF call # NoCall /\ call.from = d /\ call.channel = k /\ call.type = "LEAVE"
                  THEN 1 ELSE 0
  <2>1. n \in Nat
    OBVIOUS
  <2>2. Leaves(d, k) = Requests(leave[k], d) + n /\ Leaves(d, k)' = Requests(leave'[k], d) + n
    BY <1>1 DEF Leaves, Pending
  <2>3. leave'[k] = IF k = id THEN Tail(leave[k]) ELSE leave[k]
    BY <1>1 DEF TypeOK
  <2> HIDE DEF n
  <2>4. CASE k = id
    <3>1. Tail(leave[id]) \in Seq(Address)
      BY <1>1
    <3>2. Requests(leave[id], d) \in Nat /\ Requests(Tail(leave[id]), d) \in Nat
      BY <1>1, <3>1, RequestsType
    <3>3. Requests(Tail(leave[id]), d) + n = IF c = d THEN Requests(leave[id], d) + n - 1
                                                   ELSE Requests(leave[id], d) + n
      BY <1>1, <2>1, ServedRequest
    <3> QED
      BY <2>1, <2>2, <2>3, <2>4, <3>2, <3>3
  <2> QED
    BY <2>2, <2>3, <2>4
<1>4. leaves' = [leaves EXCEPT ![c][id] = Leaves(c, id) - 1]
  <2>1. \A d \in Address, k \in ChannelId :
           Leaves(d, k)' = IF d = c /\ k = id THEN Leaves(c, id) - 1 ELSE Leaves(d, k)
    BY <1>3
  <2> QED
    BY <2>1, LeavesChange
<1>5. leaves[c][id] > 0
  <2> DEFINE n == IF call # NoCall /\ call.from = c /\ call.channel = id /\ call.type = "LEAVE"
                  THEN 1 ELSE 0
  <2>1. n \in Nat
    OBVIOUS
  <2>2. Leaves(c, id) = Requests(leave[id], c) + n
    BY DEF Leaves, Pending
  <2> HIDE DEF n
  <2>3. Leaves(c, id) > 0
    BY <1>1, <2>1, <2>2, ServedRequest
  <2> QED
    BY <1>1, <2>3 DEF leaves
<1>6. member' = [member EXCEPT ![c] = @ \ {id}]
  <2>1. \A d \in Address, k \in ChannelId :
           d \in clients'[k] <=> d \in clients[k] /\ ~(d = c /\ k = id)
    BY <1>1 DEF TypeOK
  <2>2. \A d \in Address : {k \in ChannelId : d \in clients'[k]} =
           IF d = c THEN {k \in ChannelId : d \in clients[k]} \ {id}
                    ELSE {k \in ChannelId : d \in clients[k]}
    <3> SUFFICES ASSUME NEW d \in Address
                 PROVE  {k \in ChannelId : d \in clients'[k]} =
                          IF d = c THEN {k \in ChannelId : d \in clients[k]} \ {id}
                                   ELSE {k \in ChannelId : d \in clients[k]}
      OBVIOUS
    <3>1. ASSUME d = c
          PROVE  {k \in ChannelId : d \in clients'[k]}
                   = {k \in ChannelId : d \in clients[k]} \ {id}
      BY <2>1, <3>1
    <3>2. ASSUME d # c
          PROVE  {k \in ChannelId : d \in clients'[k]} = {k \in ChannelId : d \in clients[k]}
      BY <2>1, <3>2
    <3> QED
      BY <3>1, <3>2
  <2>3. \A d \in Address : member'[d] = IF d = c THEN member[c] \ {id} ELSE member[d]
    BY <2>2 DEF member
  <2> QED
    BY <1>1, <2>3, MemberChange
<1>7. Service!Leave(c, id)
  BY <1>1, <1>2, <1>4, <1>5, <1>6 DEF Service!Leave, joins, leaves, Joins, Leaves, member, open
<1> QED
  BY <1>1, <1>7 DEF Service!Next

(***************************************************************************)
(* The refinement is not provable step by step from the types alone.  The  *)
(* payload of a broadcast must be one that the service could forward (its  *)
(* rank is that of a message which was read), and nobody may be left in a  *)
(* channel that deleteChannel is about to end (Forget requires it).        *)
(***************************************************************************)

\* b has a rank that a message can have.
Ranked(b) == b.n \in 1..sent[b.from]

SentBounded == \A c \in Address : sent[c] <= MaxSent[c]

PayloadsRanked ==
  /\ call # NoCall => Ranked(call)
  /\ \A id \in ChannelId : \A j \in DOMAIN incoming[id] : Ranked(incoming[id][j])
  /\ \A id \in ChannelId : routine[id] = "broadcast" =>
       current[id] \in Blob /\ Ranked(current[id])

EndsEmpty == \A id \in ChannelId : routine[id] = "delete" => clients[id] = {}

ServiceInv == SentBounded /\ PayloadsRanked /\ EndsEmpty

\* What the refinement rests on is kept by every step.
LEMMA ServiceInvNext == TypeOK /\ RoutineRegistered /\ ServiceInv /\ [Next]_vars => ServiceInv'
<1> SUFFICES ASSUME TypeOK, RoutineRegistered, ServiceInv, [Next]_vars PROVE ServiceInv'
  OBVIOUS
<1> USE DEF ServiceInv
<1>1. SentBounded' /\ \A b \in Blob : Ranked(b) => Ranked(b)'
  <2>1. ASSUME NEW c \in Address, HandlerReads(c)
        PROVE  SentBounded' /\ \A b \in Blob : Ranked(b) => Ranked(b)'
    <3>1. /\ sent' = [sent EXCEPT ![c] = @ + 1] /\ sent[c] < MaxSent[c]
          /\ \A d \in Address : sent[d] \in Nat /\ MaxSent[d] \in Nat
      BY <2>1, ConstantsAssumption DEF HandlerReads, TypeOK
    <3>2. \A d \in Address : sent'[d] = IF d = c THEN sent[d] + 1 ELSE sent[d]
      BY <3>1 DEF TypeOK
    <3> QED
      BY <3>1, <3>2 DEF SentBounded, Ranked, Blob
  <2>2. CASE UNCHANGED sent
    BY <2>2 DEF SentBounded, Ranked
  <2>3. UNCHANGED sent \/ \E c \in Address : HandlerReads(c)
    BY DEF Next, Handler, ChannelStep, ProcessWithoutId, ProcessRefused, Process, NewMessage,
       ChannelJoin, ChannelLeave, ChannelIncoming, ChannelBroadcast, DeleteChannel,
       ChannelFinished, SendReturns, ConnDown, Stall, ReadsAgain, RefusalReturns, StopRouter,
       StopChannels, vars, connVars, ChannelSend, Refusing
  <2> QED
    BY <2>1, <2>2, <2>3
<1>2. ASSUME NEW id \in ChannelId, routine'[id] = "delete" PROVE clients'[id] = {}
  <2>1. ASSUME NEW k \in ChannelId, ChannelStep(k) PROVE clients'[id] = {}
    <3>1. CASE ChannelJoin(k)
      <4>1. routine[id] = "delete" /\ id # k /\ clients'[id] = clients[id]
        BY <1>2, <3>1 DEF ChannelJoin, TypeOK, ChannelSend
      <4> QED
        BY <4>1 DEF EndsEmpty
    <3>2. CASE ChannelLeave(k)
      <4>1. CASE id = k
        BY <1>2, <3>2, <4>1 DEF ChannelLeave, TypeOK
      <4>2. CASE id # k
        <5>1. routine[id] = "delete" /\ clients'[id] = clients[id]
          BY <1>2, <3>2, <4>2 DEF ChannelLeave, TypeOK
        <5> QED
          BY <5>1 DEF EndsEmpty
      <4> QED
        BY <4>1, <4>2
    <3>3. CASE ChannelIncoming(k) \/ DeleteChannel(k) \/ ChannelFinished(k) \/ SendReturns(k)
      <4>1. routine[id] = "delete" /\ clients' = clients
        BY <1>2, <3>3 DEF ChannelIncoming, DeleteChannel, ChannelFinished, SendReturns,
           TypeOK, chanVars
      <4> QED
        BY <4>1 DEF EndsEmpty
    <3>4. ASSUME NEW c \in Address, ChannelBroadcast(k, c) PROVE clients'[id] = {}
      <4>1. routine[id] = "delete" /\ clients' = clients
        BY <1>2, <3>4 DEF ChannelBroadcast, TypeOK, ChannelSend
      <4> QED
        BY <4>1 DEF EndsEmpty
    <3> QED
      BY <2>1, <3>1, <3>2, <3>3, <3>4 DEF ChannelStep
  <2>2. CASE ~\E k \in ChannelId : ChannelStep(k)
    BY <1>2, <2>2 DEF Next, Handler, ProcessWithoutId, ProcessRefused, Process, NewMessage,
       ConnDown, Stall, ReadsAgain, RefusalReturns, StopRouter, StopChannels, vars, chanVars,
       EndsEmpty, TypeOK, Refusing
  <2> QED
    BY <2>1, <2>2
<1>3. call' # NoCall => Ranked(call)'
  <2>1. ASSUME NEW c \in Address, Handler(c) PROVE call' # NoCall => Ranked(call)'
    <3>1. sent[c] \in Nat /\ sent'[c] = sent[c] + 1 /\ call = NoCall
      BY <2>1 DEF Handler, ProcessWithoutId, ProcessRefused, Process, HandlerReads, TypeOK
    <3>2. call' = call \/ (call'.from = c /\ call'.n = sent'[c])
      BY <2>1 DEF Handler, ProcessWithoutId, ProcessRefused, Process
    <3> QED
      BY <3>1, <3>2 DEF Ranked
  <2>2. CASE NewMessage \/ RefusalReturns
    BY <2>2 DEF NewMessage, RefusalReturns
  <2>3. CASE UNCHANGED <<call, sent>>
    BY <2>3 DEF PayloadsRanked, Ranked
  <2> QED
    BY <2>1, <2>2, <2>3 DEF Next, ChannelStep, ChannelJoin, ChannelLeave, ChannelIncoming,
       ChannelBroadcast, DeleteChannel, ChannelFinished, SendReturns, ConnDown, Stall,
       ReadsAgain, RefusalReturns, StopRouter, StopChannels, vars, connVars, ChannelSend
<1>4. ASSUME NEW id \in ChannelId, NEW j \in DOMAIN incoming'[id]
      PROVE  \E b \in Blob : b = incoming'[id][j] /\ Ranked(b)'
  <2>1. ASSUME NEW i \in DOMAIN incoming[id], incoming'[id][j] = incoming[id][i]
        PROVE  \E b \in Blob : b = incoming'[id][j] /\ Ranked(b)'
    <3>1. incoming[id][i] \in Blob /\ Ranked(incoming[id][i])
      BY DEF TypeOK, PayloadsRanked
    <3> QED
      BY <1>1, <2>1, <3>1
  <2>2. CASE QueuesCall(id) /\ incoming'[id][j] = Carried
    <3>1. Carried \in Blob /\ Ranked(Carried)
      BY <2>2 DEF QueuesCall, NewMessage, PayloadsRanked, Ranked, Carried, Call, Blob, Refusing
    <3> QED
      BY <1>1, <2>2, <3>1
  <2> QED
    BY <2>1, <2>2, QueueElements
<1>5. ASSUME NEW id \in ChannelId, routine'[id] = "broadcast"
      PROVE  \E b \in Blob : b = current'[id] /\ Ranked(b)'
  <2>1. CASE ChannelIncoming(id)
    <3>1. incoming[id] \in Seq(Blob) /\ incoming[id] # <<>>
      BY <2>1 DEF ChannelIncoming, TypeOK
    <3>2. 1 \in DOMAIN incoming[id] /\ Head(incoming[id]) = incoming[id][1]
      BY <3>1
    <3>3. current'[id] = incoming[id][1]
      BY <1>5, <2>1, <3>2 DEF ChannelIncoming, TypeOK
    <3>4. incoming[id][1] \in Blob /\ Ranked(incoming[id][1])
      BY <3>1, <3>2 DEF PayloadsRanked
    <3> QED
      BY <1>1, <3>3, <3>4
  <2>2. CASE ~ChannelIncoming(id)
    <3>1. routine[id] = "broadcast" /\ current'[id] = current[id]
      BY <1>5, <2>2, OthersSteps DEF ChannelStep, ChannelJoin, ChannelLeave, ChannelBroadcast,
         DeleteChannel, ChannelFinished, SendReturns, TypeOK, ChannelSend
    <3> QED
      BY <1>1, <3>1 DEF PayloadsRanked
  <2> QED
    BY <2>1, <2>2
<1>6. PayloadsRanked'
  BY <1>3, <1>4, <1>5 DEF PayloadsRanked, Ranked
<1>7. EndsEmpty'
  BY <1>2 DEF EndsEmpty
<1> QED
  BY <1>1, <1>6, <1>7

\* Every step of the relay is a step of the service, or one it does not see.
LEMMA StepMaps ==
  ASSUME TypeOK, RoutineRegistered, JoinInv, ServiceInv, [Next]_vars
  PROVE  [Service!Next]_(Service!vars)
<1>1. ASSUME UNCHANGED <<join, leave, call, clients, up, stopping, out>>
      PROVE  UNCHANGED Service!vars
  BY <1>1, Views, ServiceStutters
<1>2. ASSUME NEW c \in Address, NEW id \in ChannelId, ProcessRefused(c, id) PROVE Service!Next
  <2>1. /\ UNCHANGED <<join, leave, clients, up, stopping>>
        /\ Send(c, Response("JOIN_FAILURE", NoChannel))
    BY <1>2 DEF ProcessRefused, chanVars
  <2>5. Unanswered /\ Unanswered'
    BY <1>2 DEF ProcessRefused, HandlerReads, Unanswered
  <2>2. Service!Write(c, Service!Message("JOIN_FAILURE", NoChannel, NoBlob))
    BY <2>1, Writes DEF Response, Service!Message
  <2>3. UNCHANGED <<joins, leaves, member, open>>
    BY <2>1, <2>5, Views, CallViews
  <2>4. Service!Refuse(c)
    BY <2>2, <2>3 DEF Service!Refuse, joins, leaves, Joins, Leaves, member, open
  <2> QED
    BY <2>4 DEF Service!Next
<1>3. ASSUME NEW id \in ChannelId, NEW c \in Address, ChannelBroadcast(id, c) PROVE Service!Next
  <2> DEFINE B == UNION {[from : {a}, n : 1..MaxSent[a]] : a \in Address}
  <2>1. /\ UNCHANGED <<join, leave, call, clients, up, stopping>>
        /\ Send(c, Egress(id, current[id])) /\ routine[id] = "broadcast" /\ c \in todo[id]
    BY <1>3 DEF ChannelBroadcast, stopVars, ChannelSend
  <2>2. PICK b \in Blob : b = current[id]
    BY <2>1 DEF ServiceInv, PayloadsRanked
  <2>3. b \in B
    <3>1. b.n \in 1..sent[b.from] /\ sent[b.from] <= MaxSent[b.from]
      BY <2>1, <2>2 DEF ServiceInv, PayloadsRanked, Ranked, SentBounded, Blob
    <3>2. b.n \in 1..MaxSent[b.from] /\ b.from \in Address
      BY <3>1, ConstantsAssumption DEF TypeOK, Blob
    <3>3. b \in [from : {b.from}, n : 1..MaxSent[b.from]]
      BY <3>2 DEF Blob
    <3> QED
      BY <3>2, <3>3
  <2>4. Service!Write(c, Service!Message("EGRESS", id, b))
    BY <2>1, <2>2, Writes DEF Egress, Service!Message
  <2>5. id \in member[c]
    BY <2>1 DEF JoinInv, TodoAreClients, member
  <2>6. UNCHANGED <<joins, leaves, member, open>>
    BY <2>1, Views
  <2>7. Service!Forward(c, id, b)
    BY <2>4, <2>5, <2>6 DEF Service!Forward, joins, leaves, Joins, Leaves, member, open
  <2> QED
    BY <2>3, <2>7 DEF Service!Next
<1>4. ASSUME NEW id \in ChannelId, DeleteChannel(id) PROVE Service!Next
  <2>1. /\ UNCHANGED <<clients, up, stopping, out>> /\ call = NoCall /\ call' = NoCall
        /\ join' = [join EXCEPT ![id] = <<>>] /\ leave' = [leave EXCEPT ![id] = <<>>]
        /\ clients[id] = {}
    BY <1>4 DEF DeleteChannel, connVars, stopVars, ServiceInv, EndsEmpty
  <2>2. ASSUME NEW d \in Address, NEW k \in ChannelId
        PROVE  /\ Joins(d, k)' = IF k = id THEN 0 ELSE Joins(d, k)
               /\ Leaves(d, k)' = IF k = id THEN 0 ELSE Leaves(d, k)
    <3>1. /\ join'[k] = IF k = id THEN <<>> ELSE join[k]
          /\ leave'[k] = IF k = id THEN <<>> ELSE leave[k]
      BY <2>1 DEF TypeOK
    <3>2. /\ Joins(d, k)' = Requests(join'[k], d) + 0 /\ Joins(d, k) = Requests(join[k], d) + 0
          /\ Leaves(d, k)' = Requests(leave'[k], d) + 0
          /\ Leaves(d, k) = Requests(leave[k], d) + 0
      BY <2>1 DEF Joins, Leaves, Pending
    <3> QED
      BY <3>1, <3>2, RequestsEmpty
  <2>3. /\ joins' = [d \in Address |-> [joins[d] EXCEPT ![id] = 0]]
        /\ leaves' = [d \in Address |-> [leaves[d] EXCEPT ![id] = 0]]
    <3>1. /\ joins' = [d \in Address |-> [k \in ChannelId |-> Joins(d, k)']]
          /\ leaves' = [d \in Address |-> [k \in ChannelId |-> Leaves(d, k)']]
      BY DEF joins, leaves
    <3> QED
      BY <2>2, <3>1 DEF joins, leaves
  <2>4. \A d \in Address : id \notin member[d]
    BY <2>1 DEF member
  <2>5. UNCHANGED <<member, open>>
    BY <2>1, Views
  <2>6. Service!Forget(id)
    BY <2>1, <2>3, <2>4, <2>5 DEF Service!Forget, joins, leaves, Joins, Leaves, member, open
  <2> QED
    BY <2>6 DEF Service!Next
<1>5. ASSUME NEW C \in SUBSET Address, UNCHANGED <<join, leave, call, clients, out>>,
             \A d \in Address : Reachable(d)' <=> Reachable(d) /\ d \notin C
      PROVE  Service!Next
  <2>1. UNCHANGED <<joins, leaves, member>>
    BY <1>5, Views
  <2>2. open' = [d \in Address |-> open[d] /\ d \notin C]
    BY <1>5 DEF open, Reachable
  <2>3. Service!HangUp(C)
    BY <1>5, <2>1, <2>2 DEF Service!HangUp, joins, leaves, Joins, Leaves, member, open
  <2> QED
    BY <2>3 DEF Service!Next
<1>6. ASSUME NEW c \in Address, ConnDown(c) PROVE Service!Next
  <2>1. \A d \in Address : Reachable(d)' <=> Reachable(d) /\ d \notin {c}
    BY <1>6 DEF ConnDown, Reachable, TypeOK, stopVars
  <2> QED
    BY <1>5, <1>6, <2>1 DEF ConnDown, chanVars
<1>7. CASE StopRouter
  <2>1. \A d \in Address : Reachable(d)' <=> Reachable(d) /\ d \notin Address
    BY <1>7 DEF StopRouter, Reachable
  <2> QED
    BY <1>5, <1>7, <2>1 DEF StopRouter, chanVars, connVars
<1>8. CASE StopChannels
  <2>1. UNCHANGED open
    BY <1>8 DEF StopChannels, open, Reachable
  <2>2. UNCHANGED <<joins, leaves, member, out>>
    BY <1>8, Views DEF StopChannels, connVars
  <2> QED
    BY <2>1, <2>2, ServiceStutters
<1>9. CASE RefusalReturns
  <2>1. UNCHANGED <<join, leave, clients, up, stopping, out>> /\ Unanswered /\ Unanswered'
    BY <1>9 DEF RefusalReturns, Refusing, Unanswered, chanVars, connVars, stopVars
  <2> QED
    BY <2>1, Views, CallViews, ServiceStutters
<1>10. ASSUME NEW c \in Address, Stall(c) \/ ReadsAgain(c) PROVE UNCHANGED Service!vars
  BY <1>1, <1>10 DEF Stall, ReadsAgain, chanVars, stopVars
<1> QED
  BY <1>1, <1>2, <1>3, <1>4, <1>6, <1>7, <1>8, <1>9, <1>10, ProcessMaps, NewMessageMaps,
     ChannelJoinMaps, ChannelLeaveMaps
  DEF Next, Handler, ChannelStep, ProcessWithoutId, ChannelIncoming, ChannelFinished,
      SendReturns, vars, chanVars, connVars, stopVars

\* To every client the relay is the service of RelayService, whatever its goroutines,
\* its mutex and its bounded queues do.
THEOREM ServiceCorrect == Spec => ServiceSpec
<1>1. Init => JoinInv
  BY DEF Init, JoinInv, ClientsJoined, TodoAreClients, EgressAfterJoin
<1>2. Init => ServiceInv
  BY ConstantsAssumption DEF Init, ServiceInv, SentBounded, PayloadsRanked, EndsEmpty
<1> QED
  BY <1>1, <1>2, ServiceInit, StepMaps, JoinInvNext, ServiceInvNext, TypeCorrect,
     RegistrationCorrect, PTL DEF Spec, ServiceSpec, Service!Spec

-----------------------------------------------------------------------------
(***************************************************************************)
(* Where the relay comes to rest: the safety half of StopReturnsOrLockCycle, *)
(* RoutinesEnd and QueuesDrain.                                            *)
(***************************************************************************)

\* What goes on by itself under FairSpec.
GoesOn ==
  \/ NewMessage
  \/ RefusalReturns
  \/ \E id \in ChannelId : ChannelStep(id)
  \/ stopping = "router" /\ \E c \in Address : Handler(c)
  \/ StopChannels

\* Nothing does, told by what everybody waits for.
AtRest ==
  /\ Refusing => Blocked(call.from)
  /\ call # NoCall /\ ~Refusing => ~HasRoom(QueueOf(call.type, call.channel))
  /\ \A id \in ChannelId :
       /\ sending[id] # NoClient => Blocked(sending[id])
       /\ routine[id] = "select" /\ sending[id] = NoClient =>
            /\ join[id] = <<>> /\ leave[id] = <<>> /\ incoming[id] = <<>>
            /\ ~finished[id]
       /\ routine[id] = "broadcast" /\ sending[id] = NoClient => todo[id] = {}
       /\ routine[id] = "delete" => call # NoCall
  /\ stopping = "router" =>
       call # NoCall \/ (inflight # {} /\ \A c \in inflight : sent[c] >= MaxSent[c])

\* The queues are empty and the goroutine waits for messages, or Stop has returned and
\* so has the goroutine.
Idle(id) ==
  \/ /\ stopping = "no" /\ routine[id] \in {"none", "select"}
     /\ join[id] = <<>> /\ leave[id] = <<>> /\ incoming[id] = <<>>
  \/ stopping = "done" /\ routine[id] \in {"none", "returned"}

\* Every channel is idle, and no call is under way, but for those that a client holds
\* up which keeps its connection and does not read.
Settled ==
  /\ stopping # "router"
  /\ call # NoCall => CallBlocked
  /\ \A id \in ChannelId : Idle(id) \/ HeldUp(id)

\* The inductive invariant: who is done has been told by Stop or tells himself, and
\* after Stop there is nobody left to tell.
Told(id) ==
  /\ finished[id] => stopping = "done"
  /\ done[id] => routine[id] = "delete" \/ finished[id]
  /\ stopping = "done" /\ routine[id] \in {"select", "broadcast"} => finished[id]
  /\ routine[id] = "broadcast" => todo[id] # {}
  /\ routine[id] = "none" => join[id] = <<>> /\ leave[id] = <<>> /\ incoming[id] = <<>>
  /\ sending[id] # NoClient => routine[id] \in {"select", "broadcast"}

StopInv ==
  /\ stopping = "done" => call = NoCall
  /\ stopping = "no" => inflight = {}
  /\ \A c \in inflight : sent[c] < MaxSent[c]
  /\ \A id \in ChannelId : Told(id)

\* Every step of the relay keeps StopInv.
LEMMA StopInvNext == TypeOK /\ RoutineRegistered /\ StopInv /\ [Next]_vars => StopInv'
<1> SUFFICES ASSUME TypeOK, RoutineRegistered, StopInv, [Next]_vars PROVE StopInv'
  OBVIOUS
<1>1. ASSUME NEW c \in Address, HandlerReads(c), stopping' = stopping
      PROVE  /\ stopping' # "done"
             /\ stopping' = "no" => inflight' = {}
             /\ \A d \in inflight' : sent'[d] < MaxSent[d]
  BY <1>1 DEF HandlerReads, StopInv, TypeOK
<1>2. ASSUME NEW c \in Address, Handler(c) PROVE StopInv'
  <2>1. HandlerReads(c) /\ stopping' = stopping /\ UNCHANGED chanVars
    BY <1>2 DEF Handler, ProcessWithoutId, ProcessRefused, Process
  <2>2. stopping # "done"
    BY <1>1, <2>1
  <2>3. ASSUME NEW id \in ChannelId PROVE Told(id)'
    <3>1. routine'[id] = routine[id] \/ (routine[id] = "none" /\ routine'[id] = "select")
      BY <1>2 DEF Handler, ProcessWithoutId, ProcessRefused, Process, TypeOK,
         RoutineRegistered, Refusing
    <3>2. Told(id)
      BY DEF StopInv
    <3> QED
      BY <2>1, <2>2, <3>1, <3>2 DEF Told, chanVars
  <2> QED
    BY <1>1, <2>1, <2>3 DEF StopInv
<1>3. CASE NewMessage
  <2>1. /\ call # NoCall /\ ~Refusing /\ call' = NoCall /\ EnqueueCall(call.channel)
        /\ routine' = routine /\ todo' = todo /\ done' = done /\ finished' = finished
        /\ sending' = sending /\ sent' = sent /\ stopping' = stopping /\ inflight' = inflight
    BY <1>3 DEF NewMessage, connVars, stopVars
  <2>2. ASSUME NEW id \in ChannelId PROVE Told(id)'
    <3>1. Told(id)
      BY DEF StopInv
    <3>2. CASE id = call.channel
      <4>1. routine[id] # "none"
        BY <2>1, <3>2 DEF RoutineRegistered
      <4> QED
        BY <2>1, <3>1, <4>1 DEF Told
    <3>3. CASE id # call.channel
      <4>1. join'[id] = join[id] /\ leave'[id] = leave[id] /\ incoming'[id] = incoming[id]
        BY <2>1, <3>3 DEF EnqueueCall, TypeOK
      <4> QED
        BY <2>1, <3>1, <4>1 DEF Told
    <3> QED
      BY <3>2, <3>3
  <2> QED
    BY <2>1, <2>2 DEF StopInv
<1>4. ASSUME NEW k \in ChannelId, ChannelStep(k) PROVE StopInv'
  <2>1. /\ call' = call /\ sent' = sent /\ stopping' = stopping /\ inflight' = inflight
    BY <1>4 DEF ChannelStep, ChannelJoin, ChannelLeave, ChannelIncoming, ChannelBroadcast,
       DeleteChannel, ChannelFinished, SendReturns, connVars, stopVars, ChannelSend
  <2>2. ASSUME NEW id \in ChannelId PROVE Told(id)'
    <3>1. Told(id)
      BY DEF StopInv
    <3>2. CASE id # k
      <4>1. /\ routine'[id] = routine[id] /\ todo'[id] = todo[id]
            /\ done'[id] = done[id] /\ finished'[id] = finished[id]
            /\ join'[id] = join[id] /\ leave'[id] = leave[id] /\ incoming'[id] = incoming[id]
            /\ sending'[id] = sending[id]
        <5>1. CASE ChannelJoin(k)
          BY <3>2, <5>1 DEF ChannelJoin, TypeOK, ChannelSend
        <5>2. CASE ChannelLeave(k)
          BY <3>2, <5>2 DEF ChannelLeave, TypeOK
        <5>3. CASE ChannelIncoming(k)
          BY <3>2, <5>3 DEF ChannelIncoming, TypeOK
        <5>4. ASSUME NEW c \in Address, ChannelBroadcast(k, c)
                 PROVE  /\ routine'[id] = routine[id] /\ todo'[id] = todo[id]
                        /\ done'[id] = done[id] /\ finished'[id] = finished[id]
                        /\ join'[id] = join[id] /\ leave'[id] = leave[id]
                        /\ incoming'[id] = incoming[id] /\ sending'[id] = sending[id]
          BY <3>2, <5>4 DEF ChannelBroadcast, TypeOK, ChannelSend
        <5>5. CASE DeleteChannel(k)
          BY <3>2, <5>5 DEF DeleteChannel, TypeOK
        <5>6. CASE ChannelFinished(k)
          BY <3>2, <5>6 DEF ChannelFinished, chanVars, TypeOK
        <5>7. CASE SendReturns(k)
          BY <3>2, <5>7 DEF SendReturns, TypeOK
        <5> QED
          BY <1>4, <5>1, <5>2, <5>3, <5>4, <5>5, <5>6, <5>7 DEF ChannelStep
      <4> QED
        BY <2>1, <3>1, <4>1 DEF Told
    <3>3. CASE id = k /\ ChannelJoin(k)
      BY <2>1, <3>1, <3>3 DEF ChannelJoin, Told, ChannelSend, TypeOK
    <3>4. CASE id = k /\ ChannelLeave(k)
      BY <2>1, <3>1, <3>4 DEF ChannelLeave, Told, TypeOK
    <3>5. CASE id = k /\ ChannelIncoming(k)
      BY <2>1, <3>1, <3>5 DEF ChannelIncoming, Told, TypeOK
    <3>6. ASSUME id = k, NEW c \in Address, ChannelBroadcast(k, c) PROVE Told(id)'
      <4>1. /\ routine[k] = "broadcast" /\ c \in todo[k]
            /\ todo' = [todo EXCEPT ![k] = @ \ {c}]
            /\ \/ todo[k] = {c} /\ routine' = [routine EXCEPT ![k] = "select"]
               \/ todo[k] # {c} /\ routine' = routine
            /\ done' = done /\ finished' = finished
        BY <3>6 DEF ChannelBroadcast, ChannelSend
      <4>2. todo'[k] = todo[k] \ {c} /\ routine'[k] \in {"select", "broadcast"}
        BY <4>1 DEF TypeOK
      <4>3. routine'[k] = "broadcast" => todo'[k] # {}
        BY <4>1, <4>2 DEF TypeOK
      <4> QED
        BY <2>1, <3>1, <3>6, <4>1, <4>2, <4>3 DEF Told
    <3>7. CASE id = k /\ DeleteChannel(k)
      BY <2>1, <3>1, <3>7 DEF DeleteChannel, Told, TypeOK
    <3>8. CASE id = k /\ ChannelFinished(k)
      BY <2>1, <3>1, <3>8 DEF ChannelFinished, Told, TypeOK, chanVars
    <3>9. CASE id = k /\ SendReturns(k)
      BY <2>1, <3>1, <3>9 DEF SendReturns, Told, TypeOK
    <3> QED
      BY <1>4, <3>2, <3>3, <3>4, <3>5, <3>6, <3>7, <3>8, <3>9 DEF ChannelStep
  <2> QED
    BY <2>1, <2>2 DEF StopInv
<1>5. ASSUME NEW c \in Address, ConnDown(c) \/ Stall(c) \/ ReadsAgain(c) PROVE StopInv'
  BY <1>5 DEF ConnDown, Stall, ReadsAgain, StopInv, Told, chanVars, stopVars
<1>9. CASE RefusalReturns
  BY <1>9 DEF RefusalReturns, StopInv, Told, chanVars, connVars, stopVars
<1>6. CASE StopRouter
  BY <1>6 DEF StopRouter, CanBeInFlight, StopInv, Told, chanVars, connVars
<1>7. CASE StopChannels
  <2>1. /\ stopping = "router" /\ stopping' = "done" /\ call = NoCall /\ call' = call
        /\ inflight = {} /\ inflight' = inflight
        /\ finished' = [id \in ChannelId |-> finished[id] \/ ToStop(id)]
        /\ done' = [id \in ChannelId |-> done[id] \/ ToStop(id)]
        /\ routine' = routine /\ join' = join /\ leave' = leave /\ incoming' = incoming
        /\ todo' = todo /\ sending' = sending
    BY <1>7 DEF StopChannels
  <2>2. ASSUME NEW id \in ChannelId PROVE Told(id)'
    <3>1. Told(id) /\ (id \in channels <=> routine[id] # "none")
      BY DEF StopInv, RoutineRegistered, Refusing
    <3>2. /\ finished'[id] <=> finished[id] \/ (id \in channels /\ ~done[id])
          /\ done'[id] <=> done[id] \/ (id \in channels /\ ~done[id])
      BY <2>1 DEF ToStop
    <3> QED
      BY <2>1, <3>1, <3>2 DEF Told
  <2> QED
    BY <2>1, <2>2 DEF StopInv
<1>8. CASE UNCHANGED vars
  BY <1>8 DEF vars, chanVars, connVars, stopVars, StopInv, Told
<1> QED
  BY <1>2, <1>3, <1>4, <1>5, <1>6, <1>7, <1>8, <1>9 DEF Next

\* A message in newMessage that has no room waits for a goroutine that waits for
\* channelsMut or for a client that does not read.
LEMMA RestCall ==
  ASSUME TypeOK, RoutineRegistered, StopInv, AtRest, call # NoCall
  PROVE  LockCycle \/ CallBlocked
<1> SUFFICES ASSUME ~Refusing PROVE LockCycle \/ CallBlocked
  BY DEF AtRest, CallBlocked
<1>1. /\ call.channel \in ChannelId /\ call.type \in RequestType
      /\ call.channel \in channels
  BY DEF TypeOK, Call, RoutineRegistered
<1>. DEFINE id == call.channel
<1>2. ~HasRoom(QueueOf(call.type, id))
  BY DEF AtRest
<1> SUFFICES ASSUME sending[id] = NoClient PROVE LockCycle
  BY <1>1, <1>2 DEF AtRest, CallBlocked, SendBlocked
<1>3. Told(id) /\ routine[id] \in {"select", "broadcast", "delete", "returned"}
  BY <1>1 DEF StopInv, TypeOK, RoutineRegistered
<1>4. routine[id] # "returned"
  BY <1>1, <1>3 DEF StopInv, RoutineRegistered, Told
<1>5. routine[id] # "broadcast"
  BY <1>1, <1>3 DEF Told, AtRest
<1>6. routine[id] # "select"
  <2> SUFFICES ASSUME routine[id] = "select" PROVE FALSE
    OBVIOUS
  <2>1. join[id] = <<>> /\ leave[id] = <<>> /\ incoming[id] = <<>>
    BY <1>1 DEF AtRest
  <2>2. QueueOf(call.type, id) = <<>>
    BY <1>1, <2>1 DEF QueueOf, RequestType
  <2> QED
    BY <1>2, <2>2, ConstantsAssumption DEF HasRoom
<1> QED
  BY <1>2, <1>3, <1>4, <1>5, <1>6 DEF LockCycle

\* Nobody has a step when all are at rest.
LEMMA RestIsRest == ASSUME TypeOK, RoutineRegistered, StopInv, AtRest PROVE ~GoesOn
<1>1. ~NewMessage
  <2> SUFFICES ASSUME call # NoCall, ~Refusing, EnqueueCall(call.channel) PROVE FALSE
    BY DEF NewMessage
  <2>1. ~HasRoom(QueueOf(call.type, call.channel))
    BY DEF AtRest
  <2>2. HasRoom(<<>>)
    BY ConstantsAssumption DEF HasRoom
  <2> QED
    BY <2>1, <2>2 DEF EnqueueCall, QueueOf
<1>2. ASSUME NEW id \in ChannelId PROVE ~ChannelStep(id)
  BY DEF ChannelStep, ChannelJoin, ChannelLeave, ChannelIncoming, ChannelBroadcast,
     DeleteChannel, ChannelFinished, SendReturns, AtRest, ChannelSend
<1>3. ~(stopping = "router" /\ \E c \in Address : Handler(c))
  <2> SUFFICES ASSUME stopping = "router", NEW c \in Address, HandlerReads(c) PROVE FALSE
    BY DEF Handler, ProcessWithoutId, ProcessRefused, Process
  <2>1. call = NoCall /\ c \in inflight /\ sent[c] < MaxSent[c]
    BY DEF HandlerReads
  <2>2. sent[c] >= MaxSent[c] /\ sent[c] \in Nat /\ MaxSent[c] \in Nat
    BY <2>1, ConstantsAssumption DEF AtRest, TypeOK
  <2> QED
    BY <2>1, <2>2
<1>4. ~StopChannels
  BY DEF StopChannels, AtRest
<1>5. ~RefusalReturns
  BY DEF RefusalReturns, AtRest
<1> QED
  BY <1>1, <1>2, <1>3, <1>4, <1>5 DEF GoesOn

\* Whoever rests is idle, held up, or in the lock cycle.
LEMMA RestSettled ==
  ASSUME TypeOK, RoutineRegistered, StopInv, AtRest
  PROVE  Settled \/ LockCycle
<1> SUFFICES ASSUME ~LockCycle PROVE Settled
  OBVIOUS
<1>1. call # NoCall => CallBlocked
  BY RestCall
<1>2. stopping # "router"
  <2>1. \A c \in inflight : sent[c] < MaxSent[c] /\ sent[c] \in Nat /\ MaxSent[c] \in Nat
    BY ConstantsAssumption DEF StopInv, TypeOK
  <2>2. CallBlocked => stopping = "no"
    BY DEF CallBlocked, SendBlocked, Blocked, Reachable
  <2> QED
    BY <1>1, <2>1, <2>2 DEF AtRest
<1>3. ASSUME NEW id \in ChannelId PROVE Idle(id) \/ HeldUp(id)
  <2>1. /\ Told(id) /\ routine[id] \in {"none", "select", "broadcast", "delete", "returned"}
        /\ stopping \in {"no", "done"} /\ (routine[id] = "returned" => finished[id])
    BY <1>2 DEF StopInv, TypeOK, RoutineRegistered
  <2>2. CASE routine[id] = "delete" \/ sending[id] # NoClient
    BY <1>1, <2>2 DEF AtRest, HeldUp, SendBlocked
  <2>3. CASE routine[id] # "delete" /\ sending[id] = NoClient
    <3>1. routine[id] # "broadcast"
      BY <2>1, <2>3 DEF AtRest, Told
    <3>2. routine[id] = "select" => /\ join[id] = <<>> /\ leave[id] = <<>>
                                    /\ incoming[id] = <<>> /\ ~finished[id]
      BY <2>3 DEF AtRest
    <3> QED
      BY <2>1, <2>3, <3>1, <3>2 DEF Told, Idle
  <2> QED
    BY <2>2, <2>3
<1> QED
  BY <1>1, <1>2, <1>3 DEF Settled

\* Once nobody can go on by himself, the lock cycle has closed, or Stop has returned or
\* has not been called and every channel is idle or held up by a client that keeps its
\* connection and does not read, in whose Send its own goroutine waits, or Process with
\* channelsMut held: there is no other deadlock, for any clients, channels and queues
\* (Process, newMessage, process, deleteChannel, Stop, sendRaw).
THEOREM RestCorrect == Spec => [](AtRest => Settled \/ LockCycle)
<1>1. Init => StopInv
  BY DEF Init, StopInv, Told
<1>2. TypeOK /\ RoutineRegistered /\ StopInv => (AtRest => Settled \/ LockCycle)
  BY RestSettled
<1> QED
  BY <1>1, <1>2, StopInvNext, TypeCorrect, RegistrationCorrect, PTL DEF Spec

\* AtRest says what it should: from there only a client that sends, reads again or ends
\* its connection, or a call of Stop, brings the relay on.
THEOREM RestMeansRest == Spec => [][AtRest => ~GoesOn]_vars
<1>1. Init => StopInv
  BY DEF Init, StopInv, Told
<1>2. TypeOK /\ RoutineRegistered /\ StopInv => (AtRest => ~GoesOn)
  BY RestIsRest
<1> QED
  BY <1>1, <1>2, StopInvNext, TypeCorrect, RegistrationCorrect, PTL DEF Spec

=============================================================================
