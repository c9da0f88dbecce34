-------------------------- MODULE MultiplexerProofs --------------------------
(***************************************************************************)
(* Proofs about Multiplexer, for any number of goroutines, whichever       *)
(* channels they share, and for queues of any size.                        *)
(***************************************************************************)
EXTENDS Multiplexer, SequenceTheorems, TLAPS

-----------------------------------------------------------------------------
(***************************************************************************)
(* The inductive invariant.                                                *)
(***************************************************************************)

\* A message that carries a payload if it is EGRESS.
Frame == {m \in Message : m.type = "EGRESS" => m.blob \in Blob}

\* The types, of messages as they really are.
Types ==
  /\ TypeOK
  /\ egress \in [Object -> Seq(Frame)]
  /\ out \in [{Client} -> Seq(Frame)]
  /\ routine \in {"lock", "dispatch"} => message \in Frame

Joining(t) == pc[t] \in {"join", "wait", "failed"}

\* Whose clientChannels are whose: a goroutine works with channels that it uses, and
\* is creating or closing at most one.
Objects ==
  /\ \A t \in Thread : pc[t] = "idle" <=> object[t] = 0
  /\ \A t \in Thread : object[t] # 0 => object[t] <= made /\ ident[object[t]] \in Uses[t]
  /\ \A t \in Thread : \A o \in holds[t] : o <= made /\ ident[o] \in Uses[t]
  /\ \A t \in Thread : Joining(t) => object[t] \notin holds[t]
  /\ \A o \in Object : o <= made => ident[o] \in ChannelId
  /\ \A o \in Object : o > made => ~done[o] /\ egress[o] = <<>>
  /\ \A id \in ChannelId : channels[id] # 0 => ident[channels[id]] = id /\ channels[id] <= made

\* The clientChannel that routine() is about to hand a message to is registered:
\* chanMut is held.
Dispatching ==
  /\ target # 0 => routine = "dispatch"
  /\ routine = "dispatch" =>
       message.channel \in ChannelId /\ channels[message.channel] = target

\* A clientChannel that has been closed is being unregistered, or is unregistered.
Gone ==
  /\ \A o \in Object : done[o] => \/ \E t \in Thread : pc[t] = "closing" /\ object[t] = o
                                  \/ \A id \in ChannelId : channels[id] # o
  /\ \A t \in Thread : pc[t] = "closing" => done[object[t]]

InProgress(o) == \E t \in Thread : object[t] = o

Waiting(o) == \E t \in Thread : object[t] = o /\ pc[t] = "wait"

\* A clientChannel with one user is registered exactly while the user creates it, holds
\* it or closes it; the connection is not closed below one that is joined or waits to be.
OneUser ==
  /\ \A o \in Object : Private(o) /\ (Held(o) \/ InProgress(o)) => channels[ident[o]] = o
  /\ \A o \in Object : Private(o) /\ (Held(o) \/ Waiting(o)) => ~closed
  /\ \A id \in ChannelId : channels[id] # 0 /\ Private(channels[id]) =>
       Held(channels[id]) \/ InProgress(channels[id])
  /\ \A t \in Thread : Joining(t) /\ Private(object[t]) => ~done[object[t]]

\* A clientChannel for the id has been closed.
Left(id) == \E o \in Object : ident[o] = id /\ done[o]

\* The client is a member, or has asked to leave.
Joins(id) == id \in member[Client] \/ Left(id)

\* The channels that the JOIN_OK messages of a queue are about.
Accepts(q) == {q[i].channel : i \in {j \in 1..Len(q) : q[j].type = "JOIN_OK"}}

\* A JOIN_OK, wherever it is, says so of its channel; and messages are handed to the
\* clientChannel of their id.
Membership ==
  /\ \A id \in ChannelId : leaves[Client][id] > 0 => Left(id)
  /\ \A id \in Accepts(out[Client]) : Joins(id)
  /\ routine \in {"lock", "dispatch"} /\ message.type = "JOIN_OK" => Joins(message.channel)
  /\ \A o \in Object : Accepts(egress[o]) # {} => Joins(ident[o])
  /\ \A o \in Object : Private(o) /\ Held(o) => Joins(ident[o])

MultiplexerInv == Types /\ Objects /\ Dispatching /\ Gone /\ OneUser /\ Membership

\* What the invariant says of clientChannels that have been closed.
LEMMA InvClosed == MultiplexerInv => ClosedIsGone
<1>. SUFFICES ASSUME MultiplexerInv, NEW o \in Object, done[o], \A t \in Thread : object[t] # o
              PROVE  target # o /\ \A id \in ChannelId : channels[id] # o
  BY DEF ClosedIsGone
<1>1. \A id \in ChannelId : channels[id] # o
  BY DEF MultiplexerInv, Gone
<1>2. o # 0
  BY DEF Object
<1>. QED
  BY <1>1, <1>2 DEF MultiplexerInv, Dispatching

\* What it says of those that one goroutine holds.
LEMMA InvHeld == MultiplexerInv => HeldIsRegistered
BY DEF MultiplexerInv, OneUser, HeldIsRegistered

\* What it says of the first one for its id.
LEMMA InvMember == MultiplexerInv => FirstIsMember
BY DEF MultiplexerInv, Membership, Joins, Left, Held, FirstIsMember

\* Nothing is registered at first.
LEMMA MultiplexerInitInv == Init => MultiplexerInv
<1>. SUFFICES ASSUME Init PROVE MultiplexerInv
  OBVIOUS
<1>1. TypeOK
  <2>1. made \in 0..MaxMade
    BY MultiplexerAssumption DEF Init
  <2>2. /\ egress \in [Object -> Seq(Message)] /\ received \in [Object -> Seq(Blob)]
        /\ out \in [{Client} -> Seq(Message)]
    BY DEF Init, Relay!Init
  <2>3. /\ joins \in [{Client} -> [ChannelId -> Nat]] /\ leaves \in [{Client} -> [ChannelId -> Nat]]
        /\ member \in [{Client} -> SUBSET ChannelId] /\ open \in [{Client} -> BOOLEAN]
        /\ forwarded \in [ChannelId -> Nat]
    BY DEF Init, Relay!Init
  <2>4. /\ channels \in [ChannelId -> Object \cup {0}]
        /\ ident \in [Object -> ChannelId \cup {NoChannel}]
        /\ done \in [Object -> BOOLEAN]
        /\ object \in [Thread -> Object \cup {0}]
        /\ holds \in [Thread -> SUBSET Object]
        /\ pc \in [Thread -> {"idle", "join", "wait", "failed", "closing"}]
    BY DEF Init
  <2>. QED
    BY <2>1, <2>2, <2>3, <2>4 DEF Init, TypeOK
<1>2. Types
  BY <1>1 DEF Init, Types, Relay!Init
<1>3. \A t \in Thread : pc[t] = "idle" /\ object[t] = 0 /\ holds[t] = {}
  BY DEF Init
<1>4. Objects
  BY <1>3 DEF Init, Objects, Joining, Object
<1>5. Dispatching /\ Gone /\ OneUser
  BY <1>3 DEF Init, Dispatching, Gone, OneUser, Held, InProgress, Waiting, Joining, Object
<1>6. Membership
  BY <1>3 DEF Init, Membership, Held, Accepts, Relay!Init
<1>. QED
  BY <1>2, <1>4, <1>5, <1>6 DEF MultiplexerInv

-----------------------------------------------------------------------------
(***************************************************************************)
(* The relay.                                                              *)
(***************************************************************************)
RelayTypes ==
  /\ joins \in [{Client} -> [ChannelId -> Nat]]
  /\ leaves \in [{Client} -> [ChannelId -> Nat]]
  /\ member \in [{Client} -> SUBSET ChannelId]
  /\ open \in [{Client} -> BOOLEAN]
  /\ out \in [{Client} -> Seq(Frame)]

\* What the relay writes is a message; only what it forwards has a payload.
LEMMA FrameTypes ==
  /\ \A id \in ChannelId \cup {NoChannel} : \A ty \in {"JOIN_OK", "JOIN_FAILURE"} :
       Relay!Message(ty, id, NoBlob) \in Frame
  /\ \A id \in ChannelId, b \in Blob : Relay!Message("EGRESS", id, b) \in Frame
BY DEF Relay!Message, Frame, Message

\* The relay writes a message.
LEMMA WriteTypes ==
  ASSUME RelayTypes, NEW m \in Frame, Relay!Write(Client, m)
  PROVE  /\ out' \in [{Client} -> Seq(Frame)]
         /\ out'[Client] \in {out[Client], Append(out[Client], m)}
BY DEF RelayTypes, Relay!Write

\* The requests are read or refused.
LEMMA AskTypes ==
  ASSUME RelayTypes, NEW id \in ChannelId,
         \/ Relay!AskJoin(Client, id) \/ Relay!AskLeave(Client, id) \/ Relay!Refuse(Client)
         \/ UNCHANGED relayVars
  PROVE  RelayTypes'
<1>1. CASE Relay!AskJoin(Client, id)
  BY <1>1 DEF RelayTypes, Relay!AskJoin
<1>2. CASE Relay!AskLeave(Client, id)
  BY <1>2 DEF RelayTypes, Relay!AskLeave
<1>3. CASE Relay!Refuse(Client)
  <2>1. out' \in [{Client} -> Seq(Frame)]
    BY <1>3, WriteTypes, FrameTypes DEF Relay!Refuse
  <2>. QED
    BY <1>3, <2>1 DEF RelayTypes, Relay!Refuse
<1>4. CASE UNCHANGED relayVars
  BY <1>4 DEF RelayTypes, relayVars
<1>. QED
  BY <1>1, <1>2, <1>3, <1>4

\* The requests are served or forgotten.
LEMMA ServeTypes ==
  ASSUME RelayTypes, NEW id \in ChannelId,
         \/ Relay!Accept(Client, id) \/ Relay!Full(Client, id)
         \/ Relay!Leave(Client, id) \/ Relay!Forget(id)
  PROVE  RelayTypes'
<1>1. CASE Relay!Accept(Client, id) \/ Relay!Full(Client, id)
  <2>1. out' \in [{Client} -> Seq(Frame)]
    BY <1>1, WriteTypes, FrameTypes DEF Relay!Accept, Relay!Full
  <2>2. joins' = [joins EXCEPT ![Client][id] = @ - 1] /\ joins[Client][id] > 0
    BY <1>1 DEF Relay!Accept, Relay!Full
  <2>3. joins' \in [{Client} -> [ChannelId -> Nat]]
    <3>1. joins[Client][id] - 1 \in Nat
      BY <2>2 DEF RelayTypes
    <3>. QED
      BY <2>2, <3>1 DEF RelayTypes
  <2>4. member' \in [{Client} -> SUBSET ChannelId]
    BY <1>1 DEF RelayTypes, Relay!Accept, Relay!Full
  <2>. QED
    BY <1>1, <2>1, <2>3, <2>4 DEF RelayTypes, Relay!Accept, Relay!Full
<1>2. CASE Relay!Leave(Client, id)
  <2>1. leaves[Client][id] - 1 \in Nat
    BY <1>2 DEF RelayTypes, Relay!Leave
  <2>. QED
    BY <1>2, <2>1 DEF RelayTypes, Relay!Leave
<1>3. CASE Relay!Forget(id)
  BY <1>3 DEF RelayTypes, Relay!Forget
<1>. QED
  BY <1>1, <1>2, <1>3

-----------------------------------------------------------------------------
(***************************************************************************)
(* The types.                                                              *)
(***************************************************************************)

\* Those of the relay among them.
LEMMA TypesOfRelay == Types => RelayTypes
BY DEF Types, TypeOK, RelayTypes

\* A queue of frames is one of messages.
LEMMA FramesAreMessages == ASSUME NEW q \in Seq(Frame) PROVE q \in Seq(Message)
BY DEF Frame

\* A step of the relay.
LEMMA RelayStepTypes ==
  ASSUME Types, RelayTypes', UNCHANGED muxVars, forwarded' \in [ChannelId -> Nat]
  PROVE  Types'
<1>1. out' \in [{Client} -> Seq(Message)]
  BY FramesAreMessages DEF RelayTypes
<1>2. TypeOK'
  BY <1>1 DEF Types, TypeOK, RelayTypes, muxVars, objectVars, routineVars, threadVars
<1>. QED
  BY <1>2 DEF Types, RelayTypes, muxVars, objectVars, routineVars, threadVars

\* Channel and Close, but for their requests and the answer.
LEMMA ThreadTypes ==
  ASSUME Types, NEW t \in Thread,
         \/ \E id \in ChannelId : ChannelKnown(t, id) \/ ChannelNew(t, id)
         \/ JoinTimeout(t) \/ JoinCleanup(t) \/ ChannelDone(t)
  PROVE  Types'
<1>1. UNCHANGED <<egress, done, routine, message, target, received, forwarded, relayVars>>
  BY DEF ChannelKnown, ChannelNew, JoinTimeout, JoinCleanup, ChannelDone, routineVars,
         historyVars
<1>2. /\ channels' \in [ChannelId -> Object \cup {0}]
      /\ made' \in 0..MaxMade
      /\ ident' \in [Object -> ChannelId \cup {NoChannel}]
      /\ pc' \in [Thread -> {"idle", "join", "wait", "failed", "closing"}]
      /\ object' \in [Thread -> Object \cup {0}]
      /\ holds' \in [Thread -> SUBSET Object]
      /\ closed' \in BOOLEAN
  <2>1. ASSUME NEW id \in ChannelId, ChannelKnown(t, id)
        PROVE  UNCHANGED <<channels, made, ident, pc, object, closed>>
               /\ holds' \in [Thread -> SUBSET Object]
    BY <2>1 DEF ChannelKnown, objectVars, Types, TypeOK
  <2>2. ASSUME NEW id \in ChannelId, ChannelNew(t, id)
        PROVE  /\ channels' \in [ChannelId -> Object \cup {0}]
               /\ made' \in 0..MaxMade
               /\ ident' \in [Object -> ChannelId \cup {NoChannel}]
               /\ pc' \in [Thread -> {"idle", "join", "wait", "failed", "closing"}]
               /\ object' \in [Thread -> Object \cup {0}]
               /\ UNCHANGED <<holds, closed>>
    <3>1. made' \in Object /\ made' \in 0..MaxMade
      BY <2>2, MultiplexerAssumption DEF ChannelNew, Types, TypeOK, Object
    <3>. QED
      BY <2>2, <3>1 DEF ChannelNew, Types, TypeOK
  <2>3. CASE JoinTimeout(t)
    BY <2>3 DEF JoinTimeout, objectVars, Types, TypeOK
  <2>4. CASE JoinCleanup(t)
    BY <2>4 DEF JoinCleanup, Types, TypeOK
  <2>5. CASE ChannelDone(t)
    <3>1. closed' \in BOOLEAN
      BY <2>5 DEF ChannelDone, LastChannel, Types, TypeOK
    <3>. QED
      BY <2>5, <3>1 DEF ChannelDone, Types, TypeOK
  <2>. QED
    BY <2>1, <2>2, <2>3, <2>4, <2>5 DEF Types, TypeOK
<1>3. TypeOK'
  BY <1>1, <1>2 DEF Types, TypeOK, relayVars
<1>. QED
  BY <1>1, <1>3 DEF Types, relayVars

\* A goroutine that is creating or closing a clientChannel does so for a channel.
LEMMA ObjectIdent ==
  ASSUME Types, Objects, NEW t \in Thread
  PROVE  /\ pc[t] # "idle" => object[t] \in Object /\ ident[object[t]] \in ChannelId
         /\ \A o \in holds[t] : o \in Object /\ ident[o] \in ChannelId
BY MultiplexerAssumption DEF Types, TypeOK, Objects

\* What the relay does when JOIN or LEAVE is sent.
LEMMA RequestSteps ==
  ASSUME Types, Objects, NEW t \in Thread
  PROVE  /\ JoinSend(t) => \E id \in ChannelId :
              Relay!AskJoin(Client, id) \/ Relay!Refuse(Client) \/ UNCHANGED relayVars
         /\ \A o \in Object : CloseLeave(t, o) => ident[o] \in ChannelId /\
              (\/ Relay!AskLeave(Client, ident[o]) \/ Relay!Refuse(Client)
               \/ UNCHANGED relayVars)
<1>1. ASSUME JoinSend(t)
      PROVE \E id \in ChannelId :
              Relay!AskJoin(Client, id) \/ Relay!Refuse(Client) \/ UNCHANGED relayVars
  <2>1. ident[object[t]] \in ChannelId
    BY <1>1, ObjectIdent DEF JoinSend
  <2>. QED
    BY <1>1, <2>1 DEF JoinSend, Sends, SendFails
<1>2. ASSUME NEW o \in Object, CloseLeave(t, o)
      PROVE  ident[o] \in ChannelId /\
              (\/ Relay!AskLeave(Client, ident[o]) \/ Relay!Refuse(Client)
               \/ UNCHANGED relayVars)
  <2>1. ident[o] \in ChannelId
    BY <1>2, ObjectIdent DEF CloseLeave
  <2>. QED
    BY <1>2, <2>1 DEF CloseLeave, Sends, SendFails
<1>. QED
  BY <1>1, <1>2

\* JOIN and LEAVE are sent.
LEMMA RequestTypes ==
  ASSUME Types, Objects, NEW t \in Thread,
         JoinSend(t) \/ \E o \in Object : CloseLeave(t, o)
  PROVE  Types'
<1>1. UNCHANGED <<channels, made, ident, egress, routine, message, target, holds, closed,
                  received, forwarded>>
  BY DEF JoinSend, CloseLeave, objectVars, routineVars, historyVars
<1>2. /\ done' \in [Object -> BOOLEAN]
      /\ pc' \in [Thread -> {"idle", "join", "wait", "failed", "closing"}]
      /\ object' \in [Thread -> Object \cup {0}]
  <2>1. CASE JoinSend(t)
    BY <2>1 DEF JoinSend, Types, TypeOK
  <2>2. CASE \E o \in Object : CloseLeave(t, o)
    BY <2>2 DEF CloseLeave, Types, TypeOK
  <2>. QED
    BY <2>1, <2>2
<1>3. RelayTypes'
  BY RequestSteps, TypesOfRelay, AskTypes
<1>4. out' \in [{Client} -> Seq(Message)]
  BY <1>3, FramesAreMessages DEF RelayTypes
<1>5. TypeOK'
  BY <1>1, <1>2, <1>3, <1>4 DEF Types, TypeOK, RelayTypes
<1>. QED
  BY <1>1, <1>3, <1>5 DEF Types, RelayTypes

\* A message leaves the egress of a clientChannel.
LEMMA TailTypes ==
  ASSUME Types, NEW o \in Object, egress[o] # <<>>, egress' = [egress EXCEPT ![o] = Tail(@)]
  PROVE  /\ egress' \in [Object -> Seq(Frame)] /\ egress' \in [Object -> Seq(Message)]
         /\ Head(egress[o]) \in Frame
<1>1. egress[o] \in Seq(Frame) /\ Tail(egress[o]) \in Seq(Frame)
  BY DEF Types
<1>2. egress' \in [Object -> Seq(Frame)] /\ Head(egress[o]) \in Frame
  BY <1>1 DEF Types
<1>. QED
  BY <1>2, FramesAreMessages

\* The answer of the relay.
LEMMA AnswerTypes ==
  ASSUME Types, Objects, NEW t \in Thread, JoinAnswer(t) PROVE Types'
<1>1. /\ UNCHANGED <<channels, made, ident, done, routine, message, target, closed, received,
                     forwarded, relayVars>>
      /\ object[t] \in Object
      /\ egress[object[t]] # <<>> /\ egress' = [egress EXCEPT ![object[t]] = Tail(@)]
  BY ObjectIdent DEF JoinAnswer, objectVars, routineVars, historyVars
<1>2. /\ pc' \in [Thread -> {"idle", "join", "wait", "failed", "closing"}]
      /\ object' \in [Thread -> Object \cup {0}]
      /\ holds' \in [Thread -> SUBSET Object]
  <2>1. PICK p \in {"idle", "failed"} : pc' = [pc EXCEPT ![t] = p]
    BY DEF JoinAnswer
  <2>2. /\ object' \in {object, [object EXCEPT ![t] = 0]}
        /\ holds' \in {holds, [holds EXCEPT ![t] = @ \cup {object[t]}]}
    BY DEF JoinAnswer
  <2>3. pc' \in [Thread -> {"idle", "join", "wait", "failed", "closing"}]
    BY <2>1 DEF Types, TypeOK
  <2>4. object' \in [Thread -> Object \cup {0}]
    BY <2>2 DEF Types, TypeOK
  <2>5. holds' \in [Thread -> SUBSET Object]
    <3>1. holds[t] \cup {object[t]} \in SUBSET Object
      BY <1>1 DEF Types, TypeOK
    <3>. QED
      BY <2>2, <3>1 DEF Types, TypeOK
  <2>. QED
    BY <2>3, <2>4, <2>5
<1>3. TypeOK'
  BY <1>1, <1>2, TailTypes DEF Types, TypeOK, relayVars
<1>. QED
  BY <1>1, <1>3, TailTypes DEF Types, relayVars

\* Receive.
LEMMA ReceiveTypes ==
  ASSUME Types, NEW t \in Thread, NEW o \in Object, Receive(t, o) PROVE Types'
<1>1. /\ UNCHANGED <<channels, made, ident, done, routine, message, target, pc, object, holds,
                     closed, forwarded, relayVars>>
      /\ egress[o] # <<>> /\ egress' = [egress EXCEPT ![o] = Tail(@)]
      /\ received' = [received EXCEPT ![o] = @ \o Delivered(Head(egress[o]))]
  BY DEF Receive, objectVars, routineVars, threadVars
<1>2. Delivered(Head(egress[o])) \in Seq(Blob)
  <2>1. PICK m \in Frame : m = Head(egress[o])
    BY <1>1, TailTypes
  <2>2. CASE m.type = "EGRESS"
    <3>1. m.blob \in Blob
      BY <2>2 DEF Frame
    <3>2. Delivered(m) = <<m.blob>>
      BY <2>2 DEF Delivered
    <3>3. <<m.blob>> \in Seq(Blob)
      BY <3>1
    <3>. QED
      BY <2>1, <3>2, <3>3
  <2>3. CASE m.type # "EGRESS"
    <3>1. Delivered(m) = <<>>
      BY <2>3 DEF Delivered
    <3>2. <<>> \in Seq(Blob)
      OBVIOUS
    <3>. QED
      BY <2>1, <3>1, <3>2
  <2>. QED
    BY <2>2, <2>3
<1>3. received' \in [Object -> Seq(Blob)]
  BY <1>1, <1>2 DEF Types, TypeOK
<1>4. TypeOK'
  BY <1>1, <1>3, TailTypes DEF Types, TypeOK, relayVars
<1>. QED
  BY <1>1, <1>4, TailTypes DEF Types, relayVars

\* routine().
LEMMA RoutineTypes == ASSUME Types, Dispatching, RoutineStep PROVE Types'
<1>1. UNCHANGED <<channels, made, ident, done, pc, object, holds, closed, received, forwarded,
                  joins, leaves, member, open>>
  BY DEF RoutineStep, RoutineReceive, RoutineReturns, RoutineLookup, RoutineDispatch, objectVars,
         threadVars, historyVars, relayVars
<1>2. CASE RoutineReceive
  <2>1. out[Client] \in Seq(Frame) /\ out[Client] # <<>> /\ out' = [out EXCEPT ![Client] = Tail(@)]
        /\ message' = Head(out[Client]) /\ routine' = "lock" /\ target' = target
        /\ egress' = egress
    BY <1>2 DEF RoutineReceive, Types
  <2>2. Tail(out[Client]) \in Seq(Frame) /\ message' \in Frame
    BY <2>1
  <2>3. out' \in [{Client} -> Seq(Frame)]
    BY <2>1, <2>2 DEF Types
  <2>4. out' \in [{Client} -> Seq(Message)]
    BY <2>3, FramesAreMessages
  <2>5. TypeOK'
    BY <1>1, <2>1, <2>2, <2>4 DEF Types, TypeOK, Frame
  <2>. QED
    BY <2>1, <2>2, <2>3, <2>5 DEF Types
<1>3. CASE RoutineReturns \/ RoutineLookup
  <2>1. /\ UNCHANGED <<egress, out>>
        /\ message' \in {message, NoMessage} /\ target' \in Object \cup {0}
        /\ routine' \in {"receive", "dispatch", "returned"}
        /\ routine' = "dispatch" => message' \in Frame
    BY <1>3 DEF RoutineReturns, RoutineLookup, Registered, relayVars, Types, TypeOK
  <2>2. TypeOK'
    BY <1>1, <2>1 DEF Types, TypeOK
  <2>. QED
    BY <2>1, <2>2 DEF Types
<1>4. CASE RoutineDispatch
  <2>1. /\ out' = out /\ egress' = [egress EXCEPT ![target] = Append(@, message)]
        /\ routine' = "receive" /\ message' = NoMessage /\ target' = 0
        /\ message \in Frame
    BY <1>4 DEF RoutineDispatch, relayVars, Types
  <2>2. egress' \in [Object -> Seq(Frame)]
    <3>1. CASE target \in Object
      <4>1. egress[target] \in Seq(Frame)
        BY <3>1 DEF Types
      <4>2. Append(egress[target], message) \in Seq(Frame)
        BY <2>1, <4>1
      <4>. QED
        BY <2>1, <3>1, <4>2 DEF Types
    <3>2. CASE target \notin Object
      BY <2>1, <3>2 DEF Types
    <3>. QED
      BY <3>1, <3>2
  <2>3. egress' \in [Object -> Seq(Message)]
    BY <2>2, FramesAreMessages
  <2>4. TypeOK'
    BY <1>1, <2>1, <2>3 DEF Types, TypeOK
  <2>. QED
    BY <2>1, <2>2, <2>4 DEF Types
<1>. QED
  BY <1>2, <1>3, <1>4 DEF RoutineStep

\* The payloads that the relay forwards are numbered.
LEMMA ForwardedFrame ==
  ASSUME Types, NEW id \in ChannelId, RelayForwards(id)
  PROVE  /\ forwarded' \in [ChannelId -> Nat]
         /\ Relay!Message("EGRESS", id, forwarded'[id]) \in Frame
<1>1. PICK k \in Nat, n \in Nat : k = forwarded[id] /\ n = MaxForward[id] /\ k < n
  BY MultiplexerAssumption DEF RelayForwards, Types, TypeOK
<1>2. forwarded' = [forwarded EXCEPT ![id] = k + 1] /\ k + 1 \in 1..n
  BY <1>1 DEF RelayForwards
<1>3. forwarded' \in [ChannelId -> Nat] /\ forwarded'[id] \in 1..MaxForward[id]
  BY <1>1, <1>2 DEF Types, TypeOK
<1>4. forwarded'[id] \in Blob
  BY <1>3 DEF Blob
<1>. QED
  BY <1>3, <1>4, FrameTypes

\* The relay.
LEMMA RelayKeepsTypes ==
  ASSUME Types, RelayHangsUp \/ \E id \in ChannelId : RelayServes(id) \/ RelayForwards(id)
  PROVE  Types'
<1>1. CASE RelayHangsUp
  BY <1>1, TypesOfRelay, RelayStepTypes DEF RelayHangsUp, Relay!HangUp, RelayTypes, Types, TypeOK
<1>2. ASSUME NEW id \in ChannelId, RelayServes(id) PROVE Types'
  <2>1. RelayTypes'
    BY <1>2, TypesOfRelay, ServeTypes DEF RelayServes
  <2>. QED
    BY <1>2, <2>1, RelayStepTypes DEF RelayServes, Types, TypeOK
<1>3. ASSUME NEW id \in ChannelId, RelayForwards(id) PROVE Types'
  <2>1. forwarded' \in [ChannelId -> Nat]
    BY <1>3, ForwardedFrame
  <2>2. out' \in [{Client} -> Seq(Frame)]
    BY <1>3, ForwardedFrame, TypesOfRelay, WriteTypes DEF RelayForwards, Relay!Forward
  <2>3. RelayTypes'
    BY <1>3, <2>2, TypesOfRelay DEF RelayForwards, Relay!Forward, RelayTypes
  <2>. QED
    BY <1>3, <2>1, <2>3, RelayStepTypes DEF RelayForwards
<1>. QED
  BY <1>1, <1>2, <1>3

-----------------------------------------------------------------------------
(***************************************************************************)
(* The registry of clientChannels.                                         *)
(***************************************************************************)
Registry == Types /\ Objects /\ Dispatching /\ Gone /\ OneUser

\* A clientChannel with one user that is registered, while the user is idle, is held.
LEMMA KnownIsHeld ==
  ASSUME Registry, NEW t \in Thread, NEW id \in ChannelId, ChannelKnown(t, id),
         NEW o \in Object, o = channels[id], Private(o), ~done[o]
  PROVE  Held(o)
<1>1. /\ pc[t] = "idle" /\ id \in Uses[t] /\ ident[o] = id /\ o # 0
  BY DEF ChannelKnown, Registry, Objects
<1>. SUFFICES ASSUME ~Held(o) PROVE FALSE
  OBVIOUS
<1>2. PICK u \in Thread : object[u] = o
  BY <1>1 DEF Registry, OneUser, InProgress
<1>3. u = t
  BY <1>1, <1>2 DEF Registry, Objects, Private
<1>. QED
  BY <1>1, <1>2, <1>3 DEF Registry, Objects

\* Channel finds the id registered: a clientChannel with one user is held by that one.
LEMMA ChannelKnownRegistry ==
  ASSUME Registry, NEW t \in Thread, NEW id \in ChannelId, ChannelKnown(t, id)
  PROVE  Registry'
<1>1. /\ UNCHANGED <<channels, made, ident, egress, done, routine, message, target, pc, object,
                     closed>>
      /\ pc[t] = "idle" /\ id \in Uses[t] /\ channels[id] # 0
      /\ holds' = [holds EXCEPT ![t] = @ \cup {channels[id]}]
  BY DEF ChannelKnown, objectVars, routineVars
<1>2. PICK o \in Object : o = channels[id] /\ ident[o] = id /\ o <= made
  BY <1>1 DEF Registry, Types, TypeOK, Objects
<1>3. /\ holds'[t] = holds[t] \cup {o}
      /\ \A u \in Thread : u # t => holds'[u] = holds[u]
  BY <1>1, <1>2 DEF Registry, Types, TypeOK
<1>4. Types'
  BY ThreadTypes DEF Registry
<1>5. Objects'
  BY <1>1, <1>2, <1>3 DEF Registry, Objects, Joining
<1>6. Dispatching' /\ Gone'
  BY <1>1 DEF Registry, Dispatching, Gone
<1>7. \A p \in Object : Held(p)' => Held(p) \/ (p = o /\ ~done[o])
  BY <1>1, <1>3 DEF Held
<1>8. \A p \in Object : /\ Held(p) => Held(p)'
                        /\ Private(p)' <=> Private(p)
                        /\ InProgress(p)' <=> InProgress(p)
                        /\ Waiting(p)' <=> Waiting(p)
  BY <1>1, <1>3 DEF Held, Private, InProgress, Waiting
<1>9. Private(o) /\ ~done[o] => Held(o)
  BY <1>2, KnownIsHeld
<1>10. OneUser'
  <2>1. ASSUME NEW p \in Object, Private(p)', Held(p)' \/ InProgress(p)'
        PROVE  channels'[ident'[p]] = p
    BY <2>1, <1>1, <1>2, <1>7, <1>8 DEF Registry, OneUser
  <2>2. ASSUME NEW p \in Object, Private(p)', Held(p)' \/ Waiting(p)' PROVE ~closed'
    BY <2>2, <1>1, <1>7, <1>8, <1>9 DEF Registry, OneUser
  <2>3. ASSUME NEW i \in ChannelId, channels'[i] # 0, Private(channels[i])'
        PROVE  Held(channels[i])' \/ InProgress(channels[i])'
    BY <2>3, <1>1, <1>8 DEF Registry, OneUser, Types, TypeOK
  <2>4. ASSUME NEW u \in Thread, Joining(u)', Private(object[u])' PROVE ~done'[object'[u]]
    BY <2>4, <1>1 DEF Registry, OneUser, Joining, Private
  <2>. QED
    BY <2>1, <2>2, <2>3, <2>4, <1>1 DEF OneUser
<1>. QED
  BY <1>4, <1>5, <1>6, <1>10 DEF Registry

\* Channel registers a new clientChannel.
LEMMA ChannelNewRegistry ==
  ASSUME Registry, NEW t \in Thread, NEW id \in ChannelId, ChannelNew(t, id)
  PROVE  Registry'
<1>1. /\ UNCHANGED <<egress, done, routine, message, target, holds, closed>>
      /\ pc[t] = "idle" /\ id \in Uses[t] /\ channels[id] = 0 /\ routine # "dispatch"
      /\ made < MaxMade /\ made' = made + 1
      /\ ident' = [ident EXCEPT ![made'] = id] /\ channels' = [channels EXCEPT ![id] = made']
      /\ pc' = [pc EXCEPT ![t] = "join"] /\ object' = [object EXCEPT ![t] = made']
  BY DEF ChannelNew, MutexFree, routineVars
<1>2. PICK n \in Object : n = made' /\ n = made + 1
  BY <1>1, MultiplexerAssumption DEF Registry, Types, TypeOK, Object
<1>3. \A p \in Object : /\ p <= made => p # n /\ p <= made'
                        /\ p > made' => p > made /\ p # n
                        /\ p <= made' => p <= made \/ p = n
  BY <1>2, MultiplexerAssumption DEF Registry, Types, TypeOK, Object
<1>4. /\ ident'[n] = id /\ \A p \in Object : p # n => ident'[p] = ident[p]
      /\ channels'[id] = n /\ \A i \in ChannelId : i # id => channels'[i] = channels[i]
      /\ object'[t] = n /\ \A u \in Thread : u # t => object'[u] = object[u]
      /\ pc'[t] = "join" /\ \A u \in Thread : u # t => pc'[u] = pc[u]
  BY <1>1, <1>2 DEF Registry, Types, TypeOK
<1>5. n > made /\ n # 0 /\ ~done[n] /\ egress[n] = <<>>
  BY <1>2, MultiplexerAssumption DEF Registry, Types, TypeOK, Objects, Object
<1>6. /\ \A u \in Thread : n \notin holds[u] /\ object[u] # n
      /\ \A i \in ChannelId : channels[i] # n
  BY <1>3, <1>5 DEF Registry, Objects, Types, TypeOK
<1>7. Types'
  BY ThreadTypes DEF Registry
<1>8. Objects'
  <2>1. ASSUME NEW u \in Thread
        PROVE  /\ pc'[u] = "idle" <=> object'[u] = 0
               /\ object'[u] # 0 => object'[u] <= made' /\ ident'[object'[u]] \in Uses[u]
               /\ Joining(u)' => object'[u] \notin holds'[u]
    <3>1. CASE u = t
      BY <3>1, <1>1, <1>2, <1>3, <1>4, <1>5, <1>6
    <3>2. CASE u # t
      BY <3>2, <1>1, <1>3, <1>4, <1>6 DEF Registry, Objects, Types, TypeOK, Joining
    <3>. QED
      BY <3>1, <3>2
  <2>2. ASSUME NEW u \in Thread, NEW o \in holds'[u] PROVE o <= made' /\ ident'[o] \in Uses[u]
    BY <2>2, <1>1, <1>3, <1>4, <1>6 DEF Registry, Objects, Types, TypeOK
  <2>3. ASSUME NEW o \in Object
        PROVE  /\ o <= made' => ident'[o] \in ChannelId
               /\ o > made' => ~done'[o] /\ egress'[o] = <<>>
    BY <1>1, <1>3, <1>4 DEF Registry, Objects
  <2>4. ASSUME NEW i \in ChannelId, channels'[i] # 0
        PROVE  ident'[channels'[i]] = i /\ channels'[i] <= made'
    <3>1. CASE i = id
      BY <3>1, <1>2, <1>4 DEF Object
    <3>2. CASE i # id
      BY <3>2, <2>4, <1>3, <1>4, <1>6 DEF Registry, Objects, Types, TypeOK
    <3>. QED
      BY <3>1, <3>2
  <2>. QED
    BY <2>1, <2>2, <2>3, <2>4 DEF Objects
<1>9. Dispatching'
  BY <1>1 DEF Registry, Dispatching
<1>10. Gone'
  <2>0. ASSUME NEW u \in Thread, pc'[u] = "closing" PROVE done'[object'[u]]
    BY <2>0, <1>1, <1>4 DEF Registry, Gone
  <2>. SUFFICES ASSUME NEW o \in Object, done[o]
                PROVE  \/ \E u \in Thread : pc'[u] = "closing" /\ object'[u] = o
                       \/ \A i \in ChannelId : channels'[i] # o
    BY <2>0, <1>1 DEF Gone
  <2>1. o # n
    BY <1>5
  <2>2. CASE \E u \in Thread : pc[u] = "closing" /\ object[u] = o
    BY <2>2, <1>1, <1>4
  <2>3. CASE \A i \in ChannelId : channels[i] # o
    BY <2>1, <2>3, <1>4
  <2>. QED
    BY <2>2, <2>3 DEF Registry, Gone
<1>11. \A p \in Object : p # n =>
         /\ Held(p)' <=> Held(p)
         /\ Private(p)' <=> Private(p)
         /\ InProgress(p)' <=> InProgress(p)
         /\ Waiting(p)' <=> Waiting(p)
  <2>. SUFFICES ASSUME NEW p \in Object, p # n
                PROVE  /\ Held(p)' <=> Held(p)
                       /\ Private(p)' <=> Private(p)
                       /\ InProgress(p)' <=> InProgress(p)
                       /\ Waiting(p)' <=> Waiting(p)
    OBVIOUS
  <2>1. (Held(p)' <=> Held(p)) /\ (Private(p)' <=> Private(p))
    BY <1>1, <1>4 DEF Held, Private
  <2>2. object[t] # p
    BY <1>1 DEF Registry, Objects, Object
  <2>. QED
    BY <2>1, <2>2, <1>1, <1>4 DEF InProgress, Waiting
<1>12. ~Held(n)' /\ InProgress(n)' /\ ~Waiting(n)'
  BY <1>1, <1>4, <1>6 DEF Held, InProgress, Waiting
<1>13. OneUser'
  <2>1. ASSUME NEW p \in Object, Private(p)', Held(p)' \/ InProgress(p)'
        PROVE  channels'[ident'[p]] = p
    <3>1. CASE p = n
      BY <3>1, <1>4
    <3>2. CASE p # n
      <4>1. channels[ident[p]] = p /\ ident'[p] = ident[p]
        BY <3>2, <2>1, <1>4, <1>11 DEF Registry, OneUser
      <4>2. ident[p] \in ChannelId /\ ident[p] # id
        <5>1. p <= made
          BY <3>2, <2>1, <1>11 DEF Registry, Objects, Held, InProgress, Object
        <5>. QED
          BY <4>1, <5>1, <1>1 DEF Registry, Objects, Object
      <4>. QED
        BY <4>1, <4>2, <1>4
    <3>. QED
      BY <3>1, <3>2
  <2>2. ASSUME NEW p \in Object, Private(p)', Held(p)' \/ Waiting(p)' PROVE ~closed'
    BY <2>2, <1>1, <1>11, <1>12 DEF Registry, OneUser
  <2>3. ASSUME NEW i \in ChannelId, channels'[i] # 0, Private(channels[i])'
        PROVE  Held(channels[i])' \/ InProgress(channels[i])'
    <3>1. CASE i = id
      BY <3>1, <1>4, <1>12
    <3>2. CASE i # id
      <4>1. PICK p \in Object : p = channels[i] /\ p = channels'[i] /\ p # n
        BY <3>2, <2>3, <1>4, <1>6 DEF Registry, Types, TypeOK
      <4>2. Private(p)'
        BY <2>3, <4>1
      <4>3. Held(p) \/ InProgress(p)
        BY <2>3, <4>1, <4>2, <1>11 DEF Registry, OneUser
      <4>. QED
        BY <4>1, <4>3, <1>11
    <3>. QED
      BY <3>1, <3>2
  <2>4. ASSUME NEW u \in Thread, Joining(u)', Private(object[u])' PROVE ~done'[object'[u]]
    <3>1. CASE u = t
      BY <3>1, <1>1, <1>4, <1>5
    <3>2. CASE u # t
      <4>1. PICK p \in Object : p = object[u] /\ p = object'[u] /\ p # n
        BY <3>2, <2>4, <1>4, <1>6 DEF Registry, Objects, Types, TypeOK, Joining
      <4>. QED
        BY <3>2, <4>1, <2>4, <1>1, <1>4, <1>11 DEF Registry, OneUser, Joining
    <3>. QED
      BY <3>1, <3>2
  <2>. QED
    BY <2>1, <2>2, <2>3, <2>4 DEF OneUser
<1>. QED
  BY <1>7, <1>8, <1>9, <1>10, <1>13 DEF Registry

\* A goroutine waits for the answer of the relay, or has failed to join.
LEMMA JoiningRegistry ==
  ASSUME Registry, Types', NEW t \in Thread, Joining(t), NEW p \in {"wait", "failed"},
         pc' = [pc EXCEPT ![t] = p], p = "wait" => ~closed,
         UNCHANGED <<channels, made, ident, done, routine, message, target, object, holds, closed>>,
         \A o \in Object : egress[o] = <<>> => egress'[o] = <<>>
  PROVE  Registry'
<1>1. pc'[t] = p /\ \A u \in Thread : u # t => pc'[u] = pc[u]
  BY DEF Registry, Types, TypeOK
<1>2. \A u \in Thread : /\ pc'[u] = "idle" <=> pc[u] = "idle"
                        /\ pc'[u] = "closing" <=> pc[u] = "closing"
                        /\ Joining(u)' <=> Joining(u)
  BY <1>1 DEF Joining
<1>3. Objects'
  BY <1>2 DEF Registry, Objects
<1>4. Dispatching' /\ Gone'
  BY <1>2 DEF Registry, Dispatching, Gone
<1>5. \A o \in Object : /\ Held(o)' <=> Held(o)
                        /\ Private(o)' <=> Private(o)
                        /\ InProgress(o)' <=> InProgress(o)
                        /\ Waiting(o)' => Waiting(o) \/ ~closed
  BY <1>1 DEF Held, Private, InProgress, Waiting
<1>6. OneUser'
  <2>1. ASSUME NEW o \in Object, Private(o)', Held(o)' \/ InProgress(o)'
        PROVE  channels'[ident'[o]] = o
    BY <2>1, <1>5 DEF Registry, OneUser
  <2>2. ASSUME NEW o \in Object, Private(o)', Held(o)' \/ Waiting(o)' PROVE ~closed'
    BY <2>2, <1>5 DEF Registry, OneUser
  <2>3. ASSUME NEW i \in ChannelId, channels'[i] # 0, Private(channels[i])'
        PROVE  Held(channels[i])' \/ InProgress(channels[i])'
    BY <2>3, <1>5 DEF Registry, OneUser, Types, TypeOK
  <2>4. ASSUME NEW u \in Thread, Joining(u)', Private(object[u])' PROVE ~done'[object'[u]]
    BY <2>4, <1>2 DEF Registry, OneUser, Private
  <2>. QED
    BY <2>1, <2>2, <2>3, <2>4 DEF OneUser
<1>. QED
  BY <1>3, <1>4, <1>6 DEF Registry

\* JOIN is sent, its answer does not come, or it is refused.
LEMMA JoinStepsRegistry ==
  ASSUME Registry, NEW t \in Thread, JoinSend(t) \/ JoinTimeout(t)
  PROVE  Registry'
<1>1. CASE JoinSend(t)
  <2>1. /\ Joining(t)
        /\ UNCHANGED <<channels, made, ident, egress, done, routine, message, target, object, holds,
                       closed>>
    BY <1>1 DEF JoinSend, Joining, objectVars, routineVars
  <2>2. PICK p \in {"wait", "failed"} : pc' = [pc EXCEPT ![t] = p] /\ (p = "wait" => ~closed)
    BY <1>1 DEF JoinSend, Sends
  <2>3. Types'
    BY <1>1, RequestTypes DEF Registry
  <2>. QED
    BY <2>1, <2>2, <2>3, JoiningRegistry
<1>2. CASE JoinTimeout(t)
  <2>1. /\ Joining(t)
        /\ UNCHANGED <<channels, made, ident, egress, done, routine, message, target, object, holds,
                       closed>>
        /\ pc' = [pc EXCEPT ![t] = "failed"]
    BY <1>2 DEF JoinTimeout, Joining, objectVars, routineVars
  <2>2. Types'
    BY <1>2, ThreadTypes DEF Registry
  <2>. QED
    BY <2>1, <2>2, JoiningRegistry
<1>. QED
  BY <1>1, <1>2

\* Taking a message from a queue makes no other queue longer.
LEMMA TailEmpty ==
  ASSUME Types, NEW o \in Object, egress[o] # <<>>, egress' = [egress EXCEPT ![o] = Tail(@)]
  PROVE  \A p \in Object : egress[p] = <<>> => egress'[p] = <<>>
BY DEF Types

\* The answer: Channel returns the clientChannel, or goes on to unregister it.
LEMMA JoinAnswerRegistry ==
  ASSUME Registry, NEW t \in Thread, JoinAnswer(t) PROVE Registry'
<1>1. /\ UNCHANGED <<channels, made, ident, done, routine, message, target, closed>>
      /\ pc[t] = "wait" /\ Joining(t)
  BY DEF JoinAnswer, Joining, objectVars, routineVars
<1>2. PICK o \in Object : o = object[t] /\ o # 0
  BY <1>1, ObjectIdent DEF Registry, Object
<1>3. Types' /\ \A p \in Object : egress[p] = <<>> => egress'[p] = <<>>
  BY <1>2, AnswerTypes, TailEmpty DEF Registry, JoinAnswer
<1>4. CASE pc' = [pc EXCEPT ![t] = "failed"] /\ UNCHANGED <<object, holds>>
  BY <1>1, <1>3, <1>4, JoiningRegistry
<1>5. CASE /\ pc' = [pc EXCEPT ![t] = "idle"] /\ object' = [object EXCEPT ![t] = 0]
           /\ holds' = [holds EXCEPT ![t] = @ \cup {object[t]}]
  <2>1. /\ pc'[t] = "idle" /\ \A u \in Thread : u # t => pc'[u] = pc[u]
        /\ object'[t] = 0 /\ \A u \in Thread : u # t => object'[u] = object[u]
        /\ holds'[t] = holds[t] \cup {o} /\ \A u \in Thread : u # t => holds'[u] = holds[u]
    BY <1>2, <1>5 DEF Registry, Types, TypeOK
  <2>2. o <= made /\ ident[o] \in Uses[t]
    BY <1>2 DEF Registry, Objects
  <2>3. Objects'
    BY <1>1, <1>3, <2>1, <2>2 DEF Registry, Objects, Joining
  <2>4. Dispatching' /\ Gone'
    BY <1>1, <2>1 DEF Registry, Dispatching, Gone
  <2>5. \A q \in Object : /\ Held(q) => Held(q)'
                          /\ Held(q)' => Held(q) \/ q = o
                          /\ Private(q)' <=> Private(q)
                          /\ InProgress(q)' => InProgress(q)
                          /\ InProgress(q) => InProgress(q)' \/ q = o
                          /\ Waiting(q)' => Waiting(q)
    BY <1>1, <1>2, <2>1 DEF Held, Private, InProgress, Waiting, Object
  <2>6. InProgress(o) /\ Waiting(o)
    BY <1>1, <1>2 DEF InProgress, Waiting
  <2>7. Private(o) => Held(o)'
    BY <1>1, <1>2, <2>1 DEF Registry, OneUser, Held
  <2>8. OneUser'
    <3>1. ASSUME NEW q \in Object, Private(q)', Held(q)' \/ InProgress(q)'
          PROVE  channels'[ident'[q]] = q
      BY <3>1, <1>1, <2>5, <2>6 DEF Registry, OneUser
    <3>2. ASSUME NEW q \in Object, Private(q)', Held(q)' \/ Waiting(q)' PROVE ~closed'
      BY <3>2, <1>1, <2>5, <2>6 DEF Registry, OneUser
    <3>3. ASSUME NEW i \in ChannelId, channels'[i] # 0, Private(channels[i])'
          PROVE  Held(channels[i])' \/ InProgress(channels[i])'
      BY <3>3, <1>1, <2>5, <2>7 DEF Registry, OneUser, Types, TypeOK
    <3>4. ASSUME NEW u \in Thread, Joining(u)', Private(object[u])' PROVE ~done'[object'[u]]
      BY <3>4, <1>1, <2>1 DEF Registry, OneUser, Private, Joining
    <3>. QED
      BY <3>1, <3>2, <3>3, <3>4, <1>1 DEF OneUser
  <2>. QED
    BY <1>3, <2>3, <2>4, <2>8 DEF Registry
<1>. QED
  BY <1>4, <1>5 DEF JoinAnswer

\* A clientChannel is unregistered, by the goroutine that failed to create it or is
\* closing it.
LEMMA UnregisterRegistry ==
  ASSUME Registry, Types', NEW t \in Thread, pc[t] \in {"failed", "closing"},
         routine # "dispatch",
         channels' = [channels EXCEPT ![ident[object[t]]] = 0],
         pc' = [pc EXCEPT ![t] = "idle"], object' = [object EXCEPT ![t] = 0],
         closed' => closed \/ LastChannel(ident[object[t]]),
         UNCHANGED <<made, ident, egress, done, routine, message, target, holds>>
  PROVE  Registry'
<1>1. PICK o \in Object, id \in ChannelId :
        o = object[t] /\ id = ident[o] /\ o <= made /\ id \in Uses[t] /\ o # 0
  BY ObjectIdent DEF Registry, Objects, Object
<1>2. /\ channels'[id] = 0 /\ \A i \in ChannelId : i # id => channels'[i] = channels[i]
      /\ pc'[t] = "idle" /\ \A u \in Thread : u # t => pc'[u] = pc[u]
      /\ object'[t] = 0 /\ \A u \in Thread : u # t => object'[u] = object[u]
  BY <1>1 DEF Registry, Types, TypeOK
<1>3. \A i \in ChannelId : channels'[i] # o
  BY <1>1, <1>2 DEF Registry, Objects
<1>4. Objects'
  BY <1>2 DEF Registry, Objects, Joining
<1>5. Dispatching'
  BY DEF Registry, Dispatching
<1>6. Gone'
  <2>1. ASSUME NEW p \in Object, done[p]
        PROVE  \/ \E u \in Thread : pc'[u] = "closing" /\ object'[u] = p
               \/ \A i \in ChannelId : channels'[i] # p
    <3>1. CASE p = o
      BY <3>1, <1>3
    <3>2. CASE p # o /\ \E u \in Thread : pc[u] = "closing" /\ object[u] = p
      BY <3>2, <1>1, <1>2
    <3>3. CASE \A i \in ChannelId : channels[i] # p
      BY <3>3, <1>2 DEF Object
    <3>. QED
      BY <2>1, <3>1, <3>2, <3>3 DEF Registry, Gone
  <2>2. ASSUME NEW u \in Thread, pc'[u] = "closing" PROVE done'[object'[u]]
    BY <2>2, <1>2 DEF Registry, Gone
  <2>. QED
    BY <2>1, <2>2 DEF Gone
<1>7. \A p \in Object : /\ Held(p)' <=> Held(p)
                        /\ Private(p)' <=> Private(p)
                        /\ InProgress(p)' => InProgress(p)
                        /\ InProgress(p) => InProgress(p)' \/ p = o
                        /\ Waiting(p)' => Waiting(p)
  BY <1>1, <1>2 DEF Held, Private, InProgress, Waiting, Object
<1>8. Private(o) => ~Held(o) /\ ~InProgress(o)'
  <2>. SUFFICES ASSUME Private(o) PROVE ~Held(o) /\ ~InProgress(o)'
    OBVIOUS
  <2>1. ASSUME Held(o) PROVE FALSE
    <3>1. PICK u \in Thread : o \in holds[u]
      BY <2>1 DEF Held
    <3>2. u = t
      BY <3>1, <1>1 DEF Registry, Objects, Private
    <3>3. pc[t] = "closing"
      BY <3>1, <3>2, <1>1 DEF Registry, Objects, Joining
    <3>. QED
      BY <3>3, <2>1, <1>1 DEF Registry, Gone, Held
  <2>2. ASSUME InProgress(o)' PROVE FALSE
    <3>1. PICK u \in Thread : object'[u] = o
      BY <2>2 DEF InProgress
    <3>2. u # t /\ object[u] = o
      BY <3>1, <1>1, <1>2
    <3>. QED
      BY <3>2, <1>1 DEF Registry, Objects, Private
  <2>. QED
    BY <2>1, <2>2
<1>9. \A p \in Object : Private(p) /\ (Held(p) \/ InProgress(p)') =>
                          /\ ident[p] \in ChannelId /\ ident[p] # id
                          /\ channels[ident[p]] = p /\ p # 0
  <2>. SUFFICES ASSUME NEW p \in Object, Private(p), Held(p) \/ InProgress(p)'
                PROVE  /\ ident[p] \in ChannelId /\ ident[p] # id
                       /\ channels[ident[p]] = p /\ p # 0
    OBVIOUS
  <2>1. channels[ident[p]] = p /\ p # o /\ p # 0
    BY <1>7, <1>8 DEF Registry, OneUser, Object
  <2>2. ident[p] # id
    <3>. SUFFICES ASSUME ident[p] = id PROVE FALSE
      OBVIOUS
    <3>1. Private(o)
      BY <1>1 DEF Private
    <3>2. channels[id] = o
      BY <3>1, <1>1 DEF Registry, OneUser, InProgress
    <3>. QED
      BY <3>2, <2>1
  <2>3. p <= made
    BY <1>7, <2>1 DEF Registry, Objects, Held, InProgress
  <2>. QED
    BY <2>1, <2>2, <2>3 DEF Registry, Objects
<1>10. OneUser'
  <2>1. ASSUME NEW p \in Object, Private(p)', Held(p)' \/ InProgress(p)'
        PROVE  channels'[ident'[p]] = p
    BY <2>1, <1>2, <1>7, <1>9
  <2>2. ASSUME NEW p \in Object, Private(p)', Held(p)' \/ Waiting(p)' PROVE ~closed'
    <3>1. ~closed
      BY <2>2, <1>7 DEF Registry, OneUser
    <3>2. Waiting(p)' => InProgress(p)'
      BY DEF Waiting, InProgress
    <3>3. ~LastChannel(id)
      BY <2>2, <3>2, <1>7, <1>9 DEF LastChannel
    <3>. QED
      BY <3>1, <3>3, <1>1
  <2>3. ASSUME NEW i \in ChannelId, channels'[i] # 0, Private(channels[i])'
        PROVE  Held(channels[i])' \/ InProgress(channels[i])'
    <3>1. channels'[i] = channels[i] /\ channels[i] # 0 /\ channels[i] # o
      BY <2>3, <1>2, <1>3
    <3>2. channels[i] \in Object
      BY <3>1 DEF Registry, Types, TypeOK
    <3>3. PICK p \in Object : p = channels[i]
      BY <3>2
    <3>4. Private(p)'
      BY <2>3, <3>1, <3>3
    <3>5. Held(p) \/ InProgress(p)
      BY <2>3, <3>1, <3>3, <3>4, <1>7 DEF Registry, OneUser
    <3>. QED
      BY <3>1, <3>3, <3>5, <1>7
  <2>4. ASSUME NEW u \in Thread, Joining(u)', Private(object[u])' PROVE ~done'[object'[u]]
    BY <2>4, <1>2 DEF Registry, OneUser, Private, Joining
  <2>. QED
    BY <2>1, <2>2, <2>3, <2>4 DEF OneUser
<1>. QED
  BY <1>4, <1>5, <1>6, <1>10 DEF Registry

\* Channel fails, or Close ends.
LEMMA UnregisterStepsRegistry ==
  ASSUME Registry, NEW t \in Thread, JoinCleanup(t) \/ ChannelDone(t) PROVE Registry'
<1>1. Types'
  BY ThreadTypes DEF Registry
<1>2. /\ pc[t] \in {"failed", "closing"} /\ routine # "dispatch"
      /\ channels' = [channels EXCEPT ![ident[object[t]]] = 0]
      /\ pc' = [pc EXCEPT ![t] = "idle"] /\ object' = [object EXCEPT ![t] = 0]
      /\ UNCHANGED <<made, ident, egress, done, routine, message, target, holds>>
  BY DEF JoinCleanup, ChannelDone, MutexFree, routineVars
<1>3. closed' => closed \/ LastChannel(ident[object[t]])
  BY DEF JoinCleanup, ChannelDone
<1>. QED
  BY <1>1, <1>2, <1>3, UnregisterRegistry

\* Close has sent LEAVE: the goroutine goes on to unregister the clientChannel.
LEMMA CloseLeaveRegistry ==
  ASSUME Registry, NEW t \in Thread, NEW o \in Object, CloseLeave(t, o) PROVE Registry'
<1>1. /\ UNCHANGED <<channels, made, ident, egress, routine, message, target, holds, closed>>
      /\ pc[t] = "idle" /\ object[t] = 0 /\ o \in holds[t] /\ ~done[o]
      /\ o <= made /\ ident[o] \in Uses[t] /\ o # 0
  BY DEF CloseLeave, objectVars, routineVars, Registry, Objects, Object
<1>2. /\ done'[o] /\ \A p \in Object : p # o => done'[p] = done[p]
      /\ pc'[t] = "closing" /\ \A u \in Thread : u # t => pc'[u] = pc[u]
      /\ object'[t] = o /\ \A u \in Thread : u # t => object'[u] = object[u]
  BY DEF CloseLeave, Registry, Types, TypeOK
<1>3. Types'
  BY RequestTypes DEF Registry
<1>4. Objects'
  <2>1. ASSUME NEW p \in Object, p > made PROVE ~done'[p]
    <3>1. p # o
      BY <2>1, <1>1, MultiplexerAssumption DEF Registry, Types, TypeOK, Object
    <3>. QED
      BY <2>1, <3>1, <1>2 DEF Registry, Objects
  <2>. QED
    BY <1>1, <1>2, <2>1 DEF Registry, Objects, Joining
<1>5. Dispatching'
  BY <1>1 DEF Registry, Dispatching
<1>6. Gone'
  <2>1. ASSUME NEW p \in Object, done'[p]
        PROVE  \/ \E u \in Thread : pc'[u] = "closing" /\ object'[u] = p
               \/ \A i \in ChannelId : channels'[i] # p
    <3>1. CASE p = o
      BY <3>1, <1>2
    <3>2. CASE p # o
      <4>1. done[p]
        BY <2>1, <3>2, <1>2
      <4>2. ASSUME NEW u \in Thread, pc[u] = "closing", object[u] = p
            PROVE  pc'[u] = "closing" /\ object'[u] = p
        BY <4>2, <1>1, <1>2
      <4>. QED
        BY <4>1, <4>2, <1>1 DEF Registry, Gone
    <3>. QED
      BY <3>1, <3>2
  <2>2. ASSUME NEW u \in Thread, pc'[u] = "closing" PROVE done'[object'[u]]
    <3>1. CASE u = t
      BY <3>1, <1>2
    <3>2. CASE u # t
      <4>1. object[u] \in Object /\ done[object[u]]
        BY <3>2, <2>2, <1>2, ObjectIdent DEF Registry, Gone
      <4>. QED
        BY <3>2, <4>1, <1>2
    <3>. QED
      BY <3>1, <3>2
  <2>. QED
    BY <2>1, <2>2 DEF Gone
<1>7. \A p \in Object : /\ Held(p)' => Held(p) /\ p # o
                        /\ Held(p) => Held(p)' \/ p = o
                        /\ Private(p)' <=> Private(p)
                        /\ InProgress(p)' => InProgress(p) \/ p = o
                        /\ InProgress(p) => InProgress(p)'
                        /\ Waiting(p)' => Waiting(p)
  BY <1>1, <1>2 DEF Held, Private, InProgress, Waiting, Object
<1>8. Held(o) /\ InProgress(o)'
  BY <1>1, <1>2 DEF Held, InProgress
<1>9. OneUser'
  <2>1. ASSUME NEW p \in Object, Private(p)', Held(p)' \/ InProgress(p)'
        PROVE  channels'[ident'[p]] = p
    BY <2>1, <1>1, <1>7, <1>8 DEF Registry, OneUser
  <2>2. ASSUME NEW p \in Object, Private(p)', Held(p)' \/ Waiting(p)' PROVE ~closed'
    BY <2>2, <1>1, <1>7 DEF Registry, OneUser
  <2>3. ASSUME NEW i \in ChannelId, channels'[i] # 0, Private(channels[i])'
        PROVE  Held(channels[i])' \/ InProgress(channels[i])'
    <3>1. PICK p \in Object : p = channels[i] /\ p = channels'[i]
      BY <2>3, <1>1 DEF Registry, Types, TypeOK
    <3>2. Private(p)'
      BY <2>3, <3>1
    <3>3. Held(p) \/ InProgress(p)
      BY <2>3, <3>1, <3>2, <1>1, <1>7 DEF Registry, OneUser
    <3>. QED
      BY <3>1, <3>3, <1>7, <1>8
  <2>4. ASSUME NEW u \in Thread, Joining(u)', Private(object[u])' PROVE ~done'[object'[u]]
    <3>1. u # t
      BY <2>4, <1>2 DEF Joining
    <3>2. Joining(u) /\ object'[u] = object[u]
      BY <2>4, <3>1, <1>2 DEF Joining
    <3>3. PICK p \in Object : p = object[u] /\ ident[p] \in Uses[u]
      BY <3>2, ObjectIdent DEF Registry, Objects, Joining, Object
    <3>4. Private(p)
      BY <2>4, <3>2, <3>3, <1>7
    <3>5. p # o
      BY <3>1, <3>3, <3>4, <1>1 DEF Private
    <3>. QED
      BY <3>2, <3>3, <3>4, <3>5, <1>2 DEF Registry, OneUser
  <2>. QED
    BY <2>1, <2>2, <2>3, <2>4 DEF OneUser
<1>. QED
  BY <1>3, <1>4, <1>5, <1>6, <1>9 DEF Registry

\* The steps that leave the clientChannels and the goroutines' calls as they are.
LEMMA StableRegistry ==
  ASSUME Registry, Types', Dispatching',
         UNCHANGED <<channels, made, ident, done, pc, object, holds, closed>>,
         \A o \in Object : o > made => egress'[o] = <<>>
  PROVE  Registry'
<1>1. Objects'
  BY DEF Registry, Objects, Joining
<1>2. Gone'
  BY DEF Registry, Gone
<1>3. OneUser'
  BY DEF Registry, OneUser, Held, Private, InProgress, Waiting, Joining
<1>. QED
  BY <1>1, <1>2, <1>3 DEF Registry

\* Receive.
LEMMA ReceiveRegistry ==
  ASSUME Registry, NEW t \in Thread, NEW o \in Object, Receive(t, o) PROVE Registry'
<1>1. /\ UNCHANGED <<channels, made, ident, done, routine, message, target, pc, object, holds,
                     closed>>
      /\ egress[o] # <<>> /\ egress' = [egress EXCEPT ![o] = Tail(@)]
  BY DEF Receive, objectVars, routineVars, threadVars
<1>2. Types' /\ \A p \in Object : egress[p] = <<>> => egress'[p] = <<>>
  BY <1>1, ReceiveTypes, TailEmpty DEF Registry
<1>3. Dispatching'
  BY <1>1 DEF Registry, Dispatching
<1>4. \A p \in Object : p > made => egress'[p] = <<>>
  BY <1>2 DEF Registry, Objects
<1>. QED
  BY <1>1, <1>2, <1>3, <1>4, StableRegistry

\* routine().
LEMMA RoutineRegistry == ASSUME Registry, RoutineStep PROVE Registry'
<1>1. UNCHANGED <<channels, made, ident, done, pc, object, holds, closed>>
  BY DEF RoutineStep, RoutineReceive, RoutineReturns, RoutineLookup, RoutineDispatch, objectVars,
         threadVars
<1>2. Types'
  BY RoutineTypes DEF Registry
<1>3. Dispatching' /\ \A o \in Object : o > made => egress'[o] = <<>>
  <2>1. CASE RoutineReceive \/ RoutineReturns
    BY <2>1 DEF RoutineReceive, RoutineReturns, Registry, Dispatching, Objects
  <2>2. CASE RoutineLookup
    <3>1. \A o \in Object : o > made => egress'[o] = <<>>
      BY <2>2 DEF RoutineLookup, Registry, Objects
    <3>2. CASE Registered(message.channel)
      BY <2>2, <3>1, <3>2, <1>1 DEF RoutineLookup, Registered, Dispatching
    <3>3. CASE ~Registered(message.channel)
      BY <2>2, <3>1, <3>3, <1>1 DEF RoutineLookup, Registry, Dispatching
    <3>. QED
      BY <3>2, <3>3
  <2>3. CASE RoutineDispatch
    <3>1. Dispatching'
      BY <2>3 DEF RoutineDispatch, Dispatching
    <3>2. routine = "dispatch" /\ egress' = [egress EXCEPT ![target] = Append(@, message)]
      BY <2>3 DEF RoutineDispatch
    <3>3. ASSUME NEW o \in Object, o > made PROVE egress'[o] = <<>>
      <4>1. target # o
        <5>1. message.channel \in ChannelId /\ channels[message.channel] = target
          BY <3>2 DEF Registry, Dispatching
        <5>2. target # 0 => target <= made
          BY <5>1 DEF Registry, Objects
        <5>. QED
          BY <5>2, <3>3 DEF Registry, Types, TypeOK, Object
      <4>. QED
        BY <3>2, <3>3, <4>1 DEF Registry, Objects, Types
    <3>. QED
      BY <3>1, <3>3
  <2>. QED
    BY <2>1, <2>2, <2>3 DEF RoutineStep
<1>. QED
  BY <1>1, <1>2, <1>3, StableRegistry

\* The relay.
LEMMA RelayRegistry ==
  ASSUME Registry, RelayHangsUp \/ \E id \in ChannelId : RelayServes(id) \/ RelayForwards(id)
  PROVE  Registry'
<1>1. UNCHANGED <<channels, made, ident, egress, done, routine, message, target, pc, object, holds,
                  closed>>
  BY DEF RelayHangsUp, RelayServes, RelayForwards, muxVars, objectVars, routineVars, threadVars
<1>2. Types'
  BY RelayKeepsTypes DEF Registry
<1>. QED
  BY <1>1, <1>2, StableRegistry DEF Registry, Dispatching, Objects

-----------------------------------------------------------------------------
(***************************************************************************)
(* Who is a member.                                                        *)
(***************************************************************************)

\* The channels that have been accepted, when a message enters or leaves a queue.
LEMMA AppendAccepts ==
  ASSUME NEW q \in Seq(Frame), NEW m \in Frame
  PROVE  Accepts(Append(q, m)) = Accepts(q) \cup (IF m.type = "JOIN_OK" THEN {m.channel} ELSE {})
<1>1. /\ Len(Append(q, m)) = Len(q) + 1 /\ Len(q) \in Nat
      /\ \A i \in 1..Len(q) : Append(q, m)[i] = q[i]
      /\ Append(q, m)[Len(q) + 1] = m
  OBVIOUS
<1>2. ASSUME NEW c
      PROVE c \in Accepts(Append(q, m)) <=> c \in Accepts(q) \/ (m.type = "JOIN_OK" /\ c = m.channel)
  <2>1. \A i : i \in 1..Len(q) + 1 <=> i \in 1..Len(q) \/ i = Len(q) + 1
    BY <1>1
  <2>. QED
    BY <1>1, <2>1 DEF Accepts
<1>. QED
  BY <1>2

\* The first message of a queue, and those that follow.
LEMMA TailAccepts ==
  ASSUME NEW q \in Seq(Frame), q # <<>>
  PROVE  /\ Accepts(Tail(q)) \subseteq Accepts(q)
         /\ Head(q).type = "JOIN_OK" => Head(q).channel \in Accepts(q)
<1>1. /\ Len(q) \in Nat /\ Len(q) >= 1 /\ Head(q) = q[1] /\ Len(Tail(q)) = Len(q) - 1
      /\ \A i \in 1..Len(Tail(q)) : Tail(q)[i] = q[i + 1]
  OBVIOUS
<1>2. \A i \in 1..Len(Tail(q)) : i + 1 \in 1..Len(q)
  BY <1>1
<1>3. Accepts(Tail(q)) \subseteq Accepts(q)
  BY <1>1, <1>2 DEF Accepts
<1>4. 1 \in 1..Len(q)
  BY <1>1
<1>. QED
  BY <1>1, <1>3, <1>4 DEF Accepts

\* A refusal accepts nothing.
LEMMA RefusedAccepts ==
  ASSUME Types, Relay!Refuse(Client) \/ UNCHANGED out
  PROVE  Accepts(out'[Client]) = Accepts(out[Client])
<1>1. CASE Relay!Refuse(Client)
  <2>1. PICK m \in Frame : m = Relay!Message("JOIN_FAILURE", NoChannel, NoBlob)
    BY FrameTypes
  <2>2. Relay!Write(Client, m) /\ m.type = "JOIN_FAILURE"
    BY <1>1, <2>1 DEF Relay!Refuse, Relay!Message
  <2>3. PICK q \in Seq(Frame) : q = out[Client]
    BY DEF Types
  <2>4. out'[Client] \in {q, Append(q, m)}
    BY <2>2, <2>3, TypesOfRelay, WriteTypes
  <2>. QED
    BY <2>2, <2>3, <2>4, AppendAccepts
<1>. QED
  BY <1>1

\* What a step must do to keep Membership: what is new has to be accepted.
LEMMA MembershipStep ==
  ASSUME Membership,
         \A o \in Object : done[o] => done'[o] /\ ident'[o] = ident[o],
         \A id \in member[Client] : id \in member'[Client] \/ Left(id)',
         \A id \in ChannelId : leaves'[Client][id] > 0 => leaves[Client][id] > 0 \/ Left(id)',
         \A id \in Accepts(out'[Client]) : id \in Accepts(out[Client]) \/ id \in member'[Client],
         routine' \in {"lock", "dispatch"} /\ message'.type = "JOIN_OK" =>
           \/ message'.channel \in Accepts(out[Client])
           \/ routine \in {"lock", "dispatch"} /\ message' = message,
         \A o \in Object : Accepts(egress'[o]) # {} =>
           /\ ident'[o] = ident[o]
           /\ \/ Accepts(egress[o]) # {}
              \/ routine = "dispatch" /\ message.type = "JOIN_OK" /\ message.channel = ident[o],
         \A o \in Object : Private(o)' /\ Held(o)' =>
           /\ ident'[o] = ident[o]
           /\ \/ Private(o) /\ Held(o)
              \/ Accepts(egress[o]) # {}
  PROVE  Membership'
<1>1. \A id : Left(id) => Left(id)'
  BY DEF Left
<1>2. \A id : Joins(id) => Joins(id)'
  BY <1>1 DEF Joins
<1>3. \A id \in ChannelId : leaves'[Client][id] > 0 => Left(id)'
  BY <1>1 DEF Membership
<1>4. \A id \in Accepts(out'[Client]) : Joins(id)'
  BY <1>2 DEF Membership, Joins
<1>5. ASSUME routine' \in {"lock", "dispatch"}, message'.type = "JOIN_OK"
      PROVE  Joins(message.channel)'
  <2>1. PICK id : id = message'.channel
    OBVIOUS
  <2>2. Joins(id)
    BY <1>5, <2>1 DEF Membership
  <2>3. Joins(id)'
    BY <1>2, <2>2
  <2>. QED
    BY <2>1, <2>3 DEF Joins, Left
<1>6. ASSUME NEW o \in Object, Accepts(egress'[o]) # {} \/ (Private(o)' /\ Held(o)')
      PROVE  Joins(ident[o])'
  <2>1. PICK id : id = ident[o] /\ id = ident'[o]
    BY <1>6
  <2>2. Joins(id)
    BY <1>6, <2>1 DEF Membership
  <2>3. Joins(id)'
    BY <1>2, <2>2
  <2>. QED
    BY <2>1, <2>3 DEF Joins, Left
<1>. QED
  BY <1>3, <1>4, <1>5, <1>6 DEF Membership, Accepts

\* Channel finds the id registered, or registers a new clientChannel.
LEMMA ChannelMembership ==
  ASSUME Registry, Membership, NEW t \in Thread, NEW id \in ChannelId,
         ChannelKnown(t, id) \/ ChannelNew(t, id)
  PROVE  Membership'
<1>1. UNCHANGED <<egress, done, routine, message, leaves, member, out>>
  BY DEF ChannelKnown, ChannelNew, routineVars, relayVars
<1>2. CASE ChannelKnown(t, id)
  <2>1. /\ UNCHANGED ident
        /\ holds' = [holds EXCEPT ![t] = @ \cup {channels[id]}]
    BY <1>2 DEF ChannelKnown, objectVars
  <2>2. PICK o \in Object : o = channels[id]
    BY <1>2 DEF ChannelKnown, Registry, Types, TypeOK
  <2>3. ASSUME NEW p \in Object, Private(p)', Held(p)' PROVE Private(p) /\ Held(p)
    <3>1. Private(p) /\ ~done[p]
      BY <2>1, <2>3, <1>1 DEF Private, Held
    <3>2. CASE p = o
      BY <3>1, <3>2, <2>2, <1>2, KnownIsHeld
    <3>3. CASE p # o
      BY <3>1, <3>3, <2>1, <2>2, <2>3 DEF Held, Registry, Types, TypeOK
    <3>. QED
      BY <3>2, <3>3
  <2>. QED
    BY <1>1, <2>1, <2>3, MembershipStep
<1>3. CASE ChannelNew(t, id)
  <2>1. PICK n \in Object : n = made' /\ n = made + 1
    BY <1>3, MultiplexerAssumption DEF ChannelNew, Registry, Types, TypeOK, Object
  <2>2. UNCHANGED holds /\ \A p \in Object : p # n => ident'[p] = ident[p]
    BY <1>3, <2>1 DEF ChannelNew, Registry, Types, TypeOK
  <2>3. ~done[n] /\ egress[n] = <<>> /\ \A u \in Thread : n \notin holds[u]
    BY <2>1, MultiplexerAssumption DEF Registry, Objects, Types, TypeOK, Object
  <2>4. Accepts(egress[n]) = {}
    BY <2>3 DEF Accepts
  <2>5. ASSUME NEW p \in Object, Private(p)', Held(p)'
        PROVE  ident'[p] = ident[p] /\ Private(p) /\ Held(p)
    <3>1. p # n /\ Held(p)
      BY <2>2, <2>3, <2>5, <1>1 DEF Held
    <3>. QED
      BY <3>1, <2>2, <2>5 DEF Private
  <2>. QED
    BY <1>1, <2>2, <2>3, <2>4, <2>5, MembershipStep
<1>. QED
  BY <1>2, <1>3

\* The calls go on, without a message from the relay.
LEMMA ContinueMembership ==
  ASSUME Membership, NEW t \in Thread, JoinTimeout(t) \/ JoinCleanup(t) \/ ChannelDone(t)
  PROVE  Membership'
<1>1. UNCHANGED <<ident, egress, done, routine, message, holds, leaves, member, out>>
  BY DEF JoinTimeout, JoinCleanup, ChannelDone, objectVars, routineVars, relayVars
<1>. QED
  BY <1>1 DEF Membership, Joins, Left, Private, Held

\* JOIN is sent.
LEMMA JoinSendMembership ==
  ASSUME Registry, Membership, NEW t \in Thread, JoinSend(t) PROVE Membership'
<1>1. UNCHANGED <<ident, egress, done, routine, message, holds>>
  BY DEF JoinSend, objectVars, routineVars
<1>2. \A o \in Object : Private(o)' /\ Held(o)' => Private(o) /\ Held(o)
  BY <1>1 DEF Private, Held
<1>3. UNCHANGED <<leaves, member>> /\ Accepts(out'[Client]) \subseteq Accepts(out[Client])
  BY RequestSteps, RefusedAccepts DEF Registry, Relay!AskJoin, relayVars, Relay!Refuse
<1>. QED
  BY <1>1, <1>2, <1>3, MembershipStep

\* LEAVE is sent: its clientChannel has been closed.
LEMMA CloseLeaveMembership ==
  ASSUME Registry, Membership, NEW t \in Thread, NEW o \in Object, CloseLeave(t, o)
  PROVE  Membership'
<1>1. /\ UNCHANGED <<ident, egress, routine, message, holds>>
      /\ done' = [done EXCEPT ![o] = TRUE]
  BY DEF CloseLeave, objectVars, routineVars
<1>2. done'[o] /\ \A p \in Object : done[p] => done'[p]
  BY <1>1 DEF Registry, Types, TypeOK
<1>3. \A p \in Object : Private(p)' /\ Held(p)' => Private(p) /\ Held(p)
  BY <1>1, <1>2 DEF Private, Held
<1>4. \/ Relay!AskLeave(Client, ident[o]) \/ Relay!Refuse(Client)
      \/ UNCHANGED relayVars
  BY RequestSteps DEF Registry
<1>5. /\ UNCHANGED member /\ Accepts(out'[Client]) \subseteq Accepts(out[Client])
      /\ \A id \in ChannelId : id # ident[o] => leaves'[Client][id] = leaves[Client][id]
  <2>1. UNCHANGED member /\ (Relay!Refuse(Client) \/ UNCHANGED out)
    BY <1>4 DEF Relay!AskLeave, relayVars, Relay!Refuse
  <2>2. Accepts(out'[Client]) \subseteq Accepts(out[Client])
    BY <2>1, RefusedAccepts DEF Registry
  <2>3. leaves' = leaves \/ leaves' = [leaves EXCEPT ![Client][ident[o]] = @ + 1]
    BY <1>4 DEF Relay!AskLeave, relayVars, Relay!Refuse
  <2>4. \A id \in ChannelId : id # ident[o] => leaves'[Client][id] = leaves[Client][id]
    BY <2>3 DEF Registry, Types, TypeOK
  <2>. QED
    BY <2>1, <2>2, <2>4
<1>6. ASSUME NEW id \in ChannelId, leaves'[Client][id] > 0
      PROVE  leaves[Client][id] > 0 \/ Left(id)'
  <2>1. CASE id = ident[o]
    BY <2>1, <1>1, <1>2 DEF Left
  <2>2. CASE id # ident[o]
    BY <2>2, <1>5, <1>6
  <2>. QED
    BY <2>1, <2>2
<1>. QED
  BY <1>1, <1>2, <1>3, <1>5, <1>6, MembershipStep

\* A message is taken from a clientChannel; join needs a JOIN_OK.
LEMMA TakeMembership ==
  ASSUME Registry, Membership, NEW t \in Thread,
         JoinAnswer(t) \/ \E o \in Object : Receive(t, o)
  PROVE  Membership'
<1>1. UNCHANGED <<ident, done, routine, message, leaves, member, out>>
  BY DEF JoinAnswer, Receive, objectVars, routineVars, relayVars
<1>2. PICK o \in Object :
        /\ egress[o] # <<>> /\ egress' = [egress EXCEPT ![o] = Tail(@)]
        /\ \/ UNCHANGED holds
           \/ Head(egress[o]).type = "JOIN_OK" /\ holds' = [holds EXCEPT ![t] = @ \cup {o}]
  <2>1. CASE JoinAnswer(t)
    BY <2>1, ObjectIdent DEF JoinAnswer, Joined, Registry
  <2>2. CASE \E o \in Object : Receive(t, o)
    BY <2>2 DEF Receive, threadVars
  <2>. QED
    BY <2>1, <2>2
<1>3. PICK q \in Seq(Frame) : q = egress[o] /\ q # <<>>
  BY <1>2 DEF Registry, Types
<1>4. \A p \in Object : Accepts(egress'[p]) \subseteq Accepts(egress[p])
  <2>1. egress'[o] = Tail(q) /\ \A p \in Object : p # o => egress'[p] = egress[p]
    BY <1>2, <1>3 DEF Registry, Types
  <2>. QED
    BY <1>3, <2>1, TailAccepts
<1>5. ASSUME NEW p \in Object, Private(p)', Held(p)'
      PROVE  (Private(p) /\ Held(p)) \/ Accepts(egress[p]) # {}
  <2>1. Private(p) /\ ~done[p]
    BY <1>1, <1>5 DEF Private, Held
  <2>2. CASE p = o /\ Head(q).type = "JOIN_OK"
    BY <2>2, <1>3, TailAccepts
  <2>3. CASE ~(p = o /\ Head(q).type = "JOIN_OK")
    <3>1. PICK u \in Thread : p \in holds'[u]
      BY <1>5 DEF Held
    <3>2. p \in holds[u]
      <4>1. CASE UNCHANGED holds
        BY <3>1, <4>1
      <4>2. CASE p # o /\ holds' = [holds EXCEPT ![t] = @ \cup {o}]
        BY <3>1, <4>2 DEF Registry, Types, TypeOK
      <4>. QED
        BY <2>3, <4>1, <4>2, <1>2, <1>3
    <3>. QED
      BY <2>1, <3>2 DEF Held
  <2>. QED
    BY <2>1, <2>2, <2>3
<1>. QED
  BY <1>1, <1>4, <1>5, MembershipStep

\* routine() takes a message from the connection and hands it to a clientChannel.
LEMMA RoutineMembership == ASSUME Registry, Membership, RoutineStep PROVE Membership'
<1>1. UNCHANGED <<ident, done, holds, leaves, member>>
  BY DEF RoutineStep, RoutineReceive, RoutineReturns, RoutineLookup, RoutineDispatch, objectVars,
         threadVars, relayVars
<1>2. \A o \in Object : Private(o)' /\ Held(o)' => Private(o) /\ Held(o)
  BY <1>1 DEF Private, Held
<1>3. CASE RoutineReceive
  <2>1. PICK q \in Seq(Frame) : q = out[Client] /\ q # <<>>
    BY <1>3 DEF RoutineReceive, Registry, Types
  <2>2. message' = Head(q) /\ out'[Client] = Tail(q) /\ UNCHANGED egress
    BY <1>3, <2>1 DEF RoutineReceive, Registry, Types
  <2>3. /\ Accepts(out'[Client]) \subseteq Accepts(out[Client])
        /\ message'.type = "JOIN_OK" => message'.channel \in Accepts(out[Client])
    BY <2>1, <2>2, TailAccepts
  <2>. QED
    BY <1>1, <1>2, <2>2, <2>3, MembershipStep
<1>4. CASE RoutineReturns \/ RoutineLookup
  <2>1. /\ UNCHANGED <<egress, out>>
        /\ routine' \in {"lock", "dispatch"} =>
             routine \in {"lock", "dispatch"} /\ message' = message
    BY <1>4 DEF RoutineReturns, RoutineLookup, relayVars
  <2>. QED
    BY <1>1, <1>2, <2>1, MembershipStep
<1>5. CASE RoutineDispatch
  <2>1. /\ routine = "dispatch" /\ routine' = "receive" /\ UNCHANGED out
        /\ egress' = [egress EXCEPT ![target] = Append(@, message)]
    BY <1>5 DEF RoutineDispatch, relayVars
  <2>2. /\ message.channel \in ChannelId /\ channels[message.channel] = target
        /\ message \in Frame
    BY <2>1 DEF Registry, Types, Dispatching
  <2>3. target # 0 => ident[target] = message.channel
    BY <2>2 DEF Registry, Objects
  <2>4. ASSUME NEW o \in Object, Accepts(egress'[o]) # {}
        PROVE  \/ Accepts(egress[o]) # {}
               \/ message.type = "JOIN_OK" /\ message.channel = ident[o]
    <3>1. PICK q \in Seq(Frame) : q = egress[o]
      BY DEF Registry, Types
    <3>2. CASE target = o
      <4>1. egress'[o] = Append(q, message)
        BY <2>1, <3>1, <3>2 DEF Registry, Types
      <4>2. message.channel = ident[o]
        BY <2>3, <3>2 DEF Object
      <4>. QED
        BY <2>2, <2>4, <3>1, <4>1, <4>2, AppendAccepts
    <3>3. CASE target # o
      BY <2>1, <2>4, <3>3 DEF Registry, Types
    <3>. QED
      BY <3>2, <3>3
  <2>. QED
    BY <1>1, <1>2, <2>1, <2>4, MembershipStep
<1>. QED
  BY <1>3, <1>4, <1>5 DEF RoutineStep

\* What the relay writes, apart from a JOIN_OK, accepts nothing.
LEMMA WriteAccepts ==
  ASSUME Types, NEW m \in Frame, Relay!Write(Client, m)
  PROVE  Accepts(out'[Client]) \subseteq
           Accepts(out[Client]) \cup (IF m.type = "JOIN_OK" THEN {m.channel} ELSE {})
<1>1. PICK q \in Seq(Frame) : q = out[Client]
  BY DEF Types
<1>2. out'[Client] \in {q, Append(q, m)}
  BY <1>1, TypesOfRelay, WriteTypes
<1>. QED
  BY <1>1, <1>2, AppendAccepts

\* The relay: it answers a JOIN with JOIN_OK when the client has become a member, and
\* removes the client only when it has read a LEAVE.
LEMMA RelayMembership ==
  ASSUME Registry, Membership,
         RelayHangsUp \/ \E id \in ChannelId : RelayServes(id) \/ RelayForwards(id)
  PROVE  Membership'
<1>1. UNCHANGED <<ident, egress, done, routine, message, holds>>
  BY DEF RelayHangsUp, RelayServes, RelayForwards, muxVars, objectVars, routineVars, threadVars
<1>2. \A o \in Object : Private(o)' /\ Held(o)' => Private(o) /\ Held(o)
  BY <1>1 DEF Private, Held
<1>3. \A id : Left(id) => Left(id)'
  BY <1>1 DEF Left
<1>4. SUFFICES /\ \A id \in member[Client] : id \in member'[Client] \/ Left(id)
               /\ \A id \in ChannelId : leaves'[Client][id] > 0 => leaves[Client][id] > 0
               /\ \A id \in Accepts(out'[Client]) :
                    id \in Accepts(out[Client]) \/ id \in member'[Client]
  BY <1>1, <1>2, <1>3, MembershipStep
<1>5. CASE RelayHangsUp
  BY <1>5 DEF RelayHangsUp, Relay!HangUp
<1>6. ASSUME NEW id \in ChannelId, RelayForwards(id)
      PROVE  /\ UNCHANGED <<leaves, member>>
             /\ Accepts(out'[Client]) \subseteq Accepts(out[Client])
  <2>1. PICK m : m = Relay!Message("EGRESS", id, forwarded'[id]) /\ Relay!Write(Client, m)
    BY <1>6 DEF RelayForwards, Relay!Forward
  <2>2. m.type = "EGRESS"
    BY <2>1 DEF Relay!Message
  <2>3. UNCHANGED <<leaves, member>>
    BY <1>6 DEF RelayForwards, Relay!Forward
  <2>4. m \in Frame
    BY <1>6, <2>1, ForwardedFrame DEF Registry
  <2>. QED
    BY <2>1, <2>2, <2>3, <2>4, WriteAccepts DEF Registry
<1>7. ASSUME NEW id \in ChannelId, Relay!Accept(Client, id)
      PROVE  /\ UNCHANGED leaves /\ member'[Client] = member[Client] \cup {id}
             /\ Accepts(out'[Client]) \subseteq Accepts(out[Client]) \cup {id}
  <2>1. PICK m \in Frame : m = Relay!Message("JOIN_OK", id, NoBlob)
    BY FrameTypes
  <2>2. Relay!Write(Client, m) /\ m.channel = id
    BY <1>7, <2>1 DEF Relay!Accept, Relay!Message
  <2>3. UNCHANGED leaves /\ member'[Client] = member[Client] \cup {id}
    BY <1>7 DEF Relay!Accept, Registry, Types, TypeOK
  <2>. QED
    BY <2>2, <2>3, WriteAccepts DEF Registry
<1>8. ASSUME NEW id \in ChannelId, Relay!Full(Client, id)
      PROVE  UNCHANGED <<leaves, member>> /\ Accepts(out'[Client]) \subseteq Accepts(out[Client])
  <2>1. PICK m \in Frame : m = Relay!Message("JOIN_FAILURE", id, NoBlob)
    BY FrameTypes
  <2>2. Relay!Write(Client, m) /\ m.type = "JOIN_FAILURE"
    BY <1>8, <2>1 DEF Relay!Full, Relay!Message
  <2>. QED
    BY <2>2, <1>8, WriteAccepts DEF Registry, Relay!Full
<1>9. ASSUME NEW id \in ChannelId, Relay!Leave(Client, id)
      PROVE  /\ UNCHANGED out /\ member'[Client] = member[Client] \ {id} /\ Left(id)
             /\ \A i \in ChannelId : leaves'[Client][i] > 0 => leaves[Client][i] > 0
  <2>1. UNCHANGED out /\ leaves[Client][id] > 0 /\ member'[Client] = member[Client] \ {id}
    BY <1>9 DEF Relay!Leave, Registry, Types, TypeOK
  <2>2. Left(id)
    BY <2>1 DEF Membership
  <2>3. \A i \in ChannelId : i = id \/ leaves'[Client][i] = leaves[Client][i]
    BY <1>9 DEF Relay!Leave, Registry, Types, TypeOK
  <2>. QED
    BY <2>1, <2>2, <2>3
<1>10. ASSUME NEW id \in ChannelId, Relay!Forget(id)
       PROVE  /\ UNCHANGED <<member, out>>
              /\ \A i \in ChannelId : leaves'[Client][i] > 0 => leaves[Client][i] > 0
  <2>1. UNCHANGED <<member, out>>
    BY <1>10 DEF Relay!Forget
  <2>2. leaves'[Client] = [leaves[Client] EXCEPT ![id] = 0]
    BY <1>10 DEF Relay!Forget
  <2>3. \A i \in ChannelId : leaves'[Client][i] \in {0, leaves[Client][i]}
    BY <2>2 DEF Registry, Types, TypeOK
  <2>. QED
    BY <2>1, <2>3
<1>. QED
  BY <1>5, <1>6, <1>7, <1>8, <1>9, <1>10 DEF RelayServes

-----------------------------------------------------------------------------
(***************************************************************************)
(* That no payload is missed.                                              *)
(***************************************************************************)

\* The messages with a payload of a channel.
Payload(id) == [type : {"EGRESS"}, channel : {id}, blob : Blob]

\* The messages of P in a queue have the payloads a + 1 to b, in this order.
Numbered(q, P, a, b) ==
  /\ a <= b
  /\ \A i \in 1..Len(q) : q[i] \in P => a < q[i].blob /\ q[i].blob <= b
  /\ \A i, j \in 1..Len(q) : i < j /\ q[i] \in P /\ q[j] \in P => q[i].blob < q[j].blob
  /\ \A n \in Nat : a < n /\ n <= b => \E i \in 1..Len(q) : q[i] \in P /\ q[i].blob = n

\* routine() has a payload of this channel in hand.
InHand(id) == routine \in {"lock", "dispatch"} /\ message \in Payload(id)

\* What Receive has returned of a clientChannel ends with a, what waits in egress with b.
Sequel(o, a, b) ==
  /\ Numbered(egress[o], Payload(ident[o]), a, b)
  /\ Consecutive(received[o])
  /\ received[o] # <<>> => received[o][Len(received[o])] = a
  /\ \A i \in 1..Len(received[o]) : received[o][i] <= a

\* All payloads of a channel after the one numbered front are under way, up to the last
\* one that the relay has forwarded, and front is the last one that the clientChannel
\* registered for the channel has got.
FlowFrom(id, front, mid, last) ==
  /\ IF InHand(id) THEN mid = front + 1 /\ message.blob = mid ELSE mid = front
  /\ Numbered(out[Client], Payload(id), mid, last)
  /\ open[Client] => last = forwarded[id]
  /\ \A o \in Object : ident[o] = id /\ Private(o) =>
       \E a, b \in Nat : Sequel(o, a, b) /\ (channels[id] = o => b = front)

Flow(id) == \E front, mid, last \in Nat : FlowFrom(id, front, mid, last)

\* Only who holds a clientChannel receives, and egress has messages of its channel.
Mine ==
  /\ \A o \in Object : received[o] # <<>> => \E t \in Thread : o \in holds[t]
  /\ \A o \in Object : \A i \in 1..Len(egress[o]) : egress[o][i].channel = ident[o]

Flows == Mine /\ \A id \in ChannelId : Flow(id)

\* A queue without messages has no payloads.
LEMMA NumberedEmpty == ASSUME NEW P, NEW a \in Nat PROVE Numbered(<<>>, P, a, a)
BY DEF Numbered

\* A message enters a queue...
LEMMA NumberedAppend ==
  ASSUME NEW q \in Seq(Frame), NEW m \in Frame, NEW P, NEW a \in Nat, NEW b \in Nat,
         Numbered(q, P, a, b), \A f \in P : f.blob \in Nat
  PROVE  /\ m \notin P => Numbered(Append(q, m), P, a, b)
         /\ m \in P /\ m.blob = b + 1 => Numbered(Append(q, m), P, a, b + 1)
<1>. DEFINE r == Append(q, m)
<1>1. /\ Len(r) = Len(q) + 1 /\ Len(q) \in Nat
      /\ \A i \in 1..Len(q) : r[i] = q[i]
      /\ r[Len(q) + 1] = m
  OBVIOUS
<1>2. \A i : i \in 1..Len(r) <=> i \in 1..Len(q) \/ i = Len(q) + 1
  BY <1>1
<1>. HIDE DEF r
<1>3. ASSUME m \notin P PROVE Numbered(r, P, a, b)
  <2>1. \A i \in 1..Len(r) : r[i] \in P => i \in 1..Len(q) /\ r[i] = q[i]
    BY <1>1, <1>2, <1>3
  <2>2. \A i \in 1..Len(r) : r[i] \in P => a < r[i].blob /\ r[i].blob <= b
    BY <2>1 DEF Numbered
  <2>3. \A i, j \in 1..Len(r) : i < j /\ r[i] \in P /\ r[j] \in P => r[i].blob < r[j].blob
    BY <2>1 DEF Numbered
  <2>4. ASSUME NEW n \in Nat, a < n, n <= b PROVE \E i \in 1..Len(r) : r[i] \in P /\ r[i].blob = n
    <3>1. PICK i \in 1..Len(q) : q[i] \in P /\ q[i].blob = n
      BY <2>4 DEF Numbered
    <3>. QED
      BY <3>1, <1>1, <1>2
  <2>. QED
    BY <2>2, <2>3, <2>4 DEF Numbered
<1>4. ASSUME m \in P, m.blob = b + 1 PROVE Numbered(r, P, a, b + 1)
  <2>1. \A i \in 1..Len(q) : q[i] \in P => q[i].blob \in Nat /\ a < q[i].blob /\ q[i].blob <= b
    BY DEF Numbered
  <2>2. ASSUME NEW i \in 1..Len(r), r[i] \in P PROVE a < r[i].blob /\ r[i].blob <= b + 1
    <3>1. a <= b
      BY DEF Numbered
    <3>2. CASE i \in 1..Len(q)
      <4>1. q[i].blob \in Nat /\ a < q[i].blob /\ q[i].blob <= b /\ r[i] = q[i]
        BY <2>1, <2>2, <3>2, <1>1
      <4>. QED
        BY <4>1
    <3>3. CASE i = Len(q) + 1
      BY <3>1, <3>3, <1>1, <1>4
    <3>. QED
      BY <3>2, <3>3, <1>2
  <2>3. ASSUME NEW i \in 1..Len(r), NEW j \in 1..Len(r), i < j, r[i] \in P, r[j] \in P
        PROVE  r[i].blob < r[j].blob
    <3>1. i \in 1..Len(q) /\ r[i] = q[i]
      BY <1>1, <1>2, <2>3
    <3>2. CASE j \in 1..Len(q)
      BY <3>1, <3>2, <2>3, <1>1 DEF Numbered
    <3>3. CASE j = Len(q) + 1
      <4>1. q[i].blob \in Nat /\ q[i].blob <= b
        BY <3>1, <2>1, <2>3
      <4>. QED
        BY <4>1, <3>1, <3>3, <1>1, <1>4
    <3>. QED
      BY <3>2, <3>3, <1>2
  <2>4. ASSUME NEW n \in Nat, a < n, n <= b + 1
        PROVE  \E i \in 1..Len(r) : r[i] \in P /\ r[i].blob = n
    <3>1. CASE n <= b
      <4>1. PICK i \in 1..Len(q) : q[i] \in P /\ q[i].blob = n
        BY <2>4, <3>1 DEF Numbered
      <4>. QED
        BY <4>1, <1>1, <1>2
    <3>2. CASE n = b + 1
      BY <3>2, <1>1, <1>2, <1>4
    <3>. QED
      BY <2>4, <3>1, <3>2
  <2>5. a <= b + 1
    BY DEF Numbered
  <2>. QED
    BY <2>2, <2>3, <2>4, <2>5 DEF Numbered
<1>. QED
  BY <1>3, <1>4 DEF r

\* ... and leaves it.
LEMMA NumberedTail ==
  ASSUME NEW q \in Seq(Frame), q # <<>>, NEW P, NEW a \in Nat, NEW b \in Nat,
         Numbered(q, P, a, b), \A f \in P : f.blob \in Nat
  PROVE  /\ Head(q) \notin P => Numbered(Tail(q), P, a, b)
         /\ Head(q) \in P => Head(q).blob = a + 1 /\ Numbered(Tail(q), P, a + 1, b)
<1>. DEFINE r == Tail(q)
<1>1. /\ Len(q) \in Nat /\ Len(q) >= 1 /\ Head(q) = q[1] /\ Len(r) = Len(q) - 1
      /\ \A i \in 1..Len(r) : r[i] = q[i + 1]
  OBVIOUS
<1>2. /\ \A i \in 1..Len(r) : i + 1 \in 1..Len(q)
      /\ \A i \in 1..Len(q) : i = 1 \/ (i - 1 \in 1..Len(r) /\ r[i - 1] = q[i])
      /\ 1 \in 1..Len(q)
  BY <1>1
<1>. HIDE DEF r
<1>3. ASSUME NEW i \in 1..Len(r), NEW j \in 1..Len(r), i < j, r[i] \in P, r[j] \in P
      PROVE  r[i].blob < r[j].blob
  <2>1. r[i] = q[i + 1] /\ r[j] = q[j + 1]
    BY <1>1
  <2>2. i + 1 < j + 1 /\ i + 1 \in 1..Len(q) /\ j + 1 \in 1..Len(q)
    BY <1>2, <1>3
  <2>. QED
    BY <2>1, <2>2, <1>3 DEF Numbered
<1>4. ASSUME Head(q) \notin P PROVE Numbered(r, P, a, b)
  <2>1. \A i \in 1..Len(r) : r[i] \in P => a < r[i].blob /\ r[i].blob <= b
    BY <1>1, <1>2 DEF Numbered
  <2>2. ASSUME NEW n \in Nat, a < n, n <= b PROVE \E i \in 1..Len(r) : r[i] \in P /\ r[i].blob = n
    <3>1. PICK i \in 1..Len(q) : q[i] \in P /\ q[i].blob = n
      BY <2>2 DEF Numbered
    <3>2. i # 1
      BY <3>1, <1>1, <1>4
    <3>. QED
      BY <3>1, <3>2, <1>2
  <2>. QED
    BY <1>3, <2>1, <2>2 DEF Numbered
<1>5. ASSUME Head(q) \in P PROVE Head(q).blob = a + 1 /\ Numbered(r, P, a + 1, b)
  <2>1. q[1] \in P /\ q[1].blob \in Nat /\ a < q[1].blob /\ q[1].blob <= b
    BY <1>1, <1>2, <1>5 DEF Numbered
  <2>2. PICK k \in 1..Len(q) : q[k] \in P /\ q[k].blob = a + 1
    <3>1. a + 1 \in Nat /\ a < a + 1 /\ a + 1 <= b
      BY <2>1
    <3>. QED
      BY <3>1 DEF Numbered
  <2>3. k = 1
    <3>1. ASSUME k # 1 PROVE FALSE
      <4>1. q[1].blob < q[k].blob
        BY <3>1, <2>1, <2>2, <1>2 DEF Numbered
      <4>. QED
        BY <4>1, <2>1, <2>2
    <3>. QED
      BY <3>1
  <2>4. ASSUME NEW i \in 1..Len(r), r[i] \in P PROVE a + 1 < r[i].blob /\ r[i].blob <= b
    <3>1. r[i] = q[i + 1] /\ i + 1 \in 1..Len(q) /\ 1 < i + 1
      BY <1>1, <1>2
    <3>2. q[1].blob < q[i + 1].blob /\ q[i + 1].blob <= b
      BY <3>1, <2>1, <2>4, <1>2 DEF Numbered
    <3>. QED
      BY <3>1, <3>2, <2>2, <2>3
  <2>5. ASSUME NEW n \in Nat, a + 1 < n, n <= b
        PROVE \E i \in 1..Len(r) : r[i] \in P /\ r[i].blob = n
    <3>1. a < n
      BY <2>5
    <3>2. PICK i \in 1..Len(q) : q[i] \in P /\ q[i].blob = n
      BY <2>5, <3>1 DEF Numbered
    <3>3. i # 1
      BY <3>2, <2>5, <2>2, <2>3
    <3>. QED
      BY <3>2, <3>3, <1>2
  <2>6. a + 1 <= b
    BY <2>1
  <2>. QED
    BY <1>1, <1>3, <2>2, <2>3, <2>4, <2>5, <2>6 DEF Numbered
<1>. QED
  BY <1>4, <1>5 DEF r

\* Payloads are numbers.
LEMMA BlobsAreNumbers == Blob \subseteq Nat
BY MultiplexerAssumption DEF Blob

\* The messages with a payload of a channel.
LEMMA PayloadFacts ==
  ASSUME NEW id \in ChannelId
  PROVE  /\ Payload(id) \subseteq Frame
         /\ \A m \in Payload(id) : m.blob \in Nat
         /\ \A m \in Frame : m \in Payload(id) <=> m.type = "EGRESS" /\ m.channel = id
<1>1. Blob \subseteq Nat
  BY BlobsAreNumbers
<1>2. Payload(id) \subseteq Frame
  BY DEF Payload, Frame, Message
<1>3. ASSUME NEW m \in Frame PROVE m \in Payload(id) <=> m.type = "EGRESS" /\ m.channel = id
  <2>1. m = [type |-> m.type, channel |-> m.channel, blob |-> m.blob]
    BY DEF Frame, Message
  <2>2. m.type = "EGRESS" => m.blob \in Blob
    BY DEF Frame
  <2>. QED
    BY <2>1, <2>2 DEF Payload
<1>. QED
  BY <1>1, <1>2, <1>3 DEF Payload

\* A clientChannel that has got nothing may begin anywhere.
LEMMA SequelEmpty ==
  ASSUME NEW o \in Object, received[o] = <<>>, egress[o] = <<>>, NEW a \in Nat
  PROVE  Sequel(o, a, a)
BY NumberedEmpty DEF Sequel, Consecutive

\* One payload more has been received.
LEMMA ConsecutiveMore ==
  ASSUME NEW s \in Seq(Blob), Consecutive(s), NEW n \in Blob, s # <<>> => n = s[Len(s)] + 1
  PROVE  Consecutive(s \o <<n>>)
<1>. DEFINE r == s \o <<n>>
<1>1. /\ Len(s) \in Nat /\ Len(r) = Len(s) + 1 /\ r[Len(s) + 1] = n
      /\ \A i \in 1..Len(s) : r[i] = s[i]
      /\ Len(s) # 0 => s # <<>>
  OBVIOUS
<1>. HIDE DEF r
<1>2. ASSUME NEW i \in 1..(Len(r) - 1) PROVE r[i + 1] = r[i] + 1
  <2>1. CASE i = Len(s)
    BY <1>1, <2>1
  <2>2. CASE i # Len(s)
    <3>1. i \in 1..(Len(s) - 1) /\ i \in 1..Len(s) /\ i + 1 \in 1..Len(s)
      BY <1>1, <2>2
    <3>2. s[i + 1] = s[i] + 1
      BY <3>1 DEF Consecutive
    <3>. QED
      BY <3>1, <3>2, <1>1
  <2>. QED
    BY <2>1, <2>2
<1>3. Consecutive(r)
  BY <1>2 DEF Consecutive
<1>. QED
  BY <1>3 DEF r

\* NoGap, from the invariant.
LEMMA FlowsNoGap == ASSUME Types, Objects, Flows, NEW o \in Object, Private(o),
                           NEW i \in DOMAIN egress[o], IsEgress(egress[o][i]), Earlier(o, i) # {}
                    PROVE  /\ egress[o][i].blob - 1 \in Earlier(o, i)
                           /\ egress[o][i].blob \notin Earlier(o, i)
<1>1. PICK q \in Seq(Frame) : q = egress[o]
  BY DEF Types
<1>2. PICK s \in Seq(Blob) : s = received[o]
  BY DEF Types, TypeOK
<1>3. /\ Len(q) \in Nat /\ DOMAIN q = 1..Len(q) /\ i \in 1..Len(q)
      /\ Len(s) \in Nat /\ DOMAIN s = 1..Len(s) /\ \A k \in 1..Len(s) : s[k] \in Nat
      /\ s # <<>> => Len(s) \in 1..Len(s)
  <2>1. Len(q) \in Nat /\ DOMAIN q = 1..Len(q) /\ i \in 1..Len(q)
    BY <1>1
  <2>2. Len(s) \in Nat /\ DOMAIN s = 1..Len(s) /\ \A k \in 1..Len(s) : s[k] \in Blob
    OBVIOUS
  <2>3. \A k \in 1..Len(s) : s[k] \in Nat
    BY <2>2, BlobsAreNumbers
  <2>4. Len(s) # 0 => Len(s) \in 1..Len(s)
    BY <2>2
  <2>5. s # <<>> => Len(s) # 0
    OBVIOUS
  <2>. QED
    BY <2>1, <2>2, <2>3, <2>4, <2>5
<1>4. o <= made
  BY <1>1, <1>3 DEF Objects, Types, TypeOK, Object
<1>5. PICK id \in ChannelId : id = ident[o]
  BY <1>4 DEF Objects
<1>6. PICK a \in Nat, b \in Nat : Sequel(o, a, b)
  BY <1>5 DEF Flows, Flow, FlowFrom
<1>7. PICK P : P = Payload(id)
  OBVIOUS
<1>8. /\ Numbered(q, P, a, b)
      /\ s # <<>> => s[Len(s)] = a
      /\ \A k \in 1..Len(s) : s[k] <= a
  BY <1>1, <1>2, <1>5, <1>6, <1>7 DEF Sequel
<1>9. \A k \in 1..Len(q) : IsEgress(q[k]) => q[k] \in P /\ q[k].blob \in Nat
  <2>1. \A k \in 1..Len(q) : q[k] \in Frame
    BY <1>1
  <2>2. \A k \in 1..Len(q) : q[k].channel = id
    BY <1>1, <1>5 DEF Flows, Mine
  <2>. QED
    BY <2>1, <2>2, <1>7, PayloadFacts DEF IsEgress
<1>10. Earlier(o, i) = {s[k] : k \in 1..Len(s)}
                         \cup {q[k].blob : k \in {j \in 1..(i - 1) : IsEgress(q[j])}}
  BY <1>1, <1>2, <1>3 DEF Earlier
<1>11. \A k : k \in 1..(i - 1) <=> k \in 1..Len(q) /\ k < i
  BY <1>3
<1>12. PICK x \in Nat : x = q[i].blob /\ a < x /\ x <= b
  BY <1>1, <1>3, <1>8, <1>9 DEF Numbered
<1>13. x \notin Earlier(o, i)
  <2>1. \A k \in 1..Len(s) : s[k] # x
    BY <1>3, <1>8, <1>12
  <2>2. ASSUME NEW k \in 1..(i - 1), IsEgress(q[k]) PROVE q[k].blob # x
    <3>1. k \in 1..Len(q) /\ k < i /\ q[k] \in P /\ q[i] \in P /\ q[k].blob \in Nat
      BY <2>2, <1>1, <1>3, <1>9, <1>11
    <3>2. q[k].blob < q[i].blob
      BY <3>1, <1>3, <1>8 DEF Numbered
    <3>. QED
      BY <3>1, <3>2, <1>12
  <2>. QED
    BY <2>1, <2>2, <1>10
<1>14. CASE x = a + 1
  <2>1. CASE s # <<>>
    <3>1. a \in Earlier(o, i)
      BY <2>1, <1>3, <1>8, <1>10
    <3>. QED
      BY <3>1, <1>1, <1>12, <1>13, <1>14
  <2>2. CASE s = <<>>
    <3>1. PICK k \in 1..(i - 1) : IsEgress(q[k])
      BY <2>2, <1>10
    <3>2. k \in 1..Len(q) /\ k < i /\ q[k] \in P /\ q[i] \in P /\ q[k].blob \in Nat
      BY <3>1, <1>1, <1>3, <1>9, <1>11
    <3>3. q[k].blob < q[i].blob /\ a < q[k].blob
      BY <3>2, <1>3, <1>8 DEF Numbered
    <3>. QED
      BY <3>2, <3>3, <1>12, <1>14
  <2>. QED
    BY <2>1, <2>2
<1>15. CASE x # a + 1
  <2>1. x - 1 \in Nat /\ a < x - 1 /\ x - 1 <= b
    BY <1>12, <1>15
  <2>2. PICK k \in 1..Len(q) : q[k] \in P /\ q[k].blob = x - 1
    BY <2>1, <1>8 DEF Numbered
  <2>3. k < i
    <3>1. k # i
      BY <2>2, <1>12
    <3>2. ~(i < k)
      <4>1. ASSUME i < k PROVE q[i].blob < q[k].blob
        BY <4>1, <2>2, <1>1, <1>3, <1>8, <1>9 DEF Numbered
      <4>. QED
        BY <4>1, <2>2, <1>12
    <3>. QED
      BY <3>1, <3>2, <1>3
  <2>4. IsEgress(q[k])
    BY <2>2, <1>1, <1>7, PayloadFacts DEF IsEgress
  <2>5. x - 1 \in Earlier(o, i)
    BY <2>2, <2>3, <2>4, <1>10, <1>11
  <2>. QED
    BY <2>5, <1>1, <1>12, <1>13
<1>. QED
  BY <1>14, <1>15

\* Nothing has been forwarded at first.
LEMMA FlowsInit == Init => Flows
<1>. SUFFICES ASSUME Init PROVE Flows
  OBVIOUS
<1>1. /\ egress = [o \in Object |-> <<>>] /\ received = [o \in Object |-> <<>>]
      /\ out = [c \in {Client} |-> <<>>] /\ forwarded = [id \in ChannelId |-> 0]
      /\ routine = "receive"
  BY DEF Init, Relay!Init
<1>2. Mine
  BY <1>1 DEF Mine
<1>3. ASSUME NEW id \in ChannelId PROVE FlowFrom(id, 0, 0, 0)
  <2>1. ~InHand(id) /\ Numbered(out[Client], Payload(id), 0, 0)
    BY <1>1, NumberedEmpty DEF InHand
  <2>2. \A o \in Object : Sequel(o, 0, 0)
    BY <1>1, SequelEmpty
  <2>. QED
    BY <1>1, <2>1, <2>2 DEF FlowFrom
<1>. QED
  BY <1>2, <1>3 DEF Flows, Flow

\* A clientChannel that has not been made has got nothing.
LEMMA UnmadeEmpty ==
  ASSUME Types, Objects, Mine, NEW o \in Object, o > made
  PROVE  received[o] = <<>> /\ egress[o] = <<>>
<1>1. o \in Nat /\ made \in Nat
  BY MultiplexerAssumption DEF Types, TypeOK, Object
<1>2. \A t \in Thread : o \in holds[t] => o <= made
  BY DEF Objects
<1>3. ~(o <= made)
  BY <1>1
<1>4. \A t \in Thread : o \notin holds[t]
  BY <1>2, <1>3
<1>. QED
  BY <1>4 DEF Objects, Mine

\* A step that moves no payload and registers no clientChannel but one that has got nothing.
LEMMA QuietFlows ==
  ASSUME Flows, UNCHANGED <<received, egress, forwarded>>,
         \A id \in ChannelId : InHand(id)' <=> InHand(id),
         \A id \in ChannelId : InHand(id) => message' = message,
         \A id \in ChannelId, a, b \in Nat :
           Numbered(out[Client], Payload(id), a, b) => Numbered(out'[Client], Payload(id), a, b),
         open'[Client] => open[Client],
         \A t \in Thread : holds[t] \subseteq holds'[t],
         \A o \in Object :
           \/ received[o] = <<>> /\ egress[o] = <<>>
           \/ ident'[o] = ident[o] /\ \A id \in ChannelId : channels'[id] = o => channels[id] = o
  PROVE  Flows'
<1>1. Mine'
  <2>1. \A o \in Object : received'[o] # <<>> => \E t \in Thread : o \in holds'[t]
    BY DEF Flows, Mine
  <2>2. \A o \in Object : \A i \in 1..Len(egress'[o]) : egress'[o][i].channel = ident'[o]
    BY DEF Flows, Mine
  <2>. QED
    BY <2>1, <2>2 DEF Mine
<1>2. ASSUME NEW id \in ChannelId PROVE Flow(id)'
  <2>1. PICK front \in Nat, mid \in Nat, last \in Nat : FlowFrom(id, front, mid, last)
    BY DEF Flows, Flow
  <2>2. ASSUME NEW o \in Object, ident'[o] = id, Private(o)'
        PROVE  \E a, b \in Nat : Sequel(o, a, b)' /\ (channels'[id] = o => b = front)
    <3>1. CASE received[o] = <<>> /\ egress[o] = <<>>
      <4>1. Sequel(o, front, front)'
        BY <3>1, NumberedEmpty DEF Sequel, Consecutive
      <4>. QED
        BY <4>1
    <3>2. CASE ident'[o] = ident[o] /\ (channels'[id] = o => channels[id] = o)
      <4>1. Private(o)
        BY <2>2, <3>2 DEF Private
      <4>2. PICK a \in Nat, b \in Nat : Sequel(o, a, b) /\ (channels[id] = o => b = front)
        BY <2>1, <2>2, <3>2, <4>1 DEF FlowFrom
      <4>3. Sequel(o, a, b)'
        BY <3>2, <4>2 DEF Sequel
      <4>. QED
        BY <3>2, <4>2, <4>3
    <3>. QED
      BY <3>1, <3>2
  <2>3. FlowFrom(id, front, mid, last)'
    BY <2>1, <2>2 DEF FlowFrom
  <2>. QED
    BY <2>3 DEF Flow
<1>. QED
  BY <1>1, <1>2 DEF Flows

\* What the relay writes, apart from what it forwards, has no payload.
LEMMA OtherWrites ==
  ASSUME Types, NEW m \in Frame, m.type # "EGRESS", Relay!Write(Client, m),
         NEW id \in ChannelId, NEW a \in Nat, NEW b \in Nat,
         Numbered(out[Client], Payload(id), a, b)
  PROVE  Numbered(out'[Client], Payload(id), a, b)
<1>1. PICK q \in Seq(Frame) : q = out[Client]
  BY DEF Types
<1>2. out'[Client] \in {q, Append(q, m)}
  BY <1>1, TypesOfRelay, WriteTypes
<1>3. PICK P : P = Payload(id) /\ m \notin P /\ \A f \in P : f.blob \in Nat
  BY PayloadFacts
<1>4. Numbered(q, P, a, b) => Numbered(Append(q, m), P, a, b)
  BY <1>3, NumberedAppend
<1>. QED
  BY <1>1, <1>2, <1>3, <1>4

\* A refusal.
LEMMA RefuseFlows ==
  ASSUME Types, Relay!Refuse(Client) \/ UNCHANGED out,
         NEW id \in ChannelId, NEW a \in Nat, NEW b \in Nat,
         Numbered(out[Client], Payload(id), a, b)
  PROVE  Numbered(out'[Client], Payload(id), a, b)
<1>1. CASE Relay!Refuse(Client)
  <2>1. PICK m \in Frame : m = Relay!Message("JOIN_FAILURE", NoChannel, NoBlob)
    BY FrameTypes
  <2>2. Relay!Write(Client, m) /\ m.type # "EGRESS"
    BY <1>1, <2>1 DEF Relay!Refuse, Relay!Message
  <2>. QED
    BY <2>2, OtherWrites
<1>. QED
  BY <1>1

\* Channel and Close, but for the answer that join takes.
LEMMA CallFlows ==
  ASSUME Registry, Flows, NEW t \in Thread,
         \/ \E id \in ChannelId : ChannelKnown(t, id) \/ ChannelNew(t, id)
         \/ \E o \in Object : CloseLeave(t, o)
         \/ JoinSend(t) \/ JoinTimeout(t) \/ JoinCleanup(t) \/ ChannelDone(t)
  PROVE  Flows'
<1>1. UNCHANGED <<received, egress, forwarded, routine, message>>
  BY DEF ChannelKnown, ChannelNew, CloseLeave, JoinSend, JoinTimeout, JoinCleanup, ChannelDone,
         historyVars, routineVars
<1>2. /\ \A id \in ChannelId : InHand(id)' <=> InHand(id)
      /\ \A id \in ChannelId : InHand(id) => message' = message
  BY <1>1 DEF InHand
<1>3. (Relay!Refuse(Client) \/ UNCHANGED out) /\ UNCHANGED open
  <2>1. CASE \/ JoinSend(t) \/ \E o \in Object : CloseLeave(t, o)
    BY <2>1, RequestSteps
       DEF Registry, Relay!AskJoin, Relay!AskLeave, Relay!Refuse, relayVars
  <2>2. CASE \/ \E id \in ChannelId : ChannelKnown(t, id) \/ ChannelNew(t, id)
             \/ JoinTimeout(t) \/ JoinCleanup(t) \/ ChannelDone(t)
    BY <2>2 DEF ChannelKnown, ChannelNew, JoinTimeout, JoinCleanup, ChannelDone, relayVars
  <2>. QED
    BY <2>1, <2>2
<1>4. \A u \in Thread : holds[u] \subseteq holds'[u]
  <2>1. \/ UNCHANGED holds
        \/ \E id \in ChannelId : holds' = [holds EXCEPT ![t] = @ \cup {channels[id]}]
    BY DEF ChannelKnown, ChannelNew, CloseLeave, JoinSend, JoinTimeout, JoinCleanup, ChannelDone,
           threadVars
  <2>. QED
    BY <2>1 DEF Registry, Types, TypeOK
<1>5. ASSUME NEW o \in Object
      PROVE  \/ received[o] = <<>> /\ egress[o] = <<>>
             \/ ident'[o] = ident[o] /\ \A id \in ChannelId : channels'[id] = o => channels[id] = o
  <2>1. CASE \E id \in ChannelId : ChannelNew(t, id)
    <3>1. PICK id \in ChannelId : ChannelNew(t, id)
      BY <2>1
    <3>2. PICK n \in Object : n = made' /\ n = made + 1
      BY <3>1, MultiplexerAssumption DEF ChannelNew, Registry, Types, TypeOK, Object
    <3>3. /\ ident' = [ident EXCEPT ![n] = id] /\ channels' = [channels EXCEPT ![id] = n]
      BY <3>1, <3>2 DEF ChannelNew
    <3>4. CASE o = n
      <4>1. o > made
        BY <3>2, <3>4, MultiplexerAssumption DEF Registry, Types, TypeOK
      <4>. QED
        BY <4>1, UnmadeEmpty DEF Registry, Flows
    <3>5. CASE o # n
      BY <3>3, <3>5 DEF Registry, Types, TypeOK
    <3>. QED
      BY <3>4, <3>5
  <2>2. CASE /\ UNCHANGED ident
             /\ \/ UNCHANGED channels
                \/ channels' = [channels EXCEPT ![ident[object[t]]] = 0]
    <3>1. o # 0
      BY DEF Object
    <3>. QED
      BY <2>2, <3>1 DEF Registry, Types, TypeOK
  <2>. QED
    BY <2>1, <2>2 DEF ChannelKnown, CloseLeave, JoinSend, JoinTimeout, JoinCleanup, ChannelDone,
                      objectVars
<1>6. \A id \in ChannelId, a, b \in Nat :
        Numbered(out[Client], Payload(id), a, b) => Numbered(out'[Client], Payload(id), a, b)
  BY <1>3, RefuseFlows DEF Registry
<1>. QED
  BY <1>1, <1>2, <1>3, <1>4, <1>5, <1>6, QuietFlows

\* A clientChannel hands out its next message, or join takes its answer.
LEMMA TakeSequel ==
  ASSUME Types, Mine, NEW o \in Object, ident[o] \in ChannelId, ident' = ident,
         egress[o] # <<>>, egress' = [egress EXCEPT ![o] = Tail(@)],
         \/ received'[o] = received[o] \o Delivered(Head(egress[o]))
         \/ received[o] = <<>> /\ received'[o] = <<>>,
         NEW a \in Nat, NEW b \in Nat, Sequel(o, a, b)
  PROVE  \E a2 \in Nat : Sequel(o, a2, b)'
<1>1. PICK q \in Seq(Frame) : q = egress[o] /\ q # <<>>
  BY DEF Types
<1>2. PICK s \in Seq(Blob) : s = received[o]
  BY DEF Types, TypeOK
<1>3. PICK m \in Frame : m = Head(q)
  BY <1>1
<1>4. PICK P : P = Payload(ident[o])
  OBVIOUS
<1>5. /\ \A f \in P : f.blob \in Nat
      /\ m \in P <=> m.type = "EGRESS" /\ m.channel = ident[o]
      /\ m \in P => m.blob \in Blob
  BY <1>4, PayloadFacts DEF Payload
<1>6. m.channel = ident[o]
  <2>1. 1 \in 1..Len(q) /\ m = q[1]
    BY <1>1, <1>3
  <2>. QED
    BY <2>1, <1>1 DEF Mine
<1>7. /\ Numbered(q, P, a, b) /\ Consecutive(s)
      /\ s # <<>> => s[Len(s)] = a
      /\ \A i \in 1..Len(s) : s[i] <= a
  BY <1>1, <1>2, <1>4 DEF Sequel
<1>8. /\ m \notin P => Numbered(Tail(q), P, a, b)
      /\ m \in P => m.blob = a + 1 /\ Numbered(Tail(q), P, a + 1, b)
  BY <1>1, <1>3, <1>5, <1>7, NumberedTail
<1>9. egress'[o] = Tail(q)
  BY <1>1 DEF Types
<1>10. received'[o] = s \o Delivered(m) \/ received'[o] = <<>>
  <2>1. CASE received'[o] = received[o] \o Delivered(Head(egress[o]))
    BY <2>1, <1>1, <1>2, <1>3
  <2>. QED
    BY <2>1
<1>11. Delivered(m) = <<>> => received'[o] = s
  <2>1. s \o <<>> = s
    OBVIOUS
  <2>2. CASE received'[o] = received[o] \o Delivered(Head(egress[o]))
    BY <2>1, <2>2, <1>1, <1>2, <1>3
  <2>3. CASE received[o] = <<>> /\ received'[o] = <<>>
    BY <2>3, <1>2
  <2>. QED
    BY <2>2, <2>3
<1>12. CASE m \notin P
  <2>1. Delivered(m) = <<>>
    BY <1>5, <1>6, <1>12 DEF Delivered
  <2>3. received'[o] = s
    BY <2>1, <1>11
  <2>4. Sequel(o, a, b)'
    BY <2>3, <1>4, <1>7, <1>8, <1>9, <1>12 DEF Sequel
  <2>. QED
    BY <2>4
<1>13. CASE m \in P
  <2>1. Delivered(m) = <<a + 1>> /\ a + 1 \in Blob
    BY <1>5, <1>8, <1>13 DEF Delivered
  <2>2. PICK r : r = received'[o]
    OBVIOUS
  <2>3. CASE r = <<>>
    <3>1. Consecutive(r) /\ \A i \in 1..Len(r) : r[i] <= a + 1
      BY <2>3 DEF Consecutive
    <3>2. Sequel(o, a + 1, b)'
      BY <2>2, <2>3, <3>1, <1>4, <1>8, <1>9, <1>13 DEF Sequel
    <3>. QED
      BY <3>2
  <2>4. CASE r = s \o <<a + 1>>
    <3>1. Consecutive(r)
      <4>1. s # <<>> => a + 1 = s[Len(s)] + 1
        BY <1>7
      <4>. QED
        BY <2>1, <2>4, <4>1, <1>7, ConsecutiveMore
    <3>2. Len(r) = Len(s) + 1 /\ r[Len(s) + 1] = a + 1 /\ Len(s) \in Nat
          /\ \A i \in 1..Len(s) : r[i] = s[i]
      BY <2>4
    <3>3. r[Len(r)] = a + 1
      BY <3>2
    <3>4. \A i \in 1..Len(s) : s[i] \in Nat
      <4>1. \A i \in 1..Len(s) : s[i] \in Blob
        OBVIOUS
      <4>. QED
        BY <4>1, BlobsAreNumbers
    <3>5. ASSUME NEW i \in 1..Len(r) PROVE r[i] <= a + 1
      <4>1. CASE i = Len(s) + 1
        BY <4>1, <3>2
      <4>2. CASE i # Len(s) + 1
        <5>1. i \in 1..Len(s)
          BY <3>2, <4>2
        <5>2. r[i] \in Nat /\ r[i] <= a
          BY <5>1, <3>2, <3>4, <1>7
        <5>. QED
          BY <5>2
      <4>. QED
        BY <4>1, <4>2
    <3>6. Sequel(o, a + 1, b)'
      BY <2>2, <3>1, <3>3, <3>5, <1>4, <1>8, <1>9, <1>13 DEF Sequel
    <3>. QED
      BY <3>6
  <2>. QED
    BY <2>1, <2>2, <2>3, <2>4, <1>10
<1>. QED
  BY <1>12, <1>13

\* Receive, and the answer that join takes: of a clientChannel with one user, who does
\* not hold it yet, nothing has been received.
LEMMA TakeFlows ==
  ASSUME Registry, Flows, NEW t \in Thread, JoinAnswer(t) \/ \E o \in Object : Receive(t, o)
  PROVE  Flows'
<1>1. /\ UNCHANGED <<channels, ident, routine, message, forwarded, out, open>>
      /\ \A u \in Thread : holds[u] \subseteq holds'[u]
  <2>1. UNCHANGED <<channels, ident, routine, message, forwarded, out, open>>
    BY DEF JoinAnswer, Receive, objectVars, routineVars, historyVars, relayVars
  <2>2. \/ UNCHANGED holds
        \/ holds' = [holds EXCEPT ![t] = @ \cup {object[t]}]
    BY DEF JoinAnswer, Receive, threadVars
  <2>. QED
    BY <2>1, <2>2 DEF Registry, Types, TypeOK
<1>2. PICK o \in Object :
        /\ egress[o] # <<>> /\ egress' = [egress EXCEPT ![o] = Tail(@)]
        /\ ident[o] \in ChannelId
        /\ \/ /\ o \in holds[t]
              /\ received' = [received EXCEPT ![o] = @ \o Delivered(Head(egress[o]))]
           \/ received' = received /\ (Private(o) => received[o] = <<>>)
  <2>1. CASE JoinAnswer(t)
    <3>1. Joining(t) /\ object[t] # 0
      BY <2>1 DEF JoinAnswer, Joining, Registry, Objects
    <3>2. PICK o \in Object : o = object[t]
      BY <3>1 DEF Registry, Types, TypeOK
    <3>3. o <= made /\ ident[o] \in Uses[t] /\ o \notin holds[t]
      BY <3>1, <3>2 DEF Registry, Objects
    <3>4. ident[o] \in ChannelId
      BY <3>3 DEF Registry, Objects
    <3>5. Private(o) => \A u \in Thread : o \notin holds[u]
      BY <3>3 DEF Registry, Objects, Private
    <3>6. Private(o) => received[o] = <<>>
      BY <3>5 DEF Flows, Mine
    <3>7. egress[o] # <<>> /\ egress' = [egress EXCEPT ![o] = Tail(@)] /\ received' = received
      BY <2>1, <3>2 DEF JoinAnswer, historyVars
    <3>. QED
      BY <3>4, <3>6, <3>7
  <2>2. CASE \E o \in Object : Receive(t, o)
    <3>1. PICK o \in Object : Receive(t, o)
      BY <2>2
    <3>2. ident[o] \in ChannelId
      BY <3>1 DEF Receive, Registry, Objects
    <3>. QED
      BY <3>1, <3>2 DEF Receive
  <2>. QED
    BY <2>1, <2>2
<1>3. \A p \in Object \ {o} : egress'[p] = egress[p] /\ received'[p] = received[p]
  BY <1>2 DEF Registry, Types, TypeOK
<1>4. \/ o \in holds[t] /\ received'[o] = received[o] \o Delivered(Head(egress[o]))
      \/ received'[o] = received[o] /\ (Private(o) => received[o] = <<>>)
  BY <1>2 DEF Registry, Types, TypeOK
<1>5. Mine'
  <2>1. ASSUME NEW p \in Object, received'[p] # <<>> PROVE \E u \in Thread : p \in holds'[u]
    <3>1. p \in holds[t] \/ received'[p] = received[p]
      BY <1>3, <1>4
    <3>2. p \in holds[t] \/ \E u \in Thread : p \in holds[u]
      BY <2>1, <3>1 DEF Flows, Mine
    <3>. QED
      BY <3>2, <1>1
  <2>2. ASSUME NEW p \in Object, NEW i \in 1..Len(egress'[p])
        PROVE  egress'[p][i].channel = ident'[p]
    <3>1. CASE p # o
      BY <3>1, <2>2, <1>1, <1>3 DEF Flows, Mine
    <3>2. CASE p = o
      <4>1. PICK q \in Seq(Frame) : q = egress[o] /\ q # <<>>
        BY <1>2 DEF Registry, Types
      <4>2. egress'[o] = Tail(q)
        BY <4>1, <1>2 DEF Registry, Types
      <4>3. \A k \in 1..Len(Tail(q)) : k + 1 \in 1..Len(q) /\ Tail(q)[k] = q[k + 1]
        BY <4>1
      <4>4. i + 1 \in 1..Len(q) /\ Tail(q)[i] = q[i + 1]
        BY <4>2, <4>3, <2>2, <3>2
      <4>. QED
        BY <4>1, <4>2, <4>4, <3>2, <1>1 DEF Flows, Mine
    <3>. QED
      BY <3>1, <3>2
  <2>. QED
    BY <2>1, <2>2 DEF Mine
<1>6. ASSUME NEW id \in ChannelId PROVE Flow(id)'
  <2>1. PICK front \in Nat, mid \in Nat, last \in Nat : FlowFrom(id, front, mid, last)
    BY DEF Flows, Flow
  <2>2. ASSUME NEW p \in Object, ident'[p] = id, Private(p)'
        PROVE  \E a, b \in Nat : Sequel(p, a, b)' /\ (channels'[id] = p => b = front)
    <3>1. Private(p)
      BY <2>2, <1>1 DEF Private
    <3>2. PICK a \in Nat, b \in Nat : Sequel(p, a, b) /\ (channels[id] = p => b = front)
      BY <2>1, <2>2, <3>1, <1>1 DEF FlowFrom
    <3>3. CASE p # o
      <4>1. Sequel(p, a, b)'
        BY <3>2, <3>3, <1>1, <1>3 DEF Sequel
      <4>. QED
        BY <3>2, <4>1, <1>1
    <3>4. CASE p = o
      <4>1. \/ received'[o] = received[o] \o Delivered(Head(egress[o]))
            \/ received[o] = <<>> /\ received'[o] = <<>>
        BY <3>1, <3>4, <1>4
      <4>2. PICK a2 \in Nat : Sequel(o, a2, b)'
        BY <4>1, <3>2, <3>4, <1>1, <1>2, TakeSequel DEF Registry, Flows
      <4>. QED
        BY <3>2, <3>4, <4>2, <1>1
    <3>. QED
      BY <3>3, <3>4
  <2>3. InHand(id)' <=> InHand(id)
    BY <1>1 DEF InHand
  <2>4. FlowFrom(id, front, mid, last)'
    BY <2>1, <2>2, <2>3, <1>1 DEF FlowFrom
  <2>. QED
    BY <2>4 DEF Flow
<1>. QED
  BY <1>5, <1>6 DEF Flows

\* routine() has nothing in hand; it receives a message.
LEMMA RoutineReceiveFlows == ASSUME Registry, Flows, RoutineReceive PROVE Flows'
<1>1. /\ UNCHANGED <<channels, ident, egress, received, holds, forwarded, open>>
      /\ routine = "receive" /\ routine' = "lock"
      /\ out[Client] # <<>> /\ message' = Head(out[Client])
      /\ out' = [out EXCEPT ![Client] = Tail(@)]
  BY DEF RoutineReceive, objectVars, threadVars, historyVars
<1>2. PICK q \in Seq(Frame) : q = out[Client] /\ q # <<>>
  BY <1>1 DEF Registry, Types
<1>3. out'[Client] = Tail(q) /\ message' = Head(q)
  BY <1>1, <1>2 DEF Registry, Types
<1>4. Mine'
  BY <1>1 DEF Flows, Mine
<1>5. ASSUME NEW id \in ChannelId PROVE Flow(id)'
  <2>1. PICK front \in Nat, mid \in Nat, last \in Nat : FlowFrom(id, front, mid, last)
    BY DEF Flows, Flow
  <2>2. PICK P : P = Payload(id) /\ \A f \in P : f.blob \in Nat
    BY PayloadFacts
  <2>3. mid = front /\ Numbered(q, P, mid, last)
    BY <2>1, <2>2, <1>1, <1>2 DEF FlowFrom, InHand
  <2>4. InHand(id)' <=> Head(q) \in P
    BY <2>2, <1>1, <1>3 DEF InHand
  <2>5. /\ Head(q) \notin P => Numbered(Tail(q), P, mid, last)
        /\ Head(q) \in P => Head(q).blob = mid + 1 /\ Numbered(Tail(q), P, mid + 1, last)
    BY <2>2, <2>3, <1>2, NumberedTail
  <2>6. /\ open'[Client] => last = forwarded'[id]
        /\ \A o \in Object : ident'[o] = id /\ Private(o)' =>
             \E a, b \in Nat : Sequel(o, a, b)' /\ (channels'[id] = o => b = front)
    BY <2>1, <1>1 DEF FlowFrom, Private, Sequel
  <2>7. CASE Head(q) \in P
    <3>1. FlowFrom(id, front, mid + 1, last)'
      BY <2>2, <2>3, <2>4, <2>5, <2>6, <2>7, <1>3 DEF FlowFrom
    <3>. QED
      BY <3>1 DEF Flow
  <2>8. CASE Head(q) \notin P
    <3>1. FlowFrom(id, front, mid, last)'
      BY <2>2, <2>3, <2>4, <2>5, <2>6, <2>8, <1>3 DEF FlowFrom
    <3>. QED
      BY <3>1 DEF Flow
  <2>. QED
    BY <2>7, <2>8
<1>. QED
  BY <1>4, <1>5 DEF Flows

\* It drops a payload for an id that is not registered: the next clientChannel of the id
\* begins after it.
LEMMA RoutineLookupFlows == ASSUME Registry, Flows, RoutineLookup PROVE Flows'
<1>1. /\ UNCHANGED <<channels, ident, egress, received, holds, forwarded, open, out>>
      /\ routine = "lock"
  BY DEF RoutineLookup, objectVars, threadVars, historyVars, relayVars
<1>2. CASE Registered(message.channel)
  <2>1. routine' = "dispatch" /\ message' = message
    BY <1>2 DEF RoutineLookup
  <2>2. \A id \in ChannelId : InHand(id)' <=> InHand(id)
    BY <2>1, <1>1 DEF InHand
  <2>. QED
    BY <2>1, <2>2, <1>1, QuietFlows
<1>3. CASE ~Registered(message.channel)
  <2>1. routine' = "receive"
    BY <1>3 DEF RoutineLookup
  <2>2. Mine'
    BY <1>1 DEF Flows, Mine
  <2>3. ASSUME NEW id \in ChannelId PROVE Flow(id)'
    <3>1. PICK front \in Nat, mid \in Nat, last \in Nat : FlowFrom(id, front, mid, last)
      BY DEF Flows, Flow
    <3>2. ~InHand(id)'
      BY <2>1 DEF InHand
    <3>3. CASE InHand(id)
      <4>1. channels[id] = 0
        BY <3>3, <1>3 DEF InHand, Payload, Registered
      <4>2. \A o \in Object : channels'[id] # o
        BY <4>1, <1>1 DEF Object
      <4>3. FlowFrom(id, mid, mid, last)'
        BY <3>1, <3>2, <4>2, <1>1 DEF FlowFrom, Private, Sequel
      <4>. QED
        BY <4>3 DEF Flow
    <3>4. CASE ~InHand(id)
      <4>1. FlowFrom(id, front, mid, last)'
        BY <3>1, <3>2, <3>4, <1>1 DEF FlowFrom, Private, Sequel
      <4>. QED
        BY <4>1 DEF Flow
    <3>. QED
      BY <3>3, <3>4
  <2>. QED
    BY <2>2, <2>3 DEF Flows
<1>. QED
  BY <1>2, <1>3

\* It hands a message to the clientChannel that is registered.
LEMMA RoutineDispatchFlows == ASSUME Registry, Flows, RoutineDispatch PROVE Flows'
<1>1. /\ UNCHANGED <<channels, ident, received, holds, forwarded, open, out>>
      /\ routine = "dispatch" /\ routine' = "receive"
      /\ egress' = [egress EXCEPT ![target] = Append(@, message)]
  BY DEF RoutineDispatch, objectVars, threadVars, historyVars, relayVars
<1>2. PICK m \in Frame : m = message
  BY <1>1 DEF Registry, Types
<1>3. PICK c \in ChannelId : c = m.channel /\ channels[c] = target
  BY <1>1, <1>2 DEF Registry, Dispatching
<1>4. target # 0 => ident[target] = c
  BY <1>3 DEF Registry, Objects
<1>5. \A p \in Object : p # target => egress'[p] = egress[p]
  BY <1>1 DEF Registry, Types
<1>6. \A p \in Object : p = target => egress'[p] = Append(egress[p], m)
  BY <1>1, <1>2 DEF Registry, Types
<1>7. \A p \in Object : p = target => ident[p] = c
  BY <1>4 DEF Object
<1>8. Mine'
  <2>1. \A o \in Object : received'[o] # <<>> => \E t \in Thread : o \in holds'[t]
    BY <1>1 DEF Flows, Mine
  <2>2. ASSUME NEW p \in Object, NEW i \in 1..Len(egress'[p])
        PROVE  egress'[p][i].channel = ident'[p]
    <3>1. CASE p # target
      BY <3>1, <2>2, <1>1, <1>5 DEF Flows, Mine
    <3>2. CASE p = target
      <4>1. PICK q \in Seq(Frame) : q = egress[p]
        BY DEF Registry, Types
      <4>2. \A k \in 1..Len(q) : q[k].channel = c
        BY <4>1, <3>2, <1>7 DEF Flows, Mine
      <4>3. \A k \in 1..Len(Append(q, m)) :
              (k \in 1..Len(q) /\ Append(q, m)[k] = q[k]) \/ Append(q, m)[k] = m
        BY <4>1
      <4>4. Append(q, m)[i].channel = c
        BY <4>1, <4>2, <4>3, <2>2, <3>2, <1>3, <1>6
      <4>. QED
        BY <4>1, <4>4, <3>2, <1>1, <1>6, <1>7
    <3>. QED
      BY <3>1, <3>2
  <2>. QED
    BY <2>1, <2>2 DEF Mine
<1>9. ASSUME NEW id \in ChannelId PROVE Flow(id)'
  <2>1. PICK front \in Nat, mid \in Nat, last \in Nat : FlowFrom(id, front, mid, last)
    BY DEF Flows, Flow
  <2>2. PICK P : P = Payload(id)
    OBVIOUS
  <2>3. (\A f \in P : f.blob \in Nat) /\ (m \in P => id = c)
    BY <2>2, <1>3, PayloadFacts
  <2>4. /\ m \in P => mid = front + 1 /\ m.blob = mid
        /\ m \notin P => mid = front
    BY <2>1, <2>2, <1>1, <1>2 DEF FlowFrom, InHand
  <2>5. ~InHand(id)'
    BY <1>1 DEF InHand
  <2>6. ASSUME NEW p \in Object, ident'[p] = id, Private(p)'
        PROVE  \E a, b \in Nat : Sequel(p, a, b)' /\ (channels'[id] = p => b = mid)
    <3>1. PICK a \in Nat, b \in Nat : Sequel(p, a, b) /\ (channels[id] = p => b = front)
      BY <2>1, <2>6, <1>1 DEF FlowFrom, Private
    <3>2. CASE p # target
      <4>1. Sequel(p, a, b)'
        BY <3>1, <3>2, <1>1, <1>5 DEF Sequel
      <4>2. channels'[id] = p => b = mid
        BY <3>1, <3>2, <2>3, <2>4, <1>1, <1>3
      <4>. QED
        BY <4>1, <4>2
    <3>3. CASE p = target
      <4>1. id = c /\ b = front
        BY <3>1, <3>3, <2>6, <1>1, <1>3, <1>7
      <4>2. PICK q \in Seq(Frame) : q = egress[p] /\ egress'[p] = Append(q, m)
        BY <3>3, <1>6 DEF Registry, Types
      <4>3. Numbered(q, P, a, b)
        BY <3>1, <4>2, <2>2, <2>6, <1>1 DEF Sequel
      <4>4. /\ m \notin P => Numbered(Append(q, m), P, a, b)
            /\ m \in P /\ m.blob = b + 1 => Numbered(Append(q, m), P, a, b + 1)
        BY <4>3, <2>3, NumberedAppend
      <4>5. Numbered(Append(q, m), P, a, mid)
        BY <4>1, <4>4, <2>4
      <4>6. Sequel(p, a, mid)'
        BY <3>1, <4>2, <4>5, <2>2, <2>6, <1>1 DEF Sequel
      <4>. QED
        BY <4>6
    <3>. QED
      BY <3>2, <3>3
  <2>7. FlowFrom(id, mid, mid, last)'
    BY <2>1, <2>5, <2>6, <1>1 DEF FlowFrom
  <2>. QED
    BY <2>7 DEF Flow
<1>. QED
  BY <1>8, <1>9 DEF Flows

\* routine().
LEMMA RoutineFlows == ASSUME Registry, Flows, RoutineStep PROVE Flows'
<1>1. CASE RoutineReturns
  <2>1. /\ UNCHANGED <<channels, ident, egress, received, holds, forwarded, open, out, message>>
        /\ routine = "receive" /\ routine' = "returned"
    BY <1>1 DEF RoutineReturns, objectVars, threadVars, historyVars, relayVars
  <2>2. \A id \in ChannelId : InHand(id)' <=> InHand(id)
    BY <2>1 DEF InHand
  <2>. QED
    BY <2>1, <2>2, QuietFlows
<1>. QED
  BY <1>1, RoutineReceiveFlows, RoutineLookupFlows, RoutineDispatchFlows DEF RoutineStep

\* A payload that the relay forwards is the next one of its channel.
LEMMA ForwardFlows ==
  ASSUME Registry, Flows, NEW c \in ChannelId, RelayForwards(c) PROVE Flows'
<1>1. /\ UNCHANGED <<channels, ident, egress, received, holds, routine, message, open>>
      /\ forwarded' = [forwarded EXCEPT ![c] = @ + 1]
  BY DEF RelayForwards, Relay!Forward, muxVars, objectVars, threadVars, routineVars
<1>2. PICK m \in Frame : m = Relay!Message("EGRESS", c, forwarded'[c])
  BY ForwardedFrame DEF Registry
<1>3. PICK k \in Nat : k = forwarded[c] /\ forwarded'[c] = k + 1
  BY <1>1 DEF Registry, Types, TypeOK
<1>4. m.type = "EGRESS" /\ m.channel = c /\ m.blob = k + 1
  BY <1>2, <1>3 DEF Relay!Message
<1>5. PICK q \in Seq(Frame) : q = out[Client]
  BY DEF Registry, Types
<1>6. out'[Client] = IF open[Client] THEN Append(q, m) ELSE q
  <2>1. out' = IF open[Client] THEN [out EXCEPT ![Client] = Append(@, m)] ELSE out
    BY <1>2 DEF RelayForwards, Relay!Forward, Relay!Write
  <2>. QED
    BY <2>1, <1>5 DEF Registry, Types
<1>7. Mine'
  BY <1>1 DEF Flows, Mine
<1>8. ASSUME NEW id \in ChannelId PROVE Flow(id)'
  <2>1. PICK front \in Nat, mid \in Nat, last \in Nat : FlowFrom(id, front, mid, last)
    BY DEF Flows, Flow
  <2>2. PICK P : P = Payload(id)
    OBVIOUS
  <2>3. (\A f \in P : f.blob \in Nat) /\ (m \in P <=> id = c)
    BY <2>2, <1>4, PayloadFacts
  <2>4. Numbered(q, P, mid, last)
    BY <2>1, <2>2, <1>5 DEF FlowFrom
  <2>5. /\ m \notin P => Numbered(Append(q, m), P, mid, last)
        /\ m \in P /\ m.blob = last + 1 => Numbered(Append(q, m), P, mid, last + 1)
    BY <2>3, <2>4, NumberedAppend
  <2>6. InHand(id)' <=> InHand(id)
    BY <1>1 DEF InHand
  <2>7. \A o \in Object : ident'[o] = id /\ Private(o)' =>
          \E a, b \in Nat : Sequel(o, a, b)' /\ (channels'[id] = o => b = front)
    BY <2>1, <1>1 DEF FlowFrom, Private, Sequel
  <2>8. CASE ~open[Client]
    <3>1. FlowFrom(id, front, mid, last)'
      BY <2>1, <2>2, <2>4, <2>6, <2>7, <2>8, <1>1, <1>6 DEF FlowFrom
    <3>. QED
      BY <3>1 DEF Flow
  <2>9. CASE open[Client] /\ id # c
    <3>1. Numbered(out'[Client], P, mid, last)
      BY <2>3, <2>5, <2>9, <1>6
    <3>2. last = forwarded'[id]
      BY <2>1, <2>9, <1>1 DEF FlowFrom, Registry, Types, TypeOK
    <3>3. FlowFrom(id, front, mid, last)'
      BY <2>1, <2>2, <2>6, <2>7, <3>1, <3>2, <1>1 DEF FlowFrom
    <3>. QED
      BY <3>3 DEF Flow
  <2>10. CASE open[Client] /\ id = c
    <3>1. last = k
      BY <2>1, <2>10, <1>3 DEF FlowFrom
    <3>2. Numbered(out'[Client], P, mid, last + 1)
      BY <2>3, <2>5, <2>10, <3>1, <1>4, <1>6
    <3>3. last + 1 = forwarded'[id]
      BY <2>10, <3>1, <1>3
    <3>4. FlowFrom(id, front, mid, last + 1)'
      BY <2>1, <2>2, <2>6, <2>7, <3>2, <3>3, <1>1 DEF FlowFrom
    <3>. QED
      BY <3>4 DEF Flow
  <2>. QED
    BY <2>8, <2>9, <2>10
<1>. QED
  BY <1>7, <1>8 DEF Flows

\* The relay serves requests, and hangs up.
LEMMA ServeFlows ==
  ASSUME Registry, Flows, RelayHangsUp \/ \E c \in ChannelId : RelayServes(c)
  PROVE  Flows'
<1>1. /\ UNCHANGED <<channels, ident, egress, received, holds, routine, message, forwarded>>
      /\ open'[Client] => open[Client]
  BY DEF RelayHangsUp, RelayServes, Relay!HangUp, Relay!Accept, Relay!Full, Relay!Leave,
         Relay!Forget, muxVars, objectVars, threadVars, routineVars
<1>2. UNCHANGED out \/ \E m \in Frame : m.type # "EGRESS" /\ Relay!Write(Client, m)
  <2>1. ASSUME NEW c \in ChannelId, Relay!Accept(Client, c) \/ Relay!Full(Client, c)
        PROVE  \E m \in Frame : m.type # "EGRESS" /\ Relay!Write(Client, m)
    <3>1. PICK ty \in {"JOIN_OK", "JOIN_FAILURE"} :
                 Relay!Write(Client, Relay!Message(ty, c, NoBlob))
      BY <2>1 DEF Relay!Accept, Relay!Full
    <3>2. PICK m \in Frame : m = Relay!Message(ty, c, NoBlob)
      BY FrameTypes
    <3>3. m.type # "EGRESS"
      BY <3>2 DEF Relay!Message
    <3>. QED
      BY <3>1, <3>2, <3>3
  <2>2. ASSUME NEW c \in ChannelId, Relay!Leave(Client, c) \/ Relay!Forget(c) PROVE UNCHANGED out
    BY <2>2 DEF Relay!Leave, Relay!Forget
  <2>3. CASE RelayHangsUp
    BY <2>3 DEF RelayHangsUp, Relay!HangUp
  <2>. QED
    BY <2>1, <2>2, <2>3 DEF RelayServes
<1>3. ASSUME NEW id \in ChannelId, NEW a \in Nat, NEW b \in Nat,
             Numbered(out[Client], Payload(id), a, b)
      PROVE  Numbered(out'[Client], Payload(id), a, b)
  BY <1>2, <1>3, OtherWrites DEF Registry
<1>4. \A id \in ChannelId : InHand(id)' <=> InHand(id)
  BY <1>1 DEF InHand
<1>. QED
  BY <1>1, <1>3, <1>4, QuietFlows

\* No step breaks the order of the payloads.
LEMMA FlowsStep == Registry /\ Flows /\ [Next]_vars => Flows'
<1>. SUFFICES ASSUME Registry, Flows, [Next]_vars PROVE Flows'
  OBVIOUS
<1>1. ASSUME NEW t \in Thread, NEW id \in ChannelId, ChannelKnown(t, id) \/ ChannelNew(t, id)
      PROVE  Flows'
  BY <1>1, CallFlows
<1>2. ASSUME NEW t \in Thread, NEW o \in Object, Receive(t, o) PROVE Flows'
  BY <1>2, TakeFlows
<1>3. ASSUME NEW t \in Thread, NEW o \in Object, CloseLeave(t, o) PROVE Flows'
  BY <1>3, CallFlows
<1>4. ASSUME NEW t \in Thread, Continue(t) PROVE Flows'
  BY <1>4, CallFlows, TakeFlows DEF Continue
<1>5. CASE RoutineStep
  BY <1>5, RoutineFlows
<1>6. CASE RelayHangsUp \/ \E id \in ChannelId : RelayServes(id) \/ RelayForwards(id)
  BY <1>6, ServeFlows, ForwardFlows
<1>7. CASE UNCHANGED vars
  <2>1. UNCHANGED <<channels, ident, egress, received, holds, routine, message, forwarded, open,
                    out>>
    BY <1>7 DEF vars, objectVars, routineVars, threadVars, historyVars, relayVars
  <2>2. \A id \in ChannelId : InHand(id)' <=> InHand(id)
    BY <2>1 DEF InHand
  <2>. QED
    BY <2>1, <2>2, QuietFlows
<1>. QED
  BY <1>1, <1>2, <1>3, <1>4, <1>5, <1>6, <1>7 DEF Next

\* What Receive has returned of a clientChannel with one user is consecutive.
LEMMA FlowsConsecutive ==
  ASSUME Types, Objects, Flows, NEW o \in Object, Private(o)
  PROVE  Consecutive(received[o])
<1>1. CASE o <= made
  <2>1. PICK id \in ChannelId : id = ident[o]
    BY <1>1 DEF Objects
  <2>. QED
    BY <2>1 DEF Flows, Flow, FlowFrom, Sequel
<1>2. CASE ~(o <= made)
  <2>1. o > made
    BY <1>2, MultiplexerAssumption DEF Types, TypeOK, Object
  <2>2. received[o] = <<>>
    BY <2>1, UnmadeEmpty DEF Flows
  <2>. QED
    BY <2>2 DEF Consecutive
<1>. QED
  BY <1>1, <1>2

-----------------------------------------------------------------------------
(***************************************************************************)
(* The theorems.                                                           *)
(***************************************************************************)

\* No step breaks the invariant.
LEMMA MultiplexerInvStep == MultiplexerInv /\ [Next]_vars => MultiplexerInv'
<1>. SUFFICES ASSUME Registry, Membership, [Next]_vars PROVE Registry' /\ Membership'
  BY DEF MultiplexerInv, Registry
<1>1. ASSUME NEW t \in Thread, NEW id \in ChannelId, ChannelKnown(t, id) \/ ChannelNew(t, id)
      PROVE  Registry' /\ Membership'
  BY <1>1, ChannelKnownRegistry, ChannelNewRegistry, ChannelMembership
<1>2. ASSUME NEW t \in Thread, NEW o \in Object, Receive(t, o)
      PROVE  Registry' /\ Membership'
  BY <1>2, ReceiveRegistry, TakeMembership
<1>3. ASSUME NEW t \in Thread, NEW o \in Object, CloseLeave(t, o)
      PROVE  Registry' /\ Membership'
  BY <1>3, CloseLeaveRegistry, CloseLeaveMembership
<1>4. ASSUME NEW t \in Thread, JoinSend(t) PROVE Registry' /\ Membership'
  BY <1>4, JoinStepsRegistry, JoinSendMembership
<1>5. ASSUME NEW t \in Thread, JoinAnswer(t) PROVE Registry' /\ Membership'
  BY <1>5, JoinAnswerRegistry, TakeMembership
<1>6. ASSUME NEW t \in Thread, JoinTimeout(t) \/ JoinCleanup(t) \/ ChannelDone(t)
      PROVE  Registry' /\ Membership'
  BY <1>6, JoinStepsRegistry, UnregisterStepsRegistry, ContinueMembership
<1>7. CASE RoutineStep
  BY <1>7, RoutineRegistry, RoutineMembership
<1>8. CASE RelayHangsUp \/ \E id \in ChannelId : RelayServes(id) \/ RelayForwards(id)
  BY <1>8, RelayRegistry, RelayMembership
<1>9. CASE UNCHANGED vars
  <2>1. UNCHANGED <<channels, made, ident, egress, done, routine, message, target, pc, object,
                    holds, closed, received, forwarded, relayVars>>
    BY <1>9 DEF vars, objectVars, routineVars, threadVars, historyVars
  <2>2. Types' /\ Objects' /\ Dispatching' /\ Gone'
    BY <2>1 DEF Registry, Types, TypeOK, Objects, Joining, Dispatching, Gone, relayVars
  <2>3. OneUser' /\ Membership'
    BY <2>1 DEF Registry, OneUser, Membership, Joins, Left, Held, Private, InProgress, Waiting,
                Joining, relayVars
  <2>. QED
    BY <2>2, <2>3 DEF Registry
<1>. QED
  BY <1>1, <1>2, <1>3, <1>4, <1>5, <1>6, <1>7, <1>8, <1>9 DEF Next, Continue

\* The invariant holds throughout.
THEOREM InvCorrect == Spec => []MultiplexerInv
BY MultiplexerInitInv, MultiplexerInvStep, PTL DEF Spec

\* Every variable keeps its type; Receive returns a payload or an error (TypeOK).
THEOREM TypeCorrect == Spec => []TypeOK
<1>1. MultiplexerInv => TypeOK
  BY DEF MultiplexerInv, Types
<1>. QED
  BY <1>1, InvCorrect, PTL

\* Once Close has returned, the clientChannel is not registered and routine() has no
\* message in hand for it: chanMut is held from the lookup to the end of dispatch, and
\* channelDone takes it.
THEOREM ClosedCorrect == Spec => []ClosedIsGone
BY InvCorrect, InvClosed, PTL

\* A clientChannel that one goroutine uses, and has not closed, is registered under its
\* id, and channelDone has not closed the connection below it.
THEOREM HeldCorrect == Spec => []HeldIsRegistered
BY InvCorrect, InvHeld, PTL

\* A clientChannel that one goroutine uses, and has not closed, is a member at the relay
\* if it is the first for its id: the JOIN_OK that join waits for is the answer to a
\* JOIN, and only a Close sends LEAVE.
THEOREM MemberCorrect == Spec => []FirstIsMember
BY InvCorrect, InvMember, PTL

\* A clientChannel that one goroutine uses misses no payload from the first it gets to the
\* last, and gets none twice: routine() hands over all it receives for an id that is
\* registered, in order, waiting for room in egress, whatever others do with theirs.
THEOREM NoGapCorrect == Spec => []NoGap
<1>1. MultiplexerInv /\ Flows /\ [Next]_vars => Flows'
  BY FlowsStep DEF MultiplexerInv, Registry
<1>2. Spec => []Flows
  BY <1>1, FlowsInit, InvCorrect, PTL DEF Spec
<1>3. ASSUME MultiplexerInv, Flows PROVE NoGap
  <2>1. Types /\ Objects
    BY <1>3 DEF MultiplexerInv
  <2>2. ASSUME NEW o \in Object, Private(o)
        PROVE  /\ Consecutive(received[o])
               /\ \A i \in DOMAIN egress[o] : IsEgress(egress[o][i]) /\ Earlier(o, i) # {} =>
                    /\ egress[o][i].blob - 1 \in Earlier(o, i)
                    /\ egress[o][i].blob \notin Earlier(o, i)
    BY <2>1, <2>2, <1>3, FlowsConsecutive, FlowsNoGap
  <2>. QED
    BY <2>2 DEF NoGap
<1>. QED
  BY <1>2, <1>3, InvCorrect, PTL

\* dispatch has a clientChannel to hand the message to.
HasTarget == routine = "dispatch" => target # 0

\* Only the lookup leads to dispatch.
LEMMA HasTargetNext == HasTarget /\ [Next]_vars => HasTarget'
<1>. SUFFICES ASSUME HasTarget, [Next]_vars PROVE HasTarget'
  OBVIOUS
<1>1. CASE UNCHANGED routineVars
  BY <1>1 DEF HasTarget, routineVars
<1>2. CASE RoutineStep
  BY <1>2 DEF HasTarget, RoutineStep, RoutineReceive, RoutineReturns, RoutineLookup,
     RoutineDispatch, Registered
<1>3. ASSUME NEW t \in Thread, NEW id \in ChannelId, ChannelKnown(t, id) \/ ChannelNew(t, id)
      PROVE  UNCHANGED routineVars
  BY <1>3 DEF ChannelKnown, ChannelNew
<1>4. ASSUME NEW t \in Thread, NEW o \in Object, Receive(t, o) \/ CloseLeave(t, o)
      PROVE  UNCHANGED routineVars
  BY <1>4 DEF Receive, CloseLeave
<1>5. ASSUME NEW t \in Thread, Continue(t) PROVE UNCHANGED routineVars
  BY <1>5 DEF Continue, JoinSend, JoinAnswer, JoinTimeout, JoinCleanup, ChannelDone
<1>6. ASSUME NEW id \in ChannelId, RelayServes(id) \/ RelayForwards(id)
      PROVE  UNCHANGED routineVars
  BY <1>6 DEF RelayServes, RelayForwards, muxVars
<1>7. CASE RelayHangsUp \/ UNCHANGED vars
  BY <1>1, <1>7 DEF RelayHangsUp, muxVars, vars
<1>. QED
  BY <1>1, <1>2, <1>3, <1>4, <1>5, <1>6, <1>7 DEF Next

\* Nobody has a step to take by itself under FairSpec.
AtRest ==
  /\ \A t \in Thread : pc[t] \in {"failed", "closing"} => ~MutexFree
  /\ \A t \in Thread : pc[t] \notin {"join", "wait"}
  /\ routine # "lock"
  /\ routine = "dispatch" => ~HasRoom(target)
  /\ routine = "receive" => out[Client] = <<>> /\ ~closed /\ open[Client]

\* routine() is blocked by a clientChannel that is registered, is not closed unless by
\* a Close that waits for routine(), and has a user, if it has no more than one.
BlockedByUser ==
  /\ Blocked
  /\ channels[ident[target]] = target
  /\ done[target] => \E t \in Thread : pc[t] = "closing" /\ object[t] = target
  /\ Private(target) => \E t \in Thread : target \in holds[t] \/ object[t] = target

\* The safety half of CallsReturn.  Once nobody can go on by himself, every call of Channel
\* and Close has returned, or routine() holds chanMut and waits for room in the egress
\* of a clientChannel that is registered and in use: it is never blocked by one that is
\* closed or forgotten, which nobody would read (routine, dispatch, Channel, Close,
\* channelDone).
THEOREM RestCorrect == Spec => [](AtRest => (\A t \in Thread : pc[t] = "idle") \/ BlockedByUser)
<1>1. ASSUME MultiplexerInv, HasTarget, AtRest, NEW t \in Thread, pc[t] # "idle" PROVE BlockedByUser
  <2>1. routine = "dispatch" /\ ~HasRoom(target)
    BY <1>1 DEF MultiplexerInv, Types, TypeOK, AtRest, MutexFree
  <2>2. message.channel \in ChannelId /\ channels[message.channel] = target
    BY <1>1, <2>1 DEF MultiplexerInv, Dispatching
  <2>3. target # 0
    BY <1>1, <2>1 DEF HasTarget
  <2>4. target \in Object /\ ident[target] = message.channel
    BY <1>1, <2>2, <2>3 DEF MultiplexerInv, Types, TypeOK, Objects
  <2>5. done[target] => \E u \in Thread : pc[u] = "closing" /\ object[u] = target
    BY <1>1, <2>2, <2>4 DEF MultiplexerInv, Gone
  <2>6. Private(target) => \E u \in Thread : target \in holds[u] \/ object[u] = target
    BY <1>1, <2>2, <2>3 DEF MultiplexerInv, OneUser, Held, InProgress
  <2>. QED
    BY <2>1, <2>2, <2>4, <2>5, <2>6 DEF BlockedByUser, Blocked
<1>2. MultiplexerInv /\ HasTarget => (AtRest => (\A t \in Thread : pc[t] = "idle") \/ BlockedByUser)
  BY <1>1
<1>3. Init => HasTarget
  BY DEF Init, HasTarget
<1>. QED
  BY <1>2, <1>3, HasTargetNext, InvCorrect, PTL DEF Spec

=============================================================================
