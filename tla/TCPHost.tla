------------------------------- MODULE TCPHost -------------------------------
(***************************************************************************)
(* TCPHost of network/tcp.go: a TCPListener, and one direction of the      *)
(* first connection that it accepts (TCPConn), in one program.  The two    *)
(* share nothing but the program, which a panic of the listener ends: a    *)
(* connection goes on when the listener is stopped, until the Router       *)
(* closes it.                                                              *)
(***************************************************************************)
EXTENDS TCPListener, Sequences

CONSTANTS Sender, Length, SizeMod, MaxSends  \* those of TCPConn

ASSUME TCPConnAssumption ==
  /\ Length \subseteq Nat
  /\ SizeMod \in Nat \ {0}
  /\ MaxSends \in Nat
  /\ None \notin Sender

\* Those of TCPConn.
VARIABLES
  sendMutex, length, writing, tx, sent,
  reading, total, buffer, rx, received,
  wire, broken

connVars == <<sendMutex, length, writing, tx, sent, reading, total, buffer, rx, received,
              wire, broken>>
hostVars == <<vars, connVars>>

Conn == INSTANCE TCPConn

HostInit == Init /\ Conn!Init

\* The connection is there once Accept has returned it.
ConnStep(A) == accepted > 0 /\ ~panicked /\ A /\ UNCHANGED vars

ListenerStep(A) == ~panicked /\ A /\ UNCHANGED connVars

HostNext == ListenerStep(Next) \/ ConnStep(Conn!Next)

HostSpec == HostInit /\ [][HostNext]_hostVars

(***************************************************************************)
(* Fairness: goroutines go on, Accept fails on a closed socket, who sends  *)
(* goes on, and the reader reads what is there.  Nobody has to call Listen *)
(* or Stop, to connect or to send.                                         *)
(***************************************************************************)
FairHostSpec ==
  /\ HostSpec
  /\ \A l \in Listens : WF_hostVars(ListenerStep(LoopGoes(l)))
  /\ \A s \in Stops : WF_hostVars(ListenerStep(StopGoes(s)))
  /\ WF_hostVars(ConnStep(Conn!ReadGoes))
  /\ \A s \in Sender : WF_hostVars(ConnStep(Conn!SendGoes(s)))

-----------------------------------------------------------------------------
(***************************************************************************)
(* Properties; NoLoopAfterStop, NoPanic and StopReturns are those of       *)
(* TCPListener.                                                            *)
(***************************************************************************)

\* Whatever the listener does, what the accepted connection receives is what was sent,
\* message by message and byte by byte (sendRaw, receiveRaw).
FramesIntact == Conn!FramesIntact

\* Every message whose size has been written is received, also when the listener has
\* been stopped, unless the connection breaks, the reader has given up before or the
\* listener panics (sendRaw, receiveRaw, TCPListener.Stop).
FrameReceived == \A m \in 1..MaxSends :
  Len(sent) >= m ~> (Len(received) >= m \/ broken \/ panicked)

=============================================================================
