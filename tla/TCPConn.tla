------------------------------- MODULE TCPConn -------------------------------
(***************************************************************************)
(* One direction of a TCP connection of network/tcp.go: sendRaw writes the *)
(* size of a message, a uint32, and then its bytes; receiveRaw reads a size *)
(* and then, in as many pieces as they come, that many bytes.  Goroutines   *)
(* that send share the connection by sendMutex; one goroutine, handleConn   *)
(* or the multiplexer's routine, receives, and stops at the first error.    *)
(*                                                                         *)
(* TCP is external: a stream of bytes in order, of which the reader gets    *)
(* any number at a time, and which either end may break off at any byte.    *)
(***************************************************************************)
EXTENDS Naturals, Sequences

CONSTANTS
  Sender,    \* goroutines that send
  Length,    \* lengths of encoded messages
  SizeMod,   \* sizes are modulo SizeMod, 2^32 in the code
  MaxSends,  \* bound of the model: messages sent
  None       \* nobody holds sendMutex

VARIABLES
  sendMutex,  \* TCPConn.sendMutex: the goroutine that holds it
  length,     \* length of the message a goroutine is sending
  writing,    \* where sendRaw is
  tx,         \* counterSafe.tx of the sending end
  wire,       \* what is under way: sizes and bytes
  broken,     \* the connection is broken off
  reading,    \* where receiveRaw is
  total,      \* size of the message being received
  buffer,     \* its bytes so far
  rx,         \* counterSafe.rx of the receiving end
  sent,       \* history: lengths of the messages sent, in order
  received    \* history: messages received, as sequences of bytes

sendVars == <<sendMutex, length, writing, tx, sent>>
readVars == <<reading, total, buffer, rx, received>>
vars == <<sendVars, readVars, wire, broken>>

\* A byte is named by the message it belongs to and its place there.
Byte == [msg : 1..MaxSends, pos : Nat]

SizeWord == [size : Nat]

IsSize(x) == "size" \in DOMAIN x

\* The bytes of the message of length n that is the m-th sent.
Bytes(m, n) == [i \in 1..n |-> [msg |-> m, pos |-> i]]

TypeOK ==
  /\ sendMutex \in Sender \cup {None}
  /\ length \in [Sender -> Length \cup {0}]
  /\ writing \in [Sender -> {"idle", "size", "bytes"}]
  /\ tx \in Nat
  /\ wire \in Seq(Byte \cup SizeWord)
  /\ broken \in BOOLEAN
  /\ reading \in {"size", "bytes", "stopped"}
  /\ total \in 0..(SizeMod - 1)
  /\ buffer \in Seq(Byte \cup SizeWord) /\ Len(buffer) <= total
  /\ rx \in Nat
  /\ sent \in Seq(Length) /\ Len(sent) <= MaxSends
  /\ received \in Seq(Seq(Byte \cup SizeWord))

Init ==
  /\ sendMutex = None
  /\ length = [s \in Sender |-> 0]
  /\ writing = [s \in Sender |-> "idle"]
  /\ tx = 0
  /\ wire = <<>>
  /\ broken = FALSE
  /\ reading = "size"
  /\ total = 0
  /\ buffer = <<>>
  /\ rx = 0
  /\ sent = <<>>
  /\ received = <<>>

-----------------------------------------------------------------------------
(***************************************************************************)
(* Send, for a message whose encoding has n bytes.                         *)
(***************************************************************************)

\* Mutant: sendMutex is not taken.
Free_Always == TRUE

Free == sendMutex = None

SendStart(s, n) ==
  /\ writing[s] = "idle"
  /\ Free
  /\ Len(sent) < MaxSends
  /\ sendMutex' = s
  /\ length' = [length EXCEPT ![s] = n]
  /\ writing' = [writing EXCEPT ![s] = "size"]
  /\ UNCHANGED <<tx, sent, readVars, wire, broken>>

\* Send returns.
SendReturns(s) ==
  /\ writing' = [writing EXCEPT ![s] = "idle"]
  /\ sendMutex' = None

PacketSize(s) == length[s] % SizeMod

\* The size is written; a message of size 0 has no bytes to follow.
WriteSize(s) ==
  /\ writing[s] = "size"
  /\ ~broken
  /\ wire' = Append(wire, [size |-> PacketSize(s)])
  /\ sent' = Append(sent, length[s])
  /\ IF PacketSize(s) = 0
     THEN SendReturns(s)
     ELSE writing' = [writing EXCEPT ![s] = "bytes"] /\ UNCHANGED sendMutex
  /\ UNCHANGED <<length, tx, readVars, broken>>

CountTx(s) == tx + PacketSize(s)

\* Write takes the whole message.
WriteBytes(s) ==
  /\ writing[s] = "bytes"
  /\ ~broken
  /\ wire' = wire \o Bytes(Len(sent), length[s])
  /\ tx' = CountTx(s)
  /\ SendReturns(s)
  /\ UNCHANGED <<length, sent, readVars, broken>>

\* An error: some of the bytes may be under way.
WriteFails(s) ==
  /\ writing[s] # "idle"
  /\ broken
  /\ \/ UNCHANGED wire
     \/ /\ writing[s] = "bytes"
        /\ \E n \in 1..(length[s] - 1) : wire' = wire \o Bytes(Len(sent), n)
  /\ SendReturns(s)
  /\ UNCHANGED <<length, tx, sent, readVars, broken>>

-----------------------------------------------------------------------------
(***************************************************************************)
(* Receive.                                                                *)
(***************************************************************************)

\* A whole message has been read.
Receives(b) ==
  /\ received' = Append(received, b)
  /\ rx' = rx + Len(b)
  /\ reading' = "size"
  /\ buffer' = <<>>

\* The next four bytes, whatever they are, taken for a size.
SizeRead(x) == IF IsSize(x) THEN {x.size} ELSE 0..(SizeMod - 1)

\* The size is read; if it is 0 the message has no bytes.
ReadSize ==
  /\ reading = "size"
  /\ wire # <<>>
  /\ wire' = Tail(wire)
  /\ \E n \in SizeRead(Head(wire)) :
       /\ total' = n
       /\ IF n = 0 THEN Receives(<<>>)
                   ELSE reading' = "bytes" /\ UNCHANGED <<buffer, rx, received>>
  /\ UNCHANGED <<sendVars, broken>>

\* Room in b, the rest of the message.
Room == total - Len(buffer)

\* Mutant: one byte more is expected.
Complete_OneMore(n) == n > total

Complete(n) == n = total

\* Read gives some of the bytes that are there.
ReadBytes ==
  /\ reading = "bytes"
  /\ \E n \in 1..Room :
       /\ n <= Len(wire)
       /\ LET got == buffer \o SubSeq(wire, 1, n)
          IN  IF Complete(Len(got))
              THEN Receives(got)
              ELSE buffer' = got /\ UNCHANGED <<reading, rx, received>>
       /\ wire' = SubSeq(wire, n + 1, Len(wire))
  /\ UNCHANGED <<total, sendVars, broken>>

\* Nothing comes for readTimeout, or the connection is broken: the reader stops, and
\* closes the connection.
ReadFails ==
  /\ reading \in {"size", "bytes"}
  /\ wire = <<>> \/ broken
  /\ reading' = "stopped"
  /\ broken' = TRUE
  /\ UNCHANGED <<total, buffer, rx, received, sendVars, wire>>

\* Either end closes the connection, or the network breaks it.
Break ==
  /\ ~broken
  /\ broken' = TRUE
  /\ UNCHANGED <<sendVars, readVars, wire>>

-----------------------------------------------------------------------------
SendGoes(s) == WriteSize(s) \/ WriteBytes(s) \/ WriteFails(s)

ReadGoes == ReadSize \/ ReadBytes

Next ==
  \/ \E s \in Sender : SendGoes(s) \/ \E n \in Length : SendStart(s, n)
  \/ ReadGoes
  \/ ReadFails
  \/ Break

Spec == Init /\ [][Next]_vars

-----------------------------------------------------------------------------
(***************************************************************************)
(* Properties.                                                             *)
(***************************************************************************)

\* What is received is what was sent, message by message and byte by byte, in the
\* order of the Sends, in whatever pieces the bytes come and wherever the connection
\* breaks ("writes the number of bytes of the message to the network then the whole
\* message"; sendRaw, receiveRaw).
FramesIntact ==
  /\ Len(received) <= Len(sent)
  /\ \A i \in DOMAIN received : received[i] = Bytes(i, sent[i])

=============================================================================
