------------------------------ MODULE TCPProofs ------------------------------
(***************************************************************************)
(* Proofs about TCPListener, TCPConn and TCPHost, for any number of calls   *)
(* of Listen and Stop, of senders and of messages of any length below the   *)
(* modulus of their size.                                                   *)
(***************************************************************************)
EXTENDS TCPHost, SequenceTheorems, TLAPS

-----------------------------------------------------------------------------
(***************************************************************************)
(* The listener.                                                           *)
(***************************************************************************)

\* Who has the lock; where a closed quit comes from; what listening and closed say of
\* the loops.  Two loops at once are possible only after listening was set twice.
Listening ==
  /\ \A s \in Stops : lock = s <=> stop[s] \in {"socket", "wait"}
  /\ \A s \in Stops : stop[s] # "returned" => result[s] = "none"
  /\ quit => lock # None \/ \E s \in Stops : result[s] = "error"
  /\ closed => ~listening
  /\ (\E s \in Stops : result[s] = "nil") => closed
  /\ twice => listening \/ closed
  /\ twice /\ closed => \E l \in Listens : loop[l] = "returned"
  /\ ~twice => \A l \in Listens : InLoop(l) => listening
  /\ ~twice => \A l, m \in Listens : InLoop(l) /\ InLoop(m) => l = m

\* The inductive invariant of the listener.
ListenerInv == TypeOK /\ NoPanic /\ Listening

\* Nobody has called anything at first.
LEMMA ListenerInitInv == Init => ListenerInv
<1>. SUFFICES ASSUME Init PROVE ListenerInv
  OBVIOUS
<1>1. TypeOK
  <2>1. accepted \in 0..MaxAccepted
    BY ListenerAssumption DEF Init
  <2>. QED
    BY <2>1 DEF Init, TypeOK
<1>2. Listening
  BY ListenerAssumption DEF Init, Listening, InLoop
<1>. QED
  BY <1>1, <1>2 DEF ListenerInv, NoPanic, Init

\* Listen: nobody else is in the loop, or twice is set.
LEMMA ListenInv == ASSUME ListenerInv, NEW k \in Listens, Listen(k) PROVE ListenerInv'
<1>1. /\ loop[k] = "new" /\ lock = None
      /\ lock' = lock /\ closed' = closed /\ quit' = quit /\ socket' = socket /\ stop' = stop
      /\ result' = result /\ accepted' = accepted /\ panicked' = panicked
      /\ \/ /\ closed /\ loop' = [loop EXCEPT ![k] = "returned"]
            /\ listening' = listening /\ twice' = twice
         \/ /\ ~closed /\ loop' = [loop EXCEPT ![k] = "accept"]
            /\ listening' = TRUE /\ twice' = (twice \/ listening)
  BY DEF Listen, Refused
<1>2. TypeOK'
  BY <1>1 DEF ListenerInv, TypeOK
<1>3. \A l \in Listens : l # k => (InLoop(l)' <=> InLoop(l))
  BY <1>1 DEF ListenerInv, TypeOK, InLoop
<1>4. ~InLoop(k)
  BY <1>1 DEF InLoop
<1>5. InLoop(k)' <=> ~closed
  BY <1>1 DEF ListenerInv, TypeOK, InLoop
<1>6. \A l \in Listens : loop[l] = "returned" => loop'[l] = "returned"
  BY <1>1 DEF ListenerInv, TypeOK
<1>7. Listening'
  BY <1>1, <1>3, <1>4, <1>5, <1>6 DEF ListenerInv, TypeOK, Listening
<1>. QED
  BY <1>1, <1>2, <1>7 DEF ListenerInv, NoPanic

\* The loop of Listen.
LEMMA LoopInv ==
  ASSUME ListenerInv, NEW k \in Listens, Accept(k) \/ AcceptFails(k) \/ Select(k)
  PROVE  ListenerInv'
<1>1. /\ lock' = lock /\ listening' = listening /\ closed' = closed /\ quit' = quit
      /\ socket' = socket /\ stop' = stop /\ result' = result
      /\ panicked' = panicked /\ twice' = twice
      /\ accepted' \in {accepted} \/ (accepted < MaxAccepted /\ accepted' = accepted + 1)
  BY DEF Accept, AcceptFails, Select
<1>2. PICK p \in {"accept", "select", "confirm"} :
        loop[k] \in {"accept", "select"} /\ loop' = [loop EXCEPT ![k] = p]
  <2>1. CASE Accept(k)
    <3>1. loop' = [loop EXCEPT ![k] = "accept"] /\ loop[k] = "accept"
      BY <2>1 DEF Accept, ListenerInv, TypeOK
    <3>. QED
      BY <3>1
  <2>2. CASE AcceptFails(k)
    BY <2>2 DEF AcceptFails
  <2>3. CASE Select(k)
    BY <2>3 DEF Select
  <2>. QED
    BY <2>1, <2>2, <2>3
<1>3. TypeOK'
  BY <1>1, <1>2, ListenerAssumption DEF ListenerInv, TypeOK
<1>4. \A l \in Listens : (InLoop(l)' <=> InLoop(l)) /\ (loop[l] = "returned" => loop'[l] = "returned")
  BY <1>2 DEF ListenerInv, TypeOK, InLoop
<1>5. Listening'
  BY <1>1, <1>4 DEF ListenerInv, Listening
<1>. QED
  BY <1>1, <1>3, <1>5 DEF ListenerInv, NoPanic

\* Stop closes quit.
LEMMA StopStartInv == ASSUME ListenerInv, NEW r \in Stops, StopStart(r) PROVE ListenerInv'
<1>1. /\ stop[r] = "new" /\ lock = None /\ lock' = r /\ quit' = TRUE
      /\ panicked' = (panicked \/ quit) /\ stop' = [stop EXCEPT ![r] = "socket"]
      /\ listening' = listening /\ closed' = closed /\ socket' = socket /\ loop' = loop
      /\ result' = result /\ accepted' = accepted /\ twice' = twice
  BY DEF StopStart
<1>2. TypeOK'
  BY <1>1 DEF ListenerInv, TypeOK
<1>3. NoPanic'
  BY <1>1 DEF ListenerInv, NoPanic, Listening
<1>4. Listening'
  BY <1>1, ListenerAssumption DEF ListenerInv, TypeOK, Listening, InLoop
<1>. QED
  BY <1>2, <1>3, <1>4 DEF ListenerInv

\* Stop closes the socket, and returns if nobody listens.
LEMMA StopSocketInv == ASSUME ListenerInv, NEW r \in Stops, StopSocket(r) PROVE ListenerInv'
<1>1. /\ stop[r] = "socket" /\ socket' = FALSE
      /\ loop' = loop /\ accepted' = accepted /\ panicked' = panicked /\ twice' = twice
      /\ \/ /\ listening /\ stop' = [stop EXCEPT ![r] = "wait"]
            /\ lock' = lock /\ listening' = listening /\ closed' = closed /\ quit' = quit
            /\ result' = result
         \/ /\ ~listening /\ stop' = [stop EXCEPT ![r] = "returned"] /\ lock' = None
            /\ result' = [result EXCEPT ![r] = "nil"]
            /\ quit' = FALSE /\ listening' = FALSE /\ closed' = TRUE
  BY DEF StopSocket, Finish, Returns, FreshQuit
<1>2. lock = r
  BY <1>1 DEF ListenerInv, Listening
<1>3. TypeOK'
  BY <1>1, <1>2 DEF ListenerInv, TypeOK
<1>4. NoPanic'
  BY <1>1 DEF ListenerInv, TypeOK, NoPanic, Listening
<1>5. Listening'
  BY <1>1, <1>2, ListenerAssumption DEF ListenerInv, TypeOK, Listening, InLoop
<1>. QED
  BY <1>3, <1>4, <1>5 DEF ListenerInv

\* Stop returns the error of closing the socket, and leaves quit closed.
LEMMA StopFailsInv == ASSUME ListenerInv, NEW r \in Stops, StopFails(r) PROVE ListenerInv'
<1>1. /\ stop[r] = "socket" /\ stop' = [stop EXCEPT ![r] = "returned"]
      /\ result' = [result EXCEPT ![r] = "error"] /\ lock' = None
      /\ listening' = listening /\ closed' = closed /\ quit' = quit /\ socket' = socket
      /\ loop' = loop /\ accepted' = accepted /\ panicked' = panicked /\ twice' = twice
  BY DEF StopFails, Returns
<1>2. lock = r /\ result[r] = "none"
  BY <1>1 DEF ListenerInv, Listening
<1>3. TypeOK'
  BY <1>1 DEF ListenerInv, TypeOK
<1>4. NoPanic' /\ \E s \in Stops : result'[s] = "error"
  BY <1>1 DEF ListenerInv, TypeOK, NoPanic
<1>5. Listening'
  BY <1>1, <1>2, <1>4, ListenerAssumption DEF ListenerInv, TypeOK, Listening, InLoop
<1>. QED
  BY <1>3, <1>4, <1>5 DEF ListenerInv

\* The loop confirms: it has returned when Stop does.
LEMMA StopConfirmedInv ==
  ASSUME ListenerInv, NEW r \in Stops, NEW k \in Listens, StopConfirmed(r, k)
  PROVE  ListenerInv'
<1>1. /\ stop[r] = "wait" /\ loop[k] = "confirm" /\ loop' = [loop EXCEPT ![k] = "returned"]
      /\ stop' = [stop EXCEPT ![r] = "returned"] /\ result' = [result EXCEPT ![r] = "nil"]
      /\ lock' = None /\ quit' = FALSE /\ listening' = FALSE /\ closed' = TRUE
      /\ socket' = socket /\ accepted' = accepted /\ panicked' = panicked /\ twice' = twice
  BY DEF StopConfirmed, Finish, Returns, FreshQuit
<1>2. lock = r /\ result[r] = "none" /\ InLoop(k)
  BY <1>1 DEF ListenerInv, Listening, InLoop
<1>3. TypeOK'
  BY <1>1 DEF ListenerInv, TypeOK
<1>4. NoPanic'
  BY <1>1, <1>2 DEF ListenerInv, TypeOK, NoPanic
<1>5. loop'[k] = "returned" /\ \A l \in Listens : InLoop(l)' => l # k /\ InLoop(l)
  BY <1>1 DEF ListenerInv, TypeOK, InLoop
<1>6. Listening'
  BY <1>1, <1>2, <1>5, ListenerAssumption DEF ListenerInv, TypeOK, Listening
<1>. QED
  BY <1>3, <1>4, <1>6 DEF ListenerInv

\* Every step of the listener keeps its invariant.
LEMMA ListenerNextInv == ASSUME ListenerInv, Next PROVE ListenerInv'
BY ListenInv, LoopInv, StopStartInv, StopSocketInv, StopFailsInv, StopConfirmedInv
   DEF Next, StopGoes

\* A step that leaves the listener alone.
LEMMA ListenerUnchangedInv == ASSUME ListenerInv, UNCHANGED vars PROVE ListenerInv'
BY DEF ListenerInv, vars, TypeOK, NoPanic, Listening, InLoop

\* NoLoopAfterStop, from the invariant.
LEMMA ListenerInvNoLoop == ListenerInv => NoLoopAfterStop
BY DEF ListenerInv, Listening, NoLoopAfterStop

-----------------------------------------------------------------------------
(***************************************************************************)
(* The stream of a connection.  A place in it is a message and a position: *)
(* position 0 is the size of the message, the others are its bytes.  After *)
(* the last byte of a message comes the size of the next one.  len has the *)
(* lengths of the messages.                                                *)
(***************************************************************************)

\* What stands at place m, p.
At(len, m, p) == IF p = 0 THEN [size |-> len[m]] ELSE [msg |-> m, pos |-> p]

\* off[m] is the number of elements of the stream before message m of M messages.
Offsets(off, len, M) ==
  /\ \A m \in 1..(M + 1) : off[m] \in Nat
  /\ \A m \in 1..M : len[m] \in Nat /\ off[m + 1] = off[m] + len[m] + 1
  /\ \A m \in 1..M, k \in 1..(M + 1) : m < k => off[m] + len[m] < off[k]

\* The L elements of w are those that follow the first n elements of the stream.
Contents(off, len, M, w, L, n) == \A m \in 1..M, p \in Nat, i \in 1..L :
  p <= len[m] /\ off[m] + p + 1 = n + i => w[i] = At(len, m, p)

\* One message more.
LEMMA OffsetsMore ==
  ASSUME NEW M \in Nat, NEW len, NEW len1, NEW off, Offsets(off, len, M),
         \A k \in 1..M : len1[k] = len[k], len1[M + 1] \in Nat
  PROVE  \E off1 : Offsets(off1, len1, M + 1) /\ \A k \in 1..(M + 1) : off1[k] = off[k]
<1>1. PICK a \in Nat, n \in Nat : a = off[M + 1] /\ n = len1[M + 1]
  BY DEF Offsets
<1>2. PICK off1 : off1 = [k \in 1..(M + 2) |-> IF k = M + 2 THEN a + n + 1 ELSE off[k]]
  OBVIOUS
<1>3. off1[M + 2] = a + n + 1 /\ \A k \in 1..(M + 1) : off1[k] = off[k]
  BY <1>2
<1>4. off1[M + 1] = a
  BY <1>1, <1>3
<1>5. \A k \in 1..(M + 2) : off1[k] \in Nat
  BY <1>3 DEF Offsets
<1>6. ASSUME NEW k \in 1..(M + 1) PROVE len1[k] \in Nat /\ off1[k + 1] = off1[k] + len1[k] + 1
  <2>1. CASE k = M + 1
    BY <2>1, <1>1, <1>3, <1>4
  <2>2. CASE k \in 1..M
    BY <2>2, <1>3 DEF Offsets
  <2>. QED
    BY <2>1, <2>2
<1>7. ASSUME NEW k \in 1..(M + 1), NEW j \in 1..(M + 2), k < j
      PROVE  off1[k] + len1[k] < off1[j]
  <2>1. CASE j \in 1..(M + 1)
    <3>1. k \in 1..M /\ off[k] + len[k] < off[j]
      BY <2>1, <1>7 DEF Offsets
    <3>. QED
      BY <3>1, <2>1, <1>3
  <2>2. CASE j = M + 2 /\ k = M + 1
    BY <2>2, <1>1, <1>3, <1>4
  <2>3. CASE j = M + 2 /\ k \in 1..M
    <3>1. off[k] + len[k] < off[M + 1] /\ off1[k] = off[k] /\ len1[k] = len[k] 
      BY <2>3, <1>3 DEF Offsets
    <3>2. PICK b \in Nat, c \in Nat : b = off[k] /\ c = len[k]
      BY <2>3 DEF Offsets
    <3>3. b + c < a 
      BY <3>1, <3>2, <1>1
    <3>4. b + c < a + n + 1
      BY <3>3
    <3>. QED
      BY <3>1, <3>2, <3>4, <2>3, <1>3
  <2>. QED
    BY <2>1, <2>2, <2>3, <1>7
<1>. QED
  BY <1>3, <1>5, <1>6, <1>7 DEF Offsets

\* The size of the message behind all others.
LEMMA ContentsSize ==
  ASSUME NEW M \in Nat, NEW len, NEW len1, NEW off, NEW off1, NEW w, NEW w1,
         NEW L \in Nat, NEW n \in Nat,
         Offsets(off, len, M), Offsets(off1, len1, M + 1),
         \A k \in 1..M : len1[k] = len[k],
         \A k \in 1..(M + 1) : off1[k] = off[k],
         \A i \in 1..L : w1[i] = w[i],
         w1[L + 1] = [size |-> len1[M + 1]],
         Contents(off, len, M, w, L, n), n + L = off[M + 1]
  PROVE  Contents(off1, len1, M + 1, w1, L + 1, n)
<1>. SUFFICES ASSUME NEW k \in 1..(M + 1), NEW q \in Nat, NEW i \in 1..(L + 1),
             q <= len1[k], off1[k] + q + 1 = n + i
      PROVE  w1[i] = At(len1, k, q)
  BY DEF Contents
<1>1. PICK a \in Nat, b \in Nat : a = off[M + 1] /\ b = off[k]
  BY DEF Offsets
<1>2. b + q + 1 = n + i /\ n + L = a
  BY <1>1
<1>3. CASE k = M + 1
  <2>1. a = b
    BY <1>1, <1>3
  <2>2. i = L + 1 /\ q = 0
    BY <2>1, <1>2
  <2>. QED
    BY <2>2, <1>3 DEF At
<1>4. CASE k \in 1..M
  <2>1. PICK c \in Nat : c = len[k] /\ c = len1[k]
    BY <1>4 DEF Offsets
  <2>2. b + c < a
    BY <2>1, <1>1, <1>4 DEF Offsets
  <2>3. q <= c
    BY <2>1
  <2>4. i \in 1..L
    BY <2>2, <2>3, <1>2
  <2>5. w[i] = At(len, k, q)
    BY <2>1, <2>3, <2>4, <1>1, <1>2, <1>4 DEF Contents
  <2>. QED
    BY <2>1, <2>4, <2>5 DEF At
<1>. QED
  BY <1>3, <1>4

\* n bytes of the last message, behind its size.
LEMMA ContentsBytes ==
  ASSUME NEW M \in Nat, NEW len, NEW off, NEW w, NEW w1, M > 0,
         NEW L \in Nat, NEW x \in Nat, NEW n \in Nat,
         Offsets(off, len, M), n <= len[M],
         \A i \in 1..L : w1[i] = w[i],
         \A i \in 1..n : w1[L + i] = [msg |-> M, pos |-> i],
         Contents(off, len, M, w, L, x), x + L = off[M] + 1
  PROVE  Contents(off, len, M, w1, L + n, x)
<1>. SUFFICES ASSUME NEW k \in 1..M, NEW q \in Nat, NEW i \in 1..(L + n),
             q <= len[k], off[k] + q + 1 = x + i
      PROVE  w1[i] = At(len, k, q)
  BY DEF Contents
<1>1. PICK a \in Nat, b \in Nat : a = off[M] /\ b = off[k]
  BY DEF Offsets
<1>2. b + q + 1 = x + i /\ x + L = a + 1
  BY <1>1
<1>3. i \in 1..L => w1[i] = At(len, k, q)
  BY DEF Contents
<1>4. CASE k = M
  <2>1. a = b
    BY <1>1, <1>4
  <2>2. i = L + q
    BY <2>1, <1>2
  <2>3. CASE q = 0
    <3>1. i \in 1..L
      BY <2>2, <2>3
    <3>. QED
      BY <3>1, <1>3
  <2>4. CASE q # 0
    <3>1. q \in 1..n
      BY <2>2, <2>4
    <3>. QED
      BY <2>2, <2>4, <3>1, <1>4 DEF At
  <2>. QED
    BY <2>3, <2>4
<1>5. CASE k \in 1..(M - 1)
  <2>1. PICK c \in Nat : c = len[k]
    BY DEF Offsets
  <2>2. b + c < a
    BY <2>1, <1>1, <1>5 DEF Offsets
  <2>3. q <= c
    BY <2>1
  <2>4. i \in 1..L
    BY <2>2, <2>3, <1>2
  <2>. QED
    BY <2>4, <1>3
<1>. QED
  BY <1>4, <1>5

\* n elements are read.
LEMMA ContentsTake ==
  ASSUME NEW M \in Nat, NEW len, NEW off, NEW w, NEW w1,
         NEW L \in Nat, NEW x \in Nat, NEW n \in Nat, n <= L,
         Offsets(off, len, M), Contents(off, len, M, w, L, x),
         \A i \in 1..(L - n) : w1[i] = w[n + i]
  PROVE  Contents(off, len, M, w1, L - n, x + n)
<1>. SUFFICES ASSUME NEW k \in 1..M, NEW q \in Nat, NEW i \in 1..(L - n),
             q <= len[k], off[k] + q + 1 = x + n + i
      PROVE  w1[i] = At(len, k, q)
  BY DEF Contents
<1>1. PICK b \in Nat : b = off[k]
  BY DEF Offsets
<1>2. b + q + 1 = x + (n + i) /\ n + i \in 1..L
  BY <1>1
<1>. QED
  BY <1>1, <1>2 DEF Contents

\* The size of the next message.
LEMMA ContentsAtSize ==
  ASSUME NEW M \in Nat, NEW len, NEW off, NEW w, NEW L \in Nat, NEW m \in Nat,
         1 <= m, m <= M + 1, L > 0,
         Offsets(off, len, M), Contents(off, len, M, w, L, off[m]),
         off[m] + L <= off[M + 1]
  PROVE  m <= M /\ w[1] = [size |-> len[m]]
<1>1. PICK a \in Nat, b \in Nat : a = off[M + 1] /\ b = off[m]
  BY DEF Offsets
<1>2. b + L <= a
  BY <1>1
<1>3. a # b
  BY <1>2
<1>4. m \in 1..M
  BY <1>1, <1>3
<1>5. PICK q \in Nat, i \in 1..L : q = 0 /\ i = 1
  OBVIOUS
<1>6. q <= len[m] /\ off[m] + q + 1 = off[m] + i
  BY <1>1, <1>4, <1>5 DEF Offsets
<1>7. w[i] = At(len, m, q)
  BY <1>4, <1>6 DEF Contents
<1>. QED
  BY <1>4, <1>5, <1>7 DEF At

\* w begins with n bytes of message m, from behind the first p ones.
BytesFrom(w, m, p, n) == \A i \in 1..n : w[i] = [msg |-> m, pos |-> p + i]

\* The next n bytes of message m, of which p have been read.
LEMMA ContentsAtBytes ==
  ASSUME NEW M \in Nat, NEW len, NEW off, NEW w, NEW L \in Nat, NEW m \in Nat,
         NEW p \in Nat, NEW n \in Nat, NEW x \in Nat,
         1 <= m, m <= M, n <= L, p + n <= len[m], x = off[m] + (p + 1),
         Offsets(off, len, M), Contents(off, len, M, w, L, x)
  PROVE  BytesFrom(w, m, p, n)
<1>. SUFFICES ASSUME NEW i \in 1..n PROVE w[i] = [msg |-> m, pos |-> p + i]
  BY DEF BytesFrom
<1>1. PICK b \in Nat, c \in Nat : b = off[m] /\ c = len[m]
  BY DEF Offsets
<1>2. PICK q \in Nat : q = p + i
  OBVIOUS
<1>3. p + n <= c
  BY <1>1
<1>4. q <= c /\ b + q + 1 = b + (p + 1) + i /\ i \in 1..L /\ q # 0
  BY <1>2, <1>3
<1>5. q <= len[m] /\ off[m] + q + 1 = x + i /\ m \in 1..M
  BY <1>1, <1>4
<1>. QED
  BY <1>2, <1>4, <1>5 DEF Contents, At

-----------------------------------------------------------------------------
(***************************************************************************)
(* The connection.                                                         *)
(***************************************************************************)

\* What is under way or read: bytes and sizes.
Elem == [msg : Nat, pos : Nat] \cup [size : Nat]

\* A sender has written the size of the last message, and no byte of it.
BytesAwaited == \E s \in Sender : writing[s] = "bytes"

ConnTypes ==
  /\ length \in [Sender -> Nat]
  /\ writing \in [Sender -> {"idle", "size", "bytes"}]
  /\ reading \in {"size", "bytes", "stopped"}
  /\ wire \in Seq(Elem) /\ buffer \in Seq(Elem) /\ sent \in Seq(Nat)
  /\ received \in Seq(Seq(Elem))

\* Who sends holds sendMutex; who is about to write bytes has written the last size.
Writers == \A s \in Sender :
  /\ writing[s] # "idle" <=> sendMutex = s
  /\ length[s] < SizeMod
  /\ writing[s] = "bytes" =>
       Len(sent) > 0 /\ length[s] = sent[Len(sent)] /\ length[s] > 0

\* b has what has come of the message after those received.
Reader ==
  /\ reading = "size" => buffer = <<>>
  /\ reading = "bytes" =>
       /\ Len(received) < Len(sent)
       /\ total = sent[Len(received) + 1] /\ Len(buffer) < total
       /\ buffer = Conn!Bytes(Len(received) + 1, Len(buffer))

\* How many elements of the stream the reader has read.
Position(off) ==
  off[Len(received) + 1] + (IF reading = "size" THEN 0 ELSE Len(buffer) + 1)

\* What is under way is the stream from there up to what has been written; a write
\* that fails may leave off anywhere in the last message.
Underway(off) ==
  /\ Offsets(off, sent, Len(sent))
  /\ Contents(off, sent, Len(sent), wire, Len(wire), Position(off))
  /\ Position(off) + Len(wire) <= off[Len(sent) + 1]
  /\ BytesAwaited => Position(off) + Len(wire) = off[Len(sent)] + 1
  /\ ~broken /\ ~BytesAwaited => Position(off) + Len(wire) = off[Len(sent) + 1]

Stream == reading # "stopped" => \E off : Underway(off)

\* The inductive invariant of the connection.
ConnInv == ConnTypes /\ Writers /\ Reader /\ FramesIntact /\ Stream

\* Sizes are what they say: no message is as long as the modulus of its size.
LengthsFit == \A n \in Length : n < SizeMod

\* Nothing has been sent at first.
LEMMA ConnInitInv == Conn!Init => ConnInv
<1>. SUFFICES ASSUME Conn!Init PROVE ConnInv
  OBVIOUS
<1>1. /\ sendMutex = None /\ length = [s \in Sender |-> 0] /\ wire = <<>> /\ broken = FALSE
      /\ writing = [s \in Sender |-> "idle"] /\ reading = "size" /\ buffer = <<>>
      /\ sent = <<>> /\ received = <<>>
  BY DEF Conn!Init
<1>2. ConnTypes
  BY <1>1 DEF ConnTypes
<1>3. Writers
  BY <1>1, TCPConnAssumption DEF Writers
<1>4. Reader /\ FramesIntact
  BY <1>1 DEF Reader, FramesIntact, Conn!FramesIntact
<1>5. PICK off : off = [m \in 1..1 |-> 0]
  OBVIOUS
<1>6. Position(off) = 0
  BY <1>1, <1>5 DEF Position
<1>7. Offsets(off, <<>>, 0) /\ Contents(off, <<>>, 0, <<>>, 0, 0) /\ off[1] = 0
  BY <1>5 DEF Offsets, Contents
<1>8. Underway(off)
  <2>1. ~BytesAwaited /\ Len(wire) = 0 /\ Len(sent) = 0
    BY <1>1 DEF BytesAwaited
  <2>. QED
    BY <1>1, <1>6, <1>7, <2>1 DEF Underway
<1>. QED
  BY <1>2, <1>3, <1>4, <1>8 DEF ConnInv, Stream

\* Send takes sendMutex.
LEMMA SendStartInv ==
  ASSUME LengthsFit, ConnInv, NEW s \in Sender, NEW n \in Length, Conn!SendStart(s, n)
  PROVE  ConnInv'
<1>1. /\ writing[s] = "idle" /\ sendMutex = None /\ sendMutex' = s
      /\ length' = [length EXCEPT ![s] = n] /\ writing' = [writing EXCEPT ![s] = "size"]
      /\ sent' = sent /\ reading' = reading /\ total' = total /\ buffer' = buffer
      /\ received' = received /\ wire' = wire /\ broken' = broken
  BY DEF Conn!SendStart, Conn!Free, Conn!readVars
<1>2. n \in Nat /\ n < SizeMod
  BY TCPConnAssumption DEF LengthsFit
<1>3. ConnTypes'
  BY <1>1, <1>2 DEF ConnInv, ConnTypes
<1>4. \A r \in Sender : writing[r] = "idle"
  BY <1>1, TCPConnAssumption DEF ConnInv, Writers
<1>5. Writers'
  BY <1>1, <1>2, <1>4, TCPConnAssumption DEF ConnInv, ConnTypes, Writers
<1>6. Reader' /\ FramesIntact'
  BY <1>1 DEF ConnInv, Reader, FramesIntact, Conn!FramesIntact, Conn!Bytes
<1>7. ~BytesAwaited /\ ~BytesAwaited'
  BY <1>1, <1>4 DEF ConnInv, ConnTypes, BytesAwaited
<1>8. ASSUME NEW off, Underway(off) PROVE Underway(off)'
  BY <1>1, <1>7, <1>8 DEF Underway, Position
<1>9. Stream'
  BY <1>1, <1>8 DEF ConnInv, Stream
<1>. QED
  BY <1>3, <1>5, <1>6, <1>9 DEF ConnInv

\* The last message is as long as its size says, and the reader is not behind it.
LEMMA ReceivedInRange ==
  ASSUME ConnInv
  PROVE  /\ Len(sent) \in Nat /\ Len(received) \in Nat /\ Len(wire) \in Nat
         /\ Len(received) + 1 \in 1..(Len(sent) + 1)
         /\ \A off : Offsets(off, sent, Len(sent)) =>
              Position(off) \in Nat /\ off[Len(sent) + 1] \in Nat
<1>1. /\ Len(sent) \in Nat /\ Len(received) \in Nat /\ Len(buffer) \in Nat
      /\ Len(wire) \in Nat
  BY DEF ConnInv, ConnTypes
<1>2. Len(received) + 1 \in 1..(Len(sent) + 1)
  BY <1>1 DEF ConnInv, FramesIntact, Conn!FramesIntact
<1>3. ASSUME NEW off, Offsets(off, sent, Len(sent))
      PROVE  Position(off) \in Nat /\ off[Len(sent) + 1] \in Nat
  <2>1. off[Len(received) + 1] \in Nat /\ off[Len(sent) + 1] \in Nat
    BY <1>1, <1>2, <1>3 DEF Offsets
  <2>. QED
    BY <1>1, <2>1 DEF Position
<1>. QED
  BY <1>1, <1>2, <1>3

\* A length below the modulus is its own size.
LEMMA ModSmall == ASSUME NEW n \in Nat, NEW z \in Nat, n < z PROVE n % z = n
OBVIOUS

\* The size is written.
LEMMA WriteSizeInv ==
  ASSUME ConnInv, NEW s \in Sender, Conn!WriteSize(s) PROVE ConnInv'
<1>0. PICK n \in Nat, M \in Nat, L \in Nat, R \in Nat :
       n = length[s] /\ M = Len(sent) /\ L = Len(wire) /\ R = Len(received)
  BY DEF ConnInv, ConnTypes
<1>1. n % SizeMod = n
  BY <1>0, TCPConnAssumption, ModSmall DEF ConnInv, Writers
<1>2. /\ writing[s] = "size" /\ ~broken /\ wire' = Append(wire, [size |-> n])
      /\ sent' = Append(sent, n) /\ length' = length
      /\ reading' = reading /\ total' = total /\ buffer' = buffer
      /\ received' = received /\ broken' = broken
  BY <1>0, <1>1 DEF Conn!WriteSize, Conn!PacketSize, Conn!readVars
<1>3. \/ n = 0 /\ writing' = [writing EXCEPT ![s] = "idle"] /\ sendMutex' = None
      \/ n # 0 /\ writing' = [writing EXCEPT ![s] = "bytes"] /\ sendMutex' = sendMutex
  BY <1>0, <1>1 DEF Conn!WriteSize, Conn!PacketSize, Conn!SendReturns
<1>4. sendMutex = s /\ \A r \in Sender : r # s => writing[r] = "idle"
  BY <1>2 DEF ConnInv, Writers
<1>5. ConnTypes'
  <2>1. [size |-> n] \in Elem
    BY <1>0 DEF Elem
  <2>2. wire' \in Seq(Elem) /\ sent' \in Seq(Nat)
    BY <2>1, <1>0, <1>2 DEF ConnInv, ConnTypes
  <2>. QED
    BY <2>2, <1>2, <1>3 DEF ConnInv, ConnTypes
<1>6. Len(sent') = M + 1 /\ sent'[M + 1] = n /\ \A i \in 1..M : sent'[i] = sent[i]
  BY <1>0, <1>2 DEF ConnInv, ConnTypes
<1>7. Len(wire') = L + 1 /\ wire'[L + 1] = [size |-> n] /\ \A i \in 1..L : wire'[i] = wire[i]
  BY <1>0, <1>2 DEF ConnInv, ConnTypes
<1>8. Writers'
  BY <1>0, <1>2, <1>3, <1>4, <1>6, TCPConnAssumption DEF ConnInv, ConnTypes, Writers
<1>9. Reader'
  BY <1>0, <1>2, <1>6 DEF ConnInv, Reader, Conn!Bytes
<1>10. FramesIntact'
  BY <1>0, <1>2, <1>6 DEF ConnInv, ConnTypes, FramesIntact, Conn!FramesIntact, Conn!Bytes
<1>11. ~BytesAwaited /\ (BytesAwaited' <=> n # 0)
  BY <1>2, <1>3, <1>4 DEF ConnInv, ConnTypes, BytesAwaited
<1>12. Stream'
  <2>. SUFFICES ASSUME reading # "stopped" PROVE (\E off : Underway(off))'
    BY <1>2 DEF Stream
  <2>1. PICK off : Underway(off)
    BY DEF ConnInv, Stream
  <2>2. PICK off1 : /\ Offsets(off1, sent', M + 1)
                    /\ \A k \in 1..(M + 1) : off1[k] = off[k]
    <3>1. Offsets(off, sent, M) /\ sent'[M + 1] \in Nat /\ M \in Nat
      BY <2>1, <1>0, <1>6 DEF Underway
    <3>. QED
      BY <3>1, <1>6, OffsetsMore, SMTT(30)
  <2>3. PICK x \in Nat, a \in Nat : x = Position(off) /\ a = off[M + 1] /\ x + L = a
    BY <2>1, <1>0, <1>2, <1>11, ReceivedInRange DEF Underway
  <2>4. Contents(off1, sent', M + 1, wire', L + 1, x)
    <3>1. Offsets(off, sent, M) /\ Contents(off, sent, M, wire, L, x)
      BY <2>1, <2>3, <1>0 DEF Underway
    <3>2. wire'[L + 1] = [size |-> sent'[M + 1]]
      BY <1>6, <1>7
    <3>3. x + L = off[M + 1]
      BY <2>3
    <3>4. x \in Nat /\ L \in Nat /\ M \in Nat
      BY <2>3, <1>0
    <3>. QED
      BY <3>1, <3>2, <3>3, <3>4, <2>2, <1>6, <1>7, ContentsSize, Zenon
  <2>5. Position(off1)' = x
    BY <2>2, <2>3, <1>0, <1>2, ReceivedInRange DEF Position
  <2>6. off1[M + 1] = a /\ off1[M + 2] = a + n + 1
    <3>1. M + 1 \in 1..(M + 1) /\ (M + 1) + 1 = M + 2
      BY <1>0
    <3>2. off1[(M + 1) + 1] = off1[M + 1] + sent'[M + 1] + 1
      BY <2>2, <3>1 DEF Offsets
    <3>. QED
      BY <3>1, <3>2, <2>2, <2>3, <1>6
  <2>7. /\ x + (L + 1) <= a + n + 1 /\ x + (L + 1) = a + 1
        /\ n = 0 => x + (L + 1) = a + n + 1
    BY <2>3
  <2>. QED
    BY <2>2, <2>4, <2>5, <2>6, <2>7, <1>6, <1>7, <1>11 DEF Underway
<1>. QED
  BY <1>5, <1>8, <1>9, <1>10, <1>12 DEF ConnInv

\* Some of the bytes of the last message are written, all of them unless the write
\* fails, and sendMutex is released.
LEMMA BytesWrittenInv ==
  ASSUME ConnInv, NEW s \in Sender, NEW n \in Nat, NEW k \in Nat,
         writing[s] = "bytes", length[s] = k, n <= k,
         wire' = wire \o Conn!Bytes(Len(sent), n), n = k \/ broken,
         Conn!SendReturns(s),
         length' = length, sent' = sent, reading' = reading, total' = total,
         buffer' = buffer, received' = received, broken' = broken
  PROVE  ConnInv'
<1>0. PICK M \in Nat, L \in Nat, R \in Nat :
       M = Len(sent) /\ L = Len(wire) /\ R = Len(received)
  BY DEF ConnInv, ConnTypes
<1>1. writing' = [writing EXCEPT ![s] = "idle"] /\ sendMutex' = None
  BY DEF Conn!SendReturns
<1>2. M > 0 /\ k = sent[M] /\ sendMutex = s /\ \A r \in Sender : r # s => writing[r] = "idle"
  BY <1>0 DEF ConnInv, Writers
<1>3. n \in Nat /\ n <= k /\ (n = k \/ broken)
  BY <1>0
<1>4. Conn!Bytes(M, n) \in Seq(Elem) /\ Len(Conn!Bytes(M, n)) = n
  BY <1>0, <1>3 DEF Conn!Bytes, Elem
<1>5. /\ wire' \in Seq(Elem) /\ Len(wire') = L + n
      /\ \A i \in 1..L : wire'[i] = wire[i]
      /\ \A i \in 1..n : wire'[L + i] = [msg |-> M, pos |-> i]
  <2>1. wire \in Seq(Elem)
    BY DEF ConnInv, ConnTypes
  <2>2. PICK b \in Seq(Elem) : b = Conn!Bytes(M, n) /\ Len(b) = n
    BY <1>4
  <2>3. \A i \in 1..n : b[i] = [msg |-> M, pos |-> i]
    BY <2>2 DEF Conn!Bytes
  <2>4. wire' = wire \o b
    BY <2>2, <1>0
  <2>5. /\ wire \o b \in Seq(Elem) /\ Len(wire \o b) = L + n
        /\ \A i \in 1..(L + n) : (wire \o b)[i] = IF i <= L THEN wire[i] ELSE b[i - L]
    <3>1. /\ wire \o b \in Seq(Elem) /\ Len(wire \o b) = Len(wire) + Len(b)
          /\ \A i \in 1..(Len(wire) + Len(b)) :
               (wire \o b)[i] = IF i <= Len(wire) THEN wire[i] ELSE b[i - Len(wire)]
      BY <2>1, <2>2, ConcatProperties, Zenon
    <3>2. Len(wire) = L /\ Len(b) = n
      BY <2>2, <1>0
    <3>. QED
      BY <3>1, <3>2, Zenon
  <2>6. \A i \in 1..n : L + i \in 1..(L + n) /\ ~(L + i <= L) /\ (L + i) - L = i
    BY <1>0
  <2>7. \A i \in 1..L : i \in 1..(L + n) /\ i <= L
    BY <1>0
  <2>. QED
    BY <2>3, <2>4, <2>5, <2>6, <2>7
<1>6. ConnTypes'
  BY <1>1, <1>5 DEF ConnInv, ConnTypes
<1>7. Writers'
  BY <1>1, <1>2, TCPConnAssumption DEF ConnInv, ConnTypes, Writers
<1>8. Reader' /\ FramesIntact'
  BY DEF ConnInv, Reader, FramesIntact, Conn!FramesIntact, Conn!Bytes
<1>9. BytesAwaited /\ ~BytesAwaited'
  BY <1>1, <1>2 DEF ConnInv, ConnTypes, BytesAwaited
<1>10. Stream'
  <2>. SUFFICES ASSUME reading # "stopped" PROVE (\E off : Underway(off))'
    BY DEF Stream
  <2>1. PICK off : Underway(off)
    BY DEF ConnInv, Stream
  <2>7. Offsets(off, sent, M) /\ Contents(off, sent, M, wire, L, Position(off))
    BY <2>1, <1>0 DEF Underway
  <2>8. off[M] \in Nat /\ Position(off) \in Nat /\ Position(off) + L = off[M] + 1
    <3>1. M \in 1..(M + 1)
      BY <1>0, <1>2
    <3>2. off[M] \in Nat
      BY <3>1, <2>7 DEF Offsets
    <3>. QED
      BY <3>2, <2>1, <2>7, <1>0, <1>9, ReceivedInRange DEF Underway
  <2>2. PICK x \in Nat, a \in Nat : x = Position(off) /\ a = off[M] /\ x + L = a + 1
    BY <2>8
  <2>3. Contents(off, sent, M, wire', L + n, x)
    <3>1. Contents(off, sent, M, wire, L, x) /\ x + L = off[M] + 1
      BY <2>2, <2>7
    <3>2. x \in Nat /\ L \in Nat /\ M \in Nat /\ M > 0 /\ n \in Nat /\ n <= sent[M]
      BY <2>2, <1>0, <1>2, <1>3
    <3>. QED
      BY <3>1, <3>2, <2>7, <1>5, ContentsBytes, Zenon
  <2>4. Position(off)' = x
    BY <2>2 DEF Position
  <2>5. off[M + 1] = a + k + 1
    <3>1. M \in 1..M
      BY <1>0, <1>2
    <3>2. off[M + 1] = off[M] + sent[M] + 1
      BY <3>1, <2>7 DEF Offsets
    <3>. QED
      BY <3>2, <2>2, <1>2
  <2>6. x + (L + n) <= a + k + 1 /\ (n = k => x + (L + n) = a + k + 1)
    <3>4. x \in Nat /\ L \in Nat /\ a \in Nat /\ x + L = a + 1
      BY <2>2, <1>0
    <3>1. x + (L + n) = (a + 1) + n
      BY <3>4
    <3>2. a \in Nat /\ k \in Nat /\ n \in Nat /\ n <= k
      BY <2>2, <1>0, <1>3
    <3>3. (a + 1) + n <= a + k + 1 /\ (n = k => (a + 1) + n = a + k + 1)
      BY <3>2
    <3>. QED
      BY <3>1, <3>3
  <2>. QED
    BY <2>1, <2>3, <2>4, <2>5, <2>6, <1>0, <1>3, <1>5, <1>9 DEF Underway
<1>. QED
  BY <1>6, <1>7, <1>8, <1>10 DEF ConnInv

\* All bytes of the last message.
LEMMA WriteBytesInv ==
  ASSUME ConnInv, NEW s \in Sender, Conn!WriteBytes(s) PROVE ConnInv'
<1>1. /\ writing[s] = "bytes" /\ wire' = wire \o Conn!Bytes(Len(sent), length[s])
      /\ Conn!SendReturns(s) /\ length' = length /\ sent' = sent /\ reading' = reading
      /\ total' = total /\ buffer' = buffer /\ received' = received /\ broken' = broken
  BY DEF Conn!WriteBytes, Conn!readVars
<1>2. PICK k \in Nat : k = length[s]
  BY DEF ConnInv, ConnTypes
<1>3. k <= k
  BY <1>2
<1>. QED
  BY <1>1, <1>2, <1>3, BytesWrittenInv

\* The write fails, with some of the bytes written or none.
LEMMA WriteFailsInv ==
  ASSUME ConnInv, NEW s \in Sender, Conn!WriteFails(s) PROVE ConnInv'
<1>1. /\ writing[s] # "idle" /\ broken /\ Conn!SendReturns(s)
      /\ length' = length /\ sent' = sent /\ reading' = reading
      /\ total' = total /\ buffer' = buffer /\ received' = received /\ broken' = broken
  BY DEF Conn!WriteFails, Conn!readVars
<1>2. CASE wire' = wire
  <2>1. writing' = [writing EXCEPT ![s] = "idle"] /\ sendMutex' = None
    BY <1>1 DEF Conn!SendReturns
  <2>2. sendMutex = s /\ \A r \in Sender : r # s => writing[r] = "idle"
    BY <1>1 DEF ConnInv, Writers
  <2>3. ConnTypes'
    BY <1>1, <1>2, <2>1 DEF ConnInv, ConnTypes
  <2>4. Writers'
    BY <1>1, <2>1, <2>2, TCPConnAssumption DEF ConnInv, ConnTypes, Writers
  <2>5. Reader' /\ FramesIntact'
    BY <1>1 DEF ConnInv, Reader, FramesIntact, Conn!FramesIntact, Conn!Bytes
  <2>6. ~BytesAwaited'
    BY <2>1, <2>2 DEF ConnInv, ConnTypes, BytesAwaited
  <2>7. ASSUME NEW off, Underway(off) PROVE Underway(off)'
    BY <1>1, <1>2, <2>6, <2>7 DEF Underway, Position
  <2>8. Stream'
    BY <1>1, <2>7 DEF ConnInv, Stream
  <2>. QED
    BY <2>3, <2>4, <2>5, <2>8 DEF ConnInv
<1>3. CASE /\ writing[s] = "bytes"
           /\ \E n \in 1..(length[s] - 1) : wire' = wire \o Conn!Bytes(Len(sent), n)
  <2>1. PICK k \in Nat : k = length[s]
    BY DEF ConnInv, ConnTypes
  <2>2. PICK n \in 1..(k - 1) : wire' = wire \o Conn!Bytes(Len(sent), n)
    BY <1>3, <2>1
  <2>3. n \in Nat /\ n <= k
    BY <2>1
  <2>. QED
    BY <1>1, <1>3, <2>1, <2>2, <2>3, BytesWrittenInv
<1>. QED
  BY <1>2, <1>3 DEF Conn!WriteFails

\* The reader takes n elements of what is under way.
LEMMA TakeUnderway ==
  ASSUME ConnInv, NEW off, Underway(off), NEW n \in Nat, n <= Len(wire),
         sent' = sent, writing' = writing, broken' = broken,
         Len(wire') = Len(wire) - n, \A i \in 1..(Len(wire) - n) : wire'[i] = wire[n + i],
         Position(off)' = Position(off) + n
  PROVE  Underway(off)'
<1>1. PICK M \in Nat, L \in Nat, x \in Nat : M = Len(sent) /\ L = Len(wire) /\ x = Position(off)
  BY ReceivedInRange DEF Underway
<1>2. Offsets(off, sent, M) /\ Contents(off, sent, M, wire, L, x)
  BY <1>1 DEF Underway
<1>3. Len(wire') = L - n /\ Position(off)' = x + n
  BY <1>1
<1>4. Contents(off, sent, M, wire', L - n, x + n)
  <2>1. n <= L /\ x \in Nat /\ L \in Nat /\ M \in Nat
    BY <1>1
  <2>2. \A i \in 1..(L - n) : wire'[i] = wire[n + i]
    BY <1>1
  <2>. QED
    BY <1>2, <2>1, <2>2, ContentsTake, Zenon
<1>5. (x + n) + (L - n) = x + L
  BY <1>1
<1>6. BytesAwaited' <=> BytesAwaited
  BY DEF BytesAwaited
<1>. QED
  BY <1>1, <1>2, <1>3, <1>4, <1>5, <1>6 DEF Underway

\* A message is received whole.
LEMMA ReceiveIntact ==
  ASSUME ConnInv, sent' = sent, NEW b \in Seq(Elem), received' = Append(received, b),
         Len(received) < Len(sent),
         b = Conn!Bytes(Len(received) + 1, sent[Len(received) + 1])
  PROVE  /\ FramesIntact' /\ received' \in Seq(Seq(Elem))
         /\ Len(received') = Len(received) + 1
<1>1. PICK R \in Nat, M \in Nat : R = Len(received) /\ M = Len(sent) /\ R < M
  BY DEF ConnInv, ConnTypes
<1>2. /\ received' \in Seq(Seq(Elem)) /\ Len(received') = R + 1
      /\ received'[R + 1] = b /\ \A i \in 1..R : received'[i] = received[i]
  BY <1>1 DEF ConnInv, ConnTypes
<1>3. ASSUME NEW i \in 1..(R + 1) PROVE received'[i] = Conn!Bytes(i, sent[i])
  <2>1. CASE i = R + 1
    BY <2>1, <1>1, <1>2
  <2>2. CASE i \in 1..R
    <3>1. i \in DOMAIN received
      BY <2>2, <1>1 DEF ConnInv, ConnTypes
    <3>2. received[i] = Conn!Bytes(i, sent[i])
      BY <3>1 DEF ConnInv, FramesIntact, Conn!FramesIntact
    <3>. QED
      BY <2>2, <3>2, <1>2
  <2>. QED
    BY <1>1, <2>1, <2>2
<1>4. DOMAIN received' = 1..(R + 1) /\ R + 1 <= M
  BY <1>1, <1>2
<1>5. ASSUME NEW i \in DOMAIN received' PROVE received'[i] = Conn!Bytes(i, sent[i])'
  BY <1>3, <1>4, <1>5 DEF Conn!Bytes
<1>6. Len(received') <= Len(sent')
  BY <1>1, <1>2, <1>4
<1>. QED
  BY <1>1, <1>2, <1>5, <1>6 DEF FramesIntact, Conn!FramesIntact

\* The size of a message is read, and the message, if it has no bytes.
LEMMA ReadSizeInv == ASSUME ConnInv, Conn!ReadSize PROVE ConnInv'
<1>0. PICK M \in Nat, L \in Nat, R \in Nat :
        M = Len(sent) /\ L = Len(wire) /\ R = Len(received)
  BY DEF ConnInv, ConnTypes
<1>1. /\ reading = "size" /\ wire # <<>> /\ wire' = Tail(wire) /\ sendMutex' = sendMutex
      /\ length' = length /\ writing' = writing /\ sent' = sent /\ broken' = broken
  BY DEF Conn!ReadSize, Conn!sendVars
<1>2. PICK off : Underway(off)
  BY <1>1 DEF ConnInv, Stream
<1>3. Position(off) = off[R + 1] /\ R + 1 \in Nat /\ 1 <= R + 1 /\ R + 1 <= M + 1
  <2>1. off[R + 1] \in Nat
    BY <1>0, <1>2, ReceivedInRange DEF Underway, Offsets
  <2>. QED
    BY <2>1, <1>0, <1>1, ReceivedInRange DEF Position
<1>4. L > 0 /\ off[R + 1] + L <= off[M + 1]
  BY <1>0, <1>1, <1>2, <1>3 DEF ConnInv, ConnTypes, Underway
<1>5. R + 1 <= M /\ wire[1] = [size |-> sent[R + 1]]
  BY <1>0, <1>2, <1>3, <1>4, ContentsAtSize DEF Underway
<1>6. PICK n \in Nat : n = sent[R + 1]
  BY <1>0, <1>5 DEF ConnInv, ConnTypes
<1>7. Conn!SizeRead(Head(wire)) = {n}
  <2>1. Head(wire) = [size |-> n]
    BY <1>1, <1>5, <1>6 DEF ConnInv, ConnTypes
  <2>. QED
    BY <2>1 DEF Conn!SizeRead, Conn!IsSize
<1>8. /\ total' = n
      /\ \/ /\ n = 0 /\ received' = Append(received, <<>>) /\ reading' = "size"
            /\ buffer' = <<>>
         \/ /\ n # 0 /\ reading' = "bytes" /\ buffer' = buffer /\ received' = received
  BY <1>7 DEF Conn!ReadSize, Conn!Receives
<1>9. /\ wire' \in Seq(Elem) /\ Len(wire') = L - 1
      /\ \A i \in 1..(L - 1) : wire'[i] = wire[1 + i]
  BY <1>0, <1>1 DEF ConnInv, ConnTypes
<1>10. received' \in Seq(Seq(Elem)) /\ FramesIntact'
  <2>1. CASE n = 0
    <3>1. received' = Append(received, <<>>) /\ <<>> \in Seq(Elem)
      BY <2>1, <1>8
    <3>2. <<>> = Conn!Bytes(R + 1, sent[R + 1]) /\ R < M
      BY <2>1, <1>0, <1>5, <1>6 DEF Conn!Bytes
    <3>. QED
      BY <3>1, <3>2, <1>0, <1>1, ReceiveIntact
  <2>2. CASE n # 0
    BY <2>2, <1>1, <1>8 DEF ConnInv, ConnTypes, FramesIntact, Conn!FramesIntact, Conn!Bytes
  <2>. QED
    BY <2>1, <2>2
<1>14. ConnTypes'
  BY <1>1, <1>8, <1>9, <1>10 DEF ConnInv, ConnTypes
<1>11. Writers'
  BY <1>1 DEF ConnInv, Writers
<1>12. Conn!Bytes(R + 1, 0) = <<>> /\ buffer = <<>>
  BY <1>1 DEF Conn!Bytes, ConnInv, Reader
<1>13. Reader'
  BY <1>0, <1>1, <1>5, <1>6, <1>8, <1>12 DEF Reader
<1>15. Position(off)' = Position(off) + 1
  <2>1. PICK a \in Nat : a = off[R + 1]
    BY <1>0, <1>2, <1>3, ReceivedInRange DEF Underway, Offsets
  <2>2. CASE n = 0
    <3>1. off[(R + 1) + 1] = a + n + 1
      BY <2>1, <1>0, <1>2, <1>3, <1>5, <1>6 DEF Underway, Offsets
    <3>2. Len(received') = R + 1
      BY <2>2, <1>0, <1>8 DEF ConnInv, ConnTypes
    <3>. QED
      BY <2>1, <2>2, <3>1, <3>2, <1>3, <1>8 DEF Position
  <2>3. CASE n # 0
    BY <2>1, <2>3, <1>0, <1>3, <1>8, <1>12 DEF Position
  <2>. QED
    BY <2>2, <2>3
<1>16. Underway(off)'
  BY <1>0, <1>1, <1>2, <1>4, <1>9, <1>15, TakeUnderway
<1>. QED
  BY <1>10, <1>11, <1>13, <1>14, <1>16 DEF ConnInv, Stream

\* Some of the bytes of the message are read, perhaps the last ones.
LEMMA ReadBytesInv == ASSUME ConnInv, Conn!ReadBytes PROVE ConnInv'
<1>0. PICK M \in Nat, L \in Nat, R \in Nat, B \in Nat :
        M = Len(sent) /\ L = Len(wire) /\ R = Len(received) /\ B = Len(buffer)
  BY DEF ConnInv, ConnTypes
<1>1. /\ reading = "bytes" /\ total' = total /\ sendMutex' = sendMutex
      /\ length' = length /\ writing' = writing /\ sent' = sent /\ broken' = broken
  BY DEF Conn!ReadBytes, Conn!sendVars
<1>2. R < M /\ buffer = Conn!Bytes(R + 1, B) /\ total = sent[R + 1] /\ B < total
  BY <1>0, <1>1 DEF ConnInv, Reader
<1>3. PICK t \in Nat : t = total /\ t = sent[R + 1] /\ B < t
  <2>1. R + 1 \in 1..M
    BY <1>0, <1>2
  <2>2. sent[R + 1] \in Nat
    BY <2>1, <1>0 DEF ConnInv, ConnTypes
  <2>. QED
    BY <2>2, <1>2
<1>4. PICK n, got :
        /\ n \in 1..Conn!Room /\ n <= Len(wire)
        /\ got = buffer \o SubSeq(wire, 1, n)
        /\ wire' = SubSeq(wire, n + 1, Len(wire))
        /\ IF Len(got) = total
           THEN received' = Append(received, got) /\ reading' = "size" /\ buffer' = <<>>
           ELSE buffer' = got /\ reading' = reading /\ received' = received
  BY DEF Conn!ReadBytes, Conn!Complete, Conn!Receives
<1>5. n \in Nat /\ n > 0 /\ n <= L /\ B + n <= t
  BY <1>0, <1>3, <1>4 DEF Conn!Room
<1>6. PICK off : Underway(off)
  BY <1>1 DEF ConnInv, Stream
<1>7. PICK a \in Nat : a = off[R + 1]
  BY <1>0, <1>6, ReceivedInRange DEF Underway, Offsets
<1>8. Position(off) = off[R + 1] + (B + 1)
  BY <1>0, <1>1 DEF Position
<1>9. \A i \in 1..n : wire[i] = [msg |-> R + 1, pos |-> B + i]
  <2>1. PICK m \in Nat : m = R + 1
    BY <1>0
  <2>2. 1 <= m /\ m <= M
    BY <2>1, <1>0, <1>2
  <2>3. B + n <= sent[m]
    BY <2>1, <1>0, <1>3, <1>5
  <2>7. PICK x \in Nat : x = Position(off) /\ x = off[m] + (B + 1)
    BY <2>1, <1>0, <1>6, <1>8, ReceivedInRange DEF Underway
  <2>4. Offsets(off, sent, M) /\ Contents(off, sent, M, wire, L, x)
    BY <2>7, <1>0, <1>6 DEF Underway
  <2>5. m \in Nat /\ B \in Nat /\ n \in Nat /\ L \in Nat /\ M \in Nat /\ n <= L
    BY <2>1, <1>0, <1>5
  <2>6. BytesFrom(wire, m, B, n)
    BY <2>2, <2>3, <2>4, <2>5, <2>7, ContentsAtBytes, Zenon
  <2>. QED
    BY <2>1, <2>6 DEF BytesFrom
<1>10. /\ SubSeq(wire, 1, n) \in Seq(Elem) /\ Len(SubSeq(wire, 1, n)) = n
       /\ \A i \in 1..n : SubSeq(wire, 1, n)[i] = wire[i]
  BY <1>0, <1>5 DEF ConnInv, ConnTypes
<1>11. /\ wire' \in Seq(Elem) /\ Len(wire') = L - n
       /\ \A i \in 1..(L - n) : wire'[i] = wire[n + i]
  <2>1. wire \in Seq(Elem) /\ wire' = SubSeq(wire, n + 1, L)
    BY <1>0, <1>4 DEF ConnInv, ConnTypes
  <2>2. wire' \in Seq(Elem)
    BY <2>1, <1>0, <1>5
  <2>3. Len(wire') = L - n
    BY <2>1, <1>0, <1>5
  <2>4. \A i \in 1..(L - n) : wire'[i] = wire[n + i]
    BY <2>1, <1>0, <1>5
  <2>. QED
    BY <2>2, <2>3, <2>4
<1>12. /\ got \in Seq(Elem) /\ Len(got) = B + n
       /\ \A i \in 1..(B + n) : got[i] = [msg |-> R + 1, pos |-> i]
  <2>1. PICK u \in Seq(Elem), v \in Seq(Elem) : u = buffer /\ v = SubSeq(wire, 1, n)
    BY <1>10 DEF ConnInv, ConnTypes
  <2>2. /\ u \o v \in Seq(Elem) /\ Len(u \o v) = Len(u) + Len(v)
        /\ \A i \in 1..(Len(u) + Len(v)) :
             (u \o v)[i] = IF i <= Len(u) THEN u[i] ELSE v[i - Len(u)]
    BY ConcatProperties, Zenon
  <2>3. got = u \o v /\ Len(u) = B /\ Len(v) = n
    BY <2>1, <1>0, <1>4, <1>10
  <2>4. \A i \in 1..B : u[i] = [msg |-> R + 1, pos |-> i]
    BY <2>1, <1>2 DEF Conn!Bytes
  <2>5. \A i \in 1..n : v[i] = [msg |-> R + 1, pos |-> B + i]
    BY <2>1, <1>9, <1>10
  <2>6. ASSUME NEW i \in 1..(B + n) PROVE got[i] = [msg |-> R + 1, pos |-> i]
    <3>1. got[i] = IF i <= B THEN u[i] ELSE v[i - B]
      BY <2>2, <2>3
    <3>2. CASE i <= B
      <4>1. i \in 1..B
        BY <3>2, <1>0, <1>5
      <4>. QED
        BY <3>1, <3>2, <4>1, <2>4
    <3>3. CASE ~(i <= B)
      <4>1. i - B \in 1..n /\ B + (i - B) = i
        BY <3>3, <1>0, <1>5
      <4>2. v[i - B] = [msg |-> R + 1, pos |-> B + (i - B)]
        BY <4>1, <2>5
      <4>. QED
        BY <3>1, <3>3, <4>1, <4>2
    <3>. QED
      BY <3>2, <3>3
  <2>. QED
    BY <2>2, <2>3, <2>6
<1>13. got = Conn!Bytes(R + 1, B + n)
  <2>1. PICK g : g = Conn!Bytes(R + 1, B + n)
    OBVIOUS
  <2>2. /\ g = [i \in 1..(B + n) |-> [msg |-> R + 1, pos |-> i]]
        /\ got = [i \in 1..(B + n) |-> got[i]]
    BY <2>1, <1>12 DEF Conn!Bytes
  <2>. QED
    BY <2>1, <2>2, <1>12
<1>14. Writers'
  BY <1>1 DEF ConnInv, Writers
<1>15. CASE B + n = t
  <2>1. received' = Append(received, got) /\ reading' = "size" /\ buffer' = <<>>
    BY <1>3, <1>4, <1>12, <1>15
  <2>2. got = Conn!Bytes(R + 1, sent[R + 1])
    BY <1>3, <1>13, <1>15
  <2>3. FramesIntact' /\ received' \in Seq(Seq(Elem)) /\ Len(received') = R + 1
    BY <2>1, <2>2, <1>0, <1>1, <1>2, <1>12, ReceiveIntact
  <2>4. ConnTypes'
    BY <2>1, <2>3, <1>1, <1>11 DEF ConnInv, ConnTypes
  <2>5. Reader'
    BY <2>1 DEF Reader
  <2>6. Position(off)' = Position(off) + n
    <3>1. R + 1 \in 1..M
      BY <1>0, <1>2
    <3>2. off[(R + 1) + 1] = off[R + 1] + sent[R + 1] + 1
      BY <3>1, <1>0, <1>6 DEF Underway, Offsets
    <3>3. off[(R + 1) + 1] = a + t + 1
      BY <3>2, <1>3, <1>7
    <3>4. a + t + 1 = (a + (B + 1)) + n
      BY <1>0, <1>5, <1>7, <1>15
    <3>5. a + t + 1 \in Nat
      BY <1>7, <1>3
    <3>6. Position(off)' = a + t + 1
      BY <3>3, <3>5, <2>1, <2>3 DEF Position
    <3>. QED
      BY <3>4, <3>6, <1>7, <1>8
  <2>7. Underway(off)'
    BY <2>6, <1>0, <1>1, <1>5, <1>6, <1>11, TakeUnderway
  <2>. QED
    BY <2>3, <2>4, <2>5, <2>7, <1>14 DEF ConnInv, Stream
<1>16. CASE B + n # t
  <2>1. received' = received /\ reading' = reading /\ buffer' = got
    BY <1>3, <1>4, <1>12, <1>16
  <2>2. FramesIntact'
    BY <2>1, <1>1 DEF ConnInv, FramesIntact, Conn!FramesIntact, Conn!Bytes
  <2>3. ConnTypes'
    BY <2>1, <1>1, <1>11, <1>12 DEF ConnInv, ConnTypes
  <2>4. B + n < t
    BY <1>0, <1>3, <1>5, <1>16
  <2>5. Reader'
    <3>1. Len(buffer') = B + n /\ buffer' = Conn!Bytes(R + 1, B + n)
      BY <2>1, <1>12, <1>13
    <3>. QED
      BY <3>1, <2>1, <2>4, <1>0, <1>1, <1>2, <1>3 DEF Reader, Conn!Bytes
  <2>6. Position(off)' = Position(off) + n
    <3>1. Position(off)' = off[R + 1] + (B + n + 1)
      BY <2>1, <1>0, <1>1, <1>12 DEF Position
    <3>3. a \in Nat /\ B \in Nat /\ n \in Nat
      BY <1>0, <1>5, <1>7
    <3>2. a + (B + n + 1) = (a + (B + 1)) + n
      BY <3>3
    <3>. QED
      BY <3>1, <3>2, <1>7, <1>8
  <2>7. Underway(off)'
    BY <2>6, <1>0, <1>1, <1>5, <1>6, <1>11, TakeUnderway
  <2>. QED
    BY <2>2, <2>3, <2>5, <2>7, <1>14 DEF ConnInv, Stream
<1>. QED
  BY <1>15, <1>16

\* The reader stops, or the connection breaks.
LEMMA BreakInv == ASSUME ConnInv, Conn!ReadFails \/ Conn!Break PROVE ConnInv'
<1>1. /\ reading' \in {reading, "stopped"} /\ broken' = TRUE /\ total' = total
      /\ buffer' = buffer /\ received' = received /\ wire' = wire
      /\ sendMutex' = sendMutex /\ length' = length /\ writing' = writing /\ sent' = sent
  BY DEF Conn!ReadFails, Conn!Break, Conn!sendVars, Conn!readVars
<1>2. ConnTypes'
  BY <1>1 DEF ConnInv, ConnTypes
<1>3. Writers'
  BY <1>1 DEF ConnInv, Writers
<1>4. Reader' /\ FramesIntact'
  BY <1>1 DEF ConnInv, Reader, FramesIntact, Conn!FramesIntact, Conn!Bytes
<1>5. ASSUME NEW off, Underway(off), reading' = reading PROVE Underway(off)'
  BY <1>1, <1>5 DEF Underway, Position, BytesAwaited
<1>6. Stream'
  BY <1>1, <1>5 DEF ConnInv, Stream
<1>. QED
  BY <1>2, <1>3, <1>4, <1>6 DEF ConnInv

\* Every step of the connection keeps its invariant.
LEMMA ConnNextInv == ASSUME LengthsFit, ConnInv, Conn!Next PROVE ConnInv'
BY SendStartInv, WriteSizeInv, WriteBytesInv, WriteFailsInv, ReadSizeInv, ReadBytesInv, BreakInv
   DEF Conn!Next, Conn!SendGoes, Conn!ReadGoes

\* A step that leaves the connection alone.
LEMMA ConnUnchangedInv == ASSUME ConnInv, UNCHANGED connVars PROVE ConnInv'
BY DEF ConnInv, ConnTypes, Writers, Reader, FramesIntact, Conn!FramesIntact, Conn!Bytes,
       Stream, Underway, Position, BytesAwaited, connVars

-----------------------------------------------------------------------------
(***************************************************************************)
(* The host.                                                               *)
(***************************************************************************)

\* Every step of the host keeps the listener's invariant.
LEMMA HostListenerInv == HostSpec => []ListenerInv
<1>1. HostInit => ListenerInv
  BY ListenerInitInv DEF HostInit
<1>2. ListenerInv /\ [HostNext]_hostVars => ListenerInv'
  BY ListenerNextInv, ListenerUnchangedInv DEF HostNext, ListenerStep, ConnStep, hostVars
<1>. QED
  BY <1>1, <1>2, PTL DEF HostSpec

\* Once a Stop has returned nil, no Listen is in its loop, however Listen and Stop are
\* called; only of two Listens at once may one be left (TCPListener.Stop).
THEOREM NoLoopCorrect == HostSpec => []NoLoopAfterStop
BY HostListenerInv, ListenerInvNoLoop, PTL

\* However often Stop is called, and with whatever else, it closes a closed quit only
\* after a Stop has returned the error of closing the socket (TCPListener.Stop).
THEOREM NoPanicCorrect == HostSpec => []NoPanic
<1>1. ListenerInv => NoPanic
  BY DEF ListenerInv
<1>. QED
  BY <1>1, HostListenerInv, PTL

\* What is received is what was sent, message by message and byte by byte, for any number
\* of senders and of messages below 2^32 bytes, whatever pieces the bytes come in and
\* wherever the connection breaks (sendRaw, receiveRaw).
THEOREM FramesCorrect == ASSUME LengthsFit PROVE HostSpec => []FramesIntact
<1>1. HostInit => ConnInv
  BY ConnInitInv DEF HostInit
<1>2. ConnInv /\ [HostNext]_hostVars => ConnInv'
  BY ConnNextInv, ConnUnchangedInv DEF HostNext, ListenerStep, ConnStep, hostVars
<1>3. ConnInv => FramesIntact
  BY DEF ConnInv
<1>. QED
  BY <1>1, <1>2, <1>3, PTL DEF HostSpec

-----------------------------------------------------------------------------
(***************************************************************************)
(* Types, and where the goroutines come to rest: the safety halves of      *)
(* StopReturns and FrameReceived.                                          *)
(***************************************************************************)

\* The listener keeps its types, for any number of calls of Listen and Stop.
THEOREM ListenerTypes == HostSpec => []TypeOK
<1>1. ListenerInv => TypeOK
  BY DEF ListenerInv
<1>. QED
  BY <1>1, HostListenerInv, PTL

\* A Stop that waits has closed quit and the socket, and a Listen is in its loop, which
\* therefore gets to its confirmation and nowhere else.
WaitIsAnswered ==
  /\ listening => \E l \in Listens : InLoop(l)
  /\ \A s \in Stops : stop[s] = "wait" => listening /\ ~socket
  /\ \A s \in Stops : stop[s] \in {"socket", "wait"} => quit

\* Nobody listens and nobody waits at first.
LEMMA WaitInit == Init => WaitIsAnswered
BY DEF Init, WaitIsAnswered

\* Only a confirmation takes a Listen out of its loop, and it ends the waiting.
LEMMA WaitNext == ASSUME ListenerInv, WaitIsAnswered, Next PROVE WaitIsAnswered'
<1>. USE DEF ListenerInv, TypeOK
<1>1. ASSUME NEW l \in Listens, Listen(l) PROVE WaitIsAnswered'
  <2>1. \A k \in Listens : k # l => (InLoop(k)' <=> InLoop(k))
    BY <1>1 DEF Listen, InLoop
  <2>2. listening' => listening \/ InLoop(l)'
    BY <1>1 DEF Listen, InLoop
  <2>3. InLoop(l) => InLoop(l)'
    BY <1>1 DEF Listen, InLoop
  <2>4. listening' => \E k \in Listens : InLoop(k)'
    BY <2>1, <2>2, <2>3 DEF WaitIsAnswered
  <2>5. stop' = stop /\ quit' = quit /\ socket' = socket /\ (listening => listening')
    BY <1>1 DEF Listen
  <2>. QED
    BY <2>4, <2>5 DEF WaitIsAnswered
<1>2. ASSUME NEW l \in Listens, Accept(l) \/ AcceptFails(l) \/ Select(l) PROVE WaitIsAnswered'
  <2>1. \A k \in Listens : InLoop(k)' <=> InLoop(k)
    BY <1>2 DEF Accept, AcceptFails, Select, InLoop
  <2>2. UNCHANGED <<listening, stop, quit, socket>>
    BY <1>2 DEF Accept, AcceptFails, Select
  <2>. QED
    BY <2>1, <2>2 DEF WaitIsAnswered
<1>3. ASSUME NEW s \in Stops, StopStart(s) \/ StopFails(s) PROVE WaitIsAnswered'
  <2>1. UNCHANGED <<listening, socket, loop>> /\ (quit => quit')
    BY <1>3 DEF StopStart, StopFails, Returns
  <2>2. \A r \in Stops : stop'[r] = "wait" => stop[r] = "wait"
    BY <1>3 DEF StopStart, StopFails, Returns
  <2>3. \A r \in Stops : stop'[r] = "socket" => stop[r] = "socket" \/ quit'
    BY <1>3 DEF StopStart, StopFails, Returns
  <2>. QED
    BY <2>1, <2>2, <2>3 DEF WaitIsAnswered, InLoop
<1>4. ASSUME NEW s \in Stops, StopSocket(s), listening PROVE WaitIsAnswered'
  <2>1. UNCHANGED <<listening, quit, loop>> /\ socket' = FALSE
    BY <1>4 DEF StopSocket
  <2>2. \A r \in Stops : stop'[r] = "wait" => r = s \/ stop[r] = "wait"
    BY <1>4 DEF StopSocket
  <2>3. quit
    BY <1>4 DEF StopSocket, WaitIsAnswered
  <2>. QED
    BY <1>4, <2>1, <2>2, <2>3 DEF WaitIsAnswered, InLoop
<1>5. ASSUME NEW s \in Stops, Finish(s), stop[s] \in {"socket", "wait"} PROVE WaitIsAnswered'
  <2>1. \A r \in Stops : stop[r] \in {"socket", "wait"} => r = s
    BY <1>5 DEF Listening
  <2>2. \A r \in Stops : stop'[r] \notin {"socket", "wait"}
    BY <1>5, <2>1 DEF Finish, Returns
  <2>. QED
    BY <1>5, <2>2 DEF WaitIsAnswered, Finish
<1>. QED
  BY <1>1, <1>2, <1>3, <1>4, <1>5 DEF Next, StopGoes, StopSocket, StopConfirmed

\* Every Stop that waits is answered.
LEMMA HostWait == HostSpec => []WaitIsAnswered
<1>1. HostInit => WaitIsAnswered
  BY WaitInit DEF HostInit
<1>2. ListenerInv /\ WaitIsAnswered /\ [HostNext]_hostVars => WaitIsAnswered'
  <2>1. ASSUME WaitIsAnswered, UNCHANGED vars PROVE WaitIsAnswered'
    BY <2>1 DEF WaitIsAnswered, InLoop, vars
  <2>. QED
    BY <2>1, WaitNext DEF HostNext, ListenerStep, ConnStep, hostVars
<1>. QED
  BY <1>1, <1>2, HostListenerInv, PTL DEF HostSpec

\* No Listen and no Stop has a step to take by itself.
ListenerAtRest ==
  /\ \A l \in Listens : loop[l] # "select" /\ (loop[l] = "accept" => socket)
  /\ \A s \in Stops :
       stop[s] # "socket" /\ (stop[s] = "wait" => \A l \in Listens : loop[l] # "confirm")

\* For any calls of Listen and Stop, at once or one after the other: while a Stop waits,
\* quit and the socket are closed and there is a Listen to confirm; and once nobody can
\* go on by himself, every Stop that was called has returned and the lock is free for the
\* next one (TCPListener.Stop, listen).
THEOREM StopAnswered ==
  HostSpec => []( /\ WaitIsAnswered
                  /\ ListenerAtRest => lock = None /\ \A s \in Stops : stop[s] \in {"new", "returned"} )
<1>1. ASSUME ListenerInv, WaitIsAnswered, ListenerAtRest
      PROVE  lock = None /\ \A s \in Stops : stop[s] \in {"new", "returned"}
  <2>1. ASSUME NEW s \in Stops PROVE stop[s] \in {"new", "returned"}
    <3>1. stop[s] # "wait"
      BY <1>1 DEF WaitIsAnswered, ListenerAtRest, InLoop
    <3>. QED
      BY <1>1, <3>1 DEF ListenerAtRest, ListenerInv, TypeOK
  <2>2. lock = None
    BY <1>1, <2>1 DEF ListenerInv, TypeOK
  <2>. QED
    BY <2>1, <2>2
<1>. QED
  BY <1>1, HostListenerInv, HostWait, PTL

\* Neither who sends nor who reads has a step to take by itself.
ConnAtRest ==
  /\ \A s \in Sender : writing[s] = "idle"
  /\ reading \in {"size", "bytes"} => wire = <<>>

\* A reader that has given up has closed the connection.
GaveUp == reading = "stopped" => broken

\* No step mends a connection.
LEMMA GaveUpNext == ASSUME GaveUp, Conn!Next PROVE GaveUp'
<1>1. ASSUME NEW s \in Sender, Conn!SendGoes(s) \/ \E k \in Length : Conn!SendStart(s, k)
      PROVE  GaveUp'
  BY <1>1 DEF GaveUp, Conn!SendGoes, Conn!WriteSize, Conn!WriteBytes, Conn!WriteFails,
     Conn!SendStart, Conn!readVars
<1>2. CASE Conn!ReadGoes
  BY <1>2 DEF GaveUp, Conn!ReadGoes, Conn!ReadSize, Conn!ReadBytes, Conn!Receives
<1>3. CASE Conn!ReadFails \/ Conn!Break
  BY <1>3 DEF GaveUp, Conn!ReadFails, Conn!Break
<1>. QED
  BY <1>1, <1>2, <1>3 DEF Conn!Next

\* A stream of more than R messages does not end before or in message R + 1.
LEMMA StreamEnd ==
  ASSUME NEW M \in Nat, NEW R \in Nat, R < M, NEW len, NEW off, Offsets(off, len, M),
         NEW b \in Nat, b <= len[R + 1]
  PROVE  off[R + 1] + b # off[M + 1]
<1>1. R + 1 \in 1..M /\ M + 1 \in 1..(M + 1) /\ R + 1 < M + 1
  OBVIOUS
<1>2. off[R + 1] + len[R + 1] < off[M + 1] /\ len[R + 1] \in Nat
  BY <1>1 DEF Offsets
<1>3. off[R + 1] \in Nat /\ off[M + 1] \in Nat
  BY <1>1 DEF Offsets
<1>. QED
  BY <1>2, <1>3

\* With nothing under way, the reader is at the end of the stream.
LEMMA RestReceived == ASSUME ConnInv, GaveUp, ConnAtRest PROVE broken \/ Len(received) = Len(sent)
<1>. SUFFICES ASSUME ~broken, Len(received) # Len(sent) PROVE FALSE
  OBVIOUS
<1>1. reading \in {"size", "bytes"} /\ wire = <<>> /\ ~BytesAwaited
  BY DEF ConnInv, ConnTypes, GaveUp, ConnAtRest, BytesAwaited
<1>2. PICK off : Underway(off)
  BY <1>1 DEF ConnInv, Stream
<1>3. PICK M \in Nat, R \in Nat : M = Len(sent) /\ R = Len(received) /\ R < M
  BY DEF ConnInv, ConnTypes, FramesIntact, Conn!FramesIntact
<1>4. Len(wire) = 0 /\ Offsets(off, sent, M) /\ off[R + 1] \in Nat /\ sent[R + 1] \in Nat
  BY <1>1, <1>2, <1>3 DEF Underway, Offsets
<1>5. Position(off) + 0 = off[M + 1]
  BY <1>1, <1>2, <1>3, <1>4 DEF Underway
<1>6. \A b \in Nat : b <= sent[R + 1] => off[R + 1] + b # off[M + 1]
  <2>1. R < M /\ Offsets(off, sent, M)
    BY <1>3, <1>4
  <2>. QED
    BY <2>1, StreamEnd, Zenon
<1>7. CASE reading = "size"
  <2>1. off[R + 1] + 0 = off[M + 1]
    BY <1>3, <1>4, <1>5, <1>7 DEF Position
  <2>. QED
    BY <1>4, <1>6, <2>1
<1>8. CASE reading = "bytes"
  <2>1. PICK b \in Nat : b = Len(buffer) + 1 /\ b <= sent[R + 1]
    BY <1>3, <1>4, <1>8 DEF ConnInv, ConnTypes, Reader
  <2>2. off[R + 1] + b = off[M + 1]
    BY <1>3, <1>4, <1>5, <1>8, <2>1 DEF Position
  <2>. QED
    BY <1>6, <2>1, <2>2
<1>. QED
  BY <1>1, <1>7, <1>8

\* For any senders and messages below 2^32 bytes: once nobody writes and nothing is left to
\* read, every message whose size was written has been received, unless the connection
\* is broken; the reader never waits for bytes that no sender is to write (sendRaw,
\* receiveRaw).
THEOREM AllReceived ==
  ASSUME LengthsFit PROVE HostSpec => [](ConnAtRest => broken \/ Len(received) = Len(sent))
<1>1. HostInit => ConnInv /\ GaveUp
  BY ConnInitInv DEF HostInit, GaveUp, Conn!Init
<1>2. ConnInv /\ GaveUp /\ [HostNext]_hostVars => ConnInv' /\ GaveUp'
  <2>1. ASSUME GaveUp, UNCHANGED connVars PROVE GaveUp'
    BY <2>1 DEF GaveUp, connVars
  <2>. QED
    BY <2>1, GaveUpNext, ConnNextInv, ConnUnchangedInv
    DEF HostNext, ListenerStep, ConnStep, hostVars
<1>3. ConnInv /\ GaveUp => (ConnAtRest => broken \/ Len(received) = Len(sent))
  BY RestReceived
<1>. QED
  BY <1>1, <1>2, <1>3, PTL DEF HostSpec

-----------------------------------------------------------------------------
(***************************************************************************)
(* The types of the connection, messages of any length included.           *)
(***************************************************************************)

\* What may be under way: sizes have the width of Size.
Unit == Conn!Byte \cup [size : 0..(SizeMod - 1)]

\* Who sends has sendMutex, and has been counted when the size is written.
Turns == \A s \in Sender :
  /\ writing[s] # "idle" <=> sendMutex = s
  /\ writing[s] = "size" => Len(sent) < MaxSends /\ length[s] \in Length
  /\ writing[s] = "bytes" => Len(sent) > 0

\* The inductive invariant.
ConnTyped ==
  /\ Conn!TypeOK
  /\ wire \in Seq(Unit)
  /\ reading = "size" => buffer = <<>>
  /\ Turns

\* What is under way may be read.
LEMMA Units ==
  /\ \A q \in Seq(Unit) : q \in Seq(Conn!Byte \cup Conn!SizeWord)
  /\ \A x \in Unit : \A k \in Conn!SizeRead(x) : k \in 0..(SizeMod - 1)
<1>1. Unit \subseteq Conn!Byte \cup Conn!SizeWord
  BY TCPConnAssumption DEF Unit, Conn!SizeWord
<1>2. \A q \in Seq(Unit) : q \in Seq(Conn!Byte \cup Conn!SizeWord)
  BY <1>1
<1>3. ASSUME NEW x \in Conn!Byte PROVE ~Conn!IsSize(x)
  BY <1>3 DEF Conn!Byte, Conn!IsSize
<1>4. ASSUME NEW x \in [size : 0..(SizeMod - 1)] PROVE x.size \in 0..(SizeMod - 1)
  BY <1>4
<1>5. ASSUME NEW x \in Unit, NEW k \in Conn!SizeRead(x) PROVE k \in 0..(SizeMod - 1)
  BY <1>3, <1>4, <1>5 DEF Unit, Conn!SizeRead
<1>. QED
  BY <1>2, <1>5

\* The bytes of a message that has been counted.
LEMMA ByteUnits ==
  ASSUME NEW m \in 1..MaxSends, NEW k \in Nat PROVE Conn!Bytes(m, k) \in Seq(Unit)
<1>1. \A i \in 1..k : [msg |-> m, pos |-> i] \in Unit
  BY DEF Unit, Conn!Byte
<1>. QED
  BY <1>1 DEF Conn!Bytes

\* The first units of a sequence, and the others.
LEMMA UnitParts ==
  ASSUME NEW q \in Seq(Unit), NEW k \in 1..Len(q)
  PROVE  /\ SubSeq(q, 1, k) \in Seq(Unit) /\ Len(SubSeq(q, 1, k)) = k
         /\ SubSeq(q, k + 1, Len(q)) \in Seq(Unit)
OBVIOUS

\* Nothing has been sent at first.
LEMMA ConnTypedInit == Conn!Init => ConnTyped
<1>. SUFFICES ASSUME Conn!Init PROVE ConnTyped
  OBVIOUS
<1>1. /\ sendMutex = None /\ length = [s \in Sender |-> 0] /\ wire = <<>> /\ broken = FALSE
      /\ writing = [s \in Sender |-> "idle"] /\ reading = "size" /\ buffer = <<>>
      /\ sent = <<>> /\ received = <<>> /\ tx = 0 /\ rx = 0 /\ total = 0
  BY DEF Conn!Init
<1>2. \A S : <<>> \in Seq(S) /\ Len(<<>>) = 0
  OBVIOUS
<1>3. 0 \in 0..(SizeMod - 1) /\ 0 <= MaxSends /\ None \notin Sender
  BY TCPConnAssumption
<1>4. Turns
  BY <1>1, <1>3 DEF Turns
<1>5. Conn!TypeOK
  <2>1. /\ sendMutex \in Sender \cup {None} /\ length \in [Sender -> Length \cup {0}]
        /\ writing \in [Sender -> {"idle", "size", "bytes"}]
        /\ tx \in Nat /\ rx \in Nat /\ broken \in BOOLEAN
        /\ reading \in {"size", "bytes", "stopped"} /\ total \in 0..(SizeMod - 1)
    BY <1>1, <1>3
  <2>2. /\ wire \in Seq(Conn!Byte \cup Conn!SizeWord) /\ buffer \in Seq(Conn!Byte \cup Conn!SizeWord)
        /\ sent \in Seq(Length) /\ received \in Seq(Seq(Conn!Byte \cup Conn!SizeWord))
    BY <1>1, <1>2
  <2>3. Len(buffer) <= total /\ Len(sent) <= MaxSends
    BY <1>1, <1>2, <1>3
  <2>. QED
    BY <2>1, <2>2, <2>3 DEF Conn!TypeOK
<1>. QED
  BY <1>1, <1>2, <1>4, <1>5 DEF ConnTyped

\* A message whose encoding has any number of bytes is sent, or is not.
LEMMA SendTyped ==
  ASSUME ConnTyped, NEW s \in Sender, Conn!SendGoes(s) \/ \E k \in Length : Conn!SendStart(s, k)
  PROVE  ConnTyped'
<1>0. None \notin Sender /\ MaxSends \in Nat
  BY TCPConnAssumption
<1>1. /\ sendMutex \in Sender \cup {None} /\ length \in [Sender -> Length \cup {0}]
      /\ writing \in [Sender -> {"idle", "size", "bytes"}]
      /\ tx \in Nat /\ sent \in Seq(Length) /\ Len(sent) \in Nat /\ Len(sent) <= MaxSends
      /\ wire \in Seq(Unit)
  BY DEF ConnTyped, Conn!TypeOK
<1>2. length[s] \in Nat /\ Conn!PacketSize(s) \in 0..(SizeMod - 1)
  <2>1. length[s] \in Nat
    <3>1. length \in [Sender -> Length \cup {0}] /\ s \in Sender
      BY <1>1
    <3>2. length[s] \in Length \cup {0}
      BY <3>1
    <3>3. Length \subseteq Nat
      BY TCPConnAssumption
    <3>4. \A x : x \in Length \cup {0} => x \in Nat
      BY <3>3
    <3>. QED
      BY <3>2, <3>4
  <2>2. \A k \in Nat, m \in Nat : m # 0 => k % m \in 0..(m - 1)
    OBVIOUS
  <2>3. SizeMod \in Nat /\ SizeMod # 0
    BY TCPConnAssumption
  <2>4. Conn!PacketSize(s) = length[s] % SizeMod
    BY DEF Conn!PacketSize
  <2>. QED
    BY <2>1, <2>2, <2>3, <2>4
<1>3. UNCHANGED <<reading, total, buffer, rx, received, broken>>
  BY DEF Conn!SendGoes, Conn!SendStart, Conn!WriteSize, Conn!WriteBytes, Conn!WriteFails, Conn!readVars
<1>4. SUFFICES /\ sendMutex' \in Sender \cup {None} /\ length' \in [Sender -> Length \cup {0}]
               /\ writing' \in [Sender -> {"idle", "size", "bytes"}]
               /\ tx' \in Nat /\ sent' \in Seq(Length) /\ Len(sent') <= MaxSends
               /\ wire' \in Seq(Unit)
               /\ Turns'
  BY <1>3, Units DEF ConnTyped, Conn!TypeOK
<1>5. ASSUME NEW k \in Length, Conn!SendStart(s, k)
      PROVE  /\ sendMutex' \in Sender \cup {None} /\ length' \in [Sender -> Length \cup {0}]
             /\ writing' \in [Sender -> {"idle", "size", "bytes"}]
             /\ tx' \in Nat /\ sent' \in Seq(Length) /\ Len(sent') <= MaxSends
             /\ wire' \in Seq(Unit)
             /\ Turns'
  <2>1. /\ sendMutex = None /\ sendMutex' = s /\ length' = [length EXCEPT ![s] = k]
        /\ writing' = [writing EXCEPT ![s] = "size"] /\ Len(sent) < MaxSends
        /\ UNCHANGED <<tx, sent, wire>>
    BY <1>5 DEF Conn!SendStart, Conn!Free
  <2>2. Turns'
    BY <1>0, <1>1, <2>1 DEF ConnTyped, Turns
  <2>. QED
    BY <1>1, <2>1, <2>2
<1>6. CASE Conn!WriteSize(s)
  <2>1. /\ writing[s] = "size" /\ wire' = Append(wire, [size |-> Conn!PacketSize(s)])
        /\ sent' = Append(sent, length[s]) /\ UNCHANGED <<length, tx>>
        /\ \/ writing' = [writing EXCEPT ![s] = "idle"] /\ sendMutex' = None
           \/ writing' = [writing EXCEPT ![s] = "bytes"] /\ UNCHANGED sendMutex
    BY <1>6 DEF Conn!WriteSize, Conn!SendReturns
  <2>2. sendMutex = s /\ Len(sent) < MaxSends /\ \A r \in Sender : r # s => writing[r] = "idle"
    BY <1>1, <2>1 DEF ConnTyped, Turns
  <2>3. Len(sent') = Len(sent) + 1
    BY <1>1, <2>1
  <2>4. length[s] \in Length
    BY <2>1 DEF ConnTyped, Turns
  <2>5. Turns'
    BY <1>0, <1>1, <2>1, <2>2, <2>3 DEF Turns
  <2>6. wire' \in Seq(Unit)
    BY <1>1, <1>2, <2>1 DEF Unit
  <2>. QED
    <3>1. sent' \in Seq(Length) /\ Len(sent') <= MaxSends
      BY <1>0, <1>1, <2>1, <2>2, <2>3, <2>4
    <3>2. sendMutex' \in Sender \cup {None} /\ writing' \in [Sender -> {"idle", "size", "bytes"}]
      BY <1>1, <2>1
    <3>. QED
      BY <1>1, <2>1, <2>5, <2>6, <3>1, <3>2
<1>7. CASE Conn!WriteBytes(s) \/ Conn!WriteFails(s)
  <2>1. /\ writing[s] # "idle" /\ UNCHANGED <<length, sent>>
        /\ writing' = [writing EXCEPT ![s] = "idle"] /\ sendMutex' = None
    BY <1>7 DEF Conn!WriteBytes, Conn!WriteFails, Conn!SendReturns
  <2>2. sendMutex = s /\ \A r \in Sender : r # s => writing[r] = "idle"
    BY <1>1, <2>1 DEF ConnTyped, Turns
  <2>3. Turns'
    BY <1>0, <1>1, <2>1, <2>2 DEF Turns
  <2>4. tx' \in Nat
    BY <1>1, <1>2, <1>7 DEF Conn!WriteBytes, Conn!WriteFails, Conn!CountTx
  <2>5. \/ wire' = wire
        \/ writing[s] = "bytes" /\ \E k \in Nat : wire' = wire \o Conn!Bytes(Len(sent), k)
    <3>1. CASE Conn!WriteBytes(s)
      BY <1>2, <3>1 DEF Conn!WriteBytes
    <3>2. CASE Conn!WriteFails(s)
      <4>1. 1..(length[s] - 1) \subseteq Nat
        BY <1>2
      <4>. QED
        BY <3>2, <4>1 DEF Conn!WriteFails
    <3>. QED
      BY <1>7, <3>1, <3>2
  <2>6. wire' \in Seq(Unit)
    <3>1. ASSUME NEW k \in Nat, writing[s] = "bytes" PROVE Conn!Bytes(Len(sent), k) \in Seq(Unit)
      <4>1. Len(sent) \in 1..MaxSends
        BY <1>0, <1>1, <3>1 DEF ConnTyped, Turns
      <4>. QED
        BY <4>1, ByteUnits
    <3>2. CASE wire' = wire
      BY <1>1, <3>2
    <3>3. ASSUME NEW k \in Nat, writing[s] = "bytes", wire' = wire \o Conn!Bytes(Len(sent), k)
          PROVE  wire' \in Seq(Unit)
      <4>1. Conn!Bytes(Len(sent), k) \in Seq(Unit)
        BY <3>1, <3>3
      <4>2. \A S : \A q, u \in Seq(S) : q \o u \in Seq(S)
        OBVIOUS
      <4>. QED
        BY <1>1, <3>3, <4>1, <4>2
    <3>. QED
      BY <2>5, <3>2, <3>3
  <2>. QED
    BY <1>1, <2>1, <2>3, <2>4, <2>6
<1>. QED
  BY <1>5, <1>6, <1>7 DEF Conn!SendGoes

\* Sequences of sequences, and the empty one.
LEMMA Emptied ==
  ASSUME NEW S
  PROVE  /\ <<>> \in Seq(S) /\ Len(<<>>) = 0
         /\ \A q \in Seq(Seq(S)), u \in Seq(S) : Append(q, u) \in Seq(Seq(S))
         /\ \A q, u \in Seq(S) : q \o u \in Seq(S) /\ Len(q \o u) = Len(q) + Len(u)
<1>1. <<>> \in Seq(S) /\ Len(<<>>) = 0
  OBVIOUS
<1>2. ASSUME NEW T PROVE \A q \in Seq(T), u \in T : Append(q, u) \in Seq(T)
  OBVIOUS
<1>3. \A q, u \in Seq(S) : q \o u \in Seq(S) /\ Len(q \o u) = Len(q) + Len(u)
  OBVIOUS
<1>. QED
  BY <1>1, <1>2, <1>3

\* Whatever pieces a message is read in.
LEMMA ReadTyped ==
  ASSUME ConnTyped, Conn!ReadGoes \/ Conn!ReadFails \/ Conn!Break
  PROVE  ConnTyped'
<1>0. SizeMod \in Nat \ {0}
  BY TCPConnAssumption
<1>1. /\ wire \in Seq(Unit) /\ total \in 0..(SizeMod - 1) /\ rx \in Nat
      /\ buffer \in Seq(Conn!Byte \cup Conn!SizeWord) /\ Len(buffer) <= total
      /\ reading \in {"size", "bytes", "stopped"} /\ (reading = "size" => buffer = <<>>)
      /\ received \in Seq(Seq(Conn!Byte \cup Conn!SizeWord)) /\ broken \in BOOLEAN
  BY DEF ConnTyped, Conn!TypeOK
<1>2. UNCHANGED <<sendMutex, length, writing, tx, sent>>
  BY DEF Conn!ReadGoes, Conn!ReadSize, Conn!ReadBytes, Conn!ReadFails, Conn!Break, Conn!sendVars
<1>3. SUFFICES /\ wire' \in Seq(Unit) /\ total' \in 0..(SizeMod - 1) /\ rx' \in Nat
               /\ buffer' \in Seq(Conn!Byte \cup Conn!SizeWord) /\ Len(buffer') <= total'
               /\ reading' \in {"size", "bytes", "stopped"} /\ (reading' = "size" => buffer' = <<>>)
               /\ received' \in Seq(Seq(Conn!Byte \cup Conn!SizeWord)) /\ broken' \in BOOLEAN
  BY <1>2, Units DEF ConnTyped, Conn!TypeOK, Turns
<1>4. CASE Conn!ReadSize
  <2>1. PICK k \in Conn!SizeRead(Head(wire)) :
          /\ total' = k
          /\ IF k = 0 THEN Conn!Receives(<<>>)
                      ELSE reading' = "bytes" /\ UNCHANGED <<buffer, rx, received>>
    BY <1>4 DEF Conn!ReadSize
  <2>2. /\ reading = "size" /\ wire # <<>> /\ wire' = Tail(wire) /\ UNCHANGED broken
    BY <1>4 DEF Conn!ReadSize
  <2>3. Head(wire) \in Unit /\ wire' \in Seq(Unit)
    BY <1>1, <2>2
  <2>4. k \in 0..(SizeMod - 1)
    BY <2>3, Units
  <2>5. CASE k = 0
    <3>1. /\ received' = Append(received, <<>>) /\ rx' = rx + Len(<<>>)
          /\ reading' = "size" /\ buffer' = <<>> /\ total' = 0
      BY <2>1, <2>5 DEF Conn!Receives
    <3>2. received' \in Seq(Seq(Conn!Byte \cup Conn!SizeWord))
      BY <1>1, <3>1, Emptied
    <3>3. buffer' \in Seq(Conn!Byte \cup Conn!SizeWord) /\ Len(buffer') = 0
      BY <3>1, Emptied
    <3>. QED
      BY <1>0, <1>1, <2>2, <2>3, <2>4, <2>5, <3>1, <3>2, <3>3
  <2>6. CASE k # 0
    BY <1>0, <1>1, <2>1, <2>2, <2>3, <2>4, <2>6
  <2>. QED
    BY <2>5, <2>6
<1>5. CASE Conn!ReadBytes
  <2>1. PICK k \in 1..Conn!Room :
          /\ k <= Len(wire)
          /\ LET got == buffer \o SubSeq(wire, 1, k)
             IN  IF Conn!Complete(Len(got))
                 THEN Conn!Receives(got)
                 ELSE buffer' = got /\ UNCHANGED <<reading, rx, received>>
          /\ wire' = SubSeq(wire, k + 1, Len(wire))
    BY <1>5 DEF Conn!ReadBytes
  <2>2. reading = "bytes" /\ UNCHANGED <<total, broken>>
    BY <1>5 DEF Conn!ReadBytes
  <2>. DEFINE piece == SubSeq(wire, 1, k)
              got == buffer \o piece
  <2>3. k \in 1..Len(wire) /\ k + Len(buffer) <= total /\ Len(buffer) \in Nat /\ k \in Nat
    BY <1>1, <2>1 DEF Conn!Room
  <2>4. piece \in Seq(Unit) /\ Len(piece) = k /\ wire' \in Seq(Unit)
    BY <1>1, <2>1, <2>3, UnitParts
  <2>5. piece \in Seq(Conn!Byte \cup Conn!SizeWord)
    BY <2>4, Units
  <2>. HIDE DEF piece
  <2>6. got \in Seq(Conn!Byte \cup Conn!SizeWord) /\ Len(got) = Len(buffer) + k
    <3>1. \A q, u \in Seq(Conn!Byte \cup Conn!SizeWord) :
            /\ q \o u \in Seq(Conn!Byte \cup Conn!SizeWord)
            /\ Len(q \o u) = Len(q) + Len(u)
      BY Emptied, Zenon
    <3>. QED
      BY <1>1, <2>4, <2>5, <3>1
  <2>7. \/ Conn!Receives(got)
        \/ buffer' = got /\ UNCHANGED <<reading, rx, received>>
    BY <2>1 DEF piece
  <2>. HIDE DEF got
  <2>8. CASE Conn!Receives(got)
    <3>1. /\ received' = Append(received, got) /\ rx' = rx + Len(got)
          /\ reading' = "size" /\ buffer' = <<>>
      BY <2>8 DEF Conn!Receives
    <3>2. received' \in Seq(Seq(Conn!Byte \cup Conn!SizeWord))
      BY <1>1, <2>6, <3>1, Emptied
    <3>3. buffer' \in Seq(Conn!Byte \cup Conn!SizeWord) /\ Len(buffer') = 0
      BY <3>1, Emptied
    <3>. QED
      BY <1>1, <2>2, <2>3, <2>4, <2>6, <3>1, <3>2, <3>3
  <2>9. CASE buffer' = got /\ UNCHANGED <<reading, rx, received>>
    BY <1>1, <2>2, <2>3, <2>4, <2>6, <2>9
  <2>. QED
    BY <2>7, <2>8, <2>9
<1>6. CASE Conn!ReadFails
  BY <1>1, <1>6 DEF Conn!ReadFails
<1>7. CASE Conn!Break
  BY <1>1, <1>7 DEF Conn!Break, Conn!readVars
<1>. QED
  BY <1>4, <1>5, <1>6, <1>7 DEF Conn!ReadGoes

\* The connection keeps its types for messages of any length, also of 2^32 bytes and more:
\* a size never exceeds its width, and never are more bytes read into b than it has
\* room for, even if bytes are taken for a size (sendRaw, receiveRaw).
THEOREM ConnectionTypes == HostSpec => []Conn!TypeOK
<1>1. HostInit => ConnTyped
  BY ConnTypedInit DEF HostInit
<1>2. ASSUME ConnTyped, [HostNext]_hostVars PROVE ConnTyped'
  <2>1. CASE Conn!Next
    BY <1>2, <2>1, SendTyped, ReadTyped DEF Conn!Next
  <2>2. CASE UNCHANGED connVars
    BY <1>2, <2>2 DEF connVars, ConnTyped, Conn!TypeOK, Turns
  <2>. QED
    BY <1>2, <2>1, <2>2 DEF HostNext, ListenerStep, ConnStep, hostVars
<1>3. ConnTyped => Conn!TypeOK
  BY DEF ConnTyped
<1>. QED
  BY <1>1, <1>2, <1>3, PTL DEF HostSpec

=============================================================================
