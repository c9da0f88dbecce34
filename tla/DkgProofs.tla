------------------------------ MODULE DkgProofs ------------------------------
(***************************************************************************)
(* Proofs about Dkg, for any number of participants: its types,            *)
(* ShareBacked and SharesNeedErrors.  ShareBacked is not inductive: Backed *)
(* says why an approval that a generator counts is one that a participant  *)
(* has given, from the goroutines of its Broadcast through the streams to  *)
(* the generator, and what a share that is offered but not taken rests on. *)
(* Paid adds what a participant has itself, and how many Broadcasts it has *)
(* come back from.                                                         *)
(***************************************************************************)
EXTENDS Dkg, FiniteSetTheorems, TLAPS

\* A set of dealers on which a share may rest.
Supports(S) ==
  /\ S \subseteq Participant
  /\ Cardinality(S) >= t
  /\ \A d \in S : Cardinality(Processed(d)) >= t

Offers(p) == lock[p] # None /\ lock[p].op = "share"

\* The inductive invariant, beside TypeOK.
Backed ==
  /\ \A p, d \in Participant : approvals[p][d] \subseteq Processed(d)
  /\ \A p, d \in Participant : responses[p][d] > 0 => d \in dealt[p]
  /\ \A p \in Participant : \A m \in inbox[p] : m.kind = "response" => m.dealer \in dealt[m.from]
  /\ \A p \in Participant : Offers(p) => Supports(lock[p].qual)
  /\ \A p \in Participant : run[p] = "returned" => Supports(share[p])

\* sendDeals returns as soon as t Sends have returned.
Counting == \A p \in Participant : run[p] = "deals" => confirmed[p] < t

IInv == TypeOK /\ Counting /\ Backed

-----------------------------------------------------------------------------
\* The threshold is a majority.
LEMMA ThresholdMajority == n \in Nat /\ t \in Nat /\ t > 0 /\ t + t > n
<1>1. n \in Nat
  BY DkgAssumption, FS_CardinalityType DEF n
<1>. QED
  BY <1>1 DEF t

\* The cardinality of a set of participants, and of a smaller one.
LEMMA ParticipantSets ==
  ASSUME NEW S, NEW T, S \subseteq T, T \subseteq Participant
  PROVE  /\ IsFiniteSet(T) /\ Cardinality(T) \in Nat
         /\ Cardinality(S) \in Nat /\ Cardinality(S) <= Cardinality(T)
BY DkgAssumption, FS_Subset, FS_CardinalityType

\* A deal that has been processed stays so: what supports a share goes on to.
LEMMA SupportsGrows ==
  ASSUME NEW S, Supports(S), \A q \in Participant : dealt[q] \subseteq dealt'[q]
  PROVE  Supports(S)'
<1>1. ASSUME NEW d \in S PROVE Cardinality(Processed(d)') >= t
  <2>1. Processed(d) \subseteq Processed(d)' /\ Processed(d)' \subseteq Participant
    BY DEF Processed
  <2>. QED
    BY <2>1, <1>1, ParticipantSets, ThresholdMajority DEF Supports
<1>. QED
  BY <1>1 DEF Supports, Processed, t, n

-----------------------------------------------------------------------------
LockType == [op : {"broadcast"}, dealer : Participant]
              \cup [op : {"share"}, qual : SUBSET Participant] \cup {None}

\* What a goroutine of p may send to q.
LEMMA TaskFacts ==
  ASSUME TypeOK, NEW p \in Participant, NEW q \in Participant, NEW k \in Task(p, q)
  PROVE  /\ k \in Message /\ k.from = p
         /\ k.kind = "response" => responses[p][k.dealer] > 0
  BY DEF Task, Message, TypeOK

\* What the return of a Send leaves behind at the participant it was sent by.
LEMMA AfterSend ==
  ASSUME TypeOK, Counting, NEW p \in Participant, NEW k \in Message, k.from = p,
         k.kind = "response" => responses[p][k.dealer] > 0,
         NEW q \in Participant, NEW ok \in BOOLEAN
  PROVE  /\ Confirmed(k) \in 0..t
         /\ RunAfter(k) \in {run[p], "share"}
         /\ RunAfter(k) = "deals" => Confirmed(k) < t
         /\ DealsAfter(k, q) \in SUBSET Participant
         /\ ResponsesAfter(k) \in [Participant -> 0..n]
         /\ \A d \in Participant : ResponsesAfter(k)[d] <= responses[p][d]
         /\ LockAfter(k, ok) \in {None, lock[p]}
         /\ ErrorsAfter(k, ok) \in Nat
<1>1. confirmed[p] \in 0..t /\ run[p] \in {"deals", "share", "returned", "failed"}
  BY DEF TypeOK
<1>2. run[p] = "deals" => confirmed[p] < t
  BY DEF Counting
<1>3. Confirmed(k) \in 0..t /\ (RunAfter(k) = "deals" => Confirmed(k) < t)
  BY <1>1, <1>2, ThresholdMajority DEF Confirmed, RunAfter, Counts
<1>4. RunAfter(k) \in {run[p], "share"}
  BY DEF RunAfter
<1>5. DealsAfter(k, q) \in SUBSET Participant
  BY DEF DealsAfter, TypeOK
<1>6. /\ ResponsesAfter(k) \in [Participant -> 0..n]
      /\ \A d \in Participant : ResponsesAfter(k)[d] <= responses[p][d]
  <2>1. responses[p] \in [Participant -> 0..n] /\ k.dealer \in Participant
    BY DEF TypeOK, Message
  <2>. QED
    BY <2>1, ThresholdMajority DEF ResponsesAfter, Message
<1>7. LockAfter(k, ok) \in {None, lock[p]}
  BY DEF LockAfter
<1>8. ErrorsAfter(k, ok) \in Nat
  BY DEF ErrorsAfter, TypeOK
<1>. QED
  BY <1>3, <1>4, <1>5, <1>6, <1>7, <1>8

\* The parts of Backed that speak of shares survive every step that only adds to
\* what has been processed, offers nothing new and returns no share.
LEMMA SharesSurvive ==
  ASSUME Backed, \A q \in Participant : dealt[q] \subseteq dealt'[q],
         \A p \in Participant : Offers(p)' => Offers(p) /\ lock'[p] = lock[p],
         \A p \in Participant : run'[p] = "returned" => run[p] = "returned" /\ share'[p] = share[p]
  PROVE  /\ \A p \in Participant : Offers(p)' => Supports(lock[p].qual)'
         /\ \A p \in Participant : run'[p] = "returned" => Supports(share[p])'
<1>1. ASSUME NEW p \in Participant, Offers(p)' PROVE Supports(lock[p].qual)'
  <2>1. Supports(lock[p].qual) /\ lock'[p] = lock[p]
    BY <1>1 DEF Backed
  <2>2. \A S : Supports(S) => Supports(S)'
    BY SupportsGrows
  <2>3. Supports(lock'[p].qual)
    BY <2>1
  <2>. QED
    BY <2>2, <2>3 DEF Supports
<1>2. ASSUME NEW p \in Participant, run'[p] = "returned" PROVE Supports(share[p])'
  <2>1. Supports(share[p]) /\ share'[p] = share[p]
    BY <1>2 DEF Backed
  <2>2. \A S : Supports(S) => Supports(S)'
    BY SupportsGrows
  <2>. QED
    BY <2>1, <2>2 DEF Supports
<1>. QED
  BY <1>1, <1>2

-----------------------------------------------------------------------------
\* The invariant holds when NewDKG has returned and sendDeals waits: nobody offers or
\* has a share yet.
LEMMA InitIInv == Init => IInv
<1>. SUFFICES ASSUME Init PROVE IInv
  OBVIOUS
<1>1. TypeOK
  BY ThresholdMajority, DkgAssumption DEF Init, TypeOK
<1>2. Counting
  BY ThresholdMajority DEF Init, Counting
<1>3. Backed
  BY DEF Init, Backed, Offers, Processed
<1>. QED
  BY <1>1, <1>2, <1>3 DEF IInv

\* Two Sends that get through move messages and results; a response that arrives comes
\* from a participant that has the deal (Send, sendDeals, Broadcast).
LEMMA ExchangeIInv ==
  ASSUME IInv, NEW p \in Participant, NEW q \in Participant, p # q,
         NEW k \in Task(p, q), NEW j \in Task(q, p), Exchange(p, q, k, j)
  PROVE  IInv'
<1>. USE DEF IInv
<1>1. PICK ok \in BOOLEAN, oj \in BOOLEAN :
        /\ lock' = [lock EXCEPT ![p] = LockAfter(k, ok), ![q] = LockAfter(j, oj)]
        /\ errors' = [errors EXCEPT ![p] = ErrorsAfter(k, ok), ![q] = ErrorsAfter(j, oj)]
  BY DEF Exchange
<1>2. /\ k \in Message /\ k.from = p /\ (k.kind = "response" => responses[p][k.dealer] > 0)
      /\ j \in Message /\ j.from = q /\ (j.kind = "response" => responses[q][j.dealer] > 0)
  BY TaskFacts
<1>3. /\ Confirmed(k) \in 0..t /\ RunAfter(k) \in {run[p], "share"}
      /\ RunAfter(k) = "deals" => Confirmed(k) < t
      /\ DealsAfter(k, q) \in SUBSET Participant
      /\ ResponsesAfter(k) \in [Participant -> 0..n]
      /\ \A d \in Participant : ResponsesAfter(k)[d] <= responses[p][d]
      /\ LockAfter(k, ok) \in {None, lock[p]} /\ ErrorsAfter(k, ok) \in Nat
  BY <1>2, AfterSend
<1>4. /\ Confirmed(j) \in 0..t /\ RunAfter(j) \in {run[q], "share"}
      /\ RunAfter(j) = "deals" => Confirmed(j) < t
      /\ DealsAfter(j, p) \in SUBSET Participant
      /\ ResponsesAfter(j) \in [Participant -> 0..n]
      /\ \A d \in Participant : ResponsesAfter(j)[d] <= responses[q][d]
      /\ LockAfter(j, oj) \in {None, lock[q]} /\ ErrorsAfter(j, oj) \in Nat
  BY <1>2, AfterSend
<1>5. TypeOK'
  <2>1. run' \in [Participant -> {"deals", "share", "returned", "failed"}]
    BY <1>3, <1>4 DEF TypeOK, Exchange
  <2>2. confirmed' \in [Participant -> 0..t] /\ deals' \in [Participant -> SUBSET Participant]
    BY <1>3, <1>4 DEF TypeOK, Exchange
  <2>3. responses' \in [Participant -> [Participant -> 0..n]]
    BY <1>3, <1>4 DEF TypeOK, Exchange
  <2>4. inbox' \in [Participant -> SUBSET Message]
    <3>1. inbox' = [inbox EXCEPT ![q] = @ \cup {k}, ![p] = @ \cup {j}]
      BY DEF Exchange
    <3>2. inbox \in [Participant -> SUBSET Message]
      BY DEF TypeOK
    <3>. QED
      BY <3>1, <3>2, <1>2
  <2>5. lock' \in [Participant -> LockType]
    <3>1. lock \in [Participant -> LockType]
      BY DEF TypeOK, LockType
    <3>2. LockAfter(k, ok) \in LockType /\ LockAfter(j, oj) \in LockType
      <4>1. None \in LockType
        BY DEF LockType
      <4>. QED
        BY <3>1, <4>1, <1>3, <1>4
    <3>. QED
      BY <1>1, <3>1, <3>2
  <2>6. sends' \in 0..MaxSends /\ errors' \in [Participant -> Nat]
    <3>1. sends' \in 0..MaxSends
      BY DkgAssumption DEF TypeOK, Exchange, CountSend
    <3>2. errors \in [Participant -> Nat]
      BY DEF TypeOK
    <3>. QED
      BY <1>1, <1>3, <1>4, <3>1, <3>2
  <2>7. UNCHANGED <<dealt, approvals, share>>
    BY DEF Exchange, generatorVars
  <2>. QED
    BY <2>1, <2>2, <2>3, <2>4, <2>5, <2>6, <2>7 DEF TypeOK, LockType, t, n
<1>6. Counting'
  BY <1>3, <1>4 DEF Counting, Exchange, TypeOK, t, n
<1>7. dealt' = dealt /\ approvals' = approvals /\ share' = share
  BY DEF Exchange, generatorVars
<1>8. Backed'
  <2>1. \A x, d \in Participant : approvals'[x][d] \subseteq Processed(d)'
    BY <1>7 DEF Backed, Processed
  <2>2. \A x, d \in Participant : responses'[x][d] > 0 => d \in dealt'[x]
    <3>0. \A x, d \in Participant : responses[x][d] \in 0..n
      BY DEF TypeOK
    <3>1. \A x, d \in Participant : responses'[x][d] <= responses[x][d]
      <4>1. responses' = [responses EXCEPT ![p] = ResponsesAfter(k), ![q] = ResponsesAfter(j)]
        BY DEF Exchange
      <4>2. \A x \in Participant : responses'[x] = IF x = p THEN ResponsesAfter(k)
              ELSE IF x = q THEN ResponsesAfter(j) ELSE responses[x]
        BY <4>1 DEF TypeOK
      <4>. QED
        BY <4>2, <3>0, <1>3, <1>4, ThresholdMajority
    <3>2. \A x, d \in Participant : responses[x][d] \in Nat /\ responses'[x][d] \in Nat
      BY <1>5, ThresholdMajority DEF TypeOK, t, n
    <3>. QED
      BY <3>1, <3>2, <1>7 DEF Backed
  <2>3. \A x \in Participant : \A m \in inbox'[x] :
          m.kind = "response" => m.dealer \in dealt'[m.from]
    <3>1. (k.kind = "response" => k.dealer \in dealt[p])
           /\ (j.kind = "response" => j.dealer \in dealt[q])
      BY <1>2 DEF Backed, Message
    <3>2. \A x \in Participant : inbox'[x] \subseteq inbox[x] \cup {k, j}
      BY DEF Exchange, TypeOK
    <3>. QED
      BY <3>1, <3>2, <1>2, <1>7 DEF Backed
  <2>4. \A x \in Participant : Offers(x)' => Offers(x) /\ lock'[x] = lock[x]
    BY <1>1, <1>3, <1>4 DEF Offers, TypeOK
  <2>5. \A x \in Participant : run'[x] = "returned" => run[x] = "returned" /\ share'[x] = share[x]
    BY <1>3, <1>4, <1>7 DEF Exchange, TypeOK
  <2>. QED
    BY <2>1, <2>2, <2>3, <2>4, <2>5, <1>7, SharesSurvive DEF Backed
<1>. QED
  BY <1>5, <1>6, <1>8

\* A Send that fails changes counters and may end a Broadcast (sendDeals, Broadcast).
LEMMA SendFailsIInv ==
  ASSUME IInv, NEW p \in Participant, NEW q \in Participant,
         NEW k \in Task(p, q), SendFails(p, q, k)
  PROVE  IInv'
<1>. USE DEF IInv
<1>1. k \in Message /\ k.from = p /\ (k.kind = "response" => responses[p][k.dealer] > 0)
  BY TaskFacts
<1>2. /\ Confirmed(k) \in 0..t /\ RunAfter(k) \in {run[p], "share"}
      /\ RunAfter(k) = "deals" => Confirmed(k) < t
      /\ DealsAfter(k, q) \in SUBSET Participant
      /\ ResponsesAfter(k) \in [Participant -> 0..n]
      /\ \A d \in Participant : ResponsesAfter(k)[d] <= responses[p][d]
      /\ LockAfter(k, FALSE) \in {None, lock[p]} /\ ErrorsAfter(k, FALSE) \in Nat
  BY <1>1, AfterSend
<1>3. dealt' = dealt /\ approvals' = approvals /\ share' = share /\ inbox' = inbox
  BY DEF SendFails, generatorVars
<1>4. TypeOK'
  <2>1. run' \in [Participant -> {"deals", "share", "returned", "failed"}]
    BY <1>2 DEF TypeOK, SendFails
  <2>2. /\ confirmed' \in [Participant -> 0..t] /\ deals' \in [Participant -> SUBSET Participant]
        /\ responses' \in [Participant -> [Participant -> 0..n]]
    BY <1>2 DEF TypeOK, SendFails
  <2>3. lock' \in [Participant -> LockType]
    BY <1>2 DEF TypeOK, LockType, SendFails
  <2>4. sends' \in 0..MaxSends
    BY DkgAssumption DEF TypeOK, SendFails, CountSend
  <2>5. errors' \in [Participant -> Nat]
    BY <1>2 DEF TypeOK, SendFails
  <2>. QED
    BY <1>3, <2>1, <2>2, <2>3, <2>4, <2>5 DEF TypeOK, LockType, t, n
<1>5. Counting'
  BY <1>2 DEF Counting, SendFails, TypeOK, t, n
<1>6. Backed'
  <2>1. \A x, d \in Participant : approvals'[x][d] \subseteq Processed(d)'
    BY <1>3 DEF Backed, Processed
  <2>2. \A x, d \in Participant : responses'[x][d] > 0 => d \in dealt'[x]
    <3>0. \A x, d \in Participant : responses[x][d] \in 0..n
      BY DEF TypeOK
    <3>1. \A x, d \in Participant : responses'[x][d] <= responses[x][d]
      BY <3>0, <1>2, ThresholdMajority DEF SendFails, TypeOK
    <3>2. \A x, d \in Participant : responses[x][d] \in Nat /\ responses'[x][d] \in Nat
      BY <1>4, ThresholdMajority DEF TypeOK, t, n
    <3>. QED
      BY <3>1, <3>2, <1>3 DEF Backed
  <2>3. \A x \in Participant : \A m \in inbox'[x] :
          m.kind = "response" => m.dealer \in dealt'[m.from]
    BY <1>3 DEF Backed
  <2>4. \A x \in Participant : Offers(x)' => Offers(x) /\ lock'[x] = lock[x]
    BY <1>2 DEF Offers, SendFails, TypeOK
  <2>5. \A x \in Participant : run'[x] = "returned" => run[x] = "returned" /\ share'[x] = share[x]
    BY <1>2, <1>3 DEF SendFails, TypeOK
  <2>. QED
    BY <2>1, <2>2, <2>3, <2>4, <2>5, <1>3, SharesSurvive DEF Backed
<1>. QED
  BY <1>4, <1>5, <1>6

\* The timeout of sendDeals ends Run without a share.
LEMMA TimeoutIInv ==
  ASSUME IInv, NEW p \in Participant, Timeout(p)
  PROVE  IInv'
<1>. USE DEF IInv
<1>1. TypeOK'
  BY DEF TypeOK, Timeout, generatorVars, t, n
<1>2. Counting'
  BY DEF Counting, Timeout, TypeOK, t, n
<1>3. /\ dealt' = dealt /\ approvals' = approvals /\ responses' = responses
      /\ inbox' = inbox /\ lock' = lock /\ share' = share
  BY DEF Timeout, generatorVars
<1>4. \A x \in Participant : run'[x] = "returned" => run[x] = "returned" /\ share'[x] = share[x]
  BY <1>3 DEF Timeout, TypeOK
<1>5. \A x \in Participant : Offers(x)' => Offers(x) /\ lock'[x] = lock[x]
  BY <1>3 DEF Offers
<1>6. /\ \A x, d \in Participant : approvals'[x][d] \subseteq Processed(d)'
      /\ \A x, d \in Participant : responses'[x][d] > 0 => d \in dealt'[x]
      /\ \A x \in Participant : \A m \in inbox'[x] :
           m.kind = "response" => m.dealer \in dealt'[m.from]
  BY <1>3 DEF Backed, Processed
<1>7. Backed'
  BY <1>3, <1>4, <1>5, <1>6, SharesSurvive DEF Backed
<1>. QED
  BY <1>1, <1>2, <1>7

\* The share that Run takes from shareCh is the one that Process offers.
LEMMA TakeShareIInv ==
  ASSUME IInv, NEW p \in Participant, TakeShare(p)
  PROVE  IInv'
<1>. USE DEF IInv
<1>1. /\ dealt' = dealt /\ approvals' = approvals /\ responses' = responses /\ inbox' = inbox
      /\ confirmed' = confirmed /\ deals' = deals /\ sends' = sends
      /\ errors' = errors /\ Offers(p)
      /\ share' = [share EXCEPT ![p] = lock[p].qual]
      /\ run' = [run EXCEPT ![p] = "returned"]
      /\ lock' = [lock EXCEPT ![p] = None]
  BY DEF TakeShare, generatorVars, Offers
<1>2. Supports(lock[p].qual)
  BY <1>1 DEF Backed
<1>3. TypeOK'
  BY <1>1, <1>2 DEF TypeOK, Supports, t, n
<1>4. Counting'
  BY <1>1 DEF Counting, TypeOK, t, n
<1>5. /\ \A x, d \in Participant : approvals'[x][d] \subseteq Processed(d)'
      /\ \A x, d \in Participant : responses'[x][d] > 0 => d \in dealt'[x]
      /\ \A x \in Participant : \A m \in inbox'[x] :
           m.kind = "response" => m.dealer \in dealt'[m.from]
  BY <1>1 DEF Backed, Processed
<1>6. \A S : Supports(S) => Supports(S)'
  BY <1>1, SupportsGrows
<1>7. \A x \in Participant : Offers(x)' => Offers(x) /\ lock'[x] = lock[x]
  BY <1>1 DEF Offers, TypeOK
<1>8. ASSUME NEW x \in Participant, Offers(x)' PROVE Supports(lock[x].qual)'
  <2>1. Supports(lock[x].qual) /\ lock'[x] = lock[x]
    BY <1>7, <1>8 DEF Backed
  <2>. QED
    BY <2>1, <1>6 DEF Supports
<1>9. ASSUME NEW x \in Participant, run'[x] = "returned" PROVE Supports(share[x])'
  <2>1. Supports(share'[x])
    BY <1>1, <1>2, <1>9 DEF Backed, TypeOK
  <2>. QED
    BY <2>1, <1>6 DEF Supports
<1>10. Backed'
  BY <1>5, <1>8, <1>9 DEF Backed
<1>. QED
  BY <1>3, <1>4, <1>10

\* A deal that is processed is in the generator before its responses are sent
\* (processDeal).
LEMMA ProcessDealIInv ==
  ASSUME IInv, NEW p \in Participant, NEW m \in inbox[p], ProcessDeal(p, m)
  PROVE  IInv'
<1>. USE DEF IInv
<1>1. m \in Message /\ m.dealer \in Participant
  BY DEF TypeOK, Message
<1>2. /\ inbox' = [inbox EXCEPT ![p] = @ \ {m}]
      /\ dealt' = [dealt EXCEPT ![p] = @ \cup {m.dealer}]
      /\ approvals' = [approvals EXCEPT ![p][m.dealer] = {p}]
      /\ responses' = [responses EXCEPT ![p][m.dealer] = n]
      /\ lock' = [lock EXCEPT ![p] = [op |-> "broadcast", dealer |-> m.dealer]]
      /\ run' = run /\ confirmed' = confirmed /\ deals' = deals
      /\ share' = share /\ errors' = errors /\ sends' = sends
  BY DEF ProcessDeal, Takes
<1>3. TypeOK'
  <2>1. inbox' \in [Participant -> SUBSET Message] /\ dealt' \in [Participant -> SUBSET Participant]
    BY <1>1, <1>2 DEF TypeOK
  <2>2. approvals' \in [Participant -> [Participant -> SUBSET Participant]]
    BY <1>1, <1>2 DEF TypeOK
  <2>3. responses' \in [Participant -> [Participant -> 0..n]]
    BY <1>1, <1>2, ThresholdMajority DEF TypeOK
  <2>4. lock' \in [Participant -> LockType]
    BY <1>1, <1>2 DEF TypeOK, LockType
  <2>. QED
    BY <1>2, <2>1, <2>2, <2>3, <2>4 DEF TypeOK, LockType, t, n
<1>4. Counting'
  BY <1>2 DEF Counting, t, n
<1>5. \A x \in Participant : dealt[x] \subseteq dealt'[x]
  BY <1>2 DEF TypeOK
<1>6. Backed'
  <2>1. ASSUME NEW x \in Participant, NEW d \in Participant
        PROVE  approvals'[x][d] \subseteq Processed(d)'
    <3>1. approvals[x][d] \subseteq Processed(d) /\ Processed(d) \subseteq Processed(d)'
      BY <1>5 DEF Backed, Processed
    <3>2. p \in Processed(m.dealer)'
      BY <1>1, <1>2 DEF Processed, TypeOK
    <3>3. approvals'[x][d] = approvals[x][d] \/ (d = m.dealer /\ approvals'[x][d] = {p})
      BY <1>1, <1>2 DEF TypeOK
    <3>. QED
      BY <3>1, <3>2, <3>3
  <2>2. ASSUME NEW x \in Participant, NEW d \in Participant, responses'[x][d] > 0
        PROVE  d \in dealt'[x]
    <3>1. responses'[x][d] = responses[x][d] \/ (x = p /\ d = m.dealer)
      BY <1>1, <1>2 DEF TypeOK
    <3>2. m.dealer \in dealt'[p]
      BY <1>1, <1>2 DEF TypeOK
    <3>. QED
      BY <2>2, <3>1, <3>2, <1>5 DEF Backed
  <2>3. ASSUME NEW x \in Participant, NEW r \in inbox'[x], r.kind = "response"
        PROVE  r.dealer \in dealt'[r.from]
    <3>1. r \in inbox[x] /\ r.from \in Participant
      BY <1>2, <2>3 DEF TypeOK, Message
    <3>. QED
      BY <3>1, <2>3, <1>5 DEF Backed
  <2>4. \A x \in Participant : Offers(x)' => Offers(x) /\ lock'[x] = lock[x]
    BY <1>2 DEF Offers, TypeOK
  <2>5. \A x \in Participant : run'[x] = "returned" => run[x] = "returned" /\ share'[x] = share[x]
    BY <1>2
  <2>6. /\ \A x \in Participant : Offers(x)' => Supports(lock[x].qual)'
        /\ \A x \in Participant : run'[x] = "returned" => Supports(share[x])'
    BY <1>5, <2>4, <2>5, SharesSurvive
  <2>. QED
    BY <2>1, <2>2, <2>3, <2>6 DEF Backed
<1>. QED
  BY <1>3, <1>4, <1>6

\* An approval is recorded only of a participant that has the deal, and what is offered
\* as a share rests on t deals with t approvals each (processResponse).
LEMMA ProcessResponseIInv ==
  ASSUME IInv, NEW p \in Participant, NEW m \in inbox[p], ProcessResponse(p, m)
  PROVE  IInv'
<1>. USE DEF IInv
<1>1. m \in Message /\ m.dealer \in Participant /\ m.from \in Participant
  BY DEF TypeOK, Message
<1>2. /\ inbox' = [inbox EXCEPT ![p] = @ \ {m}] /\ m.kind = "response"
      /\ approvals' = IF m.dealer \in dealt[p]
                      THEN [approvals EXCEPT ![p][m.dealer] = @ \cup {m.from}] ELSE approvals
      /\ lock' = IF Certified(approvals'[p])
                 THEN [lock EXCEPT ![p] = [op |-> "share", qual |-> Qualified(approvals'[p])]]
                 ELSE lock
      /\ run' = run /\ confirmed' = confirmed /\ deals' = deals /\ responses' = responses
      /\ dealt' = dealt /\ share' = share /\ sends' = sends
      /\ errors' = errors
  BY DEF ProcessResponse, Takes
<1>3. TypeOK'
  <2>1. inbox' \in [Participant -> SUBSET Message]
    BY <1>2 DEF TypeOK
  <2>2. approvals' \in [Participant -> [Participant -> SUBSET Participant]]
    BY <1>1, <1>2 DEF TypeOK
  <2>3. lock' \in [Participant -> LockType]
    BY <1>2 DEF TypeOK, LockType, Qualified
  <2>. QED
    BY <1>2, <2>1, <2>2, <2>3 DEF TypeOK, LockType, t, n
<1>4. Counting'
  BY <1>2 DEF Counting, t, n
<1>5. ASSUME NEW x \in Participant, NEW d \in Participant
      PROVE  approvals'[x][d] \subseteq Processed(d)
  <2>1. m.from \in Processed(m.dealer)
    BY <1>1, <1>2 DEF Backed, Processed
  <2>2. \/ approvals'[x][d] = approvals[x][d]
        \/ d = m.dealer /\ approvals'[x][d] = approvals[x][d] \cup {m.from}
    BY <1>1, <1>2 DEF TypeOK
  <2>. QED
    BY <2>1, <2>2 DEF Backed
<1>6. Certified(approvals'[p]) => Supports(Qualified(approvals'[p]))
  <2>1. ASSUME NEW d \in Qualified(approvals'[p]) PROVE Cardinality(Processed(d)) >= t
    <3>1. d \in Participant /\ Cardinality(approvals'[p][d]) >= t
      BY DEF Qualified, DealCertified
    <3>2. approvals'[p][d] \subseteq Processed(d) /\ Processed(d) \subseteq Participant
      BY <3>1, <1>5 DEF Processed
    <3>. QED
      BY <3>1, <3>2, ParticipantSets, ThresholdMajority
  <2>. QED
    BY <2>1 DEF Certified, Supports, Qualified
<1>7. \A S : Supports(S) => Supports(S)'
  BY <1>2, SupportsGrows
<1>8. ASSUME NEW x \in Participant, Offers(x)' PROVE Supports(lock[x].qual)'
  <2>1. Supports(lock'[x].qual)
    <3>1. CASE x = p /\ Certified(approvals'[p])
      <4>1. lock'[x] = [op |-> "share", qual |-> Qualified(approvals'[p])]
        BY <3>1, <1>2 DEF TypeOK
      <4>. QED
        BY <4>1, <3>1, <1>6
    <3>2. CASE ~(x = p /\ Certified(approvals'[p]))
      <4>1. lock'[x] = lock[x]
        BY <3>2, <1>2 DEF TypeOK
      <4>. QED
        BY <4>1, <1>8 DEF Backed, Offers
    <3>. QED
      BY <3>1, <3>2
  <2>. QED
    BY <2>1, <1>7 DEF Supports
<1>9. ASSUME NEW x \in Participant, run'[x] = "returned" PROVE Supports(share[x])'
  <2>1. Supports(share'[x])
    BY <1>2, <1>9 DEF Backed
  <2>. QED
    BY <2>1, <1>7 DEF Supports
<1>10. Backed'
  <2>1. \A x, d \in Participant : approvals'[x][d] \subseteq Processed(d)'
    BY <1>2, <1>5 DEF Processed
  <2>2. \A x, d \in Participant : responses'[x][d] > 0 => d \in dealt'[x]
    BY <1>2 DEF Backed
  <2>3. \A x \in Participant : \A r \in inbox'[x] :
          r.kind = "response" => r.dealer \in dealt'[r.from]
    BY <1>2 DEF Backed, TypeOK
  <2>. QED
    BY <2>1, <2>2, <2>3, <1>8, <1>9 DEF Backed
<1>. QED
  BY <1>3, <1>4, <1>10

-----------------------------------------------------------------------------
\* The invariant is inductive.
LEMMA NextIInv == IInv /\ [Next]_vars => IInv'
<1>. SUFFICES ASSUME IInv, [Next]_vars PROVE IInv'
  OBVIOUS
<1>1. CASE \E p, q \in Participant : \E k \in Task(p, q) :
             \/ SendFails(p, q, k)
             \/ p # q /\ \E j \in Task(q, p) : Exchange(p, q, k, j)
  BY <1>1, SendFailsIInv, ExchangeIInv
<1>2. CASE \E p \in Participant : Timeout(p) \/ TakeShare(p)
  BY <1>2, TimeoutIInv, TakeShareIInv
<1>3. CASE \E p \in Participant : \E m \in inbox[p] : ProcessDeal(p, m) \/ ProcessResponse(p, m)
  BY <1>3, ProcessDealIInv, ProcessResponseIInv
<1>4. CASE UNCHANGED vars
  BY <1>4 DEF IInv, TypeOK, Counting, Backed, Offers, Supports, Processed, vars,
              generatorVars, t, n
<1>. QED
  BY <1>1, <1>2, <1>3, <1>4 DEF Next

\* The invariant, and with it TypeOK, holds in every state of the key generation.
LEMMA SpecIInv == Spec => []IInv
BY InitIInv, NextIInv, PTL DEF Spec

\* Every variable keeps its type: in particular sendDeals takes no more than t results, and
\* a response is never sent more often than there are participants (TypeOK, sendDeals,
\* Broadcast).
THEOREM TypeCorrect == Spec => []TypeOK
<1>1. IInv => TypeOK
  BY DEF IInv
<1>. QED
  BY <1>1, SpecIInv, PTL

-----------------------------------------------------------------------------
(***************************************************************************)
(* What a participant has itself, and what it has paid for it.             *)
(***************************************************************************)
InBroadcast(p) == lock[p] # None /\ lock[p].op = "broadcast"

\* The inductive invariant of one participant: its generator counts approvals of the deals
\* it has, and it has processed one deal beside its own for each Broadcast that has
\* returned an error, and one for which it is in a Broadcast.
Pays(p) ==
  /\ \A d \in Participant : approvals[p][d] # {} => d \in dealt[p]
  /\ Offers(p) => lock[p].qual \subseteq dealt[p]
  /\ run[p] = "returned" => share[p] \subseteq dealt[p] /\ errors[p] + 1 >= t
  /\ Cardinality(dealt[p]) <= errors[p] + (IF InBroadcast(p) THEN 2 ELSE 1)

Paid == \A p \in Participant : Pays(p)

\* A Broadcast that holds the mutex is not nobody.
LEMMA LocksDiffer == \A d \in Participant : [op |-> "broadcast", dealer |-> d] # None
BY DkgAssumption

\* A participant starts with its own deal.
LEMMA InitPaid == Init => Paid
<1>. SUFFICES ASSUME Init, NEW p \in Participant PROVE Pays(p)
  BY DEF Paid
<1>1. /\ dealt[p] = {p} /\ lock[p] = None /\ run[p] = "deals" /\ errors[p] = 0
      /\ \A d \in Participant : approvals[p][d] = {p} \cap {d}
  BY DEF Init
<1>2. Cardinality(dealt[p]) = 1
  BY <1>1, FS_Singleton
<1>. QED
  BY <1>1, <1>2 DEF Pays, Offers, InBroadcast

\* A Send that returns changes of a participant at most that a Broadcast is over, with an
\* error, or that Run begins to wait for its share.
LEMMA SendPays ==
  ASSUME IInv, NEW p \in Participant, Pays(p), UNCHANGED <<dealt, approvals, share>>,
         run'[p] \in {run[p], "share"},
         \/ lock'[p] = lock[p] /\ errors'[p] = errors[p]
         \/ InBroadcast(p) /\ lock'[p] = None /\ errors'[p] = errors[p] + 1
  PROVE  Pays(p)'
<1>1. /\ errors[p] \in Nat /\ t \in Nat
      /\ dealt[p] \subseteq Participant
  BY ThresholdMajority DEF IInv, TypeOK
<1>2. Cardinality(dealt[p]) \in Nat
  BY <1>1, ParticipantSets
<1>3. t' = t
  BY DEF t, n
<1>4. CASE lock'[p] = lock[p] /\ errors'[p] = errors[p]
  BY <1>3, <1>4 DEF Pays, Offers, InBroadcast
<1>5. CASE InBroadcast(p) /\ lock'[p] = None /\ errors'[p] = errors[p] + 1
  <2>1. ~Offers(p)' /\ ~InBroadcast(p)'
    BY <1>5 DEF Offers, InBroadcast
  <2>2. Cardinality(dealt'[p]) <= errors'[p] + 1
    BY <1>1, <1>2, <1>5 DEF Pays
  <2>3. run'[p] = "returned" => share'[p] \subseteq dealt'[p] /\ errors'[p] + 1 >= t
    BY <1>1, <1>5 DEF Pays
  <2>4. \A d \in Participant : approvals'[p][d] # {} => d \in dealt'[p]
    BY DEF Pays
  <2>. QED
    BY <1>3, <2>1, <2>2, <2>3, <2>4 DEF Pays
<1>. QED
  BY <1>4, <1>5

\* What becomes of the lock and of the errors of a participant whose Send returns.
LEMMA SendEnds ==
  ASSUME TypeOK, NEW p \in Participant, NEW q \in Participant, NEW k \in Task(p, q),
         NEW ok \in BOOLEAN
  PROVE  /\ RunAfter(k) \in {run[p], "share"}
         /\ \/ LockAfter(k, ok) = lock[p] /\ ErrorsAfter(k, ok) = errors[p]
            \/ /\ InBroadcast(p) /\ LockAfter(k, ok) = None
               /\ ErrorsAfter(k, ok) = errors[p] + 1
<1>1. k.from = p /\ errors[p] \in Nat /\ k.dealer \in Participant
  BY TaskFacts DEF TypeOK, Message
<1>2. RunAfter(k) \in {run[p], "share"}
  BY <1>1 DEF RunAfter
<1>3. CASE Ends(k, ok)
  <2>1. lock[p] = [op |-> "broadcast", dealer |-> k.dealer] /\ ~ok
    BY <1>1, <1>3 DEF Ends
  <2>2. lock[p].op = "broadcast"
    BY <2>1
  <2>3. LockAfter(k, ok) = None /\ ErrorsAfter(k, ok) = errors[p] + 1
    BY <1>1, <1>3, <2>1 DEF LockAfter, ErrorsAfter
  <2>. QED
    BY <1>1, <1>2, <2>1, <2>2, <2>3, LocksDiffer DEF InBroadcast
<1>4. CASE ~Ends(k, ok)
  BY <1>1, <1>2, <1>4 DEF LockAfter, ErrorsAfter
<1>. QED
  BY <1>3, <1>4

\* Every step keeps it.
LEMMA NextPaid == IInv /\ Paid /\ [Next]_vars => Paid'
<1>. SUFFICES ASSUME IInv, Paid, [Next]_vars, NEW r \in Participant PROVE Pays(r)'
  BY DEF Paid
<1>. USE DEF IInv
<1>0. Pays(r) /\ errors[r] \in Nat /\ t \in Nat /\ t' = t
  BY ThresholdMajority DEF Paid, TypeOK, t, n
<1>1. ASSUME NEW p \in Participant, NEW q \in Participant, NEW k \in Task(p, q),
             SendFails(p, q, k)
      PROVE  Pays(r)'
  <2>1. /\ run' = [run EXCEPT ![p] = RunAfter(k)]
        /\ lock' = [lock EXCEPT ![p] = LockAfter(k, FALSE)]
        /\ errors' = [errors EXCEPT ![p] = ErrorsAfter(k, FALSE)]
        /\ UNCHANGED <<dealt, approvals, share>>
    BY <1>1 DEF SendFails, generatorVars
  <2>2. /\ RunAfter(k) \in {run[p], "share"}
        /\ \/ LockAfter(k, FALSE) = lock[p] /\ ErrorsAfter(k, FALSE) = errors[p]
           \/ /\ InBroadcast(p) /\ LockAfter(k, FALSE) = None
              /\ ErrorsAfter(k, FALSE) = errors[p] + 1
    BY <1>1, SendEnds
  <2>3. /\ run'[r] = IF r = p THEN RunAfter(k) ELSE run[r]
        /\ lock'[r] = IF r = p THEN LockAfter(k, FALSE) ELSE lock[r]
        /\ errors'[r] = IF r = p THEN ErrorsAfter(k, FALSE) ELSE errors[r]
    BY <2>1 DEF TypeOK
  <2>. QED
    BY <1>0, <2>1, <2>2, <2>3, SendPays
<1>2. ASSUME NEW p \in Participant, NEW q \in Participant, p # q,
             NEW k \in Task(p, q), NEW j \in Task(q, p), Exchange(p, q, k, j)
      PROVE  Pays(r)'
  <2>1. /\ run' = [run EXCEPT ![p] = RunAfter(k), ![q] = RunAfter(j)]
        /\ UNCHANGED <<dealt, approvals, share>>
    BY <1>2 DEF Exchange, generatorVars
  <2>2. PICK ok \in BOOLEAN, oj \in BOOLEAN :
          /\ lock' = [lock EXCEPT ![p] = LockAfter(k, ok), ![q] = LockAfter(j, oj)]
          /\ errors' = [errors EXCEPT ![p] = ErrorsAfter(k, ok), ![q] = ErrorsAfter(j, oj)]
    BY <1>2 DEF Exchange
  <2>3. /\ RunAfter(k) \in {run[p], "share"}
        /\ \/ LockAfter(k, ok) = lock[p] /\ ErrorsAfter(k, ok) = errors[p]
           \/ /\ InBroadcast(p) /\ LockAfter(k, ok) = None
              /\ ErrorsAfter(k, ok) = errors[p] + 1
    BY <1>2, SendEnds
  <2>4. /\ RunAfter(j) \in {run[q], "share"}
        /\ \/ LockAfter(j, oj) = lock[q] /\ ErrorsAfter(j, oj) = errors[q]
           \/ /\ InBroadcast(q) /\ LockAfter(j, oj) = None
              /\ ErrorsAfter(j, oj) = errors[q] + 1
    BY <1>2, SendEnds
  <2>5. /\ run'[r] = IF r = p THEN RunAfter(k) ELSE IF r = q THEN RunAfter(j) ELSE run[r]
        /\ lock'[r] = IF r = p THEN LockAfter(k, ok)
                      ELSE IF r = q THEN LockAfter(j, oj) ELSE lock[r]
        /\ errors'[r] = IF r = p THEN ErrorsAfter(k, ok)
                        ELSE IF r = q THEN ErrorsAfter(j, oj) ELSE errors[r]
    BY <1>2, <2>1, <2>2 DEF TypeOK
  <2>. QED
    BY <1>0, <1>2, <2>1, <2>3, <2>4, <2>5, SendPays
<1>3. ASSUME NEW p \in Participant, Timeout(p) PROVE Pays(r)'
  <2>1. /\ UNCHANGED <<dealt, approvals, share, lock, errors>>
        /\ run'[r] = "returned" => run[r] = "returned"
    BY <1>3 DEF Timeout, generatorVars, TypeOK
  <2>. QED
    BY <1>0, <2>1 DEF Pays, Offers, InBroadcast
<1>4. ASSUME NEW p \in Participant, TakeShare(p) PROVE Pays(r)'
  <2>1. /\ UNCHANGED <<dealt, approvals, errors>> /\ Offers(p)
        /\ share'[r] = IF r = p THEN lock[r].qual ELSE share[r]
        /\ run'[r] = IF r = p THEN "returned" ELSE run[r]
        /\ lock'[r] = IF r = p THEN None ELSE lock[r]
    BY <1>4 DEF TakeShare, generatorVars, Offers, TypeOK
  <2>2. CASE r # p
    BY <1>0, <2>1, <2>2 DEF Pays, Offers, InBroadcast
  <2>3. CASE r = p
    <3>1. /\ ~InBroadcast(r) /\ lock[r].qual \subseteq dealt[r]
          /\ Cardinality(dealt[r]) <= errors[r] + 1
      BY <1>0, <2>1, <2>3 DEF Pays, Offers, InBroadcast
    <3>2. Cardinality(lock[r].qual) >= t
      BY <2>1, <2>3 DEF Backed, Supports
    <3>3. /\ Cardinality(lock[r].qual) \in Nat /\ Cardinality(dealt[r]) \in Nat
          /\ Cardinality(lock[r].qual) <= Cardinality(dealt[r])
      <4>1. dealt[r] \subseteq Participant
        BY DEF TypeOK
      <4>. QED
        BY <3>1, <4>1, ParticipantSets
    <3>4. errors[r] + 1 >= t
      BY <1>0, <3>1, <3>2, <3>3
    <3>. QED
      BY <1>0, <2>1, <2>3, <3>1, <3>4 DEF Pays, Offers, InBroadcast
  <2>. QED
    BY <2>2, <2>3
<1>5. ASSUME NEW p \in Participant, NEW m \in inbox[p], ProcessDeal(p, m) PROVE Pays(r)'
  <2>0. /\ m.dealer \in Participant /\ lock[p] = None
        /\ dealt' = [dealt EXCEPT ![p] = @ \cup {m.dealer}]
        /\ approvals' = [approvals EXCEPT ![p][m.dealer] = {p}]
        /\ lock' = [lock EXCEPT ![p] = [op |-> "broadcast", dealer |-> m.dealer]]
        /\ UNCHANGED <<run, share, errors>>
    <3>1. m \in Message
      BY DEF TypeOK
    <3>. QED
      BY <1>5, <3>1 DEF ProcessDeal, Takes, Message
  <2>1. /\ m.dealer \in Participant /\ lock[p] = None
        /\ UNCHANGED <<run, share, errors>>
        /\ dealt'[r] = IF r = p THEN dealt[r] \cup {m.dealer} ELSE dealt[r]
        /\ lock'[r] = IF r = p THEN [op |-> "broadcast", dealer |-> m.dealer] ELSE lock[r]
        /\ \A d \in Participant : \/ approvals'[r][d] = approvals[r][d]
                                  \/ r = p /\ d = m.dealer
    BY <2>0 DEF TypeOK
  <2>2. CASE r # p
    BY <1>0, <2>1, <2>2 DEF Pays, Offers, InBroadcast
  <2>3. CASE r = p
    <3>1. lock'[r].op = "broadcast" /\ lock'[r] # None
      BY <2>1, <2>3, LocksDiffer
    <3>2. /\ Cardinality(dealt[r]) <= errors[r] + 1
          /\ Cardinality(dealt[r]) \in Nat /\ IsFiniteSet(dealt[r])
      <4>1. dealt[r] \subseteq Participant
        BY DEF TypeOK
      <4>. QED
        BY <1>0, <2>1, <2>3, <4>1, ParticipantSets DEF Pays, InBroadcast
    <3>3. /\ Cardinality(dealt'[r]) \in Nat
          /\ Cardinality(dealt'[r]) <= Cardinality(dealt[r]) + 1
      <4>1. CASE m.dealer \in dealt[r]
        <5>1. dealt'[r] = dealt[r]
          BY <2>1, <2>3, <4>1
        <5>. QED
          BY <3>2, <5>1
      <4>2. CASE m.dealer \notin dealt[r]
        <5>1. Cardinality(dealt[r] \cup {m.dealer}) = Cardinality(dealt[r]) + 1
          BY <3>2, <4>2, FS_AddElement
        <5>2. dealt'[r] = dealt[r] \cup {m.dealer}
          BY <2>1, <2>3
        <5>. QED
          BY <3>2, <5>1, <5>2
      <4>. QED
        BY <4>1, <4>2
    <3>4. Cardinality(dealt'[r]) <= errors'[r] + 2
      BY <1>0, <2>1, <3>2, <3>3
    <3>5. \A d \in Participant : approvals'[r][d] # {} => d \in dealt'[r]
      BY <1>0, <2>1, <2>3 DEF Pays
    <3>6. run'[r] = "returned" => share'[r] \subseteq dealt'[r] /\ errors'[r] + 1 >= t
      BY <1>0, <2>1, <2>3 DEF Pays
    <3>. QED
      BY <1>0, <3>1, <3>4, <3>5, <3>6 DEF Pays, Offers, InBroadcast
  <2>. QED
    BY <2>2, <2>3
<1>6. ASSUME NEW p \in Participant, NEW m \in inbox[p], ProcessResponse(p, m) PROVE Pays(r)'
  <2>1. /\ m.dealer \in Participant /\ lock[p] = None
        /\ UNCHANGED <<run, share, errors, dealt>>
        /\ \A d \in Participant : \/ approvals'[r][d] = approvals[r][d]
                                  \/ r = p /\ d = m.dealer /\ m.dealer \in dealt[r]
        /\ \/ lock'[r] = lock[r]
           \/ /\ r = p
              /\ lock'[r] = [op |-> "share", qual |-> Qualified(approvals'[r])]
    BY <1>6 DEF ProcessResponse, Takes, TypeOK, Message
  <2>2. \A d \in Participant : approvals'[r][d] # {} => d \in dealt'[r]
    BY <1>0, <2>1 DEF Pays
  <2>3. CASE lock'[r] = lock[r]
    BY <1>0, <2>1, <2>2, <2>3 DEF Pays, Offers, InBroadcast
  <2>4. CASE r = p /\ lock'[r] = [op |-> "share", qual |-> Qualified(approvals'[r])]
    <3>1. Qualified(approvals'[r]) \subseteq dealt'[r]
      <4>1. ASSUME NEW d \in Participant, DealCertified(approvals'[r][d])
            PROVE  approvals'[r][d] # {}
        BY <4>1, FS_EmptySet, ThresholdMajority DEF DealCertified
      <4>. QED
        BY <2>2, <4>1 DEF Qualified
    <3>2. lock'[r].op = "share" /\ lock'[r].qual = Qualified(approvals'[r]) /\ ~InBroadcast(r)
      BY <2>1, <2>4 DEF InBroadcast
    <3>. QED
      BY <1>0, <2>1, <2>2, <3>1, <3>2 DEF Pays, Offers, InBroadcast
  <2>. QED
    BY <2>1, <2>3, <2>4
<1>7. CASE UNCHANGED vars
  BY <1>0, <1>7 DEF vars, generatorVars, Pays, Offers, InBroadcast
<1>. QED
  BY <1>1, <1>2, <1>3, <1>4, <1>5, <1>6, <1>7 DEF Next

\* The invariant of every participant holds for ever.
LEMMA SpecPaid == Spec => []Paid
BY InitPaid, NextPaid, SpecIInv, PTL DEF Spec

\* For any number of participants, a share that Run has returned is made up of the deals of
\* a majority, which this participant has processed, and each of which a majority has
\* processed (processDeal, processResponse).
THEOREM ShareIsBacked == Spec => []ShareBacked
<1>1. IInv /\ Paid => ShareBacked
  <2>. SUFFICES ASSUME IInv, Paid, NEW p \in Participant, run[p] = "returned"
       PROVE  /\ Majority(share[p])
              /\ share[p] \subseteq dealt[p]
              /\ \A d \in share[p] : Majority(Processed(d))
    BY DEF ShareBacked
  <2>1. Supports(share[p]) /\ share[p] \subseteq dealt[p]
    BY DEF IInv, Backed, Paid, Pays
  <2>2. ASSUME NEW S, S \subseteq Participant, Cardinality(S) >= t PROVE Majority(S)
    BY <2>2, ParticipantSets, ThresholdMajority DEF Majority
  <2>. QED
    BY <2>1, <2>2 DEF Supports, Processed
<1>. QED
  BY <1>1, SpecIInv, SpecPaid, PTL

\* For any number of participants, a participant has a share only after t - 1 of its
\* Broadcasts have returned an error: as long as all Sends succeed, nobody gets one
\* (processDeal, Broadcast).
THEOREM ShareTakesErrors == Spec => []SharesNeedErrors
<1>1. IInv /\ Paid => SharesNeedErrors
  <2>. SUFFICES ASSUME IInv, Paid, NEW p \in Participant, run[p] = "returned"
       PROVE  errors[p] >= t - 1
    BY DEF SharesNeedErrors
  <2>1. errors[p] + 1 >= t /\ errors[p] \in Nat
    BY DEF IInv, TypeOK, Paid, Pays
  <2>. QED
    BY <2>1, ThresholdMajority
<1>. QED
  BY <1>1, SpecIInv, SpecPaid, PTL

-----------------------------------------------------------------------------
(***************************************************************************)
(* What is final.                                                          *)
(***************************************************************************)
RunOver(p) == run[p] \in {"returned", "failed"}

\* A call of Process sends a share on shareCh.
SendsShare(p) == lock[p] # None /\ lock[p].op = "share"

\* ... and nobody receives there any more.
Stuck(p) == RunOver(p) /\ SendsShare(p)

\* Sends that return change nothing of a Run that is over, nor of a Process that sends its
\* share.
LEMMA SendLeaves ==
  ASSUME NEW p \in Participant, NEW q \in Participant, NEW k \in Task(p, q), NEW ok \in BOOLEAN
  PROVE  /\ RunOver(p) => RunAfter(k) = run[p]
         /\ SendsShare(p) => LockAfter(k, ok) = lock[p]
<1>1. k.from = p
  BY DEF Task
<1>2. RunOver(p) => RunAfter(k) = run[p]
  BY <1>1 DEF RunOver, RunAfter, Counts
<1>3. ASSUME SendsShare(p) PROVE ~Ends(k, ok)
  <2>1. SUFFICES ASSUME lock[p] = [op |-> "broadcast", dealer |-> k.dealer] PROVE FALSE
    BY <1>1 DEF Ends
  <2>2. lock[p].op = "broadcast"
    BY <2>1
  <2>. QED
    BY <1>3, <2>2 DEF SendsShare
<1>. QED
  BY <1>1, <1>2, <1>3 DEF LockAfter

\* What no step changes once Run is over, and once Process is stuck.
LEMMA FinalSteps ==
  ASSUME TypeOK, [Next]_vars, NEW r \in Participant, RunOver(r)
  PROVE  /\ run'[r] = run[r] /\ share'[r] = share[r]
         /\ SendsShare(r) => lock'[r] = lock[r] /\ UNCHANGED <<dealt[r], approvals[r]>>
<1>1. ASSUME NEW p \in Participant, NEW q \in Participant, NEW k \in Task(p, q), SendFails(p, q, k)
      PROVE  /\ run'[r] = run[r] /\ share'[r] = share[r]
             /\ SendsShare(r) => lock'[r] = lock[r] /\ UNCHANGED <<dealt[r], approvals[r]>>
  <2>1. /\ run' = [run EXCEPT ![p] = RunAfter(k)]
        /\ lock' = [lock EXCEPT ![p] = LockAfter(k, FALSE)]
        /\ UNCHANGED <<dealt, approvals, share>>
    BY <1>1 DEF SendFails, generatorVars
  <2>2. RunOver(p) => RunAfter(k) = run[p]
    BY <1>1, SendLeaves
  <2>3. SendsShare(p) => LockAfter(k, FALSE) = lock[p]
    BY <1>1, SendLeaves
  <2>4. run'[r] = run[r]
    BY <2>1, <2>2 DEF TypeOK
  <2>5. SendsShare(r) => lock'[r] = lock[r]
    BY <2>1, <2>3 DEF TypeOK
  <2>. QED
    BY <2>1, <2>4, <2>5
<1>2. ASSUME NEW p \in Participant, NEW q \in Participant, p # q,
             NEW k \in Task(p, q), NEW j \in Task(q, p), Exchange(p, q, k, j)
      PROVE  /\ run'[r] = run[r] /\ share'[r] = share[r]
             /\ SendsShare(r) => lock'[r] = lock[r] /\ UNCHANGED <<dealt[r], approvals[r]>>
  <2>1. /\ run' = [run EXCEPT ![p] = RunAfter(k), ![q] = RunAfter(j)]
        /\ UNCHANGED <<dealt, approvals, share>>
    BY <1>2 DEF Exchange, generatorVars
  <2>2. PICK ok \in BOOLEAN, oj \in BOOLEAN :
          lock' = [lock EXCEPT ![p] = LockAfter(k, ok), ![q] = LockAfter(j, oj)]
    BY <1>2 DEF Exchange
  <2>3. RunOver(p) => RunAfter(k) = run[p]
    BY <1>2, SendLeaves
  <2>4. RunOver(q) => RunAfter(j) = run[q]
    BY <1>2, SendLeaves
  <2>5. SendsShare(p) => LockAfter(k, ok) = lock[p]
    BY <1>2, SendLeaves
  <2>6. SendsShare(q) => LockAfter(j, oj) = lock[q]
    BY <1>2, SendLeaves
  <2>7. run'[r] = run[r]
    BY <1>2, <2>1, <2>3, <2>4 DEF TypeOK
  <2>8. SendsShare(r) => lock'[r] = lock[r]
    BY <1>2, <2>2, <2>5, <2>6 DEF TypeOK
  <2>. QED
    BY <2>1, <2>7, <2>8
<1>3. ASSUME NEW p \in Participant, Timeout(p) \/ TakeShare(p)
      PROVE  /\ run'[r] = run[r] /\ share'[r] = share[r]
             /\ SendsShare(r) => lock'[r] = lock[r] /\ UNCHANGED <<dealt[r], approvals[r]>>
  <2>1. p # r
    BY <1>3 DEF Timeout, TakeShare, RunOver
  <2>. QED
    BY <1>3, <2>1 DEF Timeout, TakeShare, TypeOK, generatorVars
<1>4. ASSUME NEW p \in Participant, NEW m \in inbox[p], ProcessDeal(p, m) \/ ProcessResponse(p, m)
      PROVE  /\ run'[r] = run[r] /\ share'[r] = share[r]
             /\ SendsShare(r) => lock'[r] = lock[r] /\ UNCHANGED <<dealt[r], approvals[r]>>
  <2>1. UNCHANGED <<run, share>>
    BY <1>4 DEF ProcessDeal, ProcessResponse
  <2>2. ASSUME SendsShare(r) PROVE p # r
    BY <1>4, <2>2 DEF ProcessDeal, ProcessResponse, Takes, SendsShare
  <2>3. ASSUME SendsShare(r), ProcessDeal(p, m)
        PROVE  lock'[r] = lock[r] /\ UNCHANGED <<dealt[r], approvals[r]>>
    BY <2>2, <2>3 DEF ProcessDeal, TypeOK
  <2>4. ASSUME SendsShare(r), ProcessResponse(p, m)
        PROVE  lock'[r] = lock[r] /\ UNCHANGED <<dealt[r], approvals[r]>>
    BY <2>2, <2>4 DEF ProcessResponse, TypeOK
  <2>. QED
    BY <1>4, <2>1, <2>3, <2>4
<1>5. CASE UNCHANGED vars
  BY <1>5 DEF vars, generatorVars
<1>. QED
  BY <1>1, <1>2, <1>3, <1>4, <1>5 DEF Next

\* Run returns once, with one share: nothing that arrives, returns or times out later
\* changes what it has returned (Run, sendDeals).
THEOREM ShareIsFinal ==
  Spec => [][\A p \in Participant : RunOver(p) => run'[p] = run[p] /\ share'[p] = share[p]]_vars
<1>1. TypeOK /\ [Next]_vars =>
        [\A p \in Participant : RunOver(p) => run'[p] = run[p] /\ share'[p] = share[p]]_vars
  BY FinalSteps
<1>. QED
  BY <1>1, TypeCorrect, PTL DEF Spec

\* A Process that sends a share when Run is over holds the mutex for ever: no step of
\* anybody frees it, and the generator of that participant sees no further message
\* (processResponse sends on shareCh at every response once the key is certified).
THEOREM StuckStaysStuck ==
  Spec => [][\A p \in Participant :
               Stuck(p) => Stuck(p)' /\ UNCHANGED <<lock[p], dealt[p], approvals[p]>>]_vars
<1>1. ASSUME TypeOK, [Next]_vars, NEW p \in Participant, Stuck(p)
      PROVE  Stuck(p)' /\ UNCHANGED <<lock[p], dealt[p], approvals[p]>>
  <2>1. /\ run'[p] = run[p] /\ lock'[p] = lock[p]
        /\ UNCHANGED <<dealt[p], approvals[p]>>
    BY <1>1, FinalSteps DEF Stuck
  <2>. QED
    BY <1>1, <2>1 DEF Stuck, RunOver, SendsShare
<1>2. TypeOK /\ [Next]_vars =>
        [\A p \in Participant :
           Stuck(p) => Stuck(p)' /\ UNCHANGED <<lock[p], dealt[p], approvals[p]>>]_vars
  BY <1>1
<1>. QED
  BY <1>2, TypeCorrect, PTL DEF Spec

=============================================================================
