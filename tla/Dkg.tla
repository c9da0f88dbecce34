--------------------------------- MODULE Dkg ---------------------------------
(***************************************************************************)
(* The distributed key generation of client/dkg.go.  Every participant     *)
(* deals: Run sends a deal to each of the others, in goroutines, and waits *)
(* first for enough Sends to return or a timeout, then for its share.      *)
(* Process, called by the goroutines that read the router's streams,       *)
(* answers a deal by a Broadcast of a response and hands Run the share     *)
(* when enough deals have enough responses; it holds the mutex of the DKG  *)
(* throughout.                                                             *)
(*                                                                         *)
(* The router is what ClientRouter shows of it.  It makes one Send at a    *)
(* time, and a Send gets through only while the router of the peer is in a *)
(* Send to this participant: the two are one step.  Either may still       *)
(* return an error, and a message that has been accepted may be read late  *)
(* or never.  A Send may also fail before that, or wait for ever, as one   *)
(* to oneself does.                                                        *)
(*                                                                         *)
(* The generator is the kyber library, external: participants are honest   *)
(* and deals valid, so that every response is an approval and none calls   *)
(* for a justification, on which dkg.go does nothing.                      *)
(***************************************************************************)
EXTENDS Naturals, FiniteSets

CONSTANTS
  Participant,   \* DKG.participants
  MaxSends,      \* bound of the model: steps in which Sends return
  None           \* nobody holds the mutex

ASSUME DkgAssumption ==
  /\ IsFiniteSet(Participant)
  /\ MaxSends \in Nat
  /\ None \notin [op : {"broadcast"}, dealer : Participant]

n == Cardinality(Participant)

\* Mutant: half of the participants are enough.
t_Half == n \div 2

\* NewDKG: the default threshold.
t == n \div 2 + 1

Message == [kind : {"deal", "response"}, dealer : Participant, from : Participant]

VARIABLES
  run,        \* where Run is
  confirmed,  \* nbConfirmedNodes of sendDeals
  deals,      \* goroutines of sendDeals whose Send has not returned, by destination
  responses,  \* number of goroutines of Broadcast, by the dealer their response is for
  inbox,      \* messages that the streams of a participant have accepted
  lock,       \* DKG.Mutex: what the call of Process that holds it waits for
  dealt,      \* generator: the dealers whose deals it has
  approvals,  \* generator: the participants that have approved a deal
  share,      \* the dealers whose deals make up the share that Run has returned
  errors,     \* history: number of Broadcasts that have returned an error
  sends       \* history: number of steps in which Sends have returned

generatorVars == <<dealt, approvals>>
vars == <<run, confirmed, deals, responses, inbox, lock, generatorVars, share, errors, sends>>

TypeOK ==
  /\ run \in [Participant -> {"deals", "share", "returned", "failed"}]
  /\ confirmed \in [Participant -> 0..t]
  /\ deals \in [Participant -> SUBSET Participant]
  /\ responses \in [Participant -> [Participant -> 0..n]]
  /\ inbox \in [Participant -> SUBSET Message]
  /\ lock \in [Participant -> [op : {"broadcast"}, dealer : Participant]
                                \cup [op : {"share"}, qual : SUBSET Participant] \cup {None}]
  /\ dealt \in [Participant -> SUBSET Participant]
  /\ approvals \in [Participant -> [Participant -> SUBSET Participant]]
  /\ share \in [Participant -> SUBSET Participant]
  /\ errors \in [Participant -> Nat]
  /\ sends \in 0..MaxSends

\* NewDKG, and Run up to the wait of sendDeals: dkg.Deals has processed the
\* participant's own deal, and a goroutine sends each of the others.
Init ==
  /\ run = [p \in Participant |-> "deals"]
  /\ confirmed = [p \in Participant |-> 0]
  /\ deals = [p \in Participant |-> Participant \ {p}]
  /\ responses = [p \in Participant |-> [d \in Participant |-> 0]]
  /\ inbox = [p \in Participant |-> {}]
  /\ lock = [p \in Participant |-> None]
  /\ dealt = [p \in Participant |-> {p}]
  /\ approvals = [p \in Participant |-> [d \in Participant |-> {p} \cap {d}]]
  /\ share = [p \in Participant |-> {}]
  /\ errors = [p \in Participant |-> 0]
  /\ sends = 0

-----------------------------------------------------------------------------
(***************************************************************************)
(* The goroutines of sendDeals and of Broadcast.  A task is what one of    *)
(* them sends.  Those of a Broadcast share the variable of its loop, so    *)
(* that any of them may send to anybody.                                   *)
(***************************************************************************)
Task(p, q) ==
  {[kind |-> "deal", dealer |-> p, from |-> p] : x \in deals[p] \cap {q}}
    \cup {[kind |-> "response", dealer |-> d, from |-> p] :
            d \in {x \in Participant : responses[p][x] > 0}}

\* sendDeals: e := <-global.  An error counts as much as anything, and nobody
\* takes what comes after the return of sendDeals.
Counts(k) == k.kind = "deal" /\ run[k.from] = "deals"

Confirmed(k) == confirmed[k.from] + (IF Counts(k) THEN 1 ELSE 0)

RunAfter(k) == IF Counts(k) /\ Confirmed(k) >= t THEN "share" ELSE run[k.from]

DealsAfter(k, q) == IF k.kind = "deal" THEN deals[k.from] \ {q} ELSE deals[k.from]

ResponsesAfter(k) ==
  IF k.kind = "deal" THEN responses[k.from]
                     ELSE [responses[k.from] EXCEPT ![k.dealer] = @ - 1]

\* Mutant: it returns with the first result.
Ends_FirstResult(k, ok) == k.kind = "response"
                            /\ lock[k.from] = [op |-> "broadcast", dealer |-> k.dealer]

\* Broadcast: err := <-done.  It returns with the first error and counts nothing.
Ends(k, ok) == ~ok /\ k.kind = "response"
                /\ lock[k.from] = [op |-> "broadcast", dealer |-> k.dealer]

LockAfter(k, ok) == IF Ends(k, ok) THEN None ELSE lock[k.from]

ErrorsAfter(k, ok) == errors[k.from] + (IF ~ok /\ Ends(k, ok) THEN 1 ELSE 0)

CountSend == sends < MaxSends /\ sends' = sends + 1

\* The Send of k by p and the Send of j by q, on the stream that they open.
Exchange(p, q, k, j) ==
  /\ CountSend
  /\ deals' = [deals EXCEPT ![p] = DealsAfter(k, q), ![q] = DealsAfter(j, p)]
  /\ responses' = [responses EXCEPT ![p] = ResponsesAfter(k), ![q] = ResponsesAfter(j)]
  /\ inbox' = [inbox EXCEPT ![q] = @ \cup {k}, ![p] = @ \cup {j}]
  /\ confirmed' = [confirmed EXCEPT ![p] = Confirmed(k), ![q] = Confirmed(j)]
  /\ run' = [run EXCEPT ![p] = RunAfter(k), ![q] = RunAfter(j)]
  /\ \E ok, oj \in BOOLEAN :
       /\ lock' = [lock EXCEPT ![p] = LockAfter(k, ok), ![q] = LockAfter(j, oj)]
       /\ errors' = [errors EXCEPT ![p] = ErrorsAfter(k, ok), ![q] = ErrorsAfter(j, oj)]
  /\ UNCHANGED <<generatorVars, share>>

\* The Send of k by p to q fails.
SendFails(p, q, k) ==
  /\ CountSend
  /\ deals' = [deals EXCEPT ![p] = DealsAfter(k, q)]
  /\ responses' = [responses EXCEPT ![p] = ResponsesAfter(k)]
  /\ confirmed' = [confirmed EXCEPT ![p] = Confirmed(k)]
  /\ run' = [run EXCEPT ![p] = RunAfter(k)]
  /\ lock' = [lock EXCEPT ![p] = LockAfter(k, FALSE)]
  /\ errors' = [errors EXCEPT ![p] = ErrorsAfter(k, FALSE)]
  /\ UNCHANGED <<inbox, generatorVars, share>>

-----------------------------------------------------------------------------
(***************************************************************************)
(* The rest of Run.                                                        *)
(***************************************************************************)

\* <-timeoutCh: Run returns an error.
Timeout(p) ==
  /\ run[p] = "deals"
  /\ run' = [run EXCEPT ![p] = "failed"]
  /\ UNCHANGED <<confirmed, deals, responses, inbox, lock, generatorVars, share, errors, sends>>

\* share := <-d.shareCh, and Process goes on.
TakeShare(p) ==
  /\ run[p] = "share"
  /\ lock[p] # None /\ lock[p].op = "share"
  /\ share' = [share EXCEPT ![p] = lock[p].qual]
  /\ run' = [run EXCEPT ![p] = "returned"]
  /\ lock' = [lock EXCEPT ![p] = None]
  /\ UNCHANGED <<confirmed, deals, responses, inbox, generatorVars, errors, sends>>

-----------------------------------------------------------------------------
(***************************************************************************)
(* Process, with the mutex.                                                *)
(***************************************************************************)
Takes(p, m, kind) ==
  /\ lock[p] = None
  /\ m.kind = kind
  /\ inbox' = [inbox EXCEPT ![p] = @ \ {m}]

\* processDeal: the generator approves the deal, and the response is broadcast, to
\* everybody.
ProcessDeal(p, m) ==
  /\ Takes(p, m, "deal")
  /\ dealt' = [dealt EXCEPT ![p] = @ \cup {m.dealer}]
  /\ approvals' = [approvals EXCEPT ![p][m.dealer] = {p}]
  /\ responses' = [responses EXCEPT ![p][m.dealer] = n]
  /\ lock' = [lock EXCEPT ![p] = [op |-> "broadcast", dealer |-> m.dealer]]
  /\ UNCHANGED <<run, confirmed, deals, share, errors, sends>>

\* A deal is certified by t approvals (kyber)...
DealCertified(as) == Cardinality(as) >= t

\* ... and the key by t deals.
Qualified(ap) == {d \in Participant : DealCertified(ap[d])}

Certified(ap) == Cardinality(Qualified(ap)) >= t

\* processResponse: a response for a deal that has not come is an error, which is
\* only logged.  When the key is certified, and at every response after that, a
\* share is sent on shareCh, for which somebody must be waiting.
ProcessResponse(p, m) ==
  /\ Takes(p, m, "response")
  /\ approvals' = IF m.dealer \in dealt[p]
                  THEN [approvals EXCEPT ![p][m.dealer] = @ \cup {m.from}] ELSE approvals
  /\ lock' = IF Certified(approvals'[p])
             THEN [lock EXCEPT ![p] = [op |-> "share", qual |-> Qualified(approvals'[p])]]
             ELSE lock
  /\ UNCHANGED <<run, confirmed, deals, responses, dealt, share, errors, sends>>

-----------------------------------------------------------------------------
Next ==
  \/ \E p, q \in Participant : \E k \in Task(p, q) :
       \/ SendFails(p, q, k)
       \/ p # q /\ \E j \in Task(q, p) : Exchange(p, q, k, j)
  \/ \E p \in Participant :
       \/ Timeout(p) \/ TakeShare(p)
       \/ \E m \in inbox[p] : ProcessDeal(p, m) \/ ProcessResponse(p, m)

Spec == Init /\ [][Next]_vars

-----------------------------------------------------------------------------
(***************************************************************************)
(* Properties.                                                             *)
(***************************************************************************)

\* The participants whose generators have the deal of d.
Processed(d) == {q \in Participant : d \in dealt[q]}

Majority(S) == 2 * Cardinality(S) > n

\* A share that Run has returned is made up of the deals of a majority, all of which
\* this participant has processed and each of which a majority has processed,
\* whichever messages were lost, sent to the wrong participant or read before the
\* deal they are about (NewDKG, sendDeals, processDeal, Broadcast, processResponse).
\* It does not say that one majority has processed all of them, nor that the shares
\* of two participants are made up of the same deals: nothing in the code agrees on
\* them.
ShareBacked == \A p \in Participant : run[p] = "returned" =>
  /\ Majority(share[p])
  /\ share[p] \subseteq dealt[p]
  /\ \A d \in share[p] : Majority(Processed(d))

\* Nobody gets a share as long as all Sends succeed.  A share takes the deals of t - 1
\* others, processDeal keeps the mutex until its Broadcast returns, and Broadcast, which
\* does not count the results, returns with an error only: every share has been paid
\* for with t - 1 Broadcasts that failed (processDeal, Broadcast, processResponse).
SharesNeedErrors == \A p \in Participant : run[p] = "returned" => errors[p] >= t - 1

=============================================================================
