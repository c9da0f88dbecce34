-------------------------- MODULE OrderedDelivery --------------------------
(***************************************************************************)
(* What a reliable stream promises its two ends, in both directions        *)
(* (client/stream.go: "provides super basic properties like ordering and   *)
(* reliability over the given stream").  The messages of a peer are        *)
(* numbered in the order it submits them.  The other end accepts them in   *)
(* that order and none twice; it may miss some.  A submission is confirmed *)
(* only when the other end has accepted it.                                *)
(***************************************************************************)
EXTENDS Naturals, Sequences

CONSTANT Peer

VARIABLES
  submitted,  \* number of messages this peer has submitted
  accepted,   \* messages of this peer that the other end has accepted
  confirmed   \* messages of this peer whose submission has been confirmed

vars == <<submitted, accepted, confirmed>>

Init ==
  /\ submitted = [p \in Peer |-> 0]
  /\ accepted = [p \in Peer |-> <<>>]
  /\ confirmed = [p \in Peer |-> {}]

Submit(p) ==
  /\ submitted' = [submitted EXCEPT ![p] = @ + 1]
  /\ UNCHANGED <<accepted, confirmed>>

Accept(p, n) ==
  /\ n \in 1..submitted[p]
  /\ \A i \in DOMAIN accepted[p] : accepted[p][i] < n
  /\ accepted' = [accepted EXCEPT ![p] = Append(@, n)]
  /\ UNCHANGED <<submitted, confirmed>>

Confirm(p) ==
  /\ \E i \in DOMAIN accepted[p] : accepted[p][i] = submitted[p]
  /\ confirmed' = [confirmed EXCEPT ![p] = @ \cup {submitted[p]}]
  /\ UNCHANGED <<submitted, accepted>>

Next == \E p \in Peer :
  \/ Submit(p)
  \/ \E n \in 1..submitted[p] : Accept(p, n)
  \/ Confirm(p)

Spec == Init /\ [][Next]_vars

=============================================================================
