--------------------------- MODULE MCLocalManager ---------------------------
(***************************************************************************)
(* LocalManager for TLC: every listener and every connection is for the    *)
(* same address.                                                           *)
(***************************************************************************)
EXTENDS LocalManager

CONSTANTS l1, l2, x, SentOut, SentInc

MCMaxSent == [e \in End |-> IF e[2] = "out" THEN SentOut ELSE SentInc]

MCAddr == [i \in Listener |-> x]

MCOf == [i \in Call |-> IF i = 3 THEN l2 ELSE l1]

MCTo == [k \in Pair |-> x]

=============================================================================
