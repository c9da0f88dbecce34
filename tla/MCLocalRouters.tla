--------------------------- MODULE MCLocalRouters ---------------------------
(***************************************************************************)
(* LocalRouters for TLC: two routers that connect to each other.           *)
(***************************************************************************)
EXTENDS LocalRouters

CONSTANTS a, b, p, q, Sent

MCMaxSent == [e \in End |-> IF e = <<p, "inc">> THEN Sent ELSE 0]

MCFrom == [k \in Pair |-> IF k = p THEN a ELSE b]

MCDialed == [k \in Pair |-> IF k = p THEN b ELSE a]

=============================================================================
