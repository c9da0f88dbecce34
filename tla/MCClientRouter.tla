--------------------------- MODULE MCClientRouter ---------------------------
(***************************************************************************)
(* ClientRouter for TLC: who sends to whom.                                *)
(***************************************************************************)
EXTENDS ClientRouter

CONSTANTS a, b, c, j

MCRank == [p \in Peer |-> CASE p = a -> 1 [] p = b -> 2 [] p = c -> 3]

Sends(p, q, n) == [from |-> p, ids |-> <<q>>, pos |-> 1, job |-> None, n |-> n]

Broadcasts(p, ids) == {[from |-> p, ids |-> ids, pos |-> i, job |-> j, n |-> 1] : i \in DOMAIN ids}

\* One broadcasts to two peers, of which one sends to it.
OneAnswers == Broadcasts(a, <<b, c>>) \cup {Sends(c, a, 1)}

=============================================================================
