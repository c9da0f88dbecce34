-------------------------- MODULE MCReliableStream --------------------------
(***************************************************************************)
(* ReliableStream for TLC, with a bound on the messages of each peer.      *)
(***************************************************************************)
EXTENDS ReliableStream

CONSTANTS InitiatorSends, ResponderSends

MCMaxSends == [p \in Peer |-> IF p = Initiator THEN InitiatorSends ELSE ResponderSends]

=============================================================================
