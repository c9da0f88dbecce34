------------------------------ MODULE MCRelay ------------------------------
(***************************************************************************)
(* Relay for TLC.  Some clients, the talkers, send more than the others;   *)
(* clients with the same bound are interchangeable, and so are channels.   *)
(***************************************************************************)
EXTENDS Relay, TLC

CONSTANTS Talker, TalkerMax, ListenerMax

MCMaxSent == [c \in Address |-> IF c \in Talker THEN TalkerMax ELSE ListenerMax]

RelaySymmetry == Permutations(Talker) \cup Permutations(Address \ Talker)
                   \cup Permutations(ChannelId)

============================================================================
