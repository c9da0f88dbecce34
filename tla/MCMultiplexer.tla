--------------------------- MODULE MCMultiplexer ---------------------------
(***************************************************************************)
(* Multiplexer for TLC, with two goroutines, which use the same channels   *)
(* or not, and bounds on the payloads of shared and of private channels.   *)
(***************************************************************************)
EXTENDS Multiplexer

CONSTANTS FirstThread, FirstChannels, OtherChannels, SharedForward, PrivateForward

MCUses == [t \in Thread |-> IF t = FirstThread THEN FirstChannels ELSE OtherChannels]

MCMaxForward == [id \in ChannelId |-> IF id \in FirstChannels \cap OtherChannels
                                      THEN SharedForward ELSE PrivateForward]

============================================================================
