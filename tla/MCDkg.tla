------------------------------- MODULE MCDkg --------------------------------
(***************************************************************************)
(* Dkg for TLC: participants are interchangeable.                          *)
(***************************************************************************)
EXTENDS Dkg, TLC

DkgSymmetry == Permutations(Participant)

=============================================================================
