----------------------------- MODULE MCSigning ------------------------------
(* Instances of Signing for TLC.                                           *)
EXTENDS Signing, TLC

Symmetry == Permutations(Tasks)
=============================================================================
