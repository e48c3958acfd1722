------------------------------- MODULE MCHrrn -------------------------------
(***************************************************************************)
(* Instances of Hrrn for TLC.                                              *)
(***************************************************************************)
EXTENDS Hrrn, TLC

Simetria == Permutations(Procesos)
=============================================================================
