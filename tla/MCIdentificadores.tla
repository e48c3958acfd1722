-------------------------- MODULE MCIdentificadores --------------------------
(***************************************************************************)
(* Instances of Identificadores for TLC.                                   *)
(***************************************************************************)
EXTENDS Identificadores, TLC

Simetria == Permutations(Consolas)
=============================================================================
