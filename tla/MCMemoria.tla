----------------------------- MODULE MCMemoria -----------------------------
(***************************************************************************)
(* Instances of Memoria for TLC. Sizes are in units, not in bytes.         *)
(***************************************************************************)
EXTENDS Memoria, TLC

Simetria == Permutations(Procesos)
=============================================================================
