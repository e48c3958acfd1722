----------------------------- MODULE MCSistema -----------------------------
(***************************************************************************)
(* Instances of Sistema for TLC. Sizes are in units, not in bytes.         *)
(***************************************************************************)
EXTENDS Sistema, TLC

CONSTANT Instancias       (* the same number of instances for every resource *)

MCInstanciasIniciales == [r \in Recursos |-> Instancias]
=============================================================================
