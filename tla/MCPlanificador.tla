--------------------------- MODULE MCPlanificador ---------------------------
(***************************************************************************)
(* Instances of Planificador for TLC.                                      *)
(***************************************************************************)
EXTENDS PlanificadorAbstracto, TLC

CONSTANT Instancias       (* the same number of instances for every resource *)

MCInstanciasIniciales == [r \in Recursos |-> Instancias]

(* Every action treats the processes alike.                                *)
Simetria == Permutations(Procesos)
=============================================================================
