------------------------ MODULE PlanificadorAbstracto ------------------------
(***************************************************************************)
(* Planificador implements Multiprogramacion: the mapping of its lists and *)
(* threads to the abstract state.                                          *)
(***************************************************************************)
EXTENDS Planificador

(* The process for which the credit of the CPU is taken: in EXEC, with the *)
(* eviction thread, that keeps it during an I/O, an F_READ or F_WRITE, or  *)
(* with the dispatcher, on its way from READY to EXEC.                     *)
EnCpu == IF ejecutando # <<>> THEN ejecutando[1]
         ELSE IF pcDesalojo \in ConCpu THEN pcbDesalojo ELSE pcbCorto

(* In the queue of a resource, or in BLOCKED during an F_TRUNCATE.         *)
EnEspera == {p \in Admitidos : p # EnCpu /\ ~Contains(listos, p)}

Abstracto == INSTANCE Multiprogramacion WITH
  cola       <- nuevos,
  cpu        <- EnCpu,
  esperando  <- EnEspera,
  terminados <- {p \in Procesos : estado[p] = "LIBERADO"}

(* The three threads and their semaphores do together what the abstract    *)
(* specification says: no process enters out of order or beyond the        *)
(* degree, overtakes another in READY, is on the CPU with another or       *)
(* leaves a queue without entering the next place. For programs that do    *)
(* not use the calls that post a CPU still in use (kernel.c:383).          *)
ImplementaMultiprogramacion == Abstracto!Spec
=============================================================================
