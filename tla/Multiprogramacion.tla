-------------------------- MODULE Multiprogramacion --------------------------
(***************************************************************************)
(* What the kernel promises to the programs, with no thread, semaphore or  *)
(* list of its own: processes enter in the order they arrived, at most     *)
(* Grado are inside, one at most has the CPU, it is given to the one that  *)
(* has been ready for longest (or to any, with HRRN), and a process that   *)
(* entered is always in exactly one place until it ends.                   *)
(***************************************************************************)
EXTENDS Integers, SequencesExt

CONSTANTS Procesos, Grado, Algoritmo, Ninguno

VARIABLES
  cola,         \* the processes that wait to enter, in order
  listos,       \* the processes that wait for the CPU, in order
  cpu,          \* the one that has it, or Ninguno
  esperando,    \* those that wait for something else
  terminados

vars == <<cola, listos, cpu, esperando, terminados>>

Adentro == Range(listos) \union esperando \union ({cpu} \ {Ninguno})

Init ==
  /\ cola = <<>> /\ listos = <<>> /\ cpu = Ninguno
  /\ esperando = {} /\ terminados = {}

Llega(p) ==
  /\ p \notin Range(cola) \union Adentro \union terminados
  /\ cola' = Append(cola, p)
  /\ UNCHANGED <<listos, cpu, esperando, terminados>>

Entra ==
  /\ cola # <<>> /\ Cardinality(Adentro) < Grado
  /\ cola' = Tail(cola)
  /\ listos' = Append(listos, Head(cola))
  /\ UNCHANGED <<cpu, esperando, terminados>>

Despacha(i) ==
  /\ cpu = Ninguno
  /\ i \in DOMAIN listos /\ (Algoritmo = "FIFO" => i = 1)
  /\ cpu' = listos[i]
  /\ listos' = RemoveAt(listos, i)
  /\ UNCHANGED <<cola, esperando, terminados>>

(* The process with the CPU leaves it and is ready, waits or ends.         *)
Deja ==
  /\ cpu # Ninguno /\ cpu' = Ninguno
  /\ \/ listos' = Append(listos, cpu) /\ UNCHANGED <<esperando, terminados>>
     \/ esperando' = esperando \union {cpu} /\ UNCHANGED <<listos, terminados>>
     \/ terminados' = terminados \union {cpu} /\ UNCHANGED <<listos, esperando>>
  /\ UNCHANGED cola

Vuelve(p) ==
  /\ p \in esperando
  /\ esperando' = esperando \ {p}
  /\ listos' = Append(listos, p)
  /\ UNCHANGED <<cola, cpu, terminados>>

Next ==
  \/ Entra \/ Deja
  \/ \E p \in Procesos : Llega(p) \/ Vuelve(p)
  \/ \E i \in DOMAIN listos : Despacha(i)

Spec == Init /\ [][Next]_vars
=============================================================================
