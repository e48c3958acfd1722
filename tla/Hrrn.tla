-------------------------------- MODULE Hrrn --------------------------------
(***************************************************************************)
(* READY under HRRN: what each process is judged by (its estimate and the  *)
(* second at which it became ready), who writes it and when, and whom the  *)
(* dispatcher takes. Planificador adds a process to READY in one step and  *)
(* leaves the choice open; here the eviction thread's calls are the single *)
(* steps of the code, because the mark is written without READY's          *)
(* semaphore and between two of them (kernel.c:323-329).                   *)
(*                                                                         *)
(* time() counts whole seconds. With HRRN_ALFA = 0.5, as every             *)
(* configuration of the repository has it, an estimate after n bursts is a *)
(* multiple of 2^-n: it is kept exactly, in units of 1/Unidad of a second. *)
(***************************************************************************)
EXTENDS Integers, SequencesExt

CONSTANTS
  Procesos, Ninguno,
  Operaciones,         \* the returns to the kernel the programs use
  Rafagas,             \* bound: bursts of a process before its EXIT
  MaxReloj,            \* bound: seconds
  EstimacionesIniciales, \* what ESTIMACION_INICIAL / 1000 may be: a division
                       \* of integers, 0 for less than a second
  Instancias           \* of the one resource

VARIABLES
  ahora,          \* time(NULL)
  listos,         \* READY, in the order of list_add
  marca,          \* ready_timestamp
  estimacion,     \* estimacion_rafaga
  rafagas,        \* bursts each process has run
  porMarcar,      \* the one the long-term thread adds, with READY's semaphore
  dispatcher,     \* what it waits for: "cpu", "listo", or "elige"
  exec,           \* in EXEC and not yet taken by the eviction thread
  pcb, pasos, inicio,  \* the eviction thread: whom it serves, its calls to come
  instancias, cola,    \* of the resource
  semCpu, semListo,    \* sem_cpu_disponible, sem_proceso_a_ready_terminado
  vigente,        \* history: those whose mark is of this stay in READY
  sinMarca,       \* history: those whose last return was one that leaves
                  \* the mark as it was
  delante         \* history: who was settled in READY when each began to enter

vars == <<ahora, listos, marca, estimacion, rafagas, porMarcar, dispatcher, exec,
          pcb, pasos, inicio, instancias, cola, semCpu, semListo, vigente, sinMarca, delante>>

planificacion == <<estimacion, rafagas, inicio>>
desalojo == <<pcb, pasos, instancias, cola>>
historia == <<vigente, sinMarca, delante>>

Unidad == 2 ^ (Rafagas + 1)

ASSUME HrrnOK ==
  /\ Ninguno \notin Procesos
  /\ Operaciones \subseteq {"YIELD", "IO", "F_READ", "F_TRUNCATE", "WAIT", "SIGNAL"}
  /\ EstimacionesIniciales \subseteq Nat /\ Unidad \in Nat

Init ==
  /\ ahora = 1 /\ listos = <<>> /\ exec = Ninguno /\ porMarcar = Ninguno
  /\ marca = [p \in Procesos |-> 0]
  /\ \E e \in EstimacionesIniciales : estimacion = [p \in Procesos |-> e * Unidad]
  /\ rafagas = [p \in Procesos |-> 0]
  /\ dispatcher = "cpu" /\ pcb = Ninguno /\ pasos = <<>> /\ inicio = 0
  /\ instancias = Instancias /\ cola = <<>>
  /\ semCpu = 1 /\ semListo = 0
  /\ vigente = {} /\ sinMarca = {} /\ delante = [p \in Procesos |-> {}]

Pasa ==
  /\ ahora < MaxReloj /\ ahora' = ahora + 1
  /\ UNCHANGED <<listos, marca, planificacion, porMarcar, dispatcher, exec,
                 desalojo, semCpu, semListo, historia>>

(* In READY, and with no write of its mark to come.                        *)
Asentados == Range(listos) \ (IF Head(pasos \o <<"nada">>) = "marca" THEN {pcb} ELSE {})

-----------------------------------------------------------------------------
(* The long-term thread. The mark and the list_add are both made with the  *)
(* semaphore of READY, which nobody else can take in between. A process    *)
(* that was never marked has not been admitted yet.                        *)
MarcaNuevo(p) ==
  /\ porMarcar = Ninguno /\ marca[p] = 0
  /\ porMarcar' = p
  /\ marca' = [marca EXCEPT ![p] = ahora]
  /\ vigente' = vigente \union {p}
  /\ delante' = [delante EXCEPT ![p] = Asentados]
  /\ UNCHANGED <<ahora, listos, planificacion, dispatcher, exec, desalojo,
                 semCpu, semListo, sinMarca>>

AgregaNuevo ==
  /\ porMarcar # Ninguno
  /\ listos' = Append(listos, porMarcar)
  /\ semListo' = semListo + 1
  /\ porMarcar' = Ninguno
  /\ UNCHANGED <<ahora, marca, planificacion, dispatcher, exec, desalojo,
                 semCpu, historia>>

-----------------------------------------------------------------------------
(* The dispatcher.                                                         *)
EsperaCpu ==
  /\ dispatcher = "cpu" /\ semCpu > 0
  /\ semCpu' = semCpu - 1 /\ dispatcher' = "listo"
  /\ UNCHANGED <<ahora, listos, marca, planificacion, porMarcar, exec, desalojo,
                 semListo, historia>>

EsperaListo ==
  /\ dispatcher = "listo" /\ semListo > 0
  /\ semListo' = semListo - 1 /\ dispatcher' = "elige"
  /\ UNCHANGED <<ahora, listos, marca, planificacion, porMarcar, exec, desalojo,
                 semCpu, historia>>

Espera(p) == ahora - marca[p]

(* __calcular_valor_hrrn(p) > __calcular_valor_hrrn(q), without the        *)
(* division: (e + w) / e is compared as w / e. With an estimate of zero    *)
(* the code divides by zero, and the infinities and NaN it gets compare as *)
(* these products do.                                                      *)
Supera(p, q) == Espera(p) * estimacion[q] > Espera(q) * estimacion[p]

(* Faulty variant: `>=` in the loop, so that a tie goes to the last.       *)
MaximoConEmpates == FoldLeft(LAMBDA m, p : IF Supera(m, p) THEN m ELSE p,
                             Head(listos), Tail(listos))

MaximoPorR == FoldLeft(LAMBDA m, p : IF Supera(p, m) THEN p ELSE m,
                       Head(listos), Tail(listos))

Elige ==
  /\ dispatcher = "elige" /\ porMarcar = Ninguno
  /\ LET p == MaximoPorR IN
     /\ listos' = RemoveFirst(listos, p)
     /\ exec' = p
     /\ vigente' = vigente \ {p}
     /\ delante' = [q \in Procesos |-> IF q = p THEN {} ELSE delante[q] \ {p}]
  /\ dispatcher' = "cpu"
  /\ UNCHANGED <<ahora, marca, planificacion, porMarcar, desalojo, semCpu,
                 semListo, sinMarca>>

-----------------------------------------------------------------------------
(* The eviction thread.                                                    *)
Toma ==
  /\ pasos = <<>> /\ exec # Ninguno
  /\ pcb' = exec /\ exec' = Ninguno
  /\ pasos' = <<"corre">> /\ inicio' = ahora
  /\ UNCHANGED <<ahora, listos, marca, estimacion, rafagas, porMarcar, dispatcher,
                 instancias, cola, semCpu, semListo, historia>>

(* Faulty variant: YIELD posts the CPU before it writes the mark.          *)
PasosYieldCpuAntes == <<"agrega", "cpu", "marca", "listo">>

PasosYield == <<"agrega", "marca", "cpu", "listo">>

(* What the handler of each return does, in its order. "pausa" is the I/O  *)
(* or the answer of the File System; F_WRITE does what F_READ does. Every  *)
(* call that only returns to the same process is like a WAIT that is       *)
(* granted: "sigue" puts it back in EXEC.                                  *)
Pasos(op) ==
  CASE op = "YIELD"      -> PasosYield
    [] op = "IO"         -> <<"pausa", "agrega", "marca", "cpu", "listo">>
    [] op = "F_READ"     -> <<"pausa", "agrega", "listo", "cpu">>
    [] op = "F_TRUNCATE" -> <<"cpu", "pausa", "agrega", "listo">>
    [] op = "WAIT"       -> IF instancias = 0 THEN <<"cpu">> ELSE <<"sigue">>
    [] op = "SIGNAL"     -> IF cola = <<>> THEN <<"sigue">>
                                           ELSE <<"sigue", "despierta", "listo">>
    [] op = "EXIT"       -> <<"cpu">>

(* pcb_estimar_proxima_rafaga, with alfa = 1/2.                            *)
Estima(t, anterior) == (t * Unidad + anterior) \div 2

(* The process comes back from the CPU: the next burst is estimated from   *)
(* the one that ended, whatever the reason, and the instruction is served. *)
Vuelve(op) ==
  /\ pasos = <<"corre">>
  /\ rafagas[pcb] < Rafagas \/ op = "EXIT"
  /\ rafagas' = [rafagas EXCEPT ![pcb] = @ + 1]
  /\ estimacion' = [estimacion EXCEPT ![pcb] = Estima(ahora - inicio, @)]
  /\ pasos' = Pasos(op)
  /\ instancias' = CASE op = "WAIT" /\ instancias > 0 -> instancias - 1
                     [] op = "SIGNAL" -> instancias + 1
                     [] OTHER -> instancias
  /\ cola' = IF op = "WAIT" /\ instancias = 0 THEN Append(cola, pcb) ELSE cola
  /\ sinMarca' = IF op \in {"F_READ", "F_TRUNCATE", "WAIT"} THEN sinMarca \union {pcb}
                                                           ELSE sinMarca \ {pcb}
  /\ UNCHANGED <<ahora, listos, marca, porMarcar, dispatcher, exec, pcb, inicio,
                 semCpu, semListo, vigente, delante>>

Da(paso) == pasos # <<>> /\ Head(pasos) = paso /\ pasos' = Tail(pasos)

(* list_add to READY of p, with its semaphore and no mark.                 *)
EntraEnListos(p) ==
  /\ porMarcar = Ninguno
  /\ listos' = Append(listos, p)
  /\ delante' = [delante EXCEPT ![p] = Asentados]

Agrega ==
  /\ Da("agrega") /\ EntraEnListos(pcb)
  /\ UNCHANGED <<ahora, marca, planificacion, porMarcar, dispatcher, exec, pcb,
                 instancias, cola, semCpu, semListo, vigente, sinMarca>>

Marca ==
  /\ Da("marca")
  /\ marca' = [marca EXCEPT ![pcb] = ahora]
  /\ vigente' = vigente \union ({pcb} \intersect Range(listos))
  /\ UNCHANGED <<ahora, listos, planificacion, porMarcar, dispatcher, exec, pcb,
                 instancias, cola, semCpu, semListo, sinMarca, delante>>

Despierta ==
  /\ Da("despierta") /\ EntraEnListos(Head(cola))
  /\ cola' = Tail(cola)
  /\ UNCHANGED <<ahora, marca, planificacion, porMarcar, dispatcher, exec, pcb,
                 instancias, semCpu, semListo, vigente, sinMarca>>

Sigue ==
  /\ Da("sigue") /\ exec' = pcb
  /\ UNCHANGED <<ahora, listos, marca, planificacion, porMarcar, dispatcher, pcb,
                 instancias, cola, semCpu, semListo, historia>>

Avisa ==
  /\ \/ Da("cpu")   /\ semCpu' = semCpu + 1 /\ UNCHANGED semListo
     \/ Da("listo") /\ semListo' = semListo + 1 /\ UNCHANGED semCpu
     \/ Da("pausa") /\ UNCHANGED <<semCpu, semListo>>
  /\ UNCHANGED <<ahora, listos, marca, planificacion, porMarcar, dispatcher, exec,
                 pcb, instancias, cola, historia>>

-----------------------------------------------------------------------------
Next ==
  \/ Pasa
  \/ (\E p \in Procesos : MarcaNuevo(p)) \/ AgregaNuevo
  \/ EsperaCpu \/ EsperaListo \/ Elige
  \/ Toma \/ (\E op \in Operaciones \union {"EXIT"} : Vuelve(op))
  \/ Agrega \/ Marca \/ Despierta \/ Sigue \/ Avisa

Spec == Init /\ [][Next]_vars

-----------------------------------------------------------------------------
(* "Timestamp en que el proceso llego a ready por ultima vez"              *)
(* (shared.h:85): when the dispatcher compares, the mark of every process  *)
(* of READY was written in this stay, unless it came by one of the ways    *)
(* that write none. YIELD and the end of an I/O write it after the         *)
(* list_add and without the semaphore: they are safe only because the      *)
(* dispatcher cannot come before they post the CPU.                        *)
MarcaDeEstaVez ==
  dispatcher = "elige" => Range(listos) \subseteq vigente \union sinMarca

(* A process with a mark of this stay overtakes one that was settled in    *)
(* READY when it began to enter only if its estimate is smaller: ties, and *)
(* entries within the same second, keep the order of arrival.              *)
NadieAdelanta ==
  [][\A p \in vigente : Contains(listos, p) /\ ~Contains(listos', p) =>
       \A q \in delante[p] : estimacion[p] < estimacion[q]]_vars
=============================================================================
