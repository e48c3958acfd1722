---------------------------- MODULE Planificador ----------------------------
(***************************************************************************)
(* The kernel of TUKI (src/modules/kernel/src/kernel.c): the threads that  *)
(* schedule processes and the handlers of the instructions that the CPU    *)
(* returns to the kernel.                                                  *)
(*                                                                         *)
(* Threads:                                                                *)
(*   - one per console, which creates the PCB and queues it in NEW;        *)
(*   - the long-term scheduler (largo plazo), which admits NEW into READY; *)
(*   - the dispatcher (corto plazo), which moves READY into EXEC;          *)
(*   - the eviction thread (desalojo), which sends the head of EXEC to the *)
(*     CPU, waits for it to come back and runs the handler of the          *)
(*     instruction it came back with.                                      *)
(*                                                                         *)
(* A step is the code a thread runs between two places where it can wait:  *)
(* a semaphore, a mutex, the reply of another module or a sleep. Lists are *)
(* changed under their own semaphore, which is never kept across a wait    *)
(* but by the long-term scheduler, that keeps the one of NEW from list_get *)
(* to the admission: only that one is a variable (semNew). A handler that  *)
(* moves the process it has in its hands is one step, whatever semaphores  *)
(* of lists it waits for: no other thread looks for that process. The      *)
(* exception to all this is buscar_proceso, which reads every list with no *)
(* semaphore (see Sistema): it may run while a process is between READY    *)
(* and EXEC in the dispatcher, which are two steps for that reason.        *)
(* A user program is any sequence of at most MaxInstrucciones instructions *)
(* of the set Instrucciones, then EXIT.                                    *)
(***************************************************************************)
EXTENDS Integers, SequencesExt

CONSTANTS
  Procesos,               (* the processes that consoles submit            *)
  Recursos,               (* RECURSOS of kernel.config                     *)
  InstanciasIniciales,    (* INSTANCIAS_RECURSOS, a number per resource    *)
  Archivos,               (* the file names that programs use              *)
  Grado,                  (* GRADO_MAX_MULTIPROGRAMACION                   *)
  Algoritmo,              (* ALGORITMO_PLANIFICACION                       *)
  Instrucciones,          (* the system calls the programs contain         *)
  MaxInstrucciones,       (* bound: system calls of a program before EXIT  *)
  RespuestasMemoria,      (* what memory answers to a first CREATE_SEGMENT *)
  RespuestasReintento,    (* what it answers after a compaction            *)
  Ninguno                 (* no process                                    *)

LlamadasAlSistema ==
  {"YIELD", "F_OPEN", "F_CLOSE", "F_TRUNCATE", "F_SEEK", "F_READ", "F_WRITE",
   "SEGMENTATION_FAULT", "I/O", "WAIT", "SIGNAL", "CREATE_SEGMENT",
   "DELETE_SEGMENT"}

Respuestas == {"AUX_OK", "COMPACTACION", "OUT_OF_MEMORY"}

ASSUME ConstantesOK ==
  /\ Ninguno \notin Procesos
  /\ InstanciasIniciales \in [Recursos -> Nat]
  /\ Grado \in Nat \ {0}
  /\ Algoritmo \in {"FIFO", "HRRN"}
  /\ Instrucciones \subseteq LlamadasAlSistema
  /\ MaxInstrucciones \in Nat
  /\ RespuestasMemoria \subseteq Respuestas
  /\ RespuestasReintento \subseteq Respuestas

VARIABLES
  nuevos, listos, ejecutando, bloqueados,  \* lista_estados[NEW..BLOCKED]
  estado,           \* pcb->estado, and whether the PCB exists
  restantes,        \* how many instructions the program still has before EXIT
  pcConsola,        \* where the console thread of each process is
  pcLargo, pcbLargo,    \* enviar_proceso_a_ready and its local pcb
  pcCorto, pcbCorto,    \* _planificador_corto_plazo and its pcbParaEjecutar
  pcDesalojo, pcbDesalojo,  \* manejo_desalojo_pcb and its pcb_recibido
  reintento,        \* the handler of CREATE_SEGMENT runs for the second time
  semNew,           \* sem_lista_estados[ENUM_NEW]
  semInicializar,   \* sem_proceso_a_ready_inicializar
  semTerminado,     \* sem_proceso_a_ready_terminado
  semCpu,           \* sem_cpu_disponible
  semGrado,         \* sem_grado_multiprogamacion
  executing,        \* sem_proceso_a_executing is unlocked
  mutexMemoria,     \* who holds mutex_memoria
  instancias, colaRecurso,   \* diccionario_recursos
  saldo,            \* history: initial instances + signals - waits granted
  tablaAbiertos, colaArchivo,  \* tablaArchivosAbiertos and its waiting lists
  abiertos,         \* pcb->lista_archivos_abiertos
  caido             \* the kernel died on a NULL pointer

listas    == <<nuevos, listos, ejecutando, bloqueados>>
semaforos == <<semNew, semInicializar, semTerminado, semCpu, semGrado>>
recursos  == <<instancias, colaRecurso, saldo>>
archivos  == <<tablaAbiertos, colaArchivo, abiertos>>
largo     == <<pcLargo, pcbLargo>>
corto     == <<pcCorto, pcbCorto>>
desalojo  == <<pcDesalojo, pcbDesalojo, reintento>>
programas == <<restantes, pcConsola>>
vars == <<listas, estado, programas, largo, corto, desalojo, semaforos,
          executing, mutexMemoria, recursos, archivos, caido>>

-----------------------------------------------------------------------------
(* inicializar_listas_estados, inicializar_semaforos (the mutex of EXEC    *)
(* starts locked) and inicializar_diccionario_recursos.                    *)
Init ==
  /\ nuevos = <<>> /\ listos = <<>> /\ ejecutando = <<>> /\ bloqueados = <<>>
  /\ estado = [p \in Procesos |-> "INEXISTENTE"]
  /\ restantes = [p \in Procesos |-> MaxInstrucciones]
  /\ pcConsola = [p \in Procesos |-> "desconectada"]
  /\ pcLargo = "inicializar" /\ pcbLargo = Ninguno
  /\ pcCorto = "cpu_disponible" /\ pcbCorto = Ninguno
  /\ pcDesalojo = "executing" /\ pcbDesalojo = Ninguno /\ reintento = FALSE
  /\ semNew = 1 /\ semInicializar = 0 /\ semTerminado = 0
  /\ semCpu = 1 /\ semGrado = Grado
  /\ executing = FALSE
  /\ mutexMemoria = "libre"
  /\ instancias = InstanciasIniciales
  /\ colaRecurso = [r \in Recursos |-> <<>>]
  /\ saldo = InstanciasIniciales
  /\ tablaAbiertos = {}
  /\ colaArchivo = [f \in Archivos |-> <<>>]
  /\ abiertos = [p \in Procesos |-> {}]
  /\ caido = FALSE

(* obtener_index_pcb_de_lista: the first position of p in a list.          *)
Indice(s, p) == CHOOSE i \in 1..Len(s) : s[i] = p /\ \A j \in 1..i-1 : s[j] # p

-----------------------------------------------------------------------------
(* Console threads: nuevo_proceso creates the PCB and then waits for the   *)
(* semaphore of NEW to queue it.                                           *)
CreaPCB(p) ==
  /\ ~caido /\ pcConsola[p] = "desconectada"
  /\ pcConsola' = [pcConsola EXCEPT ![p] = "agrega_new"]
  /\ estado' = [estado EXCEPT ![p] = "NEW"]
  /\ UNCHANGED <<listas, restantes, largo, corto, desalojo, semaforos,
                 executing, mutexMemoria, recursos, archivos, caido>>

AgregaNew(p) ==
  /\ ~caido /\ pcConsola[p] = "agrega_new" /\ semNew = 1
  /\ nuevos' = Append(nuevos, p)
  /\ semInicializar' = semInicializar + 1
  /\ pcConsola' = [pcConsola EXCEPT ![p] = "fin"]
  /\ UNCHANGED <<listos, ejecutando, bloqueados, estado, restantes, largo,
                 corto, desalojo, semNew, semTerminado, semCpu, semGrado,
                 executing, mutexMemoria, recursos, archivos, caido>>

-----------------------------------------------------------------------------
(* Long-term scheduler: the steps of enviar_proceso_a_ready.               *)
PasoLargo(de, a) == ~caido /\ pcLargo = de /\ pcLargo' = a

LargoInicializar ==
  /\ PasoLargo("inicializar", "lista_new")
  /\ semInicializar > 0
  /\ semInicializar' = semInicializar - 1
  /\ UNCHANGED <<listas, estado, programas, pcbLargo, corto, desalojo, semNew,
                 semTerminado, semCpu, semGrado, executing, mutexMemoria,
                 recursos, archivos, caido>>

LargoTomaNew ==
  /\ PasoLargo("lista_new", "mutex_memoria")
  /\ semNew = 1
  /\ semNew' = 0
  /\ pcbLargo' = Head(nuevos)
  /\ UNCHANGED <<listas, estado, programas, corto, desalojo, semInicializar,
                 semTerminado, semCpu, semGrado, executing, mutexMemoria,
                 recursos, archivos, caido>>

(* Faulty variant: without waiting for mutex_memoria.                      *)
LargoPideTablaSinEsperar ==
  /\ PasoLargo("mutex_memoria", "create_pcb")
  /\ mutexMemoria' = "largo"
  /\ UNCHANGED <<listas, estado, programas, pcbLargo, corto, desalojo,
                 semaforos, executing, recursos, archivos, caido>>

LargoPideTabla ==
  /\ PasoLargo("mutex_memoria", "create_pcb")
  /\ mutexMemoria = "libre"
  /\ mutexMemoria' = "largo"
  /\ UNCHANGED <<listas, estado, programas, pcbLargo, corto, desalojo,
                 semaforos, executing, recursos, archivos, caido>>

LargoRecibeTabla ==
  /\ PasoLargo("create_pcb", "grado")
  /\ mutexMemoria' = "libre"
  /\ UNCHANGED <<listas, estado, programas, pcbLargo, corto, desalojo,
                 semaforos, executing, recursos, archivos, caido>>

(* NEW has been held since LargoTomaNew, so the PCB removed by             *)
(* cambiar_estado_proceso_sin_semaforos is still the head of the list.     *)
LargoAdmite ==
  /\ PasoLargo("grado", "inicializar")
  /\ semGrado > 0
  /\ semGrado' = semGrado - 1
  /\ nuevos' = Tail(nuevos)
  /\ listos' = Append(listos, pcbLargo)
  /\ estado' = [estado EXCEPT ![pcbLargo] = "READY"]
  /\ semNew' = 1
  /\ semTerminado' = semTerminado + 1
  /\ pcbLargo' = Ninguno
  /\ UNCHANGED <<ejecutando, bloqueados, programas, corto, desalojo,
                 semInicializar, semCpu, executing, mutexMemoria, recursos,
                 archivos, caido>>

-----------------------------------------------------------------------------
(* Dispatcher: the loop of _planificador_corto_plazo.                      *)
PasoCorto(de, a) == ~caido /\ pcCorto = de /\ pcCorto' = a

CortoEsperaCpu ==
  /\ PasoCorto("cpu_disponible", "terminado")
  /\ semCpu > 0
  /\ semCpu' = semCpu - 1
  /\ UNCHANGED <<listas, estado, programas, largo, pcbCorto, desalojo, semNew,
                 semInicializar, semTerminado, semGrado, executing,
                 mutexMemoria, recursos, archivos, caido>>

CortoEsperaListo ==
  /\ PasoCorto("terminado", "elegir")
  /\ semTerminado > 0
  /\ semTerminado' = semTerminado - 1
  /\ UNCHANGED <<listas, estado, programas, largo, pcbCorto, desalojo, semNew,
                 semInicializar, semCpu, semGrado, executing, mutexMemoria,
                 recursos, archivos, caido>>

(* elegir_pcb_segun_fifo takes index 0; obtener_maximo_por_R takes the     *)
(* highest response ratio, which depends on clocks and estimates that are  *)
(* not modelled, so any position of the list. The process is in no list    *)
(* until agregar_a_lista_con_sem, which writes EXEC in its estado, has     *)
(* waited for the semaphore of EXEC.                                       *)
Elegibles == IF Algoritmo = "FIFO" THEN {1} ELSE DOMAIN listos

CortoElige ==
  /\ PasoCorto("elegir", "agregar")
  /\ listos # <<>>
  /\ \E i \in Elegibles :
       /\ listos' = RemoveAt(listos, i)
       /\ pcbCorto' = listos[i]
       /\ estado' = [estado EXCEPT ![listos[i]] = "EXEC"]
  /\ UNCHANGED <<nuevos, ejecutando, bloqueados, programas, largo, desalojo,
                 semaforos, executing, mutexMemoria, recursos, archivos, caido>>

CortoAgrega ==
  /\ PasoCorto("agregar", "avisar")
  /\ ejecutando' = Append(ejecutando, pcbCorto)
  /\ pcbCorto' = Ninguno
  /\ UNCHANGED <<nuevos, listos, bloqueados, estado, programas, largo, desalojo,
                 semaforos, executing, mutexMemoria, recursos, archivos, caido>>

(* pthread_mutex_unlock(&sem_proceso_a_executing): a second unlock before  *)
(* the eviction thread locks it again is lost.                             *)
CortoAvisa ==
  /\ PasoCorto("avisar", "cpu_disponible")
  /\ executing' = TRUE
  /\ UNCHANGED <<listas, estado, programas, largo, pcbCorto, desalojo, semaforos,
                 mutexMemoria, recursos, archivos, caido>>

-----------------------------------------------------------------------------
(* Eviction thread: manejo_desalojo_pcb takes the head of EXEC and sends   *)
(* it to the CPU. list_remove on an empty list returns NULL, and           *)
(* enviar_pcb dereferences it.                                             *)
DesalojoToma ==
  /\ ~caido /\ pcDesalojo = "executing" /\ executing
  /\ executing' = FALSE
  /\ ejecutando # <<>>
  /\ ejecutando' = Tail(ejecutando)
  /\ pcbDesalojo' = Head(ejecutando)
  /\ pcDesalojo' = "cpu"
  /\ UNCHANGED <<nuevos, listos, bloqueados, estado, programas, largo, corto,
                 reintento, semaforos, mutexMemoria, recursos, archivos, caido>>

DesalojoSinProceso ==
  /\ ~caido /\ pcDesalojo = "executing" /\ executing
  /\ executing' = FALSE
  /\ ejecutando = <<>>
  /\ caido' = TRUE
  /\ UNCHANGED <<listas, estado, programas, largo, corto, desalojo, semaforos,
                 mutexMemoria, recursos, archivos>>

(* The CPU gives the process back with the system call op.                 *)
Devuelto(op) ==
  /\ ~caido /\ pcDesalojo = "cpu"
  /\ op \in Instrucciones
  /\ restantes[pcbDesalojo] > 0
  /\ restantes' = [restantes EXCEPT ![pcbDesalojo] = @ - 1]

Fin(a) ==
  /\ pcDesalojo' = a
  /\ pcbDesalojo' = IF a = "executing" THEN Ninguno ELSE pcbDesalojo
  /\ reintento' = FALSE

CambiaEstado(p, e) == estado' = [estado EXCEPT ![p] = e]

(* Faulty variant: without the unlock.                                     *)
SigueEjecutandoSinAviso ==
  /\ ejecutando' = Append(ejecutando, pcbDesalojo)
  /\ CambiaEstado(pcbDesalojo, "EXEC")
  /\ executing' = executing
  /\ Fin("executing")

(* agregar_a_lista_con_sem(pcb, ENUM_EXECUTING) and the unlock that makes  *)
(* the eviction thread run it again.                                       *)
SigueEjecutando ==
  /\ ejecutando' = Append(ejecutando, pcbDesalojo)
  /\ CambiaEstado(pcbDesalojo, "EXEC")
  /\ executing' = TRUE
  /\ Fin("executing")

(* terminar_proceso: the PCB is freed, a CPU and a degree are posted.      *)
TerminaProceso ==
  /\ CambiaEstado(pcbDesalojo, "LIBERADO")
  /\ semCpu' = semCpu + 1
  /\ semGrado' = semGrado + 1
  /\ Fin("executing")
  /\ UNCHANGED <<listas, semNew, semInicializar, semTerminado, executing>>

Exit ==
  /\ ~caido /\ pcDesalojo = "cpu"
  /\ restantes' = [restantes EXCEPT ![pcbDesalojo] = 0]
  /\ TerminaProceso
  /\ UNCHANGED <<pcConsola, largo, corto, mutexMemoria, recursos, archivos,
                 caido>>

SegmentationFault ==
  /\ Devuelto("SEGMENTATION_FAULT")
  /\ TerminaProceso
  /\ UNCHANGED <<pcConsola, largo, corto, mutexMemoria, recursos, archivos,
                 caido>>

(* Faulty variants: the post of sem_proceso_a_ready_terminado is missing,  *)
(* the state is not changed, sem_proceso_a_executing is unlocked, the      *)
(* process goes to the front of READY.                                     *)
YieldCon(lista, nuevoEstado, posts, aviso) ==
  /\ Devuelto("YIELD")
  /\ listos' = lista
  /\ CambiaEstado(pcbDesalojo, nuevoEstado)
  /\ semCpu' = semCpu + 1
  /\ semTerminado' = semTerminado + posts
  /\ executing' = aviso
  /\ Fin("executing")
  /\ UNCHANGED <<nuevos, ejecutando, bloqueados, pcConsola, largo, corto,
                 semNew, semInicializar, semGrado, mutexMemoria, recursos,
                 archivos, caido>>

AlFinal        == Append(listos, pcbDesalojo)
YieldSinPost   == YieldCon(AlFinal, "READY", 0, executing)
YieldSinEstado == YieldCon(AlFinal, "EXEC", 1, executing)
YieldConAviso  == YieldCon(AlFinal, "READY", 1, TRUE)
YieldAlFrente  == YieldCon(<<pcbDesalojo>> \o listos, "READY", 1, executing)

Yield ==
  /\ Devuelto("YIELD")
  /\ listos' = Append(listos, pcbDesalojo)
  /\ CambiaEstado(pcbDesalojo, "READY")
  /\ semCpu' = semCpu + 1
  /\ semTerminado' = semTerminado + 1
  /\ Fin("executing")
  /\ UNCHANGED <<nuevos, ejecutando, bloqueados, pcConsola, largo, corto,
                 semNew, semInicializar, semGrado, executing, mutexMemoria,
                 recursos, archivos, caido>>

-----------------------------------------------------------------------------
(* I/O, and the file operations that wait for the file system with the     *)
(* process in BLOCKED. The eviction thread itself sleeps or waits.         *)
Bloquea ==
  /\ bloqueados' = Append(bloqueados, pcbDesalojo)
  /\ CambiaEstado(pcbDesalojo, "BLOCKED")

(* Faulty variant: the process also stays in BLOCKED.                      *)
DesbloqueaSinSacar(i) ==
  /\ bloqueados' = bloqueados
  /\ listos' = Append(listos, pcbDesalojo)
  /\ CambiaEstado(pcbDesalojo, "READY")
  /\ semTerminado' = semTerminado + 1
  /\ Fin("executing")

(* BLOCKED to READY and the post of sem_proceso_a_ready_terminado; i is    *)
(* the position of BLOCKED that leaves it.                                 *)
Desbloquea(i) ==
  /\ bloqueados' = RemoveAt(bloqueados, i)
  /\ listos' = Append(listos, pcbDesalojo)
  /\ CambiaEstado(pcbDesalojo, "READY")
  /\ semTerminado' = semTerminado + 1
  /\ Fin("executing")

IO ==
  /\ Devuelto("I/O")
  /\ Bloquea
  /\ Fin("io")
  /\ UNCHANGED <<nuevos, listos, ejecutando, pcConsola, largo, corto,
                 semaforos, executing, mutexMemoria, recursos, archivos, caido>>

(* When the sleep ends the handler removes index 0 of BLOCKED, whoever it  *)
(* is, and queues its own process in READY.                                *)
FinIO ==
  /\ ~caido /\ pcDesalojo = "io"
  /\ bloqueados # <<>>
  /\ Desbloquea(1)
  /\ semCpu' = semCpu + 1
  /\ UNCHANGED <<nuevos, ejecutando, programas, largo, corto, semNew,
                 semInicializar, semGrado, executing, mutexMemoria, recursos,
                 archivos, caido>>

(* F_TRUNCATE posts the CPU before it waits for the file system.           *)
FTruncate ==
  /\ Devuelto("F_TRUNCATE")
  /\ Bloquea
  /\ semCpu' = semCpu + 1
  /\ Fin("truncate")
  /\ UNCHANGED <<nuevos, listos, ejecutando, pcConsola, largo, corto, semNew,
                 semInicializar, semTerminado, semGrado, executing,
                 mutexMemoria, recursos, archivos, caido>>

(* Faulty variant: the CPU is posted again, as at the end of an F_READ.    *)
FinFTruncateRepone ==
  /\ ~caido /\ pcDesalojo = "truncate"
  /\ Desbloquea(Indice(bloqueados, pcbDesalojo))
  /\ semCpu' = semCpu + 1
  /\ UNCHANGED <<nuevos, ejecutando, programas, largo, corto, semNew,
                 semInicializar, semGrado, executing, mutexMemoria, recursos,
                 archivos, caido>>

FinFTruncate ==
  /\ ~caido /\ pcDesalojo = "truncate"
  /\ Desbloquea(Indice(bloqueados, pcbDesalojo))
  /\ UNCHANGED <<nuevos, ejecutando, programas, largo, corto, semNew,
                 semInicializar, semCpu, semGrado, executing, mutexMemoria,
                 recursos, archivos, caido>>

(* F_READ and F_WRITE: enviar_f_read_write dereferences the entry of the   *)
(* file in the process's own list, NULL when it never opened it. Its lock, *)
(* permiso_compactacion, is only ever taken by this same thread.           *)
FReadWrite(f) ==
  /\ Devuelto("F_READ") \/ Devuelto("F_WRITE")
  /\ Bloquea
  /\ caido' = (f \notin abiertos[pcbDesalojo])
  /\ Fin("read_write")
  /\ UNCHANGED <<nuevos, listos, ejecutando, pcConsola, largo, corto,
                 semaforos, executing, mutexMemoria, recursos, archivos>>

FinFReadWrite ==
  /\ ~caido /\ pcDesalojo = "read_write"
  /\ Desbloquea(Indice(bloqueados, pcbDesalojo))
  /\ semCpu' = semCpu + 1
  /\ UNCHANGED <<nuevos, ejecutando, programas, largo, corto, semNew,
                 semInicializar, semGrado, executing, mutexMemoria, recursos,
                 archivos, caido>>

-----------------------------------------------------------------------------
(* Open files. tablaArchivosAbiertos is only touched by this thread.       *)

(* The file is open: the process waits on semaforoEstado, created with 0,  *)
(* and with it the eviction thread, the only one that could post it.       *)
FOpenOcupado(f) ==
  /\ Devuelto("F_OPEN")
  /\ f \in tablaAbiertos
  /\ Bloquea
  /\ colaArchivo' = [colaArchivo EXCEPT ![f] = Append(@, pcbDesalojo)]
  /\ Fin("semaforo_archivo")
  /\ UNCHANGED <<nuevos, listos, ejecutando, pcConsola, largo, corto,
                 semaforos, executing, mutexMemoria, recursos, tablaAbiertos,
                 abiertos, caido>>

(* The file is closed: the file system opens it, or creates it, and the    *)
(* process goes on. The CPU is posted although it is still in use.         *)
FOpen(f) ==
  /\ Devuelto("F_OPEN")
  /\ f \notin tablaAbiertos
  /\ tablaAbiertos' = tablaAbiertos \union {f}
  /\ abiertos' = [abiertos EXCEPT ![pcbDesalojo] = @ \union {f}]
  /\ SigueEjecutando
  /\ semCpu' = semCpu + 1
  /\ UNCHANGED <<nuevos, listos, bloqueados, pcConsola, largo, corto, semNew,
                 semInicializar, semTerminado, semGrado, mutexMemoria, recursos,
                 colaArchivo, caido>>

(* list_remove_element compares the name with the entries, so the          *)
(* process's own list never changes. With a waiter the file stays open,    *)
(* the waiter moves from BLOCKED to READY (no post of                      *)
(* sem_proceso_a_ready_terminado) and semaforoEstado is posted; otherwise  *)
(* the file leaves the table.                                              *)
FClose(f) ==
  /\ Devuelto("F_CLOSE")
  /\ f \in tablaAbiertos
  /\ LET hay == colaArchivo[f] # <<>>
         q   == Head(colaArchivo[f]) IN
       /\ tablaAbiertos' = IF hay THEN tablaAbiertos ELSE tablaAbiertos \ {f}
       /\ colaArchivo' = [colaArchivo EXCEPT ![f] = IF hay THEN Tail(@) ELSE @]
       /\ bloqueados' = IF hay THEN RemoveAt(bloqueados, Indice(bloqueados, q))
                               ELSE bloqueados
       /\ listos' = IF hay THEN Append(listos, q) ELSE listos
       /\ estado' = [x \in Procesos |->
                       IF hay /\ x = q THEN "READY"
                       ELSE IF x = pcbDesalojo THEN "EXEC" ELSE estado[x]]
  /\ ejecutando' = Append(ejecutando, pcbDesalojo)
  /\ executing' = TRUE
  /\ semCpu' = semCpu + 1
  /\ Fin("executing")
  /\ UNCHANGED <<nuevos, pcConsola, largo, corto, semNew, semInicializar,
                 semTerminado, semGrado, mutexMemoria, recursos, abiertos, caido>>

FSeek(f) ==
  /\ Devuelto("F_SEEK")
  /\ f \in abiertos[pcbDesalojo]
  /\ SigueEjecutando
  /\ semCpu' = semCpu + 1
  /\ UNCHANGED <<nuevos, listos, bloqueados, pcConsola, largo, corto, semNew,
                 semInicializar, semTerminado, semGrado, mutexMemoria, recursos,
                 archivos, caido>>

(* F_CLOSE of a file nobody has open and F_SEEK of a file the process did  *)
(* not open dereference NULL.                                              *)
ArchivoNoAbierto(f) ==
  /\ \/ Devuelto("F_CLOSE") /\ f \notin tablaAbiertos
     \/ Devuelto("F_SEEK") /\ f \notin abiertos[pcbDesalojo]
  /\ caido' = TRUE
  /\ UNCHANGED <<listas, estado, pcConsola, largo, corto, desalojo, semaforos,
                 executing, mutexMemoria, recursos, archivos>>

-----------------------------------------------------------------------------
(* instruccion_wait and instruccion_signal.                                *)
RecursoInexistente ==
  /\ Devuelto("WAIT") \/ Devuelto("SIGNAL")
  /\ TerminaProceso
  /\ UNCHANGED <<pcConsola, largo, corto, mutexMemoria, recursos, archivos,
                 caido>>

WaitConcedido(r) ==
  /\ Devuelto("WAIT")
  /\ instancias[r] - 1 >= 0
  /\ instancias' = [instancias EXCEPT ![r] = @ - 1]
  /\ saldo' = [saldo EXCEPT ![r] = @ - 1]
  /\ SigueEjecutando
  /\ UNCHANGED <<nuevos, listos, bloqueados, pcConsola, largo, corto,
                 semaforos, mutexMemoria, colaRecurso, archivos, caido>>

(* Faulty variants: the counter is left below 0; the process goes to       *)
(* BLOCKED as in the other handlers.                                       *)
WaitBloqueaCon(r, cuenta, lista) ==
  /\ Devuelto("WAIT")
  /\ instancias[r] - 1 < 0
  /\ colaRecurso' = [colaRecurso EXCEPT ![r] = Append(@, pcbDesalojo)]
  /\ instancias' = [instancias EXCEPT ![r] = cuenta]
  /\ bloqueados' = lista
  /\ semCpu' = semCpu + 1
  /\ Fin("executing")
  /\ UNCHANGED <<nuevos, listos, ejecutando, estado, pcConsola, largo, corto,
                 semNew, semInicializar, semTerminado, semGrado, executing,
                 mutexMemoria, saldo, archivos, caido>>

WaitBloqueaNegativo(r)  == WaitBloqueaCon(r, instancias[r] - 1, bloqueados)
WaitBloqueaEnBlocked(r) == WaitBloqueaCon(r, 0, Append(bloqueados, pcbDesalojo))

(* The process joins the queue of the resource and no other list; its      *)
(* estado stays EXEC and the counter goes back to 0.                       *)
WaitBloquea(r) ==
  /\ Devuelto("WAIT")
  /\ instancias[r] - 1 < 0
  /\ colaRecurso' = [colaRecurso EXCEPT ![r] = Append(@, pcbDesalojo)]
  /\ instancias' = [instancias EXCEPT ![r] = 0]
  /\ semCpu' = semCpu + 1
  /\ Fin("executing")
  /\ UNCHANGED <<listas, estado, pcConsola, largo, corto, semNew,
                 semInicializar, semTerminado, semGrado, executing,
                 mutexMemoria, saldo, archivos, caido>>

(* Faulty variant: the test left as a comment, instancias == 0, which is   *)
(* made after the increment.                                               *)
DespiertaEnCero(r) == instancias[r] + 1 = 0 /\ colaRecurso[r] # <<>>

(* The signaller goes on; the first waiter, if any, moves to READY and     *)
(* owns an instance from now on, but the counter keeps the increment. The  *)
(* test replaces one left as a comment in the code, instancias == 0.       *)
Despierta(r) == colaRecurso[r] # <<>>

Signal(r) ==
  /\ Devuelto("SIGNAL")
  /\ instancias' = [instancias EXCEPT ![r] = @ + 1]
  /\ ejecutando' = Append(ejecutando, pcbDesalojo)
  /\ executing' = TRUE
  /\ Fin("executing")
  /\ IF Despierta(r)
     THEN LET q == Head(colaRecurso[r]) IN
          /\ colaRecurso' = [colaRecurso EXCEPT ![r] = Tail(@)]
          /\ listos' = Append(listos, q)
          /\ estado' = [estado EXCEPT ![pcbDesalojo] = "EXEC", ![q] = "READY"]
          /\ semTerminado' = semTerminado + 1
          /\ UNCHANGED saldo
     ELSE /\ CambiaEstado(pcbDesalojo, "EXEC")
          /\ saldo' = [saldo EXCEPT ![r] = @ + 1]
          /\ UNCHANGED <<colaRecurso, listos, semTerminado>>
  /\ UNCHANGED <<nuevos, bloqueados, pcConsola, largo, corto, semNew,
                 semInicializar, semCpu, semGrado, mutexMemoria, archivos, caido>>

-----------------------------------------------------------------------------
(* CREATE_SEGMENT and DELETE_SEGMENT: the handler takes mutex_memoria,     *)
(* which the long-term scheduler may hold, asks memory and acts on the     *)
(* answer.                                                                 *)
PideSegmento ==
  /\ \/ Devuelto("CREATE_SEGMENT") /\ Fin("mutex_create")
     \/ Devuelto("DELETE_SEGMENT") /\ Fin("mutex_delete")
  /\ UNCHANGED <<listas, estado, pcConsola, largo, corto, semaforos,
                 executing, mutexMemoria, recursos, archivos, caido>>

TomaMemoria ==
  /\ ~caido /\ mutexMemoria = "libre"
  /\ mutexMemoria' = "desalojo"
  /\ \/ pcDesalojo = "mutex_create" /\ pcDesalojo' = "create_segment"
     \/ pcDesalojo = "mutex_delete" /\ pcDesalojo' = "delete_segment"
  /\ UNCHANGED <<listas, estado, programas, largo, corto, pcbDesalojo,
                 reintento, semaforos, executing, recursos, archivos, caido>>

(* Faulty variant: mutex_memoria is not unlocked.                          *)
RespondeSinSoltar(r) ==
  /\ ~caido /\ pcDesalojo = "create_segment"
  /\ r \in (IF reintento THEN RespuestasReintento ELSE RespuestasMemoria)
  /\ mutexMemoria' = mutexMemoria

(* What memory answers to the CREATE_SEGMENT in progress.                  *)
Responde(r) ==
  /\ ~caido /\ pcDesalojo = "create_segment"
  /\ r \in (IF reintento THEN RespuestasReintento ELSE RespuestasMemoria)
  /\ mutexMemoria' = "libre"

CreateSegmentOk ==
  /\ Responde("AUX_OK")
  /\ SigueEjecutando
  /\ UNCHANGED <<nuevos, listos, bloqueados, programas, largo, corto,
                 semaforos, recursos, archivos, caido>>

(* After the compaction sem_proceso_a_executing is unlocked with the       *)
(* process in no list. manejo_desalojo_pcb runs the handler once more; a   *)
(* second COMPACTACION leaves the process in no list for good.             *)
CreateSegmentCompacta ==
  /\ Responde("COMPACTACION")
  /\ executing' = TRUE
  /\ pcDesalojo' = IF reintento THEN "executing" ELSE "mutex_create"
  /\ pcbDesalojo' = IF reintento THEN Ninguno ELSE pcbDesalojo
  /\ reintento' = ~reintento
  /\ UNCHANGED <<listas, estado, programas, largo, corto, semaforos, recursos,
                 archivos, caido>>

CreateSegmentSinMemoria ==
  /\ Responde("OUT_OF_MEMORY")
  /\ TerminaProceso
  /\ UNCHANGED <<programas, largo, corto, recursos, archivos, caido>>

DeleteSegmentOk ==
  /\ ~caido /\ pcDesalojo = "delete_segment"
  /\ mutexMemoria' = "libre"
  /\ SigueEjecutando
  /\ UNCHANGED <<nuevos, listos, bloqueados, programas, largo, corto,
                 semaforos, recursos, archivos, caido>>

-----------------------------------------------------------------------------
Consola(p) == CreaPCB(p) \/ AgregaNew(p)

LargoPlazo ==
  LargoInicializar \/ LargoTomaNew \/ LargoPideTabla \/ LargoRecibeTabla
  \/ LargoAdmite

CortoPlazo ==
  CortoEsperaCpu \/ CortoEsperaListo \/ CortoElige \/ CortoAgrega \/ CortoAvisa

ManejoInstrucciones ==
  \/ Exit \/ SegmentationFault \/ Yield \/ IO \/ FinIO
  \/ FTruncate \/ FinFTruncate \/ FinFReadWrite
  \/ \E f \in Archivos : \/ FOpenOcupado(f) \/ FOpen(f) \/ FClose(f)
                         \/ FSeek(f) \/ FReadWrite(f) \/ ArchivoNoAbierto(f)
  \/ RecursoInexistente
  \/ \E r \in Recursos : WaitConcedido(r) \/ WaitBloquea(r) \/ Signal(r)
  \/ PideSegmento \/ TomaMemoria \/ CreateSegmentOk \/ CreateSegmentCompacta
  \/ CreateSegmentSinMemoria \/ DeleteSegmentOk

Desalojo == DesalojoToma \/ DesalojoSinProceso \/ ManejoInstrucciones

Next == (\E p \in Procesos : Consola(p)) \/ LargoPlazo \/ CortoPlazo \/ Desalojo

Spec == Init /\ [][Next]_vars

(* Every thread that can run is eventually scheduled by the operating      *)
(* system, and the modules it waits for answer. A console need not come.   *)
Equidad ==
  /\ \A p \in Procesos : WF_vars(AgregaNew(p))
  /\ WF_vars(LargoPlazo)
  /\ WF_vars(CortoPlazo)
  /\ WF_vars(Desalojo)

SpecEquitativa == Spec /\ Equidad

-----------------------------------------------------------------------------
Estados == {"INEXISTENTE", "NEW", "READY", "EXEC", "BLOCKED", "LIBERADO"}

PcDesalojo ==
  {"executing", "cpu", "io", "truncate", "read_write", "semaforo_archivo",
   "mutex_create", "create_segment", "mutex_delete", "delete_segment"}

TipoListas ==
  /\ nuevos \in Seq(Procesos) /\ listos \in Seq(Procesos)
  /\ ejecutando \in Seq(Procesos) /\ bloqueados \in Seq(Procesos)

TipoProcesos ==
  /\ estado \in [Procesos -> Estados]
  /\ restantes \in [Procesos -> Nat]
  /\ pcConsola \in [Procesos -> {"desconectada", "agrega_new", "fin"}]

TipoHilos ==
  /\ pcLargo \in {"inicializar", "lista_new", "mutex_memoria", "create_pcb", "grado"}
  /\ pcbLargo \in Procesos \union {Ninguno}
  /\ pcCorto \in {"cpu_disponible", "terminado", "elegir", "agregar", "avisar"}
  /\ pcbCorto \in Procesos \union {Ninguno}
  /\ pcDesalojo \in PcDesalojo
  /\ pcbDesalojo \in Procesos \union {Ninguno}
  /\ reintento \in BOOLEAN /\ executing \in BOOLEAN /\ caido \in BOOLEAN
  /\ mutexMemoria \in {"libre", "largo", "desalojo"}

TipoSemaforos ==
  /\ semNew \in {0, 1}
  /\ semInicializar \in Nat /\ semTerminado \in Nat
  /\ semCpu \in Nat /\ semGrado \in Nat

TipoRecursos ==
  /\ instancias \in [Recursos -> Nat]
  /\ colaRecurso \in [Recursos -> Seq(Procesos)]
  /\ saldo \in [Recursos -> Int]

TipoArchivos ==
  /\ tablaAbiertos \subseteq Archivos
  /\ colaArchivo \in [Archivos -> Seq(Procesos)]
  /\ abiertos \in [Procesos -> SUBSET Archivos]

(* Type correctness of the kernel's lists, counters and threads. The       *)
(* counters of semaphores and resources never go below zero.               *)
TypeOK ==
  /\ TipoListas /\ TipoProcesos /\ TipoHilos
  /\ TipoSemaforos /\ TipoRecursos /\ TipoArchivos

(* How many steps a condition counts for.                                  *)
Uno(condicion) == IF condicion THEN 1 ELSE 0

(* Every credit of sem_proceso_a_ready_terminado is a process in READY, so *)
(* the dispatcher never takes from an empty list (list_remove would return *)
(* NULL) and no process stays in READY without a credit.                   *)
CreditosDeListos == Len(listos) = semTerminado + Uno(pcCorto = "elegir")

(* Where the eviction thread is while its process keeps the CPU credit.    *)
ConCpu == {"cpu", "io", "read_write", "mutex_create", "create_segment",
           "mutex_delete", "delete_segment"}

(* The credit of sem_cpu_disponible is in exactly one place: free, with    *)
(* the dispatcher, with the process in EXEC or with the one being handled. *)
(* So at most one process is scheduled on the only CPU.                    *)
UnicaCpu ==
  semCpu + Uno(pcCorto \in {"terminado", "elegir", "agregar"}) + Len(ejecutando)
    + Uno(pcDesalojo \in ConCpu) = 1

(* A process in EXEC has been announced to the eviction thread, or is      *)
(* about to be: the announcement is a mutex used as a binary semaphore,    *)
(* where a second unlock is lost.                                          *)
AvisoNoSePierde == ejecutando # <<>> => executing \/ pcCorto = "avisar"

(* The eviction thread, once announced, finds a process in EXEC.           *)
ExecNuncaVacia == pcDesalojo = "executing" /\ executing => ejecutando # <<>>

(* The places where process p is: the lists of states and the hands of the *)
(* handler, and the queues of the resources.                               *)
Posiciones(s, p) == {i \in DOMAIN s : s[i] = p}

Lugares(p) ==
  ({"NEW"} \X Posiciones(nuevos, p)) \union ({"READY"} \X Posiciones(listos, p))
  \union ({"EXEC"} \X Posiciones(ejecutando, p))
  \union ({"BLOCKED"} \X Posiciones(bloqueados, p))
  \union {x \in {<<"READY-EXEC", 0>>} : pcbCorto = p}
  \union {x \in {<<"CPU", 0>>} : /\ pcbDesalojo = p
                                 /\ pcDesalojo \in ConCpu \ {"io", "read_write"}}

Esperas(p) == UNION {{r} \X Posiciones(colaRecurso[r], p) : r \in Recursos}

(* No process is lost or duplicated: one that exists is in exactly one     *)
(* list, resource queue or handler, and a freed PCB is in none (a second   *)
(* copy would be used after the free of terminar_proceso).                 *)
UnLugar ==
  \A p \in Procesos :
    Cardinality(Lugares(p)) + Cardinality(Esperas(p)) =
      Uno(pcConsola[p] = "fin" /\ estado[p] # "LIBERADO")

(* mover_de_lista_con_sem looks for a process in the list that pcb->estado *)
(* names: READY and BLOCKED hold exactly the processes that say so.        *)
EstadoFiel ==
  \A p \in Procesos :
    /\ estado[p] = "READY" <=> Contains(listos, p)
    /\ estado[p] = "BLOCKED" <=> Contains(bloqueados, p)
    /\ Contains(nuevos, p) => estado[p] = "NEW"
    /\ Contains(ejecutando, p) => estado[p] = "EXEC"

(* The processes that hold a unit of sem_grado_multiprogamacion.           *)
Admitidos == {p \in Procesos : estado[p] \in {"READY", "EXEC", "BLOCKED"}}

(* At the end of an I/O the handler removes index 0 of BLOCKED without     *)
(* looking: it is always the process that did the I/O.                     *)
IOSacaAlPropio == pcDesalojo = "io" => bloqueados[1] = pcbDesalojo

(* No lost wake-up on resources: no process waits in the queue of a        *)
(* resource with a unit that nobody was granted.                           *)
NadieEsperaUnidadLibre ==
  \A r \in Recursos : colaRecurso[r] # <<>> => saldo[r] <= 0

(* kernel.c:824, "Si el proceso no se bloquea en el if anterior, puede     *)
(* usar el recurso", read with kernel.c:811, which blocks it for lack of   *)
(* instances: never more grants of a resource than its instances and the   *)
(* signals on it allow.                                                    *)
NoSobreOtorga == \A r \in Recursos : saldo[r] >= 0

(* kernel.h, ABRIR_ARCHIVO_BLOQUEADO and CERRAR_ARCHIVO_DESBLOQUEA_PCB: a  *)
(* process that waits to open a file is unblocked when the file is closed, *)
(* so the kernel must at least go on attending the process that has it.    *)
EsperaDeArchivoTermina ==
  \A f \in Archivos : colaArchivo[f] # <<>> ~> colaArchivo[f] = <<>>
=============================================================================
