------------------------------ MODULE Sistema ------------------------------
(***************************************************************************)
(* The kernel and the memory module together, over the socket between them *)
(* (conexionMemoria in src/modules/kernel/src/kernel.c,                    *)
(* ejecutar_kernel_pedido in src/modules/memoria/src/memoria.c).           *)
(*                                                                         *)
(* The kernel is Planificador: each of its actions is taken with what the  *)
(* same step does to the socket and to pcb->lista_segmentos. What          *)
(* Planificador takes for granted, the answer to a CREATE_SEGMENT, is here *)
(* what the thread of memory wrote in the socket, computed with the list   *)
(* of holes of Huecos.                                                     *)
(*                                                                         *)
(* Requests are read whole by memory, one element of aMemoria each. An     *)
(* answer is the words that the kernel reads with one recibir_operacion    *)
(* each, and the content of its buffer, which is one element more. An      *)
(* answer without a buffer still has the word of its size, 0.              *)
(***************************************************************************)
EXTENDS Planificador, Huecos

CONSTANTS
  CantSegmentos,        (* CANT_SEGMENTOS                                   *)
  Ids, Tamanios,        (* the segments that programs ask for               *)
  ProgramasOrdenados,   (* as in Memoria                                    *)
  MaxPedidos, MaxCompactaciones   (* bounds that the programs stay under    *)

(* Programs without the three calls that post a CPU still in use           *)
(* (kernel.c:383): with them the dispatcher may have a process in its      *)
(* hands, in no list, while the tables are updated after a compaction, and *)
(* buscar_proceso misses it. Each instruction is a request at most, and    *)
(* each request at most two compactions.                                   *)
ASSUME SistemaOK ==
  /\ Instrucciones \intersect {"F_OPEN", "F_CLOSE", "F_SEEK"} = {}
  /\ CantSegmentos \in Nat \ {0} /\ Ids \subseteq 0..CantSegmentos - 1
  /\ Tamanios \subseteq Nat \ {0} /\ ProgramasOrdenados \in BOOLEAN
  /\ IsFiniteSet(Procesos)
  /\ MaxPedidos \in Nat /\ Cardinality(Procesos) * MaxInstrucciones <= MaxPedidos
  /\ MaxCompactaciones \in Nat /\ 2 * MaxPedidos <= MaxCompactaciones
  /\ RespuestasMemoria = Respuestas /\ RespuestasReintento = Respuestas

VARIABLES
  huecos, tablas,     \* memory: lista_huecos and tabla_segmentos_global
  tablaPcb,           \* pcb->lista_segmentos
  operacion,          \* the parameters of the instruction being handled
  fase,               \* which answer the handler of CREATE_SEGMENT waits for
  aMemoria, aKernel,  \* the two directions of the socket
  indefinido,         \* the kernel deserialized something that is no table
  agotada,            \* history: memory has answered OUT_OF_MEMORY
  atrasados, averias, pedidos, compactaciones   \* history, as in Memoria

memoria   == <<huecos, tablas>>
conexion  == <<aMemoria, aKernel>>
historia  == <<agotada, atrasados, averias, pedidos, compactaciones>>
delKernel == <<tablaPcb, operacion, fase, indefinido>>
varsSistema == <<vars, memoria, delKernel, conexion, historia>>

-----------------------------------------------------------------------------
(* The abstract specification: the requests of the kernel to memory, each  *)
(* served and answered in one step.                                        *)

(* Memory has read the request of the thread that holds mutex_memoria.     *)
Contestado == aMemoria = <<>>

(* A compaction was made and the CREATE_SEGMENT that asked for it is still *)
(* to be repeated, or repeated and not attended.                           *)
EnReintento ==
  \/ pcDesalojo = "mutex_create" /\ reintento
  \/ /\ pcDesalojo = "create_segment"
     /\ \/ ~Contestado /\ reintento
        \/ Contestado /\ fase = "crea" /\ aKernel[1].tipo = "COMPACTACION" /\ reintento
        \/ Contestado /\ fase = "compacta" /\ ~reintento

(* Memory has answered that the process is to end, or to be retried again, *)
(* which the kernel never does: it is in no list any more.                 *)
Condenado(p) ==
  \/ /\ p = pcbDesalojo /\ pcDesalojo = "create_segment" /\ Contestado
     /\ \/ fase = "crea" /\ aKernel[1].tipo = "OUT_OF_MEMORY"
        \/ fase = "compacta" /\ reintento
  \/ /\ p \notin {pcbDesalojo, pcbCorto} /\ estado[p] = "EXEC"
     /\ ~Contains(ejecutando, p)
     /\ \A r \in Recursos : ~Contains(colaRecurso[r], p)

Activos == {p \in Procesos :
              tablas[p] # <<>> /\ estado[p] # "LIBERADO" /\ ~Condenado(p)}

(* The kernel's copies as they are once the answer on its way is read: for *)
(* a compaction, those of the processes that buscar_proceso will find.     *)
EsperanRecurso == {p \in Procesos : \E r \in Recursos : Contains(colaRecurso[r], p)}

EnLista == Range(nuevos) \union Range(listos) \union Range(ejecutando)
             \union Range(bloqueados)

TablaVista(p) ==
  IF mutexMemoria # "libre" /\ Contestado
     /\ \/ pcLargo = "create_pcb" /\ p = pcbLargo
        \/ /\ p = pcbDesalojo
           /\ \/ pcDesalojo = "delete_segment"
              \/ pcDesalojo = "create_segment" /\ fase = "crea"
                 /\ aKernel[1].tipo = "AUX_OK"
        \/ pcDesalojo = "create_segment" /\ fase = "compacta" /\ p \in EnLista
  THEN tablas[p] ELSE tablaPcb[p]

Mem == INSTANCE Memoria WITH
  tablasKernel <- [p \in Procesos |-> TablaVista(p)],
  activos      <- Activos,
  reintento    <- [proceso |-> IF EnReintento THEN pcbDesalojo ELSE Ninguno,
                   id      |-> IF EnReintento THEN operacion.id ELSE 0,
                   tamanio |-> IF EnReintento THEN operacion.tamanio ELSE 0]

-----------------------------------------------------------------------------
InitSistema ==
  /\ Init
  /\ huecos = HuecosIniciales
  /\ tablas = [p \in Procesos |-> <<>>]
  /\ tablaPcb = [p \in Procesos |-> <<>>]
  /\ operacion = [id |-> 0, tamanio |-> 0] /\ fase = "crea"
  /\ aMemoria = <<>> /\ aKernel = <<>>
  /\ indefinido = FALSE
  /\ agotada = FALSE /\ atrasados = {} /\ averias = {}
  /\ pedidos = 0 /\ compactaciones = 0

Palabra(tipo) == [tipo |-> tipo, tabla |-> <<>>]
Buffer(tabla) == [tipo |-> "buffer", tabla |-> tabla]

Pedido(op, p) == [op |-> op, proceso |-> p, id |-> operacion.id,
                  tamanio |-> operacion.tamanio, tabla |-> tablaPcb[p]]

(* The long-term scheduler: AUX_CREATE_PCB.                                *)
PideTabla ==
  /\ LargoPideTabla
  /\ aMemoria' = Append(aMemoria, Pedido("AUX_CREATE_PCB", pcbLargo))
  /\ UNCHANGED <<memoria, delKernel, aKernel, historia>>

(* The code is read and not looked at, then the size and the buffer.       *)
RecibeTabla ==
  /\ Contestado /\ Len(aKernel) >= 2
  /\ LargoRecibeTabla
  /\ IF aKernel[2].tipo = "buffer"
     THEN /\ tablaPcb' = [tablaPcb EXCEPT ![pcbLargo] = aKernel[2].tabla]
          /\ aKernel' = SubSeq(aKernel, 3, Len(aKernel))
          /\ UNCHANGED indefinido
     ELSE (* a code was taken for the size, and the start of the answer for *)
          (* the table                                                      *)
          /\ indefinido' = TRUE
          /\ UNCHANGED <<tablaPcb, aKernel>>
  /\ UNCHANGED <<memoria, operacion, fase, aMemoria, historia>>

-----------------------------------------------------------------------------
(* The eviction thread: CREATE_SEGMENT and DELETE_SEGMENT.                 *)
PideOperacion ==
  /\ PideSegmento
  /\ \E id \in Ids :
       \/ /\ pcDesalojo' = "mutex_create"
          /\ ProgramasOrdenados => tablaPcb[pcbDesalojo][id].base = Nulo
          /\ \E t \in Tamanios : operacion' = [id |-> id, tamanio |-> t]
       \/ /\ pcDesalojo' = "mutex_delete"
          /\ ProgramasOrdenados => tablaPcb[pcbDesalojo][id].base # Nulo
          /\ operacion' = [id |-> id, tamanio |-> 0]
  /\ UNCHANGED <<memoria, tablaPcb, fase, indefinido, conexion, historia>>

EnviaOperacion ==
  /\ TomaMemoria
  /\ aMemoria' = Append(aMemoria,
       Pedido(IF pcDesalojo = "mutex_create" THEN "CREATE_SEGMENT"
                                             ELSE "DELETE_SEGMENT", pcbDesalojo))
  /\ fase' = "crea"
  /\ UNCHANGED <<memoria, tablaPcb, operacion, indefinido, aKernel, historia>>

(* The first word of the answer to CREATE_SEGMENT is tipo.                 *)
Lee(tipo) == Contestado /\ fase = "crea" /\ aKernel # <<>> /\ aKernel[1].tipo = tipo

RecibeBase ==
  /\ Lee("AUX_OK")
  /\ CreateSegmentOk
  /\ tablaPcb' = [tablaPcb EXCEPT ![pcbDesalojo][operacion.id] =
                    Mem!Segmento(aKernel[2].tabla[operacion.id].base, operacion.tamanio)]
  /\ aKernel' = SubSeq(aKernel, 3, Len(aKernel))
  /\ UNCHANGED <<memoria, operacion, fase, indefinido, aMemoria, historia>>

(* Only the code of COMPACTACION is read; its size stays in the socket.    *)
OrdenaCompactar ==
  /\ Lee("COMPACTACION")
  /\ ~caido /\ pcDesalojo = "create_segment"
  /\ aKernel' = Tail(aKernel)
  /\ aMemoria' = Append(aMemoria, Pedido("COMPACTACION", pcbDesalojo))
  /\ fase' = "compacta"
  /\ UNCHANGED <<vars, memoria, tablaPcb, operacion, indefinido, historia>>

(* Faulty variant: the processes in READY are not looked up.               *)
RecibeTablasSinListos ==
  /\ Contestado /\ fase = "compacta" /\ Len(aKernel) >= 3
  /\ CreateSegmentCompacta
  /\ tablaPcb' = [p \in Procesos |->
       IF p \in EnLista \ Range(listos) /\ aKernel[3].tabla[p] # <<>>
       THEN aKernel[3].tabla[p] ELSE tablaPcb[p]]
  /\ aKernel' = SubSeq(aKernel, 4, Len(aKernel))
  /\ UNCHANGED <<memoria, operacion, fase, indefinido, aMemoria, historia>>

(* Two words are read before the tables, that size and AUX_OK, and         *)
(* actualizar_todas_las_tablas_de_segmentos replaces the table of each     *)
(* process that it finds in a list. buscar_proceso takes no semaphore, so  *)
(* it may run while another thread has a process between two lists. The    *)
(* dispatcher may have one, which this misses, between CortoElige and      *)
(* CortoAgrega, if a call that keeps the CPU gave it a credit (none does   *)
(* with SistemaOK). The long-term scheduler may be moving one from NEW to  *)
(* READY, which is one step here: to miss it changes nothing, since it has *)
(* segment 0 alone, which a compaction does not move. That the walk itself *)
(* reads a list while it is changed (a race) is not modelled.              *)
RecibeTablas ==
  /\ Contestado /\ fase = "compacta" /\ Len(aKernel) >= 3
  /\ CreateSegmentCompacta
  /\ tablaPcb' = [p \in Procesos |->
       IF p \in EnLista /\ aKernel[3].tabla[p] # <<>> THEN aKernel[3].tabla[p]
                                                      ELSE tablaPcb[p]]
  /\ aKernel' = SubSeq(aKernel, 4, Len(aKernel))
  /\ UNCHANGED <<memoria, operacion, fase, indefinido, aMemoria, historia>>

(* Only the code of OUT_OF_MEMORY is read; its size stays in the socket.   *)
RecibeSinMemoria ==
  /\ Lee("OUT_OF_MEMORY")
  /\ CreateSegmentSinMemoria
  /\ aKernel' = Tail(aKernel)
  /\ UNCHANGED <<memoria, delKernel, aMemoria, historia>>

(* With any other code the handler returns I_CREATE_SEGMENT without        *)
(* unlocking mutex_memoria, manejo_desalojo_pcb calls it again and it      *)
(* waits for the mutex that it holds.                                      *)
LeeOtraCosa ==
  /\ Contestado /\ fase = "crea" /\ aKernel # <<>>
  /\ ~caido /\ pcDesalojo = "create_segment"
  /\ aKernel[1].tipo \notin Respuestas
  /\ aKernel' = Tail(aKernel)
  /\ fase' = "trabado"
  /\ UNCHANGED <<vars, memoria, tablaPcb, operacion, indefinido, aMemoria, historia>>

(* After DELETE_SEGMENT only AUX_OK unlocks the mutex.                     *)
RecibeTablaSinSegmento ==
  /\ Contestado /\ aKernel # <<>> /\ aKernel[1].tipo = "AUX_OK"
  /\ DeleteSegmentOk
  /\ tablaPcb' = [tablaPcb EXCEPT ![pcbDesalojo] = aKernel[2].tabla]
  /\ aKernel' = SubSeq(aKernel, 3, Len(aKernel))
  /\ UNCHANGED <<memoria, operacion, fase, indefinido, aMemoria, historia>>

(* Otherwise the process goes on with its old table and the mutex stays    *)
(* locked.                                                                 *)
BorrarSinRespuesta ==
  /\ Contestado /\ aKernel # <<>> /\ aKernel[1].tipo # "AUX_OK"
  /\ ~caido /\ pcDesalojo = "delete_segment"
  /\ aKernel' = Tail(aKernel)
  /\ SigueEjecutando
  /\ UNCHANGED <<nuevos, listos, bloqueados, programas, largo, corto, semaforos,
                 mutexMemoria, recursos, archivos, caido, memoria, tablaPcb,
                 operacion, fase, indefinido, aMemoria, historia>>

-----------------------------------------------------------------------------
(* The thread of memory for the kernel. It reads the requests in order.    *)
Atiende(op) ==
  /\ aMemoria # <<>> /\ Head(aMemoria).op = op
  /\ aMemoria' = Tail(aMemoria)

Contesta(palabras) == aKernel' = aKernel \o palabras

AtiendeCrearPcb ==
  /\ Atiende("AUX_CREATE_PCB")
  /\ tablas' = [tablas EXCEPT ![Head(aMemoria).proceso] = Mem!TablaInicial]
  /\ Contesta(<<Palabra("AUX_CREATE_PCB"), Buffer(Mem!TablaInicial)>>)
  /\ UNCHANGED <<vars, huecos, delKernel, historia>>

(* crear_segmento works on the table of the PCB that came with the request *)
(* and puts it in the place of its own.                                    *)
AtiendeCrear ==
  LET r == Head(aMemoria)
      i == HuecoElegido(huecos, r.tamanio)
      tabla == [r.tabla EXCEPT ![r.id] = Mem!Segmento(huecos[i].base, r.tamanio)]
  IN
  /\ Atiende("CREATE_SEGMENT")
  /\ i > 0
  /\ huecos' = Ocupar(huecos, i, r.tamanio)
  /\ tablas' = [tablas EXCEPT ![r.proceso] = tabla]
  /\ Contesta(<<Palabra("AUX_OK"), Buffer(tabla)>>)
  /\ atrasados' = atrasados \ {r.proceso}
  /\ averias' = averias \union Mem!AlCrear(r.tabla, tablas[r.proceso], r.id, huecos')
  /\ pedidos' = IF reintento THEN pedidos ELSE pedidos + 1
  /\ UNCHANGED <<vars, delKernel, agotada, compactaciones>>

AtiendeSinHueco ==
  LET r == Head(aMemoria) IN
  /\ Atiende("CREATE_SEGMENT")
  /\ HuecoElegido(huecos, r.tamanio) = 0
  /\ IF AlcanzaCompactando(huecos, r.tamanio)
     THEN /\ Contesta(<<Palabra("COMPACTACION"), Palabra("0")>>)
          /\ UNCHANGED <<agotada, pedidos>>
     ELSE /\ Contesta(<<Palabra("OUT_OF_MEMORY"), Palabra("0")>>)
          /\ agotada' = TRUE
          /\ pedidos' = IF reintento THEN pedidos ELSE pedidos + 1
  /\ UNCHANGED <<vars, memoria, delKernel, atrasados, averias, compactaciones>>

(* The word that follows COMPACTACION, the size 0, is read as a code.      *)
AtiendeCompactacion ==
  LET r == Head(aMemoria)
      c == Compactar(huecos, tablas)
  IN
  /\ Atiende("COMPACTACION")
  /\ huecos' = c.l
  /\ tablas' = c.tablas
  /\ Contesta(<<Palabra("AUX_OK"), Buffer(c.tablas)>>)
  /\ atrasados' = EsperanRecurso \union {r.proceso}
  /\ averias' = averias \union Mem!AlCompactar(huecos)
  /\ compactaciones' = compactaciones + 1
  /\ pedidos' = IF reintento THEN pedidos ELSE pedidos + 1
  /\ UNCHANGED <<vars, delKernel, agotada>>

(* Faulty variant: memory keeps the table of the request as it came.       *)
AtiendeBorrarSinAnular ==
  LET r == Head(aMemoria)
      tabla == [r.tabla EXCEPT ![r.id] = Mem!SinSegmento]
  IN
  /\ Atiende("DELETE_SEGMENT")
  /\ huecos' = Liberar(huecos, r.tabla[r.id].base)
  /\ tablas' = [tablas EXCEPT ![r.proceso] = r.tabla]
  /\ Contesta(<<Palabra("AUX_OK"), Buffer(tabla)>>)
  /\ atrasados' = atrasados \ {r.proceso}
  /\ averias' = averias \union Mem!AlTraer(r.tabla, tablas[r.proceso])
  /\ pedidos' = pedidos + 1
  /\ UNCHANGED <<vars, delKernel, agotada, compactaciones>>

AtiendeBorrar ==
  LET r == Head(aMemoria)
      tabla == [r.tabla EXCEPT ![r.id] = Mem!SinSegmento]
  IN
  /\ Atiende("DELETE_SEGMENT")
  /\ huecos' = Liberar(huecos, r.tabla[r.id].base)
  /\ tablas' = [tablas EXCEPT ![r.proceso] = tabla]
  /\ Contesta(<<Palabra("AUX_OK"), Buffer(tabla)>>)
  /\ atrasados' = atrasados \ {r.proceso}
  /\ averias' = averias \union Mem!AlTraer(r.tabla, tablas[r.proceso])
  /\ pedidos' = pedidos + 1
  /\ UNCHANGED <<vars, delKernel, agotada, compactaciones>>

-----------------------------------------------------------------------------
(* Everything the kernel does without talking to memory.                   *)
SinMemoria == UNCHANGED <<memoria, delKernel, conexion, historia>>

LargoSistema ==
  \/ LargoPlazo /\ "create_pcb" \notin {pcLargo, pcLargo'} /\ SinMemoria
  \/ PideTabla \/ RecibeTabla

EsperaMemoria == {"mutex_create", "create_segment", "mutex_delete", "delete_segment"}

DesalojoSistema ==
  \/ Desalojo /\ {pcDesalojo, pcDesalojo'} \intersect EsperaMemoria = {} /\ SinMemoria
  \/ PideOperacion \/ EnviaOperacion \/ RecibeBase \/ OrdenaCompactar
  \/ RecibeTablas \/ RecibeSinMemoria \/ LeeOtraCosa \/ RecibeTablaSinSegmento
  \/ BorrarSinRespuesta

AtencionKernel ==
  \/ AtiendeCrearPcb \/ AtiendeCrear \/ AtiendeSinHueco
  \/ AtiendeCompactacion \/ AtiendeBorrar

NextSistema ==
  /\ ~indefinido
  /\ \/ \E p \in Procesos : Consola(p) /\ SinMemoria
     \/ CortoPlazo /\ SinMemoria
     \/ LargoSistema \/ DesalojoSistema \/ AtencionKernel

SpecSistema == InitSistema /\ [][NextSistema]_varsSistema

(* Each thread of the kernel is scheduled, and that of memory, which can   *)
(* attend whenever there is a request, empties the socket again and again. *)
EquidadSistema ==
  /\ \A p \in Procesos : WF_varsSistema(~indefinido /\ AgregaNew(p) /\ SinMemoria)
  /\ WF_varsSistema(~indefinido /\ LargoSistema)
  /\ WF_varsSistema(~indefinido /\ CortoPlazo /\ SinMemoria)
  /\ WF_varsSistema(~indefinido /\ DesalojoSistema)
  /\ []<>(aMemoria = <<>>)

SpecSistemaEquitativa == SpecSistema /\ EquidadSistema

-----------------------------------------------------------------------------
(* Until memory answers OUT_OF_MEMORY the two programs implement Memoria:  *)
(* although a request, its service and the reading of its answer are       *)
(* steps of different threads, with steps of the other threads in between, *)
(* each exchange has the effect of one step on both copies of the tables.  *)
ImplementaMemoria == Mem!Init /\ [][agotada \/ Mem!Next]_(Mem!vars)

(* While nobody holds mutex_memoria the socket is empty, so that the next  *)
(* word a thread reads belongs to the answer to its own request; but for   *)
(* the size 0 of an OUT_OF_MEMORY, which no handler reads.                 *)
SocketEnOrden ==
  mutexMemoria = "libre" /\ ~indefinido =>
    /\ aMemoria = <<>>
    /\ aKernel = IF agotada THEN <<Palabra("0")>> ELSE <<>>

(* kernel.c:731, "cada vez que se modifique hay que recibir la lista       *)
(* actualizada": a process runs with the table that memory has for it,     *)
(* while memory has not run out, unless it was waiting for a resource when *)
(* memory was compacted and has made no request since. It is for programs  *)
(* without F_OPEN, F_CLOSE and F_SEEK (SistemaOK): with their credit the   *)
(* dispatcher may have a process in its hands during the update, which     *)
(* then runs with its old table.                                           *)
CpuConTablaVigente ==
  pcDesalojo = "cpu" /\ ~agotada /\ pcbDesalojo \notin atrasados =>
    tablaPcb[pcbDesalojo] = tablas[pcbDesalojo]

(* While memory has not run out no process is lost, or announced without   *)
(* being in EXEC: the retry of a CREATE_SEGMENT never asks for another     *)
(* compaction, whose answer would leave the process in no list. It does    *)
(* when a compaction found an empty hole and lost the bytes it gathered.   *)
NoSePierdeNadie == ~agotada /\ "restos" \notin averias => UnLugar /\ ExecNuncaVacia

(* Every process ends, whatever the order in which the two threads of the  *)
(* kernel ask memory, unless memory runs out or is left in pieces, or      *)
(* nobody signals the resource it waits for.                               *)
TerminanSiHayMemoria ==
  \A p \in Procesos :
    (estado[p] # "INEXISTENTE") ~>
      \/ estado[p] = "LIBERADO"
      \/ agotada \/ "restos" \in averias
      \/ [](p \in EsperanRecurso)
=============================================================================
