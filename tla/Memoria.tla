------------------------------ MODULE Memoria ------------------------------
(***************************************************************************)
(* Segment management: the memory module serving the kernel                *)
(* (ejecutar_kernel_pedido in src/modules/memoria/src/memoria.c) together  *)
(* with the part of the kernel that keeps each process's copy of its       *)
(* segment table (the handlers of CREATE_SEGMENT and DELETE_SEGMENT in     *)
(* src/modules/kernel/src/kernel.c).                                       *)
(*                                                                         *)
(* The kernel sends the whole PCB, with its copy of the table, and memory  *)
(* replaces its own by it: two copies that must agree. mutex_memoria makes *)
(* each request and its reply one step; a compaction and the retry of      *)
(* CREATE_SEGMENT are two, and only the creation of a PCB can come between *)
(* them, because one kernel thread makes all the other requests.           *)
(***************************************************************************)
EXTENDS Huecos

CONSTANTS
  Procesos,
  CantSegmentos,        (* CANT_SEGMENTOS                                   *)
  Ids,                  (* the segment ids that programs use                *)
  Tamanios,             (* the segment sizes that programs ask for          *)
  ProgramasOrdenados,   (* programs create a segment once before they use   *)
                        (* it, and delete only what they created            *)
  MaxPedidos,           (* bound: CREATE and DELETE requests                *)
  MaxCompactaciones,    (* bound: compactions                               *)
  Ninguno

ASSUME MemoriaOK ==
  /\ CantSegmentos \in Nat \ {0}
  /\ Ids \subseteq 0..CantSegmentos - 1
  /\ Tamanios \subseteq Nat \ {0}
  /\ ProgramasOrdenados \in BOOLEAN
  /\ MaxPedidos \in Nat /\ MaxCompactaciones \in Nat
  /\ Ninguno \notin Procesos

VARIABLES
  huecos,          \* lista_huecos
  tablas,          \* tabla_segmentos_global, the table of every PID
  tablasKernel,    \* pcb->lista_segmentos in the kernel
  activos,         \* the processes with a table that have not ended
  reintento,       \* the CREATE_SEGMENT to be retried after a compaction
  atrasados,       \* history: those the last compaction did not reach, until
                   \* their next request
  averias,         \* history: what has spoiled the bookkeeping, see Averias
  pedidos, compactaciones   \* how many so far, for the bounds

vars == <<huecos, tablas, tablasKernel, activos, reintento, atrasados, averias,
          pedidos, compactaciones>>

Segmento(base, tamanio) == [base |-> base, tamanio |-> tamanio]

SinSegmento == Segmento(Nulo, 0)

(* crear_tabla_segmentos and agregar_segmento_0.                           *)
TablaInicial ==
  [k \in 0..CantSegmentos - 1 |->
     IF k = 0 THEN Segmento(0, TamSegmento0) ELSE SinSegmento]

SinTabla == <<>>
SinReintento == [proceso |-> Ninguno, id |-> 0, tamanio |-> 0]

Init ==
  /\ huecos = HuecosIniciales
  /\ tablas = [p \in Procesos |-> SinTabla]
  /\ tablasKernel = [p \in Procesos |-> SinTabla]
  /\ activos = {}
  /\ reintento = SinReintento /\ atrasados = {} /\ averias = {}
  /\ pedidos = 0 /\ compactaciones = 0

(* AUX_CREATE_PCB: the long-term scheduler gets the table of a new process.*)
CrearPCB(p) ==
  /\ tablas[p] = SinTabla
  /\ tablas' = [tablas EXCEPT ![p] = TablaInicial]
  /\ tablasKernel' = [tablasKernel EXCEPT ![p] = TablaInicial]
  /\ activos' = activos \union {p}
  /\ UNCHANGED <<huecos, reintento, atrasados, averias, pedidos, compactaciones>>

-----------------------------------------------------------------------------
(* What the code lets happen, and after which its bookkeeping is wrong:    *)
(*   "tabla"     a process brought back a table from before a compaction;  *)
(*   "recreado"  a program created a segment that it already had;          *)
(*   "vacio"     a segment took a whole hole and left one of size 0;       *)
(*   "restos"    memory was compacted with more than two free holes, or    *)
(*               an empty one.                                             *)
Si(condicion, averia) == {a \in {averia} : condicion}

AlTraer(traida, propia) == Si(traida # propia, "tabla")

AlCrear(traida, propia, id, l) ==
  AlTraer(traida, propia) \union Si(traida[id].base # Nulo, "recreado")
    \union Si(\E i \in DOMAIN l : l[i].tamanio = 0, "vacio")

Libres(l) == {i \in DOMAIN l : l[i].libre}

Compactable(l) ==
  Cardinality(Libres(l)) \in 1..2 /\ \A i \in Libres(l) : l[i].tamanio > 0

AlCompactar(l) == Si(~Compactable(l), "restos")

(* The next CREATE_SEGMENT is the retry, if there is one.                  *)
Pide(p, id, t) ==
  /\ p \in activos
  /\ IF reintento.proceso = Ninguno
     THEN /\ pedidos < MaxPedidos
          /\ ProgramasOrdenados => tablasKernel[p][id].base = Nulo
          /\ pedidos' = pedidos + 1
     ELSE /\ reintento = [proceso |-> p, id |-> id, tamanio |-> t]
          /\ UNCHANGED pedidos

(* crear_segmento finds a hole; the kernel writes the base and the size in *)
(* its own copy when AUX_OK arrives.                                       *)
CrearSegmento(p, id, t) ==
  LET i == HuecoElegido(huecos, t)
      tabla == [tablasKernel[p] EXCEPT ![id] = Segmento(huecos[i].base, t)]
  IN
  /\ Pide(p, id, t)
  /\ i > 0
  /\ huecos' = Ocupar(huecos, i, t)
  /\ tablas' = [tablas EXCEPT ![p] = tabla]
  /\ tablasKernel' = [tablasKernel EXCEPT ![p] = tabla]
  /\ reintento' = SinReintento
  /\ atrasados' = atrasados \ {p}
  /\ averias' = averias \union AlCrear(tablasKernel[p], tablas[p], id, huecos')
  /\ UNCHANGED <<activos, compactaciones>>

(* crear_segmento answers COMPACTACION and the kernel orders it: memory    *)
(* moves the segments in its tables and sends all of them.                 *)
(* actualizar_todas_las_tablas_de_segmentos looks each PID up in           *)
(* lista_estados, where neither the requester nor the processes that wait  *)
(* for a resource (esperan, any of the others) are: their copy stays       *)
(* behind. A second COMPACTACION loses the process.                        *)
CompactarPara(p, id, t) ==
  /\ Pide(p, id, t)
  /\ HuecoElegido(huecos, t) = 0 /\ AlcanzaCompactando(huecos, t)
  /\ compactaciones < MaxCompactaciones
  /\ compactaciones' = compactaciones + 1
  /\ averias' = averias \union AlCompactar(huecos)
  /\ LET c == Compactar(huecos, tablas) IN
     /\ huecos' = c.l
     /\ tablas' = [q \in Procesos |-> c.tablas[q]]
     /\ \E esperan \in SUBSET (activos \ {p}) :
          /\ atrasados' = esperan \union {p}
          /\ tablasKernel' = [q \in Procesos |->
               IF q \in activos \ (esperan \union {p}) THEN c.tablas[q]
                                                       ELSE tablasKernel[q]]
  /\ IF reintento.proceso = Ninguno
     THEN /\ reintento' = [proceso |-> p, id |-> id, tamanio |-> t]
          /\ UNCHANGED activos
     ELSE /\ reintento' = SinReintento
          /\ activos' = activos \ {p}

(* OUT_OF_MEMORY: the kernel ends the process.                             *)
SinMemoria(p, id, t) ==
  /\ Pide(p, id, t)
  /\ HuecoElegido(huecos, t) = 0 /\ ~AlcanzaCompactando(huecos, t)
  /\ activos' = activos \ {p}
  /\ reintento' = SinReintento
  /\ UNCHANGED <<huecos, tablas, tablasKernel, atrasados, averias, compactaciones>>

(* Faulty variant: the kernel keeps its copy.                              *)
EliminarSegmentoSinCopiar(p, id) ==
  LET tabla == [tablasKernel[p] EXCEPT ![id] = SinSegmento] IN
  /\ p \in activos /\ reintento = SinReintento
  /\ pedidos < MaxPedidos
  /\ ProgramasOrdenados => tablasKernel[p][id].base # Nulo
  /\ huecos' = Liberar(huecos, tablasKernel[p][id].base)
  /\ tablas' = [tablas EXCEPT ![p] = tabla]
  /\ pedidos' = pedidos + 1
  /\ atrasados' = atrasados \ {p}
  /\ averias' = averias \union AlTraer(tablasKernel[p], tablas[p])
  /\ UNCHANGED <<tablasKernel, activos, reintento, compactaciones>>

(* eliminar_segmento, and the kernel replaces its copy by the reply.       *)
EliminarSegmento(p, id) ==
  LET tabla == [tablasKernel[p] EXCEPT ![id] = SinSegmento] IN
  /\ p \in activos /\ reintento = SinReintento
  /\ pedidos < MaxPedidos
  /\ ProgramasOrdenados => tablasKernel[p][id].base # Nulo
  /\ huecos' = Liberar(huecos, tablasKernel[p][id].base)
  /\ tablas' = [tablas EXCEPT ![p] = tabla]
  /\ tablasKernel' = [tablasKernel EXCEPT ![p] = tabla]
  /\ pedidos' = pedidos + 1
  /\ atrasados' = atrasados \ {p}
  /\ averias' = averias \union AlTraer(tablasKernel[p], tablas[p])
  /\ UNCHANGED <<activos, reintento, compactaciones>>

(* terminar_proceso in the kernel: memory is not told.                     *)
Terminar(p) ==
  /\ p \in activos /\ reintento = SinReintento
  /\ activos' = activos \ {p}
  /\ UNCHANGED <<huecos, tablas, tablasKernel, reintento, atrasados, averias,
                 pedidos, compactaciones>>

Next ==
  \E p \in Procesos :
    \/ CrearPCB(p) \/ Terminar(p)
    \/ \E id \in Ids :
         \/ EliminarSegmento(p, id)
         \/ \E t \in Tamanios : \/ CrearSegmento(p, id, t)
                                \/ CompactarPara(p, id, t)
                                \/ SinMemoria(p, id, t)

Spec == Init /\ [][Next]_vars

-----------------------------------------------------------------------------
(* The holes tile the memory: each starts where the previous one ends, the *)
(* first at 0 and the last ends at TamMemoria.                             *)
Tesela(l) ==
  /\ l # <<>> /\ l[1].base = 0
  /\ \A i \in 1..Len(l) - 1 : l[i + 1].base = l[i].base + l[i].tamanio
  /\ l[Len(l)].base + l[Len(l)].tamanio = TamMemoria

Listas == Seq([base : Nat, tamanio : Nat, libre : BOOLEAN])

(* lista_huecos is a list of holes that tile the memory, whatever programs *)
(* ask for, unless a compaction left holes behind.                         *)
Teselado ==
  /\ huecos \in Listas
  /\ "restos" \notin averias => Tesela(huecos)

(* The segments, other than 0, that memory has in its tables.              *)
Vivos == {s \in Procesos \X (1..CantSegmentos - 1) :
            /\ tablas[s[1]] # SinTabla
            /\ tablas[s[1]][s[2]].base # Nulo}

Dato(s) == tablas[s[1]][s[2]]

(* A table that is out of date spoils those of the others too, and so does *)
(* a compaction that leaves holes behind.                                  *)
TablasFieles == averias \intersect {"tabla", "restos"} = {}

(* No two segments share a byte, none reaches into segment 0 and none goes *)
(* beyond the memory. It is about the tables and the holes, not about what *)
(* a process reads: the CPU leaves the base out of the address (Cpu), and  *)
(* compactar moves no byte.                                                *)
SinSolapamiento ==
  TablasFieles =>
    \A s \in Vivos :
      /\ Dato(s).base >= TamSegmento0
      /\ Dato(s).base + Dato(s).tamanio <= TamMemoria
      /\ \A r \in Vivos \ {s} :
           \/ Dato(s).base + Dato(s).tamanio <= Dato(r).base
           \/ Dato(r).base + Dato(r).tamanio <= Dato(s).base

(* Every segment of a table is an occupied hole of its base and size. With *)
(* compactions it is what memoria.c:530-531 says, "modificar la tabla de   *)
(* segmentos" and "buscar el segmento en todas las tablas de segmentos":   *)
(* when a hole moves, the segment that owns it moves with it.              *)
SegmentosOcupados ==
  TablasFieles =>
    \A s \in Vivos : \E i \in DOMAIN huecos :
      huecos[i] = Hueco(Dato(s).base, Dato(s).tamanio, FALSE)

(* memoria.c:459, "buscar hueco que tenga la misma base que el segmento y  *)
(* marcarlo como libre": an occupied hole, other than that of segment 0,   *)
(* belongs to a segment of some table, so that its bytes can be used       *)
(* again. With an empty hole it is the wrong one that is marked.           *)
OcupadoTieneDuenio ==
  averias = {} =>
    \A i \in 2..Len(huecos) :
      huecos[i].libre \/ \E s \in Vivos : Dato(s).base = huecos[i].base

(* The kernel and memory agree on the table of every process, except those *)
(* that the last compaction could not find in the lists of the kernel, and *)
(* these only until they make a request.                                   *)
TablasCoinciden ==
  \A p \in activos \ atrasados : tablasKernel[p] = tablas[p]

(* Each segment keeps its size and gets the base of an occupied hole, not  *)
(* two the same; without failures no occupied hole is left without one.    *)
Reubicados(c) ==
  /\ \A p \in Procesos : c.tablas[p] = [k \in DOMAIN tablas[p] |->
       IF <<p, k>> \in Vivos THEN Segmento(c.tablas[p][k].base, tablas[p][k].tamanio)
                            ELSE tablas[p][k]]
  /\ \A s \in Vivos : \E i \in 2..Len(c.l) :
       c.l[i] = Hueco(c.tablas[s[1]][s[2]].base, Dato(s).tamanio, FALSE)
  /\ \A s, r \in Vivos :
       s # r => c.tablas[s[1]][s[2]].base # c.tablas[r[1]][r[2]].base
  /\ averias = {} => \A i \in 2..Len(c.l) - 1 : \E s \in Vivos :
       c.tablas[s[1]][s[2]].base = c.l[i].base

(* compactar, applied to any list of holes the module can reach: no table  *)
(* gets or loses an entry. With at most two free holes, neither empty, the *)
(* result tiles the memory, has all the free bytes in one hole at the end, *)
(* and moves the segments to the occupied holes, none of them to where     *)
(* segment 0 is.                                                           *)
CompactarDosLibres ==
  LET c == Compactar(huecos, tablas)
  IN  /\ c.l \in Listas
      /\ \A p \in Procesos : DOMAIN c.tablas[p] = DOMAIN tablas[p]
      /\ "restos" \notin averias /\ Compactable(huecos) =>
           /\ Tesela(c.l) /\ c.l[1] = huecos[1]
           /\ Last(c.l).tamanio = Libre(huecos)
           /\ \A i \in DOMAIN c.l : c.l[i].tamanio > 0 /\ (c.l[i].libre <=> i = Len(c.l))
           /\ \A p \in Procesos : \A k \in DOMAIN tablas[p] \ {0} : c.tablas[p][k].base # 0
           /\ TablasFieles => Reubicados(c)
=============================================================================
