--------------------------- MODULE SistemaProofs ---------------------------
(***************************************************************************)
(* Proofs about the kernel and the memory module over their socket         *)
(* (Sistema): what is in the socket while somebody holds mutex_memoria and *)
(* while nobody does, and that each exchange is one step of Memoria, for   *)
(* every number of processes, every program and every memory. What was     *)
(* proved of the kernel in PlanificadorProofs and of the memory in         *)
(* MemoriaProofs (through the mapping of Mem, MP here) then holds of both  *)
(* together.                                                               *)
(***************************************************************************)
EXTENDS Sistema, PlanificadorProofs

MP == INSTANCE MemoriaProofs WITH
  tablasKernel <- [p \in Procesos |-> TablaVista(p)],
  activos      <- Activos,
  reintento    <- [proceso |-> IF EnReintento THEN pcbDesalojo ELSE Ninguno,
                   id      |-> IF EnReintento THEN operacion.id ELSE 0,
                   tamanio |-> IF EnReintento THEN operacion.tamanio ELSE 0]

(* What MemoriaProofs assumes of the constants.                            *)
LEMMA SupuestosDeMemoria == MP!MemoriaOK /\ MP!HuecosOK
  BY SistemaOK, HuecosOK, ConstantesOK DEF MP!MemoriaOK, MP!HuecosOK

-----------------------------------------------------------------------------
(* What is left of the answers before: the size of an OUT_OF_MEMORY.       *)
Sobra == IF agotada THEN <<Palabra("0")>> ELSE <<>>

SinCanje == aMemoria = <<>> /\ aKernel = Sobra

(* An answer of two words behind it, the second one its buffer.            *)
ConTabla(tipo) == \E t : aKernel = Sobra \o <<Palabra(tipo), Buffer(t)>>

(* The exchange of the long-term scheduler: its request, or the answer.    *)
CanjeTabla ==
  \/ /\ Len(aMemoria) = 1 /\ aMemoria = <<aMemoria[1]>> /\ aKernel = Sobra
     /\ aMemoria[1].op = "AUX_CREATE_PCB" /\ aMemoria[1].proceso = pcbLargo
  \/ aMemoria = <<>> /\ ConTabla("AUX_CREATE_PCB")

(* Those of the eviction thread.                                           *)
Pedida(op) == aMemoria = <<Pedido(op, pcbDesalojo)>>

Negada ==
  /\ aMemoria = <<>> /\ agotada
  /\ \/ aKernel = <<Palabra("OUT_OF_MEMORY"), Palabra("0")>>
     \/ aKernel = <<Palabra("0"), Palabra("OUT_OF_MEMORY"), Palabra("0")>>

CanjeCrear ==
  /\ fase = "crea"
  /\ \/ Pedida("CREATE_SEGMENT") /\ aKernel = Sobra
     \/ aMemoria = <<>> /\ ConTabla("AUX_OK")
     \/ aMemoria = <<>> /\ aKernel = Sobra \o <<Palabra("COMPACTACION"), Palabra("0")>>
     \/ Negada

CanjeCompacta ==
  /\ fase = "compacta" /\ ~agotada
  /\ \/ Pedida("COMPACTACION") /\ aKernel = <<Palabra("0")>>
     \/ /\ aMemoria = <<>>
        /\ \E t : aKernel = <<Palabra("0"), Palabra("AUX_OK"), Buffer(t)>>

CanjeTrabado == fase = "trabado" /\ agotada

CanjeBorrar ==
  \/ Pedida("DELETE_SEGMENT") /\ aKernel = Sobra
  \/ aMemoria = <<>> /\ ConTabla("AUX_OK")

Pidiendo == pcDesalojo \in {"create_segment", "delete_segment"}

(* Who holds mutex_memoria says what is in the socket; the eviction thread *)
(* keeps it outside its handlers only after memory ran out.                *)
Mutex ==
  /\ mutexMemoria \in {"libre", "largo", "desalojo"}
  /\ pcLargo = "create_pcb" <=> mutexMemoria = "largo"
  /\ Pidiendo => mutexMemoria = "desalojo"
  /\ mutexMemoria = "desalojo" /\ ~Pidiendo => agotada

Canje ==
  /\ mutexMemoria = "libre" => SinCanje
  /\ mutexMemoria = "largo" => CanjeTabla
  /\ pcDesalojo = "create_segment" => CanjeCrear \/ CanjeCompacta \/ CanjeTrabado
  /\ pcDesalojo = "delete_segment" => CanjeBorrar

InvSocket == Mutex /\ Canje

-----------------------------------------------------------------------------
(* The words of an answer, one by one.                                     *)
LEMMA UneTres == \A z, a, b : <<z>> \o <<a, b>> = <<z, a, b>>
<1> TAKE z, a, b
<1> DEFINE S == {z, a, b}
           s == <<z>> \o <<a, b>>
           t == <<z, a, b>>
<1>1. <<z>> \in Seq(S) /\ <<a, b>> \in Seq(S) /\ t \in Seq(S)
  OBVIOUS
<1>2. /\ Len(<<z>>) = 1 /\ Len(<<a, b>>) = 2 /\ Len(t) = 3 /\ <<z>>[1] = z
      /\ <<a, b>>[1] = a /\ <<a, b>>[2] = b /\ t[1] = z /\ t[2] = a /\ t[3] = b
  OBVIOUS
<1>3. /\ s \in Seq(S) /\ Len(s) = Len(<<z>>) + Len(<<a, b>>)
      /\ \A i \in 1..Len(<<z>>) + Len(<<a, b>>) :
           s[i] = IF i <= Len(<<z>>) THEN <<z>>[i] ELSE <<a, b>>[i - Len(<<z>>)]
  BY <1>1, ConcatProperties
<1> HIDE DEF s, t
<1>4. Len(s) = Len(t) /\ Len(s) = 3 /\ s[1] = t[1] /\ s[2] = t[2] /\ s[3] = t[3]
  BY <1>2, <1>3
<1>5. \A i \in 1..Len(s) : s[i] = t[i]
  BY <1>4
<1>6. s = t
  BY <1>1, <1>3, <1>4, <1>5, SeqEqual
<1>7. QED
  BY <1>6 DEF s, t

(* An answer when nothing is left in the socket.                           *)
LEMMA UneDos == \A a, b : <<>> \o <<a, b>> = <<a, b>>
<1> TAKE a, b
<1>1. <<a, b>> \in Seq({a, b})
  OBVIOUS
<1>2. QED
  BY <1>1, ConcatEmptySeq

(* What is left of two or three words once some of them are read.          *)
LEMMA Palabras ==
  ASSUME NEW z, NEW a, NEW b
  PROVE  /\ SubSeq(<<a, b>>, 3, Len(<<a, b>>)) = <<>>
         /\ SubSeq(<<z, a, b>>, 4, Len(<<z, a, b>>)) = <<>>
         /\ Tail(<<a, b>>) = <<b>> /\ Tail(<<z, a, b>>) = <<a, b>>
         /\ Append(<<>>, a) = <<a>> /\ Tail(<<a>>) = <<>> /\ Head(<<a>>) = a
         /\ <<a>> # <<>> /\ <<a, b>> # <<>> /\ <<z, a, b>> # <<>>
<1>1. SubSeq(<<a, b>>, 3, Len(<<a, b>>)) = <<>>
  OBVIOUS
<1>2. SubSeq(<<z, a, b>>, 4, Len(<<z, a, b>>)) = <<>>
  OBVIOUS
<1>3. Tail(<<a, b>>) = <<b>>
  OBVIOUS
<1>4. Tail(<<z, a, b>>) = <<a, b>>
  OBVIOUS
<1>5. Append(<<>>, a) = <<a>>
  OBVIOUS
<1>6. Tail(<<a>>) = <<>>
  OBVIOUS
<1>7. Head(<<a>>) = a
  OBVIOUS
<1>8. <<a>> # <<>> /\ <<a, b>> # <<>> /\ <<z, a, b>> # <<>>
  OBVIOUS
<1>9. QED
  BY <1>1, <1>2, <1>3, <1>4, <1>5, <1>6, <1>7, <1>8

(* A word is its type.                                                     *)
LEMMA Tipos1 ==
  /\ \A t : Palabra(t).tipo = t
  /\ \A t : Buffer(t).tipo = "buffer" /\ Buffer(t).tabla = t
  BY DEF Palabra, Buffer

(* What the steps that do not talk to memory leave as it was.              *)
PasoAjeno ==
  /\ SinMemoria
  /\ \/ \E p \in Procesos : Consola(p)
     \/ CortoPlazo
     \/ LargoPlazo /\ "create_pcb" \notin {pcLargo, pcLargo'}
     \/ Desalojo /\ {pcDesalojo, pcDesalojo'} \intersect EsperaMemoria = {}

Aparte ==
  /\ UNCHANGED mutexMemoria
  /\ pcLargo = "create_pcb" <=> pcLargo' = "create_pcb"
  /\ pcLargo = "create_pcb" => UNCHANGED pcbLargo
  /\ pcDesalojo \in EsperaMemoria => UNCHANGED <<pcDesalojo, pcbDesalojo, reintento>>
  /\ pcDesalojo' \in EsperaMemoria => pcDesalojo \in EsperaMemoria

(* They are steps of the kernel, and of no handler that waits for memory.  *)
LEMMA AjenoAparte ==
  ASSUME PasoAjeno
  PROVE  Aparte /\ [Next]_vars /\ SinMemoria
<1> USE DEF largo, corto, desalojo, semaforos, listas, programas, recursos, archivos
<1>1. ASSUME NEW p \in Procesos, Consola(p) PROVE Aparte
  BY <1>1 DEF Consola, CreaPCB, AgregaNew, Aparte
<1>2. ASSUME CortoPlazo PROVE Aparte
  BY <1>2 DEF CortoPlazo, CortoEsperaCpu, CortoEsperaListo, CortoElige, CortoAgrega,
       CortoAvisa, PasoCorto, Aparte
<1>3. ASSUME LargoPlazo, "create_pcb" \notin {pcLargo, pcLargo'} PROVE Aparte
  BY <1>3 DEF LargoPlazo, LargoInicializar, LargoTomaNew, LargoPideTabla,
       LargoRecibeTabla, LargoAdmite, PasoLargo, Aparte
<1>4. ASSUME Desalojo, {pcDesalojo, pcDesalojo'} \intersect EsperaMemoria = {}
      PROVE  Aparte
  <2>1. pcDesalojo \notin EsperaMemoria /\ pcDesalojo' \notin EsperaMemoria
    BY <1>4
  <2>2. ASSUME UNCHANGED <<mutexMemoria, pcLargo, pcbLargo>> PROVE Aparte
    BY <2>1, <2>2 DEF Aparte
  <2>3. CASE DesalojoToma \/ DesalojoSinProceso
    BY <2>2, <2>3 DEF DesalojoToma, DesalojoSinProceso
  <2>4. CASE TomaMemoria \/ CreateSegmentOk \/ CreateSegmentCompacta
             \/ CreateSegmentSinMemoria \/ DeleteSegmentOk
    BY <2>1, <2>4 DEF TomaMemoria, CreateSegmentOk, CreateSegmentCompacta,
         CreateSegmentSinMemoria, DeleteSegmentOk, Responde, EsperaMemoria
  <2>5. CASE \E f \in Archivos : \/ FOpenOcupado(f) \/ FOpen(f) \/ FClose(f)
                                 \/ FSeek(f) \/ FReadWrite(f) \/ ArchivoNoAbierto(f)
    BY <2>2, <2>5 DEF FOpenOcupado, FOpen, FClose, FSeek, FReadWrite, ArchivoNoAbierto
  <2>6. CASE \E r \in Recursos : WaitConcedido(r) \/ WaitBloquea(r) \/ Signal(r)
    BY <2>2, <2>6 DEF WaitConcedido, WaitBloquea, Signal
  <2>7. CASE Exit \/ SegmentationFault \/ Yield \/ IO \/ FinIO \/ FTruncate
             \/ FinFTruncate \/ FinFReadWrite \/ RecursoInexistente \/ PideSegmento
    BY <2>2, <2>7 DEF Exit, SegmentationFault, Yield, IO, FinIO, FTruncate,
         FinFTruncate, FinFReadWrite, RecursoInexistente, PideSegmento
  <2>8. QED
    BY <1>4, <2>3, <2>4, <2>5, <2>6, <2>7 DEF Desalojo, ManejoInstrucciones
<1>5. [Next]_vars /\ SinMemoria
  BY DEF PasoAjeno, Next
<1>6. QED
  BY <1>1, <1>2, <1>3, <1>4, <1>5 DEF PasoAjeno

(* Each step of the system, by who takes it.                               *)
DelDesalojo ==
  \/ PideOperacion \/ EnviaOperacion \/ RecibeBase \/ OrdenaCompactar
  \/ RecibeTablas \/ RecibeSinMemoria \/ LeeOtraCosa \/ RecibeTablaSinSegmento
  \/ BorrarSinRespuesta

(* A step is one of them, or of the kernel alone, or of memory.            *)
LEMMA PasosDelSistema ==
  ASSUME NextSistema
  PROVE  ~indefinido /\ (PasoAjeno \/ PideTabla \/ RecibeTabla \/ DelDesalojo
                         \/ AtencionKernel)
  BY DEF NextSistema, LargoSistema, DesalojoSistema, PasoAjeno, DelDesalojo

(* The rest of the system leaves the socket alone.                         *)
LEMMA SocketAjeno ==
  ASSUME InvSocket, PasoAjeno
  PROVE  InvSocket'
<1>1. Aparte /\ SinMemoria
  BY AjenoAparte
<1>2. Mutex'
  BY <1>1 DEF InvSocket, Mutex, Aparte, SinMemoria, EsperaMemoria, Pidiendo, historia
<1>3. Canje'
  <2>1. UNCHANGED <<aMemoria, aKernel, agotada, tablas, tablaPcb, operacion, fase,
                    mutexMemoria>>
    BY <1>1 DEF Aparte, SinMemoria, memoria, delKernel, conexion, historia
  <2>2. mutexMemoria = "largo" => CanjeTabla' 
    BY <1>1, <2>1 DEF InvSocket, Mutex, Canje, CanjeTabla, ConTabla, Aparte, Sobra
  <2>3. pcDesalojo' \in EsperaMemoria =>
          UNCHANGED <<pcDesalojo, pcbDesalojo>>
    BY <1>1 DEF Aparte
  <2>4. pcDesalojo' \in EsperaMemoria => /\ CanjeCrear <=> CanjeCrear'
                                         /\ CanjeCompacta <=> CanjeCompacta'
                                         /\ CanjeTrabado <=> CanjeTrabado'
                                         /\ CanjeBorrar <=> CanjeBorrar'
    BY <2>1, <2>3 DEF CanjeCrear, CanjeCompacta, CanjeTrabado, CanjeBorrar, Pedida,
         ConTabla, Negada, Pedido, Sobra
  <2>5. QED
    BY <2>1, <2>2, <2>3, <2>4 DEF InvSocket, Canje, EsperaMemoria, SinCanje, Sobra
<1>4. QED
  BY <1>2, <1>3 DEF InvSocket

(* What the long-term scheduler finds. Once memory ran out it takes the    *)
(* code of the answer for the size, and what follows for the table.        *)
LEMMA RecibeBien ==
  ASSUME InvSocket, RecibeTabla
  PROVE  /\ ~agotada => /\ \E t : aKernel = <<Palabra("AUX_CREATE_PCB"), Buffer(t)>>
                         /\ aKernel' = <<>> /\ UNCHANGED indefinido
         /\ agotada => indefinido'
         /\ aMemoria = <<>> /\ aMemoria' = <<>> /\ mutexMemoria = "largo"
<1>1. mutexMemoria = "largo" /\ aMemoria = <<>> /\ aMemoria' = <<>>
  BY DEF RecibeTabla, LargoRecibeTabla, PasoLargo, Contestado, InvSocket, Mutex
<1>2. PICK t : aKernel = Sobra \o <<Palabra("AUX_CREATE_PCB"), Buffer(t)>>
  BY <1>1, Palabras DEF InvSocket, Canje, CanjeTabla, ConTabla
<1>3. CASE agotada
  <2>1. aKernel = <<Palabra("0"), Palabra("AUX_CREATE_PCB"), Buffer(t)>>
    BY <1>2, <1>3, UneTres DEF Sobra
  <2>2. aKernel[2].tipo = "AUX_CREATE_PCB"
    BY <2>1, Tipos1
  <2>3. QED
    BY <1>1, <1>3, <2>2 DEF RecibeTabla
<1>4. CASE ~agotada
  <2>1. aKernel = <<Palabra("AUX_CREATE_PCB"), Buffer(t)>>
    BY <1>2, <1>4, UneDos DEF Sobra
  <2>2. aKernel[2].tipo = "buffer"
    BY <2>1, Tipos1
  <2>3. aKernel' = <<>>
    BY <2>1, <2>2, Palabras DEF RecibeTabla
  <2>4. QED
    BY <1>1, <1>4, <2>1, <2>2, <2>3 DEF RecibeTabla
<1>5. QED
  BY <1>3, <1>4

(* Nor do the steps of the two threads of the kernel disturb the exchange  *)
(* of the other, as there is only one.                                     *)
LEMMA SocketLargo ==
  ASSUME InvSocket, PideTabla \/ RecibeTabla
  PROVE  indefinido' \/ InvSocket'
<1> USE DEF largo, corto, desalojo, memoria, delKernel, historia
<1>1. CASE PideTabla
  <2>1. /\ mutexMemoria = "libre" /\ mutexMemoria' = "largo"
        /\ pcLargo = "mutex_memoria" /\ pcLargo' = "create_pcb"
        /\ UNCHANGED <<pcbLargo, pcDesalojo, pcbDesalojo, tablas, aKernel, agotada>>
        /\ aMemoria' = Append(aMemoria, Pedido("AUX_CREATE_PCB", pcbLargo))
    BY <1>1 DEF PideTabla, LargoPideTabla, PasoLargo
  <2>2. aMemoria = <<>> /\ aKernel = Sobra /\ ~Pidiendo
    BY <2>1 DEF InvSocket, Mutex, Canje, SinCanje
  <2>3. PICK r : r = Pedido("AUX_CREATE_PCB", pcbLargo)
    OBVIOUS
  <2>4. aMemoria' = <<r>> /\ r.op = "AUX_CREATE_PCB" /\ r.proceso = pcbLargo
    BY <2>1, <2>2, <2>3, Palabras DEF Pedido
  <2>5. CanjeTabla'
    <3>1. Len(aMemoria') = 1 /\ aMemoria'[1] = r
      BY <2>4
    <3>2. aKernel' = Sobra'
      BY <2>1, <2>2 DEF Sobra
    <3>3. QED
      BY <2>1, <2>4, <3>1, <3>2 DEF CanjeTabla
  <2>6. QED
    BY <2>1, <2>2, <2>5 DEF InvSocket, Mutex, Canje, Pidiendo
<1>2. CASE RecibeTabla
  <2>1. /\ pcLargo = "create_pcb" /\ pcLargo' = "grado" /\ mutexMemoria' = "libre"
        /\ UNCHANGED <<pcDesalojo, pcbDesalojo, agotada>>
    BY <1>2 DEF RecibeTabla, LargoRecibeTabla, PasoLargo
  <2>2. mutexMemoria = "largo" /\ ~Pidiendo
    BY <2>1 DEF InvSocket, Mutex
  <2>3. indefinido' \/ SinCanje'
    BY <1>2, <2>1, RecibeBien DEF SinCanje, Sobra
  <2>4. QED
    BY <2>1, <2>2, <2>3 DEF InvSocket, Mutex, Canje, Pidiendo
<1>3. QED
  BY <1>1, <1>2

(* What a handler of the eviction thread finds in the socket. While memory *)
(* has not run out, the answer to its own request; afterwards, the size 0  *)
(* of another answer, unless the answer is that memory ran out just now.   *)
(* First, an answer of two words behind what is left.                      *)
LEMMA HayAlgo ==
  \A a, b : Sobra \o <<a, b>> = IF agotada THEN <<Palabra("0"), a, b>> ELSE <<a, b>>
<1> TAKE a, b
<1>1. QED
  BY UneTres, UneDos DEF Sobra

(* The first answer to a CREATE_SEGMENT.                                   *)
LEMMA LoQueLee ==
  ASSUME InvSocket, pcDesalojo = "create_segment", fase = "crea", Contestado
  PROVE  /\ ~agotada => \/ \E t : aKernel = <<Palabra("AUX_OK"), Buffer(t)>>
                        \/ aKernel = <<Palabra("COMPACTACION"), Palabra("0")>>
         /\ agotada => \/ aKernel = <<Palabra("OUT_OF_MEMORY"), Palabra("0")>>
                       \/ aKernel[1].tipo = "0"
<1>1. CanjeCrear
  BY DEF InvSocket, Canje, CanjeCompacta, CanjeTrabado
<1>2. ~Pedida("CREATE_SEGMENT")
  BY Palabras DEF Pedida, Contestado
<1>3. CASE ConTabla("AUX_OK")
  <2>1. PICK t : aKernel = Sobra \o <<Palabra("AUX_OK"), Buffer(t)>>
    BY <1>3 DEF ConTabla
  <2>2. CASE agotada
    <3>1. aKernel = <<Palabra("0"), Palabra("AUX_OK"), Buffer(t)>>
      BY <2>1, <2>2, HayAlgo
    <3>2. QED
      BY <2>2, <3>1, Tipos1
  <2>3. CASE ~agotada
    BY <2>1, <2>3, HayAlgo
  <2>4. QED
    BY <2>2, <2>3
<1>4. CASE aKernel = Sobra \o <<Palabra("COMPACTACION"), Palabra("0")>>
  <2>1. CASE agotada
    <3>1. aKernel = <<Palabra("0"), Palabra("COMPACTACION"), Palabra("0")>>
      BY <1>4, <2>1, HayAlgo
    <3>2. QED
      BY <2>1, <3>1, Tipos1
  <2>2. CASE ~agotada
    BY <1>4, <2>2, HayAlgo
  <2>3. QED
    BY <2>1, <2>2
<1>5. CASE Negada
  BY <1>5, Tipos1 DEF Negada
<1>6. QED
  BY <1>1, <1>2, <1>3, <1>4, <1>5 DEF CanjeCrear

(* The same after DELETE_SEGMENT.                                          *)
LEMMA LoQueLeeAlBorrar ==
  ASSUME InvSocket, pcDesalojo = "delete_segment", Contestado
  PROVE  /\ ~agotada => \E t : aKernel = <<Palabra("AUX_OK"), Buffer(t)>>
         /\ agotada => aKernel[1].tipo = "0"
<1>1. CanjeBorrar
  BY DEF InvSocket, Canje
<1>2. ~Pedida("DELETE_SEGMENT")
  BY Palabras DEF Pedida, Contestado
<1>3. PICK t : aKernel = Sobra \o <<Palabra("AUX_OK"), Buffer(t)>>
  BY <1>1, <1>2 DEF CanjeBorrar, ConTabla
<1>4. CASE agotada
  <2>1. aKernel = <<Palabra("0"), Palabra("AUX_OK"), Buffer(t)>>
    BY <1>3, <1>4, HayAlgo
  <2>2. QED
    BY <1>4, <2>1, Tipos1
<1>5. CASE ~agotada
  BY <1>3, <1>5, HayAlgo
<1>6. QED
  BY <1>4, <1>5

(* And when the tables are to come, after a compaction.                    *)
LEMMA LoQueLeeAlCompactar ==
  ASSUME InvSocket, pcDesalojo = "create_segment", fase = "compacta", Contestado
  PROVE  ~agotada /\ \E t : aKernel = <<Palabra("0"), Palabra("AUX_OK"), Buffer(t)>>
<1>1. CanjeCompacta
  BY DEF InvSocket, Canje, CanjeCrear, CanjeTrabado
<1>2. ~Pedida("COMPACTACION")
  BY Palabras DEF Pedida, Contestado
<1>3. QED
  BY <1>1, <1>2 DEF CanjeCompacta

(* The steps of the eviction thread, which are about its own exchange.     *)
LEMMA SocketDesalojo ==
  ASSUME InvSocket, DelDesalojo
  PROVE  InvSocket'
<1> USE DEF largo, corto, desalojo, memoria, delKernel, conexion, historia
<1>1. CASE PideOperacion
  <2>1. /\ pcDesalojo = "cpu" /\ pcDesalojo' \in {"mutex_create", "mutex_delete"}
        /\ UNCHANGED <<pcLargo, pcbLargo, mutexMemoria, agotada, aMemoria, aKernel>>
    BY <1>1 DEF PideOperacion, PideSegmento, Devuelto, Fin
  <2>2. CanjeTabla <=> CanjeTabla'
    BY <2>1 DEF CanjeTabla, ConTabla, Sobra
  <2>3. QED
    BY <2>1, <2>2 DEF InvSocket, Mutex, Canje, SinCanje, Sobra, Pidiendo
<1>2. CASE EnviaOperacion
  <2>1. /\ mutexMemoria = "libre" /\ mutexMemoria' = "desalojo" /\ fase' = "crea"
        /\ UNCHANGED <<pcLargo, pcbLargo, pcbDesalojo, agotada, aKernel, operacion,
                       tablaPcb>>
    BY <1>2 DEF EnviaOperacion, TomaMemoria
  <2>2. \/ pcDesalojo = "mutex_create" /\ pcDesalojo' = "create_segment"
        \/ pcDesalojo = "mutex_delete" /\ pcDesalojo' = "delete_segment"
    BY <1>2 DEF EnviaOperacion, TomaMemoria
  <2>3. aMemoria = <<>> /\ aKernel = Sobra /\ aKernel' = Sobra'
    BY <2>1 DEF InvSocket, Canje, SinCanje, Sobra
  <2>4. CASE pcDesalojo = "mutex_create" /\ pcDesalojo' = "create_segment"
    <3>1. aMemoria' = Append(<<>>, Pedido("CREATE_SEGMENT", pcbDesalojo))
      BY <1>2, <2>3, <2>4 DEF EnviaOperacion
    <3>2. aMemoria' = <<Pedido("CREATE_SEGMENT", pcbDesalojo)>>
      BY <3>1, Palabras
    <3>3. Pedida("CREATE_SEGMENT")'
      BY <2>1, <3>2 DEF Pedida, Pedido
    <3>4. QED
      BY <2>1, <2>3, <2>4, <3>3 DEF InvSocket, Mutex, Canje, CanjeCrear, Pidiendo
  <2>5. CASE pcDesalojo = "mutex_delete" /\ pcDesalojo' = "delete_segment"
    <3>1. aMemoria' = Append(<<>>, Pedido("DELETE_SEGMENT", pcbDesalojo))
      BY <1>2, <2>3, <2>5 DEF EnviaOperacion
    <3>2. aMemoria' = <<Pedido("DELETE_SEGMENT", pcbDesalojo)>>
      BY <3>1, Palabras
    <3>3. Pedida("DELETE_SEGMENT")'
      BY <2>1, <3>2 DEF Pedida, Pedido
    <3>4. QED
      BY <2>1, <2>3, <2>5, <3>3 DEF InvSocket, Mutex, Canje, CanjeBorrar, Pidiendo
  <2>6. QED
    BY <2>2, <2>4, <2>5
<1>3. ASSUME pcDesalojo' \in {"executing", "mutex_create"}, UNCHANGED <<pcLargo, agotada>>,
             mutexMemoria' = "libre", aMemoria' = <<>>, aKernel' = Sobra, Pidiendo
      PROVE  InvSocket'
  BY <1>3 DEF InvSocket, Mutex, Canje, SinCanje, Sobra, Pidiendo
<1>4. CASE RecibeBase
  <2>1. /\ pcDesalojo = "create_segment" /\ pcDesalojo' = "executing"
        /\ mutexMemoria' = "libre" /\ UNCHANGED <<pcLargo, agotada, aMemoria>>
        /\ fase = "crea" /\ Contestado /\ aKernel[1].tipo = "AUX_OK"
    BY <1>4 DEF RecibeBase, Lee, CreateSegmentOk, Responde, SigueEjecutando, Fin
  <2>2. ~agotada /\ \E t : aKernel = <<Palabra("AUX_OK"), Buffer(t)>>
    BY <2>1, LoQueLee, Tipos1
  <2>3. aKernel' = <<>>
    BY <1>4, <2>2, Palabras DEF RecibeBase
  <2>4. QED
    BY <1>3, <2>1, <2>2, <2>3 DEF Sobra, Contestado, Pidiendo
<1>5. CASE OrdenaCompactar
  <2>1. /\ pcDesalojo = "create_segment" /\ fase' = "compacta"
        /\ UNCHANGED <<pcDesalojo, pcbDesalojo, pcLargo, mutexMemoria, agotada, operacion,
                       tablaPcb>>
        /\ fase = "crea" /\ Contestado /\ aKernel[1].tipo = "COMPACTACION"
    BY <1>5 DEF OrdenaCompactar, Lee, vars
  <2>2. ~agotada /\ aKernel = <<Palabra("COMPACTACION"), Palabra("0")>>
    BY <2>1, LoQueLee, Tipos1
  <2>3. aKernel' = <<Palabra("0")>>
    BY <1>5, <2>2, Palabras DEF OrdenaCompactar
  <2>4. aMemoria' = Append(<<>>, Pedido("COMPACTACION", pcbDesalojo))
    BY <1>5, <2>1 DEF OrdenaCompactar, Contestado
  <2>5. aMemoria' = <<Pedido("COMPACTACION", pcbDesalojo)>>
    BY <2>4, Palabras
  <2>6. Pedida("COMPACTACION")'
    BY <2>1, <2>5 DEF Pedida, Pedido
  <2>7. QED
    BY <2>1, <2>2, <2>3, <2>6 DEF InvSocket, Mutex, Canje, CanjeCompacta, Pidiendo
<1>6. CASE RecibeTablas
  <2>1. /\ pcDesalojo = "create_segment" /\ pcDesalojo' \in {"executing", "mutex_create"}
        /\ mutexMemoria' = "libre" /\ UNCHANGED <<pcLargo, agotada, aMemoria>>
        /\ fase = "compacta" /\ Contestado
    BY <1>6 DEF RecibeTablas, CreateSegmentCompacta, Responde
  <2>2. ~agotada /\ \E t : aKernel = <<Palabra("0"), Palabra("AUX_OK"), Buffer(t)>>
    BY <2>1, LoQueLeeAlCompactar
  <2>3. aKernel' = <<>>
    BY <1>6, <2>2, Palabras DEF RecibeTablas
  <2>4. QED
    BY <1>3, <2>1, <2>2, <2>3 DEF Sobra, Contestado, Pidiendo
<1>7. CASE RecibeSinMemoria
  <2>1. /\ pcDesalojo = "create_segment" /\ pcDesalojo' = "executing"
        /\ mutexMemoria' = "libre" /\ UNCHANGED <<pcLargo, agotada, aMemoria>>
        /\ fase = "crea" /\ Contestado /\ aKernel[1].tipo = "OUT_OF_MEMORY"
    BY <1>7 DEF RecibeSinMemoria, Lee, CreateSegmentSinMemoria, Responde, TerminaProceso,
         Fin
  <2>2. agotada /\ aKernel = <<Palabra("OUT_OF_MEMORY"), Palabra("0")>>
    BY <2>1, LoQueLee, Tipos1
  <2>3. aKernel' = <<Palabra("0")>>
    BY <1>7, <2>2, Palabras DEF RecibeSinMemoria
  <2>4. QED
    BY <1>3, <2>1, <2>2, <2>3 DEF Sobra, Contestado, Pidiendo
<1>8. CASE LeeOtraCosa
  <2>1. /\ pcDesalojo = "create_segment" /\ fase' = "trabado"
        /\ UNCHANGED <<pcDesalojo, pcLargo, mutexMemoria, agotada>>
        /\ fase = "crea" /\ Contestado /\ aKernel[1].tipo \notin Respuestas
    BY <1>8 DEF LeeOtraCosa, vars
  <2>2. agotada
    BY <2>1, LoQueLee, Tipos1 DEF Respuestas
  <2>3. QED
    BY <2>1, <2>2 DEF InvSocket, Mutex, Canje, CanjeTrabado, Pidiendo
<1>9. CASE RecibeTablaSinSegmento
  <2>1. /\ pcDesalojo = "delete_segment" /\ pcDesalojo' = "executing"
        /\ mutexMemoria' = "libre" /\ UNCHANGED <<pcLargo, agotada, aMemoria>>
        /\ Contestado /\ aKernel[1].tipo = "AUX_OK"
    BY <1>9 DEF RecibeTablaSinSegmento, DeleteSegmentOk, SigueEjecutando, Fin
  <2>2. ~agotada /\ \E t : aKernel = <<Palabra("AUX_OK"), Buffer(t)>>
    BY <2>1, LoQueLeeAlBorrar
  <2>3. aKernel' = <<>>
    BY <1>9, <2>2, Palabras DEF RecibeTablaSinSegmento
  <2>4. QED
    BY <1>3, <2>1, <2>2, <2>3 DEF Sobra, Contestado, Pidiendo
<1>10. CASE BorrarSinRespuesta
  <2>1. /\ pcDesalojo = "delete_segment" /\ pcDesalojo' = "executing"
        /\ UNCHANGED <<pcLargo, mutexMemoria, agotada>>
        /\ Contestado /\ aKernel[1].tipo # "AUX_OK"
    BY <1>10 DEF BorrarSinRespuesta, SigueEjecutando, Fin
  <2>2. agotada
    BY <2>1, LoQueLeeAlBorrar, Tipos1
  <2>3. QED
    BY <2>1, <2>2 DEF InvSocket, Mutex, Canje, Pidiendo
<1>11. QED
  BY <1>1, <1>2, <1>4, <1>5, <1>6, <1>7, <1>8, <1>9, <1>10 DEF DelDesalojo

(* Which request memory finds.                                             *)
EnTrabado ==
  /\ mutexMemoria = "desalojo" /\ agotada
  /\ (pcDesalojo = "create_segment" /\ fase = "trabado") \/ ~Pidiendo

EnCrear ==
  /\ pcDesalojo = "create_segment" /\ fase = "crea" /\ Pedida("CREATE_SEGMENT")
  /\ aKernel = Sobra

EnCompacta ==
  /\ pcDesalojo = "create_segment" /\ fase = "compacta" /\ ~agotada
  /\ Pedida("COMPACTACION") /\ aKernel = <<Palabra("0")>>

EnBorrar ==
  pcDesalojo = "delete_segment" /\ Pedida("DELETE_SEGMENT") /\ aKernel = Sobra

EnTabla ==
  /\ mutexMemoria = "largo" /\ Len(aMemoria) = 1 /\ aMemoria = <<aMemoria[1]>>
  /\ aMemoria[1].op = "AUX_CREATE_PCB" /\ aMemoria[1].proceso = pcbLargo
  /\ aKernel = Sobra

(* There is one only in the hands of who holds the mutex.                  *)
LEMMA QuePedidoHay ==
  ASSUME InvSocket, aMemoria # <<>>
  PROVE  EnTrabado \/ EnCrear \/ EnCompacta \/ EnBorrar \/ EnTabla
  BY DEF InvSocket, Mutex, Canje, SinCanje, CanjeTabla, CanjeCrear, CanjeCompacta,
     CanjeTrabado, CanjeBorrar, Negada, EnTrabado, EnCrear, EnCompacta, EnBorrar,
     EnTabla, Pidiendo

(* What the request says, and that there is no other behind it.            *)
LEMMA QuePide ==
  /\ \A op : Pedida(op) => /\ aMemoria # <<>> /\ Tail(aMemoria) = <<>>
                           /\ Head(aMemoria) = Pedido(op, pcbDesalojo)
                           /\ Head(aMemoria).op = op
  /\ EnTabla => /\ aMemoria # <<>> /\ Tail(aMemoria) = <<>>
                /\ Head(aMemoria).op = "AUX_CREATE_PCB" /\ Head(aMemoria).proceso = pcbLargo
<1>1. ASSUME NEW op, Pedida(op)
      PROVE  /\ aMemoria # <<>> /\ Tail(aMemoria) = <<>>
             /\ Head(aMemoria) = Pedido(op, pcbDesalojo) /\ Head(aMemoria).op = op
  <2>1. PICK r : r = Pedido(op, pcbDesalojo)
    OBVIOUS
  <2>2. r.op = op
    BY <2>1 DEF Pedido
  <2>3. QED
    BY <1>1, <2>1, <2>2, Palabras DEF Pedida
<1>2. ASSUME EnTabla
      PROVE  /\ aMemoria # <<>> /\ Tail(aMemoria) = <<>>
             /\ Head(aMemoria).op = "AUX_CREATE_PCB" /\ Head(aMemoria).proceso = pcbLargo
  <2>1. PICK r : aMemoria = <<r>> /\ r = aMemoria[1]
    BY <1>2 DEF EnTabla
  <2>2. QED
    BY <1>2, <2>1, Palabras DEF EnTabla
<1>3. QED
  BY <1>1, <1>2

(* Memory reads the request, and leaves alone what is of the kernel.       *)
Atencion(op) ==
  /\ Atiende(op)
  /\ UNCHANGED <<vars, delKernel>>
  /\ agotada => agotada'

(* Which request each of its steps is for.                                 *)
LEMMA PasosDeAtencion ==
  /\ AtiendeCrearPcb => Atencion("AUX_CREATE_PCB") /\ UNCHANGED agotada
  /\ AtiendeCrear => Atencion("CREATE_SEGMENT") /\ UNCHANGED agotada
  /\ AtiendeSinHueco => Atencion("CREATE_SEGMENT")
  /\ AtiendeCompactacion => Atencion("COMPACTACION") /\ UNCHANGED agotada
  /\ AtiendeBorrar => Atencion("DELETE_SEGMENT") /\ UNCHANGED agotada
<1> USE DEF memoria, historia, Atencion
<1>1. AtiendeCrearPcb => Atencion("AUX_CREATE_PCB") /\ UNCHANGED agotada
  BY DEF AtiendeCrearPcb
<1>2. AtiendeCrear => Atencion("CREATE_SEGMENT") /\ UNCHANGED agotada
  BY DEF AtiendeCrear
<1>3. AtiendeSinHueco => Atencion("CREATE_SEGMENT")
  BY DEF AtiendeSinHueco
<1>4. AtiendeCompactacion => Atencion("COMPACTACION") /\ UNCHANGED agotada
  BY DEF AtiendeCompactacion
<1>5. AtiendeBorrar => Atencion("DELETE_SEGMENT") /\ UNCHANGED agotada
  BY DEF AtiendeBorrar
<1>6. QED
  BY <1>1, <1>2, <1>3, <1>4, <1>5

(* With a table behind what was left, the answer is one of those.          *)
LEMMA AhoraConTabla ==
  \A tipo, t :
    UNCHANGED agotada /\ aKernel = Sobra /\ aKernel' = aKernel \o <<Palabra(tipo), Buffer(t)>>
      => ConTabla(tipo)'
<1> TAKE tipo, t
<1> SUFFICES ASSUME UNCHANGED agotada, aKernel = Sobra,
                    aKernel' = aKernel \o <<Palabra(tipo), Buffer(t)>>
             PROVE  ConTabla(tipo)'
  OBVIOUS
<1>1. aKernel' = Sobra' \o <<Palabra(tipo), Buffer(t)>>
  BY DEF Sobra
<1>2. QED
  BY <1>1 DEF ConTabla

(* The steps of memory answer the request that there is.                   *)
LEMMA SocketMemoria ==
  ASSUME InvSocket, AtencionKernel
  PROVE  InvSocket'
<1> USE DEF largo, corto, desalojo, delKernel
<1>1. PICK op : Atencion(op)
  BY PasosDeAtencion DEF AtencionKernel
<1>2. /\ aMemoria # <<>> /\ Head(aMemoria).op = op /\ aMemoria' = Tail(aMemoria)
      /\ UNCHANGED <<pcLargo, pcbLargo, pcDesalojo, pcbDesalojo, mutexMemoria, fase>>
      /\ agotada => agotada'
  BY <1>1 DEF Atencion, Atiende, vars
<1>3. Mutex'
  BY <1>2 DEF InvSocket, Mutex, Pidiendo
<1>4. CASE EnTrabado
  BY <1>2, <1>3, <1>4 DEF EnTrabado, InvSocket, Mutex, Canje, CanjeTrabado, Pidiendo
<1>5. CASE EnTabla
  <2>1. op = "AUX_CREATE_PCB" /\ aMemoria' = <<>>
    BY <1>2, <1>5, QuePide
  <2>2. AtiendeCrearPcb /\ UNCHANGED agotada
    BY <1>2, <2>1, PasosDeAtencion DEF AtencionKernel, Atencion, Atiende
  <2>3. ConTabla("AUX_CREATE_PCB")'
    <3>1. aKernel' = aKernel \o <<Palabra("AUX_CREATE_PCB"), Buffer(Mem!TablaInicial)>>
      BY <2>2 DEF AtiendeCrearPcb, Contesta
    <3>2. QED
      BY <1>5, <2>2, <3>1, AhoraConTabla DEF EnTabla
  <2>4. QED
    BY <1>2, <1>3, <1>5, <2>1, <2>3 DEF InvSocket, Mutex, Canje, CanjeTabla, EnTabla,
         Pidiendo
<1>6. CASE EnCrear
  <2>1. op = "CREATE_SEGMENT" /\ aMemoria' = <<>>
    BY <1>2, <1>6, QuePide DEF EnCrear
  <2>2. AtiendeCrear \/ AtiendeSinHueco
    BY <1>2, <2>1, PasosDeAtencion DEF AtencionKernel, Atencion, Atiende
  <2>3. CASE AtiendeCrear
    <3>1. UNCHANGED agotada
      BY <2>3, PasosDeAtencion
    <3>2. ConTabla("AUX_OK")'
      <4>1. PICK t : aKernel' = aKernel \o <<Palabra("AUX_OK"), Buffer(t)>>
        <5>1. PICK t : t = [Head(aMemoria).tabla EXCEPT ![Head(aMemoria).id] =
                 Mem!Segmento(huecos[HuecoElegido(huecos, Head(aMemoria).tamanio)].base,
                              Head(aMemoria).tamanio)]
          OBVIOUS
        <5>2. aKernel' = aKernel \o <<Palabra("AUX_OK"), Buffer(t)>>
          BY <2>3, <5>1 DEF AtiendeCrear, Contesta
        <5>3. QED
          BY <5>2
      <4>2. QED
        BY <1>6, <3>1, <4>1, AhoraConTabla DEF EnCrear
    <3>3. QED
      BY <1>2, <1>3, <1>6, <2>1, <3>2 DEF InvSocket, Mutex, Canje, CanjeCrear, EnCrear,
           Pidiendo
  <2>4. CASE AtiendeSinHueco
    <3>1. CanjeCrear'
      <4>1. CASE /\ Contesta(<<Palabra("COMPACTACION"), Palabra("0")>>)
                 /\ UNCHANGED <<agotada, pedidos>>
        <5>1. aKernel' = Sobra' \o <<Palabra("COMPACTACION"), Palabra("0")>>
          BY <1>6, <4>1 DEF Contesta, EnCrear, Sobra
        <5>2. QED
          BY <1>2, <1>6, <2>1, <5>1 DEF CanjeCrear, EnCrear
      <4>2. CASE /\ Contesta(<<Palabra("OUT_OF_MEMORY"), Palabra("0")>>)
                 /\ agotada' = TRUE
        <5>1. \/ aKernel' = <<Palabra("OUT_OF_MEMORY"), Palabra("0")>>
              \/ aKernel' = <<Palabra("0"), Palabra("OUT_OF_MEMORY"), Palabra("0")>>
          BY <1>6, <4>2, HayAlgo DEF Contesta, EnCrear
        <5>2. QED
          BY <1>2, <1>6, <2>1, <4>2, <5>1 DEF CanjeCrear, EnCrear, Negada
      <4>3. QED
        BY <2>4, <4>1, <4>2 DEF AtiendeSinHueco
    <3>2. QED
      BY <1>2, <1>3, <1>6, <3>1 DEF InvSocket, Mutex, Canje, EnCrear, Pidiendo
  <2>5. QED
    BY <2>2, <2>3, <2>4
<1>7. CASE EnCompacta
  <2>1. op = "COMPACTACION" /\ aMemoria' = <<>>
    BY <1>2, <1>7, QuePide DEF EnCompacta
  <2>2. AtiendeCompactacion /\ UNCHANGED agotada
    BY <1>2, <2>1, PasosDeAtencion DEF AtencionKernel, Atencion, Atiende
  <2>3. PICK t : aKernel' = <<Palabra("0")>> \o <<Palabra("AUX_OK"), Buffer(t)>>
    <3>1. PICK t : t = Compactar(huecos, tablas).tablas
      OBVIOUS
    <3>2. aKernel' = <<Palabra("0")>> \o <<Palabra("AUX_OK"), Buffer(t)>>
      BY <1>7, <2>2, <3>1 DEF AtiendeCompactacion, Contesta, EnCompacta
    <3>3. QED
      BY <3>2
  <2>4. aKernel' = <<Palabra("0"), Palabra("AUX_OK"), Buffer(t)>>
    BY <2>3, UneTres
  <2>5. CanjeCompacta'
    BY <1>2, <1>7, <2>1, <2>2, <2>4 DEF CanjeCompacta, EnCompacta
  <2>6. QED
    BY <1>2, <1>3, <1>7, <2>5 DEF InvSocket, Mutex, Canje, EnCompacta, Pidiendo
<1>8. CASE EnBorrar
  <2>1. op = "DELETE_SEGMENT" /\ aMemoria' = <<>>
    BY <1>2, <1>8, QuePide DEF EnBorrar
  <2>2. AtiendeBorrar /\ UNCHANGED agotada
    BY <1>2, <2>1, PasosDeAtencion DEF AtencionKernel, Atencion, Atiende
  <2>3. ConTabla("AUX_OK")'
    <3>1. PICK t : t = [Head(aMemoria).tabla EXCEPT ![Head(aMemoria).id] = Mem!SinSegmento]
      OBVIOUS
    <3>2. aKernel' = aKernel \o <<Palabra("AUX_OK"), Buffer(t)>>
      BY <2>2, <3>1 DEF AtiendeBorrar, Contesta
    <3>3. QED
      BY <1>8, <2>2, <3>2, AhoraConTabla DEF EnBorrar
  <2>4. QED
    BY <1>2, <1>3, <1>8, <2>1, <2>3 DEF InvSocket, Mutex, Canje, CanjeBorrar, EnBorrar,
         Pidiendo
<1>9. QED
  BY <1>2, <1>4, <1>5, <1>6, <1>7, <1>8, QuePedidoHay

(* The kernel deserialized something that is no table only after memory    *)
(* answered OUT_OF_MEMORY to somebody.                                     *)
SocketSano == (indefinido => agotada) /\ (~indefinido => InvSocket)

(* So it is at the start, with the socket empty.                           *)
LEMMA SocketInicial == InitSistema => SocketSano
  BY DEF InitSistema, Init, SocketSano, InvSocket, Mutex, Canje, SinCanje, Sobra, Pidiendo

(* And no step of anybody changes it.                                      *)
LEMMA SocketPasos == SocketSano /\ [NextSistema]_varsSistema => SocketSano'
<1> SUFFICES ASSUME SocketSano, [NextSistema]_varsSistema PROVE SocketSano'
  OBVIOUS
<1>1. CASE UNCHANGED varsSistema
  <2> USE <1>1 DEF varsSistema, vars, largo, corto, desalojo, memoria, delKernel, conexion, historia
  <2>1. /\ CanjeTabla <=> CanjeTabla'
        /\ CanjeCrear <=> CanjeCrear'
        /\ CanjeCompacta <=> CanjeCompacta'
        /\ CanjeTrabado <=> CanjeTrabado'
        /\ CanjeBorrar <=> CanjeBorrar'
    BY DEF CanjeTabla, ConTabla, Sobra, CanjeCrear, CanjeCompacta, CanjeTrabado,
       CanjeBorrar, Pedida, Pedido, Negada
  <2>2. QED
    BY <2>1 DEF SocketSano, InvSocket, Mutex, Canje, SinCanje, Sobra, Pidiendo
<1>2. CASE NextSistema
  <2>1. InvSocket /\ ~indefinido
    BY <1>2, PasosDelSistema DEF SocketSano
  <2>2. CASE PasoAjeno
    BY <2>1, <2>2, SocketAjeno, AjenoAparte DEF SocketSano, SinMemoria, delKernel
  <2>3. CASE PideTabla
    BY <2>1, <2>3, SocketLargo DEF SocketSano, PideTabla, delKernel
  <2>4. CASE RecibeTabla
    <3>1. indefinido' => agotada'
      <4>1. UNCHANGED agotada
        BY <2>4 DEF RecibeTabla, historia
      <4>2. QED
        BY <2>1, <2>4, <4>1, RecibeBien
    <3>2. QED
      BY <2>1, <2>4, <3>1, SocketLargo DEF SocketSano
  <2>5. CASE DelDesalojo
    <3>1. UNCHANGED indefinido
      BY <2>5 DEF DelDesalojo, PideOperacion, EnviaOperacion, RecibeBase, OrdenaCompactar,
           RecibeTablas, RecibeSinMemoria, LeeOtraCosa, RecibeTablaSinSegmento,
           BorrarSinRespuesta, delKernel
    <3>2. QED
      BY <2>1, <2>5, <3>1, SocketDesalojo DEF SocketSano
  <2>6. CASE AtencionKernel
    BY <2>1, <2>6, SocketMemoria, PasosDeAtencion DEF SocketSano, AtencionKernel, Atencion,
       delKernel
  <2>7. QED
    BY <1>2, <2>2, <2>3, <2>4, <2>5, <2>6, PasosDelSistema
<1>3. QED
  BY <1>1, <1>2

(* While nobody holds mutex_memoria there is nothing in the socket, so     *)
(* that the next word that a thread reads belongs to the answer to its own *)
(* request; but for the size of an OUT_OF_MEMORY. Only after one can the   *)
(* kernel take something else for a table.                                 *)
THEOREM SocketOrdenado == SpecSistema => []SocketEnOrden
<1>1. SocketSano => SocketEnOrden
  BY DEF SocketSano, InvSocket, Canje, SinCanje, Sobra, SocketEnOrden
<1>2. QED
  BY <1>1, SocketInicial, SocketPasos, PTL DEF SpecSistema

-----------------------------------------------------------------------------
(* Mem and MP are one module with one mapping, and both have a copy of     *)
(* their own of the operators of Huecos.                                   *)
(* The hole chosen for a segment.                                          *)
LEMMA MismoElegido ==
  \A l, t : /\ HuecoElegido(l, t) = Mem!HuecoElegido(l, t)
            /\ MP!HuecoElegido(l, t) = Mem!HuecoElegido(l, t)
  BY DEF HuecoElegido, Mem!HuecoElegido, MP!HuecoElegido, Candidatos, Mem!Candidatos,
     MP!Candidatos, Mejores, Mem!Mejores, MP!Mejores, Min, Mem!Min, MP!Min

(* Whether the free bytes are enough.                                      *)
LEMMA MismoAlcanza ==
  \A l, t : /\ AlcanzaCompactando(l, t) <=> Mem!AlcanzaCompactando(l, t)
            /\ MP!AlcanzaCompactando(l, t) <=> Mem!AlcanzaCompactando(l, t)
  BY DEF AlcanzaCompactando, Mem!AlcanzaCompactando, MP!AlcanzaCompactando, Libre,
     Mem!Libre, MP!Libre, FoldLeft, Mem!FoldLeft, MP!FoldLeft, MapThenFoldSet,
     Mem!MapThenFoldSet, MP!MapThenFoldSet, Max, Mem!Max, MP!Max

(* The list once a hole is taken.                                          *)
LEMMA MismoOcupar ==
  \A l, i, t : /\ Ocupar(l, i, t) = Mem!Ocupar(l, i, t)
               /\ MP!Ocupar(l, i, t) = Mem!Ocupar(l, i, t)
  BY DEF Ocupar, Mem!Ocupar, MP!Ocupar, Hueco, Mem!Hueco, MP!Hueco, IndiceDeBase,
     Mem!IndiceDeBase, MP!IndiceDeBase, InsertAt, Mem!InsertAt, MP!InsertAt,
     SelectInSeq, Mem!SelectInSeq, MP!SelectInSeq, Min, Mem!Min, MP!Min

(* The list once a segment is freed.                                       *)
LEMMA MismoLiberar ==
  \A l, b : Liberar(l, b) = Mem!Liberar(l, b) /\ MP!Liberar(l, b) = Mem!Liberar(l, b)
<1>1. \A l, b : /\ IndiceDeBase(l, b) = Mem!IndiceDeBase(l, b)
                /\ MP!IndiceDeBase(l, b) = Mem!IndiceDeBase(l, b)
  BY DEF IndiceDeBase, Mem!IndiceDeBase, MP!IndiceDeBase, SelectInSeq, Mem!SelectInSeq,
     MP!SelectInSeq, Min, Mem!Min, MP!Min
<1>2. \A l, i : /\ UnirConSiguiente(l, i) = Mem!UnirConSiguiente(l, i)
                /\ MP!UnirConSiguiente(l, i) = Mem!UnirConSiguiente(l, i)
  BY DEF UnirConSiguiente, Mem!UnirConSiguiente, MP!UnirConSiguiente, RemoveAt,
     Mem!RemoveAt, MP!RemoveAt
<1>3. \A l, i : /\ Consolidar(l, i) = Mem!Consolidar(l, i)
                /\ MP!Consolidar(l, i) = Mem!Consolidar(l, i)
  BY <1>2 DEF Consolidar, Mem!Consolidar, MP!Consolidar
<1>4. QED
  BY <1>1, <1>3 DEF Liberar, Mem!Liberar, MP!Liberar

(* The first loop of the compaction.                                       *)
LEMMA MismoJuntar ==
  \A l : JuntarLibres(l) = Mem!JuntarLibres(l) /\ MP!JuntarLibres(l) = Mem!JuntarLibres(l)
<1> TAKE l
<1>1. JuntarLibres(l) = Mem!JuntarLibres(l)
  BY DEF JuntarLibres, Mem!JuntarLibres, FoldLeft, Mem!FoldLeft, MapThenFoldSet,
     Mem!MapThenFoldSet, Max, Mem!Max, FoldLeftDomain, Mem!FoldLeftDomain, Vuelta,
     Mem!Vuelta, QuitarDeLaDerecha, Mem!QuitarDeLaDerecha, RemoveAt, Mem!RemoveAt
<1>2. MP!JuntarLibres(l) = Mem!JuntarLibres(l)
  BY DEF MP!JuntarLibres, Mem!JuntarLibres, MP!FoldLeft, Mem!FoldLeft,
     MP!MapThenFoldSet, Mem!MapThenFoldSet, MP!Max, Mem!Max, MP!FoldLeftDomain,
     Mem!FoldLeftDomain, MP!Vuelta, Mem!Vuelta, MP!QuitarDeLaDerecha,
     Mem!QuitarDeLaDerecha, MP!RemoveAt, Mem!RemoveAt
<1>3. QED
  BY <1>1, <1>2

(* The whole compaction.                                                   *)
LEMMA MismoCompactar ==
  \A l, ts : /\ Compactar(l, ts) = Mem!Compactar(l, ts)
             /\ MP!Compactar(l, ts) = Mem!Compactar(l, ts)
<1> TAKE l, ts
<1>1. PICK j : j = JuntarLibres(l) /\ j = Mem!JuntarLibres(l) /\ j = MP!JuntarLibres(l)
  BY MismoJuntar
<1>2. Compactar(l, ts) = Mem!Compactar(l, ts)
  BY <1>1 DEF Compactar, Mem!Compactar, FoldLeft, Mem!FoldLeft, MapThenFoldSet,
     Mem!MapThenFoldSet, Max, Mem!Max, Reubicar, Mem!Reubicar, MoverSegmento,
     Mem!MoverSegmento, Min, Mem!Min
<1>3. MP!Compactar(l, ts) = Mem!Compactar(l, ts)
  BY <1>1 DEF MP!Compactar, Mem!Compactar, MP!FoldLeft, Mem!FoldLeft, MP!MapThenFoldSet,
     Mem!MapThenFoldSet, MP!Max, Mem!Max, MP!Reubicar, Mem!Reubicar, MP!MoverSegmento,
     Mem!MoverSegmento, MP!Min, Mem!Min
<1>4. QED
  BY <1>2, <1>3

(* The constants of the lists and tables.                                  *)
LEMMA MismasTablas ==
  /\ HuecosIniciales = Mem!HuecosIniciales /\ MP!HuecosIniciales = Mem!HuecosIniciales
  /\ \A b, t : MP!Segmento(b, t) = Mem!Segmento(b, t)
  /\ MP!SinSegmento = Mem!SinSegmento /\ MP!TablaInicial = Mem!TablaInicial
  /\ MP!SinTabla = <<>> /\ Mem!SinTabla = <<>>
  BY DEF HuecosIniciales, Mem!HuecosIniciales, MP!HuecosIniciales, Hueco, Mem!Hueco,
     MP!Hueco, MP!Segmento, Mem!Segmento, MP!SinSegmento, Mem!SinSegmento,
     MP!TablaInicial, Mem!TablaInicial, MP!SinTabla, Mem!SinTabla

(* What the history of failures records.                                   *)
LEMMA MismasAverias ==
  /\ \A a, b : MP!AlTraer(a, b) = Mem!AlTraer(a, b)
  /\ \A a, b, i, l : MP!AlCrear(a, b, i, l) = Mem!AlCrear(a, b, i, l)
  /\ \A l : MP!AlCompactar(l) = Mem!AlCompactar(l)
<1>1. \A a, b : MP!AlTraer(a, b) = Mem!AlTraer(a, b)
  BY DEF MP!AlTraer, Mem!AlTraer, MP!Si, Mem!Si
<1>2. \A a, b, i, l : MP!AlCrear(a, b, i, l) = Mem!AlCrear(a, b, i, l)
  BY <1>1 DEF MP!AlCrear, Mem!AlCrear, MP!Si, Mem!Si
<1>3. \A s : MP!Cardinality(s) = Mem!Cardinality(s)
  BY DEF MP!Cardinality, Mem!Cardinality
<1>4. \A l : MP!Libres(l) = Mem!Libres(l)
  BY DEF MP!Libres, Mem!Libres
<1>5. \A l : MP!Compactable(l) <=> Mem!Compactable(l)
  BY <1>3, <1>4 DEF MP!Compactable, Mem!Compactable
<1>6. \A l : MP!AlCompactar(l) = Mem!AlCompactar(l)
  BY <1>5 DEF MP!AlCompactar, Mem!AlCompactar, MP!Si, Mem!Si
<1>7. QED
  BY <1>1, <1>2, <1>6

(* So that what MemoriaProofs says of a step of MP is true of one of Mem.  *)
LEMMA MismosPasos == (Mem!Next <=> MP!Next) /\ Mem!vars = MP!vars
<1>1. \A p, i, t : Mem!Pide(p, i, t) <=> MP!Pide(p, i, t)
  BY DEF Mem!Pide, MP!Pide
<1>2. \A p, i, t : Mem!CrearSegmento(p, i, t) <=> MP!CrearSegmento(p, i, t)
  <2> TAKE p, i, t
  <2> QED
    BY <1>1, MismoElegido, MismoOcupar, MismasTablas, MismasAverias
    DEF Mem!CrearSegmento, MP!CrearSegmento, MP!SinReintento, Mem!SinReintento
<1>3. \A p, i, t : Mem!CompactarPara(p, i, t) <=> MP!CompactarPara(p, i, t)
  <2> TAKE p, i, t
  <2> QED
    BY <1>1, MismoElegido, MismoAlcanza, MismoCompactar, MismasAverias
    DEF Mem!CompactarPara, MP!CompactarPara, MP!SinReintento, Mem!SinReintento
<1>4. \A p, i, t : Mem!SinMemoria(p, i, t) <=> MP!SinMemoria(p, i, t)
  <2> TAKE p, i, t
  <2> QED
    BY <1>1, MismoElegido, MismoAlcanza
    DEF Mem!SinMemoria, MP!SinMemoria, MP!SinReintento, Mem!SinReintento
<1>5. \A p, i : Mem!EliminarSegmento(p, i) <=> MP!EliminarSegmento(p, i)
  <2> TAKE p, i
  <2> QED
    BY MismoLiberar, MismasTablas, MismasAverias
    DEF Mem!EliminarSegmento, MP!EliminarSegmento, MP!SinReintento, Mem!SinReintento
<1>6. \A p : Mem!CrearPCB(p) <=> MP!CrearPCB(p)
  BY MismasTablas DEF Mem!CrearPCB, MP!CrearPCB
<1>7. \A p : Mem!Terminar(p) <=> MP!Terminar(p)
  BY DEF Mem!Terminar, MP!Terminar, Mem!SinReintento, MP!SinReintento
<1>8. QED
  BY <1>2, <1>3, <1>4, <1>5, <1>6, <1>7 DEF Mem!Next, MP!Next, Mem!vars, MP!vars

-----------------------------------------------------------------------------
(* Of the kernel: when a CREATE_SEGMENT is repeated, that the eviction     *)
(* thread has no process between two of them, and the instructions left.   *)
ReintentoEs == reintento => pcDesalojo \in {"mutex_create", "create_segment"}

ManoVacia == pcDesalojo = "executing" => pcbDesalojo = Ninguno

RestantesAcotados == \A p \in Procesos : restantes[p] \in 0..MaxInstrucciones

InvNucleo ==
  InvTodoLugar /\ CpuNoSobra /\ ReintentoEs /\ ManoVacia /\ RestantesAcotados

(* Only a system call of the process in the CPU, or its end, lowers what   *)
(* is left of a program.                                                   *)
UsaInstruccion ==
  /\ pcDesalojo = "cpu"
  /\ \E n \in 0..MaxInstrucciones : /\ n <= restantes[pcbDesalojo]
                                    /\ restantes' = [restantes EXCEPT ![pcbDesalojo] = n]

(* Every other step of the kernel leaves the programs as they are.         *)
LEMMA RestantesBajan ==
  ASSUME InvNucleo, [Next]_vars
  PROVE  UNCHANGED restantes \/ UsaInstruccion
<1> USE DEF listas, semaforos, recursos, archivos, largo, corto, desalojo, programas
<1>0. /\ pcDesalojo = "cpu" => pcbDesalojo \in Procesos
      /\ restantes \in [Procesos -> Nat] /\ RestantesAcotados /\ MaxInstrucciones \in Nat
  BY ConstantesOK DEF InvNucleo, InvTodoLugar, IInv, Forma, FormaDesalojo, TypeOK, TipoProcesos
<1>1. ASSUME NEW op, Devuelto(op) PROVE UsaInstruccion
  <2>1. restantes[pcbDesalojo] \in 0..MaxInstrucciones /\ restantes[pcbDesalojo] > 0
        /\ restantes' = [restantes EXCEPT ![pcbDesalojo] = restantes[pcbDesalojo] - 1]
        /\ pcDesalojo = "cpu"
    BY <1>0, <1>1 DEF Devuelto, RestantesAcotados
  <2>2. PICK n \in 0..MaxInstrucciones : n = restantes[pcbDesalojo] - 1
    BY <1>0, <2>1
  <2>3. n <= restantes[pcbDesalojo]
    BY <1>0, <2>1, <2>2
  <2>4. QED
    BY <2>1, <2>2, <2>3 DEF UsaInstruccion
<1>2. CASE Exit
  <2>1. restantes' = [restantes EXCEPT ![pcbDesalojo] = 0] /\ pcDesalojo = "cpu"
    BY <1>2 DEF Exit
  <2>2. 0 \in 0..MaxInstrucciones /\ 0 <= restantes[pcbDesalojo]
    BY <1>0, <2>1 DEF RestantesAcotados
  <2>3. QED
    BY <2>1, <2>2 DEF UsaInstruccion
<1>3. QED
  BY <1>1, <1>2
  DEF Next, Consola, LargoPlazo, CortoPlazo, Desalojo, ManejoInstrucciones, vars,
      CreaPCB, AgregaNew, LargoInicializar, LargoTomaNew, LargoPideTabla,
      LargoRecibeTabla, LargoAdmite, CortoEsperaCpu, CortoEsperaListo, CortoElige,
      CortoAgrega, CortoAvisa, DesalojoToma, DesalojoSinProceso, SegmentationFault, Yield, IO, FinIO,
      FTruncate, FinFTruncate, FinFReadWrite, FOpenOcupado, FOpen, FClose, FSeek,
      FReadWrite, ArchivoNoAbierto, RecursoInexistente, WaitConcedido, WaitBloquea,
      Signal, PideSegmento, TomaMemoria, CreateSegmentOk, CreateSegmentCompacta,
      CreateSegmentSinMemoria, DeleteSegmentOk

(* The retry and the empty hand, step by step.                             *)
LEMMA ManoPasos ==
  ASSUME InvNucleo, [Next]_vars
  PROVE  ReintentoEs' /\ ManoVacia'
<1> USE DEF listas, semaforos, recursos, archivos, largo, corto, desalojo, programas
<1>0. ReintentoEs /\ ManoVacia
  BY DEF InvNucleo
<1>1. ASSUME NEW a, Fin(a) PROVE ReintentoEs' /\ ManoVacia'
  BY <1>1 DEF Fin, ReintentoEs, ManoVacia
<1>2. CASE UNCHANGED desalojo
  BY <1>0, <1>2 DEF ReintentoEs, ManoVacia
<1>3. CASE DesalojoToma
  BY <1>0, <1>3 DEF DesalojoToma, ReintentoEs, ManoVacia
<1>4. CASE TomaMemoria
  BY <1>0, <1>4 DEF TomaMemoria, ReintentoEs, ManoVacia
<1>5. CASE CreateSegmentCompacta
  BY <1>0, <1>5 DEF CreateSegmentCompacta, ReintentoEs, ManoVacia
<1>6. QED
  BY <1>1, <1>2, <1>3, <1>4, <1>5
  DEF Next, Consola, LargoPlazo, CortoPlazo, Desalojo, ManejoInstrucciones, vars,
      CreaPCB, AgregaNew, LargoInicializar, LargoTomaNew, LargoPideTabla,
      LargoRecibeTabla, LargoAdmite, CortoEsperaCpu, CortoEsperaListo, CortoElige,
      CortoAgrega, CortoAvisa, DesalojoSinProceso, Exit, SegmentationFault, Yield, IO, FinIO,
      FTruncate, FinFTruncate, FinFReadWrite, FOpenOcupado, FOpen, FClose, FSeek,
      FReadWrite, ArchivoNoAbierto, RecursoInexistente, WaitConcedido, WaitBloquea,
      Signal, PideSegmento, CreateSegmentOk,
      CreateSegmentSinMemoria, DeleteSegmentOk, TerminaProceso, SigueEjecutando,
      Desbloquea

(* They hold at the start.                                                 *)
LEMMA NucleoInicial == Init => InvNucleo
<1> SUFFICES ASSUME Init PROVE InvNucleo
  OBVIOUS
<1>1. MaxInstrucciones \in 0..MaxInstrucciones
  BY ConstantesOK
<1>2. CpuNoSobra
  BY DEF Init, CpuNoSobra, Uno, ConCpu
<1>3. QED
  BY <1>1, <1>2, InicioLugares DEF Init, InvNucleo, ReintentoEs, ManoVacia, RestantesAcotados

(* And every step of the kernel keeps them.                                *)
LEMMA NucleoPasos == InvNucleo /\ [Next]_vars => InvNucleo'
<1> SUFFICES ASSUME InvNucleo, [Next]_vars PROVE InvNucleo'
  OBVIOUS
<1>1. InvTodoLugar' /\ CpuNoSobra'
  BY PasoLugares, PasoCpuNoSobra, SistemaOK DEF InvNucleo, InvTodoLugar
<1>2. restantes \in [Procesos -> Nat] /\ RestantesAcotados
  BY DEF InvNucleo, InvTodoLugar, IInv, TypeOK, TipoProcesos
<1>3. RestantesAcotados'
  BY <1>2, RestantesBajan DEF UsaInstruccion, RestantesAcotados
<1>4. QED
  BY <1>1, <1>3, ManoPasos DEF InvNucleo

(* The states of a process that was admitted.                              *)
Dentro == {"READY", "EXEC", "BLOCKED", "LIBERADO"}

(* How a step can change the state of a process: it ends only out of the   *)
(* hands of the eviction thread and is admitted only from the head of NEW. *)
EstadoPasa(p) ==
  \/ estado'[p] = estado[p]
  \/ {estado[p], estado'[p]} \subseteq {"READY", "EXEC", "BLOCKED"}
  \/ estado[p] = "INEXISTENTE" /\ estado'[p] = "NEW"
  \/ /\ estado[p] = "NEW" /\ estado'[p] = "READY"
     /\ pcLargo = "grado" /\ p = Head(nuevos)
  \/ estado[p] = "EXEC" /\ estado'[p] = "LIBERADO" /\ Mano = {p} /\ Mano' = {}

(* The only changes of state of a process in a step of the kernel.         *)
LEMMA EstadosPasan ==
  ASSUME InvTodoLugar, Movimiento, NEW p \in Procesos
  PROVE  EstadoPasa(p)
<1>0. /\ estado \in [Procesos -> Estados] /\ InvLugares /\ TipoListas /\ TipoRecursos
  BY DEF InvTodoLugar, IInv, TypeOK, TipoProcesos
<1>1. CASE Quieto
  BY <1>1 DEF Quieto, EstadoPasa
<1>2. CASE NewAReady
  <2>1. Head(nuevos) \in Range(nuevos) /\ Head(nuevos) \in Procesos
    BY <1>0, <1>2, RangoCola, RangoDeLista DEF NewAReady, TipoListas, InvLugares, SinRepetir
  <2>2. estado[Head(nuevos)] = "NEW"
    BY <1>0, <2>1 DEF InvLugares, EstadoDeLista
  <2>3. QED
    BY <1>0, <1>2, <2>1, <2>2 DEF NewAReady, EstadoPasa
<1>3. CASE ExecAMano \/ CortoAExec
  BY <1>3 DEF ExecAMano, CortoAExec, EstadoPasa
<1>4. ASSUME NEW i \in 1..Len(listos), ReadyACorto(i) PROVE EstadoPasa(p)
  <2>1. listos[i] \in Procesos /\ estado[listos[i]] = "READY"
    BY <1>0, RangoDeLista DEF TipoListas, InvLugares, EstadoDeLista
  <2>2. QED
    BY <1>0, <1>4, <2>1 DEF ReadyACorto, EstadoPasa
<1>5. ASSUME NEW q \in Procesos, MovimientoDe(q) PROVE EstadoPasa(p)
  <2>1. CASE Nace(q)
    BY <1>0, <2>1 DEF Nace, EstadoPasa, InvLugares, ConsolaFiel
  <2>2. CASE LlegaANew(q)
    BY <2>2 DEF LlegaANew, EstadoPasa
  <2>3. ASSUME Suelta(q) PROVE estado[q] = "EXEC"
    BY <1>0, <2>3 DEF Suelta, InvLugares, EstadoDeLista
  <2>4. CASE Libera(q)
    BY <1>0, <2>3, <2>4 DEF Libera, Suelta, EstadoPasa
  <2>5. CASE VuelveAExec(q)
    BY <1>0, <2>3, <2>5 DEF VuelveAExec, EstadoPasa
  <2>6. CASE VuelveAReady(q)
    BY <1>0, <2>3, <2>6 DEF VuelveAReady, EstadoPasa
  <2>7. CASE SeBloquea(q)
    BY <1>0, <2>3, <2>7 DEF SeBloquea, EstadoPasa
  <2>8. CASE SeDesbloquea(q)
    <3>1. q \in Range(bloqueados)
      BY <2>8 DEF SeDesbloquea, Range
    <3>2. estado[q] = "BLOCKED"
      BY <1>0, <3>1 DEF InvLugares, EstadoDeLista
    <3>3. QED
      BY <1>0, <2>8, <3>2 DEF SeDesbloquea, EstadoPasa
  <2>9. ASSUME NEW r \in Recursos, EsperaRecurso(q, r) PROVE EstadoPasa(p)
    BY <2>9 DEF EsperaRecurso, EstadoPasa
  <2>10. ASSUME NEW r \in Recursos, CedeRecurso(q, r) PROVE EstadoPasa(p)
    <3>1. colaRecurso[r] \in Seq(Procesos) /\ colaRecurso[r] # <<>>
          /\ IsInjective(colaRecurso[r])
      BY <1>0, <2>10 DEF TipoRecursos, CedeRecurso, InvLugares, SinRepetir
    <3>2. Head(colaRecurso[r]) \in Range(colaRecurso[r]) /\ Head(colaRecurso[r]) \in Procesos
      BY <3>1, RangoCola, RangoDeLista
    <3>3. PICK h \in Procesos : h = Head(colaRecurso[r]) /\ EnCola(h, r)
      BY <3>2 DEF EnCola
    <3>4. estado[h] = "EXEC"
      BY <1>0, <3>3 DEF InvLugares, EstadoDeLista
    <3>5. estado[q] = "EXEC"
      BY <2>3, <2>10 DEF CedeRecurso
    <3>6. estado' = [estado EXCEPT ![q] = "EXEC", ![h] = "READY"]
      BY <2>10, <3>3 DEF CedeRecurso
    <3>7. QED
      BY <1>0, <3>4, <3>5, <3>6 DEF EstadoPasa
  <2>11. QED
    BY <1>5, <2>1, <2>2, <2>4, <2>5, <2>6, <2>7, <2>8, <2>9, <2>10 DEF MovimientoDe
<1>6. QED
  BY <1>1, <1>2, <1>3, <1>4, <1>5 DEF Movimiento

(* While the eviction thread keeps its process the queues of the resources *)
(* do not change.                                                          *)
LEMMA ColasQuietas ==
  ASSUME Movimiento, Mano' = Mano, Mano # {}
  PROVE  UNCHANGED colaRecurso
  BY DEF Movimiento, MovimientoDe, Quieto, SinListas, Nace, LlegaANew, NewAReady, ReadyACorto,
     CortoAExec, ExecAMano, Libera, VuelveAExec, VuelveAReady, SeBloquea, SeDesbloquea, EsperaRecurso,
     CedeRecurso, Suelta

-----------------------------------------------------------------------------
(* The state of Memoria that the two programs stand for, named.            *)
Vistas == [p \in Procesos |-> TablaVista(p)]

Repite == [proceso |-> IF EnReintento THEN pcbDesalojo ELSE Ninguno,
           id      |-> IF EnReintento THEN operacion.id ELSE 0,
           tamanio |-> IF EnReintento THEN operacion.tamanio ELSE 0]

(* Memory has answered to the CREATE_SEGMENT that there is a hole, or that *)
(* there will be one.                                                      *)
Creado ==
  /\ pcDesalojo = "create_segment" /\ fase = "crea"
  /\ Contestado /\ aKernel[1].tipo = "AUX_OK"

Llena ==
  /\ pcDesalojo = "create_segment"
  /\ \/ fase = "compacta" /\ ~Contestado
     \/ fase = "crea" /\ Contestado /\ aKernel[1].tipo = "COMPACTACION"

(* Or that the process is to end, or is not going to be retried again.     *)
PorCaer(p) ==
  /\ p = pcbDesalojo /\ pcDesalojo = "create_segment" /\ Contestado
  /\ \/ fase = "crea" /\ aKernel[1].tipo = "OUT_OF_MEMORY"
     \/ fase = "compacta" /\ reintento

(* A process that is not in the hands of the eviction thread is condemned  *)
(* when it is in no place.                                                 *)
LEMMA CondenadoEs ==
  ASSUME InvNucleo, NEW p \in Procesos
  PROVE  Condenado(p) <=> PorCaer(p) \/ Perdido(p)
<1>1. /\ ejecutando \in Seq(Procesos) /\ \A r \in Recursos : colaRecurso[r] \in Seq(Procesos)
      /\ pcDesalojo \in PcDesalojo
  BY DEF InvNucleo, InvTodoLugar, IInv, TypeOK, TipoListas, TipoRecursos, TipoHilos
<1>2. /\ Contains(ejecutando, p) <=> p \in Range(ejecutando)
      /\ \A r \in Recursos : Contains(colaRecurso[r], p) <=> EnCola(p, r)
  BY <1>1, RangoDeLista DEF EnCola
<1>3. ASSUME p = pcbDesalojo, estado[p] = "EXEC" PROVE p \in Mano
  <2>1. pcDesalojo # "executing"
    BY <1>3, ConstantesOK DEF InvNucleo, ManoVacia
  <2>2. ASSUME pcDesalojo \in Bloqueantes PROVE FALSE
    <3>1. bloqueados = <<p>>
      BY <1>3, <2>2 DEF InvNucleo, InvTodoLugar, IInv, Forma, FormaBloqueados
    <3>2. p \in Range(bloqueados)
      BY <3>1 DEF Range
    <3>3. QED
      BY <1>3, <3>2 DEF InvNucleo, InvTodoLugar, InvLugares, EstadoDeLista
  <2>3. QED
    BY <1>1, <1>3, <2>1, <2>2 DEF Mano, PcConPcb, ConCpu, Bloqueantes, PcDesalojo
<1>4. p \in Mano => p = pcbDesalojo
  BY DEF Mano
<1>5. QED
  BY <1>2, <1>3, <1>4 DEF Condenado, PorCaer, Perdido

(* The processes for which memory works.                                   *)
LEMMA ActivosSon ==
  ASSUME InvNucleo
  PROVE  \A p \in Procesos :
           p \in Activos <=> /\ tablas[p] # <<>> /\ estado[p] # "LIBERADO"
                             /\ ~PorCaer(p) /\ ~Perdido(p)
  BY CondenadoEs DEF Activos

(* Which of the admitted processes buscar_proceso finds in a list: all but *)
(* the one in the hands of the eviction thread, the one in those of the    *)
(* dispatcher and those that wait for a resource.                          *)
LEMMA EnListaEs ==
  ASSUME InvNucleo, NEW p \in Procesos, estado[p] \in Dentro \/ p \in Range(nuevos),
         p # pcbCorto
  PROVE  p \in EnLista <=> /\ estado[p] # "LIBERADO" /\ ~Perdido(p)
                           /\ p \notin Mano /\ p \notin EsperanRecurso
<1>1. \A r \in Recursos : colaRecurso[r] \in Seq(Procesos)
  BY DEF InvNucleo, InvTodoLugar, IInv, TypeOK, TipoRecursos
<1>2. p \in EsperanRecurso <=> \E r \in Recursos : EnCola(p, r)
  BY <1>1, RangoDeLista DEF EsperanRecurso, EnCola
<1>3. InvLugares
  BY DEF InvNucleo, InvTodoLugar
<1>4. QED
  BY <1>2, <1>3 DEF InvLugares, EstadoDeLista, UnaSolaDeExec, EnLista, Perdido, Dentro

(* Whose copy of the table, in the kernel, is in the answer on its way.    *)
Vista(p) ==
  /\ Contestado
  /\ \/ pcLargo = "create_pcb" /\ p = pcbLargo
     \/ p = pcbDesalojo /\ (pcDesalojo = "delete_segment" \/ Creado)
     \/ pcDesalojo = "create_segment" /\ fase = "compacta" /\ p \in EnLista

(* TablaVista, the refinement mapping, said with Vista.                    *)
LEMMA VistaEs ==
  ASSUME InvSocket, NEW p
  PROVE  TablaVista(p) = IF Vista(p) THEN tablas[p] ELSE tablaPcb[p]
  BY DEF InvSocket, Mutex, Pidiendo, TablaVista, Vista, Creado

-----------------------------------------------------------------------------
(* The steps of Memoria in the names of this module.                       *)
LEMMA EsTartamudeo ==
  ASSUME UNCHANGED <<huecos, tablas, atrasados, averias, pedidos, compactaciones>>,
         Vistas' = Vistas, Activos' = Activos, Repite' = Repite
  PROVE  UNCHANGED Mem!vars
  BY DEF Mem!vars, Vistas, Repite

(* The table of a new process.                                             *)
LEMMA EsCrearPCB ==
  ASSUME NEW p \in Procesos, tablas[p] = <<>>,
         tablas' = [tablas EXCEPT ![p] = Mem!TablaInicial],
         Vistas' = [Vistas EXCEPT ![p] = Mem!TablaInicial],
         Activos' = Activos \union {p}, Repite' = Repite,
         UNCHANGED <<huecos, atrasados, averias, pedidos, compactaciones>>
  PROVE  Mem!CrearPCB(p)
  BY DEF Mem!CrearPCB, Mem!SinTabla, Vistas, Repite

(* The end of a process.                                                   *)
LEMMA EsTerminar ==
  ASSUME NEW p \in Activos, ~EnReintento, Activos' = Activos \ {p}, Repite' = Repite,
         Vistas' = Vistas,
         UNCHANGED <<huecos, tablas, atrasados, averias, pedidos, compactaciones>>
  PROVE  Mem!Terminar(p)
  BY DEF Mem!Terminar, Mem!SinReintento, Vistas, Repite

(* A request that memory attends now, the first or the repeated one.       *)
Cuenta ==
  /\ pcbDesalojo \in Activos
  /\ IF EnReintento THEN UNCHANGED pedidos
     ELSE /\ pedidos < MaxPedidos /\ pedidos' = pedidos + 1
          /\ ProgramasOrdenados => Vistas[pcbDesalojo][operacion.id].base = Nulo

(* Memoria counts such a request as its own, or as its retry.              *)
LEMMA EsPedido ==
  ASSUME Cuenta
  PROVE  Mem!Pide(pcbDesalojo, operacion.id, operacion.tamanio)
<1>1. pcbDesalojo # Ninguno
  BY ConstantesOK DEF Cuenta, Activos
<1>2. QED
  BY <1>1 DEF Mem!Pide, Cuenta, Vistas

(* A segment is created.                                                   *)
LEMMA EsCrearSegmento ==
  ASSUME Cuenta, NEW i, i = HuecoElegido(huecos, operacion.tamanio), i > 0,
         NEW tabla, tabla = [Vistas[pcbDesalojo] EXCEPT ![operacion.id] =
                               Mem!Segmento(huecos[i].base, operacion.tamanio)],
         huecos' = Ocupar(huecos, i, operacion.tamanio),
         tablas' = [tablas EXCEPT ![pcbDesalojo] = tabla],
         Vistas' = [Vistas EXCEPT ![pcbDesalojo] = tabla],
         ~EnReintento', Activos' = Activos, UNCHANGED compactaciones,
         atrasados' = atrasados \ {pcbDesalojo},
         averias' = averias \union Mem!AlCrear(Vistas[pcbDesalojo], tablas[pcbDesalojo],
                                               operacion.id, huecos')
  PROVE  Mem!CrearSegmento(pcbDesalojo, operacion.id, operacion.tamanio)
<1>1. Mem!Pide(pcbDesalojo, operacion.id, operacion.tamanio)
  BY EsPedido
<1>2. /\ i = Mem!HuecoElegido(huecos, operacion.tamanio)
      /\ Ocupar(huecos, i, operacion.tamanio) = Mem!Ocupar(huecos, i, operacion.tamanio)
  BY MismoElegido, MismoOcupar
<1>3. QED
  BY <1>1, <1>2 DEF Mem!CrearSegmento, Mem!SinReintento, Vistas

(* There is no room for it.                                                *)
LEMMA EsSinMemoria ==
  ASSUME Cuenta, HuecoElegido(huecos, operacion.tamanio) = 0,
         ~AlcanzaCompactando(huecos, operacion.tamanio),
         Activos' = Activos \ {pcbDesalojo}, ~EnReintento', Vistas' = Vistas,
         UNCHANGED <<huecos, tablas, atrasados, averias, compactaciones>>
  PROVE  Mem!SinMemoria(pcbDesalojo, operacion.id, operacion.tamanio)
<1>1. Mem!Pide(pcbDesalojo, operacion.id, operacion.tamanio)
  BY EsPedido
<1>2. /\ Mem!HuecoElegido(huecos, operacion.tamanio) = 0
      /\ ~Mem!AlcanzaCompactando(huecos, operacion.tamanio)
  BY MismoElegido, MismoAlcanza
<1>3. QED
  BY <1>1, <1>2 DEF Mem!SinMemoria, Mem!SinReintento, Vistas

(* Memory is compacted for it; esperan are those that the kernel will not  *)
(* find.                                                                   *)
LEMMA EsCompactar ==
  ASSUME Cuenta, HuecoElegido(huecos, operacion.tamanio) = 0,
         AlcanzaCompactando(huecos, operacion.tamanio),
         compactaciones < MaxCompactaciones, compactaciones' = compactaciones + 1,
         averias' = averias \union Mem!AlCompactar(huecos),
         NEW c, c = Compactar(huecos, tablas), huecos' = c.l,
         tablas' = [q \in Procesos |-> c.tablas[q]],
         NEW esperan \in SUBSET (Activos \ {pcbDesalojo}),
         atrasados' = esperan \union {pcbDesalojo},
         Vistas' = [q \in Procesos |-> IF q \in Activos \ (esperan \union {pcbDesalojo})
                                       THEN c.tablas[q] ELSE Vistas[q]],
         IF EnReintento THEN ~EnReintento' /\ Activos' = Activos \ {pcbDesalojo}
                        ELSE /\ EnReintento' /\ Activos' = Activos
                             /\ UNCHANGED <<operacion, pcbDesalojo>>
  PROVE  Mem!CompactarPara(pcbDesalojo, operacion.id, operacion.tamanio)
<1>1. Mem!Pide(pcbDesalojo, operacion.id, operacion.tamanio)
  BY EsPedido
<1>2. /\ Mem!HuecoElegido(huecos, operacion.tamanio) = 0
      /\ Mem!AlcanzaCompactando(huecos, operacion.tamanio)
      /\ c = Mem!Compactar(huecos, tablas)
  BY MismoElegido, MismoAlcanza, MismoCompactar
<1>3. pcbDesalojo # Ninguno
  BY ConstantesOK DEF Cuenta, Activos
<1>4. QED
  BY <1>1, <1>2, <1>3 DEF Mem!CompactarPara, Mem!SinReintento, Vistas

(* A segment is deleted.                                                   *)
LEMMA EsEliminar ==
  ASSUME pcbDesalojo \in Activos, ~EnReintento, ~EnReintento', pedidos < MaxPedidos,
         NEW b, b = Vistas[pcbDesalojo][operacion.id].base,
         ProgramasOrdenados => b # Nulo,
         NEW tabla, tabla = [Vistas[pcbDesalojo] EXCEPT ![operacion.id] = Mem!SinSegmento],
         huecos' = Liberar(huecos, b),
         tablas' = [tablas EXCEPT ![pcbDesalojo] = tabla],
         Vistas' = [Vistas EXCEPT ![pcbDesalojo] = tabla],
         pedidos' = pedidos + 1, Activos' = Activos, UNCHANGED compactaciones,
         atrasados' = atrasados \ {pcbDesalojo},
         averias' = averias \union Mem!AlTraer(Vistas[pcbDesalojo], tablas[pcbDesalojo])
  PROVE  Mem!EliminarSegmento(pcbDesalojo, operacion.id)
<1>1. Liberar(huecos, b) = Mem!Liberar(huecos, b)
  BY MismoLiberar
<1>2. QED
  BY <1>1 DEF Mem!EliminarSegmento, Mem!SinReintento, Vistas

-----------------------------------------------------------------------------
(* What holds until memory answers OUT_OF_MEMORY. The types of the lists,  *)
(* of the tables and of the instruction being handled.                     *)
TipoDatos ==
  /\ huecos \in MP!Listas
  /\ tablas \in [Procesos -> MP!Tablas] /\ tablaPcb \in [Procesos -> MP!Tablas]

TipoOperacion ==
  /\ pcDesalojo \in EsperaMemoria => operacion.id \in Ids
  /\ pcDesalojo \in {"mutex_create", "create_segment"} => operacion.tamanio \in Tamanios

(* Who has a table, in memory and in the kernel: a process gets it before  *)
(* it enters READY and keeps it.                                           *)
ConTablas(p) == tablas[p] # <<>> /\ tablaPcb[p] # <<>>

EnAlta(p) == p = pcbLargo /\ pcLargo \in {"create_pcb", "grado"}

TablasDadas ==
  \A p \in Procesos :
    /\ tablas[p] = <<>> => tablaPcb[p] = <<>>
    /\ estado[p] \in Dentro => ConTablas(p)
    /\ tablas[p] # <<>> => estado[p] \in Dentro \/ EnAlta(p)

TablaDeCabeza ==
  /\ pcLargo = "grado" => ConTablas(pcbLargo)
  /\ pcLargo = "create_pcb" => (Contestado <=> tablas[pcbLargo] # <<>>)

(* The tables in the answer on its way are those that memory has.          *)
Traido ==
  /\ pcLargo = "create_pcb" /\ Contestado => aKernel[2].tabla = tablas[pcbLargo]
  /\ (pcDesalojo = "delete_segment" /\ Contestado) \/ Creado =>
       aKernel[2].tabla = tablas[pcbDesalojo]
  /\ pcDesalojo = "create_segment" /\ fase = "compacta" /\ Contestado =>
       aKernel[3].tabla = tablas

(* What the programs see to is still so when memory attends them.          *)
Ordenado ==
  ProgramasOrdenados =>
    /\ pcDesalojo \in {"mutex_create", "create_segment"} /\ ~reintento =>
         tablaPcb[pcbDesalojo][operacion.id].base = Nulo
    /\ pcDesalojo \in {"mutex_delete", "delete_segment"} =>
         tablaPcb[pcbDesalojo][operacion.id].base # Nulo

(* Nobody changes the list of holes between the answer COMPACTACION and    *)
(* the compaction.                                                         *)
FaltaHueco ==
  Llena => /\ HuecoElegido(huecos, operacion.tamanio) = 0
           /\ AlcanzaCompactando(huecos, operacion.tamanio)

(* The kernel will write in its copy what memory wrote in its own.         *)
CreadoBien ==
  Creado => tablas[pcbDesalojo] =
              [tablaPcb[pcbDesalojo] EXCEPT ![operacion.id] =
                 Mem!Segmento(tablas[pcbDesalojo][operacion.id].base, operacion.tamanio)]

(* Each request is one of the instructions of the programs, of which one   *)
(* may still be to be counted, and each has two compactions at most.       *)
Programa == Procesos \X (1..MaxInstrucciones)

Hecho == {x \in Programa : x[2] > restantes[x[1]]}

PorContar ==
  \/ pcDesalojo = "mutex_delete"
  \/ pcDesalojo = "delete_segment" /\ ~Contestado
  \/ pcDesalojo = "mutex_create" /\ ~reintento
  \/ /\ pcDesalojo = "create_segment" /\ ~reintento
     /\ ~Contestado \/ (fase = "crea" /\ aKernel[1].tipo = "COMPACTACION")

Cuentas ==
  /\ pedidos \in Nat /\ compactaciones \in Nat
  /\ pedidos + Uno(PorContar) <= Cardinality(Hecho)
  /\ compactaciones + Uno(EnReintento) <= 2 * pedidos

InvVigente ==
  /\ TipoDatos /\ TipoOperacion /\ TablasDadas /\ TablaDeCabeza /\ Traido
  /\ Ordenado /\ FaltaHueco /\ CreadoBien /\ Cuentas

-----------------------------------------------------------------------------
(* The instructions made are finitely many, no more than the requests that *)
(* are bounded.                                                            *)
LEMMA HechoAcotado ==
  IsFiniteSet(Hecho) /\ Cardinality(Hecho) \in Nat /\ Cardinality(Hecho) <= MaxPedidos
<1>1. IsFiniteSet(1..MaxInstrucciones) /\ Cardinality(1..MaxInstrucciones) = MaxInstrucciones
  BY ConstantesOK, FS_Interval
<1>2. IsFiniteSet(Procesos) /\ Cardinality(Procesos) \in Nat
  BY SistemaOK, FS_CardinalityType
<1>3. /\ IsFiniteSet(Programa)
      /\ Cardinality(Programa) = Cardinality(Procesos) * MaxInstrucciones
  BY <1>1, <1>2, FS_Product DEF Programa
<1>4. Hecho \in SUBSET Programa
  BY DEF Hecho
<1>5. IsFiniteSet(Hecho) /\ Cardinality(Hecho) <= Cardinality(Programa)
  BY <1>3, <1>4, FS_Subset
<1>6. Cardinality(Hecho) \in Nat /\ Cardinality(Programa) \in Nat
  BY <1>3, <1>5, FS_CardinalityType
<1>7. QED
  BY <1>3, <1>5, <1>6, SistemaOK

(* And after the step.                                                     *)
LEMMA HechoAcotadoDespues ==
  (IsFiniteSet(Hecho) /\ Cardinality(Hecho) \in Nat /\ Cardinality(Hecho) <= MaxPedidos)'
  BY HechoAcotado, PTL

(* They are never fewer, and one more when an instruction comes back.      *)
LEMMA HechoCrece ==
  ASSUME InvNucleo, [Next]_vars
  PROVE  Cardinality(Hecho) <= Cardinality(Hecho)'
<1>1. restantes \in [Procesos -> Nat] /\ pcDesalojo = "cpu" => pcbDesalojo \in Procesos
  BY DEF InvNucleo, InvTodoLugar, IInv, TypeOK, TipoProcesos, Forma, FormaDesalojo
<1>2. \A x \in Programa : x[1] \in Procesos /\ x[2] \in Nat
  BY ConstantesOK DEF Programa
<1>3. restantes \in [Procesos -> Nat]
  BY DEF InvNucleo, InvTodoLugar, IInv, TypeOK, TipoProcesos
<1>4. \A p \in Procesos : restantes'[p] \in Nat /\ restantes'[p] <= restantes[p]
  BY <1>1, <1>3, RestantesBajan DEF UsaInstruccion
<1>5. Hecho \in SUBSET Hecho'
  BY <1>2, <1>3, <1>4 DEF Hecho
<1>6. QED
  BY <1>5, HechoAcotadoDespues, FS_Subset

(* An instruction that comes back from the CPU is one more made.           *)
LEMMA HechoUnoMas ==
  ASSUME InvNucleo, [Next]_vars, NEW op, Devuelto(op)
  PROVE  Cardinality(Hecho) + 1 <= Cardinality(Hecho)'
<1>1. pcbDesalojo \in Procesos /\ restantes \in [Procesos -> Nat] /\ RestantesAcotados
  BY DEF InvNucleo, InvTodoLugar, IInv, TypeOK, TipoProcesos, Forma, FormaDesalojo, Devuelto
<1>2. PICK n \in 1..MaxInstrucciones :
        /\ n = restantes[pcbDesalojo]
        /\ restantes' = [restantes EXCEPT ![pcbDesalojo] = n - 1]
  <2>1. restantes[pcbDesalojo] \in 0..MaxInstrucciones
    BY <1>1 DEF RestantesAcotados
  <2>2. /\ restantes[pcbDesalojo] > 0
        /\ restantes' = [restantes EXCEPT ![pcbDesalojo] = restantes[pcbDesalojo] - 1]
    BY <1>1 DEF Devuelto
  <2>3. restantes[pcbDesalojo] \in 1..MaxInstrucciones
    BY <2>1, <2>2, ConstantesOK
  <2>4. QED
    BY <2>2, <2>3
<1>3. PICK x : x = <<pcbDesalojo, n>>
  OBVIOUS
<1>4. x \in Programa /\ x \notin Hecho /\ x \in Hecho'
  BY <1>1, <1>2, <1>3, ConstantesOK DEF Programa, Hecho
<1>5. \A y \in Programa : y[1] \in Procesos /\ y[2] \in Nat
  BY ConstantesOK DEF Programa
<1>6. \A p \in Procesos : restantes'[p] \in Nat /\ restantes'[p] <= restantes[p]
  BY <1>1, <1>2, ConstantesOK
<1>7. Hecho \subseteq Hecho'
  BY <1>1, <1>5, <1>6 DEF Hecho
<1>8. Hecho \union {x} \in SUBSET Hecho'
  BY <1>4, <1>7
<1>9. Cardinality(Hecho \union {x}) = Cardinality(Hecho) + 1
  BY <1>4, HechoAcotado, FS_AddElement
<1>10. Cardinality(Hecho \union {x}) <= Cardinality(Hecho)'
  BY <1>8, HechoAcotadoDespues, FS_Subset
<1>11. QED
  BY <1>9, <1>10

-----------------------------------------------------------------------------
(* At the start nobody has a table.                                        *)
LEMMA VigenteInicial == InitSistema => InvVigente
<1> SUFFICES ASSUME InitSistema PROVE InvVigente
  OBVIOUS
<1> USE DEF InitSistema
<1>1. huecos \in MP!Listas
  <2>1. PICK l : l = MP!HuecosIniciales
    OBVIOUS
  <2>2. l \in MP!Listas
    BY <2>1, SupuestosDeMemoria, MP!ListaInicial
  <2>3. QED
    BY <2>1, <2>2, MismasTablas
<1>2. TipoDatos
  BY <1>1 DEF TipoDatos, MP!Tablas, MP!SinTabla
<1>3. TipoOperacion /\ TablaDeCabeza /\ Traido /\ Ordenado /\ FaltaHueco /\ CreadoBien
  BY DEF Init, TipoOperacion, TablaDeCabeza, Traido, Ordenado, FaltaHueco, CreadoBien,
     Creado, Llena, EsperaMemoria
<1>4. TablasDadas
  BY DEF Init, TablasDadas, Dentro
<1>5. Cuentas
  <2>1. ~PorContar /\ ~EnReintento
    BY DEF Init, PorContar, EnReintento
  <2>2. QED
    BY <2>1, HechoAcotado DEF Cuentas, Uno
<1>6. QED
  BY <1>2, <1>3, <1>4, <1>5 DEF InvVigente

-----------------------------------------------------------------------------
(* The same facts, together, so that they can be used after a step too.    *)
EnListaBien ==
  \A p \in Procesos : p # pcbCorto /\ (estado[p] \in Dentro \/ p \in Range(nuevos)) =>
    (p \in EnLista <=> /\ estado[p] # "LIBERADO" /\ ~Perdido(p)
                       /\ p \notin Mano /\ p \notin EsperanRecurso)

ActivosBien ==
  /\ Activos \subseteq Procesos
  /\ \A p \in Procesos : p \in Activos <=> /\ tablas[p] # <<>> /\ estado[p] # "LIBERADO"
                                           /\ ~PorCaer(p) /\ ~Perdido(p)

VistaBien ==
  \A p \in Procesos : TablaVista(p) = IF Vista(p) THEN tablas[p] ELSE tablaPcb[p]

(* The dispatcher has nobody in its hands while memory is asked: the CPU   *)
(* credit is with the process that asks.                                   *)
NadieEnCorto == \A p \in Procesos : p # pcbCorto

(* Of one credit, with the handler, none is left for the dispatcher.       *)
LEMMA CortoVacio == InvNucleo /\ pcDesalojo \in EsperaMemoria => NadieEnCorto
<1> SUFFICES ASSUME InvNucleo, pcDesalojo \in EsperaMemoria PROVE NadieEnCorto
  OBVIOUS
<1>1. semCpu \in Nat /\ Len(ejecutando) \in Nat
  BY ListaVacia DEF InvNucleo, InvTodoLugar, IInv, TypeOK, TipoListas, TipoSemaforos
<1>2. Uno(pcDesalojo \in ConCpu) = 1
  BY DEF EsperaMemoria, ConCpu, Uno
<1>3. pcCorto # "agregar"
  <2> SUFFICES ASSUME pcCorto = "agregar" PROVE FALSE
    OBVIOUS
  <2>1. Uno(pcCorto \in {"terminado", "elegir", "agregar"}) = 1
    BY DEF Uno
  <2>2. semCpu + 1 + Len(ejecutando) + 1 <= 1
    BY <1>2, <2>1 DEF InvNucleo, CpuNoSobra
  <2>3. QED
    BY <1>1, <2>2
<1>4. pcbCorto = Ninguno
  BY <1>3 DEF InvNucleo, InvTodoLugar, IInv, FormaCorto
<1>5. QED
  BY <1>4, ConstantesOK DEF NadieEnCorto

(* And after the step.                                                     *)
LEMMA CortoVacioDespues ==
  InvNucleo' /\ pcDesalojo' \in EsperaMemoria => NadieEnCorto'
<1>1. pcDesalojo' \in EsperaMemoria => (pcDesalojo \in EsperaMemoria)'
  BY DEF EsperaMemoria
<1>2. QED
  BY <1>1, CortoVacio, PTL

(* Before a step.                                                          *)
LEMMA Ahora ==
  /\ InvNucleo => EnListaBien /\ ActivosBien
  /\ InvSocket => VistaBien
<1>1. ASSUME InvNucleo PROVE EnListaBien
  BY <1>1, EnListaEs DEF EnListaBien
<1>2. ASSUME InvNucleo PROVE ActivosBien
  <2>1. Activos \subseteq Procesos
    BY DEF Activos
  <2>2. QED
    BY <1>2, <2>1, ActivosSon DEF ActivosBien
<1>3. ASSUME InvSocket PROVE VistaBien
  BY <1>3, VistaEs DEF VistaBien
<1>4. QED
  BY <1>1, <1>2, <1>3

(* After it.                                                               *)
LEMMA Despues ==
  /\ InvNucleo' => EnListaBien' /\ ActivosBien'
  /\ InvSocket' => VistaBien'
  BY Ahora, PTL

(* The processes with a table, by where they are.                          *)
LEMMA ConTablaEnLista ==
  ASSUME InvNucleo, TablasDadas, NEW p \in Procesos, tablas[p] # <<>>
  PROVE  estado[p] \in Dentro \/ p \in Range(nuevos)
<1>1. ASSUME EnAlta(p) PROVE p \in Range(nuevos)
  <2>1. nuevos \in Seq(Procesos) /\ nuevos # <<>> /\ p = Head(nuevos) /\ IsInjective(nuevos)
    BY <1>1 DEF EnAlta, InvNucleo, InvTodoLugar, CabezaDeNew, IInv, TypeOK, TipoListas, Forma,
         FormaLargo, InvLugares, SinRepetir
  <2>2. QED
    BY <2>1, RangoCola
<1>2. QED
  BY <1>1 DEF TablasDadas

(* The same for all of them, so that it can be used after a step too.      *)
TodosAlojados ==
  \A p \in Procesos : tablas[p] # <<>> => estado[p] \in Dentro \/ p \in Range(nuevos)

(* Before it,                                                              *)
LEMMA AlojadosAhora == InvNucleo /\ TablasDadas => TodosAlojados
  BY ConTablaEnLista DEF TodosAlojados

(* and after it.                                                           *)
LEMMA AlojadosDespues == InvNucleo' /\ TablasDadas' => TodosAlojados'
  BY AlojadosAhora, PTL

-----------------------------------------------------------------------------
(* The rest of the system takes steps that are of the kernel alone, moves  *)
(* at most a process, and leaves alone what belongs to the exchange.       *)
AjenoEs ==
  /\ Aparte /\ SinMemoria /\ [Next]_vars /\ Movimiento /\ MismosPerdidos
  /\ pcLargo' \in {"create_pcb", "grado"} => UNCHANGED largo
  /\ pcLargo \in {"create_pcb", "grado"} =>
       UNCHANGED largo
         \/ (pcLargo = "grado" /\ estado' = [estado EXCEPT ![pcbLargo] = "READY"])

(* So are the steps of the kernel that say nothing to memory.              *)
LEMMA AjenoBien ==
  ASSUME InvNucleo, PasoAjeno
  PROVE  AjenoEs
<1> USE DEF largo, corto, desalojo, semaforos, listas, programas, recursos, archivos
<1>1. Aparte /\ SinMemoria /\ [Next]_vars
  BY AjenoAparte
<1>2. ~OtraCompactacion
  BY <1>1 DEF OtraCompactacion, CreateSegmentCompacta, Responde, Aparte, EsperaMemoria,
     InvNucleo, InvTodoLugar, IInv, TypeOK, TipoHilos
<1>3. Movimiento
  BY <1>1, <1>2, Clasifica DEF InvNucleo, InvTodoLugar
<1>4. MismosPerdidos
  BY <1>3, MovimientoGuarda DEF InvNucleo, InvTodoLugar, IInv, TypeOK, Objetivo
<1> DEFINE Alta ==
      /\ pcLargo' \in {"create_pcb", "grado"} => UNCHANGED largo
      /\ pcLargo \in {"create_pcb", "grado"} =>
           UNCHANGED largo
             \/ (pcLargo = "grado" /\ estado' = [estado EXCEPT ![pcbLargo] = "READY"])
<1>5. Alta
  <2>1. ASSUME NEW p \in Procesos, Consola(p) PROVE Alta
    BY <2>1 DEF Consola, CreaPCB, AgregaNew
  <2>2. CASE CortoPlazo
    BY <2>2 DEF CortoPlazo, CortoEsperaCpu, CortoEsperaListo, CortoElige, CortoAgrega,
       CortoAvisa
  <2>3. CASE LargoPlazo /\ "create_pcb" \notin {pcLargo, pcLargo'}
    BY <2>3 DEF LargoPlazo, LargoInicializar, LargoTomaNew, LargoPideTabla,
         LargoRecibeTabla, LargoAdmite, PasoLargo
  <2>4. ASSUME Desalojo PROVE UNCHANGED largo
    BY <2>4 DEF Desalojo, ManejoInstrucciones, DesalojoToma, DesalojoSinProceso, Exit,
         SegmentationFault, Yield, IO, FinIO, FTruncate, FinFTruncate, FinFReadWrite,
         FOpenOcupado, FOpen, FClose, FSeek, FReadWrite, ArchivoNoAbierto,
         RecursoInexistente, WaitConcedido, WaitBloquea, Signal, PideSegmento, TomaMemoria,
         CreateSegmentOk, CreateSegmentCompacta, CreateSegmentSinMemoria, DeleteSegmentOk
  <2>5. CASE Desalojo
    BY <2>4, <2>5
  <2>6. QED
    BY <2>1, <2>2, <2>3, <2>5 DEF PasoAjeno
<1>6. QED
  BY <1>1, <1>3, <1>4, <1>5 DEF AjenoEs

(* Everything that the step leaves as it was.                              *)
LEMMA AjenoDeja ==
  ASSUME AjenoEs
  PROVE  /\ UNCHANGED <<huecos, tablas, tablaPcb, operacion, fase, aMemoria, aKernel>>
         /\ UNCHANGED <<agotada, atrasados, averias, pedidos, compactaciones>>
         /\ UNCHANGED mutexMemoria /\ Contestado' = Contestado
         /\ pcDesalojo \in EsperaMemoria \/ pcDesalojo' \in EsperaMemoria =>
              UNCHANGED <<pcDesalojo, pcbDesalojo, reintento>> /\ Mano' = Mano
         /\ pcLargo = "create_pcb" \/ pcLargo' = "create_pcb" =>
              UNCHANGED <<pcLargo, pcbLargo>>
<1>1. pcDesalojo \in EsperaMemoria \/ pcDesalojo' \in EsperaMemoria =>
        UNCHANGED <<pcDesalojo, pcbDesalojo, reintento>>
  BY DEF AjenoEs, Aparte
<1>2. UNCHANGED <<pcDesalojo, pcbDesalojo>> => Mano' = Mano
  BY DEF Mano
<1>3. QED
  BY <1>1, <1>2 DEF AjenoEs, Aparte, SinMemoria, memoria, delKernel, conexion, historia, Contestado

(* The tables given so far are the same, and who has one is admitted or    *)
(* about to be.                                                            *)
LEMMA AjenoTablas ==
  ASSUME InvNucleo, TablasDadas, TablaDeCabeza, AjenoEs
  PROVE  TablasDadas' /\ TablaDeCabeza'
<1>1. UNCHANGED <<tablas, tablaPcb>> /\ Contestado' = Contestado
  BY AjenoDeja
<1>2. TablaDeCabeza'
  BY <1>1 DEF TablaDeCabeza, AjenoEs, largo, ConTablas
<1>3. ASSUME NEW p \in Procesos
      PROVE  /\ tablas'[p] = <<>> => tablaPcb'[p] = <<>>
             /\ estado'[p] \in Dentro => ConTablas(p)'
             /\ tablas'[p] # <<>> => estado'[p] \in Dentro \/ EnAlta(p)'
  <2>1. EstadoPasa(p)
    BY EstadosPasan DEF AjenoEs, InvNucleo
  <2>2. /\ tablas[p] = <<>> => tablaPcb[p] = <<>>
        /\ estado[p] \in Dentro => ConTablas(p)
        /\ tablas[p] # <<>> => estado[p] \in Dentro \/ EnAlta(p)
    BY DEF TablasDadas
  <2>3. ConTablas(p)' <=> ConTablas(p)
    BY <1>1 DEF ConTablas
  <2>4. estado'[p] \in Dentro => estado[p] \in Dentro \/ (pcLargo = "grado" /\ p = pcbLargo)
    BY <2>1 DEF EstadoPasa, Dentro, InvNucleo, InvTodoLugar, CabezaDeNew
  <2>5. estado[p] \in Dentro => estado'[p] \in Dentro
    BY <2>1 DEF EstadoPasa, Dentro
  <2>6. EnAlta(p) => EnAlta(p)' \/ estado'[p] \in Dentro
    BY DEF EnAlta, AjenoEs, largo, Dentro, InvNucleo, InvTodoLugar, IInv, TypeOK, TipoProcesos
  <2>7. pcLargo = "grado" /\ p = pcbLargo => ConTablas(p)
    BY DEF TablaDeCabeza
  <2>8. QED
    BY <1>1, <2>2, <2>3, <2>4, <2>5, <2>6, <2>7
<1>4. QED
  BY <1>2, <1>3 DEF TablasDadas

(* What the exchange found is as it was.                                   *)
LEMMA AjenoVigente ==
  ASSUME InvNucleo, InvVigente, AjenoEs
  PROVE  InvVigente'
<1>1. /\ UNCHANGED <<huecos, tablas, tablaPcb, operacion, fase, aMemoria, aKernel>>
      /\ UNCHANGED <<agotada, atrasados, averias, pedidos, compactaciones>>
      /\ UNCHANGED mutexMemoria /\ Contestado' = Contestado
      /\ pcDesalojo \in EsperaMemoria \/ pcDesalojo' \in EsperaMemoria =>
           UNCHANGED <<pcDesalojo, pcbDesalojo, reintento>>
      /\ pcLargo = "create_pcb" \/ pcLargo' = "create_pcb" =>
           UNCHANGED <<pcLargo, pcbLargo>>
  BY AjenoDeja
<1>2. TablasDadas' /\ TablaDeCabeza'
  BY AjenoTablas DEF InvVigente
<1>3. TipoDatos' /\ TipoOperacion'
  BY <1>1 DEF InvVigente, TipoDatos, TipoOperacion, EsperaMemoria
<1>4. (Creado' <=> Creado) /\ (Llena' <=> Llena)
  BY <1>1 DEF Creado, Llena, EsperaMemoria
<1>5. Traido' /\ FaltaHueco' /\ CreadoBien'
  BY <1>1, <1>4 DEF InvVigente, Traido, FaltaHueco, CreadoBien, EsperaMemoria, Creado, Llena
<1>6. Ordenado'
  BY <1>1 DEF InvVigente, Ordenado, EsperaMemoria
<1>7. (PorContar' <=> PorContar) /\ (EnReintento' <=> EnReintento)
  BY <1>1 DEF PorContar, EnReintento, EsperaMemoria
<1>8. Cuentas'
  <2>1. PICK h \in Nat, k \in Nat : h = Cardinality(Hecho) /\ k = Cardinality(Hecho)'
    BY HechoAcotado, HechoAcotadoDespues
  <2>2. h <= k
    BY <2>1, HechoCrece DEF AjenoEs
  <2>3. PICK u \in {0, 1} : u = Uno(PorContar) /\ u = Uno(PorContar)'
    BY <1>7 DEF Uno
  <2>4. Uno(EnReintento)' = Uno(EnReintento)
    BY <1>7 DEF Uno
  <2>5. QED
    BY <1>1, <2>1, <2>2, <2>3, <2>4 DEF InvVigente, Cuentas
<1>9. QED
  BY <1>2, <1>3, <1>5, <1>6, <1>8 DEF InvVigente

(* Memoria sees nothing of it,                                             *)
LEMMA AjenoVistas ==
  ASSUME InvNucleo, InvNucleo', InvSocket, InvSocket', TablasDadas, TablasDadas', AjenoEs
  PROVE  Vistas' = Vistas
<1>1. /\ UNCHANGED <<tablas, tablaPcb, fase, aKernel>> /\ Contestado' = Contestado
      /\ pcDesalojo \in EsperaMemoria \/ pcDesalojo' \in EsperaMemoria =>
           UNCHANGED <<pcDesalojo, pcbDesalojo>> /\ Mano' = Mano
      /\ pcLargo = "create_pcb" \/ pcLargo' = "create_pcb" =>
           UNCHANGED <<pcLargo, pcbLargo>>
  BY AjenoDeja
<1>2. ASSUME NEW p \in Procesos, tablas[p] # <<>>, pcDesalojo = "create_segment"
      PROVE  p \in EnLista' <=> p \in EnLista
  <2>1. Mano' = Mano /\ Mano # {}
    BY <1>1, <1>2 DEF Mano, PcConPcb, ConCpu, EsperaMemoria
  <2>2. EsperanRecurso' = EsperanRecurso
    BY <2>1, ColasQuietas DEF AjenoEs, EsperanRecurso
  <2>3. estado'[p] = "LIBERADO" <=> estado[p] = "LIBERADO"
    BY <2>1, EstadosPasan DEF AjenoEs, InvNucleo, EstadoPasa
  <2>4. Perdido(p)' <=> Perdido(p)
    BY DEF AjenoEs, MismosPerdidos
  <2>5. estado[p] \in Dentro \/ p \in Range(nuevos)
    BY <1>2, ConTablaEnLista
  <2>6. estado'[p] \in Dentro \/ p \in Range(nuevos')
    BY <1>1, <1>2, AlojadosDespues DEF TodosAlojados
  <2>7. EnListaBien /\ EnListaBien'
    BY Ahora, Despues
  <2>8. NadieEnCorto /\ NadieEnCorto'
    BY <1>1, <1>2, CortoVacio, CortoVacioDespues DEF EsperaMemoria
  <2>9. QED
    BY <2>1, <2>2, <2>3, <2>4, <2>5, <2>6, <2>7, <2>8 DEF EnListaBien, NadieEnCorto
<1>3. ASSUME NEW p \in Procesos PROVE TablaVista(p)' = TablaVista(p)
  <2>1. /\ TablaVista(p) = IF Vista(p) THEN tablas[p] ELSE tablaPcb[p]
        /\ TablaVista(p)' = IF Vista(p)' THEN tablas'[p] ELSE tablaPcb'[p]
    BY Ahora, Despues DEF VistaBien
  <2>2. CASE tablas[p] = <<>>
    BY <1>1, <2>1, <2>2 DEF TablasDadas
  <2>3. CASE tablas[p] # <<>>
    <3>1. Creado' <=> Creado
      BY <1>1 DEF Creado, EsperaMemoria
    <3>2. Vista(p)' <=> Vista(p)
      BY <1>1, <1>2, <2>3, <3>1 DEF Vista, EsperaMemoria, Creado
    <3>3. QED
      BY <1>1, <2>1, <3>2
  <2>4. QED
    BY <2>2, <2>3
<1>4. QED
  BY <1>3 DEF Vistas

(* but for the end of a process.                                           *)
LEMMA AjenoActivos ==
  ASSUME InvNucleo, InvNucleo', TablasDadas, AjenoEs
  PROVE  \/ Activos' = Activos
         \/ /\ pcbDesalojo \in Activos /\ pcDesalojo \notin EsperaMemoria
            /\ Activos' = Activos \ {pcbDesalojo}
<1>1. /\ UNCHANGED <<tablas, fase, aKernel>> /\ Contestado' = Contestado
      /\ pcDesalojo \in EsperaMemoria \/ pcDesalojo' \in EsperaMemoria =>
           UNCHANGED <<pcDesalojo, pcbDesalojo, reintento>> /\ Mano' = Mano
  BY AjenoDeja
<1>2. ActivosBien /\ ActivosBien'
  BY Ahora, Despues
<1>3. ASSUME NEW p \in Procesos
      PROVE  /\ Perdido(p)' <=> Perdido(p)
             /\ PorCaer(p)' <=> PorCaer(p)
  <2>1. PorCaer(p)' <=> PorCaer(p)
    BY <1>1 DEF PorCaer, EsperaMemoria
  <2>2. QED
    BY <2>1 DEF AjenoEs, MismosPerdidos
<1>4. CASE \A p \in Procesos : estado'[p] = "LIBERADO" <=> estado[p] = "LIBERADO"
  BY <1>1, <1>2, <1>3, <1>4 DEF ActivosBien
<1>5. ASSUME NEW q \in Procesos, ~(estado'[q] = "LIBERADO" <=> estado[q] = "LIBERADO")
      PROVE  /\ pcbDesalojo \in Activos /\ pcDesalojo \notin EsperaMemoria
             /\ Activos' = Activos \ {pcbDesalojo}
  <2>1. estado[q] = "EXEC" /\ estado'[q] = "LIBERADO" /\ Mano = {q} /\ Mano' = {}
    BY <1>5, EstadosPasan DEF AjenoEs, InvNucleo, EstadoPasa
  <2>2. q = pcbDesalojo /\ pcDesalojo \notin EsperaMemoria
    BY <1>1, <2>1 DEF Mano
  <2>3. \A p \in Procesos : p # q => (estado'[p] = "LIBERADO" <=> estado[p] = "LIBERADO")
    BY <2>1, EstadosPasan DEF AjenoEs, InvNucleo, EstadoPasa
  <2>4. q \in Activos
    BY <1>2, <2>1, <2>2 DEF ActivosBien, TablasDadas, ConTablas, Dentro, PorCaer, Perdido,
         EsperaMemoria
  <2>5. Activos' = Activos \ {q}
    BY <1>1, <1>2, <1>3, <2>1, <2>3 DEF ActivosBien
  <2>6. QED
    BY <2>2, <2>4, <2>5
<1>6. QED
  BY <1>4, <1>5

(* So it is a step of Memoria or none.                                     *)
LEMMA AjenoImplementa ==
  ASSUME InvNucleo, InvNucleo', InvSocket, InvSocket', TablasDadas, TablasDadas', AjenoEs
  PROVE  [Mem!Next]_(Mem!vars)
<1>1. /\ UNCHANGED <<huecos, tablas, operacion, fase, aMemoria, aKernel>>
      /\ UNCHANGED <<atrasados, averias, pedidos, compactaciones>> /\ Contestado' = Contestado
      /\ pcDesalojo \in EsperaMemoria \/ pcDesalojo' \in EsperaMemoria =>
           UNCHANGED <<pcDesalojo, pcbDesalojo, reintento>>
  BY AjenoDeja
<1>2. EnReintento' <=> EnReintento
  BY <1>1 DEF EnReintento, EsperaMemoria
<1>3. EnReintento => pcDesalojo \in EsperaMemoria
  BY DEF EnReintento, EsperaMemoria
<1>4. Repite' = Repite
  BY <1>1, <1>2, <1>3 DEF Repite
<1>5. Vistas' = Vistas
  BY AjenoVistas
<1>6. CASE Activos' = Activos
  BY <1>1, <1>4, <1>5, <1>6, EsTartamudeo
<1>7. CASE /\ pcbDesalojo \in Activos /\ pcDesalojo \notin EsperaMemoria
           /\ Activos' = Activos \ {pcbDesalojo}
  <2>1. Mem!Terminar(pcbDesalojo)
    BY <1>1, <1>3, <1>4, <1>5, <1>7, EsTerminar
  <2>2. pcbDesalojo \in Procesos
    BY <1>7 DEF Activos
  <2>3. QED
    BY <2>1, <2>2 DEF Mem!Next
<1>8. QED
  BY <1>6, <1>7, AjenoActivos

-----------------------------------------------------------------------------
(* The steps that talk to memory, until it runs out.                       *)
EnRegla == ~agotada /\ InvSocket /\ InvNucleo /\ InvVigente

Tabla == [MP!Indices -> MP!Segs]

(* A table is never empty, and with another segment it is a table.         *)
LEMMA TablaBien ==
  /\ <<>> \notin Tabla /\ MP!Tablas = Tabla \union {<<>>}
  /\ Mem!TablaInicial \in Tabla
  /\ \A t \in Tabla, b \in Nat \union {Nulo}, s \in Nat : \A i :
       [t EXCEPT ![i] = Mem!Segmento(b, s)] \in Tabla
  /\ \A t \in Tabla : \A i : [t EXCEPT ![i] = Mem!SinSegmento] \in Tabla
<1>1. \A f : DOMAIN f = MP!Indices => f # <<>>
  BY SupuestosDeMemoria, MP!IndicesNoVacio, MismasTablas
<1>2. <<>> \notin Tabla
  BY <1>1 DEF Tabla
<1>3. MP!Tablas = Tabla \union {<<>>}
  BY MismasTablas DEF Tabla, MP!Tablas
<1>4. \A b \in Nat \union {Nulo}, s \in Nat : Mem!Segmento(b, s) \in MP!Segs
  BY DEF Mem!Segmento, MP!Segs
<1>5. Mem!SinSegmento \in MP!Segs
  BY <1>4 DEF Mem!SinSegmento
<1>6. Mem!TablaInicial \in Tabla
  <2>1. \A k \in MP!Indices :
          (IF k = 0 THEN Mem!Segmento(0, TamSegmento0) ELSE Mem!SinSegmento) \in MP!Segs
    BY <1>4, <1>5, HuecosOK
  <2>2. QED
    BY <2>1 DEF Tabla, Mem!TablaInicial, MP!Indices
<1>7. QED
  BY <1>2, <1>3, <1>4, <1>5, <1>6 DEF Tabla

(* The process of a request has its tables and is in no list.              *)
LEMMA Llamador ==
  ASSUME EnRegla, pcDesalojo \in EsperaMemoria
  PROVE  /\ pcbDesalojo \in Procesos /\ estado[pcbDesalojo] = "EXEC"
         /\ Mano = {pcbDesalojo} /\ pcbDesalojo \notin EsperanRecurso
         /\ ~Perdido(pcbDesalojo) /\ ~EnAlta(pcbDesalojo)
         /\ tablas[pcbDesalojo] \in Tabla /\ tablaPcb[pcbDesalojo] \in Tabla
         /\ tablas[pcbDesalojo] # <<>> /\ tablaPcb[pcbDesalojo] # <<>>
         /\ operacion.id \in Ids /\ operacion.id \in MP!Indices
         /\ ~PorCaer(pcbDesalojo) => pcbDesalojo \in Activos
<1>1. pcbDesalojo \in Procesos /\ Mano = {pcbDesalojo}
  BY DEF EnRegla, InvNucleo, InvTodoLugar, IInv, Forma, FormaDesalojo, Mano, PcConPcb, ConCpu,
     EsperaMemoria
<1>2. estado[pcbDesalojo] = "EXEC" /\ ~Perdido(pcbDesalojo)
  BY <1>1 DEF EnRegla, InvNucleo, InvTodoLugar, InvLugares, EstadoDeLista, Perdido
<1>3. pcbDesalojo \notin EsperanRecurso
  <2>1. \A r \in Recursos : colaRecurso[r] \in Seq(Procesos) /\ ~EnCola(pcbDesalojo, r)
    BY <1>1 DEF EnRegla, InvNucleo, InvTodoLugar, IInv, TypeOK, TipoRecursos, InvLugares,
       UnaSolaDeExec
  <2>2. QED
    BY <1>1, <2>1, RangoDeLista DEF EsperanRecurso, EnCola
<1>4. ConTablas(pcbDesalojo)
  BY <1>1, <1>2 DEF EnRegla, InvVigente, TablasDadas, Dentro
<1>5. tablas[pcbDesalojo] \in Tabla /\ tablaPcb[pcbDesalojo] \in Tabla
  BY <1>1, <1>4, TablaBien DEF EnRegla, InvVigente, TipoDatos, ConTablas
<1>6. operacion.id \in Ids /\ operacion.id \in MP!Indices
  BY SistemaOK DEF EnRegla, InvVigente, TipoOperacion, MP!Indices
<1>7. ~PorCaer(pcbDesalojo) => pcbDesalojo \in Activos
  BY <1>1, <1>2, <1>4, ActivosSon DEF EnRegla, ConTablas
<1>8. ~EnAlta(pcbDesalojo)
  <2>1. ASSUME EnAlta(pcbDesalojo) PROVE FALSE
    <3>1. nuevos \in Seq(Procesos) /\ nuevos # <<>> /\ pcbDesalojo = Head(nuevos)
          /\ IsInjective(nuevos)
      BY <2>1 DEF EnAlta, EnRegla, InvNucleo, InvTodoLugar, CabezaDeNew, IInv, TypeOK,
           TipoListas, Forma, FormaLargo, InvLugares, SinRepetir
    <3>2. pcbDesalojo \in Range(nuevos)
      BY <3>1, RangoCola
    <3>3. QED
      BY <1>1, <1>2, <3>2 DEF EnRegla, InvNucleo, InvTodoLugar, InvLugares, EstadoDeLista
  <2>2. QED
    BY <2>1
<1>9. QED
  BY <1>1, <1>2, <1>3, <1>4, <1>5, <1>6, <1>7, <1>8 DEF ConTablas

(* The process that the long-term scheduler holds is in NEW.               *)
LEMMA PorAdmitir ==
  ASSUME EnRegla, pcLargo \in {"mutex_memoria", "create_pcb", "grado"}
  PROVE  pcbLargo \in Procesos /\ estado[pcbLargo] = "NEW"
<1>1. nuevos \in Seq(Procesos) /\ nuevos # <<>> /\ pcbLargo = Head(nuevos)
      /\ IsInjective(nuevos) /\ pcbLargo \in Procesos
  BY DEF EnRegla, InvNucleo, InvTodoLugar, CabezaDeNew, IInv, TypeOK, TipoListas, Forma,
     FormaLargo, InvLugares, SinRepetir
<1>2. pcbLargo \in Range(nuevos)
  BY <1>1, RangoCola
<1>3. QED
  BY <1>1, <1>2 DEF EnRegla, InvNucleo, InvTodoLugar, InvLugares, EstadoDeLista

(* What only looks at the variables of the kernel.                         *)
LEMMA NucleoQuieto ==
  ASSUME UNCHANGED vars
  PROVE  /\ Mano' = Mano /\ EnLista' = EnLista /\ EsperanRecurso' = EsperanRecurso
         /\ MismosPerdidos /\ Hecho' = Hecho
         /\ UNCHANGED <<pcDesalojo, pcbDesalojo, reintento, pcLargo, pcbLargo, estado>>
  BY DEF vars, listas, programas, desalojo, largo, corto, recursos, Mano, EnLista, EsperanRecurso,
     MismosPerdidos, Perdido, EnCola, Hecho

(* Who holds mutex_memoria makes the only exchange.                        *)
LEMMA UnoPide ==
  ASSUME EnRegla
  PROVE  /\ pcLargo = "create_pcb" => ~Pidiendo
         /\ Pidiendo => pcLargo # "create_pcb"
         /\ mutexMemoria = "libre" => /\ pcLargo # "create_pcb" /\ ~Pidiendo /\ Contestado
                                      /\ aKernel = <<>>
  BY DEF EnRegla, InvSocket, Mutex, Canje, SinCanje, Sobra, Contestado

(* What memory works for changes with the tables, the states and who falls.*)
LEMMA MismosActivos ==
  ASSUME InvNucleo, InvNucleo',
         \A p \in Procesos :
           (/\ tablas'[p] # <<>> /\ estado'[p] # "LIBERADO" /\ ~PorCaer(p)' /\ ~Perdido(p)')
             <=> (/\ tablas[p] # <<>> /\ estado[p] # "LIBERADO" /\ ~PorCaer(p) /\ ~Perdido(p))
  PROVE  Activos' = Activos
<1>1. ActivosBien /\ ActivosBien'
  BY Ahora, Despues
<1>2. QED
  BY <1>1 DEF ActivosBien

(* And what it sees of the copies of the kernel.                           *)
LEMMA MismasVistas ==
  ASSUME InvSocket, InvSocket',
         \A p \in Procesos : (IF Vista(p)' THEN tablas'[p] ELSE tablaPcb'[p])
                               = (IF Vista(p) THEN tablas[p] ELSE tablaPcb[p])
  PROVE  Vistas' = Vistas
<1>1. VistaBien /\ VistaBien'
  BY Ahora, Despues
<1>2. QED
  BY <1>1 DEF VistaBien, Vistas

-----------------------------------------------------------------------------
(* The requests and the reading of the answers: Memoria does not move.     *)
LEMMA PideTablaBien ==
  ASSUME EnRegla, InvSocket', InvNucleo', PideTabla
  PROVE  InvVigente' /\ UNCHANGED Mem!vars
<1> USE DEF largo, corto, desalojo, memoria, delKernel, historia, listas, programas, recursos
<1>1. /\ pcLargo = "mutex_memoria" /\ pcLargo' = "create_pcb" /\ mutexMemoria = "libre"
      /\ UNCHANGED <<pcbLargo, pcDesalojo, pcbDesalojo, reintento, huecos, tablas, tablaPcb,
                     operacion, fase, aKernel, agotada, atrasados, averias, pedidos,
                     compactaciones, estado, nuevos, listos, ejecutando, bloqueados,
                     pcbCorto, colaRecurso, restantes>>
  BY DEF PideTabla, LargoPideTabla, PasoLargo
<1>2. ~Pidiendo /\ Contestado /\ aMemoria' # <<>>
  <2>1. aMemoria' = Append(<<>>, Pedido("AUX_CREATE_PCB", pcbLargo))
    BY <1>1, UnoPide DEF PideTabla, Contestado
  <2>2. QED
    BY <1>1, <2>1, UnoPide, Palabras
<1>3. pcbLargo \in Procesos /\ estado[pcbLargo] = "NEW"
  BY <1>1, PorAdmitir
<1>4. tablas[pcbLargo] = <<>>
  BY <1>1, <1>3 DEF EnRegla, InvVigente, TablasDadas, EnAlta, Dentro
<1>5. TipoDatos' /\ TipoOperacion' /\ TablasDadas'
  BY <1>1, <1>4 DEF EnRegla, InvVigente, TipoDatos, TipoOperacion, TablasDadas, ConTablas, EnAlta,
     EsperaMemoria
<1>6. TablaDeCabeza' /\ Traido' /\ Ordenado' /\ FaltaHueco' /\ CreadoBien'
  BY <1>1, <1>2, <1>4 DEF EnRegla, InvVigente, TablaDeCabeza, Traido, Ordenado, FaltaHueco,
     CreadoBien, Creado, Llena, Contestado, Pidiendo
<1>7. (PorContar' <=> PorContar) /\ (EnReintento' <=> EnReintento) /\ Hecho' = Hecho
  BY <1>1, <1>2 DEF PorContar, EnReintento, Hecho, Pidiendo
<1>8. Cuentas'
  BY <1>1, <1>7 DEF EnRegla, InvVigente, Cuentas, Uno
<1>9. Activos' = Activos
  <2>1. \A p \in Procesos : (Perdido(p)' <=> Perdido(p)) /\ ~PorCaer(p) /\ ~PorCaer(p)'
    BY <1>1, <1>2 DEF Perdido, EnCola, Mano, PorCaer, Pidiendo
  <2>2. QED
    BY <1>1, <2>1, MismosActivos DEF EnRegla
<1>10. Vistas' = Vistas
  <2>1. \A p \in Procesos : ~Vista(p) /\ ~Vista(p)'
    BY <1>1, <1>2 DEF Vista, Contestado, Pidiendo, Creado
  <2>2. QED
    BY <1>1, <2>1, MismasVistas DEF EnRegla
<1>11. Repite' = Repite
  BY <1>1, <1>7 DEF Repite
<1>12. QED
  BY <1>1, <1>5, <1>6, <1>8, <1>9, <1>10, <1>11, EsTartamudeo DEF InvVigente

(* The first table of a process.                                           *)
LEMMA RecibeTablaBien ==
  ASSUME EnRegla, InvSocket', InvNucleo', RecibeTabla
  PROVE  InvVigente' /\ UNCHANGED Mem!vars
<1> USE DEF largo, corto, desalojo, memoria, historia, listas, programas, recursos
<1>1. /\ pcLargo = "create_pcb" /\ pcLargo' = "grado" /\ Contestado
      /\ UNCHANGED <<pcbLargo, pcDesalojo, pcbDesalojo, reintento, huecos, tablas,
                     operacion, fase, aMemoria, agotada, atrasados, averias, pedidos,
                     compactaciones, estado, nuevos, listos, ejecutando, bloqueados,
                     pcbCorto, colaRecurso, restantes>>
  BY DEF RecibeTabla, LargoRecibeTabla, PasoLargo
<1>2. ~Pidiendo /\ Contestado'
  BY <1>1, UnoPide DEF Contestado
<1>3. pcbLargo \in Procesos /\ estado[pcbLargo] = "NEW"
  BY <1>1, PorAdmitir
<1>4. tablaPcb' = [tablaPcb EXCEPT ![pcbLargo] = tablas[pcbLargo]]
  <2>1. PICK t : aKernel = <<Palabra("AUX_CREATE_PCB"), Buffer(t)>>
    BY RecibeBien DEF EnRegla
  <2>2. aKernel[2].tipo = "buffer" /\ aKernel[2].tabla = tablas[pcbLargo]
    BY <1>1, <2>1, Tipos1 DEF EnRegla, InvVigente, Traido
  <2>3. QED
    BY <2>2 DEF RecibeTabla
<1>5. tablas[pcbLargo] # <<>>
  BY <1>1 DEF EnRegla, InvVigente, TablaDeCabeza
<1>6. DOMAIN tablaPcb = Procesos /\ tablaPcb \in [Procesos -> MP!Tablas] /\ tablas \in [Procesos -> MP!Tablas]
  BY DEF EnRegla, InvVigente, TipoDatos
<1>7. TipoDatos' /\ TipoOperacion'
  BY <1>1, <1>3, <1>4, <1>6 DEF EnRegla, InvVigente, TipoDatos, TipoOperacion, EsperaMemoria
<1>8. TablasDadas'
  BY <1>1, <1>3, <1>4, <1>5, <1>6 DEF EnRegla, InvVigente, TablasDadas, ConTablas, EnAlta, Dentro
<1>9. TablaDeCabeza' /\ Traido' /\ FaltaHueco' /\ CreadoBien'
  BY <1>1, <1>2, <1>3, <1>4, <1>5, <1>6 DEF TablaDeCabeza, Traido, FaltaHueco,
     CreadoBien, Creado, Llena, Pidiendo, ConTablas
<1>10. Ordenado'
  <2>1. CASE pcDesalojo \in EsperaMemoria
    <3>1. pcbDesalojo \in Procesos /\ pcbDesalojo # pcbLargo
      BY <1>3, <2>1, Llamador
    <3>2. tablaPcb'[pcbDesalojo] = tablaPcb[pcbDesalojo]
      BY <1>4, <1>6, <3>1
    <3>3. QED
      BY <1>1, <3>2 DEF EnRegla, InvVigente, Ordenado
  <2>2. CASE pcDesalojo \notin EsperaMemoria
    BY <1>1, <2>2 DEF Ordenado, EsperaMemoria
  <2>3. QED
    BY <2>1, <2>2
<1>11. (PorContar' <=> PorContar) /\ (EnReintento' <=> EnReintento) /\ Hecho' = Hecho
  BY <1>1, <1>2 DEF PorContar, EnReintento, Hecho, Pidiendo
<1>12. Cuentas'
  BY <1>1, <1>11 DEF EnRegla, InvVigente, Cuentas, Uno
<1>13. Activos' = Activos
  <2>1. \A p \in Procesos : (Perdido(p)' <=> Perdido(p)) /\ ~PorCaer(p) /\ ~PorCaer(p)'
    BY <1>1, <1>2 DEF Perdido, EnCola, Mano, PorCaer, Pidiendo
  <2>2. QED
    BY <1>1, <2>1, MismosActivos DEF EnRegla
<1>14. Vistas' = Vistas
  <2>1. \A p \in Procesos : ~Vista(p)' /\ (Vista(p) <=> p = pcbLargo)
    BY <1>1, <1>2 DEF Vista, Pidiendo, Creado
  <2>2. \A p \in Procesos : tablaPcb'[p] = IF p = pcbLargo THEN tablas[p] ELSE tablaPcb[p]
    BY <1>3, <1>4, <1>6
  <2>3. QED
    BY <1>1, <2>1, <2>2, MismasVistas DEF EnRegla
<1>15. Repite' = Repite
  BY <1>1, <1>11 DEF Repite
<1>16. QED
  BY <1>1, <1>7, <1>8, <1>9, <1>10, <1>12, <1>13, <1>14, <1>15, EsTartamudeo DEF InvVigente

(* The eviction thread has an instruction to carry out.                    *)
LEMMA PideOperacionBien ==
  ASSUME EnRegla, InvSocket', InvNucleo', PideOperacion
  PROVE  InvVigente' /\ UNCHANGED Mem!vars
<1> USE DEF largo, corto, desalojo, memoria, conexion, historia, listas, programas, recursos
<1>1. /\ pcDesalojo = "cpu" /\ pcDesalojo' \in {"mutex_create", "mutex_delete"} /\ ~reintento'
      /\ UNCHANGED <<pcLargo, pcbLargo, pcbDesalojo, huecos, tablas, tablaPcb,
                     fase, aMemoria, aKernel, agotada, atrasados, averias, pedidos,
                     compactaciones, estado, nuevos, listos, ejecutando, bloqueados,
                     pcbCorto, colaRecurso>>
  BY DEF PideOperacion, PideSegmento, Devuelto, Fin
<1>2. Contestado' = Contestado
  BY <1>1 DEF Contestado
<1>3. PICK id \in Ids :
       \/ /\ pcDesalojo' = "mutex_create"
          /\ ProgramasOrdenados => tablaPcb[pcbDesalojo][id].base = Nulo
          /\ \E t \in Tamanios : operacion' = [id |-> id, tamanio |-> t]
       \/ /\ pcDesalojo' = "mutex_delete"
          /\ ProgramasOrdenados => tablaPcb[pcbDesalojo][id].base # Nulo
          /\ operacion' = [id |-> id, tamanio |-> 0]
  BY DEF PideOperacion
<1>4. operacion'.id = id /\ (pcDesalojo' = "mutex_create" => operacion'.tamanio \in Tamanios)
  BY <1>3
<1>5. TipoDatos' /\ TipoOperacion'
  BY <1>1, <1>4 DEF EnRegla, InvVigente, TipoDatos, TipoOperacion
<1>6. TablasDadas' /\ TablaDeCabeza'
  BY <1>1, <1>2 DEF EnRegla, InvVigente, TablasDadas, ConTablas, EnAlta, TablaDeCabeza
<1>7. Traido' /\ FaltaHueco' /\ CreadoBien'
  BY <1>1, <1>2 DEF EnRegla, InvVigente, Traido, FaltaHueco, CreadoBien, Creado, Llena
<1>8. Ordenado'
  BY <1>1, <1>3, <1>4 DEF Ordenado
<1>9. Cuentas'
  <2>1. PICK h \in Nat, k \in Nat : h = Cardinality(Hecho) /\ k = Cardinality(Hecho)'
    BY HechoAcotado, HechoAcotadoDespues
  <2>2. h + 1 <= k
    <3>1. PICK op : Devuelto(op)
      BY DEF PideOperacion, PideSegmento
    <3>2. [Next]_vars
      BY DEF PideOperacion, Next, Desalojo, ManejoInstrucciones
    <3>3. QED
      BY <2>1, <3>1, <3>2, HechoUnoMas DEF EnRegla
  <2>3. ~PorContar /\ ~EnReintento /\ ~EnReintento'
    BY <1>1 DEF PorContar, EnReintento
  <2>4. Uno(PorContar)' \in {0, 1} /\ Uno(PorContar) = 0 /\ Uno(EnReintento) = 0
        /\ Uno(EnReintento)' = 0
    BY <2>3 DEF Uno
  <2>5. QED
    BY <1>1, <2>1, <2>2, <2>4 DEF EnRegla, InvVigente, Cuentas
<1>10. Activos' = Activos
  <2>1. \A p \in Procesos : (Perdido(p)' <=> Perdido(p)) /\ ~PorCaer(p) /\ ~PorCaer(p)'
    BY <1>1 DEF Perdido, EnCola, Mano, PorCaer, PcConPcb, ConCpu
  <2>2. QED
    BY <1>1, <2>1, MismosActivos DEF EnRegla
<1>11. Vistas' = Vistas
  <2>1. \A p \in Procesos : Vista(p)' <=> Vista(p)
    BY <1>1, <1>2 DEF Vista, Creado
  <2>2. QED
    BY <1>1, <2>1, MismasVistas DEF EnRegla
<1>12. Repite' = Repite
  BY <1>1 DEF Repite, EnReintento
<1>13. QED
  BY <1>1, <1>5, <1>6, <1>7, <1>8, <1>9, <1>10, <1>11, <1>12, EsTartamudeo DEF InvVigente

(* It sends it.                                                            *)
LEMMA EnviaOperacionBien ==
  ASSUME EnRegla, InvSocket', InvNucleo', EnviaOperacion
  PROVE  InvVigente' /\ UNCHANGED Mem!vars
<1> USE DEF largo, corto, desalojo, memoria, historia, listas, programas, recursos
<1>1. /\ mutexMemoria = "libre" /\ fase' = "crea"
      /\ \/ pcDesalojo = "mutex_create" /\ pcDesalojo' = "create_segment"
         \/ pcDesalojo = "mutex_delete" /\ pcDesalojo' = "delete_segment"
      /\ UNCHANGED <<pcLargo, pcbLargo, pcbDesalojo, reintento, huecos, tablas, tablaPcb,
                     operacion, aKernel, agotada, atrasados, averias, pedidos,
                     compactaciones, estado, nuevos, listos, ejecutando, bloqueados,
                     pcbCorto, colaRecurso, restantes>>
  BY DEF EnviaOperacion, TomaMemoria
<1>2. pcLargo # "create_pcb" /\ Contestado /\ ~Contestado'
  <2>1. PICK r : r = Pedido(IF pcDesalojo = "mutex_create" THEN "CREATE_SEGMENT"
                                                           ELSE "DELETE_SEGMENT", pcbDesalojo)
    OBVIOUS
  <2>2. aMemoria' = Append(<<>>, r)
    BY <1>1, <2>1, UnoPide DEF EnviaOperacion, Contestado
  <2>3. aMemoria' # <<>>
    BY <2>2, Palabras
  <2>4. QED
    BY <1>1, <2>3, UnoPide DEF Contestado
<1>3. TipoDatos' /\ TipoOperacion'
  BY <1>1 DEF EnRegla, InvVigente, TipoDatos, TipoOperacion, EsperaMemoria
<1>4. TablasDadas' /\ TablaDeCabeza'
  BY <1>1, <1>2 DEF EnRegla, InvVigente, TablasDadas, ConTablas, EnAlta, TablaDeCabeza
<1>5. Traido' /\ FaltaHueco' /\ CreadoBien'
  BY <1>1, <1>2 DEF Traido, FaltaHueco, CreadoBien, Creado, Llena
<1>6. Ordenado'
  BY <1>1 DEF EnRegla, InvVigente, Ordenado
<1>7. (PorContar' <=> PorContar) /\ (EnReintento' <=> EnReintento) /\ Hecho' = Hecho
  <2>1. PorContar' <=> PorContar
    BY <1>1, <1>2 DEF PorContar
  <2>2. EnReintento' <=> EnReintento
    BY <1>1, <1>2 DEF EnReintento
  <2>3. QED
    BY <1>1, <2>1, <2>2 DEF Hecho
<1>8. Cuentas'
  BY <1>1, <1>7 DEF EnRegla, InvVigente, Cuentas, Uno
<1>9. Activos' = Activos
  <2>1. \A p \in Procesos : (Perdido(p)' <=> Perdido(p)) /\ ~PorCaer(p) /\ ~PorCaer(p)'
    BY <1>1, <1>2 DEF Perdido, EnCola, Mano, PorCaer, PcConPcb, ConCpu
  <2>2. QED
    BY <1>1, <2>1, MismosActivos DEF EnRegla
<1>10. Vistas' = Vistas
  <2>1. \A p \in Procesos : ~Vista(p)' /\ ~Vista(p)
    BY <1>1, <1>2 DEF Vista, Creado
  <2>2. QED
    BY <1>1, <2>1, MismasVistas DEF EnRegla
<1>11. Repite' = Repite
  BY <1>1, <1>7 DEF Repite
<1>12. QED
  BY <1>1, <1>3, <1>4, <1>5, <1>6, <1>8, <1>9, <1>10, <1>11, EsTartamudeo DEF InvVigente

(* It orders the compaction that memory says will make room.               *)
LEMMA OrdenaCompactarBien ==
  ASSUME EnRegla, InvSocket', InvNucleo', OrdenaCompactar
  PROVE  InvVigente' /\ UNCHANGED Mem!vars
<1> USE DEF memoria, historia
<1>1. /\ pcDesalojo = "create_segment" /\ fase = "crea" /\ fase' = "compacta"
      /\ Contestado /\ aKernel[1].tipo = "COMPACTACION"
      /\ UNCHANGED <<vars, huecos, tablas, tablaPcb, operacion, agotada, atrasados, averias,
                     pedidos, compactaciones>>
  BY DEF OrdenaCompactar, Lee
<1>2. /\ Mano' = Mano /\ MismosPerdidos /\ Hecho' = Hecho
      /\ UNCHANGED <<pcDesalojo, pcbDesalojo, reintento, pcLargo, pcbLargo, estado>>
  BY <1>1, NucleoQuieto
<1>3. pcLargo # "create_pcb" /\ ~Contestado'
  <2>1. PICK r : r = Pedido("COMPACTACION", pcbDesalojo)
    OBVIOUS
  <2>2. aMemoria' = Append(<<>>, r)
    BY <1>1, <2>1 DEF OrdenaCompactar, Contestado
  <2>3. aMemoria' # <<>>
    BY <2>2, Palabras
  <2>4. QED
    BY <1>1, <2>3, UnoPide DEF Contestado, Pidiendo
<1>4. TipoDatos' /\ TipoOperacion'
  BY <1>1, <1>2 DEF EnRegla, InvVigente, TipoDatos, TipoOperacion
<1>5. TablasDadas' /\ TablaDeCabeza'
  BY <1>1, <1>2, <1>3 DEF EnRegla, InvVigente, TablasDadas, ConTablas, EnAlta, TablaDeCabeza
<1>6. Traido' /\ CreadoBien' /\ Ordenado'
  BY <1>1, <1>2, <1>3 DEF EnRegla, InvVigente, Traido, CreadoBien, Creado, Ordenado
<1>7. FaltaHueco'
  BY <1>1, <1>2, <1>3 DEF EnRegla, InvVigente, FaltaHueco, Llena
<1>8. (PorContar' <=> PorContar) /\ (EnReintento' <=> EnReintento)
  BY <1>1, <1>2, <1>3 DEF PorContar, EnReintento
<1>9. Cuentas'
  BY <1>1, <1>2, <1>8 DEF EnRegla, InvVigente, Cuentas, Uno
<1>10. Activos' = Activos
  <2>1. \A p \in Procesos : (Perdido(p)' <=> Perdido(p)) /\ ~PorCaer(p) /\ ~PorCaer(p)'
    BY <1>1, <1>2, <1>3 DEF MismosPerdidos, PorCaer
  <2>2. QED
    BY <1>1, <1>2, <2>1, MismosActivos DEF EnRegla
<1>11. Vistas' = Vistas
  <2>1. \A p \in Procesos : ~Vista(p)' /\ ~Vista(p)
    BY <1>1, <1>2, <1>3 DEF Vista, Creado
  <2>2. QED
    BY <1>1, <2>1, MismasVistas DEF EnRegla
<1>12. Repite' = Repite
  BY <1>1, <1>2, <1>8 DEF Repite
<1>13. QED
  BY <1>1, <1>4, <1>5, <1>6, <1>7, <1>9, <1>10, <1>11, <1>12, EsTartamudeo DEF InvVigente

-----------------------------------------------------------------------------
(* The answers that end an exchange.                                       *)
LEMMA RecibeBaseBien ==
  ASSUME EnRegla, InvSocket', InvNucleo', RecibeBase
  PROVE  InvVigente' /\ UNCHANGED Mem!vars
<1> USE DEF largo, corto, desalojo, memoria, historia, programas, recursos
<1>1. /\ pcDesalojo = "create_segment" /\ pcDesalojo' = "executing" /\ ~reintento'
      /\ fase = "crea" /\ Contestado /\ aKernel[1].tipo = "AUX_OK" /\ pcbDesalojo' = Ninguno
      /\ estado' = [estado EXCEPT ![pcbDesalojo] = "EXEC"]
      /\ ejecutando' = Append(ejecutando, pcbDesalojo)
      /\ UNCHANGED <<pcLargo, pcbLargo, huecos, tablas, operacion, fase, aMemoria, agotada,
                     atrasados, averias, pedidos, compactaciones, restantes>>
  BY DEF RecibeBase, Lee, CreateSegmentOk, Responde, SigueEjecutando, Fin, CambiaEstado
<1>2. Creado /\ pcLargo # "create_pcb" /\ Contestado'
  BY <1>1, UnoPide DEF Creado, Pidiendo, Contestado
<1>3. /\ pcbDesalojo \in Procesos /\ estado[pcbDesalojo] = "EXEC"
      /\ tablas[pcbDesalojo] \in Tabla
  BY <1>1, Llamador DEF EsperaMemoria
<1>4. /\ estado \in [Procesos -> Estados] /\ tablaPcb \in [Procesos -> MP!Tablas]
      /\ tablas \in [Procesos -> MP!Tablas]
  BY DEF EnRegla, InvVigente, TipoDatos, InvNucleo, InvTodoLugar, IInv, TypeOK, TipoProcesos
<1>5. estado' = estado
  BY <1>1, <1>3, <1>4
<1>6. tablaPcb' = [tablaPcb EXCEPT ![pcbDesalojo] = tablas[pcbDesalojo]]
  <2>1. PICK b : b = tablas[pcbDesalojo][operacion.id].base
    OBVIOUS
  <2>2. aKernel[2].tabla = tablas[pcbDesalojo]
    BY <1>2 DEF EnRegla, InvVigente, Traido
  <2>3. tablaPcb' = [tablaPcb EXCEPT ![pcbDesalojo][operacion.id] = Mem!Segmento(b, operacion.tamanio)]
    BY <2>1, <2>2 DEF RecibeBase
  <2>4. tablas[pcbDesalojo] = [tablaPcb[pcbDesalojo] EXCEPT ![operacion.id] =
                                 Mem!Segmento(b, operacion.tamanio)]
    BY <1>2, <2>1 DEF EnRegla, InvVigente, CreadoBien
  <2>5. tablaPcb' = [tablaPcb EXCEPT ![pcbDesalojo] =
          [tablaPcb[pcbDesalojo] EXCEPT ![operacion.id] = Mem!Segmento(b, operacion.tamanio)]]
    BY <2>3
  <2>6. QED
    BY <2>4, <2>5
<1>7. TipoDatos' /\ TipoOperacion'
  BY <1>1, <1>3, <1>4, <1>6 DEF EnRegla, InvVigente, TipoDatos, TipoOperacion, EsperaMemoria
<1>8. TablasDadas' /\ TablaDeCabeza'
  <2>1. tablas[pcbDesalojo] # <<>> /\ ~EnAlta(pcbDesalojo)
    BY <1>1, Llamador DEF EsperaMemoria
  <2>2. \A p \in Procesos : tablaPcb'[p] = IF p = pcbDesalojo THEN tablas[p] ELSE tablaPcb[p]
    BY <1>3, <1>4, <1>6
  <2>3. \A p \in Procesos : tablaPcb'[p] = <<>> <=> tablaPcb[p] = <<>>
    BY <1>1, <2>1, <2>2, Llamador DEF EsperaMemoria
  <2>4. pcLargo = "grado" => pcbLargo \in Procesos
    BY PorAdmitir
  <2>5. QED
    BY <1>1, <1>2, <1>5, <2>3, <2>4 DEF EnRegla, InvVigente, TablasDadas, TablaDeCabeza,
       ConTablas, EnAlta
<1>9. Traido' /\ FaltaHueco' /\ CreadoBien' /\ Ordenado'
  BY <1>1, <1>2 DEF Traido, FaltaHueco, CreadoBien, Creado, Llena, Ordenado
<1>10. ~PorContar' /\ ~EnReintento' /\ ~EnReintento /\ ~PorContar /\ Hecho' = Hecho
  BY <1>1 DEF PorContar, EnReintento, Hecho
<1>11. Cuentas'
  BY <1>1, <1>10 DEF EnRegla, InvVigente, Cuentas, Uno
<1>12. Activos' = Activos
  <2>1. MismosPerdidos
    <3>1. [Next]_vars /\ ~OtraCompactacion
      <4>1. ejecutando \in Seq(Procesos)
        BY DEF EnRegla, InvNucleo, InvTodoLugar, IInv, TypeOK, TipoListas
      <4>2. ejecutando' # ejecutando
        BY <1>1, <1>3, <4>1
      <4>3. ~OtraCompactacion
        BY <4>2 DEF OtraCompactacion, CreateSegmentCompacta, listas
      <4>4. QED
        BY <4>3 DEF RecibeBase, Next, Desalojo, ManejoInstrucciones
    <3>2. Movimiento
      BY <3>1, Clasifica DEF EnRegla, InvNucleo, InvTodoLugar
    <3>3. QED
      BY <3>2, MovimientoGuarda DEF EnRegla, InvNucleo, InvTodoLugar, IInv, TypeOK, Objetivo
  <2>2. \A p \in Procesos : ~PorCaer(p) /\ ~PorCaer(p)'
    BY <1>1 DEF PorCaer
  <2>3. QED
    BY <1>1, <1>5, <2>1, <2>2, MismosActivos DEF EnRegla, MismosPerdidos
<1>13. Vistas' = Vistas
  <2>1. \A p \in Procesos : ~Vista(p)' /\ (Vista(p) <=> p = pcbDesalojo)
    BY <1>1, <1>2 DEF Vista, Creado
  <2>2. \A p \in Procesos : tablaPcb'[p] = IF p = pcbDesalojo THEN tablas[p] ELSE tablaPcb[p]
    BY <1>3, <1>4, <1>6
  <2>3. QED
    BY <1>1, <2>1, <2>2, MismasVistas DEF EnRegla
<1>14. Repite' = Repite
  BY <1>10 DEF Repite
<1>15. QED
  BY <1>1, <1>7, <1>8, <1>9, <1>11, <1>12, <1>13, <1>14, EsTartamudeo DEF InvVigente

(* The same after the deletion of a segment.                               *)
LEMMA RecibeTablaSinSegmentoBien ==
  ASSUME EnRegla, InvSocket', InvNucleo', RecibeTablaSinSegmento
  PROVE  InvVigente' /\ UNCHANGED Mem!vars
<1> USE DEF largo, corto, desalojo, memoria, historia, programas, recursos
<1>1. /\ pcDesalojo = "delete_segment" /\ pcDesalojo' = "executing" /\ ~reintento'
      /\ Contestado /\ pcbDesalojo' = Ninguno
      /\ estado' = [estado EXCEPT ![pcbDesalojo] = "EXEC"]
      /\ ejecutando' = Append(ejecutando, pcbDesalojo)
      /\ UNCHANGED <<pcLargo, pcbLargo, huecos, tablas, operacion, fase, aMemoria, agotada,
                     atrasados, averias, pedidos, compactaciones, restantes>>
  BY DEF RecibeTablaSinSegmento, DeleteSegmentOk, SigueEjecutando, Fin, CambiaEstado
<1>2. pcLargo # "create_pcb" /\ Contestado'
  BY <1>1, UnoPide DEF Pidiendo, Contestado
<1>3. /\ pcbDesalojo \in Procesos /\ estado[pcbDesalojo] = "EXEC"
      /\ tablas[pcbDesalojo] \in Tabla
  BY <1>1, Llamador DEF EsperaMemoria
<1>4. /\ estado \in [Procesos -> Estados] /\ tablaPcb \in [Procesos -> MP!Tablas]
      /\ tablas \in [Procesos -> MP!Tablas]
  BY DEF EnRegla, InvVigente, TipoDatos, InvNucleo, InvTodoLugar, IInv, TypeOK, TipoProcesos
<1>5. estado' = estado
  BY <1>1, <1>3, <1>4
<1>6. tablaPcb' = [tablaPcb EXCEPT ![pcbDesalojo] = tablas[pcbDesalojo]]
  BY <1>1 DEF RecibeTablaSinSegmento, EnRegla, InvVigente, Traido
<1>7. TipoDatos' /\ TipoOperacion'
  BY <1>1, <1>3, <1>4, <1>6 DEF EnRegla, InvVigente, TipoDatos, TipoOperacion, EsperaMemoria
<1>8. TablasDadas' /\ TablaDeCabeza'
  <2>1. tablas[pcbDesalojo] # <<>> /\ ~EnAlta(pcbDesalojo)
    BY <1>1, Llamador DEF EsperaMemoria
  <2>2. \A p \in Procesos : tablaPcb'[p] = IF p = pcbDesalojo THEN tablas[p] ELSE tablaPcb[p]
    BY <1>3, <1>4, <1>6
  <2>3. \A p \in Procesos : tablaPcb'[p] = <<>> <=> tablaPcb[p] = <<>>
    BY <1>1, <2>1, <2>2, Llamador DEF EsperaMemoria
  <2>4. pcLargo = "grado" => pcbLargo \in Procesos
    BY PorAdmitir
  <2>5. QED
    BY <1>1, <1>2, <1>5, <2>3, <2>4 DEF EnRegla, InvVigente, TablasDadas, TablaDeCabeza,
       ConTablas, EnAlta
<1>9. Traido' /\ FaltaHueco' /\ CreadoBien' /\ Ordenado'
  BY <1>1, <1>2 DEF Traido, FaltaHueco, CreadoBien, Creado, Llena, Ordenado
<1>10. ~PorContar' /\ ~EnReintento' /\ ~EnReintento /\ ~PorContar /\ Hecho' = Hecho
  BY <1>1 DEF PorContar, EnReintento, Hecho
<1>11. Cuentas'
  BY <1>1, <1>10 DEF EnRegla, InvVigente, Cuentas, Uno
<1>12. Activos' = Activos
  <2>1. MismosPerdidos
    <3>1. [Next]_vars /\ ~OtraCompactacion
      BY <1>1 DEF RecibeTablaSinSegmento, Next, Desalojo, ManejoInstrucciones,
         OtraCompactacion, CreateSegmentCompacta, Responde
    <3>2. Movimiento
      BY <3>1, Clasifica DEF EnRegla, InvNucleo, InvTodoLugar
    <3>3. QED
      BY <3>2, MovimientoGuarda DEF EnRegla, InvNucleo, InvTodoLugar, IInv, TypeOK, Objetivo
  <2>2. \A p \in Procesos : ~PorCaer(p) /\ ~PorCaer(p)'
    BY <1>1 DEF PorCaer
  <2>3. QED
    BY <1>1, <1>5, <2>1, <2>2, MismosActivos DEF EnRegla, MismosPerdidos
<1>13. Vistas' = Vistas
  <2>1. \A p \in Procesos : ~Vista(p)' /\ (Vista(p) <=> p = pcbDesalojo)
    BY <1>1, <1>2 DEF Vista, Creado
  <2>2. \A p \in Procesos : tablaPcb'[p] = IF p = pcbDesalojo THEN tablas[p] ELSE tablaPcb[p]
    BY <1>3, <1>4, <1>6
  <2>3. QED
    BY <1>1, <2>1, <2>2, MismasVistas DEF EnRegla
<1>14. Repite' = Repite
  BY <1>10 DEF Repite
<1>15. QED
  BY <1>1, <1>7, <1>8, <1>9, <1>11, <1>12, <1>13, <1>14, EsTartamudeo DEF InvVigente

(* The tables of a compaction, which reach whom the kernel finds in its    *)
(* lists; the process that asked for it is tried once more or lost.        *)
LEMMA RecibeTablasBien ==
  ASSUME EnRegla, InvSocket', InvNucleo', RecibeTablas
  PROVE  InvVigente' /\ UNCHANGED Mem!vars
<1> USE DEF largo, corto, desalojo, memoria, historia, listas, programas, recursos
<1>1. /\ pcDesalojo = "create_segment" /\ fase = "compacta" /\ Contestado
      /\ pcDesalojo' = IF reintento THEN "executing" ELSE "mutex_create"
      /\ pcbDesalojo' = IF reintento THEN Ninguno ELSE pcbDesalojo
      /\ reintento' = ~reintento
      /\ UNCHANGED <<pcLargo, pcbLargo, huecos, tablas, operacion, fase, aMemoria, agotada,
                     atrasados, averias, pedidos, compactaciones, restantes, estado,
                     nuevos, listos, ejecutando, bloqueados, pcbCorto, colaRecurso>>
  BY DEF RecibeTablas, CreateSegmentCompacta, Responde
<1>2. pcLargo # "create_pcb" /\ Contestado'
  BY <1>1, UnoPide DEF Pidiendo, Contestado
<1>3. /\ pcbDesalojo \in Procesos /\ Mano = {pcbDesalojo} /\ estado[pcbDesalojo] = "EXEC"
      /\ pcbDesalojo \notin EsperanRecurso
  BY <1>1, Llamador DEF EsperaMemoria
<1>4. /\ tablaPcb \in [Procesos -> MP!Tablas] /\ tablas \in [Procesos -> MP!Tablas]
  BY DEF EnRegla, InvVigente, TipoDatos
<1>5. aKernel[3].tabla = tablas
  BY <1>1 DEF EnRegla, InvVigente, Traido
<1>6. tablaPcb' = [p \in Procesos |-> IF p \in EnLista /\ tablas[p] # <<>> THEN tablas[p]
                                                                        ELSE tablaPcb[p]]
  BY <1>5 DEF RecibeTablas
<1>7. \A p \in Procesos : tablaPcb'[p] = IF p \in EnLista THEN tablas[p] ELSE tablaPcb[p]
  BY <1>6 DEF EnRegla, InvVigente, TablasDadas
<1>8. TipoDatos' /\ TipoOperacion'
  BY <1>1, <1>4, <1>6 DEF EnRegla, InvVigente, TipoDatos, TipoOperacion, EsperaMemoria
<1>9. TablasDadas' /\ TablaDeCabeza'
  <2>1. \A p \in Procesos : /\ tablaPcb[p] # <<>> => tablaPcb'[p] # <<>>
                            /\ tablas[p] = <<>> => tablaPcb'[p] = <<>>
    BY <1>6 DEF EnRegla, InvVigente, TablasDadas
  <2>2. pcLargo = "grado" => pcbLargo \in Procesos
    BY PorAdmitir
  <2>3. QED
    BY <1>1, <1>2, <2>1, <2>2 DEF EnRegla, InvVigente, TablasDadas, TablaDeCabeza,
       ConTablas, EnAlta
<1>10. Traido' /\ FaltaHueco' /\ CreadoBien' /\ Ordenado'
  BY <1>1, <1>2 DEF Traido, FaltaHueco, CreadoBien, Creado, Llena, Ordenado
<1>11. ~PorContar' /\ ~PorContar /\ (EnReintento' <=> EnReintento) /\ Hecho' = Hecho
       /\ (EnReintento <=> ~reintento)
  BY <1>1, <1>2 DEF PorContar, EnReintento, Hecho
<1>12. Cuentas'
  BY <1>1, <1>11 DEF EnRegla, InvVigente, Cuentas, Uno
<1>13. Activos' = Activos
  <2>1. Mano' = IF reintento THEN {} ELSE {pcbDesalojo}
    BY <1>1 DEF Mano, PcConPcb, ConCpu
  <2>2. \A p \in Procesos : ~PorCaer(p)' /\ (PorCaer(p) <=> reintento /\ p = pcbDesalojo)
    BY <1>1 DEF PorCaer
  <2>3. \A p \in Procesos : p # pcbDesalojo => (Perdido(p)' <=> Perdido(p))
    BY <1>1, <1>3, <2>1 DEF Perdido, EnCola
  <2>4. ASSUME NEW p \in Procesos, p = pcbDesalojo
        PROVE  ~Perdido(p) /\ (Perdido(p)' <=> reintento)
    <3>1. /\ p \notin Range(ejecutando) /\ p # pcbCorto
          /\ \A r \in Recursos : ~EnCola(p, r)
      BY <1>3, <2>4 DEF EnRegla, InvNucleo, InvTodoLugar, InvLugares, UnaSolaDeExec
    <3>2. Perdido(p)' <=> /\ estado[p] = "EXEC" /\ p \notin Range(ejecutando)
                          /\ p \notin Mano' /\ p # pcbCorto
                          /\ \A r \in Recursos : ~EnCola(p, r)
      BY <1>1 DEF Perdido, EnCola
    <3>3. ~Perdido(p)
      BY <1>3, <2>4 DEF Perdido
    <3>4. QED
      BY <1>3, <2>1, <2>4, <3>1, <3>2, <3>3
  <2>5. QED
    BY <1>1, <2>2, <2>3, <2>4, MismosActivos DEF EnRegla
<1>14. Vistas' = Vistas
  <2>1. \A p \in Procesos : ~Vista(p)' /\ (Vista(p) <=> p \in EnLista)
    BY <1>1, <1>2 DEF Vista, Creado
  <2>2. QED
    BY <1>1, <1>7, <2>1, MismasVistas DEF EnRegla
<1>15. Repite' = Repite
  BY <1>1, <1>11 DEF Repite
<1>16. QED
  BY <1>1, <1>8, <1>9, <1>10, <1>12, <1>13, <1>14, <1>15, EsTartamudeo DEF InvVigente

-----------------------------------------------------------------------------
(* Memory attends the request of the exchange that there is,               *)
LEMMA Atendidos ==
  ASSUME EnRegla
  PROVE  /\ AtiendeCrearPcb => EnTabla
         /\ AtiendeCrear \/ AtiendeSinHueco => EnCrear
         /\ AtiendeCompactacion => EnCompacta
         /\ AtiendeBorrar => EnBorrar
<1>1. \A op : Atiende(op) => aMemoria # <<>> /\ Head(aMemoria).op = op
  BY DEF Atiende
<1>2. aMemoria # <<>> => EnCrear \/ EnCompacta \/ EnBorrar \/ EnTabla
  BY QuePedidoHay DEF EnRegla, EnTrabado
<1>3. /\ EnCrear => Head(aMemoria).op = "CREATE_SEGMENT"
      /\ EnCompacta => Head(aMemoria).op = "COMPACTACION"
      /\ EnBorrar => Head(aMemoria).op = "DELETE_SEGMENT"
      /\ EnTabla => Head(aMemoria).op = "AUX_CREATE_PCB"
  BY QuePide DEF EnCrear, EnCompacta, EnBorrar
<1>4. QED
  BY <1>1, <1>2, <1>3, PasosDeAtencion DEF Atencion

(* which is the only one, while the kernel waits.                          *)
LEMMA Espera ==
  ASSUME EnRegla, AtencionKernel
  PROVE  /\ ~Contestado /\ Contestado' /\ UNCHANGED <<tablaPcb, operacion, fase, indefinido>>
         /\ Mano' = Mano /\ EnLista' = EnLista /\ EsperanRecurso' = EsperanRecurso
         /\ MismosPerdidos /\ Hecho' = Hecho
         /\ UNCHANGED <<pcDesalojo, pcbDesalojo, reintento, pcLargo, pcbLargo, estado>>
         /\ \A p : ~Vista(p) /\ ~PorCaer(p)
<1>1. PICK op : Atencion(op)
  BY PasosDeAtencion DEF AtencionKernel
<1>2. aMemoria # <<>> /\ Tail(aMemoria) = <<>>
  <2>1. aMemoria # <<>>
    BY <1>1 DEF Atencion, Atiende
  <2>2. EnCrear \/ EnCompacta \/ EnBorrar \/ EnTabla
    BY <2>1, QuePedidoHay DEF EnRegla, EnTrabado
  <2>3. QED
    BY <2>1, <2>2, QuePide DEF EnCrear, EnCompacta, EnBorrar
<1>3. ~Contestado /\ Contestado' /\ UNCHANGED <<tablaPcb, operacion, fase, indefinido>>
  BY <1>1, <1>2 DEF Atencion, Atiende, Contestado, delKernel
<1>4. UNCHANGED vars
  BY <1>1 DEF Atencion
<1>5. QED
  BY <1>3, <1>4, NucleoQuieto DEF Vista, PorCaer

(* What the request of the eviction thread says.                           *)
LEMMA PedidoDice ==
  ASSUME EnCrear \/ EnCompacta \/ EnBorrar
  PROVE  /\ Head(aMemoria).proceso = pcbDesalojo /\ Head(aMemoria).id = operacion.id
         /\ Head(aMemoria).tamanio = operacion.tamanio
         /\ Head(aMemoria).tabla = tablaPcb[pcbDesalojo]
<1>1. PICK op : Pedida(op)
  BY DEF EnCrear, EnCompacta, EnBorrar
<1>2. Head(aMemoria) = Pedido(op, pcbDesalojo)
  BY <1>1, QuePide
<1>3. QED
  BY <1>2 DEF Pedido

(* The answer, in a socket that was empty.                                 *)
LEMMA QueContesta ==
  ASSUME aKernel = <<>>
  PROVE  \A a, b : Contesta(<<a, b>>) => /\ aKernel' = <<a, b>> /\ aKernel'[1] = a
                                         /\ aKernel'[2] = b
<1> TAKE a, b
<1>1. QED
  BY UneDos DEF Contesta

(* The table of a new process.                                             *)
LEMMA AtiendeCrearPcbBien ==
  ASSUME EnRegla, InvSocket', InvNucleo', AtiendeCrearPcb
  PROVE  InvVigente' /\ [Mem!Next]_(Mem!vars)
<1> DEFINE T == Mem!TablaInicial
<1> HIDE DEF T
<1>1. /\ ~Contestado /\ Contestado' /\ UNCHANGED <<tablaPcb, operacion, fase>>
      /\ MismosPerdidos /\ Hecho' = Hecho
      /\ UNCHANGED <<pcDesalojo, pcbDesalojo, reintento, pcLargo, pcbLargo, estado>>
      /\ \A p : ~Vista(p) /\ ~PorCaer(p)
  BY Espera DEF AtencionKernel
<1>2. EnTabla
  BY Atendidos
<1>3. pcLargo = "create_pcb" /\ ~Pidiendo /\ aKernel = <<>>
  BY <1>2, UnoPide DEF EnTabla, EnRegla, InvSocket, Mutex, Sobra
<1>4. pcbLargo \in Procesos /\ estado[pcbLargo] = "NEW"
  BY <1>3, PorAdmitir
<1>5. /\ tablas' = [tablas EXCEPT ![pcbLargo] = T]
      /\ Contesta(<<Palabra("AUX_CREATE_PCB"), Buffer(T)>>)
      /\ UNCHANGED <<huecos, agotada, atrasados, averias, pedidos, compactaciones>>
  BY <1>2, QuePide DEF AtiendeCrearPcb, historia, T
<1>6. aKernel'[2].tabla = T
  BY <1>3, <1>5, QueContesta, Tipos1
<1>7. T \in Tabla /\ T # <<>> /\ tablas \in [Procesos -> MP!Tablas] /\ MP!Tablas = Tabla \union {<<>>}
  BY TablaBien DEF T, EnRegla, InvVigente, TipoDatos
<1>8. tablas[pcbLargo] = <<>> /\ tablaPcb[pcbLargo] = <<>>
  <2>1. tablas[pcbLargo] = <<>>
    BY <1>1, <1>3 DEF EnRegla, InvVigente, TablaDeCabeza
  <2>2. QED
    BY <1>4, <2>1 DEF EnRegla, InvVigente, TablasDadas
<1>9. TipoDatos' /\ TipoOperacion'
  BY <1>1, <1>5, <1>7 DEF EnRegla, InvVigente, TipoDatos, TipoOperacion
<1>10. TablasDadas' /\ TablaDeCabeza'
  BY <1>1, <1>3, <1>4, <1>5, <1>7 DEF EnRegla, InvVigente, TablasDadas, TablaDeCabeza,
     ConTablas, EnAlta, Dentro
<1>11. Traido' /\ FaltaHueco' /\ CreadoBien' /\ Ordenado'
  <2>1. tablas'[pcbLargo] = T
    BY <1>4, <1>5, <1>7
  <2>2. Traido'
    BY <1>1, <1>3, <1>6, <2>1 DEF Traido, Pidiendo, Creado
  <2>3. QED
    BY <1>1, <1>3, <2>2 DEF EnRegla, InvVigente, FaltaHueco, CreadoBien, Creado, Llena, Ordenado,
       Pidiendo
<1>12. (PorContar' <=> PorContar) /\ (EnReintento' <=> EnReintento)
  BY <1>1, <1>3 DEF PorContar, EnReintento, Pidiendo
<1>13. Cuentas'
  BY <1>1, <1>5, <1>12 DEF EnRegla, InvVigente, Cuentas, Uno
<1>14. Activos' = Activos \union {pcbLargo}
  <2>1. ActivosBien /\ ActivosBien'
    BY Ahora, Despues DEF EnRegla
  <2>2. \A p \in Procesos : (Perdido(p)' <=> Perdido(p)) /\ ~PorCaer(p)'
    BY <1>1, <1>3 DEF MismosPerdidos, PorCaer, Pidiendo
  <2>3. ~Perdido(pcbLargo)
    BY <1>4 DEF Perdido
  <2>4. \A p \in Procesos : tablas'[p] = IF p = pcbLargo THEN T ELSE tablas[p]
    BY <1>5, <1>7
  <2>5. QED
    BY <1>1, <1>4, <1>7, <2>1, <2>2, <2>3, <2>4 DEF ActivosBien
<1>15. Vistas' = [Vistas EXCEPT ![pcbLargo] = T]
  <2>1. VistaBien /\ VistaBien'
    BY Ahora, Despues DEF EnRegla
  <2>2. \A p \in Procesos : Vista(p)' <=> p = pcbLargo
    BY <1>1, <1>3 DEF Vista, Pidiendo, Creado
  <2>3. \A p \in Procesos : TablaVista(p)' = IF p = pcbLargo THEN T ELSE TablaVista(p)
    BY <1>1, <1>4, <1>5, <1>7, <2>1, <2>2 DEF VistaBien
  <2>4. QED
    BY <2>3 DEF Vistas
<1>16. Repite' = Repite
  BY <1>1, <1>12 DEF Repite
<1>17. Mem!CrearPCB(pcbLargo)
  BY <1>4, <1>5, <1>8, <1>14, <1>15, <1>16, EsCrearPCB DEF T
<1>18. QED
  BY <1>4, <1>9, <1>10, <1>11, <1>13, <1>17 DEF InvVigente, Mem!Next

(* The request of an instruction is one that is still to be counted, and   *)
(* within the bounds.                                                      *)
LEMMA PedidoCuenta ==
  ASSUME EnRegla, PorContar
  PROVE  /\ pedidos \in Nat /\ compactaciones \in Nat
         /\ pedidos + 1 <= Cardinality(Hecho) /\ pedidos < MaxPedidos
         /\ compactaciones + Uno(EnReintento) <= 2 * pedidos
         /\ compactaciones + 1 < MaxCompactaciones
<1>1. PICK h \in Nat : h = Cardinality(Hecho) /\ h <= MaxPedidos
  BY HechoAcotado
<1>2. pedidos \in Nat /\ compactaciones \in Nat /\ pedidos + 1 <= h
      /\ compactaciones + Uno(EnReintento) <= 2 * pedidos
  BY <1>1 DEF EnRegla, InvVigente, Cuentas, Uno
<1>3. Uno(EnReintento) \in {0, 1}
  BY DEF Uno
<1>4. QED
  BY <1>1, <1>2, <1>3, SistemaOK

(* The CREATE_SEGMENT in progress is a request of Memoria.                 *)
LEMMA CrearCuenta ==
  ASSUME EnRegla, pcDesalojo = "create_segment", ~Contestado,
         pedidos' = IF reintento THEN pedidos ELSE pedidos + 1
  PROVE  Cuenta
<1>1. pcbDesalojo \in Activos
  BY Llamador DEF EsperaMemoria, PorCaer
<1>2. CASE EnReintento
  <2>1. reintento
    BY <1>2 DEF EnReintento
  <2>2. QED
    BY <1>1, <1>2, <2>1 DEF Cuenta
<1>3. CASE ~EnReintento
  <2>1. ~reintento /\ PorContar
    BY <1>3 DEF EnReintento, PorContar
  <2>2. ProgramasOrdenados => Vistas[pcbDesalojo][operacion.id].base = Nulo
    <3>1. TablaVista(pcbDesalojo) = tablaPcb[pcbDesalojo] /\ pcbDesalojo \in Procesos
      BY Llamador, Ahora DEF EnRegla, VistaBien, Vista, EsperaMemoria
    <3>2. QED
      BY <2>1, <3>1 DEF EnRegla, InvVigente, Ordenado, Vistas
  <2>3. QED
    BY <1>1, <1>3, <2>1, <2>2, PedidoCuenta DEF Cuenta
<1>4. QED
  BY <1>2, <1>3

(* The copy of the kernel is the one that came in the request.             *)
LEMMA VistaDelPedido ==
  ASSUME EnRegla, pcDesalojo \in EsperaMemoria, ~Contestado
  PROVE  Vistas[pcbDesalojo] = tablaPcb[pcbDesalojo] /\ pcbDesalojo \in Activos
         /\ DOMAIN Vistas = Procesos
<1>1. TablaVista(pcbDesalojo) = tablaPcb[pcbDesalojo] /\ pcbDesalojo \in Procesos
  BY Llamador, Ahora DEF EnRegla, VistaBien, Vista
<1>2. QED
  BY <1>1, Llamador DEF Vistas, PorCaer

(* There is no hole for a CREATE_SEGMENT: memory is to be compacted or ran *)
(* out.                                                                    *)
LEMMA AtiendeSinHuecoBien ==
  ASSUME EnRegla, InvSocket', InvNucleo', AtiendeSinHueco
  PROVE  (agotada' \/ InvVigente') /\ [Mem!Next]_(Mem!vars)
<1>1. /\ ~Contestado /\ Contestado' /\ UNCHANGED <<tablaPcb, operacion, fase>>
      /\ MismosPerdidos /\ Hecho' = Hecho
      /\ UNCHANGED <<pcDesalojo, pcbDesalojo, reintento, pcLargo, pcbLargo, estado>>
      /\ \A p : ~Vista(p) /\ ~PorCaer(p)
  BY Espera DEF AtencionKernel
<1>2. EnCrear
  BY Atendidos
<1>3. pcDesalojo = "create_segment" /\ fase = "crea" /\ aKernel = <<>> /\ pcLargo # "create_pcb"
  BY <1>2, UnoPide DEF EnCrear, EnRegla, Sobra, Pidiendo
<1>4. /\ UNCHANGED <<huecos, tablas, atrasados, averias, compactaciones>>
      /\ HuecoElegido(huecos, operacion.tamanio) = 0
  BY <1>2, PedidoDice DEF AtiendeSinHueco, memoria
<1>5. ASSUME aKernel'[1].tipo # "AUX_OK" PROVE Vistas' = Vistas
  <2>1. \A p \in Procesos : ~Vista(p)'
    BY <1>1, <1>3, <1>5 DEF Vista, Creado
  <2>2. QED
    BY <1>1, <1>4, <2>1, MismasVistas DEF EnRegla
<1>6. \A p \in Procesos : Perdido(p)' <=> Perdido(p)
  BY <1>1 DEF MismosPerdidos
<1>7. CASE AlcanzaCompactando(huecos, operacion.tamanio)
  <2>1. /\ Contesta(<<Palabra("COMPACTACION"), Palabra("0")>>)
        /\ UNCHANGED <<agotada, pedidos>>
    BY <1>2, <1>7, PedidoDice DEF AtiendeSinHueco
  <2>2. aKernel'[1].tipo = "COMPACTACION"
    BY <1>3, <2>1, QueContesta, Tipos1
  <2>3. TipoDatos' /\ TipoOperacion' /\ TablasDadas' /\ TablaDeCabeza'
    BY <1>1, <1>3, <1>4 DEF EnRegla, InvVigente, TipoDatos, TipoOperacion, TablasDadas,
       TablaDeCabeza, ConTablas, EnAlta
  <2>4. Traido' /\ Ordenado' /\ FaltaHueco' /\ CreadoBien'
    BY <1>1, <1>3, <1>4, <1>7, <2>2 DEF EnRegla, InvVigente, Traido, Ordenado, FaltaHueco,
       CreadoBien, Creado, Llena
  <2>5. (PorContar' <=> PorContar) /\ (EnReintento' <=> EnReintento)
    BY <1>1, <1>3, <2>2 DEF PorContar, EnReintento
  <2>6. Cuentas'
    BY <1>1, <1>4, <2>1, <2>5 DEF EnRegla, InvVigente, Cuentas, Uno
  <2>7. Activos' = Activos
    <3>1. \A p \in Procesos : ~PorCaer(p)'
      BY <1>1, <1>3, <2>2 DEF PorCaer
    <3>2. QED
      BY <1>1, <1>4, <1>6, <3>1, MismosActivos DEF EnRegla
  <2>8. Repite' = Repite
    BY <1>1, <2>5 DEF Repite
  <2>9. UNCHANGED Mem!vars
    BY <1>4, <1>5, <2>1, <2>2, <2>7, <2>8, EsTartamudeo
  <2>10. QED
    BY <2>3, <2>4, <2>6, <2>9 DEF InvVigente
<1>8. CASE ~AlcanzaCompactando(huecos, operacion.tamanio)
  <2>1. /\ Contesta(<<Palabra("OUT_OF_MEMORY"), Palabra("0")>>)
        /\ agotada' /\ pedidos' = IF reintento THEN pedidos ELSE pedidos + 1
    BY <1>2, <1>8, PedidoDice DEF AtiendeSinHueco
  <2>2. aKernel'[1].tipo = "OUT_OF_MEMORY"
    BY <1>3, <2>1, QueContesta, Tipos1
  <2>3. Cuenta
    BY <1>1, <1>3, <2>1, CrearCuenta
  <2>4. Activos' = Activos \ {pcbDesalojo}
    <3>1. ActivosBien /\ ActivosBien'
      BY Ahora, Despues DEF EnRegla
    <3>2. \A p \in Procesos : PorCaer(p)' <=> p = pcbDesalojo
      BY <1>1, <1>3, <2>2 DEF PorCaer
    <3>3. QED
      BY <1>1, <1>4, <1>6, <3>1, <3>2 DEF ActivosBien
  <2>5. ~EnReintento'
    BY <1>1, <1>3, <2>2 DEF EnReintento
  <2>6. Mem!SinMemoria(pcbDesalojo, operacion.id, operacion.tamanio)
    BY <1>4, <1>5, <1>8, <2>2, <2>3, <2>4, <2>5, EsSinMemoria
  <2>7. pcbDesalojo \in Procesos /\ operacion.id \in Ids /\ operacion.tamanio \in Tamanios
    BY <1>3, Llamador DEF EnRegla, InvVigente, TipoOperacion, EsperaMemoria
  <2>8. QED
    BY <2>1, <2>6, <2>7 DEF Mem!Next
<1>9. QED
  BY <1>7, <1>8

(* The hole that is chosen is long enough, and the list of holes and the   *)
(* table are such with the segment in them.                                *)
LEMMA CreadoTipo ==
  ASSUME huecos \in MP!Listas, NEW t \in Nat, NEW i, i = HuecoElegido(huecos, t), i > 0
  PROVE  Ocupar(huecos, i, t) \in MP!Listas /\ huecos[i].base \in Nat
<1>1. MP!HuecoElegido(huecos, t) = i
  BY MismoElegido
<1>2. MP!HuecoElegido(huecos, t) \in Nat
      /\ (MP!HuecoElegido(huecos, t) # 0 =>
            MP!HuecoElegido(huecos, t) \in
              {k \in 1..Len(huecos) : huecos[k].libre /\ huecos[k].tamanio >= t})
  BY SupuestosDeMemoria, MP!ElegidoBien
<1>3. i \in 1..Len(huecos) /\ huecos[i].tamanio >= t
  BY <1>1, <1>2
<1>4. MP!Ocupar(huecos, i, t) \in MP!Listas
  BY <1>3, SupuestosDeMemoria, MP!OcuparTipo
<1>5. huecos \in Seq([base : Nat, tamanio : Nat, libre : BOOLEAN])
  BY DEF MP!Listas
<1>6. huecos[i] \in [base : Nat, tamanio : Nat, libre : BOOLEAN]
  BY <1>3, <1>5, ElementOfSeq
<1>7. QED
  BY <1>4, <1>6, MismoOcupar

(* There is a hole.                                                        *)
LEMMA AtiendeCrearBien ==
  ASSUME EnRegla, InvSocket', InvNucleo', AtiendeCrear
  PROVE  InvVigente' /\ [Mem!Next]_(Mem!vars)
<1>1. /\ ~Contestado /\ Contestado' /\ UNCHANGED <<tablaPcb, operacion, fase>>
      /\ MismosPerdidos /\ Hecho' = Hecho
      /\ UNCHANGED <<pcDesalojo, pcbDesalojo, reintento, pcLargo, pcbLargo, estado>>
      /\ \A p : ~Vista(p) /\ ~PorCaer(p)
  BY Espera DEF AtencionKernel
<1>2. EnCrear
  BY Atendidos
<1>3. pcDesalojo = "create_segment" /\ fase = "crea" /\ aKernel = <<>> /\ pcLargo # "create_pcb"
  BY <1>2, UnoPide DEF EnCrear, EnRegla, Sobra, Pidiendo
<1>4. /\ pcbDesalojo \in Procesos /\ tablaPcb[pcbDesalojo] \in Tabla /\ ~EnAlta(pcbDesalojo)
      /\ tablas[pcbDesalojo] \in Tabla /\ operacion.id \in Ids /\ operacion.id \in MP!Indices
      /\ tablas[pcbDesalojo] # <<>>
  BY <1>3, Llamador DEF EsperaMemoria
<1>5. operacion.tamanio \in Tamanios /\ operacion.tamanio \in Nat
  BY <1>3, SistemaOK DEF EnRegla, InvVigente, TipoOperacion
<1>6. /\ Vistas[pcbDesalojo] = tablaPcb[pcbDesalojo] /\ pcbDesalojo \in Activos
      /\ DOMAIN Vistas = Procesos
  BY <1>1, <1>3, VistaDelPedido DEF EsperaMemoria
<1>7. PICK i : i = HuecoElegido(huecos, operacion.tamanio)
  OBVIOUS
<1>8. PICK b : b = huecos[i].base
  OBVIOUS
<1>9. PICK tabla : tabla = [tablaPcb[pcbDesalojo] EXCEPT ![operacion.id] =
                              Mem!Segmento(b, operacion.tamanio)]
  OBVIOUS
<1>10. /\ i > 0 /\ huecos' = Ocupar(huecos, i, operacion.tamanio)
       /\ tablas' = [tablas EXCEPT ![pcbDesalojo] = tabla]
       /\ Contesta(<<Palabra("AUX_OK"), Buffer(tabla)>>)
       /\ atrasados' = atrasados \ {pcbDesalojo}
       /\ averias' = averias \union Mem!AlCrear(tablaPcb[pcbDesalojo], tablas[pcbDesalojo],
                                                operacion.id, huecos')
       /\ pedidos' = IF reintento THEN pedidos ELSE pedidos + 1
       /\ UNCHANGED <<agotada, compactaciones>>
  BY <1>2, <1>7, <1>8, <1>9, PedidoDice DEF AtiendeCrear
<1>11. huecos' \in MP!Listas /\ b \in Nat
  BY <1>5, <1>7, <1>8, <1>10, CreadoTipo DEF EnRegla, InvVigente, TipoDatos
<1>12. tabla \in Tabla /\ tabla # <<>>
  <2>1. PICK t \in Tabla, s \in Nat, a \in Nat \union {Nulo} :
          t = tablaPcb[pcbDesalojo] /\ s = operacion.tamanio /\ a = b
    BY <1>4, <1>5, <1>11
  <2>2. PICK k : k = operacion.id
    OBVIOUS
  <2>3. [t EXCEPT ![k] = Mem!Segmento(a, s)] \in Tabla
    BY TablaBien
  <2>4. tabla \in Tabla
    BY <1>9, <2>1, <2>2, <2>3
  <2>5. QED
    BY <2>4, TablaBien
<1>13. aKernel'[1].tipo = "AUX_OK" /\ aKernel'[2].tabla = tabla
  BY <1>3, <1>10, QueContesta, Tipos1
<1>14. tablas \in [Procesos -> MP!Tablas] /\ tabla \in MP!Tablas
  BY <1>12, TablaBien DEF EnRegla, InvVigente, TipoDatos
<1>15. \A p \in Procesos : tablas'[p] = IF p = pcbDesalojo THEN tabla ELSE tablas[p]
  BY <1>4, <1>10, <1>14
<1>16. TipoDatos' /\ TipoOperacion'
  BY <1>1, <1>10, <1>11, <1>14 DEF EnRegla, InvVigente, TipoDatos, TipoOperacion
<1>17. TablasDadas' /\ TablaDeCabeza'
  <2>1. \A p \in Procesos : tablas'[p] = <<>> <=> tablas[p] = <<>>
    BY <1>4, <1>12, <1>15
  <2>2. pcLargo = "grado" => pcbLargo \in Procesos
    BY PorAdmitir
  <2>3. QED
    BY <1>1, <1>3, <2>1, <2>2 DEF EnRegla, InvVigente, TablasDadas, TablaDeCabeza, ConTablas,
       EnAlta
<1>18. Traido' /\ FaltaHueco' /\ Ordenado'
  BY <1>1, <1>3, <1>4, <1>13, <1>15 DEF EnRegla, InvVigente, Traido, FaltaHueco, Ordenado, Llena
<1>19. CreadoBien'
  <2>1. tabla[operacion.id] = Mem!Segmento(b, operacion.tamanio)
    BY <1>4, <1>9 DEF Tabla
  <2>2. tabla[operacion.id].base = b
    BY <2>1 DEF Mem!Segmento
  <2>3. tablas'[pcbDesalojo] = tabla
    BY <1>4, <1>15
  <2>4. tabla = [tablaPcb[pcbDesalojo] EXCEPT ![operacion.id] =
                   Mem!Segmento(tabla[operacion.id].base, operacion.tamanio)]
    BY <1>9, <2>2
  <2>5. QED
    BY <1>1, <2>3, <2>4 DEF CreadoBien
<1>20. ~EnReintento' /\ ~PorContar' /\ (EnReintento <=> reintento) /\ (PorContar <=> ~reintento)
  BY <1>1, <1>3, <1>13 DEF EnReintento, PorContar
<1>21. Cuentas'
  <2>1. PICK h \in Nat : h = Cardinality(Hecho) /\ h = Cardinality(Hecho)'
    BY <1>1, HechoAcotado
  <2>2. /\ pedidos \in Nat /\ compactaciones \in Nat
        /\ pedidos + Uno(PorContar) <= h /\ compactaciones + Uno(EnReintento) <= 2 * pedidos
    BY <2>1 DEF EnRegla, InvVigente, Cuentas
  <2>3. Uno(PorContar)' = 0 /\ Uno(EnReintento)' = 0
    BY <1>20 DEF Uno
  <2>4. reintento => Uno(PorContar) = 0 /\ Uno(EnReintento) = 1
    BY <1>20 DEF Uno
  <2>5. ~reintento => Uno(PorContar) = 1 /\ Uno(EnReintento) = 0
    BY <1>20 DEF Uno
  <2>6. QED
    BY <1>10, <2>1, <2>2, <2>3, <2>4, <2>5 DEF Cuentas
<1>22. Activos' = Activos
  <2>1. \A p \in Procesos : ~PorCaer(p)' /\ (Perdido(p)' <=> Perdido(p))
    BY <1>1, <1>3, <1>13 DEF PorCaer, MismosPerdidos
  <2>2. QED
    BY <1>1, <1>4, <1>12, <1>15, <2>1, MismosActivos DEF EnRegla
<1>23. Vistas' = [Vistas EXCEPT ![pcbDesalojo] = tabla]
  <2>1. VistaBien /\ VistaBien'
    BY Ahora, Despues DEF EnRegla
  <2>2. \A p \in Procesos : Vista(p)' <=> p = pcbDesalojo
    BY <1>1, <1>3, <1>13 DEF Vista, Creado
  <2>3. \A p \in Procesos : TablaVista(p)' = IF p = pcbDesalojo THEN tabla ELSE TablaVista(p)
    BY <1>1, <1>4, <1>15, <2>1, <2>2 DEF VistaBien
  <2>4. QED
    BY <2>3 DEF Vistas
<1>24. Cuenta
  BY <1>1, <1>3, <1>10, CrearCuenta
<1>25. Mem!CrearSegmento(pcbDesalojo, operacion.id, operacion.tamanio)
  <2>1. tabla = [Vistas[pcbDesalojo] EXCEPT ![operacion.id] =
                   Mem!Segmento(huecos[i].base, operacion.tamanio)]
    BY <1>6, <1>8, <1>9
  <2>2. averias' = averias \union Mem!AlCrear(Vistas[pcbDesalojo], tablas[pcbDesalojo],
                                              operacion.id, huecos')
    BY <1>6, <1>10
  <2>3. QED
    BY <1>7, <1>10, <1>20, <1>22, <1>23, <1>24, <2>1, <2>2, EsCrearSegmento
<1>26. QED
  BY <1>4, <1>5, <1>16, <1>17, <1>18, <1>19, <1>21, <1>25 DEF InvVigente, Mem!Next

(* A segment is deleted.                                                   *)
LEMMA AtiendeBorrarBien ==
  ASSUME EnRegla, InvSocket', InvNucleo', AtiendeBorrar
  PROVE  InvVigente' /\ [Mem!Next]_(Mem!vars)
<1>1. /\ ~Contestado /\ Contestado' /\ UNCHANGED <<tablaPcb, operacion, fase>>
      /\ MismosPerdidos /\ Hecho' = Hecho
      /\ UNCHANGED <<pcDesalojo, pcbDesalojo, reintento, pcLargo, pcbLargo, estado>>
      /\ \A p : ~Vista(p) /\ ~PorCaer(p)
  BY Espera DEF AtencionKernel
<1>2. EnBorrar
  BY Atendidos
<1>3. pcDesalojo = "delete_segment" /\ aKernel = <<>> /\ pcLargo # "create_pcb"
  BY <1>2, UnoPide DEF EnBorrar, EnRegla, Sobra, Pidiendo
<1>4. /\ pcbDesalojo \in Procesos /\ tablaPcb[pcbDesalojo] \in Tabla /\ ~EnAlta(pcbDesalojo)
      /\ tablas[pcbDesalojo] # <<>> /\ operacion.id \in Ids
  BY <1>3, Llamador DEF EsperaMemoria
<1>5. /\ Vistas[pcbDesalojo] = tablaPcb[pcbDesalojo] /\ pcbDesalojo \in Activos
      /\ DOMAIN Vistas = Procesos
  BY <1>1, <1>3, VistaDelPedido DEF EsperaMemoria
<1>6. PICK b : b = tablaPcb[pcbDesalojo][operacion.id].base
  OBVIOUS
<1>7. PICK tabla : tabla = [tablaPcb[pcbDesalojo] EXCEPT ![operacion.id] = Mem!SinSegmento]
  OBVIOUS
<1>8. /\ huecos' = Liberar(huecos, b)
      /\ tablas' = [tablas EXCEPT ![pcbDesalojo] = tabla]
      /\ Contesta(<<Palabra("AUX_OK"), Buffer(tabla)>>)
      /\ atrasados' = atrasados \ {pcbDesalojo}
      /\ averias' = averias \union Mem!AlTraer(tablaPcb[pcbDesalojo], tablas[pcbDesalojo])
      /\ pedidos' = pedidos + 1
      /\ UNCHANGED <<agotada, compactaciones>>
  BY <1>2, <1>6, <1>7, PedidoDice DEF AtiendeBorrar
<1>9. huecos' \in MP!Listas
  <2>1. MP!Liberar(huecos, b) \in MP!Listas
    BY SupuestosDeMemoria, MP!LiberarTipo DEF EnRegla, InvVigente, TipoDatos
  <2>2. QED
    BY <1>8, <2>1, MismoLiberar
<1>10. tabla \in Tabla /\ tabla # <<>>
  BY <1>4, <1>7, TablaBien
<1>11. aKernel'[1].tipo = "AUX_OK" /\ aKernel'[2].tabla = tabla
  BY <1>3, <1>8, QueContesta, Tipos1
<1>12. tablas \in [Procesos -> MP!Tablas] /\ tabla \in MP!Tablas
  BY <1>10, TablaBien DEF EnRegla, InvVigente, TipoDatos
<1>13. \A p \in Procesos : tablas'[p] = IF p = pcbDesalojo THEN tabla ELSE tablas[p]
  BY <1>4, <1>8, <1>12
<1>14. TipoDatos' /\ TipoOperacion'
  BY <1>1, <1>8, <1>9, <1>12 DEF EnRegla, InvVigente, TipoDatos, TipoOperacion
<1>15. TablasDadas' /\ TablaDeCabeza'
  <2>1. \A p \in Procesos : tablas'[p] = <<>> <=> tablas[p] = <<>>
    BY <1>4, <1>10, <1>13
  <2>2. pcLargo = "grado" => pcbLargo \in Procesos
    BY PorAdmitir
  <2>3. QED
    BY <1>1, <1>3, <2>1, <2>2 DEF EnRegla, InvVigente, TablasDadas, TablaDeCabeza, ConTablas,
       EnAlta
<1>16. Traido' /\ FaltaHueco' /\ Ordenado' /\ CreadoBien'
  BY <1>1, <1>3, <1>4, <1>11, <1>13 DEF EnRegla, InvVigente, Traido, FaltaHueco, Ordenado,
     Llena, CreadoBien, Creado
<1>17. ~EnReintento' /\ ~EnReintento /\ ~PorContar' /\ PorContar
  BY <1>1, <1>3 DEF EnReintento, PorContar
<1>18. Cuentas'
  <2>1. PICK h \in Nat : h = Cardinality(Hecho) /\ h = Cardinality(Hecho)'
    BY <1>1, HechoAcotado
  <2>2. /\ pedidos \in Nat /\ compactaciones \in Nat
        /\ pedidos + 1 <= h /\ compactaciones <= 2 * pedidos
    BY <1>17, <2>1 DEF EnRegla, InvVigente, Cuentas, Uno
  <2>3. Uno(PorContar)' = 0 /\ Uno(EnReintento)' = 0
    BY <1>17 DEF Uno
  <2>4. QED
    BY <1>8, <2>1, <2>2, <2>3 DEF Cuentas
<1>19. Activos' = Activos
  <2>1. \A p \in Procesos : ~PorCaer(p)' /\ (Perdido(p)' <=> Perdido(p))
    BY <1>1, <1>3 DEF PorCaer, MismosPerdidos
  <2>2. QED
    BY <1>1, <1>4, <1>10, <1>13, <2>1, MismosActivos DEF EnRegla
<1>20. Vistas' = [Vistas EXCEPT ![pcbDesalojo] = tabla]
  <2>1. VistaBien /\ VistaBien'
    BY Ahora, Despues DEF EnRegla
  <2>2. \A p \in Procesos : Vista(p)' <=> p = pcbDesalojo
    BY <1>1, <1>3 DEF Vista, Creado
  <2>3. \A p \in Procesos : TablaVista(p)' = IF p = pcbDesalojo THEN tabla ELSE TablaVista(p)
    BY <1>1, <1>4, <1>13, <2>1, <2>2 DEF VistaBien
  <2>4. QED
    BY <2>3 DEF Vistas
<1>21. Mem!EliminarSegmento(pcbDesalojo, operacion.id)
  <2>1. /\ b = Vistas[pcbDesalojo][operacion.id].base
        /\ tabla = [Vistas[pcbDesalojo] EXCEPT ![operacion.id] = Mem!SinSegmento]
        /\ averias' = averias \union Mem!AlTraer(Vistas[pcbDesalojo], tablas[pcbDesalojo])
    BY <1>5, <1>6, <1>7, <1>8
  <2>2. ProgramasOrdenados => b # Nulo
    BY <1>3, <1>6 DEF EnRegla, InvVigente, Ordenado
  <2>3. pedidos < MaxPedidos
    BY <1>17, PedidoCuenta
  <2>4. QED
    BY <1>5, <1>8, <1>17, <1>19, <1>20, <2>1, <2>2, <2>3, EsEliminar
<1>22. QED
  BY <1>4, <1>14, <1>15, <1>16, <1>18, <1>21 DEF InvVigente, Mem!Next

(* A compaction gives lists and tables, to the same processes.             *)
LEMMA CompactadoTipo ==
  ASSUME TipoDatos, NEW c, c = Compactar(huecos, tablas)
  PROVE  /\ c.l \in MP!Listas /\ c.tablas \in [Procesos -> MP!Tablas]
         /\ \A p \in Procesos : c.tablas[p] = <<>> <=> tablas[p] = <<>>
<1>1. c = MP!Compactar(huecos, tablas)
  BY MismoCompactar
<1>2. /\ c.l \in MP!Listas /\ c.tablas \in [Procesos -> MP!Tablas]
      /\ \A p \in Procesos : DOMAIN c.tablas[p] = DOMAIN tablas[p]
  BY <1>1, SupuestosDeMemoria, MP!CompactarTipo DEF TipoDatos
<1>3. ASSUME NEW t \in MP!Tablas, NEW u \in MP!Tablas, DOMAIN t = DOMAIN u
      PROVE  t = <<>> <=> u = <<>>
  <2>1. \A x \in Tabla : DOMAIN x = MP!Indices /\ x # <<>>
    BY TablaBien DEF Tabla
  <2>2. \A x : DOMAIN x = MP!Indices => x # <<>>
    BY SupuestosDeMemoria, MP!IndicesNoVacio, MismasTablas
  <2>3. QED
    BY <1>3, <2>1, <2>2, TablaBien
<1>4. \A p \in Procesos : c.tablas[p] \in MP!Tablas /\ tablas[p] \in MP!Tablas
  BY <1>2 DEF TipoDatos
<1>5. QED
  BY <1>2, <1>3, <1>4

(* Memory is compacted for a CREATE_SEGMENT.                               *)
LEMMA AtiendeCompactacionBien ==
  ASSUME EnRegla, InvSocket', InvNucleo', AtiendeCompactacion
  PROVE  InvVigente' /\ [Mem!Next]_(Mem!vars)
<1>1. /\ ~Contestado /\ Contestado' /\ UNCHANGED <<tablaPcb, operacion, fase>>
      /\ MismosPerdidos /\ Hecho' = Hecho /\ EnLista' = EnLista
      /\ UNCHANGED <<pcDesalojo, pcbDesalojo, reintento, pcLargo, pcbLargo, estado>>
      /\ \A p : ~Vista(p) /\ ~PorCaer(p)
  BY Espera DEF AtencionKernel
<1>2. EnCompacta
  BY Atendidos
<1>3. pcDesalojo = "create_segment" /\ fase = "compacta" /\ aKernel = <<Palabra("0")>>
      /\ pcLargo # "create_pcb"
  BY <1>2, UnoPide DEF EnCompacta, Pidiendo
<1>4. /\ pcbDesalojo \in Procesos /\ Mano = {pcbDesalojo} /\ pcbDesalojo \notin EsperanRecurso
      /\ operacion.id \in Ids /\ pcbDesalojo \in Activos
  BY <1>1, <1>3, Llamador DEF EsperaMemoria
<1>5. operacion.tamanio \in Tamanios
  BY <1>3 DEF EnRegla, InvVigente, TipoOperacion
<1>6. PICK c : c = Compactar(huecos, tablas)
  OBVIOUS
<1>7. PICK t : t = c.tablas
  OBVIOUS
<1>8. /\ huecos' = c.l /\ tablas' = t
      /\ Contesta(<<Palabra("AUX_OK"), Buffer(t)>>)
      /\ atrasados' = EsperanRecurso \union {pcbDesalojo}
      /\ averias' = averias \union Mem!AlCompactar(huecos)
      /\ compactaciones' = compactaciones + 1
      /\ pedidos' = IF reintento THEN pedidos ELSE pedidos + 1
      /\ UNCHANGED agotada
  BY <1>2, <1>6, <1>7, PedidoDice DEF AtiendeCompactacion
<1>9. /\ c.l \in MP!Listas /\ t \in [Procesos -> MP!Tablas]
      /\ \A p \in Procesos : t[p] = <<>> <=> tablas[p] = <<>>
  BY <1>6, <1>7, CompactadoTipo DEF EnRegla, InvVigente
<1>10. aKernel'[3].tabla = tablas'
  <2>1. aKernel' = <<Palabra("0"), Palabra("AUX_OK"), Buffer(t)>>
    <3>1. \A z, a, b : aKernel = <<z>> /\ Contesta(<<a, b>>) => aKernel' = <<z, a, b>>
      BY UneTres DEF Contesta
    <3>2. QED
      BY <1>3, <1>8, <3>1
  <2>2. QED
    BY <1>8, <2>1, Tipos1
<1>11. TipoDatos' /\ TipoOperacion'
  BY <1>1, <1>8, <1>9 DEF EnRegla, InvVigente, TipoDatos, TipoOperacion
<1>12. TablasDadas' /\ TablaDeCabeza'
  <2>1. pcLargo = "grado" => pcbLargo \in Procesos
    BY PorAdmitir
  <2>2. QED
    BY <1>1, <1>3, <1>8, <1>9, <2>1 DEF EnRegla, InvVigente, TablasDadas, TablaDeCabeza,
       ConTablas, EnAlta
<1>13. Traido' /\ FaltaHueco' /\ Ordenado' /\ CreadoBien'
  BY <1>1, <1>3, <1>10 DEF EnRegla, InvVigente, Traido, FaltaHueco, Ordenado, Llena,
     CreadoBien, Creado
<1>14. /\ EnReintento <=> reintento
       /\ EnReintento' <=> ~reintento
       /\ PorContar <=> ~reintento
       /\ ~PorContar'
  BY <1>1, <1>3 DEF EnReintento, PorContar
<1>15. Cuentas' /\ compactaciones < MaxCompactaciones
  <2>1. PICK h \in Nat : h = Cardinality(Hecho) /\ h = Cardinality(Hecho)' /\ h <= MaxPedidos
    BY <1>1, HechoAcotado
  <2>2. /\ pedidos \in Nat /\ compactaciones \in Nat
        /\ pedidos + Uno(PorContar) <= h /\ compactaciones + Uno(EnReintento) <= 2 * pedidos
    BY <2>1 DEF EnRegla, InvVigente, Cuentas
  <2>3. CASE reintento
    <3>1. /\ Uno(PorContar) = 0 /\ Uno(EnReintento) = 1
          /\ Uno(PorContar)' = 0 /\ Uno(EnReintento)' = 0
      BY <1>14, <2>3 DEF Uno
    <3>2. QED
      BY <1>8, <2>1, <2>2, <2>3, <3>1, SistemaOK DEF Cuentas
  <2>4. CASE ~reintento
    <3>1. /\ Uno(PorContar) = 1 /\ Uno(EnReintento) = 0
          /\ Uno(PorContar)' = 0 /\ Uno(EnReintento)' = 1
      BY <1>14, <2>4 DEF Uno
    <3>2. QED
      BY <1>8, <2>1, <2>2, <2>4, <3>1, SistemaOK DEF Cuentas
  <2>5. QED
    BY <2>3, <2>4
<1>16. ActivosBien /\ ActivosBien' /\ VistaBien /\ VistaBien' /\ EnListaBien /\ NadieEnCorto
  BY <1>3, Ahora, Despues, CortoVacio DEF EnRegla, EsperaMemoria
<1>17. \A p \in Procesos : /\ Perdido(p)' <=> Perdido(p)
                           /\ PorCaer(p)' <=> reintento /\ p = pcbDesalojo
  BY <1>1, <1>3 DEF PorCaer, MismosPerdidos
<1>18. IF reintento THEN Activos' = Activos \ {pcbDesalojo} ELSE Activos' = Activos
  <2>1. \A p \in Procesos : tablas'[p] = <<>> <=> tablas[p] = <<>>
    BY <1>8, <1>9
  <2>2. ASSUME NEW p \in Procesos
        PROVE  p \in Activos' <=> p \in Activos /\ ~(reintento /\ p = pcbDesalojo)
    BY <1>1, <1>16, <1>17, <2>1 DEF ActivosBien
  <2>3. Activos \subseteq Procesos /\ Activos' \subseteq Procesos
    BY <1>16 DEF ActivosBien
  <2>4. QED
    BY <2>2, <2>3
<1>19. EsperanRecurso \in SUBSET (Activos \ {pcbDesalojo})
  <2>1. ASSUME NEW p \in EsperanRecurso PROVE p \in Activos
    <3>1. p \in Procesos /\ \E r \in Recursos : EnCola(p, r)
      <4>1. \A r \in Recursos : colaRecurso[r] \in Seq(Procesos)
        BY DEF EnRegla, InvNucleo, InvTodoLugar, IInv, TypeOK, TipoRecursos
      <4>2. QED
        BY <2>1, <4>1, RangoDeLista DEF EsperanRecurso, EnCola
    <3>2. estado[p] = "EXEC" /\ ~Perdido(p)
      BY <3>1 DEF EnRegla, InvNucleo, InvTodoLugar, InvLugares, EstadoDeLista, Perdido
    <3>3. tablas[p] # <<>>
      BY <3>1, <3>2 DEF EnRegla, InvVigente, TablasDadas, ConTablas, Dentro
    <3>4. QED
      BY <1>1, <1>16, <3>1, <3>2, <3>3 DEF ActivosBien
  <2>2. QED
    BY <1>4, <2>1
<1>20. Vistas' = [q \in Procesos |-> IF q \in Activos \ (EsperanRecurso \union {pcbDesalojo})
                                     THEN t[q] ELSE Vistas[q]]
  <2>1. \A p \in Procesos : Vista(p)' <=> p \in EnLista
    BY <1>1, <1>3 DEF Vista, Creado
  <2>2. \A p \in Procesos : /\ TablaVista(p)' = IF p \in EnLista THEN t[p] ELSE tablaPcb[p]
                            /\ TablaVista(p) = tablaPcb[p]
    BY <1>1, <1>8, <1>16, <2>1 DEF VistaBien
  <2>3. ASSUME NEW p \in Procesos
        PROVE  TablaVista(p)' = IF p \in Activos \ (EsperanRecurso \union {pcbDesalojo})
                                THEN t[p] ELSE TablaVista(p)
    <3>1. CASE tablas[p] = <<>>
      <4>1. tablaPcb[p] = <<>> /\ t[p] = <<>>
        BY <1>9, <3>1 DEF EnRegla, InvVigente, TablasDadas
      <4>2. QED
        BY <2>2, <4>1
    <3>2. CASE tablas[p] # <<>>
      <4>1. estado[p] \in Dentro \/ p \in Range(nuevos)
        BY <3>2, ConTablaEnLista DEF EnRegla, InvVigente
      <4>2. p \in EnLista <=> p \in Activos \ (EsperanRecurso \union {pcbDesalojo})
        BY <1>1, <1>4, <1>16, <3>2, <4>1 DEF EnListaBien, ActivosBien, NadieEnCorto
      <4>3. QED
        BY <2>2, <4>2
    <3>3. QED
      BY <3>1, <3>2
  <2>4. QED
    BY <2>3 DEF Vistas
<1>21. Cuenta
  BY <1>1, <1>3, <1>8, CrearCuenta
<1>22. HuecoElegido(huecos, operacion.tamanio) = 0
       /\ AlcanzaCompactando(huecos, operacion.tamanio)
  BY <1>1, <1>3 DEF EnRegla, InvVigente, FaltaHueco, Llena
<1>23. IF EnReintento THEN ~EnReintento' /\ Activos' = Activos \ {pcbDesalojo}
                      ELSE /\ EnReintento' /\ Activos' = Activos
                           /\ UNCHANGED <<operacion, pcbDesalojo>>
  BY <1>1, <1>14, <1>18
<1>24. Mem!CompactarPara(pcbDesalojo, operacion.id, operacion.tamanio)
  <2>1. tablas' = [q \in Procesos |-> c.tablas[q]]
    BY <1>7, <1>8, <1>9
  <2>2. Vistas' = [q \in Procesos |-> IF q \in Activos \ (EsperanRecurso \union {pcbDesalojo})
                                      THEN c.tablas[q] ELSE Vistas[q]]
    BY <1>7, <1>20
  <2>3. QED
    BY <1>6, <1>8, <1>15, <1>19, <1>21, <1>22, <1>23, <2>1, <2>2, EsCompactar
<1>25. QED
  BY <1>4, <1>5, <1>11, <1>12, <1>13, <1>15, <1>24 DEF InvVigente, Mem!Next

-----------------------------------------------------------------------------
(* The whole system, until memory answers OUT_OF_MEMORY. Each step is one  *)
(* of the kernel or leaves it as it was.                                   *)
LEMMA EsDelKernel ==
  /\ PideTabla \/ RecibeTabla => Next
  /\ PideOperacion \/ EnviaOperacion \/ RecibeBase \/ RecibeTablas
       \/ RecibeTablaSinSegmento => Next
  /\ OrdenaCompactar \/ AtencionKernel => UNCHANGED vars
<1>1. PideTabla \/ RecibeTabla => Next
  BY DEF PideTabla, RecibeTabla, LargoPlazo, Next
<1>2. PideOperacion \/ EnviaOperacion \/ RecibeBase \/ RecibeTablas
        \/ RecibeTablaSinSegmento => Next
  BY DEF PideOperacion, EnviaOperacion, RecibeBase, RecibeTablas, RecibeTablaSinSegmento,
     ManejoInstrucciones, Desalojo, Next
<1>3. OrdenaCompactar => UNCHANGED vars
  BY DEF OrdenaCompactar
<1>4. AtencionKernel => UNCHANGED vars
  BY PasosDeAtencion DEF AtencionKernel, Atencion
<1>5. QED
  BY <1>1, <1>2, <1>3, <1>4

(* The eviction thread never finds the answers that the code does not      *)
(* expect.                                                                 *)
LEMMA RespuestaEsperada ==
  ASSUME EnRegla
  PROVE  ~RecibeSinMemoria /\ ~LeeOtraCosa /\ ~BorrarSinRespuesta
<1>1. ASSUME pcDesalojo = "create_segment", fase = "crea", Contestado
      PROVE  aKernel[1].tipo \in {"AUX_OK", "COMPACTACION"}
  BY <1>1, LoQueLee, Tipos1 DEF EnRegla
<1>2. ~RecibeSinMemoria
  BY <1>1 DEF RecibeSinMemoria, Lee, CreateSegmentSinMemoria, Responde
<1>3. ~LeeOtraCosa
  BY <1>1 DEF LeeOtraCosa, Respuestas
<1>4. ~BorrarSinRespuesta
  BY LoQueLeeAlBorrar, Tipos1 DEF EnRegla, BorrarSinRespuesta
<1>5. QED
  BY <1>2, <1>3, <1>4

(* The socket and the kernel after a step.                                 *)
LEMMA SigueElNucleo ==
  ASSUME EnRegla, NextSistema
  PROVE  [Next]_vars /\ InvSocket' /\ InvNucleo'
<1>1. PasoAjeno \/ PideTabla \/ RecibeTabla \/ DelDesalojo \/ AtencionKernel
  BY PasosDelSistema
<1>2. ~indefinido
  BY PasosDelSistema
<1>3. RecibeTabla => ~indefinido'
  BY <1>2, RecibeBien DEF EnRegla
<1>4. PideTabla => ~indefinido'
  BY <1>2 DEF PideTabla, delKernel
<1>5. InvSocket'
  BY <1>1, <1>3, <1>4, SocketAjeno, SocketLargo, SocketDesalojo, SocketMemoria DEF EnRegla
<1>6. [Next]_vars
  BY <1>1, AjenoAparte, EsDelKernel, RespuestaEsperada DEF DelDesalojo
<1>7. QED
  BY <1>5, <1>6, NucleoPasos DEF EnRegla

(* The rest too, and Memoria takes a step or none.                         *)
LEMMA SigueLaMemoria ==
  ASSUME EnRegla, NextSistema
  PROVE  (agotada' \/ EnRegla') /\ [Mem!Next]_(Mem!vars)
<1>1. InvSocket' /\ InvNucleo'
  BY SigueElNucleo
<1>2. CASE PasoAjeno
  <2>1. AjenoEs
    BY <1>2, AjenoBien DEF EnRegla
  <2>2. InvVigente'
    BY <2>1, AjenoVigente DEF EnRegla
  <2>3. [Mem!Next]_(Mem!vars)
    BY <1>1, <2>1, <2>2, AjenoImplementa DEF EnRegla, InvVigente
  <2>4. QED
    BY <1>1, <2>2, <2>3 DEF EnRegla
<1>3. CASE PideTabla \/ RecibeTabla
  BY <1>1, <1>3, PideTablaBien, RecibeTablaBien DEF EnRegla
<1>4. CASE DelDesalojo
  <2>1. InvVigente' /\ UNCHANGED Mem!vars
    BY <1>1, <1>4, RespuestaEsperada, PideOperacionBien, EnviaOperacionBien, RecibeBaseBien,
       OrdenaCompactarBien, RecibeTablasBien, RecibeTablaSinSegmentoBien DEF DelDesalojo
  <2>2. QED
    BY <1>1, <2>1 DEF EnRegla
<1>5. CASE AtencionKernel
  <2>1. (agotada' \/ InvVigente') /\ [Mem!Next]_(Mem!vars)
    BY <1>1, <1>5, AtiendeCrearPcbBien, AtiendeCrearBien, AtiendeSinHuecoBien,
       AtiendeCompactacionBien, AtiendeBorrarBien DEF AtencionKernel
  <2>2. QED
    BY <1>1, <2>1 DEF EnRegla
<1>6. QED
  BY <1>2, <1>3, <1>4, <1>5, PasosDelSistema

(* A step that changes nothing.                                            *)
LEMMA NadaCambia ==
  ASSUME EnRegla, UNCHANGED varsSistema, InvSocket'
  PROVE  EnRegla' /\ UNCHANGED Mem!vars
<1> USE DEF varsSistema, memoria, delKernel, conexion, historia
<1>1. InvNucleo'
  BY NucleoPasos DEF EnRegla
<1>2. /\ Hecho' = Hecho /\ MismosPerdidos /\ EnLista' = EnLista
      /\ UNCHANGED <<pcDesalojo, pcbDesalojo, reintento, pcLargo, pcbLargo, estado>>
  BY NucleoQuieto
<1>3. UNCHANGED <<huecos, tablas, tablaPcb, operacion, fase, aMemoria, aKernel, agotada,
                  atrasados, averias, pedidos, compactaciones>>
  OBVIOUS
<1>4. /\ Contestado' = Contestado /\ (EnReintento' <=> EnReintento)
      /\ (PorContar' <=> PorContar) /\ (Creado' <=> Creado) /\ (Llena' <=> Llena)
  BY <1>2, <1>3 DEF Contestado, EnReintento, PorContar, Creado, Llena
<1>5. TipoDatos' /\ TipoOperacion' /\ TablasDadas' /\ TablaDeCabeza'
  BY <1>2, <1>3, <1>4 DEF EnRegla, InvVigente, TipoDatos, TipoOperacion, TablasDadas,
     TablaDeCabeza, ConTablas, EnAlta
<1>6. Traido' /\ Ordenado' /\ FaltaHueco' /\ CreadoBien'
  BY <1>2, <1>3, <1>4 DEF EnRegla, InvVigente, Traido, Ordenado, FaltaHueco, CreadoBien
<1>7. Cuentas'
  BY <1>2, <1>3, <1>4 DEF EnRegla, InvVigente, Cuentas, Uno
<1>8. Activos' = Activos
  <2>1. \A p \in Procesos : (Perdido(p)' <=> Perdido(p)) /\ (PorCaer(p)' <=> PorCaer(p))
    BY <1>2, <1>3, <1>4 DEF MismosPerdidos, PorCaer
  <2>2. QED
    BY <1>1, <1>2, <1>3, <2>1, MismosActivos DEF EnRegla
<1>9. Vistas' = Vistas
  <2>1. \A p \in Procesos : Vista(p)' <=> Vista(p)
    BY <1>2, <1>3, <1>4 DEF Vista
  <2>2. QED
    BY <1>3, <2>1, MismasVistas DEF EnRegla
<1>10. Repite' = Repite
  BY <1>2, <1>3, <1>4 DEF Repite
<1>11. QED
  BY <1>1, <1>3, <1>5, <1>6, <1>7, <1>8, <1>9, <1>10, EsTartamudeo DEF EnRegla, InvVigente

(* Memory runs out once and for all.                                       *)
LEMMA AgotadaQueda == agotada /\ [NextSistema]_varsSistema => agotada'
<1> USE DEF varsSistema, memoria, delKernel, conexion, historia
<1>1. NextSistema => UNCHANGED agotada \/ AtencionKernel
  BY PasosDelSistema
  DEF PasoAjeno, SinMemoria, PideTabla, RecibeTabla, DelDesalojo, PideOperacion,
      EnviaOperacion, RecibeBase, OrdenaCompactar, RecibeTablas, RecibeSinMemoria,
      LeeOtraCosa, RecibeTablaSinSegmento, BorrarSinRespuesta
<1>2. agotada /\ AtencionKernel => agotada'
  BY PasosDeAtencion DEF AtencionKernel, Atencion
<1>3. QED
  BY <1>1, <1>2

-----------------------------------------------------------------------------
(* The invariant of the two programs together.                             *)
InvSistema == SocketSano /\ (~agotada => EnRegla)

(* It holds at the start, where they are in the initial state of Memoria.  *)
LEMMA InicioSistema == InitSistema => InvSistema /\ Mem!Init
<1> SUFFICES ASSUME InitSistema PROVE InvSistema /\ Mem!Init
  OBVIOUS
<1>1. SocketSano
  BY SocketInicial
<1>2. ~indefinido /\ ~agotada
  BY DEF InitSistema
<1>3. InvSistema
  BY <1>1, <1>2, NucleoInicial, VigenteInicial DEF InvSistema, SocketSano, EnRegla, InitSistema
<1>4. Vistas = [p \in Procesos |-> <<>>]
  BY DEF Vistas, TablaVista, InitSistema
<1>5. Activos = {}
  BY DEF Activos, InitSistema
<1>6. ~EnReintento
  BY DEF EnReintento, InitSistema, Init
<1>7. Mem!Init
  BY <1>4, <1>5, <1>6, MismasTablas
  DEF Mem!Init, Mem!SinReintento, Vistas, InitSistema
<1>8. QED
  BY <1>3, <1>7

(* Every step keeps it, and is a step of Memoria or none.                  *)
LEMMA PasoSistema ==
  InvSistema /\ [NextSistema]_varsSistema => InvSistema' /\ (agotada \/ [Mem!Next]_(Mem!vars))
<1> SUFFICES ASSUME InvSistema, [NextSistema]_varsSistema
             PROVE  InvSistema' /\ (agotada \/ [Mem!Next]_(Mem!vars))
  OBVIOUS
<1>1. SocketSano'
  BY SocketPasos DEF InvSistema
<1>2. CASE agotada
  BY <1>1, <1>2, AgotadaQueda DEF InvSistema
<1>3. CASE ~agotada /\ NextSistema
  BY <1>1, <1>3, SigueLaMemoria DEF InvSistema
<1>4. CASE ~agotada /\ UNCHANGED varsSistema
  <2>1. ~agotada' /\ (indefinido' => agotada')
    BY <1>1, <1>4 DEF varsSistema, historia, SocketSano
  <2>2. InvSocket'
    BY <1>1, <2>1 DEF SocketSano
  <2>3. QED
    BY <1>1, <1>4, <2>2, NadaCambia DEF InvSistema
<1>5. QED
  BY <1>2, <1>3, <1>4

(* A request, its service and the reading of its answer are steps of three *)
(* threads, with steps of the others in between. Until memory runs out     *)
(* each exchange has the effect of one step of Memoria, and every other    *)
(* step of the system has none, but that a process ends.                   *)
THEOREM SistemaImplementaMemoria == SpecSistema => ImplementaMemoria
<1>1. InvSistema /\ [NextSistema]_varsSistema => InvSistema'
  BY PasoSistema
<1>2. InvSistema /\ [NextSistema]_varsSistema => [agotada \/ Mem!Next]_(Mem!vars)
  BY PasoSistema
<1>3. InitSistema => InvSistema /\ Mem!Init
  BY InicioSistema
<1>4. QED
  BY <1>1, <1>2, <1>3, PTL DEF SpecSistema, ImplementaMemoria

(* What Memoria keeps of the two copies of a table holds of the system.    *)
InvCopias == InvSistema /\ (~agotada => MP!Coinciden)

(* At the start,                                                           *)
LEMMA InicioCopias == InitSistema => InvCopias
<1> SUFFICES ASSUME InitSistema PROVE InvCopias
  OBVIOUS
<1>1. MP!Coinciden
  BY DEF MP!Coinciden, MP!TablasCoinciden, InitSistema, Activos
<1>2. QED
  BY <1>1, InicioSistema DEF InvCopias

(* and after every step.                                                   *)
LEMMA PasoCopias == InvCopias /\ [NextSistema]_varsSistema => InvCopias'
<1> SUFFICES ASSUME InvCopias, [NextSistema]_varsSistema PROVE InvCopias'
  OBVIOUS
<1>1. InvSistema' /\ (agotada \/ [Mem!Next]_(Mem!vars))
  BY PasoSistema DEF InvCopias
<1>2. CASE agotada
  BY <1>1, <1>2, AgotadaQueda DEF InvCopias
<1>3. CASE ~agotada
  <2>1. [MP!Next]_(MP!vars)
    BY <1>1, <1>3, MismosPasos DEF Mem!vars, MP!vars
  <2>2. MP!Coinciden'
    BY <1>3, <2>1, SupuestosDeMemoria, MP!CoincidenPasos DEF InvCopias
  <2>3. QED
    BY <1>1, <2>2 DEF InvCopias
<1>4. QED
  BY <1>2, <1>3

(* A process is in the CPU with the table that memory has for it, until    *)
(* memory runs out, but for what a compaction could not bring it.          *)
THEOREM TablaDeLaCpu == SpecSistema => []CpuConTablaVigente
<1>1. ASSUME InvCopias, pcDesalojo = "cpu", ~agotada, pcbDesalojo \notin atrasados
      PROVE  tablaPcb[pcbDesalojo] = tablas[pcbDesalojo]
  <2>1. EnRegla
    BY <1>1 DEF InvCopias, InvSistema
  <2>2. pcbDesalojo \in Procesos /\ Mano = {pcbDesalojo}
    BY <1>1, <2>1 DEF EnRegla, InvNucleo, InvTodoLugar, IInv, Forma, FormaDesalojo, Mano,
       PcConPcb, ConCpu
  <2>3. estado[pcbDesalojo] = "EXEC" /\ ~Perdido(pcbDesalojo)
    BY <2>1, <2>2 DEF EnRegla, InvNucleo, InvTodoLugar, InvLugares, EstadoDeLista, Perdido
  <2>4. tablas[pcbDesalojo] # <<>>
    BY <2>1, <2>2, <2>3 DEF EnRegla, InvVigente, TablasDadas, ConTablas, Dentro
  <2>5. pcbDesalojo \in Activos
    BY <1>1, <2>1, <2>2, <2>3, <2>4, ActivosSon DEF EnRegla, PorCaer
  <2>6. pcLargo = "create_pcb" => pcbDesalojo # pcbLargo
    BY <2>1, <2>3, PorAdmitir
  <2>7. ~Vista(pcbDesalojo)
    BY <1>1, <2>6 DEF Vista, Creado
  <2>8. TablaVista(pcbDesalojo) = tablaPcb[pcbDesalojo]
    BY <2>1, <2>7, VistaEs DEF EnRegla
  <2>9. Vistas[pcbDesalojo] = tablas[pcbDesalojo]
    BY <1>1, <2>5 DEF InvCopias, MP!Coinciden, MP!TablasCoinciden, Vistas
  <2>10. QED
    BY <2>2, <2>8, <2>9 DEF Vistas
<1>2. InvCopias => CpuConTablaVigente
  BY <1>1 DEF CpuConTablaVigente
<1>3. QED
  BY <1>2, InicioCopias, PasoCopias, PTL DEF SpecSistema

-----------------------------------------------------------------------------
(* The answers to a CREATE_SEGMENT that is repeated. A second COMPACTION   *)
(* of the same request takes a first one that left holes behind.           *)
NegadoPorRestos ==
  pcDesalojo = "create_segment" /\ fase = "compacta" /\ Contestado /\ reintento =>
    "restos" \in averias

(* Memory cannot ask for it otherwise: ReintentoCabe, of Memoria's proofs. *)
LEMMA OtraVezLlena ==
  ASSUME EnRegla, MP!ReintentoCabe, Llena, reintento
  PROVE  "restos" \in averias
<1>1. EnReintento /\ pcDesalojo = "create_segment"
  BY DEF Llena, EnReintento
<1>2. pcbDesalojo # Ninguno
  BY <1>1, Llamador, ConstantesOK DEF EsperaMemoria
<1>3. MP!HuecoElegido(huecos, operacion.tamanio) = 0
  BY MismoElegido DEF EnRegla, InvVigente, FaltaHueco
<1>4. QED
  BY <1>1, <1>2, <1>3 DEF MP!ReintentoCabe

(* What went wrong is not forgotten.                                       *)
LEMMA AveriasQuedan == NextSistema => averias \subseteq averias'
<1> USE DEF historia
<1>1. AtencionKernel => averias \subseteq averias'
  BY DEF AtencionKernel, AtiendeCrearPcb, AtiendeCrear, AtiendeSinHueco, AtiendeCompactacion,
     AtiendeBorrar
<1>2. NextSistema => UNCHANGED averias \/ AtencionKernel
  BY PasosDelSistema
  DEF PasoAjeno, SinMemoria, PideTabla, RecibeTabla, DelDesalojo, PideOperacion,
      EnviaOperacion, RecibeBase, OrdenaCompactar, RecibeTablas, RecibeSinMemoria,
      LeeOtraCosa, RecibeTablaSinSegmento, BorrarSinRespuesta
<1>3. QED
  BY <1>1, <1>2

(* Where each step of the eviction thread takes it.                        *)
LEMMA AdondeVa ==
  ASSUME EnRegla, DelDesalojo
  PROVE  \/ pcDesalojo # "create_segment" /\ (pcDesalojo' = "create_segment" => fase' = "crea")
         \/ pcDesalojo' # "create_segment" /\ ejecutando' = Append(ejecutando, pcbDesalojo)
         \/ pcDesalojo' # "create_segment" /\ fase = "compacta" /\ Contestado
         \/ UNCHANGED pcDesalojo /\ ~Contestado'
<1> USE DEF desalojo, listas
<1>1. CASE PideOperacion
  BY <1>1 DEF PideOperacion, PideSegmento, Devuelto, Fin
<1>2. CASE EnviaOperacion
  BY <1>2 DEF EnviaOperacion, TomaMemoria
<1>3. CASE RecibeBase
  BY <1>3 DEF RecibeBase, CreateSegmentOk, SigueEjecutando, Fin
<1>4. CASE OrdenaCompactar
  <2>1. aMemoria' = Append(<<>>, Pedido("COMPACTACION", pcbDesalojo))
    BY <1>4 DEF OrdenaCompactar, Lee, Contestado
  <2>2. QED
    BY <1>4, <2>1, Palabras DEF OrdenaCompactar, vars, Contestado
<1>5. CASE RecibeTablas
  BY <1>5 DEF RecibeTablas, CreateSegmentCompacta
<1>6. CASE RecibeTablaSinSegmento
  BY <1>6 DEF RecibeTablaSinSegmento, DeleteSegmentOk, SigueEjecutando, Fin
<1>7. QED
  BY <1>1, <1>2, <1>3, <1>4, <1>5, <1>6, RespuestaEsperada DEF DelDesalojo

(* The long-term scheduler asks while the eviction thread does not.        *)
LEMMA LargoAparte ==
  ASSUME EnRegla, PideTabla \/ RecibeTabla
  PROVE  pcDesalojo # "create_segment" /\ UNCHANGED pcDesalojo
<1>1. CASE PideTabla
  BY <1>1, UnoPide DEF PideTabla, LargoPideTabla, PasoLargo, Pidiendo, desalojo
<1>2. CASE RecibeTabla
  BY <1>2, UnoPide DEF RecibeTabla, LargoRecibeTabla, PasoLargo, Pidiendo, desalojo
<1>3. QED
  BY <1>1, <1>2

(* What every step keeps of the answers.                                   *)
LEMMA PasoNegado ==
  ASSUME EnRegla, NextSistema, MP!ReintentoCabe, NegadoPorRestos
  PROVE  NegadoPorRestos'
<1> SUFFICES ASSUME pcDesalojo' = "create_segment", fase' = "compacta", Contestado',
                    reintento'
             PROVE  "restos" \in averias'
  BY DEF NegadoPorRestos
<1>1. CASE PasoAjeno
  <2>1. UNCHANGED <<pcDesalojo, reintento, fase, averias>> /\ Contestado' = Contestado
    BY <1>1, AjenoBien, AjenoDeja DEF EnRegla, EsperaMemoria
  <2>2. QED
    BY <2>1 DEF NegadoPorRestos
<1>2. CASE PideTabla \/ RecibeTabla
  BY <1>2, LargoAparte
<1>3. CASE DelDesalojo
  BY <1>3, AdondeVa
<1>4. CASE AtencionKernel
  <2>1. ~Contestado /\ UNCHANGED <<pcDesalojo, reintento, fase>>
    BY <1>4, Espera
  <2>2. Llena /\ reintento
    BY <2>1 DEF Llena
  <2>3. QED
    BY <2>2, OtraVezLlena, AveriasQuedan
<1>5. QED
  BY <1>1, <1>2, <1>3, <1>4, PasosDelSistema

(* So that without holes left behind the kernel gets no second COMPACTION, *)
(* nor OUT_OF_MEMORY.                                                      *)
LEMMA PasoConcede ==
  ASSUME EnRegla, NextSistema, NegadoPorRestos, "restos" \notin averias
  PROVE  ReintentoConcedido
<1> SUFFICES ASSUME reintento, CreateSegmentCompacta \/ CreateSegmentSinMemoria
             PROVE  FALSE
  BY DEF ReintentoConcedido
<1>1. /\ pcDesalojo = "create_segment" /\ pcDesalojo' = "executing"
      /\ ejecutando' = ejecutando
  BY DEF CreateSegmentCompacta, CreateSegmentSinMemoria, Responde, TerminaProceso, Fin, listas
<1>2. CASE PasoAjeno
  BY <1>1, <1>2, AjenoAparte DEF Aparte, EsperaMemoria
<1>3. CASE PideTabla \/ RecibeTabla
  BY <1>1, <1>3, LargoAparte
<1>4. CASE DelDesalojo
  <2>1. ejecutando' # Append(ejecutando, pcbDesalojo)
    <3>1. ejecutando \in Seq(Procesos) /\ pcbDesalojo \in Procesos
      BY <1>1, Llamador DEF EsperaMemoria, EnRegla, InvNucleo, InvTodoLugar, IInv, TypeOK,
         TipoListas
    <3>2. Len(Append(ejecutando, pcbDesalojo)) = Len(ejecutando) + 1 /\ Len(ejecutando) \in Nat
      BY <3>1, ListaAgrega
    <3>3. QED
      BY <1>1, <3>2
  <2>2. QED
    BY <1>1, <1>4, <2>1, AdondeVa DEF NegadoPorRestos
<1>5. CASE AtencionKernel
  BY <1>1, <1>5, Espera
<1>6. QED
  BY <1>2, <1>3, <1>4, <1>5, PasosDelSistema

-----------------------------------------------------------------------------
(* All that is kept of the system until memory runs out: the invariants of *)
(* Memoria too, and the places of the processes.                           *)
SinPerdidos == "restos" \notin averias => NadiePerdido /\ AvisosRespaldados

EnOrden ==
  EnRegla /\ MP!InvMemoria /\ MP!ReintentoCabe /\ NegadoPorRestos /\ SinPerdidos

InvTodo == SocketSano /\ (~agotada => EnOrden)

(* At the start.                                                           *)
LEMMA InicioTodo == InitSistema => InvTodo
<1> SUFFICES ASSUME InitSistema PROVE InvTodo
  OBVIOUS
<1>1. InvSistema /\ Mem!Init
  BY InicioSistema
<1>2. MP!Init
  BY <1>1, MismasTablas
  DEF Mem!Init, MP!Init, Mem!SinReintento, MP!SinReintento, Mem!SinTabla, MP!SinTabla
<1>3. MP!InvMemoria
  BY <1>2, SupuestosDeMemoria, MP!InvMemoriaInicial
<1>4. MP!ReintentoCabe /\ NegadoPorRestos
  BY DEF MP!ReintentoCabe, EnReintento, NegadoPorRestos, InitSistema, Init
<1>5. SinPerdidos
  BY InicioLugares DEF SinPerdidos, AvisosRespaldados, Uno, InitSistema, Init
<1>6. QED
  BY <1>1, <1>3, <1>4, <1>5 DEF InvTodo, InvSistema, EnOrden, InitSistema

(* After every step.                                                       *)
LEMMA PasoTodo ==
  ASSUME 0 \notin Ids
  PROVE  InvTodo /\ [NextSistema]_varsSistema => InvTodo'
<1> SUFFICES ASSUME InvTodo, [NextSistema]_varsSistema PROVE InvTodo'
  OBVIOUS
<1>1. InvSistema' /\ (agotada \/ [Mem!Next]_(Mem!vars))
  BY PasoSistema DEF InvTodo, InvSistema, EnOrden
<1>2. CASE agotada
  BY <1>1, <1>2, AgotadaQueda DEF InvTodo, InvSistema
<1>3. CASE ~agotada
  <2>1. EnOrden /\ EnRegla
    BY <1>3 DEF InvTodo, EnOrden
  <2>2. [MP!Next]_(MP!vars)
    BY <1>1, <1>3, MismosPasos DEF Mem!vars, MP!vars
  <2>3. MP!InvMemoria'
    BY <2>1, <2>2, SupuestosDeMemoria, MP!InvMemoriaPasos DEF EnOrden
  <2>4. MP!ReintentoCabe'
    BY <2>1, <2>2, SupuestosDeMemoria, MP!ReintentoCabePasos DEF EnOrden
  <2>5. CASE NextSistema
    <3>1. NegadoPorRestos'
      BY <2>1, <2>5, PasoNegado DEF EnOrden
    <3>2. ASSUME "restos" \notin averias' PROVE NadiePerdido' /\ AvisosRespaldados'
      <4>1. "restos" \notin averias
        BY <2>5, <3>2, AveriasQuedan
      <4>2. NadiePerdido /\ AvisosRespaldados /\ NegadoPorRestos
        BY <2>1, <4>1 DEF EnOrden, SinPerdidos
      <4>3. ReintentoConcedido /\ [Next]_vars
        BY <2>1, <2>5, <4>1, <4>2, PasoConcede, SigueElNucleo
      <4>4. InvTodoLugar /\ IInv
        BY <2>1 DEF EnRegla, InvNucleo, InvTodoLugar
      <4>5. NadiePerdido'
        BY <4>2, <4>3, <4>4, PasoPerdidos DEF ReintentoConcedido, OtraCompactacion
      <4>6. AvisosRespaldados'
        BY <4>2, <4>3, <4>4, PasoAvisos
      <4>7. QED
        BY <4>5, <4>6
    <3>3. QED
      BY <1>1, <2>3, <2>4, <3>1, <3>2 DEF InvTodo, InvSistema, EnOrden, SinPerdidos
  <2>6. CASE UNCHANGED varsSistema
    <3>1. UNCHANGED vars /\ UNCHANGED <<fase, aMemoria, averias>>
      BY <2>6 DEF varsSistema, delKernel, conexion, historia
    <3>2. NegadoPorRestos'
      BY <2>1, <3>1 DEF EnOrden, NegadoPorRestos, vars, desalojo, Contestado
    <3>3. SinPerdidos'
      BY <2>1, <3>1 DEF EnOrden, SinPerdidos, NadiePerdido, Perdido, EnCola, Mano,
         AvisosRespaldados, Uno, vars, listas, corto, desalojo, recursos
    <3>4. QED
      BY <1>1, <2>3, <2>4, <3>2, <3>3 DEF InvTodo, InvSistema, EnOrden
  <2>7. QED
    BY <2>5, <2>6
<1>4. QED
  BY <1>2, <1>3

(* Both together.                                                          *)
LEMMA SistemaSiempre ==
  ASSUME 0 \notin Ids
  PROVE  SpecSistema => []InvTodo
<1>1. InvTodo /\ [NextSistema]_varsSistema => InvTodo'
  BY PasoTodo
<1>2. QED
  BY <1>1, InicioTodo, PTL DEF SpecSistema

(* What the users of memory can count on, as it is in Memoria: until it    *)
(* answers OUT_OF_MEMORY its holes tile it, and the segments of its tables *)
(* are occupied holes of theirs alone, whatever the threads of the kernel  *)
(* do between a request and its answer.                                    *)
THEOREM MemoriaDelSistema ==
  ASSUME 0 \notin Ids
  PROVE  SpecSistema => [](~agotada => /\ MP!Teselado /\ MP!SinSolapamiento
                                       /\ MP!SegmentosOcupados /\ MP!OcupadoTieneDuenio)
<1>1. MP!InvMemoria => /\ MP!Teselado /\ MP!SinSolapamiento
                       /\ MP!SegmentosOcupados /\ MP!OcupadoTieneDuenio
  BY SupuestosDeMemoria, MP!MemoriaTeseladaDe, MP!SegmentosSeparadosDe,
     MP!CadaSegmentoTieneHuecoDe, MP!NadaOcupadoDeMasDe
<1>2. InvTodo => (~agotada => /\ MP!Teselado /\ MP!SinSolapamiento
                              /\ MP!SegmentosOcupados /\ MP!OcupadoTieneDuenio)
  BY <1>1 DEF InvTodo, EnOrden
<1>3. QED
  BY <1>2, SistemaSiempre, PTL

(* Until memory runs out, or a compaction leaves holes behind, no process  *)
(* is lost, in two places, or announced without being in EXEC: the retry   *)
(* of a CREATE_SEGMENT finds the hole that the compaction made for it.     *)
THEOREM NadieSePierde ==
  ASSUME 0 \notin Ids
  PROVE  SpecSistema => []NoSePierdeNadie
<1>1. InvTodo => NoSePierdeNadie
  <2> SUFFICES ASSUME InvTodo, ~agotada, "restos" \notin averias
               PROVE  UnLugar /\ ExecNuncaVacia
    BY DEF NoSePierdeNadie
  <2>1. InvTodoLugar /\ IInv /\ NadiePerdido /\ AvisosRespaldados
    BY DEF InvTodo, EnOrden, SinPerdidos, EnRegla, InvNucleo, InvTodoLugar
  <2>2. QED
    BY <2>1, LugaresDe, AvisosBastan
<1>2. QED
  BY <1>1, SistemaSiempre, PTL
=============================================================================
