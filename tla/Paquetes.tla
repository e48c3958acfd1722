------------------------------ MODULE Paquetes ------------------------------
(***************************************************************************)
(* The packets in which a PCB goes from the kernel to the CPU and back,    *)
(* and the segment tables from memory to the kernel: what each side        *)
(* writes, byte by byte, and what the other reads (shared.c). The twelve   *)
(* registers, that go first in a PCB and have a fixed size, are the        *)
(* subject of Cpu; open files do not travel.                               *)
(*                                                                         *)
(* A text is the characters from its pointer to the first zero. The one a  *)
(* reader allocates has no room for a zero: after it comes what the heap   *)
(* holds, a member of Restos, up to some zero.                             *)
(***************************************************************************)
EXTENDS Integers, SequencesExt

CONSTANTS
  Programas,    \* sequences of texts, as the console sends them
  Restos,       \* what may follow an allocation, before the first zero
  Tablas,       \* the tables of segments a process may have
  Vueltas       \* bound: messages the kernel sends or asks for

VARIABLES
  donde,        \* who has the PCB, or to whom the message in the socket goes
  pcb,          \* the PCB of the one that has it
  socket,       \* the buffer of the message
  vueltas,
  consola,      \* history: the program the console sent
  enviado,      \* history: what was written in the message
  leidos        \* history: bytes of the last message its reader took

vars == <<donde, pcb, socket, vueltas, consola, enviado, leidos>>

Salto == 10     \* '\n'

(* sizeof                                                                  *)
Entero == 4
Largo == 8
Puntero == 8
Doble == 8

-----------------------------------------------------------------------------
(* Texts.                                                                  *)

(* strtok(texto, "\n"): the first newline after the first character that   *)
(* is none becomes the end.                                                *)
SinSalto(t) ==
  LET fines == {i \in 2 .. Len(t) : t[i] = Salto /\ \E j \in 1 .. i - 1 : t[j] # Salto}
  IN IF fines = {} THEN t ELSE SubSeq(t, 1, Min(fines) - 1)

(* Faulty variant: the last character is dropped without looking at it.    *)
SinUltimo(t) == IF t # <<>> THEN Front(t) ELSE t

SinUltimoSalto(t) == IF t # <<>> /\ Last(t) = Salto THEN Front(t) ELSE t

(* leer_string, leer_string_array and iteratorStrtok.                      *)
TextoLeido(bytes, resto) == SinSalto(SinUltimoSalto(bytes \o resto))

-----------------------------------------------------------------------------
(* What is written. Values fit in two bytes, little-endian.                *)
Escribe(valor, tamanio) ==
  [i \in 1 .. tamanio |-> CASE i = 1 -> valor % 256 [] i = 2 -> valor \div 256
                            [] OTHER -> 0]

(* agregar_a_paquete, without the zero of the text.                        *)
EscribeTexto(t) == Escribe(Len(t), Entero) \o t

EscribeLista(lista, Elemento(_)) ==
  FoldLeft(LAMBDA b, e : b \o Elemento(e), Escribe(Len(lista), Entero), lista)

EscribeSegmentos(segmentos, tamanio) ==
  EscribeLista(segmentos, LAMBDA s : Escribe(s.id, Entero) \o Escribe(s.size, tamanio)
                                       \o Escribe(s.base, Puntero))

(* agregar_pcb_a_paquete and agregar_lista_segmentos_a_paquete: the size   *)
(* of a segment is a size_t.                                               *)
EscribePcb(p) ==
  Escribe(p.id, Entero) \o Escribe(p.estado, Entero)
    \o EscribeLista(p.instrucciones, EscribeTexto)
    \o Escribe(p.contador, Entero)
    \o Escribe(p.estimacion, Doble) \o Escribe(p.marca, Doble)
    \o EscribeSegmentos(p.segmentos, Largo)

(* serializar_todas_las_tablas_segmentos: here the size is an int.         *)
EscribeTablas(tablas) ==
  EscribeLista(tablas, LAMBDA t : Escribe(t.pid, Entero) \o EscribeSegmentos(t.segmentos, Entero))

-----------------------------------------------------------------------------
(* What is read: [d, v], the displacement after it and the value. Beyond   *)
(* the buffer there is the heap; zeros stand for it.                       *)
Byte(b, i) == IF i \in DOMAIN b THEN b[i] ELSE 0

Lee(b, d) == Byte(b, d + 1) + 256 * Byte(b, d + 2)

LeeLista(b, d, Elemento(_, _)) ==
  FoldLeft(LAMBDA a, i : LET e == Elemento(a.d, i)
                         IN [d |-> e.d, v |-> Append(a.v, e.v)],
           [d |-> d + Entero, v |-> <<>>], [i \in 1 .. Lee(b, d) |-> i])

LeeSegmentos(b, d, tamanio) ==
  LeeLista(b, d, LAMBDA e, i :
    [d |-> e + Entero + tamanio + Puntero,
     v |-> [id |-> Lee(b, e), size |-> Lee(b, e + Entero), base |-> Lee(b, e + Entero + tamanio)]])

(* Faulty variant: the size of a segment read as an int in a PCB.          *)
LeeSegmentosDePcbCortos(b, d) == LeeSegmentos(b, d, Entero)

(* recibir_resto_lista_segmentos.                                          *)
LeeSegmentosDePcb(b, d) == LeeSegmentos(b, d, Largo)

(* recibir_pcb: restos[i] follows the allocation of the i-th text.         *)
LeePcb(b, restos) ==
  LET textos == LeeLista(b, 2 * Entero, LAMBDA e, i :
                  LET n == Lee(b, e) IN
                  [d |-> e + Entero + n,
                   v |-> TextoLeido([j \in 1 .. n |-> Byte(b, e + Entero + j)], restos[i])])
      c == textos.d
      segmentos == LeeSegmentosDePcb(b, c + Entero + 2 * Doble)
  IN [d |-> segmentos.d,
      v |-> [id |-> Lee(b, 0), estado |-> Lee(b, Entero),
             instrucciones |-> textos.v, contador |-> Lee(b, c),
             estimacion |-> Lee(b, c + Entero), marca |-> Lee(b, c + Entero + Doble),
             segmentos |-> segmentos.v]]

(* deserializar_tabla_segmentos.                                           *)
LeeSegmentosDeMemoria(b, d) == LeeSegmentos(b, d, Entero)

(* deserealizar_todas_las_tablas_segmentos.                                *)
LeeTablas(b) ==
  LeeLista(b, 0, LAMBDA e, i :
    LET s == LeeSegmentosDeMemoria(b, e + Entero)
    IN [d |-> s.d, v |-> [pid |-> Lee(b, e), segmentos |-> s.v]])

-----------------------------------------------------------------------------
(* Two processes; the turns of one of them.                                *)
IdPropio == 258
IdAjeno == 259

Init ==
  /\ donde = "kernel" /\ socket = <<>> /\ vueltas = 0 /\ leidos = 0
  /\ consola \in Programas
  /\ pcb = [id |-> IdPropio, estado |-> 2, instrucciones |-> consola, contador |-> 0,
            estimacion |-> 300, marca |-> 7, segmentos |-> <<>>]
  /\ enviado = pcb

(* enviar_pcb cuts the texts of the sender as it writes them.              *)
Cortado(p) == [p EXCEPT !.instrucciones =
                 [i \in DOMAIN p.instrucciones |-> SinSalto(p.instrucciones[i])]]

EnviaPcb(p, destino) ==
  /\ socket' = EscribePcb(Cortado(p)) /\ enviado' = Cortado(p) /\ pcb' = Cortado(p)
  /\ donde' = destino

KernelEnvia ==
  /\ donde = "kernel" /\ vueltas < Vueltas /\ vueltas' = vueltas + 1
  /\ EnviaPcb(pcb, "a la CPU")
  /\ UNCHANGED <<consola, leidos>>

RecibePcb(de, quien) ==
  /\ donde = de /\ donde' = quien
  /\ \E restos \in [DOMAIN enviado.instrucciones -> Restos] :
       LET r == LeePcb(socket, restos) IN pcb' = r.v /\ leidos' = r.d
  /\ UNCHANGED <<socket, vueltas, consola, enviado>>

CpuEnvia ==
  /\ donde = "CPU"
  /\ EnviaPcb([pcb EXCEPT !.contador = @ + 1], "al kernel")
  /\ UNCHANGED <<vueltas, consola, leidos>>

(* The kernel estimates the next burst, and the process will be marked     *)
(* when it is ready again.                                                 *)
KernelSigue ==
  /\ donde = "vuelto" /\ donde' = "kernel"
  /\ pcb' = [pcb EXCEPT !.contador = @ + 1, !.estimacion = @ \div 2, !.marca = @ + 1]
  /\ UNCHANGED <<socket, vueltas, consola, enviado, leidos>>

(* Memory answers a compaction with the tables of all; the kernel puts     *)
(* each in the PCB that has its number.                                    *)
MemoriaEnvia ==
  /\ donde = "kernel" /\ vueltas < Vueltas /\ vueltas' = vueltas + 1
  /\ \E propia, ajena \in Tablas :
       LET p == [pid |-> IdPropio, segmentos |-> propia]
           a == [pid |-> IdAjeno, segmentos |-> ajena]
       IN \E tablas \in {<<p, a>>, <<a, p>>} : socket' = EscribeTablas(tablas)
     /\ enviado' = [pcb EXCEPT !.segmentos = propia]
  /\ donde' = "tablas"
  /\ UNCHANGED <<pcb, consola, leidos>>

ActualizaTablas ==
  /\ donde = "tablas" /\ donde' = "actualizado"
  /\ LET r == LeeTablas(socket)
         propias == SelectSeq(r.v, LAMBDA t : t.pid = pcb.id)
     IN /\ leidos' = r.d
        /\ pcb' = IF propias = <<>> THEN pcb
                  ELSE [pcb EXCEPT !.segmentos = Last(propias).segmentos]
  /\ UNCHANGED <<socket, vueltas, consola, enviado>>

KernelRetoma ==
  /\ donde = "actualizado" /\ donde' = "kernel"
  /\ UNCHANGED <<pcb, socket, vueltas, consola, enviado, leidos>>

Next ==
  \/ KernelEnvia \/ RecibePcb("a la CPU", "CPU")
  \/ CpuEnvia \/ RecibePcb("al kernel", "vuelto") \/ KernelSigue
  \/ MemoriaEnvia \/ ActualizaTablas \/ KernelRetoma

Spec == Init /\ [][Next]_vars

-----------------------------------------------------------------------------
Recibido == donde \in {"CPU", "vuelto", "actualizado"}

SinTextos(p) == [p EXCEPT !.instrucciones = Len(@)]

(* Whatever follows the texts in the heap, a reader takes exactly the      *)
(* bytes that were written and finds in them every other field of the PCB, *)
(* and the table of its own process among those of memory, although the    *)
(* same list of segments is written in two ways (shared.c:594, 740).       *)
CamposIntactos ==
  Recibido => leidos = Len(socket) /\ SinTextos(pcb) = SinTextos(enviado)

(* A text never loses what the console sent: it can only grow at its end,  *)
(* so that the mnemonic and all the arguments but the last are right.      *)
TextosConservanPrincipio ==
  \A i \in DOMAIN consola : IsPrefix(consola[i], pcb.instrucciones[i])
=============================================================================
