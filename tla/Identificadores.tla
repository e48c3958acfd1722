--------------------------- MODULE Identificadores ---------------------------
(***************************************************************************)
(* The number each process is known by. One thread per console creates a   *)
(* process and numbers it with a counter no semaphore protects             *)
(* (kernel.c:1121-1122); HRRN then removes the process it chose from READY *)
(* by that number (kernel.c:1055-1057). A process is named here by its     *)
(* console.                                                                *)
(*                                                                         *)
(* The build loads the counter once for the number and again to add one:   *)
(* LeeId, LeeContador and Escribe. A build that loads it once is the case  *)
(* in which the first two are consecutive.                                 *)
(***************************************************************************)
EXTENDS Integers, SequencesExt

CONSTANTS Consolas, Ninguna

ASSUME IdentificadoresOK == Ninguna \notin Consolas

VARIABLES
  contador,     \* contadorProcesoId
  paso,         \* of each console: "espera", "id", "suma", "sumado", "creado"
  id, leido,    \* what each console's thread read
  nuevos, listos, exec, terminados,
  previos       \* history: who had finished with the counter when each began

vars == <<contador, paso, id, leido, nuevos, listos, exec, terminados, previos>>
procesos == <<nuevos, listos, exec, terminados>>

(* kernel.h:19, "El 0 se lo dejamos al segmento0".                         *)
ContadorInicial == 1

Init ==
  /\ contador = ContadorInicial
  /\ paso = [c \in Consolas |-> "espera"]
  /\ id = [c \in Consolas |-> 0] /\ leido = [c \in Consolas |-> 0]
  /\ nuevos = <<>> /\ listos = <<>> /\ exec = Ninguna /\ terminados = {}
  /\ previos = [c \in Consolas |-> {}]

Avanza(c, de, a) == paso[c] = de /\ paso' = [paso EXCEPT ![c] = a]

ConNumero == {c \in Consolas : paso[c] \in {"sumado", "creado"}}

LeeId(c) ==
  /\ Avanza(c, "espera", "id")
  /\ id' = [id EXCEPT ![c] = contador]
  /\ previos' = [previos EXCEPT ![c] = ConNumero]
  /\ UNCHANGED <<contador, leido, procesos>>

LeeContador(c) ==
  /\ Avanza(c, "id", "suma")
  /\ leido' = [leido EXCEPT ![c] = contador]
  /\ UNCHANGED <<contador, id, procesos, previos>>

(* Faulty variant: the counter is not increased.                           *)
EscribeLoLeido(c) ==
  /\ Avanza(c, "suma", "sumado")
  /\ contador' = leido[c]
  /\ UNCHANGED <<id, leido, procesos, previos>>

Escribe(c) ==
  /\ Avanza(c, "suma", "sumado")
  /\ contador' = leido[c] + 1
  /\ UNCHANGED <<id, leido, procesos, previos>>

(* agregar_a_lista_con_sem(pcb, ENUM_NEW)                                  *)
Crea(c) ==
  /\ Avanza(c, "sumado", "creado")
  /\ nuevos' = Append(nuevos, c)
  /\ UNCHANGED <<contador, id, leido, listos, exec, terminados, previos>>

-----------------------------------------------------------------------------
Admite ==
  /\ nuevos # <<>>
  /\ listos' = Append(listos, Head(nuevos)) /\ nuevos' = Tail(nuevos)
  /\ UNCHANGED <<contador, paso, id, leido, exec, terminados, previos>>

(* Faulty variant: the first of READY is removed, as FIFO does.            *)
IndicePrimero(c) == 1

(* obtener_index_pcb_de_lista: the first with the number.                  *)
Indice(c) == SelectInSeq(listos, LAMBDA d : id[d] = id[c])

(* Any may have the greatest response ratio (Hrrn says which). The ratio   *)
(* of a process that ended is read from freed memory: nothing is said of   *)
(* what happens then.                                                      *)
Elige(i) ==
  /\ exec = Ninguna /\ i \in DOMAIN listos
  /\ Range(listos) \intersect terminados = {}
  /\ exec' = listos[i]
  /\ listos' = RemoveAt(listos, Indice(listos[i]))
  /\ UNCHANGED <<contador, paso, id, leido, nuevos, terminados, previos>>

(* The process returns to READY, or ends and its PCB is freed.             *)
Deja ==
  /\ exec # Ninguna /\ exec' = Ninguna
  /\ \/ listos' = Append(listos, exec) /\ UNCHANGED terminados
     \/ terminados' = terminados \union {exec} /\ UNCHANGED listos
  /\ UNCHANGED <<contador, paso, id, leido, nuevos, previos>>

Next ==
  \/ \E c \in Consolas : LeeId(c) \/ LeeContador(c) \/ Escribe(c) \/ Crea(c)
  \/ Admite \/ (\E i \in 1 .. Cardinality(Consolas) : Elige(i)) \/ Deja

Spec == Init /\ [][Next]_vars

-----------------------------------------------------------------------------
(* Two consoles were inside at once: neither precedes the other.           *)
Coincidieron(c, d) == c \notin previos[d] /\ d \notin previos[c]

(* Numbers repeat only through a race, of these or of other consoles: as   *)
(* long as they come one at a time every process has its own.              *)
RepetidosSoloConCarrera ==
  (\A c, d \in ConNumero : c # d => ~Coincidieron(c, d)) =>
    \A c, d \in ConNumero : c # d => id[c] # id[d]

Lugares(c) ==
  {<<"nuevos", i>> : i \in {i \in DOMAIN nuevos : nuevos[i] = c}}
    \union {<<"listos", i>> : i \in {i \in DOMAIN listos : listos[i] = c}}
    \union {<<"exec", 1>> : i \in {i \in {1} : exec = c}}
    \union {<<"terminados", 1>> : i \in {i \in {1} : c \in terminados}}

(* A process whose number is its own is always in exactly one place,       *)
(* whatever happens to others that share theirs.                           *)
UnLugarSiEsUnico ==
  \A c \in Consolas :
    paso[c] = "creado" /\ (\A d \in ConNumero : d # c => id[d] # id[c])
      => Cardinality(Lugares(c)) = 1
=============================================================================
