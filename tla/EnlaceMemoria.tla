--------------------------- MODULE EnlaceMemoria ---------------------------
(***************************************************************************)
(* The socket between the File System and memory: ejecutar_instrucciones_  *)
(* kernel of fileSystem.c for F_READ and F_WRITE, ejecutar_filesystem_     *)
(* pedido of memoria.c, and enviar_f_read_write of kernel.c, which asks    *)
(* one thing at a time.                                                    *)
(*                                                                         *)
(* A socket is the sequence of the words (32 bits) in it; the bytes of a   *)
(* buffer that are not read as words are one element, a record. A word of  *)
(* a message is whatever its reader takes it for.                          *)
(***************************************************************************)
EXTENDS Integers, Sequences

CONSTANTS
  Pedidos,     (* bound: requests the kernel makes                         *)
  Largos       (* lengths of the texts that are read and written           *)

(* codigo_operacion.                                                       *)
I_F_READ == 8
I_F_WRITE == 9
AUX_OK == 29
AUX_SOY_FILE_SYSTEM == 35

(* serializar_paquete: the code, the size of the buffer and the buffer.    *)
Paquete(codigo, size, resto) == <<codigo, size>> \o resto

VARIABLES
  aMemoria, aFs,   \* the two directions of the socket
  kernel,          \* the request it waits for, or "libre"
  fs,              \* what the File System does next
  hilo,            \* what the thread of memory does next
  pedidos,         \* requests made
  escritos,        \* F_READ whose text memory has written
  confirmados      \* F_READ and F_WRITE answered to the kernel

vars == <<aMemoria, aFs, kernel, fs, hilo, pedidos, escritos, confirmados>>

(* main of the File System has announced itself, atender_conexiones has    *)
(* read the code and ejecutar_filesystem_pedido starts.                    *)
Init ==
  /\ aMemoria = Tail(Paquete(AUX_SOY_FILE_SYSTEM, 0, <<>>)) /\ aFs = <<>>
  /\ kernel = "libre" /\ fs = "libre" /\ hilo = "cod_op1"
  /\ pedidos = 0 /\ escritos = 0 /\ confirmados = [F_READ |-> 0, F_WRITE |-> 0]

-----------------------------------------------------------------------------
(* Kernel and File System.                                                 *)

(* The kernel sends the request and waits, with permiso_compactacion.      *)
Pide(op) ==
  /\ kernel = "libre" /\ pedidos < Pedidos
  /\ kernel' = op /\ fs' = op /\ pedidos' = pedidos + 1
  /\ UNCHANGED <<aMemoria, aFs, hilo, escritos, confirmados>>

(* pid, address and size are 12 bytes; the text goes with its length and   *)
(* its end.                                                                *)
PideEscritura(n) ==
  /\ fs = "F_READ"
  /\ aMemoria' = aMemoria \o Paquete(I_F_WRITE, 12 + 4 + n + 1, <<[bytes |-> 16 + n + 1]>>)
  /\ fs' = "escritura"
  /\ UNCHANGED <<aFs, kernel, hilo, pedidos, escritos, confirmados>>

PideLectura ==
  /\ fs = "F_WRITE"
  /\ aMemoria' = aMemoria \o Paquete(I_F_READ, 12, <<[bytes |-> 12]>>)
  /\ fs' = "lectura1"
  /\ UNCHANGED <<aFs, kernel, hilo, pedidos, escritos, confirmados>>

EsPalabra(x) == x \in Int

Responde(op) ==
  /\ kernel = op /\ kernel' = "libre" /\ fs' = "libre"
  /\ confirmados' = [confirmados EXCEPT ![op] = @ + 1]

(* One word is read, whatever it is, and the kernel has its answer.        *)
RecibeEscritura ==
  /\ fs = "escritura" /\ aFs # <<>>
  /\ aFs' = Tail(aFs)
  /\ Responde("F_READ")
  /\ UNCHANGED <<aMemoria, hilo, pedidos, escritos>>

(* Three words are read, whatever they are.                                *)
RecibePalabra(paso, sigue) ==
  /\ fs = paso /\ aFs # <<>>
  /\ aFs' = Tail(aFs) /\ fs' = sigue
  /\ UNCHANGED <<aMemoria, kernel, hilo, pedidos, escritos, confirmados>>

(* recibir_buffer takes a word for the size and then so many bytes: the    *)
(* first four bytes of a text are never a size that arrives.               *)
RecibeLectura ==
  /\ fs = "buffer" /\ Len(aFs) >= 2
  /\ EsPalabra(aFs[1]) /\ aFs[2] = [bytes |-> aFs[1]]
  /\ aFs' = SubSeq(aFs, 3, Len(aFs))
  /\ Responde("F_WRITE")
  /\ UNCHANGED <<aMemoria, hilo, pedidos, escritos>>

-----------------------------------------------------------------------------
(* The thread of memory.                                                   *)

LeeCodOp1 ==
  /\ hilo = "cod_op1" /\ aMemoria # <<>>
  /\ aMemoria' = Tail(aMemoria) /\ hilo' = "cod_op2"
  /\ UNCHANGED <<aFs, kernel, fs, pedidos, escritos, confirmados>>

(* The buffer is what follows the size.                                    *)
LeeBuffer == aMemoria' = SubSeq(aMemoria, 4, Len(aMemoria))

AtiendeEscritura ==
  /\ hilo = "cod_op2" /\ Len(aMemoria) >= 3 /\ Head(aMemoria) = I_F_WRITE
  /\ LeeBuffer
  /\ aFs' = aFs \o Paquete(AUX_OK, 0, <<>>)
  /\ escritos' = escritos + 1
  /\ hilo' = "cod_op1"
  /\ UNCHANGED <<kernel, fs, pedidos, confirmados>>

AtiendeLectura(n) ==
  /\ hilo = "cod_op2" /\ Len(aMemoria) >= 3 /\ Head(aMemoria) = I_F_READ
  /\ LeeBuffer
  /\ aFs' = aFs \o Paquete(AUX_OK, 4 + n + 1, <<n + 1, [bytes |-> n + 1]>>)
  /\ hilo' = "cod_op1"
  /\ UNCHANGED <<kernel, fs, pedidos, escritos, confirmados>>

(* "Operacion desconocida": the thread returns.                            *)
OperacionDesconocida ==
  /\ hilo = "cod_op2" /\ aMemoria # <<>> /\ Head(aMemoria) \notin {I_F_READ, I_F_WRITE}
  /\ aMemoria' = Tail(aMemoria) /\ hilo' = "terminado"
  /\ UNCHANGED <<aFs, kernel, fs, pedidos, escritos, confirmados>>

Next ==
  \/ \E op \in {"F_READ", "F_WRITE"} : Pide(op)
  \/ \E n \in Largos : PideEscritura(n) \/ AtiendeLectura(n)
  \/ PideLectura \/ RecibeEscritura \/ RecibeLectura
  \/ RecibePalabra("lectura1", "lectura2") \/ RecibePalabra("lectura2", "lectura3")
  \/ RecibePalabra("lectura3", "buffer")
  \/ LeeCodOp1 \/ AtiendeEscritura \/ OperacionDesconocida

Spec == Init /\ [][Next]_vars

-----------------------------------------------------------------------------
(* The File System confirms an F_READ to the kernel only when memory has   *)
(* written what was read, as the comment of leer_archivo says.             *)
ConfirmaLoEscrito == confirmados.F_READ <= escritos
=============================================================================
