----------------------------- MODULE FileSystem -----------------------------
(***************************************************************************)
(* The file system module (src/modules/fileSystem/src). One thread serves  *)
(* the requests of the kernel one by one; its FCBs are in memory and, one  *)
(* file each, on disk; the bitmap is mapped from its file and synchronised *)
(* at every change; pointers and data go to the file of blocks through a   *)
(* stream that reaches the disk when it is closed. A truncation is a       *)
(* sequence of such changes with pauses of RETARDO_ACCESO_BLOQUE seconds   *)
(* in between, and the process may be stopped at any of them.              *)
(*                                                                         *)
(* The unit of size is the 4 bytes of a pointer: a block is SIZE_BLOQUE    *)
(* units and holds SIZE_BLOQUE pointers, and bloques is the whole file of  *)
(* blocks, unit by unit, where a unit is a block number or data (< 0).     *)
(***************************************************************************)
EXTENDS Integers, Sequences, FiniteSets, SequencesExt, FiniteSetsExt

CONSTANTS
  Archivos,          (* names of files                                     *)
  SIZE_BLOQUE, CANTIDAD_BLOQUES,
  Discos,            (* the disks that the process may find                *)
  Directos,          (* values malloc may leave in puntero_directo         *)
  Tamanios,          (* sizes that F_TRUNCATE asks for                     *)
  Punteros,          (* positions that F_SEEK leaves                       *)
  Cantidades,        (* sizes of F_READ and F_WRITE                        *)
  MaxPedidos,        (* bound: requests served                             *)
  MaxCaidas,         (* bound: times the process is stopped                *)
  Nulo,              (* no FCB                                             *)
  Vacio              (* an FCB file with nothing in it                     *)

Bloques == 0 .. CANTIDAD_BLOQUES - 1
Unidades == 0 .. CANTIDAD_BLOQUES * SIZE_BLOQUE - 1

SinBloque == -1      (* a full bitmap's -1, modulo 2^32 as an uint32_t     *)
Relleno == -2        (* data that was in the file of blocks before         *)
Basura == -3         (* a value nobody wrote                               *)
Dato(i) == -3 - i    (* the i-th unit of what F_WRITE writes               *)

(* dividir_por_size_bloque_y_redondear_hacia                               *)
HaciaAbajo(n) == n \div SIZE_BLOQUE
HaciaArriba(n) == (n + SIZE_BLOQUE - 1) \div SIZE_BLOQUE

ASSUME FileSystemOK ==
  /\ SIZE_BLOQUE \in Nat \ {0} /\ CANTIDAD_BLOQUES \in Nat \ {0}
  /\ Tamanios \subseteq Nat /\ Punteros \subseteq Nat
  /\ Cantidades \subseteq Nat \ {0} /\ Directos \subseteq Nat
  /\ MaxPedidos \in Nat /\ MaxCaidas \in Nat

FcbsDeDisco == [tamanio : Nat, directo : Int, indirecto : Int]

ASSUME MarcasOK ==
  /\ Nulo # Vacio
  /\ {Nulo, Vacio} \intersect [tamanio : Int, directo : Int, indirecto : Int] = {}
  /\ Nulo \notin [tamanio : Int, directo : Int, indirecto : Int, cantidad : Nat]

(* A disk is the FCB files, the file of blocks and the bitmap, and any may *)
(* be found: nothing says that the three agree.                            *)
ASSUME DiscosOK ==
  Discos \subseteq [fcbs : [Archivos -> {Nulo, Vacio} \union FcbsDeDisco],
                    bloques : [Unidades -> Int], bitmap : SUBSET Bloques]

VARIABLES
  bitmap,    \* the blocks marked 1
  bloques,   \* the file of blocks
  disco,     \* the FCB files: an FCB, Vacio while it is rewritten, or Nulo
  fcbs,      \* dictionaryFcbs, with cantidad_bloques_asignados
  vivo,      \* the process is running
  op,        \* the request in hand and how far it is
  pedidos,   \* requests served
  caidas,    \* times the process was stopped
  danio,     \* history: the disk is not in order (EnOrden, Danina, Caida)
  compartidos   \* history: the blocks that were in two places at the last start

historia == <<danio, compartidos>>
vars == <<bitmap, bloques, disco, fcbs, vivo, op, pedidos, caidas, historia>>

EnReposo == [paso |-> "libre"]

-----------------------------------------------------------------------------
(* Where the units of a file are.                                          *)

Unidad(u) == IF u \in Unidades THEN bloques[u] ELSE Basura

(* archivo_de_bloques_leer_n_puntero_de_bloque_de_punteros                 *)
LeerNPuntero(bloque, n) == Unidad(bloque * SIZE_BLOQUE + n)

(* Faulty variant: counts the direct block among the pointers.             *)
ObtenerBloqueAbsolutoDeMas(fcb, puntero) ==
  LET bloque == HaciaAbajo(puntero)
  IN  IF bloque = 0 THEN fcb.directo ELSE LeerNPuntero(fcb.indirecto, bloque)

ObtenerBloqueAbsoluto(fcb, puntero) ==
  LET bloque == HaciaAbajo(puntero)
  IN  IF bloque = 0 THEN fcb.directo ELSE LeerNPuntero(fcb.indirecto, bloque - 1)

ObtenerPosicionEnBloque(puntero) == puntero - SIZE_BLOQUE * HaciaAbajo(puntero)

ObtenerPosicionAbsoluta(fcb, puntero) ==
  ObtenerBloqueAbsoluto(fcb, puntero) * SIZE_BLOQUE + ObtenerPosicionEnBloque(puntero)

(* Faulty variant: forgets that the direct block comes before the others.  *)
BuscarSiguienteBloqueSinDirecto(actual, fcb) ==
  LET base == fcb.indirecto * SIZE_BLOQUE
      hallados == {u \in Unidades : u >= base /\ bloques[u] = actual}
  IN  IF hallados = {} THEN 0 ELSE Unidad(Min(hallados) + 1)

(* The pointers are read from the pointer block on, to the end of the file *)
(* of blocks if need be.                                                   *)
BuscarSiguienteBloque(actual, fcb) ==
  LET base == fcb.indirecto * SIZE_BLOQUE
      hallados == {u \in Unidades : u >= base /\ bloques[u] = actual}
  IN  IF actual = fcb.directo THEN LeerNPuntero(fcb.indirecto, 0)
      ELSE IF hallados = {} THEN 0 ELSE Unidad(Min(hallados) + 1)

(* The units that fall outside the file of blocks are not modelled.        *)
Escribe(desde, valores) ==
  bloques' = [u \in Unidades |->
                IF u >= desde /\ u < desde + Len(valores)
                THEN valores[u - desde + 1] ELSE bloques[u]]

(* bitmap_encontrar_bloque_libre                                           *)
BloqueLibre ==
  IF Bloques \subseteq bitmap THEN SinBloque ELSE Min(Bloques \ bitmap)

(* A bit outside the bitmap is outside the model.                          *)
MarcaOcupado(b) == bitmap' = bitmap \union ({b} \intersect Bloques)
MarcaLibre(b) == bitmap' = bitmap \ {b}

-----------------------------------------------------------------------------
(* What a file is, for the properties: its blocks by its size, the block   *)
(* of pointers included, and its contents.                                 *)

(* The places of a file whose data take k blocks: the direct block, the    *)
(* one of pointers if it has more, and those it points to.                 *)
Largo(k) == IF k < 2 THEN k ELSE k + 1

BloqueDe(fcb, j) ==
  IF j = 1 THEN fcb.directo ELSE IF j = 2 THEN fcb.indirecto
  ELSE LeerNPuntero(fcb.indirecto, j - 3)

BloquesDe(fcb) == [j \in 1 .. Largo(HaciaArriba(fcb.tamanio)) |-> BloqueDe(fcb, j)]

(* The block of data where the i-th unit of a file is.                     *)
BloqueDelDato(fcb, i) ==
  LET b == i \div SIZE_BLOQUE
  IN  IF b = 0 THEN fcb.directo ELSE LeerNPuntero(fcb.indirecto, b - 1)

Contenido(fcb) ==
  [i \in 0 .. fcb.tamanio - 1 |->
     Unidad(BloqueDelDato(fcb, i) * SIZE_BLOQUE + (i % SIZE_BLOQUE))]

Legible(f) == disco[f] # Nulo /\ disco[f] # Vacio
Legibles == {f \in Archivos : Legible(f)}

(* The blocks that are in two places, of two files or of one.              *)
Repetidos ==
  {b \in Bloques : \E f, g \in Legibles :
     \E i \in DOMAIN BloquesDe(disco[f]), j \in DOMAIN BloquesDe(disco[g]) :
       /\ ~(f = g /\ i = j)
       /\ BloqueDe(disco[f], i) = b /\ BloqueDe(disco[g], j) = b}

(* A disk in order: the blocks that the FCBs reach are marked, and a block *)
(* of pointers is nothing else. Blocks of data may be shared: those of     *)
(* this program are, because asignar_puntero_directo does not give the     *)
(* file the block it takes, and every file keeps what malloc left.         *)
EnOrden ==
  \A f \in Legibles :
    LET k == HaciaArriba(disco[f].tamanio)
    IN  /\ k - 1 <= SIZE_BLOQUE
        /\ \A j \in 1 .. Largo(k) : BloqueDe(disco[f], j) \in bitmap
        /\ k >= 2 => disco[f].indirecto \notin Repetidos

-----------------------------------------------------------------------------
(* Start: inicializar_estructuras.                                         *)

(* cargar_fcb computes cantidad_bloques_asignados from the size.           *)
CargarFcb(f) ==
  IF disco[f] = Nulo THEN Nulo
  ELSE [tamanio |-> disco[f].tamanio, directo |-> disco[f].directo,
        indirecto |-> disco[f].indirecto,
        cantidad |-> HaciaArriba(disco[f].tamanio)]

(* The process has not started yet.                                        *)
Init ==
  /\ \E d \in Discos : disco = d.fcbs /\ bloques = d.bloques /\ bitmap = d.bitmap
  /\ fcbs = [f \in Archivos |-> Nulo]
  /\ vivo = FALSE /\ op = EnReposo
  /\ pedidos = 0 /\ caidas = 0
  /\ danio = ~EnOrden /\ compartidos = Repetidos

(* The process is stopped, in the middle of a request or not; the streams  *)
(* that were open are lost, the bitmap and what was closed are not. When a *)
(* file was losing blocks, its FCB on disk still counts them.              *)
Caida ==
  /\ vivo /\ caidas < MaxCaidas
  /\ vivo' = FALSE /\ op' = EnReposo
  /\ fcbs' = [f \in Archivos |-> Nulo]
  /\ caidas' = caidas + 1
  /\ danio' = (danio \/ (op.paso \in {"desasigna", "vacia", "abre"} /\ op.libero))
  /\ UNCHANGED <<bitmap, bloques, disco, pedidos, compartidos>>

(* An FCB file that was left empty has no NOMBRE_ARCHIVO, and abrir_fcbs   *)
(* cannot put it in the dictionary: the process does not start. The counts *)
(* of blocks are right again, so there is damage only if it is on disk.    *)
Arranca ==
  /\ ~vivo /\ \A f \in Archivos : disco[f] # Vacio
  /\ vivo' = TRUE
  /\ fcbs' = [f \in Archivos |-> CargarFcb(f)]
  /\ danio' = ~EnOrden /\ compartidos' = Repetidos
  /\ UNCHANGED <<bitmap, bloques, disco, op, pedidos, caidas>>

-----------------------------------------------------------------------------
(* F_OPEN, the creation of files, and how a request ends.                  *)

Recibe == vivo /\ op = EnReposo /\ pedidos < MaxPedidos /\ pedidos' = pedidos + 1

Pedido(tipo, f, paso) ==
  [tipo |-> tipo, archivo |-> f, paso |-> paso, nuevo |-> 0, faltan |-> 0,
   escritos |-> <<>>, esperado |-> <<>>, datos |-> <<>>, libero |-> FALSE]

Sigue(paso) == op' = [op EXCEPT !.paso = paso]

(* The kernel creates the file that F_OPEN did not find: kernel.c:359-364. *)
Abrir(f) ==
  /\ Recibe /\ fcbs[f] # Nulo
  /\ op' = Pedido("F_OPEN", f, "responde")
  /\ UNCHANGED <<bitmap, bloques, disco, fcbs, vivo, caidas, historia>>

(* crear_archivo: malloc leaves any value in puntero_directo, and the FCB  *)
(* file is opened before and while it is written.                          *)
CrearArchivo(f) ==
  /\ Recibe /\ fcbs[f] = Nulo
  /\ \E directo \in Directos :
       fcbs' = [fcbs EXCEPT ![f] = [tamanio |-> 0, directo |-> directo,
                                    indirecto |-> 0, cantidad |-> 0]]
  /\ disco' = [disco EXCEPT ![f] = Vacio]
  /\ op' = Pedido("KERNEL_CREAR_ARCHIVO", f, "cierra")
  /\ UNCHANGED <<bitmap, bloques, vivo, caidas, historia>>

(* persistir_fcb opens the file, which empties it...                       *)
AbreFcb ==
  /\ vivo /\ op.paso = "abre"
  /\ fcbs' = [fcbs EXCEPT ![op.archivo].tamanio = op.nuevo]
  /\ disco' = [disco EXCEPT ![op.archivo] = Vacio]
  /\ Sigue("cierra")
  /\ UNCHANGED <<bitmap, bloques, vivo, pedidos, caidas, historia>>

(* ... and closes it, which writes it.                                     *)
CierraFcb ==
  /\ vivo /\ op.paso = "cierra"
  /\ disco' = [disco EXCEPT ![op.archivo] =
                 [tamanio |-> fcbs[op.archivo].tamanio,
                  directo |-> fcbs[op.archivo].directo,
                  indirecto |-> fcbs[op.archivo].indirecto]]
  /\ Sigue("responde")
  /\ UNCHANGED <<bitmap, bloques, fcbs, vivo, pedidos, caidas, historia>>

Responde ==
  /\ vivo /\ op.paso = "responde"
  /\ op' = EnReposo
  /\ UNCHANGED <<bitmap, bloques, disco, fcbs, vivo, pedidos, caidas, historia>>

-----------------------------------------------------------------------------
(* F_TRUNCATE.                                                             *)

Fcb == fcbs[op.archivo]
CambiaFcb(fcb) == fcbs' = [fcbs EXCEPT ![op.archivo] = fcb]

(* The growths after which the FCB in memory is wrong: from no block,      *)
(* because asignar_puntero_directo keeps the number of the block it takes  *)
(* in cantidad_bloques_asignados and not in puntero_directo; from one      *)
(* block, because asignar_bloques starts at the second pointer; when the   *)
(* block of pointers is not enough for all the pointers that are written,  *)
(* as many as if the file had one block; when the bitmap is full.          *)
PunterosAEscribir(n) == HaciaArriba(n - SIZE_BLOQUE)
DaninaAlCrecer(fcb, n) ==
  /\ fcb.cantidad < HaciaArriba(n)
  /\ \/ fcb.cantidad < 2
     \/ fcb.cantidad - 1 + PunterosAEscribir(n) > SIZE_BLOQUE
     \/ PunterosAEscribir(n) > Cardinality(Bloques \ bitmap)

(* The reductions that free a block which is also in a place that stays.   *)
DaninaAlReducir(f, n) ==
  LET ajenos == UNION {ToSet(BloquesDe(disco[g])) : g \in Legibles \ {f}}
      quedan == ajenos \union {BloqueDe(fcbs[f], i) : i \in 1 .. Largo(HaciaArriba(n))}
  IN  \E j \in Largo(HaciaArriba(n)) + 1 .. Largo(fcbs[f].cantidad) :
        BloqueDe(fcbs[f], j) \in quedan

Danina(f, n) == DaninaAlCrecer(fcbs[f], n) \/ DaninaAlReducir(f, n)

(* What a truncation should keep, when cantidad_bloques_asignados is right *)
(* (it is not after a growth, until the next start).                       *)
Conservado(fcb, n) ==
  IF fcb.cantidad = HaciaArriba(fcb.tamanio)
  THEN [i \in 0 .. Min({n, fcb.tamanio}) - 1 |-> Contenido(fcb)[i]] ELSE <<>>

(* actualizar_tamanio_bloques chooses among growing, shrinking and neither *)
Truncar(f, n) ==
  LET fcb == fcbs[f]
      base == [Pedido("F_TRUNCATE", f, "abre") EXCEPT
                 !.nuevo = n, !.esperado = Conservado(fcb, n)]
      cantidad == fcb.cantidad
      nuevos == HaciaArriba(n)
  IN  /\ Recibe /\ fcb # Nulo
      /\ op' = IF cantidad = 0 /\ nuevos > 0
               THEN [base EXCEPT !.paso = "directo", !.faltan = PunterosAEscribir(n)]
               ELSE IF cantidad < nuevos
               THEN [base EXCEPT !.paso = IF cantidad = 1 THEN "indirecto" ELSE "asigna",
                                 !.faltan = PunterosAEscribir(n)]
               ELSE IF cantidad > nuevos
               THEN [base EXCEPT !.paso = "desasigna",
                                 !.faltan = IF nuevos = 0 THEN cantidad - 1
                                            ELSE cantidad - nuevos]
               ELSE base
      /\ danio' = (danio \/ Danina(f, n))
      /\ UNCHANGED <<bitmap, bloques, disco, fcbs, vivo, caidas, compartidos>>

(* truncar_archivo of a file that has no FCB answers AUX_ERROR.            *)
TruncarInexistente(f) ==
  /\ Recibe /\ fcbs[f] = Nulo
  /\ op' = Pedido("AUX_ERROR", f, "responde")
  /\ UNCHANGED <<bitmap, bloques, disco, fcbs, vivo, caidas, historia>>

(* asignar_puntero_directo, called by asignar_bloques_archivo_vacio: the   *)
(* count it sets replaces the one its caller had added.                    *)
AsignaPunteroDirecto ==
  /\ vivo /\ op.paso = "directo"
  /\ MarcaOcupado(BloqueLibre)
  /\ CambiaFcb([Fcb EXCEPT
       !.cantidad = BloqueLibre + (IF op.nuevo <= SIZE_BLOQUE THEN 2 ELSE 1),
       !.tamanio = @ + SIZE_BLOQUE])
  /\ Sigue(IF op.nuevo <= SIZE_BLOQUE THEN "abre" ELSE "indirecto")
  /\ UNCHANGED <<bloques, disco, vivo, pedidos, caidas, historia>>

AsignaPunteroIndirecto ==
  /\ vivo /\ op.paso = "indirecto"
  /\ MarcaOcupado(BloqueLibre)
  /\ CambiaFcb([Fcb EXCEPT !.indirecto = BloqueLibre, !.cantidad = @ + 1])
  /\ Sigue("asigna")
  /\ UNCHANGED <<bloques, disco, vivo, pedidos, caidas, historia>>

(* Faulty variant: the block is not marked.                                *)
AsignaBloqueSinMarcar ==
  /\ vivo /\ op.paso = "asigna" /\ op.faltan > 0
  /\ op' = [op EXCEPT !.faltan = @ - 1, !.escritos = Append(@, BloqueLibre)]
  /\ UNCHANGED <<bitmap, bloques, disco, fcbs, vivo, pedidos, caidas, historia>>

(* asignar_bloques, a turn: the bitmap is synchronised, the pointer waits  *)
(* in the stream.                                                          *)
AsignaBloque ==
  /\ vivo /\ op.paso = "asigna" /\ op.faltan > 0
  /\ MarcaOcupado(BloqueLibre)
  /\ op' = [op EXCEPT !.faltan = @ - 1, !.escritos = Append(@, BloqueLibre)]
  /\ UNCHANGED <<bloques, disco, fcbs, vivo, pedidos, caidas, historia>>

(* Faulty variant: the pointers start at the first one.                    *)
CierraBloquesDesdeElPrimero ==
  /\ vivo /\ op.paso = "asigna" /\ op.faltan = 0
  /\ Escribe(Fcb.indirecto * SIZE_BLOQUE, op.escritos)
  /\ Sigue("abre")
  /\ UNCHANGED <<bitmap, disco, fcbs, vivo, pedidos, caidas, historia>>

(* The pointers go after the ones of cantidad_bloques_asignados, which     *)
(* this growth leaves as it was.                                           *)
CierraBloques ==
  /\ vivo /\ op.paso = "asigna" /\ op.faltan = 0
  /\ Escribe(Fcb.indirecto * SIZE_BLOQUE + Fcb.cantidad - 1, op.escritos)
  /\ Sigue("abre")
  /\ UNCHANGED <<bitmap, disco, fcbs, vivo, pedidos, caidas, historia>>

(* Faulty variant: frees the first pointer and not the last.               *)
DesasignaPrimerBloque ==
  /\ vivo /\ op.paso = "desasigna" /\ op.faltan > 0
  /\ MarcaLibre(LeerNPuntero(Fcb.indirecto, 0))
  /\ CambiaFcb([Fcb EXCEPT !.cantidad = @ - 1, !.tamanio = @ - SIZE_BLOQUE])
  /\ op' = [op EXCEPT !.faltan = @ - 1, !.libero = TRUE]
  /\ UNCHANGED <<bloques, disco, vivo, pedidos, caidas, historia>>

(* Faulty variant: one turn too many.                                      *)
DesasignaUnoDeMas ==
  /\ vivo /\ op.paso = "desasigna" /\ op.faltan >= 0
  /\ MarcaLibre(LeerNPuntero(Fcb.indirecto, Fcb.cantidad - 2))
  /\ CambiaFcb([Fcb EXCEPT !.cantidad = @ - 1, !.tamanio = @ - SIZE_BLOQUE])
  /\ op' = [op EXCEPT !.faltan = @ - 1, !.libero = TRUE]
  /\ UNCHANGED <<bloques, disco, vivo, pedidos, caidas, historia>>

(* desasignar_ultimo_bloque.                                               *)
DesasignaUltimoBloque ==
  /\ vivo /\ op.paso = "desasigna" /\ op.faltan > 0
  /\ MarcaLibre(LeerNPuntero(Fcb.indirecto, Fcb.cantidad - 2))
  /\ CambiaFcb([Fcb EXCEPT !.cantidad = @ - 1, !.tamanio = @ - SIZE_BLOQUE])
  /\ op' = [op EXCEPT !.faltan = @ - 1, !.libero = TRUE]
  /\ UNCHANGED <<bloques, disco, vivo, pedidos, caidas, historia>>

(* The end of desasignar_bloques: with one block left, the block of        *)
(* pointers is free too. vaciar_archivo does not come here when the file   *)
(* had one block from the start, and then frees the direct one.            *)
DesasignaIndirecto ==
  /\ vivo /\ op.paso = "desasigna" /\ op.faltan = 0
  /\ IF Fcb.cantidad = 1 /\ op.libero
     THEN MarcaLibre(Fcb.indirecto) /\ CambiaFcb([Fcb EXCEPT !.indirecto = 0])
     ELSE UNCHANGED <<bitmap, fcbs>>
  /\ Sigue(IF op.nuevo = 0 THEN "vacia" ELSE "abre")
  /\ UNCHANGED <<bloques, disco, vivo, pedidos, caidas, historia>>

(* Faulty variant: returns without persistir_fcb.                          *)
DesasignaDirectoSinPersistir ==
  /\ vivo /\ op.paso = "vacia"
  /\ MarcaLibre(Fcb.directo)
  /\ CambiaFcb([Fcb EXCEPT !.directo = 0, !.cantidad = 0, !.tamanio = 0])
  /\ op' = [op EXCEPT !.paso = "responde", !.libero = TRUE]
  /\ UNCHANGED <<bloques, disco, vivo, pedidos, caidas, historia>>

(* The end of vaciar_archivo.                                              *)
DesasignaDirecto ==
  /\ vivo /\ op.paso = "vacia"
  /\ MarcaLibre(Fcb.directo)
  /\ CambiaFcb([Fcb EXCEPT !.directo = 0, !.cantidad = 0, !.tamanio = 0])
  /\ op' = [op EXCEPT !.paso = "abre", !.libero = TRUE]
  /\ UNCHANGED <<bloques, disco, vivo, pedidos, caidas, historia>>

-----------------------------------------------------------------------------
(* F_READ and F_WRITE, of an open file and inside its size.                *)

(* Faulty variant: the position inside the block is forgotten.             *)
LeidoDesdeElBloque(fcb, puntero, n) ==
  LET primero == Min({n, SIZE_BLOQUE - ObtenerPosicionEnBloque(puntero)})
  IN  [i \in 0 .. n - 1 |->
         IF i < primero
         THEN Unidad(ObtenerBloqueAbsoluto(fcb, puntero) * SIZE_BLOQUE + i)
         ELSE Basura]

(* leer_archivo closes the file of blocks in the first turn of its loop;   *)
(* what the other turns read from a closed stream is anything.             *)
Leido(fcb, puntero, n) ==
  LET primero == Min({n, SIZE_BLOQUE - ObtenerPosicionEnBloque(puntero)})
  IN  [i \in 0 .. n - 1 |->
         IF i < primero
         THEN Unidad(ObtenerPosicionAbsoluta(fcb, puntero) + i)
         ELSE Basura]

LeerArchivo(f, puntero, n) ==
  /\ Recibe /\ fcbs[f] # Nulo /\ puntero + n <= fcbs[f].tamanio
  /\ op' = [tipo |-> "F_READ", archivo |-> f, paso |-> "responde",
            puntero |-> puntero, total |-> n, datos |-> Leido(fcbs[f], puntero, n)]
  /\ UNCHANGED <<bitmap, bloques, disco, fcbs, vivo, caidas, historia>>

EscribirArchivo(f, puntero, n) ==
  /\ Recibe /\ fcbs[f] # Nulo /\ puntero + n <= fcbs[f].tamanio
  /\ op' = [tipo |-> "F_WRITE", archivo |-> f, paso |-> "escribe",
            bloque |-> ObtenerBloqueAbsoluto(fcbs[f], puntero),
            posicion |-> ObtenerPosicionAbsoluta(fcbs[f], puntero),
            espacio |-> SIZE_BLOQUE - ObtenerPosicionEnBloque(puntero),
            total |-> n, escritos |-> 0,
            esperado |-> [i \in 0 .. fcbs[f].tamanio - 1 |->
               IF i >= puntero /\ i < puntero + n THEN Dato(i - puntero + 1)
               ELSE Contenido(fcbs[f])[i]]]
  /\ UNCHANGED <<bitmap, bloques, disco, fcbs, vivo, caidas, historia>>

(* One turn of escribir_archivo: the rest of the first block, whole blocks *)
(* and the beginning of the last one. Each turn opens and closes the file  *)
(* of blocks.                                                              *)
EscribeTramo ==
  /\ vivo /\ op.paso = "escribe"
  /\ LET lleno == op.espacio = 0
         bloque == IF lleno THEN BuscarSiguienteBloque(op.bloque, Fcb) ELSE op.bloque
         posicion == IF lleno THEN bloque * SIZE_BLOQUE ELSE op.posicion
         espacio == IF lleno THEN SIZE_BLOQUE ELSE op.espacio
         cuanto == Min({espacio, op.total - op.escritos})
     IN  /\ Escribe(posicion, [i \in 1 .. cuanto |-> Dato(op.escritos + i)])
         /\ op' = [op EXCEPT
              !.bloque = bloque, !.posicion = posicion, !.espacio = 0,
              !.escritos = @ + cuanto,
              !.paso = IF op.escritos + cuanto = op.total THEN "responde" ELSE @]
  /\ UNCHANGED <<bitmap, disco, fcbs, vivo, pedidos, caidas, historia>>

Next ==
  \/ \E f \in Archivos :
       \/ Abrir(f) \/ CrearArchivo(f) \/ TruncarInexistente(f)
       \/ \E n \in Tamanios : Truncar(f, n)
       \/ \E p \in Punteros, n \in Cantidades :
            LeerArchivo(f, p, n) \/ EscribirArchivo(f, p, n)
  \/ AsignaPunteroDirecto \/ AsignaPunteroIndirecto
  \/ AsignaBloque \/ CierraBloques
  \/ DesasignaUltimoBloque \/ DesasignaIndirecto \/ DesasignaDirecto
  \/ AbreFcb \/ CierraFcb \/ EscribeTramo \/ Responde
  \/ Caida \/ Arranca

Spec == Init /\ [][Next]_vars

-----------------------------------------------------------------------------
(* Properties.                                                             *)

Pasos == {"libre", "directo", "indirecto", "asigna", "desasigna", "vacia",
          "abre", "cierra", "escribe", "responde"}

(* Type correctness; a process that is stopped holds no request, and the   *)
(* blocks left to take or to give back are never negative.                 *)
TypeOK ==
  /\ bitmap \subseteq Bloques /\ bloques \in [Unidades -> Int]
  /\ \A f \in Archivos :
       /\ disco[f] \in {Nulo, Vacio} \/ disco[f].tamanio \in Nat
       /\ fcbs[f] = Nulo \/ fcbs[f].cantidad \in Nat
  /\ vivo \in BOOLEAN /\ danio \in BOOLEAN /\ compartidos \subseteq Bloques
  /\ pedidos \in 0 .. MaxPedidos /\ caidas \in 0 .. MaxCaidas
  /\ op.paso \in Pasos /\ (~vivo => op = EnReposo)
  /\ op.paso \in {"asigna", "desasigna"} => op.faltan \in Nat

(* Between requests the FCB on disk is the one in memory, so that a stop   *)
(* then loses nothing: persistir_fcb is the last thing a request does.     *)
FcbPersistido ==
  vivo /\ op.paso \in {"libre", "responde"} =>
    \A f \in Archivos :
      \/ disco[f] = Nulo /\ fcbs[f] = Nulo
      \/ /\ Legible(f)
         /\ disco[f] = [tamanio |-> fcbs[f].tamanio, directo |-> fcbs[f].directo,
                        indirecto |-> fcbs[f].indirecto]

(* By the FCBs on disk, which are what the next start will believe, no     *)
(* block comes to be in two files or twice in one but those that the start *)
(* found so: a truncation takes only free blocks and its pointers do not   *)
(* fall on those of the file, wherever it was stopped and however late     *)
(* cantidad_bloques_asignados is. From a disk in order, and not after one  *)
(* of the truncations of Danina nor a stop while a file was shrinking.     *)
SinCompartir ==
  ~danio =>
    \A f, g \in Legibles :
      \A i \in DOMAIN BloquesDe(disco[f]), j \in DOMAIN BloquesDe(disco[g]) :
        BloqueDe(disco[f], i) = BloqueDe(disco[g], j) =>
          \/ f = g /\ i = j
          \/ BloqueDe(disco[f], i) \in compartidos

(* Between requests every block of a file is marked in the bitmap, on a    *)
(* disk in order: the next growth cannot take it.                          *)
BloquesOcupados ==
  ~danio /\ op.paso \in {"libre", "responde"} =>
    \A f \in Legibles : ToSet(BloquesDe(disco[f])) \subseteq bitmap

(* A step that serves a file, on a disk in order, leaves the FCB of every  *)
(* other and its contents, but for those in blocks that the start found    *)
(* shared: neither the data of escribir_archivo nor the pointers of        *)
(* asignar_bloques land on blocks of others.                               *)
AjenosIntactos ==
  [][~danio' /\ op.paso # "libre" =>
       \A f \in Legibles \ {op.archivo} :
         /\ disco'[f] = disco[f]
         /\ \A i \in 0 .. disco[f].tamanio - 1 :
              BloqueDelDato(disco[f], i) \notin compartidos =>
                (Contenido(disco[f])[i])' = Contenido(disco[f])[i]]_vars

(* When F_WRITE answers, on a disk in order, a file with no block twice    *)
(* holds the data at the pointer, in order across blocks, and what it held *)
(* elsewhere.                                                              *)
EscrituraFiel ==
  /\ ~danio /\ op.paso = "responde" /\ op.tipo = "F_WRITE"
  /\ IsInjective(BloquesDe(fcbs[op.archivo]))
  => Contenido(fcbs[op.archivo]) = op.esperado

(* When F_TRUNCATE answers, on a disk in order, the file has the size and, *)
(* if the count of its blocks was right, the data that fits in both sizes. *)
TruncarConserva ==
  ~danio /\ op.paso = "responde" /\ op.tipo = "F_TRUNCATE" =>
    /\ fcbs[op.archivo].tamanio = op.nuevo
    /\ \A i \in DOMAIN op.esperado :
         Contenido(fcbs[op.archivo])[i] = op.esperado[i]

(* F_READ inside a block answers what the file holds there.                *)
LecturaFiel ==
  /\ op.paso = "responde" /\ op.tipo = "F_READ"
  /\ (op.puntero % SIZE_BLOQUE) + op.total <= SIZE_BLOQUE
  => \A i \in DOMAIN op.datos :
        op.datos[i] = Contenido(fcbs[op.archivo])[op.puntero + i]
=============================================================================
