-------------------------- MODULE FileSystemProofs --------------------------
(***************************************************************************)
(* Proofs about FileSystem: types, the FCBs on disk and what F_READ        *)
(* answers, unconditionally; and, from a start that finds the disk in      *)
(* order (EnOrden) until a truncation of Danina or a stop while shrinking, *)
(* that no block comes to be shared, that the blocks of the files are      *)
(* marked, that a request touches no other file, and what F_TRUNCATE keeps *)
(* and F_WRITE leaves.                                                     *)
(***************************************************************************)
EXTENDS FileSystem, LemasListas, FiniteSetTheorems, TLAPS

-----------------------------------------------------------------------------
(* The invariant, part 1: types, and FCBs in memory and on disk.           *)

FcbsEnMemoria == [tamanio : Int, directo : Int, indirecto : Int, cantidad : Nat]

EnCambio == {"directo", "indirecto", "asigna", "desasigna", "vacia", "abre"}
Truncando == EnCambio \union {"cierra"}

CamposPedido == {"tipo", "archivo", "paso", "nuevo", "faltan", "escritos",
                 "esperado", "datos", "libero"}

EsPedido(o) ==
  /\ DOMAIN o = CamposPedido
  /\ o.paso \in Truncando \union {"responde"}
  /\ o.tipo \in {"F_OPEN", "KERNEL_CREAR_ARCHIVO", "F_TRUNCATE", "AUX_ERROR"}
  /\ o.archivo \in Archivos
  /\ o.nuevo \in Nat /\ o.faltan \in Nat /\ o.libero \in BOOLEAN
  /\ o.escritos \in Seq(Int)

EsLectura(o) ==
  /\ DOMAIN o = {"tipo", "archivo", "paso", "puntero", "total", "datos"}
  /\ o.tipo = "F_READ" /\ o.paso = "responde" /\ o.archivo \in Archivos
  /\ o.puntero \in Nat /\ o.total \in Nat \ {0}

EsEscritura(o) ==
  /\ DOMAIN o = {"tipo", "archivo", "paso", "bloque", "posicion", "espacio",
                 "total", "escritos", "esperado"}
  /\ o.tipo = "F_WRITE" /\ o.paso \in {"escribe", "responde"}
  /\ o.archivo \in Archivos
  /\ o.bloque \in Int /\ o.posicion \in Int /\ o.espacio \in 0 .. SIZE_BLOQUE
  /\ o.total \in Nat \ {0} /\ o.escritos \in 0 .. o.total
  /\ o.paso = "escribe" <=> o.escritos < o.total

(* The step, the request and the FCB it works on.                          *)
TipoOp ==
  /\ op = EnReposo \/ EsPedido(op) \/ EsLectura(op) \/ EsEscritura(op)
  /\ op.paso \in Truncando \union {"escribe"} => fcbs[op.archivo] # Nulo
  /\ op.paso = "desasigna" => op.faltan <= fcbs[op.archivo].cantidad
  /\ op.paso = "cierra" => fcbs[op.archivo].tamanio \in Nat

TipoFS ==
  /\ bitmap \subseteq Bloques /\ bloques \in [Unidades -> Int]
  /\ disco \in [Archivos -> {Nulo, Vacio} \union FcbsDeDisco]
  /\ fcbs \in [Archivos -> {Nulo} \union FcbsEnMemoria]
  /\ vivo \in BOOLEAN /\ danio \in BOOLEAN
  /\ pedidos \in 0 .. MaxPedidos /\ caidas \in 0 .. MaxCaidas
  /\ ~vivo => op = EnReposo
  /\ TipoOp

EnDisco(fcb) ==
  [tamanio |-> fcb.tamanio, directo |-> fcb.directo, indirecto |-> fcb.indirecto]

(* The file that is being truncated or created has its own rules; any      *)
(* other is on disk as it is in memory.                                    *)
Persistencia ==
  \A f \in Archivos :
    \/ ~vivo /\ fcbs[f] = Nulo
    \/ /\ vivo /\ op.paso \notin Truncando
       /\ \/ disco[f] = Nulo /\ fcbs[f] = Nulo
          \/ fcbs[f] # Nulo /\ disco[f] = EnDisco(fcbs[f])
    \/ /\ vivo /\ op.paso \in Truncando /\ f # op.archivo
       /\ \/ disco[f] = Nulo /\ fcbs[f] = Nulo
          \/ fcbs[f] # Nulo /\ disco[f] = EnDisco(fcbs[f])
    \/ vivo /\ op.paso \in EnCambio /\ f = op.archivo /\ Legible(f)
    \/ vivo /\ op.paso = "cierra" /\ f = op.archivo /\ disco[f] = Vacio

LecturaHecha ==
  op.paso = "responde" /\ op.tipo = "F_READ" =>
    /\ fcbs[op.archivo] # Nulo
    /\ op.datos = Leido(fcbs[op.archivo], op.puntero, op.total)
    /\ op.puntero + op.total <= fcbs[op.archivo].tamanio

InvFcbs == TipoFS /\ Persistencia /\ LecturaHecha

-----------------------------------------------------------------------------
(* Part 2, while there is no damage: the blocks. The j-th block of a file  *)
(* with these FCB fields, for the contents m of the file of blocks. Only   *)
(* blocks of data that the start found shared are in two places.           *)

UnidadEn(m, u) == IF u \in Unidades THEN m[u] ELSE Basura
PunteroEn(m, e, n) == UnidadEn(m, e * SIZE_BLOQUE + n)

BloqueN(m, d, e, j) ==
  IF j = 1 THEN d ELSE IF j = 2 THEN e ELSE PunteroEn(m, e, j - 3)

Sana(m, d, e, k) ==
  /\ k - 1 <= SIZE_BLOQUE
  /\ \A j \in 1 .. Largo(k) : BloqueN(m, d, e, j) \in Bloques
  /\ \A i, j \in 1 .. Largo(k) :
       BloqueN(m, d, e, i) = BloqueN(m, d, e, j) =>
         i = j \/ BloqueN(m, d, e, i) \in compartidos
  /\ k >= 2 => e \notin compartidos

Ajenas(m, d, e, k, dd, ee, kk) ==
  \A i \in 1 .. Largo(k), j \in 1 .. Largo(kk) :
    BloqueN(m, d, e, i) = BloqueN(m, dd, ee, j) => BloqueN(m, d, e, i) \in compartidos

Marcada(m, d, e, k, marcas) == \A j \in 1 .. Largo(k) : BloqueN(m, d, e, j) \in marcas

(* The blocks of data of a file by its FCB on disk.                        *)
K(f) == HaciaArriba(disco[f].tamanio)

Sanos ==
  \A f \in Archivos :
    Legible(f) => Sana(bloques, disco[f].directo, disco[f].indirecto, K(f))

Separados ==
  \A f, g \in Archivos :
    f # g /\ Legible(f) /\ Legible(g) =>
      Ajenas(bloques, disco[f].directo, disco[f].indirecto, K(f),
             disco[g].directo, disco[g].indirecto, K(g))

(* A file that is giving blocks back has some that are not marked.         *)
Liberando == op.paso \in {"desasigna", "vacia", "abre"} /\ op.libero

Ocupados ==
  \A f \in Archivos :
    Legible(f) /\ ~(Liberando /\ f = op.archivo) =>
      Marcada(bloques, disco[f].directo, disco[f].indirecto, K(f), bitmap)

(* cantidad_bloques_asignados is late only for files of two blocks or more *)
Cuentas ==
  vivo => \A f \in Archivos :
    fcbs[f] # Nulo /\ ~(op.paso \in Truncando /\ f = op.archivo) =>
      /\ fcbs[f].cantidad <= K(f)
      /\ fcbs[f].cantidad < 2 => fcbs[f].cantidad = K(f)

DelDisco(f) == fcbs[f].directo = disco[f].directo /\ fcbs[f].indirecto = disco[f].indirecto

EnAsigna ==
  op.paso = "asigna" =>
    /\ DelDisco(op.archivo) /\ ~op.libero
    /\ Fcb.cantidad >= 2 /\ Fcb.cantidad <= K(op.archivo)
    /\ Fcb.cantidad < HaciaArriba(op.nuevo)
    /\ Fcb.cantidad - 1 + PunterosAEscribir(op.nuevo) <= SIZE_BLOQUE
    /\ Len(op.escritos) + op.faltan = PunterosAEscribir(op.nuevo)
    /\ op.faltan <= Cardinality(Bloques \ bitmap)
    /\ \A i \in 1 .. Len(op.escritos) : op.escritos[i] \in bitmap
    /\ \A i, j \in 1 .. Len(op.escritos) : op.escritos[i] = op.escritos[j] => i = j
    /\ \A f \in Archivos : Legible(f) =>
         \A i \in 1 .. Len(op.escritos), j \in 1 .. Largo(K(f)) :
           op.escritos[i] # BloqueN(bloques, disco[f].directo, disco[f].indirecto, j)

(* desasignar_bloques leaves one block, that vaciar_archivo then frees.    *)
Restan(n) == IF n = 0 THEN 1 ELSE HaciaArriba(n)

(* The places that a reduction empties hold no block of those that stay.   *)
NoEsDeOtro(b) ==
  \A g \in Archivos : Legible(g) /\ g # op.archivo =>
    \A i \in 1 .. Largo(K(g)) : b # BloqueN(bloques, disco[g].directo, disco[g].indirecto, i)

SeVan(k) ==
  \A j \in Largo(HaciaArriba(op.nuevo)) + 1 .. Largo(k) :
    /\ NoEsDeOtro(BloqueN(bloques, Fcb.directo, Fcb.indirecto, j))
    /\ \A i \in 1 .. Largo(HaciaArriba(op.nuevo)) :
         BloqueN(bloques, Fcb.directo, Fcb.indirecto, j)
           # BloqueN(bloques, Fcb.directo, Fcb.indirecto, i)

EnDesasigna ==
  op.paso = "desasigna" =>
    /\ DelDisco(op.archivo)
    /\ Fcb.cantidad = op.faltan + Restan(op.nuevo)
    /\ Fcb.cantidad >= 1 /\ Fcb.cantidad <= K(op.archivo)
    /\ op.libero => K(op.archivo) >= 2
    /\ Marcada(bloques, Fcb.directo, Fcb.indirecto, HaciaArriba(op.nuevo), bitmap)
    /\ SeVan(Fcb.cantidad)

EnVacia ==
  op.paso = "vacia" =>
    /\ op.nuevo = 0 /\ Fcb.directo = disco[op.archivo].directo /\ K(op.archivo) >= 1
    /\ NoEsDeOtro(Fcb.directo)

(* What the FCB in memory will make of the file.                           *)
EnAbre ==
  op.paso \in {"abre", "cierra"} =>
    /\ Sana(bloques, Fcb.directo, Fcb.indirecto, HaciaArriba(op.nuevo))
    /\ Marcada(bloques, Fcb.directo, Fcb.indirecto, HaciaArriba(op.nuevo), bitmap)
    /\ \A f \in Archivos : Legible(f) /\ f # op.archivo =>
         Ajenas(bloques, disco[f].directo, disco[f].indirecto, K(f),
                Fcb.directo, Fcb.indirecto, HaciaArriba(op.nuevo))
    /\ Fcb.cantidad <= HaciaArriba(op.nuevo)
    /\ Fcb.cantidad < 2 => Fcb.cantidad = HaciaArriba(op.nuevo)
    /\ op.paso = "cierra" => Fcb.tamanio = op.nuevo

(* The i-th unit of a file.                                                *)
BloqueDeDatos(m, d, e, n) == IF n = 0 THEN d ELSE PunteroEn(m, e, n - 1)

ValorEn(m, d, e, i) ==
  UnidadEn(m, BloqueDeDatos(m, d, e, i \div SIZE_BLOQUE) * SIZE_BLOQUE + (i % SIZE_BLOQUE))

(* No block is twice in the file of this FCB.                              *)
SinRepetir(fcb) ==
  \A i, j \in 1 .. Largo(HaciaArriba(fcb.tamanio)) :
    BloqueN(bloques, fcb.directo, fcb.indirecto, i)
      = BloqueN(bloques, fcb.directo, fcb.indirecto, j) => i = j

(* The turns of escribir_archivo follow the blocks of the file; when one   *)
(* is in two places, the next may be one that comes before.                *)
EnEscribe ==
  op.tipo = "F_WRITE" =>
    /\ op.esperado = [i \in 0 .. Fcb.tamanio - 1 |-> op.esperado[i]]
    /\ \E p \in 0 .. Fcb.tamanio :
         /\ p + op.total <= Fcb.tamanio
         /\ op.escritos < op.total =>
              IF op.espacio = 0
              THEN /\ (p + op.escritos) % SIZE_BLOQUE = 0 /\ p + op.escritos > 0
                   /\ \E k \in 0 .. ((p + op.escritos) \div SIZE_BLOQUE) - 1 :
                        /\ op.bloque = BloqueDeDatos(bloques, Fcb.directo, Fcb.indirecto, k)
                        /\ SinRepetir(Fcb) => k = ((p + op.escritos) \div SIZE_BLOQUE) - 1
              ELSE /\ op.bloque = BloqueDeDatos(bloques, Fcb.directo, Fcb.indirecto,
                                    (p + op.escritos) \div SIZE_BLOQUE)
                   /\ op.posicion = op.bloque * SIZE_BLOQUE + ((p + op.escritos) % SIZE_BLOQUE)
                   /\ op.espacio = SIZE_BLOQUE - ((p + op.escritos) % SIZE_BLOQUE)
         /\ SinRepetir(Fcb) =>
              \A i \in 0 .. Fcb.tamanio - 1 :
                /\ i >= p /\ i < p + op.total => op.esperado[i] = Dato(i - p + 1)
                /\ i < p + op.escritos \/ i >= p + op.total =>
                     op.esperado[i] = ValorEn(bloques, Fcb.directo, Fcb.indirecto, i)

BloquesBien ==
  /\ Sanos /\ Separados /\ Ocupados /\ Cuentas
  /\ op.paso \notin {"directo", "indirecto"}
  /\ EnAsigna /\ EnDesasigna /\ EnVacia /\ EnAbre
  /\ op.paso \in {"escribe", "responde"} => EnEscribe

InvBloques == ~danio => BloquesBien

-----------------------------------------------------------------------------
(* Part 3: what F_TRUNCATE keeps is still in the blocks that will be left. *)

Conserva ==
  op.tipo = "F_TRUNCATE" =>
    /\ \A i \in DOMAIN op.esperado :
         /\ i \in Nat /\ i < op.nuevo
         /\ op.esperado[i] = ValorEn(bloques, Fcb.directo, Fcb.indirecto, i)
         /\ op.paso \in EnCambio => i < disco[op.archivo].tamanio
         /\ op.paso = "asigna" => i \div SIZE_BLOQUE < Fcb.cantidad
    /\ op.paso = "responde" => Fcb.tamanio = op.nuevo

InvConserva == ~danio /\ op.paso \in Truncando \union {"responde"} => Conserva

-----------------------------------------------------------------------------
(* The arithmetic of blocks.                                               *)

(* Quotient and remainder by the size of a block.                          *)
LEMMA Division ==
  ASSUME NEW n \in Nat
  PROVE  /\ n \div SIZE_BLOQUE \in Nat /\ n % SIZE_BLOQUE \in 0 .. SIZE_BLOQUE - 1
         /\ n = SIZE_BLOQUE * (n \div SIZE_BLOQUE) + (n % SIZE_BLOQUE)
<1>1. SIZE_BLOQUE \in Nat \ {0}
  BY FileSystemOK
<1>2. ASSUME NEW S \in Nat \ {0}
      PROVE  n \div S \in Nat /\ n % S \in 0 .. S - 1 /\ n = S * (n \div S) + (n % S)
  <2>1. n \div S \in Nat
    OBVIOUS
  <2>2. n % S \in 0 .. S - 1
    OBVIOUS
  <2>3. n = S * (n \div S) + (n % S)
    OBVIOUS
  <2>4. QED
    BY <2>1, <2>2, <2>3
<1>3. QED
  BY <1>1, <1>2

(* A unit of a block is of no other block, and has one place in it.        *)
LEMMA UnidadUnica ==
  ASSUME NEW S \in Nat \ {0}, NEW a \in Int, NEW b \in Int,
         NEW i \in 0 .. S - 1, NEW j \in 0 .. S - 1, a * S + i = b * S + j
  PROVE  a = b /\ i = j
<1>1. CASE a < b
  <2>1. (b - a) * S >= S
    BY <1>1
  <2>2. QED
    BY <2>1, <1>1
<1>2. CASE b < a
  <2>1. (a - b) * S >= S
    BY <1>2
  <2>2. QED
    BY <2>1, <1>2
<1>3. QED
  BY <1>1, <1>2

(* The units of the blocks are those of the file of blocks.                *)
LEMMA UnidadDentro ==
  ASSUME NEW b \in Bloques, NEW i \in 0 .. SIZE_BLOQUE - 1
  PROVE  b * SIZE_BLOQUE + i \in Unidades
<1>1. SIZE_BLOQUE \in Nat \ {0} /\ CANTIDAD_BLOQUES \in Nat \ {0}
  BY FileSystemOK
<1>2. ASSUME NEW S \in Nat \ {0}, NEW C \in Nat \ {0}, NEW x \in 0 .. C - 1,
             NEW y \in 0 .. S - 1
      PROVE  x * S + y \in 0 .. C * S - 1
  <2>1. (C - x) * S >= S
    OBVIOUS
  <2>2. QED
    BY <2>1
<1>3. QED
  BY <1>1, <1>2 DEF Bloques, Unidades

(* Rounding up: no block for nothing, one for up to SIZE_BLOQUE units; the *)
(* pointers that asignar_bloques writes are one less than the blocks.      *)
LEMMA Redondeo ==
  ASSUME NEW n \in Nat
  PROVE  /\ HaciaArriba(n) \in Nat
         /\ n = 0 <=> HaciaArriba(n) = 0
         /\ n <= SIZE_BLOQUE <=> HaciaArriba(n) <= 1
         /\ n > 0 => PunterosAEscribir(n) = HaciaArriba(n) - 1
         /\ \A i \in 0 .. n - 1 : i \div SIZE_BLOQUE < HaciaArriba(n)
<1> DEFINE S == SIZE_BLOQUE
           q == (n + S - 1) \div S
           r == (n + S - 1) % S
<1>1. S \in Nat \ {0}
  BY FileSystemOK
<1>2. /\ q \in Nat /\ r \in 0 .. S - 1
      /\ n + S - 1 = S * q + r
  BY <1>1, Division
<1>3. HaciaArriba(n) = q
  BY DEF HaciaArriba
<1> HIDE DEF q, r, S
<1>4. ASSUME q = 0 PROVE n = 0
  BY <1>1, <1>2, <1>4
<1>5. ASSUME q >= 1 PROVE n >= 1
  <2>1. S * q >= S
    BY <1>1, <1>2, <1>5
  <2>2. QED
    BY <1>1, <1>2, <2>1
<1>6. ASSUME q >= 2 PROVE n > S
  <2>1. S * q >= S + S
    BY <1>1, <1>2, <1>6
  <2>2. QED
    BY <1>1, <1>2, <2>1
<1>7. ASSUME q <= 1 PROVE n <= S
  <2>1. S * q <= S
    BY <1>1, <1>2, <1>7
  <2>2. QED
    BY <1>1, <1>2, <2>1
<1>8. ASSUME n > 0 PROVE PunterosAEscribir(n) = q - 1
  <2>1. PICK m \in Nat : m = n - 1
    BY <1>8
  <2>2. /\ m \div S \in Nat /\ m % S \in 0 .. S - 1
        /\ m = S * (m \div S) + (m % S)
    BY Division DEF S
  <2>3. PICK p \in Nat : p = m \div S
    BY <2>2
  <2>4. PICK t \in 0 .. S - 1 : t = m % S
    BY <2>2
  <2>5. (p + 1) * S + t = q * S + r
    <3>1. (p + 1) * S = S * p + S
      BY <1>1
    <3>2. q * S = S * q
      BY <1>1, <1>2
    <3>3. m = S * p + t
      BY <2>2, <2>3, <2>4
    <3>4. S * p \in Nat /\ S * q \in Nat
      BY <1>1, <1>2
    <3>5. QED
      BY <1>1, <1>2, <2>1, <3>1, <3>2, <3>3, <3>4
  <2>6. p + 1 = q
    BY <1>1, <1>2, <2>5, UnidadUnica
  <2>7. PunterosAEscribir(n) = m \div S
    <3>1. n - S + S - 1 = m
      BY <1>1, <2>1
    <3>2. QED
      BY <3>1 DEF PunterosAEscribir, HaciaArriba, S
  <2>8. QED
    BY <1>2, <2>3, <2>6, <2>7
<1>9. ASSUME NEW i \in 0 .. n - 1 PROVE i \div S < q
  <2>1. /\ i \div S \in Nat /\ i % S \in 0 .. S - 1
        /\ i = S * (i \div S) + (i % S)
    BY Division DEF S
  <2>2. PICK p \in Nat : p = i \div S
    BY <2>1
  <2>3. ASSUME p >= q PROVE FALSE
    <3>1. S * p >= S * q
      BY <1>1, <1>2, <2>3
    <3>2. S * p \in Nat /\ S * q \in Nat
      BY <1>1, <1>2
    <3>3. QED
      BY <1>1, <1>2, <2>1, <2>2, <3>1, <3>2
  <2>4. QED
    BY <1>2, <2>2, <2>3
<1>10. QED
  BY <1>1, <1>2, <1>3, <1>4, <1>5, <1>6, <1>7, <1>8, <1>9 DEF S

(* What reading and taking a block give, of the right kind.                *)
LEMMA Leyendo ==
  ASSUME bloques \in [Unidades -> Int]
  PROVE  /\ \A u : Unidad(u) \in Int
         /\ \A b, n : LeerNPuntero(b, n) \in Int
         /\ \A b, n : LeerNPuntero(b, n) = PunteroEn(bloques, b, n)
  BY DEF Unidad, LeerNPuntero, Basura, PunteroEn, UnidadEn

(* bitmap_encontrar_bloque_libre: a free block, or -1 when there is none.  *)
LEMMA Libre ==
  /\ BloqueLibre \in Int /\ BloqueLibre >= -1
  /\ ~(Bloques \subseteq bitmap) => BloqueLibre \in Bloques \ bitmap
<1>1. Bloques \subseteq Nat
  BY FileSystemOK DEF Bloques
<1>2. CASE Bloques \subseteq bitmap
  BY <1>2 DEF BloqueLibre, SinBloque
<1>3. CASE ~(Bloques \subseteq bitmap)
  <2>1. Bloques \ bitmap \in SUBSET Nat /\ Bloques \ bitmap # {}
    BY <1>1, <1>3
  <2>2. Min(Bloques \ bitmap) \in Bloques \ bitmap
    BY <2>1, MinimoDeNaturales
  <2>3. BloqueLibre = Min(Bloques \ bitmap)
    BY <1>3 DEF BloqueLibre
  <2>4. BloqueLibre \in Bloques \ bitmap
    BY <2>2, <2>3
  <2>5. BloqueLibre \in Nat
    BY <1>1, <2>4
  <2>6. QED
    BY <2>4, <2>5
<1>4. QED
  BY <1>2, <1>3

(* Writing keeps the file of blocks a file of blocks.                      *)
LEMMA EscribeTipo ==
  ASSUME bloques \in [Unidades -> Int], NEW desde \in Int, NEW n \in Nat,
         NEW valores \in [1 .. n -> Int], Escribe(desde, valores)
  PROVE  /\ bloques' \in [Unidades -> Int]
         /\ \A u \in Unidades :
              bloques'[u] = IF u >= desde /\ u < desde + n
                            THEN valores[u - desde + 1] ELSE bloques[u]
<1>1. valores \in Seq(Int) /\ Len(valores) = n
  BY LenProperties
<1>2. Unidades \subseteq Int
  BY FileSystemOK DEF Unidades
<1>3. \A u \in Unidades :
        bloques'[u] = IF u >= desde /\ u < desde + n
                      THEN valores[u - desde + 1] ELSE bloques[u]
  BY <1>1 DEF Escribe
<1>4. \A u \in Unidades : u >= desde /\ u < desde + n => u - desde + 1 \in 1 .. n
  BY <1>2
<1>5. QED
  BY <1>3, <1>4 DEF Escribe

(* A function of 1 to n is a list of n.                                    *)
LEMMA ListaTipada ==
  ASSUME NEW n \in Nat, NEW T, NEW g \in [1 .. n -> T]
  PROVE  g \in Seq(T) /\ Len(g) = n
  BY LenProperties

(* The blocks of an FCB are those of BloqueN, one per place.               *)
LEMMA ListaDeBloques ==
  ASSUME bloques \in [Unidades -> Int], NEW fcb
  PROVE  /\ \A j : BloqueDe(fcb, j) = BloqueN(bloques, fcb.directo, fcb.indirecto, j)
         /\ DOMAIN BloquesDe(fcb) = 1 .. Largo(HaciaArriba(fcb.tamanio))
         /\ \A j \in 1 .. Largo(HaciaArriba(fcb.tamanio)) :
              BloquesDe(fcb)[j] = BloqueN(bloques, fcb.directo, fcb.indirecto, j)
  BY Leyendo DEF BloqueDe, BloquesDe, BloqueN

(* What is read at a place of a block of pointers.                         *)
LEMMA PunteroDentro ==
  ASSUME NEW m, NEW e \in Bloques, NEW i \in 0 .. SIZE_BLOQUE - 1
  PROVE  PunteroEn(m, e, i) = m[e * SIZE_BLOQUE + i]
  BY UnidadDentro DEF PunteroEn, UnidadEn

-----------------------------------------------------------------------------
(* Part 1 is kept.                                                         *)

(* Whatever the disk, the process that has not started holds no FCB.       *)
LEMMA InicioFcbs == Init => InvFcbs
<1> SUFFICES ASSUME Init PROVE InvFcbs
  OBVIOUS
<1>1. PICK d \in Discos : disco = d.fcbs /\ bloques = d.bloques /\ bitmap = d.bitmap
  BY DEF Init
<1>2. /\ disco \in [Archivos -> {Nulo, Vacio} \union FcbsDeDisco]
      /\ bloques \in [Unidades -> Int] /\ bitmap \subseteq Bloques
  BY <1>1, DiscosOK
<1>3. /\ op = EnReposo /\ op.paso = "libre" /\ ~vivo /\ vivo \in BOOLEAN
      /\ danio \in BOOLEAN
  BY DEF Init, EnReposo
<1>4. TipoFS
  <2>1. TipoOp
    BY <1>3 DEF TipoOp, Truncando, EnCambio
  <2>2. pedidos \in 0 .. MaxPedidos /\ caidas \in 0 .. MaxCaidas
    BY FileSystemOK DEF Init
  <2>3. fcbs \in [Archivos -> {Nulo} \union FcbsEnMemoria]
    BY DEF Init
  <2>4. QED
    BY <1>2, <1>3, <2>1, <2>2, <2>3 DEF TipoFS
<1>5. Persistencia
  BY <1>3 DEF Persistencia, Init
<1>6. LecturaHecha
  BY <1>3 DEF LecturaHecha
<1>7. QED
  BY <1>4, <1>5, <1>6 DEF InvFcbs

(* What a request in its steps is: a truncation or a creation.             *)
LEMMA EnPedido ==
  ASSUME TipoFS, op.paso \in Truncando
  PROVE  /\ EsPedido(op) /\ vivo /\ op.archivo \in Archivos
         /\ Fcb # Nulo /\ Fcb \in FcbsEnMemoria
<1>1. EsPedido(op)
  BY DEF TipoFS, TipoOp, EsLectura, EsEscritura, EnReposo, Truncando, EnCambio
<1>2. vivo
  BY DEF TipoFS, EnReposo, Truncando, EnCambio
<1>3. QED
  BY <1>1, <1>2 DEF TipoFS, TipoOp, EsPedido, Fcb

(* Taking and freeing keep the bitmap a bitmap.                            *)
LEMMA Marcando ==
  ASSUME bitmap \subseteq Bloques, NEW b, MarcaOcupado(b) \/ MarcaLibre(b)
  PROVE  bitmap' \subseteq Bloques
  BY DEF MarcaOcupado, MarcaLibre

(* A step of a truncation that is followed by another one.                 *)
LEMMA PasoDePedido ==
  ASSUME InvFcbs, op.paso \in EnCambio, vivo' = vivo,
         bitmap' \subseteq Bloques, bloques' \in [Unidades -> Int],
         UNCHANGED <<disco, pedidos, caidas>>, danio' \in BOOLEAN,
         NEW fcb \in FcbsEnMemoria, fcbs' = [fcbs EXCEPT ![op.archivo] = fcb],
         EsPedido(op'), op'.archivo = op.archivo, op'.paso \in EnCambio,
         op'.paso = "desasigna" => op'.faltan <= fcb.cantidad
  PROVE  InvFcbs'
<1>1. /\ EsPedido(op) /\ vivo /\ op.archivo \in Archivos
      /\ fcbs[op.archivo] # Nulo /\ fcbs[op.archivo] \in FcbsEnMemoria
  BY EnPedido DEF InvFcbs, Truncando, Fcb
<1>2. fcb # Nulo
  BY MarcasOK DEF FcbsEnMemoria
<1>3. fcbs' \in [Archivos -> {Nulo} \union FcbsEnMemoria] /\ fcbs'[op.archivo] = fcb
  BY <1>1 DEF InvFcbs, TipoFS
<1>4. TipoFS'
  <2>1. op'.paso # "cierra"
    BY DEF EnCambio
  <2>2. TipoOp'
    BY <1>2, <1>3, <2>1 DEF TipoOp
  <2>3. QED
    BY <1>1, <1>3, <2>2 DEF InvFcbs, TipoFS
<1>5. Persistencia'
  <2> SUFFICES ASSUME NEW f \in Archivos
               PROVE  \/ f # op'.archivo /\ disco'[f] = Nulo /\ fcbs'[f] = Nulo
                      \/ f # op'.archivo /\ fcbs'[f] # Nulo /\ disco'[f] = EnDisco(fcbs'[f])
                      \/ f = op'.archivo /\ disco'[f] # Nulo /\ disco'[f] # Vacio
    BY <1>1 DEF Persistencia, Truncando, Legible
  <2>1. CASE f = op.archivo
    <3>1. Legible(f)
      BY <1>1, <2>1 DEF InvFcbs, Persistencia, Truncando, EnCambio
    <3>2. QED
      BY <2>1, <3>1 DEF Legible
  <2>2. CASE f # op.archivo
    <3>1. fcbs'[f] = fcbs[f]
      BY <2>2 DEF InvFcbs, TipoFS
    <3>2. QED
      BY <1>1, <2>2, <3>1 DEF InvFcbs, Persistencia, Truncando
  <2>3. QED
    BY <2>1, <2>2
<1>6. LecturaHecha'
  BY DEF LecturaHecha, EnCambio
<1>7. QED
  BY <1>4, <1>5, <1>6 DEF InvFcbs

(* When a request is received the process rests, and every FCB is on disk  *)
(* as it is in memory.                                                     *)
LEMMA AlRecibir ==
  ASSUME InvFcbs, Recibe
  PROVE  /\ vivo /\ op.paso = "libre" /\ pedidos' \in 0 .. MaxPedidos
         /\ \A f \in Archivos :
              \/ disco[f] = Nulo /\ fcbs[f] = Nulo
              \/ /\ fcbs[f] # Nulo /\ fcbs[f] \in FcbsEnMemoria /\ fcbs[f].tamanio \in Nat
                 /\ disco[f] = EnDisco(fcbs[f]) /\ disco[f] \in FcbsDeDisco /\ Legible(f)
<1>1. vivo /\ op.paso = "libre"
  BY DEF Recibe, EnReposo
<1>2. pedidos' \in 0 .. MaxPedidos
  BY FileSystemOK DEF InvFcbs, TipoFS, Recibe
<1>3. ASSUME NEW f \in Archivos, fcbs[f] # Nulo
      PROVE  /\ fcbs[f] \in FcbsEnMemoria /\ fcbs[f].tamanio \in Nat
             /\ disco[f] = EnDisco(fcbs[f]) /\ disco[f] \in FcbsDeDisco /\ Legible(f)
  <2>1. fcbs[f] \in FcbsEnMemoria
    BY <1>3 DEF InvFcbs, TipoFS
  <2>2. disco[f] = EnDisco(fcbs[f])
    BY <1>1, <1>3 DEF InvFcbs, Persistencia, Truncando, EnCambio
  <2>3. disco[f] # Nulo /\ disco[f] # Vacio
    <3>1. disco[f] \in [tamanio : Int, directo : Int, indirecto : Int]
      BY <2>1, <2>2 DEF EnDisco, FcbsEnMemoria
    <3>2. disco[f] \in {Nulo, Vacio} \union FcbsDeDisco
      BY DEF InvFcbs, TipoFS
    <3>3. QED
      BY <3>1, <3>2, MarcasOK
  <2>4. disco[f] \in FcbsDeDisco
    BY <2>3 DEF InvFcbs, TipoFS
  <2>5. fcbs[f].tamanio = disco[f].tamanio
    BY <2>2 DEF EnDisco
  <2>6. QED
    BY <2>1, <2>2, <2>3, <2>4, <2>5 DEF FcbsDeDisco, Legible
<1>4. QED
  BY <1>1, <1>2, <1>3 DEF InvFcbs, Persistencia, Truncando, EnCambio

(* A request that is received and changes nothing yet.                     *)
LEMMA PasoDeRecibe ==
  ASSUME InvFcbs, Recibe, UNCHANGED <<bitmap, bloques, disco, fcbs, vivo, caidas>>,
         danio' \in BOOLEAN, LecturaHecha',
         EsPedido(op') \/ EsLectura(op') \/ EsEscritura(op'), op'.paso # "cierra",
         op'.paso \in Truncando \union {"escribe"} => fcbs[op'.archivo] # Nulo,
         op'.paso = "desasigna" => op'.faltan <= fcbs[op'.archivo].cantidad
  PROVE  InvFcbs'
<1>1. vivo /\ op.paso = "libre" /\ pedidos' \in 0 .. MaxPedidos
  BY AlRecibir
<1>2. TipoFS'
  BY <1>1 DEF InvFcbs, TipoFS, TipoOp
<1>3. ASSUME NEW f \in Archivos
      PROVE  /\ \/ disco[f] = Nulo /\ fcbs[f] = Nulo
                \/ fcbs[f] # Nulo /\ disco[f] = EnDisco(fcbs[f]) /\ Legible(f)
             /\ op'.paso \in Truncando /\ f = op'.archivo => Legible(f)
  BY AlRecibir
<1>4. Persistencia'
  BY <1>1, <1>3 DEF Persistencia, Truncando, Legible
<1>5. QED
  BY <1>2, <1>4 DEF InvFcbs

(* Each operation keeps part 1: those that receive a request...            *)
LEMMA AbrirFcbs ==
  ASSUME InvFcbs, NEW f \in Archivos, Abrir(f)
  PROVE  InvFcbs'
<1>1. op' = Pedido("F_OPEN", f, "responde")
  BY DEF Abrir
<1>2. EsPedido(op')
  BY <1>1 DEF Pedido, EsPedido, CamposPedido
<1>3. op'.tipo = "F_OPEN" /\ op'.paso = "responde"
  BY <1>1 DEF Pedido
<1>4. QED
  BY <1>2, <1>3, PasoDeRecibe
  DEF Abrir, LecturaHecha, InvFcbs, TipoFS, Truncando, EnCambio, historia

(* truncar_archivo of a file without an FCB only answers.                  *)
LEMMA TruncarInexistenteFcbs ==
  ASSUME InvFcbs, NEW f \in Archivos, TruncarInexistente(f)
  PROVE  InvFcbs'
<1>1. op' = Pedido("AUX_ERROR", f, "responde")
  BY DEF TruncarInexistente
<1>2. EsPedido(op')
  BY <1>1 DEF Pedido, EsPedido, CamposPedido
<1>3. op'.tipo = "AUX_ERROR" /\ op'.paso = "responde"
  BY <1>1 DEF Pedido
<1>4. QED
  BY <1>2, <1>3, PasoDeRecibe
  DEF TruncarInexistente, LecturaHecha, InvFcbs, TipoFS, Truncando, EnCambio, historia

(* crear_archivo puts the FCB in memory and leaves its file open, and      *)
(* empty, until it is closed.                                              *)
LEMMA CrearArchivoFcbs ==
  ASSUME InvFcbs, NEW f \in Archivos, CrearArchivo(f)
  PROVE  InvFcbs'
<1>1. /\ vivo /\ op.paso = "libre" /\ pedidos' \in 0 .. MaxPedidos
      /\ \A g \in Archivos :
           \/ disco[g] = Nulo /\ fcbs[g] = Nulo
           \/ fcbs[g] # Nulo /\ disco[g] = EnDisco(fcbs[g])
  BY AlRecibir DEF CrearArchivo
<1>2. PICK directo \in Directos :
        fcbs' = [fcbs EXCEPT ![f] = [tamanio |-> 0, directo |-> directo,
                                     indirecto |-> 0, cantidad |-> 0]]
  BY DEF CrearArchivo
<1>3. PICK fcb \in FcbsEnMemoria :
        fcb = [tamanio |-> 0, directo |-> directo, indirecto |-> 0, cantidad |-> 0]
  <2>1. directo \in Int
    BY FileSystemOK
  <2>2. [tamanio |-> 0, directo |-> directo, indirecto |-> 0, cantidad |-> 0] \in FcbsEnMemoria
    BY <2>1 DEF FcbsEnMemoria
  <2>3. QED
    BY <2>2
<1>4. fcb # Nulo /\ fcb.tamanio \in Nat
  BY <1>3, MarcasOK DEF FcbsEnMemoria
<1>5. /\ fcbs' \in [Archivos -> {Nulo} \union FcbsEnMemoria] /\ fcbs'[f] = fcb
      /\ \A g \in Archivos \ {f} : fcbs'[g] = fcbs[g]
  BY <1>2, <1>3 DEF InvFcbs, TipoFS
<1>6. /\ disco' \in [Archivos -> {Nulo, Vacio} \union FcbsDeDisco] /\ disco'[f] = Vacio
      /\ \A g \in Archivos \ {f} : disco'[g] = disco[g]
  BY DEF CrearArchivo, InvFcbs, TipoFS
<1>7. op' = Pedido("KERNEL_CREAR_ARCHIVO", f, "cierra")
  BY DEF CrearArchivo
<1>8. EsPedido(op') /\ op'.archivo = f /\ op'.paso = "cierra"
  BY <1>7 DEF Pedido, EsPedido, CamposPedido, Truncando
<1>9. TipoFS'
  BY <1>1, <1>4, <1>5, <1>6, <1>8 DEF CrearArchivo, InvFcbs, TipoFS, TipoOp, historia
<1>10. Persistencia'
  BY <1>1, <1>5, <1>6, <1>8 DEF CrearArchivo, Persistencia, Truncando, EnCambio
<1>11. LecturaHecha'
  BY <1>8 DEF LecturaHecha
<1>12. QED
  BY <1>9, <1>10, <1>11 DEF InvFcbs

(* The request that actualizar_tamanio_bloques makes of F_TRUNCATE.        *)
LEMMA TruncarPedido ==
  ASSUME InvFcbs, NEW f \in Archivos, NEW n \in Nat, Truncar(f, n)
  PROVE  /\ EsPedido(op') /\ op'.tipo = "F_TRUNCATE" /\ op'.archivo = f /\ op'.nuevo = n
         /\ op'.libero = FALSE /\ op'.escritos = <<>>
         /\ op'.esperado = Conservado(fcbs[f], n)
         /\ fcbs[f].cantidad \in Nat
         /\ \/ op'.paso = "directo" /\ fcbs[f].cantidad = 0 /\ fcbs[f].cantidad < HaciaArriba(n)
            \/ op'.paso = "indirecto" /\ fcbs[f].cantidad = 1 /\ fcbs[f].cantidad < HaciaArriba(n)
            \/ /\ op'.paso = "asigna" /\ fcbs[f].cantidad >= 2
               /\ fcbs[f].cantidad < HaciaArriba(n)
               /\ op'.faltan = PunterosAEscribir(n) /\ op'.faltan = HaciaArriba(n) - 1
            \/ /\ op'.paso = "desasigna" /\ op'.faltan \in Nat
               /\ fcbs[f].cantidad = op'.faltan + Restan(n)
            \/ op'.paso = "abre" /\ fcbs[f].cantidad = HaciaArriba(n)
<1> DEFINE c == fcbs[f].cantidad
           h == HaciaArriba(n)
           base == [Pedido("F_TRUNCATE", f, "abre") EXCEPT
                      !.nuevo = n, !.esperado = Conservado(fcbs[f], n)]
<1>1. c \in Nat
  BY DEF InvFcbs, TipoFS, Truncar, FcbsEnMemoria
<1>2. h \in Nat /\ (n = 0 <=> h = 0) /\ (n > 0 => PunterosAEscribir(n) = h - 1)
  BY Redondeo
<1>3. /\ DOMAIN base = CamposPedido /\ base.tipo = "F_TRUNCATE" /\ base.archivo = f
      /\ base.nuevo = n /\ base.libero = FALSE /\ base.escritos = <<>>
      /\ base.esperado = Conservado(fcbs[f], n) /\ base.paso = "abre" /\ base.faltan = 0
  BY DEF Pedido, CamposPedido
<1> HIDE DEF base
<1>4. op' = IF c = 0 /\ h > 0
            THEN [base EXCEPT !.paso = "directo", !.faltan = PunterosAEscribir(n)]
            ELSE IF c < h
            THEN [base EXCEPT !.paso = IF c = 1 THEN "indirecto" ELSE "asigna",
                              !.faltan = PunterosAEscribir(n)]
            ELSE IF c > h
            THEN [base EXCEPT !.paso = "desasigna",
                              !.faltan = IF h = 0 THEN c - 1 ELSE c - h]
            ELSE base
  BY DEF Truncar, base
<1>5. /\ DOMAIN op' = CamposPedido /\ op'.tipo = "F_TRUNCATE" /\ op'.archivo = f
      /\ op'.nuevo = n /\ op'.libero = FALSE /\ op'.escritos = <<>>
      /\ op'.esperado = Conservado(fcbs[f], n)
  BY <1>3, <1>4 DEF CamposPedido
<1>6. \/ c = 0 /\ h > 0 /\ op'.paso = "directo" /\ op'.faltan = PunterosAEscribir(n)
      \/ c = 1 /\ c < h /\ op'.paso = "indirecto" /\ op'.faltan = PunterosAEscribir(n)
      \/ c >= 2 /\ c < h /\ op'.paso = "asigna" /\ op'.faltan = PunterosAEscribir(n)
      \/ c > h /\ op'.paso = "desasigna" /\ op'.faltan = IF h = 0 THEN c - 1 ELSE c - h
      \/ c = h /\ op'.paso = "abre" /\ op'.faltan = 0
  <2>1. CASE c = 0 /\ h > 0
    BY <1>3, <1>4, <2>1 DEF CamposPedido
  <2>2. CASE c # 0 /\ c < h
    BY <1>1, <1>2, <1>3, <1>4, <2>2 DEF CamposPedido
  <2>3. CASE c > h
    BY <1>1, <1>2, <1>3, <1>4, <2>3 DEF CamposPedido
  <2>4. CASE c = h
    BY <1>1, <1>2, <1>3, <1>4, <2>4
  <2>5. QED
    BY <1>1, <1>2, <2>1, <2>2, <2>3, <2>4
<1>7. op'.escritos \in Seq(Int)
  BY <1>5
<1>8. n > 0 <=> h > 0
  BY <1>2
<1> HIDE DEF c, h
<1>9. EsPedido(op')
  <2>1. op'.faltan \in Nat
    BY <1>1, <1>2, <1>6, <1>8
  <2>2. op'.paso \in {"directo", "indirecto", "asigna", "desasigna", "abre"}
    BY <1>6
  <2>3. /\ op'.tipo \in {"F_OPEN", "KERNEL_CREAR_ARCHIVO", "F_TRUNCATE", "AUX_ERROR"}
        /\ op'.archivo \in Archivos /\ op'.nuevo \in Nat /\ op'.libero \in BOOLEAN
    BY <1>5
  <2>4. op'.paso \in Truncando \union {"responde"}
    BY <2>2 DEF Truncando, EnCambio
  <2>5. QED
    BY <1>5, <1>7, <2>1, <2>3, <2>4 DEF EsPedido
<1>10. \/ op'.paso = "directo" /\ c = 0 /\ c < h
       \/ op'.paso = "indirecto" /\ c = 1 /\ c < h
       \/ /\ op'.paso = "asigna" /\ c >= 2 /\ c < h
          /\ op'.faltan = PunterosAEscribir(n) /\ op'.faltan = h - 1
       \/ op'.paso = "desasigna" /\ op'.faltan \in Nat /\ c = op'.faltan + (IF n = 0 THEN 1 ELSE h)
       \/ op'.paso = "abre" /\ c = h
  BY <1>1, <1>2, <1>6, <1>8
<1>11. QED
  BY <1>1, <1>5, <1>9, <1>10 DEF c, h, Restan

(* truncar_archivo starts with the FCB in memory equal to the one on       *)
(* disk.                                                                   *)
LEMMA TruncarFcbs ==
  ASSUME InvFcbs, NEW f \in Archivos, NEW n \in Tamanios, Truncar(f, n)
  PROVE  InvFcbs'
<1>1. n \in Nat /\ Restan(n) \in Nat
  BY FileSystemOK, Redondeo DEF Restan
<1>2. /\ EsPedido(op') /\ op'.tipo = "F_TRUNCATE" /\ op'.archivo = f
      /\ op'.paso \in {"directo", "indirecto", "asigna", "desasigna", "abre"}
      /\ op'.paso = "desasigna" => op'.faltan <= fcbs[f].cantidad
  <2>1. /\ EsPedido(op') /\ op'.tipo = "F_TRUNCATE" /\ op'.archivo = f
        /\ \/ op'.paso = "directo" \/ op'.paso = "indirecto" \/ op'.paso = "asigna"
           \/ /\ op'.paso = "desasigna" /\ op'.faltan \in Nat
              /\ fcbs[f].cantidad = op'.faltan + Restan(n)
           \/ op'.paso = "abre"
    BY <1>1, TruncarPedido
  <2>2. QED
    BY <1>1, <2>1
<1>3. /\ Recibe /\ UNCHANGED <<bitmap, bloques, disco, fcbs, vivo, caidas>>
      /\ fcbs[f] # Nulo /\ danio' \in BOOLEAN
  BY DEF Truncar, InvFcbs, TipoFS
<1>4. LecturaHecha'
  BY <1>2 DEF LecturaHecha
<1>5. QED
  BY <1>2, <1>3, <1>4, PasoDeRecibe

(* leer_archivo answers at once with what the blocks hold.                 *)
LEMMA LeerArchivoFcbs ==
  ASSUME InvFcbs, NEW f \in Archivos, NEW p \in Punteros, NEW n \in Cantidades,
         LeerArchivo(f, p, n)
  PROVE  InvFcbs'
<1>1. /\ Recibe /\ UNCHANGED <<bitmap, bloques, disco, fcbs, vivo, caidas, danio>>
      /\ fcbs[f] # Nulo /\ p + n <= fcbs[f].tamanio
      /\ op' = [tipo |-> "F_READ", archivo |-> f, paso |-> "responde",
                puntero |-> p, total |-> n, datos |-> Leido(fcbs[f], p, n)]
  BY DEF LeerArchivo, historia
<1>2. EsLectura(op')
  BY <1>1, FileSystemOK DEF EsLectura
<1>3. op'.datos = Leido(fcbs[f], p, n)'
  BY <1>1 DEF Leido, Unidad, ObtenerPosicionAbsoluta, ObtenerBloqueAbsoluto, LeerNPuntero
<1>4. LecturaHecha'
  BY <1>1, <1>3 DEF LecturaHecha
<1>5. QED
  BY <1>1, <1>2, <1>4, PasoDeRecibe DEF Truncando, EnCambio, InvFcbs, TipoFS

(* escribir_archivo starts with nothing written and a block with room.     *)
LEMMA EscribirArchivoFcbs ==
  ASSUME InvFcbs, NEW f \in Archivos, NEW p \in Punteros, NEW n \in Cantidades,
         EscribirArchivo(f, p, n)
  PROVE  /\ InvFcbs' /\ EsEscritura(op')
<1> DEFINE fcb == fcbs[f]
<1>1. /\ Recibe /\ UNCHANGED <<bitmap, bloques, disco, fcbs, vivo, caidas, danio>>
      /\ fcb # Nulo /\ p + n <= fcb.tamanio
  BY DEF EscribirArchivo, historia
<1>2. /\ op'.tipo = "F_WRITE" /\ op'.archivo = f /\ op'.paso = "escribe"
      /\ op'.bloque = ObtenerBloqueAbsoluto(fcb, p)
      /\ op'.posicion = ObtenerPosicionAbsoluta(fcb, p)
      /\ op'.espacio = SIZE_BLOQUE - ObtenerPosicionEnBloque(p)
      /\ op'.total = n /\ op'.escritos = 0
      /\ DOMAIN op' = {"tipo", "archivo", "paso", "bloque", "posicion", "espacio",
                       "total", "escritos", "esperado"}
  BY DEF EscribirArchivo
<1>3. p \in Nat /\ n \in Nat \ {0} /\ SIZE_BLOQUE \in Nat \ {0}
  BY FileSystemOK
<1>4. ObtenerPosicionEnBloque(p) \in 0 .. SIZE_BLOQUE - 1
  BY <1>3, Division DEF ObtenerPosicionEnBloque, HaciaAbajo
<1>5. fcb.directo \in Int
  BY <1>1 DEF InvFcbs, TipoFS, FcbsEnMemoria
<1>6. ObtenerBloqueAbsoluto(fcb, p) \in Int
  BY <1>5, Leyendo DEF ObtenerBloqueAbsoluto, InvFcbs, TipoFS
<1>7. ObtenerPosicionAbsoluta(fcb, p) \in Int
  BY <1>3, <1>4, <1>6 DEF ObtenerPosicionAbsoluta
<1>8. EsEscritura(op')
  BY <1>2, <1>3, <1>4, <1>6, <1>7 DEF EsEscritura
<1>9. LecturaHecha'
  BY <1>2 DEF LecturaHecha
<1>10. QED
  BY <1>1, <1>2, <1>8, <1>9, PasoDeRecibe DEF Truncando, EnCambio, InvFcbs, TipoFS

(* ... those of a truncation...                                            *)
LEMMA Siguiendo ==
  ASSUME EsPedido(op), NEW paso \in Truncando \union {"responde"}, Sigue(paso)
  PROVE  /\ EsPedido(op') /\ op'.paso = paso /\ op'.tipo = op.tipo
         /\ op'.archivo = op.archivo /\ op'.nuevo = op.nuevo /\ op'.faltan = op.faltan
         /\ op'.escritos = op.escritos /\ op'.esperado = op.esperado
         /\ op'.libero = op.libero
<1>1. op' = [op EXCEPT !.paso = paso] /\ DOMAIN op = CamposPedido
  BY DEF Sigue, EsPedido
<1>2. DOMAIN op' = CamposPedido /\ op'.paso = paso
  BY <1>1 DEF CamposPedido
<1>3. /\ op'.tipo = op.tipo
      /\ op'.archivo = op.archivo /\ op'.nuevo = op.nuevo /\ op'.faltan = op.faltan
      /\ op'.escritos = op.escritos /\ op'.esperado = op.esperado
  BY <1>1 DEF CamposPedido
<1>4. op'.libero = op.libero
  BY <1>1 DEF CamposPedido
<1>5. QED
  BY <1>2, <1>3, <1>4 DEF EsPedido

(* asignar_puntero_directo changes the FCB in memory only.                 *)
LEMMA DirectoFcbs ==
  ASSUME InvFcbs, AsignaPunteroDirecto
  PROVE  InvFcbs'
<1>1. op.paso = "directo" /\ op.paso \in EnCambio /\ op.paso \in Truncando
  BY DEF AsignaPunteroDirecto, EnCambio, Truncando
<1>2. EsPedido(op) /\ Fcb \in FcbsEnMemoria
  BY <1>1, EnPedido DEF InvFcbs
<1>3. PICK fcb : fcb = [Fcb EXCEPT
        !.cantidad = BloqueLibre + (IF op.nuevo <= SIZE_BLOQUE THEN 2 ELSE 1),
        !.tamanio = @ + SIZE_BLOQUE]
  OBVIOUS
<1>4. BloqueLibre + (IF op.nuevo <= SIZE_BLOQUE THEN 2 ELSE 1) \in Nat
  BY Libre
<1>5. fcb \in FcbsEnMemoria
  <2>1. Fcb.tamanio + SIZE_BLOQUE \in Int
    BY <1>2, FileSystemOK DEF FcbsEnMemoria
  <2>2. PICK t \in Int : t = Fcb.tamanio + SIZE_BLOQUE
    BY <2>1
  <2>3. PICK c \in Nat : c = BloqueLibre + (IF op.nuevo <= SIZE_BLOQUE THEN 2 ELSE 1)
    BY <1>4
  <2>4. fcb = [Fcb EXCEPT !.cantidad = c, !.tamanio = t]
    BY <1>3, <2>2, <2>3
  <2>5. QED
    BY <1>2, <2>4 DEF FcbsEnMemoria
<1>6. fcbs' = [fcbs EXCEPT ![op.archivo] = fcb]
  BY <1>3 DEF AsignaPunteroDirecto, CambiaFcb
<1>7. EsPedido(op') /\ op'.archivo = op.archivo /\ op'.paso \in {"abre", "indirecto"}
  BY <1>2, Siguiendo DEF AsignaPunteroDirecto, Truncando, EnCambio
<1>8. bitmap' \subseteq Bloques
  BY Marcando DEF AsignaPunteroDirecto, InvFcbs, TipoFS
<1>9. /\ vivo' = vivo /\ bloques' \in [Unidades -> Int] /\ danio' \in BOOLEAN
      /\ UNCHANGED <<disco, pedidos, caidas>>
  BY DEF AsignaPunteroDirecto, InvFcbs, TipoFS, historia
<1>10. op'.paso \in EnCambio /\ op'.paso # "desasigna"
  BY <1>7 DEF EnCambio
<1>11. QED
  BY <1>1, <1>5, <1>6, <1>7, <1>8, <1>9, <1>10, PasoDePedido

(* asignar_puntero_indirecto changes the FCB in memory only.               *)
LEMMA IndirectoFcbs ==
  ASSUME InvFcbs, AsignaPunteroIndirecto
  PROVE  InvFcbs'
<1>1. op.paso = "indirecto" /\ op.paso \in EnCambio /\ op.paso \in Truncando
  BY DEF AsignaPunteroIndirecto, EnCambio, Truncando
<1>2. EsPedido(op) /\ Fcb \in FcbsEnMemoria
  BY <1>1, EnPedido DEF InvFcbs
<1>3. PICK fcb : fcb = [Fcb EXCEPT !.indirecto = BloqueLibre, !.cantidad = @ + 1]
  OBVIOUS
<1>4. fcb \in FcbsEnMemoria
  <2>1. PICK b \in Int : b = BloqueLibre
    BY Libre
  <2>2. PICK c \in Nat : c = Fcb.cantidad + 1
    BY <1>2 DEF FcbsEnMemoria
  <2>3. fcb = [Fcb EXCEPT !.indirecto = b, !.cantidad = c]
    BY <1>3, <2>1, <2>2
  <2>4. QED
    BY <1>2, <2>3 DEF FcbsEnMemoria
<1>5. fcbs' = [fcbs EXCEPT ![op.archivo] = fcb]
  BY <1>3 DEF AsignaPunteroIndirecto, CambiaFcb
<1>6. EsPedido(op') /\ op'.archivo = op.archivo /\ op'.paso = "asigna"
  BY <1>2, Siguiendo DEF AsignaPunteroIndirecto, Truncando, EnCambio
<1>7. bitmap' \subseteq Bloques
  BY Marcando DEF AsignaPunteroIndirecto, InvFcbs, TipoFS
<1>8. /\ vivo' = vivo /\ bloques' \in [Unidades -> Int] /\ danio' \in BOOLEAN
      /\ UNCHANGED <<disco, pedidos, caidas>>
  BY DEF AsignaPunteroIndirecto, InvFcbs, TipoFS, historia
<1>9. op'.paso \in EnCambio /\ op'.paso # "desasigna"
  BY <1>6 DEF EnCambio
<1>10. QED
  BY <1>1, <1>4, <1>5, <1>6, <1>7, <1>8, <1>9, PasoDePedido

(* The request after a turn that takes a block.                            *)
LEMMA TurnoQueAsigna ==
  ASSUME EsPedido(op), op.faltan > 0,
         op' = [op EXCEPT !.faltan = @ - 1, !.escritos = Append(@, BloqueLibre)]
  PROVE  /\ EsPedido(op') /\ op'.paso = op.paso /\ op'.tipo = op.tipo
         /\ op'.archivo = op.archivo /\ op'.nuevo = op.nuevo
         /\ op'.faltan = op.faltan - 1 /\ op'.escritos = Append(op.escritos, BloqueLibre)
         /\ op'.esperado = op.esperado /\ op'.libero = op.libero
<1>1. DOMAIN op = CamposPedido
  BY DEF EsPedido
<1>2. DOMAIN op' = CamposPedido /\ op'.paso = op.paso
  BY <1>1 DEF CamposPedido
<1>3. /\ op'.tipo = op.tipo
      /\ op'.archivo = op.archivo /\ op'.nuevo = op.nuevo /\ op'.faltan = op.faltan - 1
      /\ op'.escritos = Append(op.escritos, BloqueLibre) /\ op'.esperado = op.esperado
  BY <1>1 DEF CamposPedido
<1>4. op'.libero = op.libero
  BY <1>1 DEF CamposPedido
<1>5. op'.faltan \in Nat
  BY <1>3 DEF EsPedido
<1>6. op'.escritos \in Seq(Int)
  BY <1>3, Libre, AppendProperties DEF EsPedido
<1>7. QED
  BY <1>2, <1>3, <1>4, <1>5, <1>6 DEF EsPedido

(* A turn of asignar_bloques changes no FCB.                               *)
LEMMA AsignaBloqueFcbs ==
  ASSUME InvFcbs, AsignaBloque
  PROVE  InvFcbs'
<1>1. op.paso = "asigna" /\ op.paso \in EnCambio /\ op.paso \in Truncando
  BY DEF AsignaBloque, EnCambio, Truncando
<1>2. EsPedido(op) /\ Fcb \in FcbsEnMemoria
  BY <1>1, EnPedido DEF InvFcbs
<1>3. fcbs' = [fcbs EXCEPT ![op.archivo] = Fcb]
  BY DEF AsignaBloque, Fcb, InvFcbs, TipoFS
<1>4. EsPedido(op') /\ op'.archivo = op.archivo /\ op'.paso = "asigna"
  BY <1>1, <1>2, TurnoQueAsigna DEF AsignaBloque
<1>5. bitmap' \subseteq Bloques
  BY Marcando DEF AsignaBloque, InvFcbs, TipoFS
<1>6. /\ vivo' = vivo /\ bloques' \in [Unidades -> Int] /\ danio' \in BOOLEAN
      /\ UNCHANGED <<disco, pedidos, caidas>>
  BY DEF AsignaBloque, InvFcbs, TipoFS, historia
<1>7. op'.paso \in EnCambio /\ op'.paso # "desasigna"
  BY <1>4 DEF EnCambio
<1>8. QED
  BY <1>1, <1>2, <1>3, <1>4, <1>5, <1>6, <1>7, PasoDePedido

(* The pointers written are those of the stream, in their places.          *)
LEMMA PunterosEscritos ==
  ASSUME InvFcbs, CierraBloques
  PROVE  /\ op.paso = "asigna" /\ EsPedido(op) /\ Fcb \in FcbsEnMemoria
         /\ bloques' \in [Unidades -> Int]
         /\ \A u \in Unidades :
              bloques'[u] = IF /\ u >= Fcb.indirecto * SIZE_BLOQUE + Fcb.cantidad - 1
                               /\ u < Fcb.indirecto * SIZE_BLOQUE + Fcb.cantidad - 1
                                        + Len(op.escritos)
                            THEN op.escritos[u - (Fcb.indirecto * SIZE_BLOQUE
                                                    + Fcb.cantidad - 1) + 1]
                            ELSE bloques[u]
<1>1. op.paso = "asigna" /\ op.paso \in Truncando
  BY DEF CierraBloques, EnCambio, Truncando
<1>2. EsPedido(op) /\ Fcb \in FcbsEnMemoria
  BY <1>1, EnPedido DEF InvFcbs
<1>3. PICK x \in Int : x = Fcb.indirecto * SIZE_BLOQUE + Fcb.cantidad - 1
  <2>1. Fcb.indirecto \in Int /\ Fcb.cantidad \in Int /\ SIZE_BLOQUE \in Int
    BY <1>2, FileSystemOK DEF FcbsEnMemoria
  <2>2. QED
    BY <2>1
<1>4. PICK n \in Nat : n = Len(op.escritos)
  BY <1>2, LenProperties DEF EsPedido
<1>5. op.escritos \in [1 .. n -> Int]
  BY <1>2, <1>4, LenProperties DEF EsPedido
<1>6. Escribe(x, op.escritos)
  BY <1>3 DEF CierraBloques
<1>7. bloques \in [Unidades -> Int]
  BY DEF InvFcbs, TipoFS
<1>8. /\ bloques' \in [Unidades -> Int]
      /\ \A u \in Unidades :
           bloques'[u] = IF u >= x /\ u < x + n
                         THEN op.escritos[u - x + 1] ELSE bloques[u]
  BY <1>5, <1>6, <1>7, EscribeTipo
<1>9. QED
  BY <1>1, <1>2, <1>3, <1>4, <1>8

(* The end of asignar_bloques changes the blocks and no FCB.               *)
LEMMA CierraBloquesFcbs ==
  ASSUME InvFcbs, CierraBloques
  PROVE  InvFcbs'
<1>1. op.paso = "asigna" /\ op.paso \in EnCambio /\ op.paso \in Truncando
  BY DEF CierraBloques, EnCambio, Truncando
<1>2. EsPedido(op) /\ Fcb \in FcbsEnMemoria
  BY <1>1, EnPedido DEF InvFcbs
<1>3. fcbs' = [fcbs EXCEPT ![op.archivo] = Fcb]
  BY DEF CierraBloques, Fcb, InvFcbs, TipoFS
<1>4. EsPedido(op') /\ op'.archivo = op.archivo /\ op'.paso = "abre"
  BY <1>2, Siguiendo DEF CierraBloques, Truncando, EnCambio
<1>5. bloques' \in [Unidades -> Int]
  BY PunterosEscritos
<1>6. /\ vivo' = vivo /\ bitmap' \subseteq Bloques /\ danio' \in BOOLEAN
      /\ UNCHANGED <<disco, pedidos, caidas>>
  BY DEF CierraBloques, InvFcbs, TipoFS, historia
<1>7. op'.paso \in EnCambio /\ op'.paso # "desasigna"
  BY <1>4 DEF EnCambio
<1>8. QED
  BY <1>1, <1>2, <1>3, <1>4, <1>5, <1>6, <1>7, PasoDePedido

(* The request after a turn of desasignar_bloques.                         *)
LEMMA TurnoQueLibera ==
  ASSUME EsPedido(op), op.faltan > 0,
         op' = [op EXCEPT !.faltan = @ - 1, !.libero = TRUE]
  PROVE  /\ EsPedido(op') /\ op'.paso = op.paso /\ op'.tipo = op.tipo
         /\ op'.archivo = op.archivo /\ op'.nuevo = op.nuevo
         /\ op'.faltan = op.faltan - 1 /\ op'.escritos = op.escritos
         /\ op'.esperado = op.esperado /\ op'.libero
<1>1. DOMAIN op = CamposPedido
  BY DEF EsPedido
<1>2. DOMAIN op' = CamposPedido /\ op'.paso = op.paso
  BY <1>1 DEF CamposPedido
<1>3. /\ op'.tipo = op.tipo
      /\ op'.archivo = op.archivo /\ op'.nuevo = op.nuevo /\ op'.faltan = op.faltan - 1
      /\ op'.escritos = op.escritos /\ op'.esperado = op.esperado
  BY <1>1 DEF CamposPedido
<1>4. op'.libero = TRUE
  BY <1>1 DEF CamposPedido
<1>5. op'.faltan \in Nat
  BY <1>3 DEF EsPedido
<1>6. QED
  BY <1>2, <1>3, <1>4, <1>5 DEF EsPedido

(* desasignar_ultimo_bloque never takes the count below the turns that     *)
(* are left.                                                               *)
LEMMA UltimoFcbs ==
  ASSUME InvFcbs, DesasignaUltimoBloque
  PROVE  InvFcbs'
<1>1. op.paso = "desasigna" /\ op.paso \in EnCambio /\ op.paso \in Truncando
  BY DEF DesasignaUltimoBloque, EnCambio, Truncando
<1>2. EsPedido(op) /\ Fcb \in FcbsEnMemoria
  BY <1>1, EnPedido DEF InvFcbs
<1>3. op.faltan <= Fcb.cantidad /\ op.faltan > 0 /\ op.faltan \in Nat
  BY <1>1, <1>2 DEF InvFcbs, TipoFS, TipoOp, Fcb, DesasignaUltimoBloque, EsPedido
<1>4. PICK fcb : fcb = [Fcb EXCEPT !.cantidad = @ - 1, !.tamanio = @ - SIZE_BLOQUE]
  OBVIOUS
<1>5. fcb \in FcbsEnMemoria /\ fcb.cantidad = Fcb.cantidad - 1
  <2>1. Fcb.tamanio - SIZE_BLOQUE \in Int
    BY <1>2, FileSystemOK DEF FcbsEnMemoria
  <2>2. PICK t \in Int : t = Fcb.tamanio - SIZE_BLOQUE
    BY <2>1
  <2>3. PICK c \in Nat : c = Fcb.cantidad - 1
    BY <1>2, <1>3 DEF FcbsEnMemoria
  <2>4. fcb = [Fcb EXCEPT !.cantidad = c, !.tamanio = t]
    BY <1>4, <2>2, <2>3
  <2>5. QED
    BY <1>2, <2>3, <2>4 DEF FcbsEnMemoria
<1>6. fcbs' = [fcbs EXCEPT ![op.archivo] = fcb]
  BY <1>4 DEF DesasignaUltimoBloque, CambiaFcb
<1>7. /\ EsPedido(op') /\ op'.archivo = op.archivo /\ op'.paso = "desasigna"
      /\ op'.faltan = op.faltan - 1
  BY <1>1, <1>2, TurnoQueLibera DEF DesasignaUltimoBloque
<1>8. bitmap' \subseteq Bloques
  BY Marcando DEF DesasignaUltimoBloque, InvFcbs, TipoFS
<1>9. /\ vivo' = vivo /\ bloques' \in [Unidades -> Int] /\ danio' \in BOOLEAN
      /\ UNCHANGED <<disco, pedidos, caidas>>
  BY DEF DesasignaUltimoBloque, InvFcbs, TipoFS, historia
<1>10. op'.paso \in EnCambio /\ op'.faltan <= fcb.cantidad
  BY <1>2, <1>3, <1>5, <1>7 DEF EnCambio, FcbsEnMemoria
<1>11. QED
  BY <1>1, <1>5, <1>6, <1>7, <1>8, <1>9, <1>10, PasoDePedido

(* The end of desasignar_bloques changes the FCB in memory only.           *)
LEMMA DesasignaIndirectoFcbs ==
  ASSUME InvFcbs, DesasignaIndirecto
  PROVE  InvFcbs'
<1>1. op.paso = "desasigna" /\ op.paso \in EnCambio /\ op.paso \in Truncando
  BY DEF DesasignaIndirecto, EnCambio, Truncando
<1>2. EsPedido(op) /\ Fcb \in FcbsEnMemoria
  BY <1>1, EnPedido DEF InvFcbs
<1>3. PICK fcb : fcb = IF Fcb.cantidad = 1 /\ op.libero
                       THEN [Fcb EXCEPT !.indirecto = 0] ELSE Fcb
  OBVIOUS
<1>4. fcb \in FcbsEnMemoria
  BY <1>2, <1>3 DEF FcbsEnMemoria
<1>5. fcbs' = [fcbs EXCEPT ![op.archivo] = fcb]
  BY <1>3 DEF DesasignaIndirecto, CambiaFcb, Fcb, InvFcbs, TipoFS
<1>6. EsPedido(op') /\ op'.archivo = op.archivo /\ op'.paso \in {"vacia", "abre"}
  BY <1>2, Siguiendo DEF DesasignaIndirecto, Truncando, EnCambio
<1>7. bitmap' \subseteq Bloques
  BY Marcando DEF DesasignaIndirecto, InvFcbs, TipoFS
<1>8. /\ vivo' = vivo /\ bloques' \in [Unidades -> Int] /\ danio' \in BOOLEAN
      /\ UNCHANGED <<disco, pedidos, caidas>>
  BY DEF DesasignaIndirecto, InvFcbs, TipoFS, historia
<1>9. op'.paso \in EnCambio /\ op'.paso # "desasigna"
  BY <1>6 DEF EnCambio
<1>10. QED
  BY <1>1, <1>4, <1>5, <1>6, <1>7, <1>8, <1>9, PasoDePedido

(* The request after vaciar_archivo.                                       *)
LEMMA PedidoVaciado ==
  ASSUME EsPedido(op), op' = [op EXCEPT !.paso = "abre", !.libero = TRUE]
  PROVE  /\ EsPedido(op') /\ op'.paso = "abre" /\ op'.tipo = op.tipo
         /\ op'.archivo = op.archivo /\ op'.nuevo = op.nuevo
         /\ op'.esperado = op.esperado /\ op'.libero
<1>1. DOMAIN op = CamposPedido
  BY DEF EsPedido
<1>2. DOMAIN op' = CamposPedido /\ op'.paso = "abre" /\ op'.paso \in Truncando
  BY <1>1 DEF CamposPedido, Truncando, EnCambio
<1>3. /\ op'.tipo = op.tipo
      /\ op'.archivo = op.archivo /\ op'.nuevo = op.nuevo /\ op'.faltan = op.faltan
      /\ op'.escritos = op.escritos /\ op'.esperado = op.esperado
  BY <1>1 DEF CamposPedido
<1>4. op'.libero = TRUE
  BY <1>1 DEF CamposPedido
<1>5. QED
  BY <1>2, <1>3, <1>4 DEF EsPedido

(* The end of vaciar_archivo changes the FCB in memory only.               *)
LEMMA DesasignaDirectoFcbs ==
  ASSUME InvFcbs, DesasignaDirecto
  PROVE  InvFcbs'
<1>1. op.paso = "vacia" /\ op.paso \in EnCambio /\ op.paso \in Truncando
  BY DEF DesasignaDirecto, EnCambio, Truncando
<1>2. EsPedido(op) /\ Fcb \in FcbsEnMemoria
  BY <1>1, EnPedido DEF InvFcbs
<1>3. PICK fcb : fcb = [Fcb EXCEPT !.directo = 0, !.cantidad = 0, !.tamanio = 0]
  OBVIOUS
<1>4. fcb \in FcbsEnMemoria
  <2>1. PICK d \in Int, c \in Nat, t \in Int : d = 0 /\ c = 0 /\ t = 0
    OBVIOUS
  <2>2. fcb = [Fcb EXCEPT !.directo = d, !.cantidad = c, !.tamanio = t]
    BY <1>3, <2>1
  <2>3. QED
    BY <1>2, <2>2 DEF FcbsEnMemoria
<1>5. fcbs' = [fcbs EXCEPT ![op.archivo] = fcb]
  BY <1>3 DEF DesasignaDirecto, CambiaFcb
<1>6. EsPedido(op') /\ op'.archivo = op.archivo /\ op'.paso = "abre"
  BY <1>2, PedidoVaciado DEF DesasignaDirecto
<1>7. bitmap' \subseteq Bloques
  BY Marcando DEF DesasignaDirecto, InvFcbs, TipoFS
<1>8. /\ vivo' = vivo /\ bloques' \in [Unidades -> Int] /\ danio' \in BOOLEAN
      /\ UNCHANGED <<disco, pedidos, caidas>>
  BY DEF DesasignaDirecto, InvFcbs, TipoFS, historia
<1>9. op'.paso \in EnCambio /\ op'.paso # "desasigna"
  BY <1>6 DEF EnCambio
<1>10. QED
  BY <1>1, <1>4, <1>5, <1>6, <1>7, <1>8, <1>9, PasoDePedido

(* ... those of persistir_fcb...                                           *)
LEMMA AbreFcbFcbs ==
  ASSUME InvFcbs, AbreFcb
  PROVE  /\ InvFcbs' /\ EsPedido(op) /\ EsPedido(op')
         /\ op.paso = "abre" /\ op'.paso = "cierra" /\ op'.archivo = op.archivo
         /\ disco'[op.archivo] = Vacio
         /\ \A f \in Archivos \ {op.archivo} : disco'[f] = disco[f] /\ fcbs'[f] = fcbs[f]
         /\ fcbs'[op.archivo] = [Fcb EXCEPT !.tamanio = op.nuevo]
<1>1. op.paso = "abre" /\ op.paso \in EnCambio /\ op.paso \in Truncando /\ vivo
  BY DEF AbreFcb, EnCambio, Truncando
<1>2. EsPedido(op) /\ Fcb \in FcbsEnMemoria /\ op.archivo \in Archivos
  BY <1>1, EnPedido DEF InvFcbs
<1>3. PICK fcb : fcb = [Fcb EXCEPT !.tamanio = op.nuevo]
  OBVIOUS
<1>4. fcb \in FcbsEnMemoria /\ fcb # Nulo /\ fcb.tamanio \in Nat
  BY <1>2, <1>3, MarcasOK DEF FcbsEnMemoria, EsPedido
<1>5. fcbs' = [fcbs EXCEPT ![op.archivo] = fcb]
  BY <1>3 DEF AbreFcb, Fcb
<1>6. /\ fcbs' \in [Archivos -> {Nulo} \union FcbsEnMemoria] /\ fcbs'[op.archivo] = fcb
      /\ \A f \in Archivos \ {op.archivo} : fcbs'[f] = fcbs[f]
  BY <1>2, <1>4, <1>5 DEF InvFcbs, TipoFS
<1>7. /\ disco' \in [Archivos -> {Nulo, Vacio} \union FcbsDeDisco]
      /\ disco'[op.archivo] = Vacio
      /\ \A f \in Archivos \ {op.archivo} : disco'[f] = disco[f]
  BY <1>2 DEF AbreFcb, InvFcbs, TipoFS
<1>8. EsPedido(op') /\ op'.archivo = op.archivo /\ op'.paso = "cierra"
  BY <1>2, Siguiendo DEF AbreFcb, Truncando
<1>9. TipoFS'
  BY <1>1, <1>4, <1>6, <1>7, <1>8 DEF AbreFcb, InvFcbs, TipoFS, TipoOp, historia
<1>10. Persistencia'
  BY <1>1, <1>6, <1>7, <1>8 DEF AbreFcb, InvFcbs, Persistencia, Truncando, EnCambio
<1>11. LecturaHecha'
  BY <1>8 DEF LecturaHecha
<1>12. QED
  BY <1>1, <1>2, <1>3, <1>6, <1>7, <1>8, <1>9, <1>10, <1>11 DEF InvFcbs

(* persistir_fcb closes the file: the FCB on disk is again the one in      *)
(* memory.                                                                 *)
LEMMA CierraFcbFcbs ==
  ASSUME InvFcbs, CierraFcb
  PROVE  /\ InvFcbs' /\ EsPedido(op) /\ EsPedido(op')
         /\ op.paso = "cierra" /\ op'.paso = "responde" /\ op'.archivo = op.archivo
         /\ disco'[op.archivo] = EnDisco(Fcb) /\ fcbs' = fcbs /\ EnDisco(Fcb) \in FcbsDeDisco
         /\ \A f \in Archivos \ {op.archivo} : disco'[f] = disco[f]
<1>1. op.paso = "cierra" /\ op.paso \in Truncando /\ vivo
  BY DEF CierraFcb, EnCambio, Truncando
<1>2. /\ EsPedido(op) /\ Fcb \in FcbsEnMemoria /\ op.archivo \in Archivos /\ Fcb # Nulo
      /\ Fcb = fcbs[op.archivo]
  BY <1>1, EnPedido DEF InvFcbs, Fcb
<1>3. Fcb.tamanio \in Nat
  BY <1>1 DEF InvFcbs, TipoFS, TipoOp, Fcb
<1>4. PICK fcb : fcb = EnDisco(Fcb)
  OBVIOUS
<1>5. fcb \in FcbsDeDisco
  BY <1>2, <1>3, <1>4 DEF FcbsDeDisco, EnDisco, FcbsEnMemoria
<1>6. disco' = [disco EXCEPT ![op.archivo] = fcb]
  BY <1>4 DEF CierraFcb, EnDisco, Fcb
<1>7. /\ disco' \in [Archivos -> {Nulo, Vacio} \union FcbsDeDisco]
      /\ disco'[op.archivo] = fcb
      /\ \A f \in Archivos \ {op.archivo} : disco'[f] = disco[f]
  BY <1>2, <1>5, <1>6 DEF InvFcbs, TipoFS
<1>8. EsPedido(op') /\ op'.archivo = op.archivo /\ op'.paso = "responde" /\ op'.tipo = op.tipo
  BY <1>2, Siguiendo DEF CierraFcb, Truncando
<1>9. fcbs' = fcbs
  BY DEF CierraFcb
<1>10. TipoFS'
  BY <1>1, <1>7, <1>8 DEF CierraFcb, InvFcbs, TipoFS, TipoOp, Truncando, EnCambio,
      historia
<1>11. ASSUME NEW f \in Archivos
       PROVE  \/ disco'[f] = Nulo /\ fcbs'[f] = Nulo
              \/ fcbs'[f] # Nulo /\ disco'[f] = EnDisco(fcbs'[f])
  <2>1. CASE f = op.archivo
    BY <1>2, <1>4, <1>7, <1>9, <2>1
  <2>2. CASE f # op.archivo
    BY <1>1, <1>7, <1>9, <2>2 DEF InvFcbs, Persistencia, EnCambio
  <2>3. QED
    BY <2>1, <2>2
<1>12. Persistencia'
  BY <1>1, <1>8, <1>11 DEF CierraFcb, Persistencia, Truncando, EnCambio
<1>13. LecturaHecha'
  BY <1>2, <1>8 DEF LecturaHecha, EsPedido
<1>14. QED
  BY <1>1, <1>2, <1>4, <1>5, <1>7, <1>8, <1>9, <1>10, <1>12, <1>13 DEF InvFcbs

(* The answer leaves every FCB as it is.                                   *)
LEMMA RespondeFcbs ==
  ASSUME InvFcbs, Responde
  PROVE  InvFcbs'
<1>1. vivo /\ op.paso = "responde" /\ op' = EnReposo /\ op'.paso = "libre"
  BY DEF Responde, EnReposo
<1>2. UNCHANGED <<bitmap, bloques, disco, fcbs, vivo, pedidos, caidas, danio>>
  BY DEF Responde, historia
<1>3. TipoFS'
  BY <1>1, <1>2 DEF InvFcbs, TipoFS, TipoOp, Truncando, EnCambio
<1>4. Persistencia'
  BY <1>1, <1>2 DEF InvFcbs, Persistencia, Truncando, EnCambio
<1>5. LecturaHecha'
  BY <1>1 DEF LecturaHecha
<1>6. QED
  BY <1>3, <1>4, <1>5 DEF InvFcbs

(* ... a turn of escribir_archivo...                                       *)

(* Where the turn writes, and how much.                                    *)
Salta == op.espacio = 0
BloqueDelTramo == IF Salta THEN BuscarSiguienteBloque(op.bloque, Fcb) ELSE op.bloque
PosicionDelTramo == IF Salta THEN BloqueDelTramo * SIZE_BLOQUE ELSE op.posicion
EspacioDelTramo == IF Salta THEN SIZE_BLOQUE ELSE op.espacio
Cuanto == Min({EspacioDelTramo, op.total - op.escritos})

(* A turn of escribir_archivo writes at least one unit and at most what    *)
(* is left of its block and of the request.                                *)
LEMMA TramoFcbs ==
  ASSUME InvFcbs, EscribeTramo
  PROVE  /\ InvFcbs' /\ EsEscritura(op) /\ EsEscritura(op') /\ op.paso = "escribe" /\ vivo
         /\ Cuanto \in Nat \ {0} /\ Cuanto <= EspacioDelTramo
         /\ Cuanto <= op.total - op.escritos
         /\ Cuanto = EspacioDelTramo \/ Cuanto = op.total - op.escritos
         /\ op'.archivo = op.archivo /\ op'.tipo = "F_WRITE" /\ op'.total = op.total
         /\ op'.bloque = BloqueDelTramo /\ op'.posicion = PosicionDelTramo
         /\ op'.espacio = 0 /\ op'.escritos = op.escritos + Cuanto
         /\ op'.esperado = op.esperado
         /\ PosicionDelTramo \in Int
         /\ \A u \in Unidades :
              bloques'[u] = IF u >= PosicionDelTramo /\ u < PosicionDelTramo + Cuanto
                            THEN Dato(op.escritos + (u - PosicionDelTramo) + 1)
                            ELSE bloques[u]
<1>1. op.paso = "escribe" /\ vivo
  BY DEF EscribeTramo
<1>2. EsEscritura(op)
  BY <1>1 DEF InvFcbs, TipoFS, TipoOp, EsPedido, EsLectura, EnReposo, Truncando, EnCambio
<1>3. fcbs[op.archivo] # Nulo /\ fcbs[op.archivo] \in FcbsEnMemoria
  BY <1>1, <1>2 DEF InvFcbs, TipoFS, TipoOp, EsEscritura
<1>4. SIZE_BLOQUE \in Nat \ {0} /\ bloques \in [Unidades -> Int] /\ Unidades \subseteq Int
  BY FileSystemOK DEF InvFcbs, TipoFS, Unidades
<1>5. EspacioDelTramo \in Nat \ {0}
  BY <1>2, <1>4 DEF EspacioDelTramo, Salta, EsEscritura
<1>6. op.total - op.escritos \in Nat \ {0}
  BY <1>1, <1>2 DEF EsEscritura
<1>7. /\ Cuanto \in Nat \ {0} /\ Cuanto <= EspacioDelTramo
      /\ Cuanto <= op.total - op.escritos
      /\ Cuanto = EspacioDelTramo \/ Cuanto = op.total - op.escritos
  <2>1. PICK T : T = {EspacioDelTramo, op.total - op.escritos}
    OBVIOUS
  <2>2. T \in SUBSET Nat /\ T # {}
    BY <1>5, <1>6, <2>1
  <2>3. Min(T) \in T /\ \A x \in T : Min(T) <= x
    BY <2>2, MinimoDeNaturales
  <2>4. Cuanto = Min(T)
    BY <2>1 DEF Cuanto
  <2>5. QED
    BY <1>5, <1>6, <2>1, <2>3, <2>4
<1>8. BloqueDelTramo \in Int
  BY <1>2, <1>4, Leyendo DEF BloqueDelTramo, BuscarSiguienteBloque, EsEscritura
<1>9. PosicionDelTramo \in Int
  BY <1>2, <1>4, <1>8 DEF PosicionDelTramo, EsEscritura
<1>10. /\ Escribe(PosicionDelTramo, [i \in 1 .. Cuanto |-> Dato(op.escritos + i)])
       /\ op' = [op EXCEPT
            !.bloque = BloqueDelTramo, !.posicion = PosicionDelTramo, !.espacio = 0,
            !.escritos = @ + Cuanto,
            !.paso = IF op.escritos + Cuanto = op.total THEN "responde" ELSE @]
       /\ UNCHANGED <<bitmap, disco, fcbs, vivo, pedidos, caidas, danio>>
  BY DEF EscribeTramo, Cuanto, EspacioDelTramo, PosicionDelTramo, BloqueDelTramo, Salta,
      historia
<1>11. DOMAIN op = {"tipo", "archivo", "paso", "bloque", "posicion", "espacio",
                    "total", "escritos", "esperado"}
  BY <1>2 DEF EsEscritura
<1>12. /\ DOMAIN op' = {"tipo", "archivo", "paso", "bloque", "posicion", "espacio",
                        "total", "escritos", "esperado"}
       /\ op'.archivo = op.archivo /\ op'.tipo = op.tipo /\ op'.total = op.total
       /\ op'.bloque = BloqueDelTramo /\ op'.posicion = PosicionDelTramo
       /\ op'.espacio = 0 /\ op'.escritos = op.escritos + Cuanto
       /\ op'.esperado = op.esperado
       /\ op'.paso = IF op.escritos + Cuanto = op.total THEN "responde" ELSE "escribe"
  BY <1>1, <1>10, <1>11
<1>13. EsEscritura(op')
  <2>1. op'.escritos \in 0 .. op'.total
    BY <1>2, <1>6, <1>7, <1>12 DEF EsEscritura
  <2>2. op'.paso = "escribe" <=> op'.escritos < op'.total
    BY <1>2, <1>6, <1>7, <1>12 DEF EsEscritura
  <2>3. QED
    BY <1>2, <1>4, <1>8, <1>9, <1>12, <2>1, <2>2 DEF EsEscritura
<1>14. PICK datos : datos = [i \in 1 .. Cuanto |-> Dato(op.escritos + i)]
  OBVIOUS
<1>15. op.escritos \in Nat /\ op.archivo \in Archivos
  BY <1>2 DEF EsEscritura
<1>16. PICK n \in Nat : n = Cuanto
  BY <1>7
<1>17. datos \in [1 .. n -> Int]
  BY <1>14, <1>15, <1>16 DEF Dato
<1>18. PICK x \in Int : x = PosicionDelTramo
  BY <1>9
<1>19. Escribe(x, datos)
  BY <1>10, <1>14, <1>18
<1>20. /\ bloques' \in [Unidades -> Int]
       /\ \A u \in Unidades :
            bloques'[u] = IF u >= x /\ u < x + n THEN datos[u - x + 1] ELSE bloques[u]
  BY <1>4, <1>17, <1>19, EscribeTipo
<1>21. ASSUME NEW u \in Unidades
       PROVE  bloques'[u] = IF u >= x /\ u < x + n
                            THEN Dato(op.escritos + (u - x) + 1) ELSE bloques[u]
  <2>1. CASE u >= x /\ u < x + n
    <3>1. u - x + 1 \in 1 .. n
      BY <1>4, <2>1
    <3>2. datos[u - x + 1] = Dato(op.escritos + (u - x + 1))
      BY <1>14, <1>16, <3>1
    <3>3. op.escritos + (u - x + 1) = op.escritos + (u - x) + 1
      BY <1>4, <1>15
    <3>4. QED
      BY <1>20, <2>1, <3>2, <3>3
  <2>2. QED
    BY <1>20, <2>1
<1>22. op'.paso \notin Truncando /\ op.paso \notin Truncando
  BY <1>1, <1>12 DEF Truncando, EnCambio
<1>23. TipoFS'
  <2>1. TipoOp'
    BY <1>3, <1>10, <1>12, <1>13, <1>22 DEF TipoOp, Truncando, EnCambio
  <2>2. QED
    BY <1>1, <1>10, <1>20, <2>1 DEF InvFcbs, TipoFS
<1>24. Persistencia'
  BY <1>1, <1>10, <1>22 DEF InvFcbs, Persistencia, Truncando
<1>25. LecturaHecha'
  BY <1>2, <1>12 DEF LecturaHecha, EsEscritura
<1>26. op.tipo = "F_WRITE"
  BY <1>2 DEF EsEscritura
<1>27. QED
  BY <1>1, <1>2, <1>7, <1>9, <1>12, <1>13, <1>16, <1>18, <1>21, <1>23, <1>24, <1>25, <1>26
  DEF InvFcbs

(* ... and a stop and a start.                                             *)
LEMMA CaidaFcbs ==
  ASSUME InvFcbs, Caida
  PROVE  InvFcbs'
<1>1. op'.paso = "libre" /\ op' = EnReposo /\ vivo' = FALSE
  BY DEF Caida, EnReposo
<1>2. /\ UNCHANGED <<bitmap, bloques, disco, pedidos>>
      /\ fcbs' \in [Archivos -> {Nulo}]
      /\ caidas' \in 0 .. MaxCaidas
  BY FileSystemOK DEF Caida, InvFcbs, TipoFS
<1>3. danio' \in BOOLEAN
  BY DEF Caida
<1>4. TipoOp'
  BY <1>1 DEF TipoOp, Truncando, EnCambio
<1>5. TipoFS'
  BY <1>1, <1>2, <1>3, <1>4 DEF InvFcbs, TipoFS
<1>6. Persistencia'
  BY <1>1, <1>2 DEF Persistencia
<1>7. LecturaHecha'
  BY <1>1 DEF LecturaHecha
<1>8. QED
  BY <1>5, <1>6, <1>7 DEF InvFcbs

(* A start loads the FCBs from disk, all of them whole.                    *)
LEMMA ArrancaFcbs ==
  ASSUME InvFcbs, Arranca
  PROVE  /\ InvFcbs' /\ op' = EnReposo /\ vivo'
         /\ \A f \in Archivos : fcbs'[f] = CargarFcb(f)
<1>1. op = EnReposo /\ op' = op /\ op'.paso = "libre" /\ vivo' = TRUE
  BY DEF Arranca, EnReposo, InvFcbs, TipoFS
<1>2. UNCHANGED <<bitmap, bloques, disco, pedidos, caidas>> /\ danio' \in BOOLEAN
  BY DEF Arranca
<1>3. ASSUME NEW f \in Archivos
      PROVE  /\ fcbs'[f] \in {Nulo} \union FcbsEnMemoria /\ fcbs'[f] = CargarFcb(f)
             /\ \/ disco[f] = Nulo /\ fcbs'[f] = Nulo
                \/ fcbs'[f] # Nulo /\ disco[f] = EnDisco(fcbs'[f])
  <2>1. fcbs'[f] = CargarFcb(f)
    BY DEF Arranca
  <2>2. CASE disco[f] = Nulo
    BY <2>1, <2>2 DEF CargarFcb
  <2>3. CASE disco[f] # Nulo
    <3>1. disco[f] \in FcbsDeDisco
      BY <2>3 DEF Arranca, InvFcbs, TipoFS
    <3>2. HaciaArriba(disco[f].tamanio) \in Nat
      BY <3>1, Redondeo DEF FcbsDeDisco
    <3>3. fcbs'[f] \in FcbsEnMemoria
      BY <2>1, <2>3, <3>1, <3>2 DEF CargarFcb, FcbsDeDisco, FcbsEnMemoria
    <3>4. disco[f] = EnDisco(fcbs'[f])
      BY <2>1, <2>3, <3>1 DEF CargarFcb, FcbsDeDisco, EnDisco
    <3>5. QED
      BY <2>1, <3>3, <3>4, MarcasOK DEF FcbsEnMemoria
  <2>4. QED
    BY <2>2, <2>3
<1>4. fcbs' \in [Archivos -> {Nulo} \union FcbsEnMemoria]
  BY <1>3 DEF Arranca
<1>5. TipoOp'
  BY <1>1 DEF TipoOp, Truncando, EnCambio
<1>6. TipoFS'
  BY <1>1, <1>2, <1>4, <1>5 DEF InvFcbs, TipoFS
<1>7. Persistencia'
  BY <1>1, <1>2, <1>3 DEF Persistencia, Truncando, EnCambio
<1>8. LecturaHecha'
  BY <1>1 DEF LecturaHecha
<1>9. QED
  BY <1>1, <1>3, <1>6, <1>7, <1>8 DEF InvFcbs

(* Part 1 of the invariant is kept by every step.                          *)
LEMMA PasoFcbs == InvFcbs /\ [Next]_vars => InvFcbs'
<1> SUFFICES ASSUME InvFcbs, [Next]_vars PROVE InvFcbs'
  OBVIOUS
<1>1. ASSUME NEW f \in Archivos, Abrir(f) PROVE InvFcbs'
  BY <1>1, AbrirFcbs
<1>2. ASSUME NEW f \in Archivos, CrearArchivo(f) PROVE InvFcbs'
  BY <1>2, CrearArchivoFcbs
<1>3. ASSUME NEW f \in Archivos, TruncarInexistente(f) PROVE InvFcbs'
  BY <1>3, TruncarInexistenteFcbs
<1>4. ASSUME NEW f \in Archivos, NEW n \in Tamanios, Truncar(f, n) PROVE InvFcbs'
  BY <1>4, TruncarFcbs
<1>5. ASSUME NEW f \in Archivos, NEW p \in Punteros, NEW n \in Cantidades,
             LeerArchivo(f, p, n)
      PROVE  InvFcbs'
  BY <1>5, LeerArchivoFcbs
<1>6. ASSUME NEW f \in Archivos, NEW p \in Punteros, NEW n \in Cantidades,
             EscribirArchivo(f, p, n)
      PROVE  InvFcbs'
  BY <1>6, EscribirArchivoFcbs
<1>7. ASSUME AsignaPunteroDirecto \/ AsignaPunteroIndirecto \/ AsignaBloque \/ CierraBloques
      PROVE  InvFcbs'
  BY <1>7, DirectoFcbs, IndirectoFcbs, AsignaBloqueFcbs, CierraBloquesFcbs
<1>8. ASSUME DesasignaUltimoBloque \/ DesasignaIndirecto \/ DesasignaDirecto PROVE InvFcbs'
  BY <1>8, UltimoFcbs, DesasignaIndirectoFcbs, DesasignaDirectoFcbs
<1>9. ASSUME AbreFcb \/ CierraFcb \/ EscribeTramo \/ Responde PROVE InvFcbs'
  BY <1>9, AbreFcbFcbs, CierraFcbFcbs, TramoFcbs, RespondeFcbs
<1>10. ASSUME Caida \/ Arranca PROVE InvFcbs'
  BY <1>10, CaidaFcbs, ArrancaFcbs
<1>11. CASE UNCHANGED vars
  <2>1. UNCHANGED <<bitmap, bloques, disco, fcbs, vivo, op, pedidos, caidas, danio>>
    BY <1>11 DEF vars, historia
  <2>2. TipoFS'
    BY <2>1 DEF InvFcbs, TipoFS, TipoOp
  <2>3. Persistencia'
    BY <2>1 DEF InvFcbs, Persistencia, Legible
  <2>4. LecturaHecha'
    BY <2>1 DEF InvFcbs, LecturaHecha, Leido, Unidad, ObtenerPosicionAbsoluta,
                ObtenerBloqueAbsoluto, LeerNPuntero
  <2>5. QED
    BY <2>2, <2>3, <2>4 DEF InvFcbs
<1>12. QED
  BY <1>1, <1>2, <1>3, <1>4, <1>5, <1>6, <1>7, <1>8, <1>9, <1>10, <1>11 DEF Next

(* Part 1 holds in every state.                                            *)
THEOREM FcbsSiempre == Spec => []InvFcbs
  BY InicioFcbs, PasoFcbs, PTL DEF Spec

(* The blocks found shared are always blocks.                              *)
LEMMA CompartidosSonBloques == Spec => [](compartidos \subseteq Bloques)
<1>1. Repetidos \subseteq Bloques
  BY DEF Repetidos
<1>2. Init => compartidos \subseteq Bloques
  BY <1>1 DEF Init
<1>3. compartidos \subseteq Bloques /\ [Next]_vars => (compartidos \subseteq Bloques)'
  <2> SUFFICES ASSUME compartidos \subseteq Bloques, [Next]_vars
               PROVE  compartidos' \subseteq Bloques
    OBVIOUS
  <2>1. CASE UNCHANGED vars
    BY <2>1 DEF vars, historia
  <2>2. CASE Arranca
    BY <1>1, <2>2 DEF Arranca
  <2>3. ASSUME NEW f \in Archivos, NEW n, NEW p,
               \/ Abrir(f) \/ CrearArchivo(f) \/ TruncarInexistente(f) \/ Truncar(f, n)
               \/ LeerArchivo(f, p, n) \/ EscribirArchivo(f, p, n)
        PROVE  compartidos' = compartidos
    BY <2>3 DEF Abrir, CrearArchivo, TruncarInexistente, Truncar, LeerArchivo,
                EscribirArchivo, historia
  <2>4. CASE \/ AsignaPunteroDirecto \/ AsignaPunteroIndirecto
             \/ AsignaBloque \/ CierraBloques
             \/ DesasignaUltimoBloque \/ DesasignaIndirecto \/ DesasignaDirecto
             \/ AbreFcb \/ CierraFcb \/ EscribeTramo \/ Responde \/ Caida
    BY <2>4 DEF AsignaPunteroDirecto, AsignaPunteroIndirecto, AsignaBloque, CierraBloques,
                DesasignaUltimoBloque, DesasignaIndirecto, DesasignaDirecto, AbreFcb,
                CierraFcb, EscribeTramo, Responde, Caida, historia
  <2>5. QED
    BY <2>1, <2>2, <2>3, <2>4 DEF Next
<1>4. QED
  BY <1>2, <1>3, PTL DEF Spec

(* Types: a process that is stopped holds no request, and the blocks left  *)
(* to take or to give back never go below zero (asignar_bloques and        *)
(* desasignar_bloques count down to it).                                   *)
THEOREM TiposCorrectos == Spec => []TypeOK
<1>1. InvFcbs /\ compartidos \subseteq Bloques => TypeOK
  <2> SUFFICES ASSUME InvFcbs, compartidos \subseteq Bloques PROVE TypeOK
    OBVIOUS
  <2>1. \A f \in Archivos :
          /\ disco[f] \in {Nulo, Vacio} \/ disco[f].tamanio \in Nat
          /\ fcbs[f] = Nulo \/ fcbs[f].cantidad \in Nat
    BY DEF InvFcbs, TipoFS, FcbsDeDisco, FcbsEnMemoria
  <2>2. op.paso \in Pasos
    BY DEF InvFcbs, TipoFS, TipoOp, EsPedido, EsLectura, EsEscritura, EnReposo, Pasos,
           Truncando, EnCambio
  <2>3. op.paso \in {"asigna", "desasigna"} => op.faltan \in Nat
    <3>1. op.paso \in {"asigna", "desasigna"} => op.paso \in Truncando
      BY DEF Truncando, EnCambio
    <3>2. QED
      BY <3>1, EnPedido DEF InvFcbs, EsPedido
  <2>4. QED
    BY <2>1, <2>2, <2>3 DEF InvFcbs, TipoFS, TypeOK
<1>2. QED
  BY <1>1, FcbsSiempre, CompartidosSonBloques, PTL

(* persistir_fcb comes last: between requests the FCB on disk is the one   *)
(* in memory, whatever was asked and wherever the process was stopped.     *)
THEOREM FcbSiemprePersistido == Spec => []FcbPersistido
<1>1. InvFcbs => FcbPersistido
  <2> SUFFICES ASSUME InvFcbs, vivo, op.paso \in {"libre", "responde"}, NEW f \in Archivos
               PROVE  \/ disco[f] = Nulo /\ fcbs[f] = Nulo
                      \/ /\ Legible(f)
                         /\ disco[f] = [tamanio |-> fcbs[f].tamanio,
                                        directo |-> fcbs[f].directo,
                                        indirecto |-> fcbs[f].indirecto]
    BY DEF FcbPersistido
  <2>1. \/ disco[f] = Nulo /\ fcbs[f] = Nulo
        \/ fcbs[f] # Nulo /\ disco[f] = EnDisco(fcbs[f])
    BY DEF InvFcbs, Persistencia, Truncando, EnCambio
  <2>2. ASSUME fcbs[f] # Nulo, disco[f] = EnDisco(fcbs[f]) PROVE Legible(f)
    <3>1. fcbs[f] \in FcbsEnMemoria
      BY <2>2 DEF InvFcbs, TipoFS
    <3>2. disco[f] \in [tamanio : Int, directo : Int, indirecto : Int]
      BY <2>2, <3>1 DEF EnDisco, FcbsEnMemoria
    <3>3. QED
      BY <3>2, MarcasOK DEF Legible
  <2>3. QED
    BY <2>1, <2>2 DEF EnDisco
<1>2. QED
  BY <1>1, FcbsSiempre, PTL

(* F_READ inside a block answers what the file holds at the pointer        *)
(* (leer_archivo's first turn).                                            *)
THEOREM LecturaSiempreFiel == Spec => []LecturaFiel
<1>1. InvFcbs => LecturaFiel
  <2> SUFFICES ASSUME InvFcbs, op.paso = "responde", op.tipo = "F_READ",
                      (op.puntero % SIZE_BLOQUE) + op.total <= SIZE_BLOQUE,
                      NEW i \in DOMAIN op.datos
               PROVE  op.datos[i] = Contenido(fcbs[op.archivo])[op.puntero + i]
    BY DEF LecturaFiel
  <2> DEFINE fcb == fcbs[op.archivo]
             S == SIZE_BLOQUE
             q == op.puntero \div S
             r == op.puntero % S
             bloque == IF q = 0 THEN fcb.directo ELSE LeerNPuntero(fcb.indirecto, q - 1)
  <2>1. /\ fcb # Nulo /\ op.datos = Leido(fcb, op.puntero, op.total)
        /\ op.puntero + op.total <= fcb.tamanio
    BY DEF InvFcbs, LecturaHecha
  <2>2. EsLectura(op)
    BY DEF InvFcbs, TipoFS, TipoOp, EsPedido, EsEscritura, EnReposo
  <2>3. op.puntero \in Nat /\ op.total \in Nat \ {0} /\ S \in Nat \ {0}
    BY <2>2, FileSystemOK DEF EsLectura
  <2>4. q \in Nat /\ r \in 0 .. S - 1 /\ op.puntero = S * q + r
    BY <2>3, Division
  <2> HIDE DEF q, r
  <2>5. PICK producto \in Nat : producto = S * q
    BY <2>3, <2>4
  <2>6. ObtenerPosicionEnBloque(op.puntero) = r
    BY <2>3, <2>4, <2>5 DEF ObtenerPosicionEnBloque, HaciaAbajo, q
  <2>7. Min({op.total, S - ObtenerPosicionEnBloque(op.puntero)}) = op.total
    <3>1. PICK T : T = {op.total, S - r}
      OBVIOUS
    <3>2. S - r \in Nat /\ op.total <= S - r
      BY <2>3, <2>4 DEF r
    <3>3. T \in SUBSET Nat /\ T # {}
      BY <2>3, <3>1, <3>2
    <3>4. Min(T) \in T /\ \A x \in T : Min(T) <= x
      BY <3>3, MinimoDeNaturales
    <3>5. QED
      BY <2>3, <2>6, <3>1, <3>2, <3>4
  <2>8. /\ i \in 0 .. op.total - 1
        /\ op.datos[i] = Unidad(ObtenerPosicionAbsoluta(fcb, op.puntero) + i)
    BY <2>1, <2>3, <2>7 DEF Leido
  <2>9. ObtenerBloqueAbsoluto(fcb, op.puntero) = bloque
    BY DEF ObtenerBloqueAbsoluto, HaciaAbajo, q
  <2>10. fcb \in FcbsEnMemoria
    BY <2>1, <2>2 DEF InvFcbs, TipoFS, EsLectura
  <2>11. bloque \in Int
    BY <2>10, Leyendo DEF FcbsEnMemoria, InvFcbs, TipoFS
  <2>12. PICK b \in Int : b = bloque
    BY <2>11
  <2> HIDE DEF bloque, fcb
  <2>13. PICK base \in Int : base = b * S
    BY <2>3
  <2>14. op.datos[i] = Unidad(base + (r + i))
    <3>1. ObtenerPosicionAbsoluta(fcb, op.puntero) + i = base + (r + i)
      BY <2>3, <2>4, <2>6, <2>8, <2>9, <2>12, <2>13 DEF ObtenerPosicionAbsoluta
    <3>2. QED
      BY <2>8, <3>1
  <2>15. (op.puntero + i) \div S = q /\ (op.puntero + i) % S = r + i
    <3>1. PICK n \in Nat : n = op.puntero + i
      BY <2>3, <2>8
    <3>2. /\ n \div S \in Nat /\ n % S \in 0 .. S - 1
          /\ n = S * (n \div S) + (n % S)
      BY <3>1, Division
    <3>3. PICK a \in Nat : a = n \div S
      BY <3>2
    <3>4. PICK t \in 0 .. S - 1 : t = n % S
      BY <3>2
    <3>5. PICK j \in 0 .. S - 1 : j = r + i
      BY <2>3, <2>4, <2>8 DEF r
    <3>6. a * S + t = q * S + j
      <4>1. a * S = S * a /\ q * S = producto
        BY <2>3, <2>4, <2>5, <3>3, SMTT(30)
      <4>2. PICK y \in Nat : y = S * a
        BY <2>3, <3>3, SMTT(30)
      <4>3. n = y + t
        BY <3>2, <3>3, <3>4, <4>2
      <4>4. n = producto + j
        BY <2>3, <2>4, <2>5, <2>8, <3>1, <3>5
      <4>5. QED
        BY <3>4, <3>5, <4>1, <4>2, <4>3, <4>4
    <3>7. a = q /\ t = j
      BY <2>3, <2>4, <3>6, UnidadUnica
    <3>8. QED
      BY <3>1, <3>3, <3>4, <3>5, <3>7
  <2>16. op.puntero + i \in 0 .. fcb.tamanio - 1
    BY <2>1, <2>3, <2>8, <2>10 DEF FcbsEnMemoria
  <2>17. Contenido(fcb)[op.puntero + i]
           = Unidad(bloque * S + (r + i))
    BY <2>15, <2>16 DEF Contenido, BloqueDelDato, bloque
  <2>18. QED
    BY <2>12, <2>13, <2>14, <2>17 DEF fcb
<1>2. QED
  BY <1>1, FcbsSiempre, PTL

-----------------------------------------------------------------------------
(* Blocks and units, whatever the file of blocks holds.                    *)

(* The units of a block are outside any other.                             *)
LEMMA FueraDelBloque ==
  ASSUME NEW b \in Int, NEW e \in Int, e # b, NEW i \in 0 .. SIZE_BLOQUE - 1
  PROVE  ~(e * SIZE_BLOQUE + i >= b * SIZE_BLOQUE
             /\ e * SIZE_BLOQUE + i < b * SIZE_BLOQUE + SIZE_BLOQUE)
<1>1. SIZE_BLOQUE \in Nat \ {0}
  BY FileSystemOK
<1>2. PICK x \in Int : x = e * SIZE_BLOQUE
  BY <1>1
<1>3. PICK y \in Int : y = b * SIZE_BLOQUE
  BY <1>1
<1>4. ASSUME x + i >= y, x + i < y + SIZE_BLOQUE PROVE FALSE
  <2>1. PICK t \in 0 .. SIZE_BLOQUE - 1 : t = x + i - y
    BY <1>1, <1>4
  <2>2. e * SIZE_BLOQUE + i = b * SIZE_BLOQUE + t
    BY <1>1, <1>2, <1>3, <2>1
  <2>3. QED
    BY <1>1, <2>2, UnidadUnica
<1>5. QED
  BY <1>2, <1>3, <1>4

(* The place of a block of data among the blocks of its file.              *)
LEMMA LugarDelDato ==
  ASSUME NEW m, NEW d, NEW e, NEW k \in Nat, NEW n \in 0 .. k - 1
  PROVE  \E j \in 1 .. Largo(k) :
           /\ j = (IF n = 0 THEN 1 ELSE n + 2)
           /\ j # 2 /\ BloqueDeDatos(m, d, e, n) = BloqueN(m, d, e, j)
<1>1. CASE n = 0
  <2>1. 1 \in 1 .. Largo(k)
    BY <1>1 DEF Largo
  <2>2. QED
    BY <1>1, <2>1 DEF BloqueDeDatos, BloqueN
<1>2. CASE n # 0
  <2>1. n + 2 \in 1 .. Largo(k)
    BY <1>2 DEF Largo
  <2>2. n + 2 # 1 /\ n + 2 # 2 /\ (n + 2) - 3 = n - 1
    BY <1>2
  <2>3. BloqueDeDatos(m, d, e, n) = BloqueN(m, d, e, n + 2)
    BY <1>2, <2>2 DEF BloqueDeDatos, BloqueN
  <2>4. QED
    BY <1>2, <2>1, <2>2, <2>3
<1>3. QED
  BY <1>1, <1>2

(* When no block is twice in a file, each of its data has its own.         *)
LEMMA DatosDistintos ==
  ASSUME NEW m, NEW d, NEW e, NEW k \in Nat,
         \A i, j \in 1 .. Largo(k) : BloqueN(m, d, e, i) = BloqueN(m, d, e, j) => i = j,
         NEW n \in 0 .. k - 1, NEW o \in 0 .. k - 1,
         BloqueDeDatos(m, d, e, n) = BloqueDeDatos(m, d, e, o)
  PROVE  n = o
<1>1. PICK j \in 1 .. Largo(k) :
        /\ j = (IF n = 0 THEN 1 ELSE n + 2)
        /\ BloqueDeDatos(m, d, e, n) = BloqueN(m, d, e, j)
  BY LugarDelDato
<1>2. PICK l \in 1 .. Largo(k) :
        /\ l = (IF o = 0 THEN 1 ELSE o + 2)
        /\ BloqueDeDatos(m, d, e, o) = BloqueN(m, d, e, l)
  BY LugarDelDato
<1>3. j = l
  BY <1>1, <1>2
<1>4. QED
  BY <1>1, <1>2, <1>3

(* A sound file: its direct block, its block of pointers, which is nothing *)
(* else, and its blocks of data.                                           *)
LEMMA BloquesPropios ==
  ASSUME NEW m, NEW d, NEW e, NEW k \in Nat, Sana(m, d, e, k)
  PROVE  /\ k >= 1 => d \in Bloques
         /\ k >= 2 => e \in Bloques /\ d # e /\ e \notin compartidos
         /\ \A n \in 0 .. k - 1 :
              /\ BloqueDeDatos(m, d, e, n) \in Bloques
              /\ k >= 2 => BloqueDeDatos(m, d, e, n) # e
              /\ (IF n = 0 THEN 1 ELSE n + 2) \in 1 .. Largo(k)
              /\ BloqueDeDatos(m, d, e, n) = BloqueN(m, d, e, IF n = 0 THEN 1 ELSE n + 2)
<1>1. /\ \A j \in 1 .. Largo(k) : BloqueN(m, d, e, j) \in Bloques
      /\ \A i, j \in 1 .. Largo(k) :
           BloqueN(m, d, e, i) = BloqueN(m, d, e, j) =>
             i = j \/ BloqueN(m, d, e, i) \in compartidos
      /\ k >= 2 => e \notin compartidos
  BY DEF Sana
<1>2. /\ k >= 1 => 1 \in 1 .. Largo(k)
      /\ k >= 2 => 2 \in 1 .. Largo(k) /\ 1 \in 1 .. Largo(k)
  BY DEF Largo
<1>3. BloqueN(m, d, e, 1) = d /\ BloqueN(m, d, e, 2) = e
  BY DEF BloqueN
<1>4. ASSUME k >= 2 PROVE e \in Bloques /\ d # e /\ e \notin compartidos
  BY <1>1, <1>2, <1>3, <1>4
<1>5. ASSUME NEW n \in 0 .. k - 1
      PROVE  /\ BloqueDeDatos(m, d, e, n) \in Bloques
             /\ k >= 2 => BloqueDeDatos(m, d, e, n) # e
             /\ (IF n = 0 THEN 1 ELSE n + 2) \in 1 .. Largo(k)
             /\ BloqueDeDatos(m, d, e, n) = BloqueN(m, d, e, IF n = 0 THEN 1 ELSE n + 2)
  <2>1. PICK j \in 1 .. Largo(k) :
          /\ j = (IF n = 0 THEN 1 ELSE n + 2)
          /\ j # 2 /\ BloqueDeDatos(m, d, e, n) = BloqueN(m, d, e, j)
    BY LugarDelDato
  <2>2. k >= 2 => BloqueN(m, d, e, j) # e
    BY <1>1, <1>2, <1>3, <2>1
  <2>3. QED
    BY <1>1, <2>1, <2>2
<1>6. QED
  BY <1>1, <1>2, <1>3, <1>4, <1>5

(* What is written in one block, as seen from the others.                  *)
SoloEnBloque(m, mm, b) ==
  \A u \in Unidades :
    ~(u >= b * SIZE_BLOQUE /\ u < b * SIZE_BLOQUE + SIZE_BLOQUE) => mm[u] = m[u]

(* What is written outside the block of pointers leaves the list of blocks *)
LEMMA PunterosIntactos ==
  ASSUME NEW m, NEW mm, NEW b \in Int, SoloEnBloque(m, mm, b),
         NEW d, NEW e, NEW k \in Nat, Sana(m, d, e, k), k >= 2 => e # b
  PROVE  /\ \A j \in 1 .. Largo(k) : BloqueN(mm, d, e, j) = BloqueN(m, d, e, j)
         /\ \A n \in 0 .. k - 1 : BloqueDeDatos(mm, d, e, n) = BloqueDeDatos(m, d, e, n)
         /\ Sana(mm, d, e, k)
<1>1. SIZE_BLOQUE \in Nat \ {0} /\ Bloques \subseteq Int
  BY FileSystemOK DEF Bloques
<1>2. ASSUME NEW i \in 0 .. k - 2 PROVE PunteroEn(mm, e, i) = PunteroEn(m, e, i)
  <2>1. k >= 2 /\ e \in Bloques /\ e # b
    BY <1>2, BloquesPropios
  <2>2. i \in 0 .. SIZE_BLOQUE - 1
    BY <1>1, <1>2 DEF Sana
  <2>3. e * SIZE_BLOQUE + i \in Unidades
    BY <2>1, <2>2, UnidadDentro
  <2>4. ~(e * SIZE_BLOQUE + i >= b * SIZE_BLOQUE
            /\ e * SIZE_BLOQUE + i < b * SIZE_BLOQUE + SIZE_BLOQUE)
    BY <1>1, <2>1, <2>2, FueraDelBloque
  <2>5. mm[e * SIZE_BLOQUE + i] = m[e * SIZE_BLOQUE + i]
    BY <2>3, <2>4 DEF SoloEnBloque
  <2>6. QED
    BY <2>1, <2>2, <2>5, PunteroDentro
<1>3. ASSUME NEW j \in 1 .. Largo(k) PROVE BloqueN(mm, d, e, j) = BloqueN(m, d, e, j)
  <2>1. CASE j = 1 \/ j = 2
    BY <2>1 DEF BloqueN
  <2>2. CASE j > 2
    <3>1. j - 3 \in 0 .. k - 2
      BY <2>2 DEF Largo
    <3>2. QED
      BY <1>2, <2>2, <3>1 DEF BloqueN
  <2>3. j = 1 \/ j = 2 \/ j > 2
    BY DEF Largo
  <2>4. QED
    BY <2>1, <2>2, <2>3
<1>4. ASSUME NEW n \in 0 .. k - 1
      PROVE  BloqueDeDatos(mm, d, e, n) = BloqueDeDatos(m, d, e, n)
  <2>1. CASE n = 0
    BY <2>1 DEF BloqueDeDatos
  <2>2. CASE n # 0
    <3>1. n - 1 \in 0 .. k - 2
      BY <2>2
    <3>2. QED
      BY <1>2, <2>2, <3>1 DEF BloqueDeDatos
  <2>3. QED
    BY <2>1, <2>2
<1>5. Sana(mm, d, e, k)
  BY <1>3 DEF Sana
<1>6. QED
  BY <1>3, <1>4, <1>5

(* Where a unit of a file is.                                              *)
LEMMA UnidadDelArchivo ==
  ASSUME NEW m, NEW d, NEW e, NEW k \in Nat, Sana(m, d, e, k),
         NEW i \in Nat, i \div SIZE_BLOQUE < k
  PROVE  /\ i \div SIZE_BLOQUE \in 0 .. k - 1 /\ i % SIZE_BLOQUE \in 0 .. SIZE_BLOQUE - 1
         /\ BloqueDeDatos(m, d, e, i \div SIZE_BLOQUE) \in Bloques
         /\ BloqueDeDatos(m, d, e, i \div SIZE_BLOQUE) * SIZE_BLOQUE + (i % SIZE_BLOQUE)
              \in Unidades
         /\ ValorEn(m, d, e, i)
              = m[BloqueDeDatos(m, d, e, i \div SIZE_BLOQUE) * SIZE_BLOQUE + (i % SIZE_BLOQUE)]
<1>1. PICK n \in Nat : n = i \div SIZE_BLOQUE
  BY Division
<1>2. PICK r \in 0 .. SIZE_BLOQUE - 1 : r = i % SIZE_BLOQUE
  BY Division
<1>3. n \in 0 .. k - 1
  BY <1>1
<1>4. PICK b \in Bloques : b = BloqueDeDatos(m, d, e, n)
  BY <1>3, BloquesPropios
<1>5. b * SIZE_BLOQUE + r \in Unidades
  BY UnidadDentro
<1>6. ValorEn(m, d, e, i) = m[b * SIZE_BLOQUE + r]
  BY <1>1, <1>2, <1>4, <1>5 DEF ValorEn, UnidadEn
<1>7. QED
  BY <1>1, <1>2, <1>3, <1>4, <1>5, <1>6

(* What is written in a block of no file leaves the contents of a file.    *)
LEMMA DatosIntactos ==
  ASSUME NEW m, NEW mm, NEW b \in Int, SoloEnBloque(m, mm, b),
         NEW d, NEW e, NEW k \in Nat, Sana(m, d, e, k), k >= 2 => e # b,
         NEW i \in Nat, i \div SIZE_BLOQUE < k,
         BloqueDeDatos(m, d, e, i \div SIZE_BLOQUE) # b
  PROVE  ValorEn(mm, d, e, i) = ValorEn(m, d, e, i)
<1>1. PICK n \in Nat : n = i \div SIZE_BLOQUE
  BY Division
<1>2. PICK r \in 0 .. SIZE_BLOQUE - 1 : r = i % SIZE_BLOQUE
  BY Division
<1>3. /\ n \in 0 .. k - 1
      /\ BloqueDeDatos(m, d, e, n) \in Bloques
      /\ BloqueDeDatos(m, d, e, n) * SIZE_BLOQUE + r \in Unidades
      /\ ValorEn(m, d, e, i) = m[BloqueDeDatos(m, d, e, n) * SIZE_BLOQUE + r]
  BY <1>1, <1>2, UnidadDelArchivo
<1>4. BloqueDeDatos(mm, d, e, n) = BloqueDeDatos(m, d, e, n) /\ Sana(mm, d, e, k)
  BY <1>3, PunterosIntactos
<1>5. ValorEn(mm, d, e, i) = mm[BloqueDeDatos(mm, d, e, n) * SIZE_BLOQUE + r]
  BY <1>1, <1>2, <1>4, UnidadDelArchivo
<1>6. PICK x \in Bloques : x = BloqueDeDatos(m, d, e, n)
  BY <1>3
<1>7. x \in Int /\ x # b
  BY <1>1, <1>6, FileSystemOK DEF Bloques
<1>8. ~(x * SIZE_BLOQUE + r >= b * SIZE_BLOQUE
          /\ x * SIZE_BLOQUE + r < b * SIZE_BLOQUE + SIZE_BLOQUE)
  BY <1>7, FueraDelBloque
<1>9. mm[x * SIZE_BLOQUE + r] = m[x * SIZE_BLOQUE + r]
  BY <1>3, <1>6, <1>8 DEF SoloEnBloque
<1>10. QED
  BY <1>3, <1>4, <1>5, <1>6, <1>9

(* With fewer blocks a file is as sound, as marked and as apart.           *)
LEMMA Prefijo ==
  ASSUME NEW m, NEW d, NEW e, NEW k \in Nat, NEW kk \in Nat, kk <= k
  PROVE  /\ Sana(m, d, e, k) => Sana(m, d, e, kk)
         /\ \A marcas : Marcada(m, d, e, k, marcas) => Marcada(m, d, e, kk, marcas)
         /\ \A dd, ee, l : Ajenas(m, dd, ee, l, d, e, k) => Ajenas(m, dd, ee, l, d, e, kk)
<1>1. \A j \in 1 .. Largo(kk) : j \in 1 .. Largo(k)
  BY DEF Largo
<1>2. Sana(m, d, e, k) => Sana(m, d, e, kk)
  <2>1. SIZE_BLOQUE \in Nat
    BY FileSystemOK
  <2>2. QED
    BY <1>1, <2>1 DEF Sana
<1>3. QED
  BY <1>1, <1>2 DEF Marcada, Ajenas

(* The fields of an FCB that is on disk.                                   *)
LEMMA EnElDisco ==
  ASSUME InvFcbs, NEW f \in Archivos, Legible(f)
  PROVE  /\ disco[f] \in FcbsDeDisco /\ K(f) \in Nat /\ disco[f].tamanio \in Nat
         /\ disco[f].directo \in Int /\ disco[f].indirecto \in Int
<1>1. disco[f] \in FcbsDeDisco
  BY DEF InvFcbs, TipoFS, Legible
<1>2. QED
  BY <1>1, Redondeo DEF FcbsDeDisco, K

(* Two files of which only the FCBs are the same...                        *)
LEMMA Quietos ==
  ASSUME Sanos, Separados, UNCHANGED <<bloques, disco, compartidos>>
  PROVE  Sanos' /\ Separados' /\ \A f \in Archivos : K(f)' = K(f) /\ (Legible(f)' <=> Legible(f))
<1>1. \A f \in Archivos : K(f)' = K(f) /\ (Legible(f)' <=> Legible(f))
  BY DEF K, Legible
<1>2. QED
  BY <1>1 DEF Sanos, Separados, Sana, Ajenas

-----------------------------------------------------------------------------
(* Part 2 is kept: the requests that are received.                         *)

(* The arrival of a request changes no block and no FCB, and the           *)
(* invariant asks only for what the new request starts from.               *)
LEMMA RecibeBloques ==
  ASSUME InvFcbs, BloquesBien, Recibe,
         UNCHANGED <<bitmap, bloques, disco, fcbs, vivo, compartidos>>,
         op'.paso \notin {"directo", "indirecto"},
         op'.paso \in {"desasigna", "vacia", "abre"} => ~op'.libero,
         EnAsigna', EnDesasigna', EnVacia', EnAbre',
         op'.paso \in {"escribe", "responde"} => EnEscribe'
  PROVE  BloquesBien'
<1>1. op.paso = "libre"
  BY AlRecibir
<1>2. /\ Sanos' /\ Separados'
      /\ \A f \in Archivos : K(f)' = K(f) /\ (Legible(f)' <=> Legible(f))
  BY Quietos DEF BloquesBien
<1>3. ~Liberando /\ ~Liberando'
  BY <1>1 DEF Liberando
<1>4. Ocupados'
  BY <1>2, <1>3 DEF BloquesBien, Ocupados, Marcada
<1>5. op.paso \notin Truncando
  BY <1>1 DEF Truncando, EnCambio
<1>6. Cuentas'
  BY <1>2, <1>5 DEF BloquesBien, Cuentas
<1>7. QED
  BY <1>2, <1>4, <1>6 DEF BloquesBien

(* Requests that are answered at once ask for nothing.                     *)
LEMMA RespuestaInmediata ==
  ASSUME InvFcbs, BloquesBien, Recibe,
         UNCHANGED <<bitmap, bloques, disco, fcbs, vivo, compartidos>>,
         op'.paso = "responde", op'.tipo # "F_WRITE"
  PROVE  BloquesBien'
<1>1. EnAsigna' /\ EnDesasigna' /\ EnVacia' /\ EnAbre' /\ EnEscribe'
  BY DEF EnAsigna, EnDesasigna, EnVacia, EnAbre, EnEscribe
<1>2. QED
  BY <1>1, RecibeBloques

(* F_OPEN, F_TRUNCATE of no file and F_READ change nothing on disk.        *)
LEMMA SinCambioBloques ==
  ASSUME InvFcbs, BloquesBien, NEW f \in Archivos,
         \/ Abrir(f) \/ TruncarInexistente(f)
         \/ \E p \in Punteros, n \in Cantidades : LeerArchivo(f, p, n)
  PROVE  BloquesBien'
<1>1. Recibe /\ UNCHANGED <<bitmap, bloques, disco, fcbs, vivo, compartidos>>
  BY DEF Abrir, TruncarInexistente, LeerArchivo, historia
<1>2. op'.paso = "responde" /\ op'.tipo # "F_WRITE"
  BY DEF Abrir, TruncarInexistente, LeerArchivo, Pedido
<1>3. QED
  BY <1>1, <1>2, RespuestaInmediata

(* A reduction that is not one of Danina frees no block of those that      *)
(* stay, in the other files or in this one.                                *)
LEMMA ReduceSinDanio ==
  ASSUME bloques \in [Unidades -> Int], NEW f \in Archivos, NEW n, ~DaninaAlReducir(f, n),
         NEW j \in Largo(HaciaArriba(n)) + 1 .. Largo(fcbs[f].cantidad)
  PROVE  /\ \A g \in Archivos : Legible(g) /\ g # f =>
              \A i \in 1 .. Largo(K(g)) :
                BloqueN(bloques, fcbs[f].directo, fcbs[f].indirecto, j)
                  # BloqueN(bloques, disco[g].directo, disco[g].indirecto, i)
         /\ \A i \in 1 .. Largo(HaciaArriba(n)) :
              BloqueN(bloques, fcbs[f].directo, fcbs[f].indirecto, j)
                # BloqueN(bloques, fcbs[f].directo, fcbs[f].indirecto, i)
<1>1. PICK b : b = BloqueN(bloques, fcbs[f].directo, fcbs[f].indirecto, j)
  OBVIOUS
<1>2. \A i : BloqueDe(fcbs[f], i) = BloqueN(bloques, fcbs[f].directo, fcbs[f].indirecto, i)
  BY ListaDeBloques
<1>3. /\ \A g \in Legibles \ {f} : b \notin ToSet(BloquesDe(disco[g]))
      /\ \A i \in 1 .. Largo(HaciaArriba(n)) : b # BloqueDe(fcbs[f], i)
  <2> DEFINE ajenos == UNION {ToSet(BloquesDe(disco[g])) : g \in Legibles \ {f}}
             propios == {BloqueDe(fcbs[f], i) : i \in 1 .. Largo(HaciaArriba(n))}
  <2>1. ~(\E l \in Largo(HaciaArriba(n)) + 1 .. Largo(fcbs[f].cantidad) :
             BloqueDe(fcbs[f], l) \in ajenos \union propios)
    BY Zenon DEF DaninaAlReducir
  <2> HIDE DEF ajenos, propios
  <2>2. b \notin ajenos \union propios
    BY <1>1, <1>2, <2>1
  <2>3. b \notin ajenos /\ b \notin propios
    BY <2>2
  <2>4. ASSUME NEW g \in Legibles \ {f} PROVE b \notin ToSet(BloquesDe(disco[g]))
    BY <2>3, Zenon DEF ajenos
  <2>5. \A i \in 1 .. Largo(HaciaArriba(n)) : b # BloqueDe(fcbs[f], i)
    BY <2>3 DEF propios
  <2>6. QED
    BY <2>4, <2>5
<1>4. ASSUME NEW g \in Archivos, Legible(g), g # f, NEW i \in 1 .. Largo(K(g))
      PROVE  b # BloqueN(bloques, disco[g].directo, disco[g].indirecto, i)
  <2>1. /\ i \in DOMAIN BloquesDe(disco[g])
        /\ BloquesDe(disco[g])[i] = BloqueN(bloques, disco[g].directo, disco[g].indirecto, i)
    BY ListaDeBloques DEF K
  <2>2. BloqueN(bloques, disco[g].directo, disco[g].indirecto, i) \in ToSet(BloquesDe(disco[g]))
    BY <2>1 DEF ToSet
  <2>3. g \in Legibles \ {f}
    BY <1>4 DEF Legibles
  <2>4. QED
    BY <1>3, <2>2, <2>3
<1>5. QED
  BY <1>1, <1>2, <1>3, <1>4

(* truncar_archivo, when it is not one of Danina, starts with the blocks   *)
(* that each way of changing the size needs.                               *)
LEMMA TruncarBloques ==
  ASSUME InvFcbs, BloquesBien, NEW f \in Archivos, NEW n \in Tamanios, Truncar(f, n),
         ~danio'
  PROVE  BloquesBien'
<1> DEFINE c == fcbs[f].cantidad
           h == HaciaArriba(n)
           d == fcbs[f].directo
           e == fcbs[f].indirecto
<1>1. /\ Recibe /\ fcbs[f] # Nulo
      /\ UNCHANGED <<bitmap, bloques, disco, fcbs, vivo, compartidos>>
      /\ ~DaninaAlCrecer(fcbs[f], n) /\ ~DaninaAlReducir(f, n)
  BY DEF Truncar, Danina
<1>2. /\ op.paso = "libre" /\ vivo
      /\ fcbs[f] \in FcbsEnMemoria /\ disco[f] = EnDisco(fcbs[f]) /\ Legible(f)
  BY <1>1, AlRecibir
<1>3. n \in Nat /\ h \in Nat /\ (n = 0 <=> h = 0) /\ c \in Nat
  BY <1>2, FileSystemOK, Redondeo DEF FcbsEnMemoria
<1>4. d = disco[f].directo /\ e = disco[f].indirecto /\ DelDisco(f)
  BY <1>2 DEF EnDisco, DelDisco
<1>5. K(f) \in Nat
  BY <1>2, EnElDisco
<1>6. c <= K(f) /\ (c < 2 => c = K(f))
  BY <1>1, <1>2 DEF BloquesBien, Cuentas, Truncando, EnCambio
<1>7. /\ EsPedido(op') /\ op'.archivo = f /\ op'.nuevo = n
      /\ op'.libero = FALSE /\ op'.escritos = <<>> /\ op'.tipo = "F_TRUNCATE"
      /\ \/ op'.paso = "directo" /\ c = 0 /\ c < h
         \/ op'.paso = "indirecto" /\ c = 1 /\ c < h
         \/ /\ op'.paso = "asigna" /\ c >= 2 /\ c < h
            /\ op'.faltan = PunterosAEscribir(n) /\ op'.faltan = h - 1
         \/ op'.paso = "desasigna" /\ op'.faltan \in Nat /\ c = op'.faltan + Restan(n)
         \/ op'.paso = "abre" /\ c = h
  BY <1>3, TruncarPedido
<1>8. /\ c < h => /\ c >= 2
                  /\ c - 1 + PunterosAEscribir(n) <= SIZE_BLOQUE
                  /\ PunterosAEscribir(n) <= Cardinality(Bloques \ bitmap)
  <2>1. ASSUME c < h
        PROVE  /\ ~(c < 2) /\ ~(c - 1 + PunterosAEscribir(n) > SIZE_BLOQUE)
               /\ ~(PunterosAEscribir(n) > Cardinality(Bloques \ bitmap))
    BY <1>1, <2>1 DEF DaninaAlCrecer
  <2>2. Cardinality(Bloques \ bitmap) \in Nat
    <3>1. IsFiniteSet(Bloques)
      BY FileSystemOK, FS_Interval DEF Bloques
    <3>2. QED
      BY <3>1, FS_Difference, FS_CardinalityType
  <2>3. ASSUME c < h PROVE PunterosAEscribir(n) \in Int
    BY <1>3, <2>3, Redondeo
  <2>4. QED
    BY <1>3, <2>1, <2>2, <2>3, FileSystemOK
<1>9. Fcb' = fcbs[f] /\ K(f)' = K(f)
  BY <1>1, <1>7 DEF Fcb, K
<1>10. /\ Sana(bloques, d, e, K(f)) /\ Marcada(bloques, d, e, K(f), bitmap)
       /\ \A g \in Archivos : Legible(g) /\ g # f =>
            Ajenas(bloques, disco[g].directo, disco[g].indirecto, K(g), d, e, K(f))
  <2>1. ~Liberando
    BY <1>2 DEF Liberando
  <2>2. QED
    BY <1>2, <1>4, <2>1 DEF BloquesBien, Sanos, Ocupados, Separados
<1>11. /\ Sana(bloques, d, e, c) /\ Marcada(bloques, d, e, c, bitmap)
       /\ \A g \in Archivos : Legible(g) /\ g # f =>
            Ajenas(bloques, disco[g].directo, disco[g].indirecto, K(g), d, e, c)
  BY <1>3, <1>5, <1>6, <1>10, Prefijo
<1>12. \A g \in Archivos : K(g)' = K(g) /\ (Legible(g)' <=> Legible(g))
  BY <1>1 DEF K, Legible
<1>20. ASSUME NEW j \in Largo(h) + 1 .. Largo(c)
       PROVE  /\ \A g \in Archivos : Legible(g) /\ g # f =>
                   \A i \in 1 .. Largo(K(g)) :
                     BloqueN(bloques, d, e, j)
                       # BloqueN(bloques, disco[g].directo, disco[g].indirecto, i)
              /\ \A i \in 1 .. Largo(h) : BloqueN(bloques, d, e, j) # BloqueN(bloques, d, e, i)
  BY <1>1, ReduceSinDanio DEF InvFcbs, TipoFS
<1> HIDE DEF c, h, d, e
<1>13. EnAsigna'
  <2> SUFFICES ASSUME op'.paso = "asigna" PROVE EnAsigna'
    BY DEF EnAsigna
  <2>1. c >= 2 /\ c < h /\ op'.faltan = PunterosAEscribir(n) /\ op'.faltan = h - 1
    BY <1>7
  <2>2. Len(op'.escritos) = 0
    BY <1>7
  <2>3. Len(op'.escritos) + op'.faltan = PunterosAEscribir(op'.nuevo)
    BY <1>3, <1>7, <2>1, <2>2
  <2>4. PunterosAEscribir(op'.nuevo) = PunterosAEscribir(n) /\ HaciaArriba(op'.nuevo) = h
    BY <1>7 DEF h
  <2>5. DelDisco(op.archivo)'
    BY <1>1, <1>4, <1>7 DEF DelDisco
  <2>6. Fcb'.cantidad = c
    BY <1>9 DEF c
  <2>7. op'.faltan <= Cardinality(Bloques \ bitmap')
    BY <1>1, <1>8, <2>1
  <2>8. c - 1 + PunterosAEscribir(n) <= SIZE_BLOQUE /\ c <= K(op.archivo)'
    BY <1>6, <1>7, <1>8, <1>9, <2>1
  <2>9. \A i \in 1 .. Len(op'.escritos) : FALSE
    BY <2>2
  <2>10. PunterosAEscribir(op.nuevo)' = PunterosAEscribir(op'.nuevo)
         /\ HaciaArriba(op.nuevo)' = HaciaArriba(op'.nuevo)
    BY DEF PunterosAEscribir, HaciaArriba
  <2>11. ~op'.libero
    BY <1>7
  <2>12. /\ Fcb'.cantidad >= 2 /\ Fcb'.cantidad <= K(op.archivo)'
         /\ Fcb'.cantidad < HaciaArriba(op'.nuevo)
         /\ Fcb'.cantidad - 1 + PunterosAEscribir(op'.nuevo) <= SIZE_BLOQUE
    BY <2>1, <2>4, <2>6, <2>8
  <2>13. QED
    BY <2>3, <2>5, <2>7, <2>9, <2>11, <2>12 DEF EnAsigna
<1>14. EnDesasigna'
  <2> SUFFICES ASSUME op'.paso = "desasigna" PROVE EnDesasigna'
    BY DEF EnDesasigna
  <2>1. op'.faltan \in Nat /\ c = op'.faltan + Restan(n)
    BY <1>7
  <2>2. Restan(n) \in Nat /\ Restan(n) >= 1
    BY <1>3 DEF Restan, h
  <2>3. c >= 1 /\ c <= K(f)
    BY <1>6, <2>1, <2>2
  <2>4. DelDisco(op.archivo)'
    BY <1>1, <1>4, <1>7 DEF DelDisco
  <2>5. Fcb'.cantidad = c /\ Fcb'.directo = d /\ Fcb'.indirecto = e
    BY <1>9 DEF c, d, e
  <2>6. Marcada(bloques, d, e, h, bitmap)
    <3>1. h <= K(f)
      BY <1>3, <1>5, <2>1, <2>2, <2>3 DEF Restan, h
    <3>2. QED
      BY <1>3, <1>5, <1>10, <3>1, Prefijo
  <2>7. Restan(op.nuevo)' = Restan(n)
    BY <1>7 DEF Restan, HaciaArriba
  <2>8. ~op'.libero
    BY <1>7
  <2>9. HaciaArriba(op.nuevo)' = h /\ Largo(HaciaArriba(op.nuevo))' = Largo(h)
    BY <1>7 DEF h, HaciaArriba, Largo
  <2>12. Marcada(bloques, Fcb.directo, Fcb.indirecto, HaciaArriba(op.nuevo), bitmap)'
    BY <1>1, <2>5, <2>6, <2>9 DEF Marcada
  <2>13. SeVan(Fcb.cantidad)'
    <3> SUFFICES ASSUME NEW j \in Largo(h) + 1 .. Largo(c)
                 PROVE  /\ NoEsDeOtro(BloqueN(bloques, Fcb.directo, Fcb.indirecto, j))'
                        /\ \A i \in 1 .. Largo(h) :
                             BloqueN(bloques, d, e, j) # BloqueN(bloques, d, e, i)
      BY <1>1, <2>5, <2>9 DEF SeVan, Largo
    <3>1. BloqueN(bloques, Fcb.directo, Fcb.indirecto, j)' = BloqueN(bloques, d, e, j)
      BY <1>1, <2>5
    <3>2. QED
      BY <1>1, <1>7, <1>12, <1>20, <3>1 DEF NoEsDeOtro
  <2>10. /\ Fcb'.cantidad = op'.faltan + Restan(op.nuevo)'
         /\ Fcb'.cantidad >= 1 /\ Fcb'.cantidad <= K(op.archivo)'
    BY <1>7, <1>9, <2>1, <2>3, <2>5, <2>7
  <2>11. QED
    BY <2>4, <2>8, <2>10, <2>12, <2>13 DEF EnDesasigna
<1>15. EnVacia'
  BY <1>7 DEF EnVacia
<1>16. EnAbre'
  <2> SUFFICES ASSUME op'.paso \in {"abre", "cierra"} PROVE EnAbre'
    BY DEF EnAbre
  <2>1. op'.paso = "abre" /\ c = h
    BY <1>7
  <2>2. /\ Fcb'.cantidad = c /\ Fcb'.directo = d /\ Fcb'.indirecto = e
        /\ HaciaArriba(op'.nuevo) = c
    BY <1>7, <1>9, <2>1 DEF c, d, e, h
  <2>3. Sana(bloques', Fcb'.directo, Fcb'.indirecto, HaciaArriba(op'.nuevo))
    BY <1>1, <1>11, <2>2
  <2>4. Marcada(bloques', Fcb'.directo, Fcb'.indirecto, HaciaArriba(op'.nuevo), bitmap')
    BY <1>1, <1>11, <2>2
  <2>5. ASSUME NEW g \in Archivos, Legible(g)', g # op'.archivo
        PROVE  Ajenas(bloques', disco'[g].directo, disco'[g].indirecto, K(g)',
                      Fcb'.directo, Fcb'.indirecto, HaciaArriba(op'.nuevo))
    <3>1. Legible(g) /\ g # f /\ K(g)' = K(g)
      BY <1>7, <1>12, <2>5
    <3>2. Ajenas(bloques, disco[g].directo, disco[g].indirecto, K(g), d, e, c)
      BY <1>11, <3>1
    <3>3. QED
      BY <1>1, <2>2, <3>1, <3>2
  <2>6. Fcb'.cantidad <= HaciaArriba(op'.nuevo) /\ Fcb'.cantidad = HaciaArriba(op'.nuevo)
    BY <1>3, <2>2 DEF c
  <2>7. HaciaArriba(op.nuevo)' = HaciaArriba(op'.nuevo)
    BY DEF HaciaArriba
  <2>8. QED
    BY <1>1, <2>1, <2>3, <2>4, <2>5, <2>6 DEF EnAbre, Sana, Marcada, Ajenas
<1>17. op'.paso \notin {"directo", "indirecto"}
  <2>1. c < h => c >= 2
    BY <1>8
  <2>2. QED
    BY <1>3, <1>7, <2>1
<1>18. op'.paso \notin {"escribe", "responde"}
  BY <1>7
<1>19. QED
  BY <1>1, <1>7, <1>13, <1>14, <1>15, <1>16, <1>17, <1>18, RecibeBloques

(* Contenido and its units.                                                *)
LEMMA ContenidoEs ==
  ASSUME NEW fcb
  PROVE  /\ DOMAIN Contenido(fcb) = 0 .. fcb.tamanio - 1
         /\ Contenido(fcb) = [i \in 0 .. fcb.tamanio - 1 |-> Contenido(fcb)[i]]
         /\ \A i \in 0 .. fcb.tamanio - 1 :
              /\ BloqueDelDato(fcb, i)
                   = BloqueDeDatos(bloques, fcb.directo, fcb.indirecto, i \div SIZE_BLOQUE)
              /\ Contenido(fcb)[i] = ValorEn(bloques, fcb.directo, fcb.indirecto, i)
<1>1. \A i : BloqueDelDato(fcb, i)
               = BloqueDeDatos(bloques, fcb.directo, fcb.indirecto, i \div SIZE_BLOQUE)
  BY DEF BloqueDelDato, BloqueDeDatos, PunteroEn, UnidadEn, Unidad, LeerNPuntero
<1>2. \A i : ValorEn(bloques, fcb.directo, fcb.indirecto, i)
               = Unidad(BloqueDelDato(fcb, i) * SIZE_BLOQUE + (i % SIZE_BLOQUE))
  BY <1>1 DEF ValorEn, UnidadEn, Unidad
<1>3. QED
  BY <1>1, <1>2 DEF Contenido

(* escribir_archivo starts at the block and the position of its pointer,   *)
(* and expects the contents of the file with the data in it.               *)
LEMMA EscribirArchivoBloques ==
  ASSUME InvFcbs, BloquesBien, NEW f \in Archivos, NEW p \in Punteros, NEW n \in Cantidades,
         EscribirArchivo(f, p, n)
  PROVE  BloquesBien'
<1> DEFINE t == fcbs[f].tamanio
           d == fcbs[f].directo
           e == fcbs[f].indirecto
<1>1. /\ Recibe /\ fcbs[f] # Nulo /\ p + n <= t
      /\ UNCHANGED <<bitmap, bloques, disco, fcbs, vivo, compartidos>>
  BY DEF EscribirArchivo, historia
<1>2. /\ op'.tipo = "F_WRITE" /\ op'.paso = "escribe" /\ op'.archivo = f
      /\ op'.bloque = ObtenerBloqueAbsoluto(fcbs[f], p)
      /\ op'.posicion = ObtenerPosicionAbsoluta(fcbs[f], p)
      /\ op'.espacio = SIZE_BLOQUE - ObtenerPosicionEnBloque(p)
      /\ op'.total = n /\ op'.escritos = 0
      /\ op'.esperado = [i \in 0 .. t - 1 |->
               IF i >= p /\ i < p + n THEN Dato(i - p + 1) ELSE Contenido(fcbs[f])[i]]
  BY DEF EscribirArchivo
<1>3. p \in Nat /\ n \in Nat \ {0} /\ SIZE_BLOQUE \in Nat \ {0}
  BY FileSystemOK
<1>4. t \in Nat
  BY <1>1, AlRecibir
<1>5. Fcb' = fcbs[f]
  BY <1>1, <1>2 DEF Fcb
<1>6. PICK q \in Nat : q = p \div SIZE_BLOQUE
  BY <1>3, Division
<1>7. PICK r \in 0 .. SIZE_BLOQUE - 1 : r = p % SIZE_BLOQUE
  BY <1>3, Division
<1>8. p = SIZE_BLOQUE * q + r
  BY <1>3, <1>6, <1>7, Division
<1>9. PICK y \in Nat : y = SIZE_BLOQUE * q
  BY <1>3
<1>10. ObtenerPosicionEnBloque(p) = r
  BY <1>6, <1>7, <1>8, <1>9 DEF ObtenerPosicionEnBloque, HaciaAbajo
<1>11. ObtenerBloqueAbsoluto(fcbs[f], p) = BloqueDeDatos(bloques, d, e, q)
  BY <1>6 DEF ObtenerBloqueAbsoluto, HaciaAbajo, BloqueDeDatos, LeerNPuntero, Unidad,
              PunteroEn, UnidadEn
<1>12. op'.bloque = BloqueDeDatos(bloques, d, e, q) /\ op'.espacio = SIZE_BLOQUE - r
       /\ op'.posicion = op'.bloque * SIZE_BLOQUE + r
  BY <1>2, <1>10, <1>11 DEF ObtenerPosicionAbsoluta
<1>13. ASSUME NEW i \in 0 .. t - 1
       PROVE  /\ i >= p /\ i < p + n => op'.esperado[i] = Dato(i - p + 1)
              /\ i < p \/ i >= p + n => op'.esperado[i] = ValorEn(bloques, d, e, i)
  <2>1. op'.esperado[i] = IF i >= p /\ i < p + n THEN Dato(i - p + 1)
                          ELSE Contenido(fcbs[f])[i]
    BY <1>2
  <2>2. Contenido(fcbs[f])[i] = ValorEn(bloques, d, e, i)
    BY ContenidoEs
  <2>3. i < p \/ i >= p + n <=> ~(i >= p /\ i < p + n)
    BY <1>3
  <2>4. QED
    BY <2>1, <2>2, <2>3
<1> HIDE DEF t, d, e
<1>14. EnEscribe'
  <2>1. p + op'.escritos = p /\ p \in 0 .. t /\ op'.espacio # 0
    BY <1>1, <1>2, <1>3, <1>4, <1>12
  <2>2. op'.esperado = [i \in 0 .. t - 1 |-> op'.esperado[i]]
    BY <1>2
  <2>3. /\ op'.bloque = BloqueDeDatos(bloques', Fcb'.directo, Fcb'.indirecto,
                                      (p + op'.escritos) \div SIZE_BLOQUE)
        /\ op'.posicion = op'.bloque * SIZE_BLOQUE + ((p + op'.escritos) % SIZE_BLOQUE)
        /\ op'.espacio = SIZE_BLOQUE - ((p + op'.escritos) % SIZE_BLOQUE)
    BY <1>1, <1>5, <1>6, <1>7, <1>12, <2>1 DEF d, e
  <2>4. Fcb'.tamanio = t /\ Fcb'.directo = d /\ Fcb'.indirecto = e /\ bloques' = bloques
    BY <1>1, <1>5 DEF t, d, e
  <2>5. \A i \in 0 .. Fcb'.tamanio - 1 :
          /\ i >= p /\ i < p + op'.total => op'.esperado[i] = Dato(i - p + 1)
          /\ i < p + op'.escritos \/ i >= p + op'.total =>
               op'.esperado[i] = ValorEn(bloques', Fcb'.directo, Fcb'.indirecto, i)
    BY <1>2, <1>13, <2>1, <2>4
  <2>6. p + op'.total <= Fcb'.tamanio
    BY <1>1, <1>2, <2>4 DEF t
  <2>7. QED
    BY <2>1, <2>2, <2>3, <2>4, <2>5, <2>6 DEF EnEscribe
<1>15. EnAsigna' /\ EnDesasigna' /\ EnVacia' /\ EnAbre'
  BY <1>2 DEF EnAsigna, EnDesasigna, EnVacia, EnAbre
<1>16. QED
  BY <1>1, <1>2, <1>14, <1>15, RecibeBloques

(* A new file has no block: what malloc left in puntero_directo is never   *)
(* taken for one.                                                          *)
LEMMA CrearArchivoBloques ==
  ASSUME InvFcbs, InvFcbs', BloquesBien, NEW f \in Archivos, CrearArchivo(f)
  PROVE  BloquesBien'
<1>1. /\ op.paso = "libre" /\ vivo
      /\ \A g \in Archivos :
           \/ disco[g] = Nulo /\ fcbs[g] = Nulo
           \/ fcbs[g] # Nulo /\ Legible(g)
  BY AlRecibir DEF CrearArchivo
<1>2. /\ op'.archivo = f /\ op'.paso = "cierra" /\ op'.nuevo = 0 /\ op'.libero = FALSE
  BY DEF CrearArchivo, Pedido
<1>3. UNCHANGED <<bitmap, bloques, compartidos>>
  BY DEF CrearArchivo, historia
<1>4. /\ ~Legible(f)'
      /\ \A g \in Archivos : Legible(g)' =>
           g # f /\ Legible(g) /\ K(g)' = K(g) /\ disco'[g] = disco[g]
      /\ \A g \in Archivos \ {f} : fcbs'[g] = fcbs[g]
  BY DEF CrearArchivo, Legible, K, InvFcbs, TipoFS
<1>5. Sanos'
  BY <1>3, <1>4 DEF BloquesBien, Sanos, Sana
<1>6. Separados'
  BY <1>3, <1>4 DEF BloquesBien, Separados, Ajenas
<1>7. Ocupados'
  <2>1. ~Liberando
    BY <1>1 DEF Liberando
  <2>2. QED
    BY <1>3, <1>4, <2>1 DEF BloquesBien, Ocupados, Marcada
<1>8. Cuentas'
  <2>1. ASSUME NEW g \in Archivos, fcbs'[g] # Nulo, g # f
        PROVE  /\ fcbs'[g].cantidad <= K(g)'
               /\ fcbs'[g].cantidad < 2 => fcbs'[g].cantidad = K(g)'
    <3>1. fcbs'[g] = fcbs[g] /\ disco'[g] = disco[g]
      BY <2>1, <1>4 DEF CrearArchivo, InvFcbs, TipoFS
    <3>2. K(g)' = K(g)
      BY <3>1 DEF K
    <3>3. QED
      BY <1>1, <2>1, <3>1, <3>2 DEF BloquesBien, Cuentas, Truncando, EnCambio
  <2>2. op'.paso \in Truncando
    BY <1>2 DEF Truncando
  <2>3. QED
    BY <1>2, <2>1, <2>2 DEF Cuentas
<1>9. EnAbre'
  <2>1. HaciaArriba(op.nuevo)' = 0
    <3>1. HaciaArriba(0) = 0
      BY Redondeo
    <3>2. QED
      BY <1>2, <3>1 DEF HaciaArriba
  <2>2. Largo(HaciaArriba(op.nuevo))' = 0
    BY <2>1 DEF Largo
  <2>3. Fcb'.cantidad = 0 /\ Fcb'.tamanio = 0
    BY <1>2 DEF CrearArchivo, Fcb, InvFcbs, TipoFS
  <2>4. SIZE_BLOQUE \in Nat
    BY FileSystemOK
  <2>5. QED
    BY <1>2, <2>1, <2>2, <2>3, <2>4 DEF EnAbre, Sana, Marcada, Ajenas
<1>10. EnAsigna' /\ EnDesasigna' /\ EnVacia'
  BY <1>2 DEF EnAsigna, EnDesasigna, EnVacia
<1>11. QED
  BY <1>2, <1>5, <1>6, <1>7, <1>8, <1>9, <1>10 DEF BloquesBien

-----------------------------------------------------------------------------
(* Part 2 is kept: the steps of a growth.                                  *)

(* While a file grows the blocks it takes are free ones.                   *)
LEMMA HayLibre ==
  ASSUME InvFcbs, BloquesBien, AsignaBloque
  PROVE  /\ BloqueLibre \in Bloques \ bitmap /\ bitmap' = bitmap \union {BloqueLibre}
         /\ op.faltan - 1 <= Cardinality(Bloques \ bitmap')
<1>1. op.paso = "asigna" /\ op.faltan > 0 /\ op.faltan \in Nat
  BY EnPedido DEF AsignaBloque, InvFcbs, EsPedido, Truncando, EnCambio
<1>2. op.faltan <= Cardinality(Bloques \ bitmap)
  BY <1>1 DEF BloquesBien, EnAsigna
<1>3. IsFiniteSet(Bloques \ bitmap)
  <2>1. IsFiniteSet(Bloques)
    BY FileSystemOK, FS_Interval DEF Bloques
  <2>2. QED
    BY <2>1, FS_Difference
<1>4. Bloques \ bitmap # {}
  BY <1>1, <1>2, FS_EmptySet
<1>5. BloqueLibre \in Bloques \ bitmap
  BY <1>4, Libre
<1>6. bitmap' = bitmap \union {BloqueLibre}
  BY <1>5 DEF AsignaBloque, MarcaOcupado
<1>7. Bloques \ bitmap' = (Bloques \ bitmap) \ {BloqueLibre}
  BY <1>6
<1>8. Cardinality(Bloques \ bitmap') = Cardinality(Bloques \ bitmap) - 1
  BY <1>3, <1>5, <1>7, FS_RemoveElement
<1>9. Cardinality(Bloques \ bitmap) \in Nat
  BY <1>3, FS_CardinalityType
<1>10. QED
  BY <1>1, <1>2, <1>5, <1>6, <1>8, <1>9

(* A turn of asignar_bloques takes a block that was free, which is in no   *)
(* file and is none of those already taken.                                *)
LEMMA AsignaBloqueBloques ==
  ASSUME InvFcbs, BloquesBien, AsignaBloque
  PROVE  BloquesBien'
<1> DEFINE a == op.archivo
           s == op.escritos
           n == Len(op.escritos)
<1>1. /\ op.paso = "asigna" /\ op.faltan > 0
      /\ UNCHANGED <<bloques, disco, fcbs, vivo, compartidos>>
      /\ op' = [op EXCEPT !.faltan = @ - 1, !.escritos = Append(@, BloqueLibre)]
  BY DEF AsignaBloque, historia
<1>2. EsPedido(op) /\ op.faltan \in Nat
  BY <1>1, EnPedido DEF InvFcbs, Truncando, EnCambio, EsPedido
<1>3. /\ op'.paso = "asigna" /\ op'.archivo = a /\ op'.nuevo = op.nuevo
      /\ op'.faltan = op.faltan - 1 /\ op'.escritos = Append(s, BloqueLibre)
      /\ op'.libero = op.libero
  BY <1>1, <1>2, TurnoQueAsigna
<1>4. /\ BloqueLibre \in Bloques \ bitmap /\ bitmap' = bitmap \union {BloqueLibre}
      /\ op.faltan - 1 <= Cardinality(Bloques \ bitmap')
  BY HayLibre
<1>5. /\ Sanos' /\ Separados'
      /\ \A f \in Archivos : K(f)' = K(f) /\ (Legible(f)' <=> Legible(f))
  BY <1>1, Quietos DEF BloquesBien
<1>6. ~Liberando
  BY <1>1 DEF Liberando
<1>7. Ocupados'
  BY <1>1, <1>4, <1>5, <1>6 DEF BloquesBien, Ocupados, Marcada
<1>8. Cuentas'
  BY <1>1, <1>3, <1>5 DEF BloquesBien, Cuentas
<1>9. s \in Seq(Int) /\ n \in Nat /\ BloqueLibre \in Int
  BY <1>2, Libre, LenProperties DEF EsPedido
<1>10. /\ Len(op'.escritos) = n + 1
       /\ \A i \in 1 .. n : op'.escritos[i] = s[i]
       /\ op'.escritos[n + 1] = BloqueLibre
  BY <1>3, <1>9, AppendProperties
<1>11. /\ DelDisco(a) /\ ~op.libero
       /\ Fcb.cantidad >= 2 /\ Fcb.cantidad <= K(a)
       /\ Fcb.cantidad < HaciaArriba(op.nuevo)
       /\ Fcb.cantidad - 1 + PunterosAEscribir(op.nuevo) <= SIZE_BLOQUE
       /\ n + op.faltan = PunterosAEscribir(op.nuevo)
       /\ \A i \in 1 .. n : s[i] \in bitmap
       /\ \A i, j \in 1 .. n : s[i] = s[j] => i = j
       /\ \A f \in Archivos : Legible(f) =>
            \A i \in 1 .. n, j \in 1 .. Largo(K(f)) :
              s[i] # BloqueN(bloques, disco[f].directo, disco[f].indirecto, j)
  BY <1>1 DEF BloquesBien, EnAsigna
<1> HIDE DEF n, s
<1>12. \A i \in 1 .. n + 1 : i \in 1 .. n \/ i = n + 1
  BY <1>9
<1>13. \A i \in 1 .. Len(op'.escritos) : op'.escritos[i] \in bitmap'
  BY <1>4, <1>10, <1>11, <1>12
<1>14. \A i, j \in 1 .. Len(op'.escritos) : op'.escritos[i] = op'.escritos[j] => i = j
  BY <1>4, <1>10, <1>11, <1>12
<1>15. ASSUME NEW f \in Archivos, Legible(f)', NEW i \in 1 .. Len(op'.escritos),
              NEW j \in 1 .. Largo(K(f)')
       PROVE  op'.escritos[i] # BloqueN(bloques', disco'[f].directo, disco'[f].indirecto, j)
  <2>1. Legible(f) /\ j \in 1 .. Largo(K(f))
    BY <1>5, <1>15
  <2>2. PICK b : b = BloqueN(bloques, disco[f].directo, disco[f].indirecto, j)
    OBVIOUS
  <2>3. b \in bitmap
    BY <1>6, <2>1, <2>2 DEF BloquesBien, Ocupados, Marcada
  <2>4. BloqueN(bloques', disco'[f].directo, disco'[f].indirecto, j) = b
    BY <1>1, <2>2
  <2>5. \A l \in 1 .. n : s[l] # b
    BY <1>11, <2>1, <2>2
  <2>6. QED
    BY <1>4, <1>10, <1>12, <1>15, <2>3, <2>4, <2>5
<1>16. /\ Fcb' = Fcb /\ DelDisco(op.archivo)' /\ K(op.archivo)' = K(a)
  BY <1>1, <1>3, <1>11 DEF Fcb, DelDisco, K
<1>17. Len(op'.escritos) + op'.faltan = PunterosAEscribir(op'.nuevo)
  <2>1. PunterosAEscribir(op'.nuevo) = PunterosAEscribir(op.nuevo)
    BY <1>3
  <2>2. Len(op'.escritos) + op'.faltan = n + op.faltan
    <3>1. PICK x \in Nat : x = op.faltan
      BY <1>2
    <3>2. Len(op'.escritos) = n + 1 /\ n \in Nat
      BY <1>9, <1>10
    <3>3. op'.faltan = x - 1
      BY <1>3, <3>1
    <3>4. QED
      BY <3>1, <3>2, <3>3
  <2>3. QED
    BY <1>11, <2>1, <2>2
<1>18. EnAsigna'
  <2>1. /\ HaciaArriba(op.nuevo)' = HaciaArriba(op.nuevo)
        /\ PunterosAEscribir(op.nuevo)' = PunterosAEscribir(op.nuevo)
    BY <1>3 DEF HaciaArriba, PunterosAEscribir
  <2>2. /\ Fcb'.cantidad >= 2 /\ Fcb'.cantidad <= K(op.archivo)'
        /\ Fcb'.cantidad < HaciaArriba(op.nuevo)'
        /\ Fcb'.cantidad - 1 + PunterosAEscribir(op.nuevo)' <= SIZE_BLOQUE
        /\ Len(op'.escritos) + op'.faltan = PunterosAEscribir(op.nuevo)'
    BY <1>3, <1>11, <1>16, <1>17, <2>1
  <2>3. op'.faltan <= Cardinality(Bloques \ bitmap') /\ ~op'.libero
    BY <1>3, <1>4, <1>11
  <2>4. \A f \in Archivos : Largo(K(f))' = Largo(K(f)')
    BY DEF Largo
  <2>5. QED
    BY <1>13, <1>14, <1>15, <1>16, <2>2, <2>3, <2>4 DEF EnAsigna, BloqueN, PunteroEn, UnidadEn
<1>19. EnDesasigna' /\ EnVacia' /\ EnAbre'
  BY <1>3 DEF EnDesasigna, EnVacia, EnAbre
<1>20. QED
  BY <1>3, <1>5, <1>7, <1>8, <1>18, <1>19 DEF BloquesBien

(* The pointers of the file that grows, after they are written: those of   *)
(* before up to cantidad_bloques_asignados, and then those of the stream.  *)
LEMMA PunterosNuevos ==
  ASSUME InvFcbs, BloquesBien, CierraBloques
  PROVE  /\ op.archivo \in Archivos /\ Legible(op.archivo) /\ DelDisco(op.archivo)
         /\ EsPedido(op) /\ Fcb \in FcbsEnMemoria /\ Fcb.cantidad \in Nat
         /\ K(op.archivo) \in Nat /\ HaciaArriba(op.nuevo) \in Nat
         /\ Fcb.cantidad >= 2 /\ Fcb.cantidad <= K(op.archivo)
         /\ Fcb.cantidad < HaciaArriba(op.nuevo)
         /\ Len(op.escritos) = HaciaArriba(op.nuevo) - 1
         /\ Fcb.cantidad - 1 + Len(op.escritos) <= SIZE_BLOQUE
         /\ Fcb.indirecto \in Bloques
         /\ SoloEnBloque(bloques, bloques', Fcb.indirecto)
         /\ \A i \in 0 .. SIZE_BLOQUE - 1 :
              PunteroEn(bloques', Fcb.indirecto, i)
                = IF i >= Fcb.cantidad - 1 /\ i < Fcb.cantidad - 1 + Len(op.escritos)
                  THEN op.escritos[i - Fcb.cantidad + 2]
                  ELSE PunteroEn(bloques, Fcb.indirecto, i)
<1> DEFINE a == op.archivo
<1>1. /\ op.paso = "asigna" /\ EsPedido(op) /\ Fcb \in FcbsEnMemoria
      /\ \A u \in Unidades :
           bloques'[u] = IF /\ u >= Fcb.indirecto * SIZE_BLOQUE + Fcb.cantidad - 1
                            /\ u < Fcb.indirecto * SIZE_BLOQUE + Fcb.cantidad - 1
                                     + Len(op.escritos)
                         THEN op.escritos[u - (Fcb.indirecto * SIZE_BLOQUE
                                                 + Fcb.cantidad - 1) + 1]
                         ELSE bloques[u]
  BY PunterosEscritos
<1>2. a \in Archivos /\ vivo /\ op.faltan = 0 /\ op.nuevo \in Nat
  BY <1>1 DEF EsPedido, CierraBloques
<1>3. Legible(a)
  BY <1>1, <1>2 DEF InvFcbs, Persistencia, Truncando, EnCambio
<1>4. K(a) \in Nat /\ HaciaArriba(op.nuevo) \in Nat
  BY <1>2, <1>3, EnElDisco, Redondeo
<1>5. /\ DelDisco(a) /\ Fcb.cantidad >= 2 /\ Fcb.cantidad <= K(a)
      /\ Fcb.cantidad < HaciaArriba(op.nuevo)
      /\ Fcb.cantidad - 1 + PunterosAEscribir(op.nuevo) <= SIZE_BLOQUE
      /\ Len(op.escritos) + op.faltan = PunterosAEscribir(op.nuevo)
  BY <1>1 DEF BloquesBien, EnAsigna
<1>6. PICK c \in Nat : c = Fcb.cantidad
  BY <1>1 DEF FcbsEnMemoria
<1>7. PICK n \in Nat : n = Len(op.escritos)
  BY <1>1, LenProperties DEF EsPedido
<1>8. op.nuevo > 0
  <2>1. HaciaArriba(op.nuevo) # 0
    BY <1>4, <1>5, <1>6
  <2>2. op.nuevo # 0
    BY <1>2, <2>1, Redondeo
  <2>3. QED
    BY <1>2, <2>2
<1>9. n = PunterosAEscribir(op.nuevo) /\ n = HaciaArriba(op.nuevo) - 1
  BY <1>2, <1>5, <1>7, <1>8, Redondeo
<1>10. c - 1 + n <= SIZE_BLOQUE /\ c >= 2
  BY <1>5, <1>6, <1>9
<1>11. Fcb.indirecto \in Bloques
  <2>1. Sana(bloques, disco[a].directo, disco[a].indirecto, K(a)) /\ K(a) >= 2
    BY <1>2, <1>3, <1>4, <1>5, <1>6 DEF BloquesBien, Sanos
  <2>2. QED
    BY <1>4, <1>5, <2>1, BloquesPropios DEF DelDisco, Fcb
<1>12. PICK e \in Bloques : e = Fcb.indirecto
  BY <1>11
<1>13. e \in Int /\ SIZE_BLOQUE \in Nat \ {0} /\ Unidades \subseteq Int
  BY FileSystemOK DEF Bloques, Unidades
<1>14. PICK y \in Int : y = e * SIZE_BLOQUE
  BY <1>13
<1>15. \A u \in Unidades :
         bloques'[u] = IF u >= y + c - 1 /\ u < y + c - 1 + n
                       THEN op.escritos[u - (y + c - 1) + 1] ELSE bloques[u]
  BY <1>1, <1>6, <1>7, <1>12, <1>14
<1>16. SoloEnBloque(bloques, bloques', e)
  <2> SUFFICES ASSUME NEW u \in Unidades,
                      ~(u >= y /\ u < y + SIZE_BLOQUE)
               PROVE  bloques'[u] = bloques[u]
    BY <1>14 DEF SoloEnBloque
  <2>1. ~(u >= y + c - 1 /\ u < y + c - 1 + n)
    BY <1>10, <1>13
  <2>2. QED
    BY <1>15, <2>1
<1>17. ASSUME NEW i \in 0 .. SIZE_BLOQUE - 1
       PROVE  PunteroEn(bloques', e, i)
                = IF i >= c - 1 /\ i < c - 1 + n
                  THEN op.escritos[i - c + 2] ELSE PunteroEn(bloques, e, i)
  <2>1. PICK u \in Unidades : u = y + i
    BY <1>12, <1>14, UnidadDentro
  <2>2. PunteroEn(bloques', e, i) = bloques'[u] /\ PunteroEn(bloques, e, i) = bloques[u]
    BY <1>14, <2>1, PunteroDentro
  <2>3. CASE i >= c - 1 /\ i < c - 1 + n
    <3>1. u >= y + c - 1 /\ u < y + c - 1 + n /\ u - (y + c - 1) + 1 = i - c + 2
      BY <2>1, <2>3
    <3>2. QED
      BY <1>15, <2>2, <2>3, <3>1
  <2>4. CASE ~(i >= c - 1 /\ i < c - 1 + n)
    <3>1. ~(u >= y + c - 1 /\ u < y + c - 1 + n)
      BY <2>1, <2>4
    <3>2. QED
      BY <1>15, <2>2, <2>4, <3>1
  <2>5. QED
    BY <2>3, <2>4
<1>18. QED
  BY <1>1, <1>2, <1>3, <1>4, <1>5, <1>6, <1>7, <1>9, <1>10, <1>12, <1>16, <1>17

(* The blocks of the file that grows, for any size that these pointers     *)
(* cover: each is one it had or one of those taken for it.                 *)
LEMMA ListaNueva ==
  ASSUME InvFcbs, BloquesBien, CierraBloques, NEW k \in Nat, k - 1 <= SIZE_BLOQUE,
         k <= K(op.archivo) \/ k <= HaciaArriba(op.nuevo)
  PROVE  /\ Sana(bloques', Fcb.directo, Fcb.indirecto, k)
         /\ Marcada(bloques', Fcb.directo, Fcb.indirecto, k, bitmap)
         /\ \A f \in Archivos : Legible(f) /\ f # op.archivo =>
              Ajenas(bloques, disco[f].directo, disco[f].indirecto, K(f),
                     Fcb.directo, Fcb.indirecto, k)'
<1> DEFINE a == op.archivo
           s == op.escritos
           n == Len(op.escritos)
           c == Fcb.cantidad
           d == Fcb.directo
           e == Fcb.indirecto
<1>1. /\ a \in Archivos /\ Legible(a) /\ DelDisco(a) /\ op.paso = "asigna"
      /\ c \in Nat /\ K(a) \in Nat /\ HaciaArriba(op.nuevo) \in Nat
      /\ c >= 2 /\ c <= K(a) /\ c < HaciaArriba(op.nuevo)
      /\ n = HaciaArriba(op.nuevo) - 1 /\ c - 1 + n <= SIZE_BLOQUE
      /\ e \in Bloques /\ SoloEnBloque(bloques, bloques', e)
      /\ \A i \in 0 .. SIZE_BLOQUE - 1 :
           PunteroEn(bloques', e, i)
             = IF i >= c - 1 /\ i < c - 1 + n THEN s[i - c + 2] ELSE PunteroEn(bloques, e, i)
  BY PunterosNuevos DEF CierraBloques
<1>2. d = disco[a].directo /\ e = disco[a].indirecto
  BY <1>1 DEF DelDisco, Fcb
<1>3. Sana(bloques, d, e, K(a)) /\ Marcada(bloques, d, e, K(a), bitmap)
  BY <1>1, <1>2 DEF BloquesBien, Sanos, Ocupados, Liberando
<1>4. /\ \A i \in 1 .. n : s[i] \in bitmap
      /\ \A i, j \in 1 .. n : s[i] = s[j] => i = j
      /\ \A f \in Archivos : Legible(f) =>
           \A i \in 1 .. n, j \in 1 .. Largo(K(f)) :
             s[i] # BloqueN(bloques, disco[f].directo, disco[f].indirecto, j)
  BY <1>1 DEF BloquesBien, EnAsigna
<1>5. bitmap \subseteq Bloques /\ SIZE_BLOQUE \in Nat \ {0} /\ n \in Nat
  BY <1>1, FileSystemOK DEF InvFcbs, TipoFS
<1> HIDE DEF s, n, c, d, e
<1>6. ASSUME NEW j \in 1 .. Largo(k)
      PROVE  \/ j \in 1 .. Largo(K(a)) /\ BloqueN(bloques', d, e, j) = BloqueN(bloques, d, e, j)
             \/ j - c - 1 \in 1 .. n /\ BloqueN(bloques', d, e, j) = s[j - c - 1]
  <2>1. CASE j = 1 \/ j = 2
    <3>1. j \in 1 .. Largo(K(a))
      BY <1>1, <2>1 DEF Largo
    <3>2. QED
      BY <2>1, <3>1 DEF BloqueN
  <2>2. CASE j > 2
    <3>1. PICK i \in 0 .. SIZE_BLOQUE - 1 : i = j - 3
      BY <1>5, <2>2 DEF Largo
    <3>2. BloqueN(bloques', d, e, j) = PunteroEn(bloques', e, i)
          /\ BloqueN(bloques, d, e, j) = PunteroEn(bloques, e, i)
      BY <2>2, <3>1 DEF BloqueN
    <3>3. CASE i >= c - 1 /\ i < c - 1 + n
      <4>1. i - c + 2 = j - c - 1 /\ j - c - 1 \in 1 .. n
        BY <1>1, <1>5, <3>1, <3>3
      <4>2. QED
        BY <1>1, <3>2, <3>3, <4>1
    <3>4. CASE ~(i >= c - 1 /\ i < c - 1 + n)
      <4>1. j <= k + 1 /\ i <= k - 2
        BY <2>2, <3>1 DEF Largo
      <4>2. i <= K(a) - 2
        BY <1>1, <1>5, <3>1, <3>4, <4>1
      <4>3. j \in 1 .. Largo(K(a))
        BY <1>1, <3>1, <4>2 DEF Largo
      <4>4. QED
        BY <1>1, <3>2, <3>4, <4>3
    <3>5. QED
      BY <3>3, <3>4
  <2>3. j = 1 \/ j = 2 \/ j > 2
    BY DEF Largo
  <2>4. QED
    BY <2>1, <2>2, <2>3
<1>7. \A j \in 1 .. Largo(K(a)) : \A i \in 1 .. n : s[i] # BloqueN(bloques, d, e, j)
  BY <1>1, <1>2, <1>4
<1>8. \A j \in 1 .. Largo(k) : BloqueN(bloques', d, e, j) \in bitmap
  BY <1>3, <1>4, <1>6 DEF Marcada
<1>9. ASSUME NEW i \in 1 .. Largo(k), NEW j \in 1 .. Largo(k),
             BloqueN(bloques', d, e, i) = BloqueN(bloques', d, e, j)
      PROVE  i = j \/ BloqueN(bloques', d, e, i) \in compartidos
  <2>1. CASE i \in 1 .. Largo(K(a)) /\ BloqueN(bloques', d, e, i) = BloqueN(bloques, d, e, i)
    BY <1>3, <1>6, <1>7, <1>9, <2>1 DEF Sana
  <2>2. CASE i - c - 1 \in 1 .. n /\ BloqueN(bloques', d, e, i) = s[i - c - 1]
    <3>1. ~(j \in 1 .. Largo(K(a)) /\ BloqueN(bloques', d, e, j) = BloqueN(bloques, d, e, j))
      BY <1>7, <1>9, <2>2
    <3>2. j - c - 1 \in 1 .. n /\ BloqueN(bloques', d, e, j) = s[j - c - 1]
      BY <1>6, <3>1
    <3>3. i - c - 1 = j - c - 1
      BY <1>4, <1>9, <2>2, <3>2
    <3>4. QED
      BY <1>1, <3>3
  <2>3. QED
    BY <1>6, <2>1, <2>2
<1>10. Sana(bloques', d, e, k)
  BY <1>1, <1>3, <1>5, <1>8, <1>9 DEF Sana
<1>11. Marcada(bloques', d, e, k, bitmap)
  BY <1>8 DEF Marcada
<1>12. ASSUME NEW f \in Archivos, Legible(f), f # a,
              NEW i \in 1 .. Largo(K(f)), NEW j \in 1 .. Largo(k),
              BloqueN(bloques', disco[f].directo, disco[f].indirecto, i)
                = BloqueN(bloques', d, e, j)
       PROVE  BloqueN(bloques', disco[f].directo, disco[f].indirecto, i) \in compartidos
  <2>1. /\ Sana(bloques, disco[f].directo, disco[f].indirecto, K(f)) /\ K(f) \in Nat
        /\ \A o \in 1 .. Largo(K(f)), p \in 1 .. Largo(K(a)) :
             BloqueN(bloques, disco[f].directo, disco[f].indirecto, o)
               = BloqueN(bloques, d, e, p) => BloqueN(bloques, d, e, p) \in compartidos
    BY <1>1, <1>2, <1>12, EnElDisco DEF BloquesBien, Sanos, Separados, Ajenas
  <2>2. K(f) >= 2 => disco[f].indirecto # e
    <3>1. ASSUME K(f) >= 2 PROVE 2 \in 1 .. Largo(K(f)) /\ 2 \in 1 .. Largo(K(a))
      BY <1>1, <2>1, <3>1 DEF Largo
    <3>2. BloqueN(bloques, disco[f].directo, disco[f].indirecto, 2) = disco[f].indirecto
          /\ BloqueN(bloques, d, e, 2) = e
      BY DEF BloqueN
    <3>3. e \notin compartidos
      BY <1>1, <1>3 DEF Sana
    <3>4. QED
      BY <2>1, <3>1, <3>2, <3>3
  <2>3. e \in Int
    BY <1>1, FileSystemOK DEF Bloques
  <2>4. BloqueN(bloques', disco[f].directo, disco[f].indirecto, i)
          = BloqueN(bloques, disco[f].directo, disco[f].indirecto, i)
    BY <1>1, <2>1, <2>2, <2>3, PunterosIntactos
  <2>5. \A o \in 1 .. n :
          s[o] # BloqueN(bloques, disco[f].directo, disco[f].indirecto, i)
    BY <1>4, <1>12
  <2>6. QED
    BY <1>6, <1>12, <2>1, <2>4, <2>5
<1>13. UNCHANGED <<disco, fcbs, compartidos>> /\ op'.archivo = a
  BY PunterosNuevos, Siguiendo DEF CierraBloques, Truncando, EnCambio, historia
<1>14. Fcb' = Fcb /\ \A f \in Archivos : K(f)' = K(f)
  BY <1>13 DEF Fcb, K
<1>15. \A f \in Archivos : Legible(f) /\ f # op.archivo =>
              Ajenas(bloques, disco[f].directo, disco[f].indirecto, K(f),
                     Fcb.directo, Fcb.indirecto, k)'
  BY <1>12, <1>13, <1>14 DEF Ajenas, d, e
<1>16. QED
  BY <1>10, <1>11, <1>15 DEF d, e

(* When asignar_bloques closes the file of blocks, the list of blocks of   *)
(* the file is whole for its size on disk and for the new one.             *)
LEMMA CierraBloquesBloques ==
  ASSUME InvFcbs, BloquesBien, CierraBloques
  PROVE  BloquesBien'
<1> DEFINE a == op.archivo
           h == HaciaArriba(op.nuevo)
<1>1. /\ a \in Archivos /\ Legible(a) /\ DelDisco(a) /\ EsPedido(op)
      /\ Fcb.cantidad \in Nat /\ K(a) \in Nat /\ h \in Nat
      /\ Fcb.cantidad >= 2 /\ Fcb.cantidad <= K(a) /\ Fcb.cantidad < h
      /\ Len(op.escritos) = h - 1 /\ Fcb.cantidad - 1 + Len(op.escritos) <= SIZE_BLOQUE
      /\ op.paso = "asigna"
  BY PunterosNuevos DEF CierraBloques
<1>2. /\ UNCHANGED <<bitmap, disco, fcbs, vivo, compartidos>>
      /\ op'.paso = "abre" /\ op'.archivo = a /\ op'.nuevo = op.nuevo
      /\ op'.libero = op.libero
  BY <1>1, Siguiendo DEF CierraBloques, Truncando, EnCambio, historia
<1>3. ~op.libero
  BY <1>1 DEF BloquesBien, EnAsigna
<1>4. /\ Fcb' = Fcb /\ HaciaArriba(op.nuevo)' = h
      /\ \A f \in Archivos : K(f)' = K(f) /\ (Legible(f)' <=> Legible(f))
  BY <1>2 DEF Fcb, K, Legible, HaciaArriba
<1>5. /\ Fcb.directo = disco[a].directo /\ Fcb.indirecto = disco[a].indirecto
      /\ K(a) - 1 <= SIZE_BLOQUE
  BY <1>1 DEF DelDisco, Fcb, BloquesBien, Sanos, Sana
<1>6. h - 1 <= SIZE_BLOQUE
  BY <1>1, FileSystemOK
<1>7. /\ Sana(bloques', Fcb.directo, Fcb.indirecto, K(a))
      /\ Marcada(bloques', Fcb.directo, Fcb.indirecto, K(a), bitmap)
      /\ \A f \in Archivos : Legible(f) /\ f # a =>
           Ajenas(bloques', disco[f].directo, disco[f].indirecto, K(f),
                  Fcb.directo, Fcb.indirecto, K(a))
  <2>1. PICK k \in Nat : k = K(a)
    BY <1>1
  <2>2. /\ Sana(bloques', Fcb.directo, Fcb.indirecto, k)
        /\ Marcada(bloques', Fcb.directo, Fcb.indirecto, k, bitmap)
        /\ \A f \in Archivos : Legible(f) /\ f # op.archivo =>
             Ajenas(bloques, disco[f].directo, disco[f].indirecto, K(f),
                    Fcb.directo, Fcb.indirecto, k)'
    BY <1>1, <1>5, <2>1, ListaNueva
  <2>3. QED
    BY <1>2, <1>4, <2>1, <2>2 DEF Ajenas
<1>8. /\ Sana(bloques', Fcb.directo, Fcb.indirecto, h)
      /\ Marcada(bloques', Fcb.directo, Fcb.indirecto, h, bitmap)
      /\ \A f \in Archivos : Legible(f) /\ f # a =>
           Ajenas(bloques', disco[f].directo, disco[f].indirecto, K(f),
                  Fcb.directo, Fcb.indirecto, h)
  <2>1. PICK k \in Nat : k = h
    BY <1>1
  <2>2. /\ Sana(bloques', Fcb.directo, Fcb.indirecto, k)
        /\ Marcada(bloques', Fcb.directo, Fcb.indirecto, k, bitmap)
        /\ \A f \in Archivos : Legible(f) /\ f # op.archivo =>
             Ajenas(bloques, disco[f].directo, disco[f].indirecto, K(f),
                    Fcb.directo, Fcb.indirecto, k)'
    BY <1>6, <2>1, ListaNueva
  <2>3. QED
    BY <1>2, <1>4, <2>1, <2>2 DEF Ajenas
<1> HIDE DEF h
<1>9. ASSUME NEW f \in Archivos, Legible(f), f # a
      PROVE  /\ Sana(bloques', disco[f].directo, disco[f].indirecto, K(f))
             /\ \A j \in 1 .. Largo(K(f)) :
                  BloqueN(bloques', disco[f].directo, disco[f].indirecto, j)
                    = BloqueN(bloques, disco[f].directo, disco[f].indirecto, j)
  <2>1. /\ Sana(bloques, disco[f].directo, disco[f].indirecto, K(f)) /\ K(f) \in Nat
        /\ Ajenas(bloques, disco[f].directo, disco[f].indirecto, K(f),
                  disco[a].directo, disco[a].indirecto, K(a))
    BY <1>1, <1>9, EnElDisco DEF BloquesBien, Sanos, Separados
  <2>2. SoloEnBloque(bloques, bloques', Fcb.indirecto) /\ Fcb.indirecto \in Int
    BY PunterosNuevos, FileSystemOK DEF Bloques
  <2>3. K(f) >= 2 => disco[f].indirecto # Fcb.indirecto
    <3>1. ASSUME K(f) >= 2 PROVE 2 \in 1 .. Largo(K(f)) /\ 2 \in 1 .. Largo(K(a))
      BY <1>1, <2>1, <3>1 DEF Largo
    <3>2. /\ BloqueN(bloques, disco[f].directo, disco[f].indirecto, 2) = disco[f].indirecto
          /\ BloqueN(bloques, disco[a].directo, disco[a].indirecto, 2) = disco[a].indirecto
      BY DEF BloqueN
    <3>3. K(a) >= 2 /\ disco[a].indirecto \notin compartidos
      BY <1>1 DEF BloquesBien, Sanos, Sana
    <3>4. QED
      BY <1>5, <2>1, <3>1, <3>2, <3>3 DEF Ajenas
  <2>4. QED
    BY <2>1, <2>2, <2>3, PunterosIntactos
<1>10. Sanos'
  <2> SUFFICES ASSUME NEW f \in Archivos, Legible(f)
               PROVE  Sana(bloques', disco[f].directo, disco[f].indirecto, K(f))
    BY <1>2, <1>4 DEF Sanos, Sana
  <2>1. QED
    BY <1>5, <1>7, <1>9
<1>11. Separados'
  <2> SUFFICES ASSUME NEW f \in Archivos, NEW g \in Archivos, f # g, Legible(f), Legible(g)
               PROVE  Ajenas(bloques', disco[f].directo, disco[f].indirecto, K(f),
                             disco[g].directo, disco[g].indirecto, K(g))
    BY <1>2, <1>4 DEF Separados, Ajenas
  <2>1. CASE g = a
    BY <1>5, <1>7, <2>1
  <2>2. CASE f = a
    <3>1. Ajenas(bloques', disco[g].directo, disco[g].indirecto, K(g),
                 disco[f].directo, disco[f].indirecto, K(f))
      BY <1>5, <1>7, <2>2
    <3>2. QED
      BY <3>1 DEF Ajenas
  <2>3. CASE f # a /\ g # a
    <3>1. Ajenas(bloques, disco[f].directo, disco[f].indirecto, K(f),
                 disco[g].directo, disco[g].indirecto, K(g))
      BY DEF BloquesBien, Separados
    <3>2. QED
      BY <1>9, <2>3, <3>1 DEF Ajenas
  <2>4. QED
    BY <2>1, <2>2, <2>3
<1>12. Ocupados'
  <2> SUFFICES ASSUME NEW f \in Archivos, Legible(f)
               PROVE  Marcada(bloques', disco[f].directo, disco[f].indirecto, K(f), bitmap)
    BY <1>2, <1>4 DEF Ocupados, Marcada
  <2>1. CASE f = a
    BY <1>5, <1>7, <2>1
  <2>2. CASE f # a
    <3>1. Marcada(bloques, disco[f].directo, disco[f].indirecto, K(f), bitmap)
      BY <2>2 DEF BloquesBien, Ocupados
    <3>2. QED
      BY <1>9, <2>2, <3>1 DEF Marcada
  <2>3. QED
    BY <2>1, <2>2
<1>13. Cuentas'
  <2>1. op.paso \in Truncando /\ op'.paso \in Truncando
    BY <1>1, <1>2 DEF Truncando, EnCambio
  <2>2. QED
    BY <1>2, <1>4, <2>1 DEF BloquesBien, Cuentas
<1>14. EnAbre'
  <2>1. /\ Sana(bloques', Fcb'.directo, Fcb'.indirecto, HaciaArriba(op.nuevo)')
        /\ Marcada(bloques', Fcb'.directo, Fcb'.indirecto, HaciaArriba(op.nuevo)', bitmap')
    BY <1>2, <1>4, <1>8
  <2>2. \A f \in Archivos : Legible(f)' /\ f # op'.archivo =>
          Ajenas(bloques', disco'[f].directo, disco'[f].indirecto, K(f)',
                 Fcb'.directo, Fcb'.indirecto, HaciaArriba(op.nuevo)')
    BY <1>2, <1>4, <1>8
  <2>3. Fcb'.cantidad <= HaciaArriba(op.nuevo)' /\ ~(Fcb'.cantidad < 2)
    BY <1>1, <1>4 DEF h
  <2>4. QED
    BY <1>2, <2>1, <2>2, <2>3 DEF EnAbre, Sana, Marcada, Ajenas
<1>15. EnAsigna' /\ EnDesasigna' /\ EnVacia'
  BY <1>2 DEF EnAsigna, EnDesasigna, EnVacia
<1>16. QED
  BY <1>2, <1>10, <1>11, <1>12, <1>13, <1>14, <1>15 DEF BloquesBien

-----------------------------------------------------------------------------
(* Part 2 is kept: the steps of a file that shrinks.                       *)

(* What a truncation that gives blocks back knows of its file and of the   *)
(* others.                                                                 *)
LEMMA AlAchicar ==
  ASSUME InvFcbs, BloquesBien, op.paso \in {"desasigna", "vacia", "abre"}
  PROVE  /\ EsPedido(op) /\ vivo /\ op.archivo \in Archivos /\ Legible(op.archivo)
         /\ Fcb \in FcbsEnMemoria /\ Fcb.cantidad \in Nat /\ K(op.archivo) \in Nat
         /\ HaciaArriba(op.nuevo) \in Nat
         /\ Sana(bloques, disco[op.archivo].directo, disco[op.archivo].indirecto,
                 K(op.archivo))
         /\ \A f \in Archivos : Legible(f) /\ f # op.archivo =>
              /\ Marcada(bloques, disco[f].directo, disco[f].indirecto, K(f), bitmap)
              /\ Ajenas(bloques, disco[f].directo, disco[f].indirecto, K(f),
                        disco[op.archivo].directo, disco[op.archivo].indirecto,
                        K(op.archivo))
<1>1. op.paso \in Truncando /\ op.paso \in EnCambio
  BY DEF Truncando, EnCambio
<1>2. EsPedido(op) /\ vivo /\ op.archivo \in Archivos /\ Fcb \in FcbsEnMemoria
  BY <1>1, EnPedido DEF InvFcbs
<1>3. Legible(op.archivo)
  BY <1>1, <1>2 DEF InvFcbs, Persistencia, Truncando, EnCambio
<1>4. K(op.archivo) \in Nat /\ HaciaArriba(op.nuevo) \in Nat
  BY <1>2, <1>3, EnElDisco, Redondeo DEF EsPedido
<1>5. QED
  BY <1>2, <1>3, <1>4 DEF BloquesBien, Sanos, Separados, Ocupados, FcbsEnMemoria

(* The blocks that are given back are of no other file.                    *)
LEMMA AlLiberar ==
  ASSUME InvFcbs, BloquesBien, op.paso \in {"desasigna", "vacia"},
         UNCHANGED <<bloques, disco>>, NEW b, bitmap' = bitmap \ {b}, NoEsDeOtro(b),
         op'.archivo = op.archivo, op'.paso \in {"desasigna", "vacia", "abre"}, op'.libero
  PROVE  Ocupados'
<1>1. \A f \in Archivos : K(f)' = K(f) /\ (Legible(f)' <=> Legible(f))
  BY DEF K, Legible
<1>2. ASSUME NEW f \in Archivos, Legible(f), f # op.archivo, NEW i \in 1 .. Largo(K(f))
      PROVE  BloqueN(bloques, disco[f].directo, disco[f].indirecto, i) \in bitmap'
  BY <1>2, AlAchicar DEF Marcada, NoEsDeOtro
<1>3. Liberando'
  BY DEF Liberando
<1>4. QED
  BY <1>1, <1>2, <1>3 DEF Ocupados, Marcada

(* What is of no other file stays so while the disk does.                  *)
LEMMA SigueSinSerDeOtro ==
  ASSUME NEW b, NoEsDeOtro(b), UNCHANGED <<bloques, disco>>, op'.archivo = op.archivo
  PROVE  NoEsDeOtro(b)'
<1>1. \A f \in Archivos : Largo(K(f))' = Largo(K(f)) /\ (Legible(f)' <=> Legible(f))
  BY DEF K, Legible, Largo
<1>2. QED
  BY <1>1 DEF NoEsDeOtro

(* The counts of the other files stay while one is truncated.              *)
LEMMA CuentasQuietas ==
  ASSUME Cuentas, UNCHANGED <<disco, vivo>>, op.paso \in Truncando, op'.paso \in Truncando,
         op'.archivo = op.archivo,
         \A f \in Archivos : f # op.archivo => fcbs'[f] = fcbs[f]
  PROVE  Cuentas'
<1>1. \A f \in Archivos : K(f)' = K(f)
  BY DEF K
<1>2. QED
  BY <1>1 DEF Cuentas

(* desasignar_ultimo_bloque frees the last block that the count in memory  *)
(* gives to the file, which is one of its own.                             *)
LEMMA UltimoBloques ==
  ASSUME InvFcbs, BloquesBien, DesasignaUltimoBloque
  PROVE  BloquesBien'
<1> DEFINE a == op.archivo
           c == Fcb.cantidad
           d == Fcb.directo
           e == Fcb.indirecto
           h == HaciaArriba(op.nuevo)
<1>1. /\ op.paso = "desasigna" /\ op.faltan > 0
      /\ UNCHANGED <<bloques, disco, vivo, compartidos>>
      /\ bitmap' = bitmap \ {LeerNPuntero(e, c - 2)}
      /\ fcbs' = [fcbs EXCEPT ![a] =
           [Fcb EXCEPT !.cantidad = @ - 1, !.tamanio = @ - SIZE_BLOQUE]]
      /\ op' = [op EXCEPT !.faltan = @ - 1, !.libero = TRUE]
  BY DEF DesasignaUltimoBloque, MarcaLibre, CambiaFcb, historia
<1>2. /\ EsPedido(op) /\ a \in Archivos /\ Legible(a) /\ Fcb \in FcbsEnMemoria /\ c \in Nat
      /\ K(a) \in Nat /\ op.faltan \in Nat /\ op.nuevo \in Nat
      /\ Sana(bloques, disco[a].directo, disco[a].indirecto, K(a))
  BY <1>1, AlAchicar DEF EsPedido
<1>3. /\ op'.paso = "desasigna" /\ op'.archivo = a /\ op'.nuevo = op.nuevo
      /\ op'.faltan = op.faltan - 1 /\ op'.libero
  BY <1>1, <1>2, TurnoQueLibera
<1>4. /\ DelDisco(a) /\ c = op.faltan + Restan(op.nuevo) /\ c <= K(a)
      /\ Marcada(bloques, d, e, h, bitmap) /\ SeVan(c)
  BY <1>1 DEF BloquesBien, EnDesasigna
<1>5. Restan(op.nuevo) \in Nat /\ Restan(op.nuevo) >= 1 /\ h \in Nat /\ h <= Restan(op.nuevo)
  BY <1>2, Redondeo DEF Restan
<1>6. c >= 2
  BY <1>1, <1>2, <1>4, <1>5
<1>7. d = disco[a].directo /\ e = disco[a].indirecto
  BY <1>4 DEF DelDisco, Fcb
<1>8. /\ fcbs'[a].cantidad = c - 1 /\ fcbs'[a].directo = d /\ fcbs'[a].indirecto = e
      /\ \A f \in Archivos : f # a => fcbs'[f] = fcbs[f]
  BY <1>1, <1>2 DEF InvFcbs, TipoFS, FcbsEnMemoria
<1>18. \A j \in Largo(h) + 1 .. Largo(c) :
         /\ NoEsDeOtro(BloqueN(bloques, d, e, j))
         /\ \A i \in 1 .. Largo(h) : BloqueN(bloques, d, e, j) # BloqueN(bloques, d, e, i)
  BY <1>4 DEF SeVan
<1> HIDE DEF c, d, e, h
<1>19. h <= c - 1
  BY <1>1, <1>2, <1>4, <1>5
<1>9. c + 1 \in Largo(h) + 1 .. Largo(c)
  BY <1>2, <1>5, <1>6, <1>19 DEF Largo
<1>10. LeerNPuntero(e, c - 2) = BloqueN(bloques, d, e, c + 1)
  <2>1. c + 1 # 1 /\ c + 1 # 2 /\ (c + 1) - 3 = c - 2
    BY <1>2, <1>6
  <2>2. QED
    BY <2>1, Leyendo DEF BloqueN, InvFcbs, TipoFS
<1>11. /\ Sanos' /\ Separados'
       /\ \A f \in Archivos : K(f)' = K(f) /\ (Legible(f)' <=> Legible(f))
  BY <1>1, Quietos DEF BloquesBien
<1>12. Ocupados'
  BY <1>1, <1>3, <1>9, <1>10, <1>18, AlLiberar DEF e, c
<1>13. Cuentas'
  BY <1>1, <1>3, <1>8, CuentasQuietas DEF BloquesBien, Truncando, EnCambio
<1>14. Marcada(bloques, d, e, h, bitmap')
  BY <1>1, <1>4, <1>9, <1>10, <1>18 DEF Marcada, e, c
<1>15. EnDesasigna'
  <2>1. /\ Fcb'.cantidad = c - 1 /\ Fcb'.directo = d /\ Fcb'.indirecto = e
        /\ K(op.archivo)' = K(a) /\ DelDisco(op.archivo)'
    BY <1>1, <1>2, <1>3, <1>7, <1>8, <1>11 DEF Fcb, DelDisco
  <2>2. Restan(op.nuevo)' = Restan(op.nuevo) /\ HaciaArriba(op.nuevo)' = h
        /\ Largo(HaciaArriba(op.nuevo))' = Largo(h)
    BY <1>3 DEF Restan, HaciaArriba, h, Largo
  <2>3. c - 1 = op'.faltan + Restan(op.nuevo) /\ c - 1 >= 1 /\ c - 1 <= K(a) /\ K(a) >= 2
    BY <1>2, <1>3, <1>4, <1>5, <1>6 DEF c
  <2>4. Marcada(bloques, Fcb.directo, Fcb.indirecto, HaciaArriba(op.nuevo), bitmap)'
    BY <1>1, <1>14, <2>1, <2>2 DEF Marcada
  <2>5. SeVan(Fcb.cantidad)'
    <3> SUFFICES ASSUME NEW j \in Largo(h) + 1 .. Largo(c - 1)
                 PROVE  /\ NoEsDeOtro(BloqueN(bloques, Fcb.directo, Fcb.indirecto, j))'
                        /\ \A i \in 1 .. Largo(h) :
                             BloqueN(bloques, d, e, j) # BloqueN(bloques, d, e, i)
      BY <1>1, <2>1, <2>2 DEF SeVan, Largo
    <3>1. j \in Largo(h) + 1 .. Largo(c)
      BY <1>2, <1>5, <1>6, <1>19 DEF Largo
    <3>2. NoEsDeOtro(BloqueN(bloques, d, e, j))
      BY <1>18, <3>1
    <3>3. BloqueN(bloques, Fcb.directo, Fcb.indirecto, j)' = BloqueN(bloques, d, e, j)
      BY <1>1, <2>1
    <3>4. NoEsDeOtro(BloqueN(bloques, Fcb.directo, Fcb.indirecto, j))'
      BY <1>1, <1>3, <3>2, <3>3, SigueSinSerDeOtro DEF NoEsDeOtro
    <3>5. QED
      BY <1>18, <3>1, <3>4
  <2>6. QED
    BY <2>1, <2>2, <2>3, <2>4, <2>5 DEF EnDesasigna
<1>16. EnAsigna' /\ EnVacia' /\ EnAbre'
  BY <1>3 DEF EnAsigna, EnVacia, EnAbre
<1>17. QED
  BY <1>3, <1>11, <1>12, <1>13, <1>15, <1>16 DEF BloquesBien

(* The end of desasignar_bloques frees the block of pointers only when no  *)
(* pointer in it is needed.                                                *)
LEMMA DesasignaIndirectoBloques ==
  ASSUME InvFcbs, BloquesBien, DesasignaIndirecto
  PROVE  BloquesBien'
<1> DEFINE a == op.archivo
           c == Fcb.cantidad
           d == Fcb.directo
           e == Fcb.indirecto
           h == HaciaArriba(op.nuevo)
           libera == c = 1 /\ op.libero
<1>1. /\ op.paso = "desasigna" /\ op.faltan = 0
      /\ UNCHANGED <<bloques, disco, vivo, compartidos>>
      /\ libera => bitmap' = bitmap \ {e} /\ fcbs' = [fcbs EXCEPT ![a] =
                                                       [Fcb EXCEPT !.indirecto = 0]]
      /\ ~libera => UNCHANGED <<bitmap, fcbs>>
  BY DEF DesasignaIndirecto, MarcaLibre, CambiaFcb, historia
<1>2. /\ EsPedido(op) /\ a \in Archivos /\ Legible(a) /\ Fcb \in FcbsEnMemoria /\ c \in Nat
      /\ K(a) \in Nat /\ op.nuevo \in Nat /\ HaciaArriba(op.nuevo) \in Nat
      /\ Sana(bloques, disco[a].directo, disco[a].indirecto, K(a))
      /\ \A f \in Archivos : Legible(f) /\ f # a =>
              Ajenas(bloques, disco[f].directo, disco[f].indirecto, K(f),
                     disco[a].directo, disco[a].indirecto, K(a))
  BY <1>1, AlAchicar DEF EsPedido
<1>3. /\ op'.paso = IF op.nuevo = 0 THEN "vacia" ELSE "abre"
      /\ op'.archivo = a /\ op'.nuevo = op.nuevo /\ op'.libero = op.libero
  BY <1>2, Siguiendo DEF DesasignaIndirecto, Truncando, EnCambio
<1>4. /\ DelDisco(a) /\ c = Restan(op.nuevo) /\ c >= 1 /\ c <= K(a)
      /\ op.libero => K(a) >= 2
      /\ Marcada(bloques, d, e, h, bitmap) /\ SeVan(c)
  <2>1. c = op.faltan + Restan(op.nuevo) /\ Restan(op.nuevo) \in Nat
    BY <1>1, <1>2 DEF BloquesBien, EnDesasigna, Restan
  <2>2. QED
    BY <1>1, <2>1 DEF BloquesBien, EnDesasigna
<1>5. d = disco[a].directo /\ e = disco[a].indirecto
  BY <1>4 DEF DelDisco, Fcb
<1>6. /\ fcbs'[a].cantidad = c /\ fcbs'[a].directo = d
      /\ fcbs'[a].indirecto = IF libera THEN 0 ELSE e
      /\ \A f \in Archivos : f # a => fcbs'[f] = fcbs[f]
  <2>1. CASE libera
    BY <1>1, <1>2, <2>1 DEF InvFcbs, TipoFS, FcbsEnMemoria
  <2>2. CASE ~libera
    BY <1>1, <2>2 DEF Fcb
  <2>3. QED
    BY <2>1, <2>2
<1>16. op.nuevo = 0 => h = 0
  BY <1>2, Redondeo
<1>17. \A j \in Largo(h) + 1 .. Largo(c) : NoEsDeOtro(BloqueN(bloques, d, e, j))
  BY <1>4 DEF SeVan
<1> HIDE DEF c, d, e, h
<1>7. /\ Sanos' /\ Separados'
      /\ \A f \in Archivos : K(f)' = K(f) /\ (Legible(f)' <=> Legible(f))
  BY <1>1, Quietos DEF BloquesBien
<1>8. op'.paso \in {"vacia", "abre"}
  BY <1>3
<1>9. Ocupados'
  <2>1. CASE libera
    <3>1. 2 \in 1 .. Largo(K(a)) /\ BloqueN(bloques, d, e, 2) = e /\ e \notin compartidos
      BY <1>2, <1>4, <1>5, <2>1, BloquesPropios DEF Largo, BloqueN
    <3>2. NoEsDeOtro(e)
      BY <1>2, <1>5, <3>1 DEF NoEsDeOtro, Ajenas
    <3>3. QED
      BY <1>1, <1>3, <1>8, <2>1, <3>2, AlLiberar
  <2>2. CASE ~libera
    <3>1. Liberando' <=> Liberando
      BY <1>1, <1>3, <1>8 DEF Liberando
    <3>2. QED
      BY <1>1, <1>3, <1>7, <2>2, <3>1 DEF BloquesBien, Ocupados, Marcada
  <2>3. QED
    BY <2>1, <2>2
<1>10. Cuentas'
  BY <1>1, <1>3, <1>6, <1>8, CuentasQuietas DEF BloquesBien, Truncando, EnCambio
<1>11. EnVacia'
  <2>1. ASSUME op'.paso = "vacia"
        PROVE  op'.nuevo = 0 /\ Fcb'.directo = disco'[op'.archivo].directo
               /\ K(op.archivo)' >= 1 /\ NoEsDeOtro(Fcb.directo)'
    <3>1. /\ op'.nuevo = 0 /\ Fcb'.directo = disco'[op'.archivo].directo
          /\ K(op.archivo)' >= 1
      BY <1>1, <1>2, <1>3, <1>4, <1>5, <1>6, <1>7, <2>1 DEF Fcb, c
    <3>2. 1 \in Largo(h) + 1 .. Largo(c) /\ BloqueN(bloques, d, e, 1) = d
      BY <1>2, <1>3, <1>4, <1>16, <2>1 DEF Largo, BloqueN, c
    <3>3. NoEsDeOtro(d)
      BY <1>17, <3>2
    <3>4. Fcb'.directo = d
      BY <1>3, <1>6 DEF Fcb
    <3>5. QED
      BY <1>1, <1>3, <3>1, <3>3, <3>4, SigueSinSerDeOtro DEF NoEsDeOtro
  <2>2. QED
    BY <2>1 DEF EnVacia
<1>12. /\ Sana(bloques, d, e, c)
       /\ \A f \in Archivos : Legible(f) /\ f # a =>
            Ajenas(bloques, disco[f].directo, disco[f].indirecto, K(f), d, e, c)
  BY <1>2, <1>4, <1>5, Prefijo DEF c
<1>13. EnAbre'
  <2> SUFFICES ASSUME op'.paso \in {"abre", "cierra"} PROVE EnAbre'
    BY DEF EnAbre
  <2>1. op'.paso = "abre" /\ c = HaciaArriba(op.nuevo) /\ c = h
    BY <1>3, <1>4 DEF Restan, h
  <2>2. /\ Fcb'.cantidad = c /\ Fcb'.directo = d
        /\ Fcb'.indirecto = IF libera THEN 0 ELSE e
        /\ HaciaArriba(op.nuevo)' = c
    BY <1>3, <1>6, <2>1 DEF Fcb, HaciaArriba
  <2>3. PICK ee : ee = IF libera THEN 0 ELSE e
    OBVIOUS
  <2>4. \A j \in 1 .. Largo(c) : BloqueN(bloques, d, ee, j) = BloqueN(bloques, d, e, j)
    <3>1. CASE libera
      <4>1. \A j \in 1 .. Largo(c) : j = 1
        BY <3>1 DEF Largo
      <4>2. QED
        BY <4>1 DEF BloqueN
    <3>2. QED
      BY <2>3, <3>1
  <2>5. \A j \in 1 .. Largo(c) : BloqueN(bloques, d, e, j) \in bitmap'
    <3>1. CASE libera
      <4>1. \A j \in 1 .. Largo(c) : j = 1
        BY <3>1 DEF Largo
      <4>2. K(a) >= 2 /\ d # e
        BY <1>2, <1>4, <1>5, <3>1, BloquesPropios
      <4>3. \A j \in 1 .. Largo(c) : BloqueN(bloques, d, e, j) = d
        BY <4>1 DEF BloqueN
      <4>4. QED
        BY <1>1, <1>4, <2>1, <3>1, <4>2, <4>3 DEF Marcada
    <3>2. CASE ~libera
      BY <1>1, <1>4, <2>1, <3>2 DEF Marcada
    <3>3. QED
      BY <3>1, <3>2
  <2>6. Sana(bloques, d, ee, c)
    BY <1>12, <2>3, <2>4 DEF Sana
  <2>7. Marcada(bloques, d, ee, c, bitmap')
    BY <2>4, <2>5 DEF Marcada
  <2>8. \A f \in Archivos : Legible(f) /\ f # a =>
          Ajenas(bloques, disco[f].directo, disco[f].indirecto, K(f), d, ee, c)
    BY <1>12, <2>4 DEF Ajenas
  <2>9. c \in Int
    BY <1>2 DEF c
  <2>10. QED
    BY <1>1, <1>3, <1>7, <2>1, <2>2, <2>3, <2>6, <2>7, <2>8, <2>9
    DEF EnAbre, Sana, Marcada, Ajenas
<1>14. EnAsigna' /\ EnDesasigna'
  BY <1>8 DEF EnAsigna, EnDesasigna
<1>15. QED
  BY <1>7, <1>8, <1>9, <1>10, <1>11, <1>13, <1>14 DEF BloquesBien

(* A file of no block: nothing to be sound.                                *)
LEMMA SinBloques ==
  ASSUME NEW k, k = HaciaArriba(0)
  PROVE  /\ k = 0 /\ Largo(k) = 0
         /\ \A m, d, e, marcas : Sana(m, d, e, k) /\ Marcada(m, d, e, k, marcas)
         /\ \A m, dd, ee, l, d, e : Ajenas(m, dd, ee, l, d, e, k)
<1>1. k = 0 /\ SIZE_BLOQUE \in Nat
  BY Redondeo, FileSystemOK
<1>2. Largo(k) = 0
  BY <1>1 DEF Largo
<1>3. QED
  BY <1>1, <1>2 DEF Sana, Marcada, Ajenas

(* vaciar_archivo frees the direct block of its file.                      *)
LEMMA DesasignaDirectoBloques ==
  ASSUME InvFcbs, BloquesBien, DesasignaDirecto
  PROVE  BloquesBien'
<1> DEFINE a == op.archivo
<1>1. /\ op.paso = "vacia" /\ UNCHANGED <<bloques, disco, vivo, compartidos>>
      /\ bitmap' = bitmap \ {Fcb.directo}
      /\ fcbs' = [fcbs EXCEPT ![a] = [Fcb EXCEPT !.directo = 0, !.cantidad = 0, !.tamanio = 0]]
      /\ op' = [op EXCEPT !.paso = "abre", !.libero = TRUE]
  BY DEF DesasignaDirecto, MarcaLibre, CambiaFcb, historia
<1>2. /\ EsPedido(op) /\ a \in Archivos /\ Fcb \in FcbsEnMemoria /\ K(a) \in Nat
  BY <1>1, AlAchicar
<1>3. op'.paso = "abre" /\ op'.archivo = a /\ op'.nuevo = op.nuevo /\ op'.libero
  BY <1>1, <1>2, PedidoVaciado
<1>4. op.nuevo = 0 /\ NoEsDeOtro(Fcb.directo)
  BY <1>1 DEF BloquesBien, EnVacia
<1>5. /\ fcbs'[a].cantidad = 0 /\ \A f \in Archivos : f # a => fcbs'[f] = fcbs[f]
  BY <1>1, <1>2 DEF InvFcbs, TipoFS, FcbsEnMemoria
<1>6. /\ Sanos' /\ Separados'
  BY <1>1, Quietos DEF BloquesBien
<1>7. Ocupados'
  BY <1>1, <1>3, <1>4, AlLiberar
<1>8. Cuentas'
  BY <1>1, <1>3, <1>5, CuentasQuietas DEF BloquesBien, Truncando, EnCambio
<1>9. EnAbre'
  <2>1. PICK k : k = HaciaArriba(0)
    OBVIOUS
  <2>2. HaciaArriba(op.nuevo)' = k
    BY <1>3, <1>4, <2>1 DEF HaciaArriba
  <2>3. Fcb'.cantidad = 0
    BY <1>3, <1>5 DEF Fcb
  <2>4. k = 0 /\ Largo(k) = 0 /\ SIZE_BLOQUE \in Nat
    BY <2>1, SinBloques, FileSystemOK
  <2>5. Largo(HaciaArriba(op.nuevo))' = 0
    BY <2>2, <2>4 DEF Largo
  <2>6. QED
    BY <1>3, <2>2, <2>3, <2>4, <2>5 DEF EnAbre, Sana, Marcada, Ajenas
<1>10. EnAsigna' /\ EnDesasigna' /\ EnVacia'
  BY <1>3 DEF EnAsigna, EnDesasigna, EnVacia
<1>11. QED
  BY <1>3, <1>6, <1>7, <1>8, <1>9, <1>10 DEF BloquesBien

-----------------------------------------------------------------------------
(* Part 2 is kept: persistir_fcb, the answer, a stop and a start.          *)

(* Opening the FCB file empties it: the file has no FCB on disk, and the   *)
(* one in memory describes the blocks it will have.                        *)
LEMMA AbreFcbBloques ==
  ASSUME InvFcbs, BloquesBien, AbreFcb
  PROVE  BloquesBien'
<1> DEFINE a == op.archivo
<1>1. /\ op.paso = "abre" /\ op'.paso = "cierra" /\ op'.archivo = a
      /\ disco'[a] = Vacio
      /\ \A f \in Archivos \ {a} : disco'[f] = disco[f] /\ fcbs'[f] = fcbs[f]
      /\ fcbs'[a] = [Fcb EXCEPT !.tamanio = op.nuevo]
  BY AbreFcbFcbs
<1>2. /\ UNCHANGED <<bitmap, bloques, vivo, compartidos>>
      /\ EsPedido(op) /\ a \in Archivos /\ Fcb \in FcbsEnMemoria
  BY <1>1, AlAchicar DEF AbreFcb, historia
<1>3. op'.nuevo = op.nuevo
  BY <1>2, Siguiendo DEF AbreFcb, Truncando
<1>4. \A f \in Archivos : Legible(f)' =>
        f # a /\ Legible(f) /\ K(f)' = K(f) /\ disco'[f] = disco[f]
  BY <1>1 DEF Legible, K
<1>5. Sanos'
  BY <1>2, <1>4 DEF BloquesBien, Sanos, Sana
<1>6. Separados'
  BY <1>2, <1>4 DEF BloquesBien, Separados, Ajenas
<1>7. Ocupados'
  BY <1>2, <1>4 DEF BloquesBien, Ocupados, Marcada
<1>8. Cuentas'
  <2>1. \A f \in Archivos : f # a => K(f)' = K(f)
    BY <1>1 DEF K
  <2>2. op.paso \in Truncando /\ op'.paso \in Truncando
    BY <1>1 DEF Truncando, EnCambio
  <2>3. QED
    BY <1>1, <1>2, <2>1, <2>2 DEF BloquesBien, Cuentas
<1>9. EnAbre'
  <2>1. /\ Fcb'.directo = Fcb.directo /\ Fcb'.indirecto = Fcb.indirecto
        /\ Fcb'.cantidad = Fcb.cantidad /\ Fcb'.tamanio = op.nuevo
    BY <1>1, <1>2 DEF Fcb, FcbsEnMemoria
  <2>2. HaciaArriba(op.nuevo)' = HaciaArriba(op.nuevo)
    BY <1>3 DEF HaciaArriba
  <2>3. QED
    BY <1>1, <1>2, <1>3, <1>4, <2>1, <2>2 DEF BloquesBien, EnAbre, Sana, Marcada, Ajenas
<1>10. EnAsigna' /\ EnDesasigna' /\ EnVacia'
  BY <1>1 DEF EnAsigna, EnDesasigna, EnVacia
<1>11. QED
  BY <1>1, <1>5, <1>6, <1>7, <1>8, <1>9, <1>10 DEF BloquesBien

(* Closing the FCB file puts on disk an FCB whose blocks are its own and   *)
(* marked.                                                                 *)
LEMMA CierraFcbBloques ==
  ASSUME InvFcbs, BloquesBien, CierraFcb
  PROVE  BloquesBien'
<1> DEFINE a == op.archivo
           h == HaciaArriba(op.nuevo)
<1>1. /\ op.paso = "cierra" /\ op'.paso = "responde" /\ op'.archivo = a
      /\ EsPedido(op) /\ EsPedido(op')
      /\ disco'[a] = EnDisco(Fcb) /\ EnDisco(Fcb) \in FcbsDeDisco
      /\ fcbs' = fcbs /\ \A f \in Archivos \ {a} : disco'[f] = disco[f]
  BY CierraFcbFcbs
<1>2. UNCHANGED <<bitmap, bloques, vivo, compartidos>> /\ a \in Archivos /\ vivo
  BY <1>1 DEF CierraFcb, EsPedido, historia
<1>3. /\ Sana(bloques, Fcb.directo, Fcb.indirecto, h)
      /\ Marcada(bloques, Fcb.directo, Fcb.indirecto, h, bitmap)
      /\ \A f \in Archivos : Legible(f) /\ f # a =>
           Ajenas(bloques, disco[f].directo, disco[f].indirecto, K(f),
                  Fcb.directo, Fcb.indirecto, h)
      /\ Fcb.cantidad <= h /\ (Fcb.cantidad < 2 => Fcb.cantidad = h)
      /\ Fcb.tamanio = op.nuevo
  BY <1>1 DEF BloquesBien, EnAbre
<1>4. \A f \in Archivos : f = a =>
        /\ K(f)' = h /\ disco'[f].directo = Fcb.directo
        /\ disco'[f].indirecto = Fcb.indirecto
  BY <1>1, <1>3 DEF K, EnDisco
<1>5. \A f \in Archivos : f # a =>
        (Legible(f)' <=> Legible(f)) /\ K(f)' = K(f) /\ disco'[f] = disco[f]
  BY <1>1 DEF K, Legible
<1> HIDE DEF h
<1>6. Sanos'
  <2> SUFFICES ASSUME NEW f \in Archivos, Legible(f)'
               PROVE  Sana(bloques', disco'[f].directo, disco'[f].indirecto, K(f)')
    BY <1>2 DEF Sanos, Sana
  <2>1. CASE f = a
    BY <1>2, <1>3, <1>4, <2>1
  <2>2. CASE f # a
    BY <1>2, <1>5, <2>2 DEF BloquesBien, Sanos
  <2>3. QED
    BY <2>1, <2>2
<1>7. Separados'
  <2> SUFFICES ASSUME NEW f \in Archivos, NEW g \in Archivos, f # g, Legible(f)', Legible(g)'
               PROVE  Ajenas(bloques', disco'[f].directo, disco'[f].indirecto, K(f)',
                             disco'[g].directo, disco'[g].indirecto, K(g)')
    BY <1>2 DEF Separados, Ajenas
  <2>1. CASE g = a
    BY <1>2, <1>3, <1>4, <1>5, <2>1
  <2>2. CASE f = a
    <3>1. Ajenas(bloques', disco'[g].directo, disco'[g].indirecto, K(g)',
                 disco'[f].directo, disco'[f].indirecto, K(f)')
      BY <1>2, <1>3, <1>4, <1>5, <2>2
    <3>2. QED
      BY <3>1 DEF Ajenas
  <2>3. CASE f # a /\ g # a
    BY <1>2, <1>5, <2>3 DEF BloquesBien, Separados
  <2>4. QED
    BY <2>1, <2>2, <2>3
<1>8. Ocupados'
  <2> SUFFICES ASSUME NEW f \in Archivos, Legible(f)'
               PROVE  Marcada(bloques', disco'[f].directo, disco'[f].indirecto, K(f)', bitmap')
    BY DEF Ocupados, Marcada
  <2>1. CASE f = a
    BY <1>2, <1>3, <1>4, <2>1
  <2>2. CASE f # a
    BY <1>1, <1>2, <1>5, <2>2 DEF BloquesBien, Ocupados, Liberando
  <2>3. QED
    BY <2>1, <2>2
<1>9. Cuentas'
  <2> SUFFICES ASSUME NEW f \in Archivos, fcbs'[f] # Nulo
               PROVE  /\ fcbs'[f].cantidad <= K(f)'
                      /\ fcbs'[f].cantidad < 2 => fcbs'[f].cantidad = K(f)'
    BY DEF Cuentas
  <2>1. CASE f = a
    BY <1>1, <1>3, <1>4, <2>1 DEF Fcb
  <2>2. CASE f # a
    BY <1>1, <1>2, <1>5, <2>2 DEF BloquesBien, Cuentas
  <2>3. QED
    BY <2>1, <2>2
<1>10. EnAsigna' /\ EnDesasigna' /\ EnVacia' /\ EnAbre'
  BY <1>1 DEF EnAsigna, EnDesasigna, EnVacia, EnAbre
<1>11. EnEscribe'
  BY <1>1 DEF EsPedido, EnEscribe
<1>12. QED
  BY <1>1, <1>6, <1>7, <1>8, <1>9, <1>10, <1>11 DEF BloquesBien

(* The answer changes no block and no FCB.                                 *)
LEMMA RespondeBloques ==
  ASSUME InvFcbs, BloquesBien, Responde
  PROVE  BloquesBien'
<1>1. /\ op.paso = "responde" /\ op'.paso = "libre"
      /\ UNCHANGED <<bitmap, bloques, disco, fcbs, vivo, compartidos>>
  BY DEF Responde, EnReposo, historia
<1>2. /\ Sanos' /\ Separados'
      /\ \A f \in Archivos : K(f)' = K(f) /\ (Legible(f)' <=> Legible(f))
  BY <1>1, Quietos DEF BloquesBien
<1>3. Ocupados'
  BY <1>1, <1>2 DEF BloquesBien, Ocupados, Marcada, Liberando
<1>4. Cuentas'
  BY <1>1, <1>2 DEF BloquesBien, Cuentas, Truncando, EnCambio
<1>5. EnAsigna' /\ EnDesasigna' /\ EnVacia' /\ EnAbre'
  BY <1>1 DEF EnAsigna, EnDesasigna, EnVacia, EnAbre
<1>6. QED
  BY <1>1, <1>2, <1>3, <1>4, <1>5 DEF BloquesBien

(* A stop that is not during a shrinking leaves on disk files with sound   *)
(* blocks, all marked.                                                     *)
LEMMA CaidaBloques ==
  ASSUME InvFcbs, BloquesBien, Caida, ~danio'
  PROVE  BloquesBien'
<1>1. /\ op'.paso = "libre" /\ vivo' = FALSE
      /\ UNCHANGED <<bitmap, bloques, disco, compartidos>> /\ ~Liberando
  BY DEF Caida, EnReposo, Liberando
<1>2. /\ Sanos' /\ Separados'
      /\ \A f \in Archivos : K(f)' = K(f) /\ (Legible(f)' <=> Legible(f))
  BY <1>1, Quietos DEF BloquesBien
<1>3. Ocupados'
  BY <1>1, <1>2 DEF BloquesBien, Ocupados, Marcada
<1>4. Cuentas'
  BY <1>1 DEF Cuentas
<1>5. EnAsigna' /\ EnDesasigna' /\ EnVacia' /\ EnAbre'
  BY <1>1 DEF EnAsigna, EnDesasigna, EnVacia, EnAbre
<1>6. QED
  BY <1>1, <1>2, <1>3, <1>4, <1>5 DEF BloquesBien

(* What EnOrden says of the blocks, and that only those of Repetidos are   *)
(* in two places.                                                          *)
LEMMA DiscoEnOrden ==
  ASSUME InvFcbs, EnOrden, NEW f \in Archivos, Legible(f)
  PROVE  /\ K(f) - 1 <= SIZE_BLOQUE
         /\ \A j \in 1 .. Largo(K(f)) :
              /\ BloqueN(bloques, disco[f].directo, disco[f].indirecto, j) \in bitmap
              /\ BloqueN(bloques, disco[f].directo, disco[f].indirecto, j) \in Bloques
         /\ K(f) >= 2 => disco[f].indirecto \notin Repetidos
         /\ \A g \in Archivos : Legible(g) =>
              \A i \in 1 .. Largo(K(f)), j \in 1 .. Largo(K(g)) :
                BloqueN(bloques, disco[f].directo, disco[f].indirecto, i)
                    = BloqueN(bloques, disco[g].directo, disco[g].indirecto, j) =>
                  \/ f = g /\ i = j
                  \/ BloqueN(bloques, disco[f].directo, disco[f].indirecto, i) \in Repetidos
<1>1. bloques \in [Unidades -> Int] /\ bitmap \subseteq Bloques
  BY DEF InvFcbs, TipoFS
<1>2. \A g : /\ \A j : BloqueDe(disco[g], j)
                      = BloqueN(bloques, disco[g].directo, disco[g].indirecto, j)
            /\ DOMAIN BloquesDe(disco[g]) = 1 .. Largo(K(g))
  BY <1>1, ListaDeBloques DEF K
<1>3. f \in Legibles
  BY DEF Legibles
<1>4. /\ K(f) - 1 <= SIZE_BLOQUE
      /\ \A j \in 1 .. Largo(K(f)) : BloqueDe(disco[f], j) \in bitmap
      /\ K(f) >= 2 => disco[f].indirecto \notin Repetidos
  BY <1>3 DEF EnOrden, K
<1>5. ASSUME NEW g \in Archivos, Legible(g),
             NEW i \in 1 .. Largo(K(f)), NEW j \in 1 .. Largo(K(g)),
             BloqueDe(disco[f], i) = BloqueDe(disco[g], j), ~(f = g /\ i = j)
      PROVE  BloqueDe(disco[f], i) \in Repetidos
  <2>1. PICK b : b = BloqueDe(disco[f], i)
    OBVIOUS
  <2>2. g \in Legibles /\ b \in Bloques /\ b = BloqueDe(disco[g], j)
    BY <1>1, <1>4, <1>5, <2>1 DEF Legibles
  <2>3. i \in DOMAIN BloquesDe(disco[f]) /\ j \in DOMAIN BloquesDe(disco[g])
    BY <1>2, <1>5
  <2>4. b \in Repetidos
    BY <1>3, <1>5, <2>1, <2>2, <2>3 DEF Repetidos
  <2>5. QED
    BY <2>1, <2>4
<1>6. \A j \in 1 .. Largo(K(f)) :
        /\ BloqueN(bloques, disco[f].directo, disco[f].indirecto, j) \in bitmap
        /\ BloqueN(bloques, disco[f].directo, disco[f].indirecto, j) \in Bloques
  BY <1>1, <1>2, <1>4
<1>7. ASSUME NEW g \in Archivos, Legible(g),
             NEW i \in 1 .. Largo(K(f)), NEW j \in 1 .. Largo(K(g)),
             BloqueN(bloques, disco[f].directo, disco[f].indirecto, i)
               = BloqueN(bloques, disco[g].directo, disco[g].indirecto, j)
      PROVE  \/ f = g /\ i = j
             \/ BloqueN(bloques, disco[f].directo, disco[f].indirecto, i) \in Repetidos
  <2>1. /\ BloqueDe(disco[f], i)
             = BloqueN(bloques, disco[f].directo, disco[f].indirecto, i)
        /\ BloqueDe(disco[g], j)
             = BloqueN(bloques, disco[g].directo, disco[g].indirecto, j)
    BY <1>2
  <2>2. BloqueDe(disco[f], i) = BloqueDe(disco[g], j)
    BY <1>7, <2>1
  <2>3. (f = g /\ i = j) \/ BloqueDe(disco[f], i) \in Repetidos
    BY <1>5, <1>7, <2>2
  <2>4. QED
    BY <2>1, <2>3
<1>8. QED
  BY <1>4, <1>6, <1>7

(* A start that finds the disk in order, whatever it did before: every     *)
(* count is computed from the size on disk.                                *)
LEMMA ArrancaBloques ==
  ASSUME InvFcbs, Arranca, ~danio'
  PROVE  BloquesBien'
<1>1. /\ op.paso = "libre" /\ op'.paso = "libre" /\ op' = op
      /\ UNCHANGED <<bitmap, bloques, disco>>
      /\ \A f \in Archivos : fcbs'[f] = CargarFcb(f)
  BY ArrancaFcbs DEF Arranca, EnReposo, InvFcbs, TipoFS
<1>9. EnOrden /\ compartidos' = Repetidos
  BY Zenon DEF Arranca
<1>2. \A f \in Archivos : K(f)' = K(f) /\ (Legible(f)' <=> Legible(f))
  BY <1>1 DEF K, Legible
<1>8. Sanos' /\ Separados'
  BY <1>1, <1>2, <1>9, DiscoEnOrden DEF Sanos, Separados, Sana, Ajenas
<1>3. Ocupados'
  BY <1>1, <1>2, <1>9, DiscoEnOrden DEF Ocupados, Marcada
<1>4. ASSUME NEW f \in Archivos, fcbs'[f] # Nulo
      PROVE  fcbs'[f].cantidad = K(f) /\ K(f) \in Nat
  <2>1. fcbs'[f] = CargarFcb(f)
    BY <1>1
  <2>2. disco[f] # Nulo /\ fcbs'[f].cantidad = HaciaArriba(disco[f].tamanio)
    BY <2>1, <1>4 DEF CargarFcb
  <2>3. Legible(f)
    BY <2>2 DEF Arranca, Legible
  <2>4. QED
    BY <2>2, <2>3, EnElDisco DEF K
<1>5. Cuentas'
  <2>1. \A f \in Archivos : fcbs'[f] # Nulo =>
          /\ fcbs'[f].cantidad <= K(f)'
          /\ fcbs'[f].cantidad < 2 => fcbs'[f].cantidad = K(f)'
    BY <1>2, <1>4
  <2>2. QED
    BY <2>1 DEF Cuentas
<1>6. EnAsigna' /\ EnDesasigna' /\ EnVacia' /\ EnAbre'
  BY <1>1 DEF EnAsigna, EnDesasigna, EnVacia, EnAbre
<1>7. QED
  BY <1>1, <1>3, <1>5, <1>6, <1>8 DEF BloquesBien

(* The same when the disk is found in order the first time.                *)
LEMMA InicioBien == Init => InvBloques
<1> SUFFICES ASSUME Init, ~danio PROVE BloquesBien
  BY DEF InvBloques
<1>1. InvFcbs
  BY InicioFcbs
<1>2. op.paso = "libre" /\ ~vivo /\ EnOrden /\ compartidos = Repetidos
  BY DEF Init, EnReposo
<1>3. Sanos /\ Separados
  BY <1>1, <1>2, DiscoEnOrden DEF Sanos, Separados, Sana, Ajenas
<1>4. Ocupados
  BY <1>1, <1>2, DiscoEnOrden DEF Ocupados, Marcada
<1>5. Cuentas
  BY <1>2 DEF Cuentas
<1>6. EnAsigna /\ EnDesasigna /\ EnVacia /\ EnAbre
  BY <1>2 DEF EnAsigna, EnDesasigna, EnVacia, EnAbre
<1>7. QED
  BY <1>2, <1>3, <1>4, <1>5, <1>6 DEF BloquesBien

-----------------------------------------------------------------------------
(* Part 2 is kept: escribir_archivo.                                       *)

(* buscar_siguiente_bloque answers a block of the file: the one after the  *)
(* first place where it finds the block it is given, which is the one that *)
(* follows when the blocks are all different.                              *)
LEMMA SiguienteBloque ==
  ASSUME bloques \in [Unidades -> Int], NEW fcb, NEW k \in Nat,
         Sana(bloques, fcb.directo, fcb.indirecto, k), NEW n \in 0 .. k - 2
  PROVE  \E l \in 1 .. n + 1 :
           /\ BuscarSiguienteBloque(BloqueDeDatos(bloques, fcb.directo, fcb.indirecto, n), fcb)
                = BloqueDeDatos(bloques, fcb.directo, fcb.indirecto, l)
           /\ (\A i, j \in 0 .. k - 1 :
                 BloqueDeDatos(bloques, fcb.directo, fcb.indirecto, i)
                   = BloqueDeDatos(bloques, fcb.directo, fcb.indirecto, j) => i = j)
              => l = n + 1
<1> DEFINE d == fcb.directo
           e == fcb.indirecto
           B(i) == BloqueDeDatos(bloques, d, e, i)
           actual == B(n)
           hallados == {u \in Unidades : u >= e * SIZE_BLOQUE /\ bloques[u] = actual}
           distintos == \A i, j \in 0 .. k - 1 : B(i) = B(j) => i = j
<1>1. B(0) = d /\ \A i \in 1 .. k - 1 : B(i) = PunteroEn(bloques, e, i - 1)
  BY DEF BloqueDeDatos
<1>2. \A u : Unidad(u) = UnidadEn(bloques, u)
  BY DEF Unidad, UnidadEn
<1>3. CASE actual = d
  <2>1. LeerNPuntero(e, 0) = PunteroEn(bloques, e, 0)
    BY <1>2 DEF LeerNPuntero, PunteroEn
  <2>2. B(1) = PunteroEn(bloques, e, 0)
    BY DEF BloqueDeDatos
  <2>3. BuscarSiguienteBloque(actual, fcb) = B(1)
    BY <1>3, <2>1, <2>2 DEF BuscarSiguienteBloque
  <2>4. distintos => 1 = n + 1
    BY <1>1, <1>3
  <2>5. QED
    BY <2>3, <2>4
<1>4. CASE actual # d
  <2>1. /\ n >= 1 /\ k >= 2 /\ k - 1 <= SIZE_BLOQUE /\ SIZE_BLOQUE \in Nat \ {0}
    BY <1>1, <1>4, FileSystemOK DEF Sana
  <2>2. e \in Bloques
    BY <2>1, BloquesPropios
  <2>3. \A i \in 0 .. n - 1 :
          /\ PunteroEn(bloques, e, i) = bloques[e * SIZE_BLOQUE + i]
          /\ PunteroEn(bloques, e, i) = B(i + 1)
          /\ e * SIZE_BLOQUE + i \in Unidades
    <3> TAKE i \in 0 .. n - 1
    <3>1. i \in 0 .. SIZE_BLOQUE - 1 /\ i + 1 # 0 /\ i + 1 - 1 = i
      BY <2>1
    <3>2. QED
      BY <2>2, <3>1, PunteroDentro, UnidadDentro DEF BloqueDeDatos
  <2>4. PICK base \in Nat : base = e * SIZE_BLOQUE
    BY <2>1, <2>2 DEF Bloques
  <2>5. base + (n - 1) \in hallados
    <3>1. n - 1 \in 0 .. n - 1 /\ n - 1 + 1 = n
      BY <2>1
    <3>2. QED
      BY <2>3, <2>4, <3>1
  <2>6. hallados \subseteq Nat /\ \A u \in hallados : u >= base /\ bloques[u] = actual
    BY <2>4 DEF Unidades
  <2>7. BuscarSiguienteBloque(actual, fcb) = Unidad(Min(hallados) + 1)
    BY <1>4, <2>5 DEF BuscarSiguienteBloque
  <2> HIDE DEF hallados
  <2>8. Min(hallados) \in hallados /\ Min(hallados) <= base + (n - 1)
    BY <2>5, <2>6, MinimoDeNaturales
  <2>9. PICK i \in 0 .. n - 1 : Min(hallados) = base + i
    <3>1. PICK primero \in Nat : primero = Min(hallados)
      BY <2>6, <2>8
    <3>2. primero >= base /\ primero <= base + (n - 1)
      BY <2>6, <2>8, <3>1
    <3>3. primero - base \in 0 .. n - 1 /\ primero = base + (primero - base)
      BY <2>1, <2>4, <3>1, <3>2
    <3>4. QED
      BY <3>1, <3>3
  <2>10. B(i + 1) = actual
    BY <2>3, <2>4, <2>6, <2>8, <2>9
  <2>11. BuscarSiguienteBloque(actual, fcb) = B(i + 2)
    <3>1. Min(hallados) + 1 = base + (i + 1) /\ i + 2 # 0 /\ i + 2 - 1 = i + 1
      BY <2>4, <2>9
    <3>2. B(i + 2) = PunteroEn(bloques, e, i + 1)
      BY <3>1 DEF BloqueDeDatos
    <3>3. Unidad(base + (i + 1)) = PunteroEn(bloques, e, i + 1)
      BY <1>2, <2>4 DEF PunteroEn
    <3>4. QED
      BY <2>7, <3>1, <3>2, <3>3
  <2>12. distintos => i + 2 = n + 1
    <3> SUFFICES ASSUME distintos PROVE i + 2 = n + 1
      OBVIOUS
    <3>1. i + 1 \in 0 .. k - 1 /\ n \in 0 .. k - 1
      BY <2>1, <2>9
    <3>2. QED
      BY <2>10, <3>1
  <2>13. i + 2 \in 1 .. n + 1
    BY <2>9
  <2> HIDE DEF actual, distintos, B
  <2>14. QED
    BY <2>11, <2>12, <2>13 DEF actual, distintos, B
<1>5. QED
  BY <1>3, <1>4

(* p may be the pointer of the request: the data that is expected starts   *)
(* there, and what is not to be written yet, or was, is in its place.      *)
EsPuntero(p) ==
  /\ p \in Nat /\ p + op.total <= Fcb.tamanio
  /\ SinRepetir(Fcb) =>
       \A i \in 0 .. Fcb.tamanio - 1 :
         /\ i >= p /\ i < p + op.total => op.esperado[i] = Dato(i - p + 1)
         /\ i < p + op.escritos \/ i >= p + op.total =>
              op.esperado[i] = ValorEn(bloques, Fcb.directo, Fcb.indirecto, i)

(* The file that F_WRITE writes is on disk as it is in memory.             *)
LEMMA AlEscribir ==
  ASSUME InvFcbs, BloquesBien, EscribeTramo
  PROVE  /\ op.archivo \in Archivos /\ Legible(op.archivo) /\ K(op.archivo) \in Nat
         /\ DelDisco(op.archivo) /\ K(op.archivo) = HaciaArriba(Fcb.tamanio)
         /\ Fcb.tamanio \in Nat /\ Fcb.directo \in Int /\ Fcb.indirecto \in Int
         /\ Sana(bloques, Fcb.directo, Fcb.indirecto, K(op.archivo))
         /\ bloques \in [Unidades -> Int] /\ EsEscritura(op)
<1>1. EsEscritura(op) /\ op.paso = "escribe" /\ vivo /\ bloques \in [Unidades -> Int]
  BY TramoFcbs DEF InvFcbs, TipoFS
<1>2. /\ op.archivo \in Archivos
      /\ op.paso \notin Truncando /\ op.paso \notin EnCambio /\ op.paso # "cierra"
  BY <1>1 DEF EsEscritura, Truncando, EnCambio
<1>3. fcbs[op.archivo] # Nulo
  BY <1>1 DEF InvFcbs, TipoFS, TipoOp
<1>4. disco[op.archivo] = EnDisco(fcbs[op.archivo])
  BY <1>1, <1>2, <1>3 DEF InvFcbs, Persistencia
<1>5. Legible(op.archivo)
  <2>1. fcbs[op.archivo] \in FcbsEnMemoria
    BY <1>2, <1>3 DEF InvFcbs, TipoFS
  <2>2. EnDisco(fcbs[op.archivo]) \in [tamanio : Int, directo : Int, indirecto : Int]
    BY <2>1 DEF EnDisco, FcbsEnMemoria
  <2>3. QED
    BY <1>4, <2>2, MarcasOK DEF Legible
<1>6. /\ disco[op.archivo].tamanio = Fcb.tamanio /\ disco[op.archivo].directo = Fcb.directo
      /\ disco[op.archivo].indirecto = Fcb.indirecto
  BY <1>4 DEF EnDisco, Fcb
<1>7. K(op.archivo) = HaciaArriba(Fcb.tamanio)
  BY <1>6 DEF K
<1>8. Sana(bloques, disco[op.archivo].directo, disco[op.archivo].indirecto, K(op.archivo))
  BY <1>2, <1>5 DEF BloquesBien, Sanos
<1>9. /\ K(op.archivo) \in Nat /\ disco[op.archivo].tamanio \in Nat
      /\ disco[op.archivo].directo \in Int /\ disco[op.archivo].indirecto \in Int
  BY <1>2, <1>5, EnElDisco
<1>10. DelDisco(op.archivo)
  BY <1>6 DEF DelDisco, Fcb
<1>11. QED
  BY <1>1, <1>2, <1>5, <1>6, <1>7, <1>8, <1>9, <1>10

(* Each turn writes in a block of the data of the file: the one where the  *)
(* unit that follows the last one written is, or, when a block is in two   *)
(* places, maybe one that comes before.                                    *)
LEMMA LugarDelTramo ==
  ASSUME InvFcbs, BloquesBien, EscribeTramo
  PROVE  \E p \in Nat, q \in Nat, r \in 0 .. SIZE_BLOQUE - 1, x \in Nat :
           /\ EsPuntero(p) /\ x = p + op.escritos /\ x < p + op.total
           /\ q <= x \div SIZE_BLOQUE /\ r = x % SIZE_BLOQUE
           /\ SinRepetir(Fcb) => q = x \div SIZE_BLOQUE
           /\ q < K(op.archivo)
           /\ BloqueDelTramo = BloqueDeDatos(bloques, Fcb.directo, Fcb.indirecto, q)
           /\ PosicionDelTramo = BloqueDelTramo * SIZE_BLOQUE + r
           /\ EspacioDelTramo = SIZE_BLOQUE - r
<1> DEFINE d == Fcb.directo
           e == Fcb.indirecto
           k == K(op.archivo)
           distintos == SinRepetir(Fcb)
<1>1. /\ op.archivo \in Archivos /\ k \in Nat /\ k = HaciaArriba(Fcb.tamanio)
      /\ Fcb.tamanio \in Nat /\ Sana(bloques, d, e, k)
      /\ bloques \in [Unidades -> Int] /\ EsEscritura(op)
  BY AlEscribir
<1>2. /\ op.paso = "escribe" /\ op.tipo = "F_WRITE" /\ op.total \in Nat \ {0}
      /\ op.escritos \in Nat /\ op.escritos < op.total
  BY <1>1, TramoFcbs DEF EsEscritura
<1>3. EnEscribe /\ SIZE_BLOQUE \in Nat \ {0}
  BY <1>2, FileSystemOK DEF BloquesBien
<1>4. PICK p \in 0 .. Fcb.tamanio :
        /\ p + op.total <= Fcb.tamanio
        /\ IF op.espacio = 0
           THEN /\ (p + op.escritos) % SIZE_BLOQUE = 0 /\ p + op.escritos > 0
                /\ \E l \in 0 .. ((p + op.escritos) \div SIZE_BLOQUE) - 1 :
                     /\ op.bloque = BloqueDeDatos(bloques, d, e, l)
                     /\ distintos => l = ((p + op.escritos) \div SIZE_BLOQUE) - 1
           ELSE /\ op.bloque = BloqueDeDatos(bloques, d, e, (p + op.escritos) \div SIZE_BLOQUE)
                /\ op.posicion = op.bloque * SIZE_BLOQUE + ((p + op.escritos) % SIZE_BLOQUE)
                /\ op.espacio = SIZE_BLOQUE - ((p + op.escritos) % SIZE_BLOQUE)
        /\ distintos =>
             \A i \in 0 .. Fcb.tamanio - 1 :
               /\ i >= p /\ i < p + op.total => op.esperado[i] = Dato(i - p + 1)
               /\ i < p + op.escritos \/ i >= p + op.total =>
                    op.esperado[i] = ValorEn(bloques, d, e, i)
  BY <1>2, <1>3 DEF EnEscribe
<1>5. p \in Nat /\ EsPuntero(p)
  BY <1>1, <1>4 DEF EsPuntero
<1>6. PICK x \in Nat : x = p + op.escritos
  BY <1>2, <1>5
<1>7. x < p + op.total /\ x \in 0 .. Fcb.tamanio - 1
  BY <1>1, <1>2, <1>4, <1>5, <1>6
<1>8. PICK q \in Nat : q = x \div SIZE_BLOQUE
  BY Division
<1>9. PICK r \in 0 .. SIZE_BLOQUE - 1 : r = x % SIZE_BLOQUE
  BY Division
<1>10. q < k
  BY <1>1, <1>7, <1>8, Redondeo
<1>13. distintos => \A i, j \in 0 .. k - 1 :
         BloqueDeDatos(bloques, d, e, i) = BloqueDeDatos(bloques, d, e, j) => i = j
  <2> SUFFICES ASSUME distintos, NEW i \in 0 .. k - 1, NEW j \in 0 .. k - 1,
                      BloqueDeDatos(bloques, d, e, i) = BloqueDeDatos(bloques, d, e, j)
               PROVE  i = j
    OBVIOUS
  <2>1. \A a, b \in 1 .. Largo(k) :
          BloqueN(bloques, d, e, a) = BloqueN(bloques, d, e, b) => a = b
    BY <1>1 DEF SinRepetir
  <2>2. QED
    BY <1>1, <2>1, DatosDistintos
<1> HIDE DEF d, e, k, distintos
<1>11. \E l \in 0 .. q :
         /\ distintos => l = q
         /\ BloqueDelTramo = BloqueDeDatos(bloques, d, e, l)
         /\ PosicionDelTramo = BloqueDelTramo * SIZE_BLOQUE + r
         /\ EspacioDelTramo = SIZE_BLOQUE - r
  <2>1. CASE op.espacio = 0
    <3>1. r = 0 /\ x > 0
      BY <1>4, <1>6, <1>9, <2>1
    <3>2. PICK n \in 0 .. q - 1 :
            op.bloque = BloqueDeDatos(bloques, d, e, n) /\ (distintos => n = q - 1)
      BY <1>4, <1>6, <1>8, <2>1
    <3>3. n \in 0 .. k - 2 /\ k \in Nat /\ n + 1 <= q
      BY <1>1, <1>8, <1>10, <3>2 DEF k
    <3>4. PICK l \in 1 .. n + 1 :
            /\ BuscarSiguienteBloque(op.bloque, Fcb) = BloqueDeDatos(bloques, d, e, l)
            /\ distintos => l = n + 1
      <4>1. Sana(bloques, Fcb.directo, Fcb.indirecto, k)
        BY <1>1 DEF d, e, k
      <4>2. \E l \in 1 .. n + 1 :
              /\ BuscarSiguienteBloque(BloqueDeDatos(bloques, d, e, n), Fcb)
                   = BloqueDeDatos(bloques, d, e, l)
              /\ (\A i, j \in 0 .. k - 1 :
                    BloqueDeDatos(bloques, d, e, i) = BloqueDeDatos(bloques, d, e, j)
                      => i = j) => l = n + 1
        BY <1>1, <3>3, <4>1, SiguienteBloque DEF d, e
      <4>3. QED
        BY <1>13, <3>2, <4>2
    <3>5. l \in 0 .. q /\ l \in 0 .. k - 1 /\ (distintos => l = q)
      BY <1>10, <3>2, <3>3, <3>4
    <3>6. BloqueDelTramo = BloqueDeDatos(bloques, d, e, l)
      BY <2>1, <3>4 DEF BloqueDelTramo, Salta
    <3>7. BloqueDelTramo * SIZE_BLOQUE + 0 = BloqueDelTramo * SIZE_BLOQUE
      <4>1. BloqueDelTramo \in Int
        BY <1>1, <3>5, <3>6, BloquesPropios DEF Bloques, d, e, k
      <4>2. QED
        BY <1>3, <4>1
    <3>8. PosicionDelTramo = BloqueDelTramo * SIZE_BLOQUE + r /\ EspacioDelTramo = SIZE_BLOQUE - r
      BY <1>3, <2>1, <3>1, <3>7 DEF PosicionDelTramo, EspacioDelTramo, Salta
    <3>9. QED
      BY <3>5, <3>6, <3>8
  <2>2. CASE op.espacio # 0
    <3>1. /\ BloqueDelTramo = BloqueDeDatos(bloques, d, e, q)
          /\ PosicionDelTramo = BloqueDelTramo * SIZE_BLOQUE + r
          /\ EspacioDelTramo = SIZE_BLOQUE - r
      BY <1>4, <1>6, <1>8, <1>9, <2>2
         DEF BloqueDelTramo, PosicionDelTramo, EspacioDelTramo, Salta
    <3>2. q \in 0 .. q
      OBVIOUS
    <3>3. QED
      BY <3>1, <3>2
  <2>3. QED
    BY <2>1, <2>2
<1>14. PICK l \in 0 .. q :
         /\ distintos => l = q
         /\ BloqueDelTramo = BloqueDeDatos(bloques, d, e, l)
         /\ PosicionDelTramo = BloqueDelTramo * SIZE_BLOQUE + r
         /\ EspacioDelTramo = SIZE_BLOQUE - r
  BY <1>11
<1>15. l \in Nat /\ l <= x \div SIZE_BLOQUE /\ l < k /\ (distintos => l = x \div SIZE_BLOQUE)
  BY <1>1, <1>8, <1>10, <1>14 DEF k
<1>12. QED
  BY <1>5, <1>6, <1>7, <1>9, <1>14, <1>15 DEF d, e, k, distintos

(* The turn writes only in a block of the data of its file, which can only *)
(* be in another if it is one of those that the start found shared.        *)
LEMMA TramoEnSuBloque ==
  ASSUME InvFcbs, BloquesBien, EscribeTramo
  PROVE  /\ BloqueDelTramo \in Bloques /\ SoloEnBloque(bloques, bloques', BloqueDelTramo)
         /\ \A f \in Archivos : Legible(f) /\ K(f) >= 2 => disco[f].indirecto # BloqueDelTramo
         /\ \A f \in Archivos : Legible(f) /\ f # op.archivo =>
              \A n \in 0 .. K(f) - 1 :
                BloqueDeDatos(bloques, disco[f].directo, disco[f].indirecto, n)
                  = BloqueDelTramo => BloqueDelTramo \in compartidos
<1> DEFINE a == op.archivo
           d == Fcb.directo
           e == Fcb.indirecto
           k == K(a)
           b == BloqueDelTramo
<1>1. /\ a \in Archivos /\ Legible(a) /\ k \in Nat
      /\ disco[a].directo = d /\ disco[a].indirecto = e
      /\ Sana(bloques, d, e, k) /\ SIZE_BLOQUE \in Nat \ {0}
  BY AlEscribir, FileSystemOK DEF DelDisco, Fcb
<1>2. PICK q \in Nat, r \in 0 .. SIZE_BLOQUE - 1 :
        /\ q < k /\ b = BloqueDeDatos(bloques, d, e, q)
        /\ PosicionDelTramo = b * SIZE_BLOQUE + r
        /\ EspacioDelTramo = SIZE_BLOQUE - r
  BY LugarDelTramo
<1>3. q \in 0 .. k - 1
  BY <1>1, <1>2
<1>4. /\ b \in Bloques
      /\ k >= 2 => b # e
      /\ (IF q = 0 THEN 1 ELSE q + 2) \in 1 .. Largo(k)
      /\ b = BloqueN(bloques, d, e, IF q = 0 THEN 1 ELSE q + 2)
  BY <1>1, <1>2, <1>3, BloquesPropios
<1>5. SoloEnBloque(bloques, bloques', b)
  <2>1. PICK base \in Int : base = b * SIZE_BLOQUE
    BY <1>1, <1>4 DEF Bloques
  <2>2. Cuanto \in Nat /\ Cuanto <= SIZE_BLOQUE - r
    BY <1>2, TramoFcbs
  <2>3. \A u \in Unidades : ~(u >= base + r /\ u < base + r + Cuanto) => bloques'[u] = bloques[u]
    BY <1>2, <2>1, TramoFcbs
  <2>4. PICK c \in Nat : c = Cuanto
    BY <2>2
  <2>5. ASSUME NEW u \in Unidades, ~(u >= base /\ u < base + SIZE_BLOQUE)
        PROVE  bloques'[u] = bloques[u]
    <3>1. u \in Int
      BY DEF Unidades
    <3>2. ~(u >= base + r /\ u < base + r + c)
      BY <1>1, <2>1, <2>2, <2>4, <2>5, <3>1
    <3>3. QED
      BY <2>3, <2>4, <3>2
  <2>6. QED
    BY <2>1, <2>5 DEF SoloEnBloque
<1>6. ASSUME NEW f \in Archivos, Legible(f), f # a
      PROVE  /\ \A j \in 1 .. Largo(K(f)) :
                  BloqueN(bloques, disco[f].directo, disco[f].indirecto, j) = b =>
                    b \in compartidos
             /\ K(f) \in Nat
             /\ Sana(bloques, disco[f].directo, disco[f].indirecto, K(f))
  <2>1. Ajenas(bloques, disco[f].directo, disco[f].indirecto, K(f), d, e, k)
    BY <1>1, <1>6 DEF BloquesBien, Separados
  <2>2. \A j \in 1 .. Largo(K(f)) :
          BloqueN(bloques, disco[f].directo, disco[f].indirecto, j) = b => b \in compartidos
    BY <1>4, <2>1 DEF Ajenas
  <2>3. QED
    BY <1>6, <2>2, EnElDisco DEF BloquesBien, Sanos
<1> HIDE DEF b, d, e, k
<1>7. ASSUME NEW f \in Archivos, Legible(f), K(f) >= 2
      PROVE  disco[f].indirecto # b
  <2>1. CASE f = a
    BY <1>1, <1>4, <1>7, <2>1 DEF k
  <2>2. CASE f # a
    <3>1. 2 \in 1 .. Largo(K(f))
      BY <1>6, <1>7, <2>2 DEF Largo
    <3>2. BloqueN(bloques, disco[f].directo, disco[f].indirecto, 2) = disco[f].indirecto
      BY DEF BloqueN
    <3>3. disco[f].indirecto \notin compartidos
      BY <1>6, <1>7, <2>2, BloquesPropios
    <3>4. QED
      BY <1>6, <1>7, <2>2, <3>1, <3>2, <3>3
  <2>3. QED
    BY <2>1, <2>2
<1>8. ASSUME NEW f \in Archivos, Legible(f), f # a, NEW n \in 0 .. K(f) - 1,
             BloqueDeDatos(bloques, disco[f].directo, disco[f].indirecto, n) = b
      PROVE  b \in compartidos
  <2>1. /\ (IF n = 0 THEN 1 ELSE n + 2) \in 1 .. Largo(K(f))
        /\ BloqueDeDatos(bloques, disco[f].directo, disco[f].indirecto, n)
             = BloqueN(bloques, disco[f].directo, disco[f].indirecto,
                       IF n = 0 THEN 1 ELSE n + 2)
    BY <1>6, <1>8, BloquesPropios
  <2>2. QED
    BY <1>6, <1>8, <2>1
<1>9. QED
  BY <1>4, <1>5, <1>7, <1>8 DEF b

(* The data that F_WRITE has to leave, after the turn.                     *)
LEMMA TramoEscrito ==
  ASSUME InvFcbs, BloquesBien, EscribeTramo
  PROVE  EnEscribe'
<1> DEFINE d == Fcb.directo
           e == Fcb.indirecto
           k == K(op.archivo)
           b == BloqueDelTramo
           t == Fcb.tamanio
           distintos == SinRepetir(Fcb)
<1>1. /\ op.archivo \in Archivos /\ Legible(op.archivo) /\ k \in Nat
      /\ k = HaciaArriba(t) /\ t \in Nat
      /\ disco[op.archivo].directo = d /\ disco[op.archivo].indirecto = e
      /\ Sana(bloques, d, e, k) /\ EsEscritura(op) /\ SIZE_BLOQUE \in Nat \ {0}
  BY AlEscribir, FileSystemOK DEF DelDisco, Fcb
<1>2. PICK p \in Nat, q \in Nat, r \in 0 .. SIZE_BLOQUE - 1, x \in Nat :
           /\ EsPuntero(p) /\ x = p + op.escritos /\ x < p + op.total
           /\ q <= x \div SIZE_BLOQUE /\ r = x % SIZE_BLOQUE /\ q < k
           /\ distintos => q = x \div SIZE_BLOQUE
           /\ b = BloqueDeDatos(bloques, d, e, q)
           /\ PosicionDelTramo = b * SIZE_BLOQUE + r
           /\ EspacioDelTramo = SIZE_BLOQUE - r
  BY LugarDelTramo
<1>3. PICK c \in Nat \ {0} : c = Cuanto
  BY TramoFcbs
<1>4. /\ c <= SIZE_BLOQUE - r /\ c <= op.total - op.escritos
      /\ c = SIZE_BLOQUE - r \/ c = op.total - op.escritos
      /\ op'.archivo = op.archivo /\ op'.tipo = "F_WRITE" /\ op'.total = op.total
      /\ op'.bloque = b /\ op'.espacio = 0 /\ op'.escritos = op.escritos + c
      /\ op'.esperado = op.esperado
      /\ \A u \in Unidades :
           bloques'[u] = IF u >= PosicionDelTramo /\ u < PosicionDelTramo + c
                         THEN Dato(op.escritos + (u - PosicionDelTramo) + 1)
                         ELSE bloques[u]
  BY <1>2, <1>3, TramoFcbs
<1>5. Fcb' = Fcb
  <2>1. fcbs' = fcbs
    BY DEF EscribeTramo
  <2>2. QED
    BY <1>4, <2>1 DEF Fcb
<1>6. /\ op.total \in Nat \ {0} /\ op.escritos \in Nat
      /\ p + op.total <= t
      /\ distintos =>
           \A i \in 0 .. t - 1 :
             /\ i >= p /\ i < p + op.total => op.esperado[i] = Dato(i - p + 1)
             /\ i < x \/ i >= p + op.total => op.esperado[i] = ValorEn(bloques, d, e, i)
  BY <1>1, <1>2 DEF EsEscritura, EsPuntero
<1>7. /\ SoloEnBloque(bloques, bloques', b) /\ b \in Bloques
      /\ k >= 2 => e # b
  BY <1>1, TramoEnSuBloque
<1>21. distintos => \A i, j \in 1 .. Largo(k) :
          BloqueN(bloques, d, e, i) = BloqueN(bloques, d, e, j) => i = j
  BY <1>1 DEF SinRepetir
<1> HIDE DEF d, e, k, b, t, distintos
<1>8. q \in 0 .. k - 1 /\ b \in Int
  BY <1>1, <1>2, <1>7 DEF Bloques
<1>9. /\ \A n \in 0 .. k - 1 : BloqueDeDatos(bloques', d, e, n) = BloqueDeDatos(bloques, d, e, n)
      /\ Sana(bloques', d, e, k)
      /\ \A j \in 1 .. Largo(k) : BloqueN(bloques', d, e, j) = BloqueN(bloques, d, e, j)
  BY <1>1, <1>7, <1>8, PunterosIntactos
<1>18. Fcb'.tamanio = t /\ Fcb'.directo = d /\ Fcb'.indirecto = e
  BY <1>5 DEF t, d, e
<1>22. SinRepetir(Fcb)' => distintos
  <2>1. SinRepetir(Fcb)' => \A i, j \in 1 .. Largo(k) :
          BloqueN(bloques', d, e, i) = BloqueN(bloques', d, e, j) => i = j
    BY <1>1, <1>18 DEF SinRepetir, HaciaArriba
  <2>2. (\A i, j \in 1 .. Largo(k) :
           BloqueN(bloques, d, e, i) = BloqueN(bloques, d, e, j) => i = j) => distintos
    BY <1>1 DEF SinRepetir, distintos, d, e, t
  <2>3. QED
    BY <1>9, <2>1, <2>2
<1>23. PICK z \in Nat : z = x \div SIZE_BLOQUE
  BY Division
<1>10. PICK y \in Nat : y = SIZE_BLOQUE * z /\ x = y + r
  <2>1. x = SIZE_BLOQUE * (x \div SIZE_BLOQUE) + (x % SIZE_BLOQUE)
    BY Division
  <2>2. SIZE_BLOQUE * z \in Nat
    BY <1>1
  <2>3. x = SIZE_BLOQUE * z + r
    BY <1>2, <1>23, <2>1
  <2>4. QED
    BY <2>2, <2>3
<1>11. PICK base \in Int : base = b * SIZE_BLOQUE
  BY <1>1, <1>8
<1>12. ASSUME distintos, NEW i \in 0 .. t - 1, i < x + c \/ i >= p + op.total
       PROVE  op.esperado[i] = ValorEn(bloques', d, e, i)
  <2>11. q = z
    BY <1>2, <1>12, <1>23
  <2>1. i \in Nat /\ i \div SIZE_BLOQUE < k
    <3>1. \A j \in 0 .. t - 1 : j \div SIZE_BLOQUE < HaciaArriba(t)
      BY <1>1, Redondeo
    <3>2. QED
      BY <1>1, <3>1
  <2>2. PICK o \in 0 .. k - 1 : o = i \div SIZE_BLOQUE
    BY <1>1, <2>1, UnidadDelArchivo
  <2>3. PICK s \in 0 .. SIZE_BLOQUE - 1 : s = i % SIZE_BLOQUE
    BY <1>1, <2>1, UnidadDelArchivo
  <2>4. i = SIZE_BLOQUE * o + s
    BY <2>1, <2>2, <2>3, Division
  <2>5. PICK w \in Unidades : w = BloqueDeDatos(bloques, d, e, o) * SIZE_BLOQUE + s
    BY <1>1, <2>1, <2>2, <2>3, UnidadDelArchivo
  <2>6. ValorEn(bloques, d, e, i) = bloques[w]
    BY <1>1, <2>1, <2>2, <2>3, <2>5, UnidadDelArchivo
  <2>7. ValorEn(bloques', d, e, i) = bloques'[w]
    BY <1>1, <1>9, <2>1, <2>2, <2>3, <2>5, UnidadDelArchivo
  <2>8. CASE i >= x /\ i < x + c
    <3>1. o = q /\ s = r + (i - x)
      <4>1. r + (i - x) \in 0 .. SIZE_BLOQUE - 1
        BY <1>1, <1>4, <2>1, <2>8
      <4>2. q * SIZE_BLOQUE + (r + (i - x)) = o * SIZE_BLOQUE + s
        BY <1>1, <1>10, <2>2, <2>4, <2>11
      <4>3. q \in Int /\ o \in Int
        BY <2>2
      <4>4. QED
        BY <1>1, <2>3, <4>1, <4>2, <4>3, UnidadUnica
    <3>2. w = base + s /\ PosicionDelTramo = base + r
      BY <1>2, <1>11, <2>5, <3>1
    <3>3. w >= PosicionDelTramo /\ w < PosicionDelTramo + c
          /\ w - PosicionDelTramo = i - x
      BY <1>4, <2>8, <3>1, <3>2
    <3>4. bloques'[w] = Dato(op.escritos + (i - x) + 1)
      BY <1>4, <3>3
    <3>5. op.esperado[i] = Dato(i - p + 1)
      BY <1>2, <1>4, <1>6, <1>12, <2>1, <2>8
    <3>6. op.escritos + (i - x) + 1 = i - p + 1
      BY <1>2, <1>6, <2>1
    <3>7. QED
      BY <2>7, <3>4, <3>5, <3>6
  <2>9. CASE ~(i >= x /\ i < x + c)
    <3>1. i < x \/ i >= p + op.total
      BY <1>12, <2>1, <2>9
    <3>2. ~(w >= PosicionDelTramo /\ w < PosicionDelTramo + c)
      <4> SUFFICES ASSUME w >= PosicionDelTramo, w < PosicionDelTramo + c PROVE FALSE
        OBVIOUS
      <4>1. w >= base + r /\ w < base + r + c /\ w \in Int
        BY <1>2, <1>11 DEF Unidades
      <4>2. PICK h \in 0 .. SIZE_BLOQUE - 1 : w = base + h /\ h >= r /\ h < r + c
        <5>1. /\ w - base \in 0 .. SIZE_BLOQUE - 1 /\ w = base + (w - base)
              /\ w - base >= r /\ w - base < r + c
          BY <1>1, <1>4, <4>1
        <5>2. QED
          BY <5>1
      <4>3. PICK v \in Int : v = BloqueDeDatos(bloques, d, e, o)
        BY <1>1, <2>1, <2>2, UnidadDelArchivo DEF Bloques
      <4>4. v = b /\ s = h
        <5>1. v * SIZE_BLOQUE + s = b * SIZE_BLOQUE + h
          BY <1>11, <2>5, <4>2, <4>3
        <5>2. /\ SIZE_BLOQUE \in Nat \ {0} /\ v \in Int /\ b \in Int
              /\ s \in 0 .. SIZE_BLOQUE - 1 /\ h \in 0 .. SIZE_BLOQUE - 1
          BY <1>1, <1>8, <2>3, <4>2, <4>3
        <5>3. QED
          BY <5>1, <5>2, UnidadUnica
      <4>5. o = q
        <5>1. BloqueDeDatos(bloques, d, e, o) = BloqueDeDatos(bloques, d, e, q)
          BY <1>2, <4>3, <4>4
        <5>2. QED
          BY <1>1, <1>8, <1>12, <1>21, <2>2, <5>1, DatosDistintos
      <4>6. i = y + h
        BY <1>10, <2>4, <2>11, <4>4, <4>5
      <4>7. i >= x /\ i < x + c
        BY <1>10, <4>2, <4>6
      <4>8. QED
        BY <2>9, <4>7
    <3>3. bloques'[w] = bloques[w]
      BY <1>4, <3>2
    <3>4. QED
      BY <1>6, <1>12, <2>6, <2>7, <3>1, <3>3
  <2>10. QED
    BY <2>8, <2>9
<1>13. ASSUME op.escritos + c < op.total
       PROVE  /\ (x + c) % SIZE_BLOQUE = 0 /\ x + c > 0
              /\ ((x + c) \div SIZE_BLOQUE) - 1 = z
  <2>1. x + c = y + SIZE_BLOQUE
    BY <1>1, <1>4, <1>6, <1>10, <1>13
  <2>2. (z + 1) * SIZE_BLOQUE + 0 = x + c /\ SIZE_BLOQUE * z + SIZE_BLOQUE = x + c
    BY <1>1, <1>10, <2>1
  <2>3. PICK o \in Nat : o = (x + c) \div SIZE_BLOQUE
    BY Division
  <2>4. PICK s \in 0 .. SIZE_BLOQUE - 1 : s = (x + c) % SIZE_BLOQUE
    BY Division
  <2>5. x + c = o * SIZE_BLOQUE + s
    BY <1>1, <2>3, <2>4, Division
  <2>6. 0 \in 0 .. SIZE_BLOQUE - 1
    BY <1>1
  <2>7. o = z + 1 /\ s = 0
    <3>1. (z + 1) * SIZE_BLOQUE + 0 = o * SIZE_BLOQUE + s
      BY <2>2, <2>5
    <3>2. z + 1 \in Int /\ o \in Int
      OBVIOUS
    <3>3. QED
      BY <1>1, <2>4, <2>6, <3>1, <3>2, UnidadUnica
  <2>8. x + c > 0 /\ o - 1 = z
    BY <1>3, <2>7
  <2>9. QED
    BY <2>3, <2>4, <2>7, <2>8
<1>14. op.esperado = [i \in 0 .. t - 1 |-> op.esperado[i]]
  <2>1. EnEscribe /\ op.tipo = "F_WRITE"
    BY <1>1, TramoFcbs DEF BloquesBien, EsEscritura
  <2>2. QED
    BY <2>1 DEF EnEscribe, t
<1>15. p + op'.escritos = x + c /\ p \in 0 .. t
  BY <1>1, <1>2, <1>4, <1>6
<1>16. op'.escritos < op'.total =>
         /\ (p + op'.escritos) % SIZE_BLOQUE = 0 /\ p + op'.escritos > 0
         /\ \E l \in 0 .. ((p + op'.escritos) \div SIZE_BLOQUE) - 1 :
              /\ op'.bloque = BloqueDeDatos(bloques', d, e, l)
              /\ SinRepetir(Fcb)' => l = ((p + op'.escritos) \div SIZE_BLOQUE) - 1
  <2> SUFFICES ASSUME op.escritos + c < op.total
               PROVE  /\ (x + c) % SIZE_BLOQUE = 0 /\ x + c > 0
                      /\ \E l \in 0 .. ((x + c) \div SIZE_BLOQUE) - 1 :
                           /\ b = BloqueDeDatos(bloques', d, e, l)
                           /\ SinRepetir(Fcb)' => l = ((x + c) \div SIZE_BLOQUE) - 1
    BY <1>4, <1>15
  <2>1. (x + c) % SIZE_BLOQUE = 0 /\ x + c > 0 /\ ((x + c) \div SIZE_BLOQUE) - 1 = z
    BY <1>13
  <2>2. q \in 0 .. z /\ (SinRepetir(Fcb)' => q = z)
    BY <1>2, <1>22, <1>23
  <2>3. b = BloqueDeDatos(bloques', d, e, q)
    BY <1>2, <1>8, <1>9
  <2>4. QED
    BY <2>1, <2>2, <2>3
<1>17. SinRepetir(Fcb)' => \A i \in 0 .. t - 1 :
         /\ i >= p /\ i < p + op'.total => op'.esperado[i] = Dato(i - p + 1)
         /\ i < p + op'.escritos \/ i >= p + op'.total =>
              op'.esperado[i] = ValorEn(bloques', d, e, i)
  BY <1>4, <1>6, <1>12, <1>15, <1>22
<1>19. /\ p + op'.total <= Fcb'.tamanio /\ op'.espacio = 0
       /\ op'.esperado = [i \in 0 .. Fcb'.tamanio - 1 |-> op'.esperado[i]]
  BY <1>4, <1>6, <1>14, <1>18
<1>20. QED
  BY <1>15, <1>16, <1>17, <1>18, <1>19, SMTT(30) DEF EnEscribe

(* A turn of escribir_archivo leaves the list of blocks of every file as   *)
(* it was.                                                                 *)
LEMMA EscribeTramoBloques ==
  ASSUME InvFcbs, BloquesBien, EscribeTramo
  PROVE  BloquesBien'
<1> DEFINE b == BloqueDelTramo
<1>1. /\ b \in Bloques /\ SoloEnBloque(bloques, bloques', b)
      /\ \A f \in Archivos : Legible(f) /\ K(f) >= 2 => disco[f].indirecto # b
  BY TramoEnSuBloque
<1>2. /\ op.paso = "escribe" /\ op'.archivo = op.archivo
      /\ op'.paso \in {"escribe", "responde"}
      /\ UNCHANGED <<bitmap, disco, fcbs, vivo, compartidos>>
  BY TramoFcbs DEF EsEscritura, EscribeTramo, historia
<1> HIDE DEF b
<1>3. ASSUME NEW f \in Archivos, Legible(f)
      PROVE  /\ \A j \in 1 .. Largo(K(f)) :
                  BloqueN(bloques', disco[f].directo, disco[f].indirecto, j)
                    = BloqueN(bloques, disco[f].directo, disco[f].indirecto, j)
             /\ Sana(bloques', disco[f].directo, disco[f].indirecto, K(f))
             /\ K(f) \in Nat
  <2>1. K(f) \in Nat /\ Sana(bloques, disco[f].directo, disco[f].indirecto, K(f))
    BY <1>3, EnElDisco DEF BloquesBien, Sanos
  <2>2. b \in Int
    BY <1>1 DEF Bloques
  <2>3. K(f) >= 2 => disco[f].indirecto # b
    BY <1>1, <1>3
  <2>4. QED
    BY <1>1, <2>1, <2>2, <2>3, PunterosIntactos
<1>4. \A f \in Archivos : (Legible(f)' <=> Legible(f)) /\ K(f)' = K(f)
  BY <1>2 DEF Legible, K
<1>5. Sanos'
  <2> SUFFICES ASSUME NEW f \in Archivos, Legible(f)'
               PROVE  Sana(bloques', disco'[f].directo, disco'[f].indirecto, K(f)')
    BY <1>2 DEF Sanos, Sana
  <2>1. QED
    BY <1>2, <1>3, <1>4
<1>6. Separados'
  <2> SUFFICES ASSUME NEW f \in Archivos, NEW g \in Archivos, f # g, Legible(f)', Legible(g)'
               PROVE  Ajenas(bloques', disco'[f].directo, disco'[f].indirecto, K(f)',
                             disco'[g].directo, disco'[g].indirecto, K(g)')
    BY <1>2 DEF Separados, Ajenas
  <2>1. Legible(f) /\ Legible(g)
    BY <1>4
  <2>2. Ajenas(bloques, disco[f].directo, disco[f].indirecto, K(f),
               disco[g].directo, disco[g].indirecto, K(g))
    BY <2>1 DEF BloquesBien, Separados
  <2>3. Ajenas(bloques', disco[f].directo, disco[f].indirecto, K(f),
               disco[g].directo, disco[g].indirecto, K(g))
    BY <1>3, <2>1, <2>2 DEF Ajenas
  <2>4. QED
    BY <1>2, <1>4, <2>3
<1>7. Ocupados'
  <2> SUFFICES ASSUME NEW f \in Archivos, Legible(f)'
               PROVE  Marcada(bloques', disco'[f].directo, disco'[f].indirecto, K(f)', bitmap')
    BY DEF Ocupados, Marcada
  <2>1. Legible(f) /\ ~Liberando
    BY <1>2, <1>4 DEF Liberando
  <2>2. Marcada(bloques, disco[f].directo, disco[f].indirecto, K(f), bitmap)
    BY <2>1 DEF BloquesBien, Ocupados
  <2>3. Marcada(bloques', disco[f].directo, disco[f].indirecto, K(f), bitmap)
    BY <1>3, <2>1, <2>2 DEF Marcada
  <2>4. QED
    BY <1>2, <1>4, <2>3
<1>8. Cuentas'
  <2>1. op.paso \notin Truncando /\ op'.paso \notin Truncando
    BY <1>2 DEF Truncando, EnCambio
  <2>2. QED
    BY <1>2, <1>4, <2>1 DEF BloquesBien, Cuentas
<1>9. EnAsigna' /\ EnDesasigna' /\ EnVacia' /\ EnAbre'
  BY <1>2 DEF EnAsigna, EnDesasigna, EnVacia, EnAbre
<1>10. QED
  BY <1>2, <1>5, <1>6, <1>7, <1>8, <1>9, TramoEscrito DEF BloquesBien

-----------------------------------------------------------------------------
(* Part 2: the invariant.                                                  *)

(* Only a start can find the disk in order again.                          *)
LEMMA DanioQueda == danio /\ [Next]_vars /\ ~Arranca => danio'
<1> SUFFICES ASSUME danio, [Next]_vars, ~Arranca PROVE danio'
  OBVIOUS
<1>1. CASE UNCHANGED vars
  BY <1>1 DEF vars, historia
<1>2. ASSUME NEW f \in Archivos, NEW n \in Tamanios, Truncar(f, n) PROVE danio'
  BY <1>2 DEF Truncar
<1>3. CASE Caida
  BY <1>3 DEF Caida
<1>4. ASSUME NEW f \in Archivos,
             \/ Abrir(f) \/ CrearArchivo(f) \/ TruncarInexistente(f)
             \/ \E p \in Punteros, n \in Cantidades :
                  LeerArchivo(f, p, n) \/ EscribirArchivo(f, p, n)
      PROVE  danio'
  BY <1>4 DEF Abrir, CrearArchivo, TruncarInexistente, LeerArchivo, EscribirArchivo,
              historia
<1>5. CASE \/ AsignaPunteroDirecto \/ AsignaPunteroIndirecto
           \/ AsignaBloque \/ CierraBloques
           \/ DesasignaUltimoBloque \/ DesasignaIndirecto \/ DesasignaDirecto
           \/ AbreFcb \/ CierraFcb \/ EscribeTramo \/ Responde
  BY <1>5 DEF AsignaPunteroDirecto, AsignaPunteroIndirecto, AsignaBloque, CierraBloques,
              DesasignaUltimoBloque, DesasignaIndirecto, DesasignaDirecto, AbreFcb,
              CierraFcb, EscribeTramo, Responde, historia
<1>6. QED
  BY <1>1, <1>2, <1>3, <1>4, <1>5 DEF Next

(* Part 2 of the invariant is kept by every step while there is no         *)
(* damage.                                                                 *)
LEMMA PasoBloques == InvFcbs /\ InvFcbs' /\ InvBloques /\ [Next]_vars => InvBloques'
<1>3. ASSUME InvFcbs, Arranca, ~danio' PROVE BloquesBien'
  BY <1>3, ArrancaBloques
<1> SUFFICES ASSUME InvFcbs, InvFcbs', BloquesBien, [Next]_vars, ~Arranca, ~danio'
             PROVE  BloquesBien'
  BY <1>3, DanioQueda DEF InvBloques
<1>1. CASE UNCHANGED vars
  <2>1. UNCHANGED <<bitmap, bloques, disco, fcbs, vivo, op, compartidos>>
    BY <1>1 DEF vars, historia
  <2>2. /\ Sanos' /\ Separados' /\ \A f \in Archivos : K(f)' = K(f) /\ (Legible(f)' <=> Legible(f))
    BY <2>1, Quietos DEF BloquesBien
  <2>3. Ocupados' /\ Cuentas'
    BY <2>1, <2>2 DEF BloquesBien, Ocupados, Cuentas, Marcada, Liberando
  <2>4. EnAsigna'
    BY <2>1, <2>2 DEF BloquesBien, EnAsigna, DelDisco, Fcb, HaciaArriba, PunterosAEscribir, K
  <2>5. EnDesasigna'
    BY <2>1, <2>2 DEF BloquesBien, EnDesasigna, DelDisco, Fcb, Restan, HaciaArriba, Marcada, K,
                      SeVan, NoEsDeOtro
  <2>6. EnVacia' /\ EnAbre'
    BY <2>1, <2>2 DEF BloquesBien, EnVacia, EnAbre, Fcb, HaciaArriba, Sana, Marcada, Ajenas, K,
                      NoEsDeOtro
  <2>7. op'.paso \in {"escribe", "responde"} => EnEscribe'
    BY <2>1 DEF BloquesBien, EnEscribe, SinRepetir, HaciaArriba, Fcb
  <2>8. QED
    BY <2>1, <2>2, <2>3, <2>4, <2>5, <2>6, <2>7 DEF BloquesBien
<1>2. CASE Next
  <2>1. ASSUME NEW f \in Archivos, Abrir(f) \/ TruncarInexistente(f) PROVE BloquesBien'
    BY <2>1, SinCambioBloques
  <2>2. ASSUME NEW f \in Archivos, CrearArchivo(f) PROVE BloquesBien'
    BY <2>2, CrearArchivoBloques
  <2>3. ASSUME NEW f \in Archivos, NEW n \in Tamanios, Truncar(f, n) PROVE BloquesBien'
    BY <2>3, TruncarBloques
  <2>4. ASSUME NEW f \in Archivos, NEW p \in Punteros, NEW n \in Cantidades,
               LeerArchivo(f, p, n)
        PROVE  BloquesBien'
    BY <2>4, SinCambioBloques
  <2>5. ASSUME NEW f \in Archivos, NEW p \in Punteros, NEW n \in Cantidades,
               EscribirArchivo(f, p, n)
        PROVE  BloquesBien'
    BY <2>5, EscribirArchivoBloques
  <2>6. ~AsignaPunteroDirecto /\ ~AsignaPunteroIndirecto
    BY DEF BloquesBien, AsignaPunteroDirecto, AsignaPunteroIndirecto
  <2>7. CASE AsignaBloque
    BY <2>7, AsignaBloqueBloques
  <2>8. CASE CierraBloques
    BY <2>8, CierraBloquesBloques
  <2>9. CASE DesasignaUltimoBloque
    BY <2>9, UltimoBloques
  <2>10. CASE DesasignaIndirecto
    BY <2>10, DesasignaIndirectoBloques
  <2>11. CASE DesasignaDirecto
    BY <2>11, DesasignaDirectoBloques
  <2>12. CASE AbreFcb
    BY <2>12, AbreFcbBloques
  <2>13. CASE CierraFcb
    BY <2>13, CierraFcbBloques
  <2>14. CASE EscribeTramo
    BY <2>14, EscribeTramoBloques
  <2>15. CASE Responde
    BY <2>15, RespondeBloques
  <2>16. CASE Caida
    BY <2>16, CaidaBloques
  <2>17. QED
    BY <1>2, <2>1, <2>2, <2>3, <2>4, <2>5, <2>6, <2>7, <2>8, <2>9, <2>10, <2>11, <2>12,
       <2>13, <2>14, <2>15, <2>16 DEF Next
<1>4. QED
  BY <1>1, <1>2

(* On a disk found in order, until a truncation of Danina or a stop in the *)
(* middle of a reduction, the blocks of the files are as part 2 says: its  *)
(* own but for those of data that the start found shared, and marked but   *)
(* while they are given back.                                              *)
THEOREM BloquesSiempreBien == Spec => []InvBloques
<1>1. Init => InvBloques
  BY InicioBien
<1>2. QED
  BY <1>1, FcbsSiempre, PasoBloques, PTL DEF Spec

-----------------------------------------------------------------------------
(* The properties of the blocks.                                           *)

(* By the FCBs on disk, no block comes to be in two places but those that  *)
(* the last start found so (SinCompartir), for any disk, files, sizes and  *)
(* requests: from a start that finds the disk in order until one of the    *)
(* truncations of Danina or a stop in the middle of a reduction.           *)
THEOREM NadieComparte == Spec => []SinCompartir
<1>1. InvFcbs /\ InvBloques => SinCompartir
  <2> SUFFICES ASSUME InvFcbs, BloquesBien, NEW f \in Legibles, NEW g \in Legibles,
                      NEW i \in DOMAIN BloquesDe(disco[f]),
                      NEW j \in DOMAIN BloquesDe(disco[g]),
                      BloqueDe(disco[f], i) = BloqueDe(disco[g], j)
               PROVE  (f = g /\ i = j) \/ BloqueDe(disco[f], i) \in compartidos
    BY DEF InvBloques, SinCompartir
  <2>1. f \in Archivos /\ g \in Archivos /\ Legible(f) /\ Legible(g)
    BY DEF Legibles
  <2>2. /\ i \in 1 .. Largo(K(f)) /\ j \in 1 .. Largo(K(g))
        /\ \A h, l : BloqueDe(disco[h], l)
                       = BloqueN(bloques, disco[h].directo, disco[h].indirecto, l)
    BY ListaDeBloques DEF K, InvFcbs, TipoFS
  <2>3. BloqueN(bloques, disco[f].directo, disco[f].indirecto, i)
             = BloqueN(bloques, disco[g].directo, disco[g].indirecto, j)
    BY <2>2
  <2>4. CASE f = g
    <3>1. Sana(bloques, disco[f].directo, disco[f].indirecto, K(f))
      BY <2>1 DEF BloquesBien, Sanos
    <3>2. i \in 1 .. Largo(K(f)) /\ j \in 1 .. Largo(K(f))
          /\ BloqueN(bloques, disco[f].directo, disco[f].indirecto, i)
               = BloqueN(bloques, disco[f].directo, disco[f].indirecto, j)
      BY <2>2, <2>3, <2>4
    <3>3. i = j \/ BloqueN(bloques, disco[f].directo, disco[f].indirecto, i) \in compartidos
      BY <3>1, <3>2 DEF Sana
    <3>4. QED
      BY <2>2, <2>4, <3>3
  <2>5. CASE f # g
    <3>1. Ajenas(bloques, disco[f].directo, disco[f].indirecto, K(f),
                 disco[g].directo, disco[g].indirecto, K(g))
      BY <2>1, <2>5 DEF BloquesBien, Separados
    <3>2. BloqueN(bloques, disco[f].directo, disco[f].indirecto, i) \in compartidos
      BY <2>2, <2>3, <3>1 DEF Ajenas
    <3>3. QED
      BY <2>2, <3>2
  <2>6. QED
    BY <2>4, <2>5
<1>2. QED
  BY <1>1, FcbsSiempre, BloquesSiempreBien, PTL

(* Between requests every block that the FCBs reach is marked              *)
(* (BloquesOcupados): a growth, which only takes blocks that are not,      *)
(* takes none of a file. From a start that finds it so, until one of the   *)
(* truncations of Danina or a stop in the middle of a reduction.           *)
THEOREM SiempreOcupados == Spec => []BloquesOcupados
<1>1. InvFcbs /\ InvBloques => BloquesOcupados
  <2> SUFFICES ASSUME InvFcbs, BloquesBien, op.paso \in {"libre", "responde"},
                      NEW f \in Legibles, NEW j \in DOMAIN BloquesDe(disco[f])
               PROVE  BloquesDe(disco[f])[j] \in bitmap
    BY DEF InvBloques, BloquesOcupados, ToSet
  <2>1. f \in Archivos /\ Legible(f) /\ bloques \in [Unidades -> Int]
    BY DEF Legibles, InvFcbs, TipoFS
  <2>2. /\ j \in 1 .. Largo(K(f))
        /\ BloquesDe(disco[f])[j] = BloqueN(bloques, disco[f].directo, disco[f].indirecto, j)
    BY <2>1, ListaDeBloques DEF K
  <2>3. Marcada(bloques, disco[f].directo, disco[f].indirecto, K(f), bitmap)
    BY <2>1 DEF BloquesBien, Ocupados, Liberando
  <2>4. QED
    BY <2>2, <2>3 DEF Marcada
<1>2. QED
  BY <1>1, FcbsSiempre, BloquesSiempreBien, PTL

(* When F_WRITE answers on a file with no block twice, it holds the data   *)
(* at the pointer, in order across its blocks, and what it held elsewhere  *)
(* (EscrituraFiel): from a start that finds the disk in order, until one   *)
(* of the truncations of Danina or a stop in the middle of a reduction.    *)
THEOREM EscrituraSiempreFiel == Spec => []EscrituraFiel
<1>1. InvFcbs /\ InvBloques => EscrituraFiel
  <2> SUFFICES ASSUME InvFcbs, BloquesBien, op.paso = "responde", op.tipo = "F_WRITE",
                      IsInjective(BloquesDe(Fcb))
               PROVE  Contenido(Fcb) = op.esperado
    BY DEF InvBloques, EscrituraFiel, Fcb
  <2>11. SinRepetir(Fcb)
    <3>1. /\ DOMAIN BloquesDe(Fcb) = 1 .. Largo(HaciaArriba(Fcb.tamanio))
          /\ \A j \in 1 .. Largo(HaciaArriba(Fcb.tamanio)) :
               BloquesDe(Fcb)[j] = BloqueN(bloques, Fcb.directo, Fcb.indirecto, j)
      BY ListaDeBloques DEF InvFcbs, TipoFS
    <3>2. \A i, j \in DOMAIN BloquesDe(Fcb) : BloquesDe(Fcb)[i] = BloquesDe(Fcb)[j] => i = j
      BY DEF IsInjective
    <3>3. QED
      BY <3>1, <3>2 DEF SinRepetir
  <2>1. EsEscritura(op)
    BY DEF InvFcbs, TipoFS, TipoOp, EsPedido, EsLectura, EnReposo
  <2>2. op.escritos = op.total /\ op.total \in Nat
    BY <2>1 DEF EsEscritura
  <2>3. EnEscribe
    BY DEF BloquesBien
  <2>4. PICK p \in 0 .. Fcb.tamanio :
          \A i \in 0 .. Fcb.tamanio - 1 :
            i < p + op.escritos \/ i >= p + op.total =>
              op.esperado[i] = ValorEn(bloques, Fcb.directo, Fcb.indirecto, i)
    BY <2>3, <2>11 DEF EnEscribe
  <2>5. \A i \in 0 .. Fcb.tamanio - 1 :
          op.esperado[i] = ValorEn(bloques, Fcb.directo, Fcb.indirecto, i)
    <3> TAKE i \in 0 .. Fcb.tamanio - 1
    <3>1. PICK fin \in Int : fin = p + op.total
      BY <2>2
    <3>2. i < fin \/ i >= fin
      BY <3>1
    <3>3. QED
      BY <2>2, <2>4, <3>1, <3>2
  <2>6. \A i \in 0 .. Fcb.tamanio - 1 : op.esperado[i] = Contenido(Fcb)[i]
    BY <2>5, ContenidoEs
  <2>7. op.esperado = [i \in 0 .. Fcb.tamanio - 1 |-> op.esperado[i]]
    BY <2>3 DEF EnEscribe
  <2>8. Contenido(Fcb) = [i \in 0 .. Fcb.tamanio - 1 |-> Contenido(Fcb)[i]]
    BY ContenidoEs
  <2>9. [i \in 0 .. Fcb.tamanio - 1 |-> op.esperado[i]]
          = [i \in 0 .. Fcb.tamanio - 1 |-> Contenido(Fcb)[i]]
    BY <2>6
  <2>10. QED
    BY <2>7, <2>8, <2>9
<1>2. QED
  BY <1>1, FcbsSiempre, BloquesSiempreBien, PTL

(* What one file holds when only a block that is none of its own changes,  *)
(* or one of those that the start found shared.                            *)
LEMMA AjenoIntacto ==
  ASSUME InvFcbs, BloquesBien, NEW f \in Archivos, Legible(f), disco'[f] = disco[f],
         NEW b \in Int, SoloEnBloque(bloques, bloques', b),
         K(f) >= 2 => disco[f].indirecto # b,
         \A n \in 0 .. K(f) - 1 :
           BloqueDeDatos(bloques, disco[f].directo, disco[f].indirecto, n) = b =>
             b \in compartidos,
         NEW i \in 0 .. disco[f].tamanio - 1, BloqueDelDato(disco[f], i) \notin compartidos
  PROVE  (Contenido(disco[f])[i])' = Contenido(disco[f])[i]
<1> DEFINE d == disco[f].directo
           e == disco[f].indirecto
           t == disco[f].tamanio
<1>1. K(f) \in Nat /\ t \in Nat /\ Sana(bloques, d, e, K(f)) /\ K(f) = HaciaArriba(t)
  BY EnElDisco DEF BloquesBien, Sanos, K
<1>2. ValorEn(bloques', d, e, i) = ValorEn(bloques, d, e, i)
  <2>1. i \in Nat /\ i \div SIZE_BLOQUE < K(f)
    <3>1. \A j \in 0 .. t - 1 : j \div SIZE_BLOQUE < HaciaArriba(t)
      BY <1>1, Redondeo
    <3>2. QED
      BY <1>1, <3>1
  <2>2. BloqueDeDatos(bloques, d, e, i \div SIZE_BLOQUE) # b
    <3>1. i \div SIZE_BLOQUE \in 0 .. K(f) - 1
      BY <1>1, <2>1, UnidadDelArchivo
    <3>2. BloqueDeDatos(bloques, d, e, i \div SIZE_BLOQUE) \notin compartidos
      BY ContenidoEs
    <3>3. QED
      BY <3>1, <3>2
  <2>3. QED
    BY <1>1, <2>1, <2>2, DatosIntactos
<1>3. Contenido(disco[f])[i] = ValorEn(bloques, d, e, i)
  BY ContenidoEs
<1>4. (Contenido(disco[f])[i])' = ValorEn(bloques', d, e, i)
  BY DEF Contenido, BloqueDelDato, ValorEn, BloqueDeDatos, UnidadEn, PunteroEn, Unidad,
         LeerNPuntero
<1>5. QED
  BY <1>2, <1>3, <1>4

(* No step of a request changes the FCB on disk of a file it does not      *)
(* serve, nor its contents, but for the units in blocks that the last      *)
(* start found shared (AjenosIntactos): neither the data of                *)
(* escribir_archivo nor the pointers of asignar_bloques land on blocks of  *)
(* others. From a start that finds the disk in order, until one of the     *)
(* truncations of Danina or a stop in the middle of a reduction.           *)
THEOREM AjenosSiempreIntactos == Spec => AjenosIntactos
<1> DEFINE Paso == ~danio' /\ op.paso # "libre" =>
             \A f \in Legibles \ {op.archivo} :
               /\ disco'[f] = disco[f]
               /\ \A i \in 0 .. disco[f].tamanio - 1 :
                    BloqueDelDato(disco[f], i) \notin compartidos =>
                      (Contenido(disco[f])[i])' = Contenido(disco[f])[i]
<1>1. InvFcbs /\ InvBloques /\ [Next]_vars => Paso
  <2> SUFFICES ASSUME InvFcbs, BloquesBien, [Next]_vars, op.paso # "libre",
                      NEW f \in Archivos, Legible(f), f # op.archivo
               PROVE  /\ disco'[f] = disco[f]
                      /\ \A i \in 0 .. disco[f].tamanio - 1 :
                           BloqueDelDato(disco[f], i) \notin compartidos =>
                             (Contenido(disco[f])[i])' = Contenido(disco[f])[i]
    <3>1. ASSUME InvFcbs, op.paso # "libre" PROVE ~Arranca
      BY <3>1 DEF Arranca, InvFcbs, TipoFS, EnReposo
    <3>2. QED
      BY <3>1, DanioQueda DEF InvBloques, Legibles
  <2>1. K(f) \in Nat /\ Sana(bloques, disco[f].directo, disco[f].indirecto, K(f))
    BY EnElDisco DEF BloquesBien, Sanos
  <2> DEFINE Intacto == \A i \in 0 .. disco[f].tamanio - 1 :
                          BloqueDelDato(disco[f], i) \notin compartidos =>
                            (Contenido(disco[f])[i])' = Contenido(disco[f])[i]
  <2>2. ASSUME UNCHANGED bloques, disco'[f] = disco[f] PROVE Intacto
    BY <2>2 DEF Contenido, BloqueDelDato, Unidad, LeerNPuntero
  <2>3. ASSUME disco'[f] = disco[f], NEW b \in Int, SoloEnBloque(bloques, bloques', b),
               K(f) >= 2 => disco[f].indirecto # b,
               \A n \in 0 .. K(f) - 1 :
                 BloqueDeDatos(bloques, disco[f].directo, disco[f].indirecto, n) = b =>
                   b \in compartidos
        PROVE  Intacto
    BY <2>3, AjenoIntacto
  <2> HIDE DEF Intacto
  <2>4. CASE CierraBloques
    <3>1. /\ op.archivo \in Archivos /\ Legible(op.archivo) /\ DelDisco(op.archivo)
          /\ K(op.archivo) \in Nat /\ K(op.archivo) >= 2
          /\ Fcb.indirecto \in Bloques /\ disco[op.archivo].indirecto = Fcb.indirecto
          /\ SoloEnBloque(bloques, bloques', Fcb.indirecto)
      BY <2>4, PunterosNuevos DEF DelDisco, Fcb
    <3>2. Ajenas(bloques, disco[f].directo, disco[f].indirecto, K(f),
                 disco[op.archivo].directo, disco[op.archivo].indirecto, K(op.archivo))
      BY <3>1 DEF BloquesBien, Separados
    <3>3. /\ 2 \in 1 .. Largo(K(op.archivo))
          /\ BloqueN(bloques, disco[op.archivo].directo, disco[op.archivo].indirecto, 2)
               = Fcb.indirecto
      BY <3>1 DEF Largo, BloqueN
    <3>9. Fcb.indirecto \notin compartidos
      BY <3>1, BloquesPropios DEF BloquesBien, Sanos
    <3>4. \A j \in 1 .. Largo(K(f)) :
            BloqueN(bloques, disco[f].directo, disco[f].indirecto, j) # Fcb.indirecto
      BY <3>2, <3>3, <3>9 DEF Ajenas
    <3>5. K(f) >= 2 => disco[f].indirecto # Fcb.indirecto
      <4>1. K(f) >= 2 => 2 \in 1 .. Largo(K(f))
        BY <2>1 DEF Largo
      <4>2. BloqueN(bloques, disco[f].directo, disco[f].indirecto, 2) = disco[f].indirecto
        BY DEF BloqueN
      <4>3. QED
        BY <3>4, <4>1, <4>2
    <3>6. \A n \in 0 .. K(f) - 1 :
            BloqueDeDatos(bloques, disco[f].directo, disco[f].indirecto, n) # Fcb.indirecto
      BY <2>1, <3>4, BloquesPropios
    <3>7. disco'[f] = disco[f] /\ Fcb.indirecto \in Int
      BY <2>4, <3>1 DEF CierraBloques, Bloques
    <3>8. QED
      BY <2>3, <3>1, <3>5, <3>6, <3>7 DEF Intacto
  <2>5. CASE EscribeTramo
    <3>1. /\ BloqueDelTramo \in Bloques /\ SoloEnBloque(bloques, bloques', BloqueDelTramo)
          /\ K(f) >= 2 => disco[f].indirecto # BloqueDelTramo
      BY <2>5, TramoEnSuBloque
    <3>2. \A n \in 0 .. K(f) - 1 :
            BloqueDeDatos(bloques, disco[f].directo, disco[f].indirecto, n) = BloqueDelTramo =>
              BloqueDelTramo \in compartidos
      BY <2>5, TramoEnSuBloque
    <3>3. disco'[f] = disco[f] /\ BloqueDelTramo \in Int
      BY <2>5, <3>1 DEF EscribeTramo, Bloques
    <3>4. QED
      BY <2>3, <3>1, <3>2, <3>3 DEF Intacto
  <2>6. CASE AbreFcb
    <3>1. UNCHANGED bloques /\ disco'[f] = disco[f]
      BY <2>6, AbreFcbFcbs DEF AbreFcb
    <3>2. QED
      BY <2>2, <3>1 DEF Intacto
  <2>7. CASE CierraFcb
    <3>1. UNCHANGED bloques /\ disco'[f] = disco[f]
      BY <2>7, CierraFcbFcbs DEF CierraFcb
    <3>2. QED
      BY <2>2, <3>1 DEF Intacto
  <2>8. CASE \/ AsignaPunteroDirecto \/ AsignaPunteroIndirecto \/ AsignaBloque
             \/ DesasignaUltimoBloque \/ DesasignaIndirecto \/ DesasignaDirecto
             \/ Responde \/ Caida \/ Arranca \/ UNCHANGED vars
    <3>1. UNCHANGED <<bloques, disco>>
      BY <2>8 DEF AsignaPunteroDirecto, AsignaPunteroIndirecto, AsignaBloque,
                  DesasignaUltimoBloque, DesasignaIndirecto, DesasignaDirecto,
                  Responde, Caida, Arranca, vars, historia
    <3>2. QED
      BY <2>2, <3>1 DEF Intacto
  <2>9. ASSUME NEW g \in Archivos,
               \/ Abrir(g) \/ CrearArchivo(g) \/ TruncarInexistente(g)
               \/ \E n \in Tamanios : Truncar(g, n)
               \/ \E p \in Punteros, n \in Cantidades :
                    LeerArchivo(g, p, n) \/ EscribirArchivo(g, p, n)
        PROVE  FALSE
    <3>1. ASSUME NEW n \in Tamanios, Truncar(g, n) PROVE Recibe
      BY <3>1 DEF Truncar
    <3>2. ASSUME \/ Abrir(g) \/ CrearArchivo(g) \/ TruncarInexistente(g)
                 \/ \E p \in Punteros, n \in Cantidades :
                      LeerArchivo(g, p, n) \/ EscribirArchivo(g, p, n)
          PROVE  Recibe
      BY <3>2 DEF Abrir, CrearArchivo, TruncarInexistente, LeerArchivo, EscribirArchivo
    <3>3. Recibe
      BY <2>9, <3>1, <3>2
    <3>4. QED
      BY <3>3 DEF Recibe, EnReposo
  <2>10. QED
    BY <2>4, <2>5, <2>6, <2>7, <2>8, <2>9 DEF Next
<1>2. QED
  BY <1>1, FcbsSiempre, BloquesSiempreBien, PTL DEF Spec, AjenosIntactos

-----------------------------------------------------------------------------
(* Part 3 is kept.                                                         *)

(* A step of a truncation that leaves the data where the file will have it.*)
LEMMA SigueConservando ==
  ASSUME Conserva, op.paso \in Truncando, op'.paso \in Truncando,
         op'.tipo = op.tipo, op'.archivo = op.archivo, op'.nuevo = op.nuevo,
         op'.esperado = op.esperado,
         op'.paso \in EnCambio =>
           op.paso \in EnCambio /\ disco'[op.archivo] = disco[op.archivo],
         op'.paso = "asigna" => op.paso = "asigna" /\ Fcb'.cantidad = Fcb.cantidad,
         op.tipo = "F_TRUNCATE" =>
           \A i \in DOMAIN op.esperado :
             ValorEn(bloques', Fcb'.directo, Fcb'.indirecto, i)
               = ValorEn(bloques, Fcb.directo, Fcb.indirecto, i)
  PROVE  Conserva'
<1> SUFFICES ASSUME op.tipo = "F_TRUNCATE", NEW i \in DOMAIN op.esperado
             PROVE  /\ i \in Nat /\ i < op'.nuevo
                    /\ op'.esperado[i] = ValorEn(bloques', Fcb'.directo, Fcb'.indirecto, i)
                    /\ op'.paso \in EnCambio => i < disco'[op'.archivo].tamanio
                    /\ op'.paso = "asigna" => i \div SIZE_BLOQUE < Fcb'.cantidad
  <2>1. op'.paso # "responde"
    BY DEF Truncando, EnCambio
  <2>2. QED
    BY <2>1 DEF Conserva
<1>1. /\ i \in Nat /\ i < op.nuevo
      /\ op.esperado[i] = ValorEn(bloques, Fcb.directo, Fcb.indirecto, i)
      /\ op.paso \in EnCambio => i < disco[op.archivo].tamanio
      /\ op.paso = "asigna" => i \div SIZE_BLOQUE < Fcb.cantidad
  BY DEF Conserva
<1>2. QED
  BY <1>1

(* A truncation starts with the data of the file.                          *)
LEMMA TruncarConservando ==
  ASSUME InvFcbs, NEW f \in Archivos, NEW n \in Tamanios, Truncar(f, n)
  PROVE  Conserva'
<1> DEFINE t == fcbs[f].tamanio
           d == fcbs[f].directo
           e == fcbs[f].indirecto
<1>1. /\ Recibe /\ fcbs[f] # Nulo /\ n \in Nat /\ SIZE_BLOQUE \in Nat \ {0}
      /\ UNCHANGED <<bitmap, bloques, disco, fcbs, vivo>>
  BY FileSystemOK DEF Truncar
<1>2. /\ op'.tipo = "F_TRUNCATE" /\ op'.archivo = f /\ op'.nuevo = n
      /\ op'.esperado = Conservado(fcbs[f], n)
      /\ op'.paso # "responde"
  BY <1>1, TruncarPedido
<1>3. t \in Nat /\ disco'[op'.archivo].tamanio = t /\ Fcb' = fcbs[f]
  <2>1. t \in Nat /\ disco[f] = EnDisco(fcbs[f])
    BY <1>1, AlRecibir
  <2>2. disco[f].tamanio = t
    BY <2>1 DEF EnDisco
  <2>3. Fcb' = fcbs[f]
    BY <1>1, <1>2 DEF Fcb
  <2>4. QED
    BY <1>1, <1>2, <2>1, <2>2, <2>3
<1>4. ASSUME NEW i \in DOMAIN Conservado(fcbs[f], n)
      PROVE  /\ i \in Nat /\ i < n /\ i < t
             /\ Conservado(fcbs[f], n)[i] = ValorEn(bloques, d, e, i)
             /\ i \div SIZE_BLOQUE < fcbs[f].cantidad
  <2>1. fcbs[f].cantidad = HaciaArriba(t)
    BY <1>4 DEF Conservado
  <2>2. PICK minimo \in Nat : minimo = Min({n, t}) /\ minimo <= n /\ minimo <= t
    <3>1. Min({n, t}) \in Nat /\ Min({n, t}) <= n /\ Min({n, t}) <= t
      BY <1>1, <1>3, MinimoDeNaturales
    <3>2. QED
      BY <3>1
  <2>3. Conservado(fcbs[f], n) = [j \in 0 .. minimo - 1 |-> Contenido(fcbs[f])[j]]
    BY <2>1, <2>2 DEF Conservado
  <2>4. i \in 0 .. minimo - 1 /\ Conservado(fcbs[f], n)[i] = Contenido(fcbs[f])[i]
    BY <1>4, <2>3
  <2>5. i \in 0 .. t - 1 /\ i \in Nat /\ i < n
    BY <1>1, <1>3, <2>2, <2>4
  <2>6. Contenido(fcbs[f])[i] = ValorEn(bloques, d, e, i)
    BY <2>5, ContenidoEs
  <2>7. i \div SIZE_BLOQUE < HaciaArriba(t)
    BY <1>3, <2>5, Redondeo
  <2>8. QED
    BY <1>3, <2>1, <2>4, <2>5, <2>6, <2>7
<1>5. Fcb'.directo = d /\ Fcb'.indirecto = e /\ bloques' = bloques
      /\ Fcb'.cantidad = fcbs[f].cantidad
  BY <1>1, <1>3
<1> HIDE DEF t, d, e
<1>6. QED
  BY <1>2, <1>3, <1>4, <1>5 DEF Conserva

(* asignar_bloques writes its pointers after those of the data.            *)
LEMMA CierraBloquesConserva ==
  ASSUME InvFcbs, BloquesBien, Conserva, CierraBloques
  PROVE  Conserva'
<1> DEFINE a == op.archivo
           d == Fcb.directo
           e == Fcb.indirecto
           k == K(a)
<1>1. /\ a \in Archivos /\ Legible(a) /\ EsPedido(op) /\ Fcb.cantidad \in Nat
      /\ k \in Nat /\ Fcb.cantidad >= 2 /\ Fcb.cantidad <= k /\ e \in Bloques
      /\ disco[a].directo = d /\ disco[a].indirecto = e
      /\ SoloEnBloque(bloques, bloques', e) /\ Fcb.cantidad - 1 <= SIZE_BLOQUE
      /\ \A i \in 0 .. SIZE_BLOQUE - 1 :
           i < Fcb.cantidad - 1 => PunteroEn(bloques', e, i) = PunteroEn(bloques, e, i)
  <2>1. /\ Fcb.cantidad \in Nat
        /\ Fcb.cantidad - 1 + Len(op.escritos) <= SIZE_BLOQUE
        /\ Len(op.escritos) \in Nat /\ SIZE_BLOQUE \in Nat
    BY PunterosNuevos, FileSystemOK, LenProperties DEF EsPedido
  <2>2. Fcb.cantidad - 1 <= SIZE_BLOQUE
    BY <2>1
  <2>3. \A i \in 0 .. SIZE_BLOQUE - 1 :
           i < Fcb.cantidad - 1 => PunteroEn(bloques', e, i) = PunteroEn(bloques, e, i)
    <3>1. \A i \in 0 .. SIZE_BLOQUE - 1 :
            ~(i >= Fcb.cantidad - 1 /\ i < Fcb.cantidad - 1 + Len(op.escritos)) =>
              PunteroEn(bloques', e, i) = PunteroEn(bloques, e, i)
      BY PunterosNuevos
    <3>2. QED
      BY <2>1, <3>1
  <2>4. QED
    BY <2>2, <2>3, PunterosNuevos DEF DelDisco, Fcb
<1>2. /\ op.paso = "asigna" /\ op'.paso = "abre" /\ op'.tipo = op.tipo
      /\ op'.archivo = a /\ op'.nuevo = op.nuevo /\ op'.esperado = op.esperado
      /\ UNCHANGED <<disco, fcbs>>
  BY <1>1, Siguiendo DEF CierraBloques, Truncando, EnCambio
<1>3. Fcb' = Fcb
  BY <1>2 DEF Fcb
<1>4. Sana(bloques, d, e, k)
  BY <1>1 DEF BloquesBien, Sanos
<1>5. ASSUME op.tipo = "F_TRUNCATE", NEW i \in DOMAIN op.esperado
      PROVE  ValorEn(bloques', d, e, i) = ValorEn(bloques, d, e, i)
  <2>1. i \in Nat /\ i \div SIZE_BLOQUE < Fcb.cantidad
    BY <1>2, <1>5 DEF Conserva
  <2>2. PICK n \in Nat : n = i \div SIZE_BLOQUE
    BY <2>1, Division
  <2>3. n \in 0 .. k - 1 /\ n < Fcb.cantidad /\ i \div SIZE_BLOQUE < k /\ k >= 2
    BY <1>1, <2>1, <2>2
  <2>4. PICK s \in 0 .. SIZE_BLOQUE - 1 : s = i % SIZE_BLOQUE
    BY <2>1, Division
  <2>5. PICK b \in Bloques : b = BloqueDeDatos(bloques, d, e, n) /\ b # e
    BY <1>1, <1>4, <2>3, BloquesPropios
  <2>6. BloqueDeDatos(bloques', d, e, n) = b
    <3>1. CASE n = 0
      BY <2>5, <3>1 DEF BloqueDeDatos
    <3>2. CASE n # 0
      <4>1. n - 1 \in 0 .. SIZE_BLOQUE - 1 /\ n - 1 < Fcb.cantidad - 1
        BY <1>1, <2>2, <2>3, <3>2, FileSystemOK
      <4>2. QED
        BY <1>1, <2>5, <3>2, <4>1 DEF BloqueDeDatos
    <3>3. QED
      BY <3>1, <3>2
  <2>7. bloques'[b * SIZE_BLOQUE + s] = bloques[b * SIZE_BLOQUE + s]
    <3>1. /\ b * SIZE_BLOQUE + s \in Unidades
          /\ ~(b * SIZE_BLOQUE + s >= e * SIZE_BLOQUE
                 /\ b * SIZE_BLOQUE + s < e * SIZE_BLOQUE + SIZE_BLOQUE)
      <4>1. b \in Int /\ e \in Int
        BY <1>1 DEF Bloques
      <4>2. QED
        BY <2>5, <4>1, UnidadDentro, FueraDelBloque
    <3>2. QED
      BY <1>1, <3>1 DEF SoloEnBloque
  <2>8. b * SIZE_BLOQUE + s \in Unidades
    BY UnidadDentro
  <2>9. QED
    BY <2>2, <2>4, <2>5, <2>6, <2>7, <2>8 DEF ValorEn, UnidadEn
<1>6. op.paso \in Truncando /\ op'.paso \in Truncando /\ op.paso \in EnCambio
  BY <1>2 DEF Truncando, EnCambio
<1>7. QED
  BY <1>2, <1>3, <1>5, <1>6, SigueConservando

(* Giving back the block of pointers moves no data: one block is left.     *)
LEMMA DesasignaIndirectoConserva ==
  ASSUME InvFcbs, BloquesBien, Conserva, DesasignaIndirecto
  PROVE  Conserva'
<1>1. /\ op.paso = "desasigna" /\ op.faltan = 0 /\ EsPedido(op) /\ Fcb \in FcbsEnMemoria
      /\ op.archivo \in Archivos
  <2>1. op.paso = "desasigna" /\ op.faltan = 0
    BY DEF DesasignaIndirecto
  <2>2. op.paso \in Truncando /\ TipoFS
    BY <2>1 DEF Truncando, EnCambio, InvFcbs
  <2>3. QED
    BY <2>1, <2>2, EnPedido
<1>2. /\ op'.paso \in {"vacia", "abre"} /\ op'.tipo = op.tipo
      /\ op'.archivo = op.archivo /\ op'.nuevo = op.nuevo /\ op'.esperado = op.esperado
      /\ disco' = disco /\ bloques' = bloques
  BY <1>1, Siguiendo DEF DesasignaIndirecto, Truncando, EnCambio
<1>3. op.paso \in Truncando /\ op'.paso \in Truncando /\ op.paso \in EnCambio
      /\ op'.paso # "asigna"
  BY <1>1, <1>2 DEF Truncando, EnCambio
<1>4. CASE ~(Fcb.cantidad = 1 /\ op.libero)
  <2>1. Fcb' = Fcb
    BY <1>2, <1>4 DEF DesasignaIndirecto, Fcb
  <2>2. QED
    BY <1>2, <1>3, <2>1, SigueConservando
<1>5. CASE Fcb.cantidad = 1 /\ op.libero
  <2>1. Fcb'.directo = Fcb.directo
    <3>1. fcbs' = [fcbs EXCEPT ![op.archivo] = [Fcb EXCEPT !.indirecto = 0]]
      BY <1>5 DEF DesasignaIndirecto, CambiaFcb
    <3>2. fcbs \in [Archivos -> {Nulo} \union FcbsEnMemoria]
      BY DEF InvFcbs, TipoFS
    <3>3. Fcb' = [Fcb EXCEPT !.indirecto = 0]
      BY <1>1, <1>2, <3>1, <3>2 DEF Fcb
    <3>4. QED
      BY <1>1, <3>3 DEF FcbsEnMemoria
  <2>2. ASSUME op.tipo = "F_TRUNCATE", NEW i \in DOMAIN op.esperado
        PROVE  i \div SIZE_BLOQUE = 0
    <3>1. i \in Nat /\ i < op.nuevo /\ op.nuevo \in Nat
      BY <1>1, <2>2 DEF Conserva, EsPedido
    <3>2. Restan(op.nuevo) = 1
      <4>1. Fcb.cantidad = op.faltan + Restan(op.nuevo) /\ Restan(op.nuevo) \in Nat
        BY <1>1, <3>1, Redondeo DEF BloquesBien, EnDesasigna, Restan
      <4>2. QED
        BY <1>1, <1>5, <4>1
    <3>3. HaciaArriba(op.nuevo) = 1
      BY <3>1, <3>2 DEF Restan
    <3>4. i \in 0 .. op.nuevo - 1
      BY <3>1
    <3>5. i \div SIZE_BLOQUE < 1
      BY <3>1, <3>3, <3>4, Redondeo
    <3>6. PICK n \in Nat : n = i \div SIZE_BLOQUE
      BY <3>1, Division
    <3>7. QED
      BY <3>5, <3>6
  <2>3. op.tipo = "F_TRUNCATE" =>
          \A i \in DOMAIN op.esperado :
            ValorEn(bloques', Fcb'.directo, Fcb'.indirecto, i)
              = ValorEn(bloques, Fcb.directo, Fcb.indirecto, i)
    BY <1>2, <2>1, <2>2 DEF ValorEn, BloqueDeDatos
  <2>4. QED
    BY <1>2, <1>3, <2>3, SigueConservando
<1>6. QED
  BY <1>4, <1>5

(* The other steps that free blocks, and the one that empties the FCB file *)
(* and sets the size.                                                      *)
LEMMA LiberaConserva ==
  ASSUME InvFcbs, BloquesBien, Conserva,
         DesasignaUltimoBloque \/ DesasignaDirecto \/ AbreFcb
  PROVE  Conserva'
<1>1. op.paso \in {"desasigna", "vacia", "abre"} /\ UNCHANGED bloques
  BY DEF DesasignaUltimoBloque, DesasignaDirecto, AbreFcb
<1>2. op.paso \in Truncando /\ op.paso \in EnCambio /\ TipoFS
  BY <1>1 DEF Truncando, EnCambio, InvFcbs
<1>3. /\ EsPedido(op) /\ op.archivo \in Archivos /\ Fcb \in FcbsEnMemoria
      /\ fcbs \in [Archivos -> {Nulo} \union FcbsEnMemoria]
  BY <1>2, EnPedido DEF TipoFS
<1>4. CASE DesasignaUltimoBloque
  <2>1. /\ op.paso = "desasigna" /\ op.faltan > 0 /\ disco' = disco
        /\ op' = [op EXCEPT !.faltan = @ - 1, !.libero = TRUE]
        /\ fcbs' = [fcbs EXCEPT ![op.archivo] =
                      [Fcb EXCEPT !.cantidad = @ - 1, !.tamanio = @ - SIZE_BLOQUE]]
    BY <1>4 DEF DesasignaUltimoBloque, CambiaFcb
  <2>2. /\ op'.paso = op.paso /\ op'.tipo = op.tipo /\ op'.archivo = op.archivo
        /\ op'.nuevo = op.nuevo /\ op'.esperado = op.esperado
    BY <1>3, <2>1, TurnoQueLibera
  <2>3. Fcb' = [Fcb EXCEPT !.cantidad = @ - 1, !.tamanio = @ - SIZE_BLOQUE]
    BY <1>3, <2>1, <2>2 DEF Fcb
  <2>4. Fcb'.directo = Fcb.directo /\ Fcb'.indirecto = Fcb.indirecto
    BY <1>3, <2>3 DEF FcbsEnMemoria
  <2>5. QED
    BY <1>1, <1>2, <2>1, <2>2, <2>4, SigueConservando
<1>5. CASE DesasignaDirecto
  <2>1. op.paso = "vacia" /\ op' = [op EXCEPT !.paso = "abre", !.libero = TRUE]
        /\ disco' = disco
    BY <1>5 DEF DesasignaDirecto
  <2>2. /\ op'.paso = "abre" /\ op'.tipo = op.tipo /\ op'.archivo = op.archivo
        /\ op'.nuevo = op.nuevo /\ op'.esperado = op.esperado
    BY <1>3, <2>1, PedidoVaciado
  <2>3. op.nuevo = 0
    BY <2>1 DEF BloquesBien, EnVacia
  <2>4. op.tipo = "F_TRUNCATE" => \A i \in DOMAIN op.esperado : FALSE
    BY <2>3 DEF Conserva
  <2>5. op'.paso \in Truncando /\ op'.paso # "asigna"
    BY <2>2 DEF Truncando, EnCambio
  <2>6. QED
    BY <1>2, <2>1, <2>2, <2>4, <2>5, SigueConservando
<1>6. CASE AbreFcb
  <2>1. /\ op.paso = "abre" /\ op'.paso = "cierra" /\ op'.archivo = op.archivo
        /\ fcbs'[op.archivo] = [Fcb EXCEPT !.tamanio = op.nuevo]
    BY <1>6, AbreFcbFcbs
  <2>2. op'.tipo = op.tipo /\ op'.nuevo = op.nuevo /\ op'.esperado = op.esperado
    BY <1>3, <1>6, Siguiendo DEF AbreFcb, Truncando
  <2>3. Fcb'.directo = Fcb.directo /\ Fcb'.indirecto = Fcb.indirecto
    BY <1>3, <2>1 DEF Fcb, FcbsEnMemoria
  <2>4. op'.paso \in Truncando /\ op'.paso \notin EnCambio /\ op'.paso # "asigna"
    BY <2>1 DEF Truncando, EnCambio
  <2>5. QED
    BY <1>1, <1>2, <2>1, <2>2, <2>3, <2>4, SigueConservando
<1>7. QED
  BY <1>4, <1>5, <1>6

(* The answer of a truncation: the size is the one that was asked.         *)
LEMMA CierraFcbConserva ==
  ASSUME InvFcbs, BloquesBien, Conserva, CierraFcb
  PROVE  Conserva'
<1>1. /\ op.paso = "cierra" /\ op'.paso = "responde" /\ op'.archivo = op.archivo
      /\ fcbs' = fcbs /\ bloques' = bloques /\ EsPedido(op)
  BY CierraFcbFcbs DEF CierraFcb
<1>2. op'.tipo = op.tipo /\ op'.nuevo = op.nuevo /\ op'.esperado = op.esperado
  BY <1>1, Siguiendo DEF CierraFcb
<1>3. Fcb' = Fcb /\ Fcb.tamanio = op.nuevo
  BY <1>1 DEF Fcb, BloquesBien, EnAbre
<1>4. op'.paso \notin EnCambio /\ op'.paso # "asigna"
  BY <1>1 DEF EnCambio
<1>5. QED
  BY <1>1, <1>2, <1>3, <1>4 DEF Conserva

(* Part 3 of the invariant is kept by every step while there is no         *)
(* damage.                                                                 *)
LEMMA PasoConserva ==
  InvFcbs /\ InvBloques /\ InvConserva /\ [Next]_vars => InvConserva'
<1> SUFFICES ASSUME InvFcbs, InvBloques, InvConserva, [Next]_vars, ~danio',
                    op'.paso \in Truncando \union {"responde"}
             PROVE  Conserva'
  BY DEF InvConserva
<1>1. ~danio /\ BloquesBien
  <2>1. ~Arranca
    BY DEF Arranca, InvFcbs, TipoFS, EnReposo, Truncando, EnCambio
  <2>2. QED
    BY <2>1, DanioQueda DEF InvBloques
<1>2. op.paso \in Truncando \union {"responde"} => Conserva
  BY <1>1 DEF InvConserva
<1>3. CASE UNCHANGED vars
  <2>1. UNCHANGED <<bloques, disco, fcbs, op>>
    BY <1>3 DEF vars, historia
  <2>2. QED
    BY <1>2, <2>1 DEF Conserva, Fcb
<1>4. ASSUME NEW f \in Archivos, Abrir(f) \/ CrearArchivo(f) \/ TruncarInexistente(f)
      PROVE  Conserva'
  <2>1. op'.tipo # "F_TRUNCATE"
    BY <1>4 DEF Abrir, CrearArchivo, TruncarInexistente, Pedido
  <2>2. QED
    BY <2>1 DEF Conserva
<1>5. ASSUME NEW f \in Archivos, NEW p \in Punteros, NEW n \in Cantidades,
             LeerArchivo(f, p, n) \/ EscribirArchivo(f, p, n)
      PROVE  Conserva'
  <2>1. op'.tipo # "F_TRUNCATE"
    BY <1>5 DEF LeerArchivo, EscribirArchivo
  <2>2. QED
    BY <2>1 DEF Conserva
<1>6. ASSUME NEW f \in Archivos, NEW n \in Tamanios, Truncar(f, n) PROVE Conserva'
  BY <1>6, TruncarConservando
<1>7. CASE AsignaBloque
  <2>1. /\ op.paso = "asigna" /\ op.faltan > 0
        /\ op' = [op EXCEPT !.faltan = @ - 1, !.escritos = Append(@, BloqueLibre)]
        /\ UNCHANGED <<bloques, disco, fcbs>>
    BY <1>7 DEF AsignaBloque
  <2>2. op.paso \in Truncando /\ op.paso \in EnCambio /\ TipoFS
    BY <2>1 DEF Truncando, EnCambio, InvFcbs
  <2>3. EsPedido(op)
    BY <2>2, EnPedido
  <2>4. /\ op'.paso = op.paso /\ op'.tipo = op.tipo /\ op'.archivo = op.archivo
        /\ op'.nuevo = op.nuevo /\ op'.esperado = op.esperado
    BY <2>1, <2>3, TurnoQueAsigna
  <2>5. Fcb' = Fcb
    BY <2>1, <2>4 DEF Fcb
  <2>6. QED
    BY <1>2, <2>1, <2>2, <2>4, <2>5, SigueConservando
<1>8. CASE CierraBloques
  <2>1. op.paso \in Truncando
    BY <1>8 DEF CierraBloques, Truncando, EnCambio
  <2>2. QED
    BY <1>1, <1>2, <1>8, <2>1, CierraBloquesConserva
<1>9. CASE DesasignaIndirecto
  <2>1. op.paso \in Truncando
    BY <1>9 DEF DesasignaIndirecto, Truncando, EnCambio
  <2>2. QED
    BY <1>1, <1>2, <1>9, <2>1, DesasignaIndirectoConserva
<1>10. CASE DesasignaUltimoBloque \/ DesasignaDirecto \/ AbreFcb
  <2>1. op.paso \in Truncando
    BY <1>10 DEF DesasignaUltimoBloque, DesasignaDirecto, AbreFcb, Truncando, EnCambio
  <2>2. QED
    BY <1>1, <1>2, <1>10, <2>1, LiberaConserva
<1>11. CASE CierraFcb
  <2>1. op.paso \in Truncando
    BY <1>11 DEF CierraFcb, Truncando, EnCambio
  <2>2. QED
    BY <1>1, <1>2, <1>11, <2>1, CierraFcbConserva
<1>12. CASE EscribeTramo
  <2>1. op'.tipo = "F_WRITE"
    BY <1>12, TramoFcbs
  <2>2. QED
    BY <2>1 DEF Conserva
<1>13. CASE Responde \/ Caida \/ Arranca
  <2>1. op' = EnReposo
    BY <1>13, ArrancaFcbs DEF Responde, Caida
  <2>2. QED
    BY <2>1 DEF EnReposo, Truncando, EnCambio
<1>14. CASE AsignaPunteroDirecto \/ AsignaPunteroIndirecto
  BY <1>1, <1>14 DEF BloquesBien, AsignaPunteroDirecto, AsignaPunteroIndirecto
<1>15. QED
  BY <1>3, <1>4, <1>5, <1>6, <1>7, <1>8, <1>9, <1>10, <1>11, <1>12, <1>13, <1>14 DEF Next

(* When F_TRUNCATE answers, the file has the size and, if the count of its *)
(* blocks was right when it was asked, the data that fits in both sizes    *)
(* (TruncarConserva): the pointers that asignar_bloques writes are not     *)
(* over those of the data, and desasignar_bloques gives back only blocks   *)
(* past the new size. From a start that finds the disk in order, until one *)
(* of the truncations of Danina or a stop in the middle of a reduction.    *)
THEOREM TruncarSiempreConserva == Spec => []TruncarConserva
<1>1. Init => InvConserva
  BY DEF Init, InvConserva, EnReposo, Truncando, EnCambio
<1>2. InvFcbs /\ InvConserva => TruncarConserva
  <2> SUFFICES ASSUME InvFcbs, InvConserva, ~danio, op.paso = "responde", op.tipo = "F_TRUNCATE"
               PROVE  /\ Fcb.tamanio = op.nuevo
                      /\ \A i \in DOMAIN op.esperado : Contenido(Fcb)[i] = op.esperado[i]
    BY DEF TruncarConserva, Fcb
  <2>1. Conserva /\ Fcb.tamanio = op.nuevo
    BY DEF InvConserva, Conserva
  <2>2. ASSUME NEW i \in DOMAIN op.esperado
        PROVE  Contenido(Fcb)[i] = op.esperado[i]
    <3>1. /\ i \in Nat /\ i < Fcb.tamanio
          /\ op.esperado[i] = ValorEn(bloques, Fcb.directo, Fcb.indirecto, i)
      BY <2>1 DEF Conserva
    <3>2. op.nuevo \in Nat
      BY DEF InvFcbs, TipoFS, TipoOp, EsPedido, EsLectura, EsEscritura, EnReposo
    <3>3. i \in 0 .. Fcb.tamanio - 1
      BY <2>1, <3>1, <3>2
    <3>4. QED
      BY <3>1, <3>3, ContenidoEs
  <2>3. QED
    BY <2>1, <2>2
<1>3. QED
  BY <1>1, <1>2, FcbsSiempre, BloquesSiempreBien, PasoConserva, PTL DEF Spec
=============================================================================
