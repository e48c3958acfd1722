------------------------------- MODULE Huecos -------------------------------
(***************************************************************************)
(* The list of holes of the memory module (lista_huecos in                 *)
(* src/modules/memoria/src/memoria.c) and the algorithms on it: choosing a *)
(* hole, splitting it, freeing and merging, and compacting. A hole is a    *)
(* piece of memoria_principal, occupied or free; addresses are offsets     *)
(* from memoria_principal. Index 1 is the hole of segment 0, shared by all *)
(* processes (index 0 of the list in the code).                            *)
(***************************************************************************)
EXTENDS Integers, SequencesExt

CONSTANTS
  TamMemoria,     (* TAM_MEMORIA          *)
  TamSegmento0,   (* TAM_SEGMENTO_0       *)
  Asignacion,     (* ALGORITMO_ASIGNACION *)
  Nulo            (* a NULL direccionBase *)

ASSUME HuecosOK ==
  /\ TamMemoria \in Nat /\ TamSegmento0 \in Nat \ {0}
  /\ TamSegmento0 < TamMemoria
  /\ Asignacion \in {"FIRST", "BEST", "WORST"}
  /\ Nulo \notin Int

Hueco(base, tamanio, libre) == [base |-> base, tamanio |-> tamanio, libre |-> libre]

(* inicializar_memoria: the hole of segment 0 and one free hole.           *)
HuecosIniciales ==
  <<Hueco(0, TamSegmento0, FALSE),
    Hueco(TamSegmento0, TamMemoria - TamSegmento0, TRUE)>>

-----------------------------------------------------------------------------
(* get_hueco_con_first_fit, get_hueco_con_best_fit and                     *)
(* get_hueco_con_worst_fit: the first candidate, the first of the smallest *)
(* or the first of the biggest; 0 when none is big enough.                 *)
Candidatos(l, t) == {i \in DOMAIN l : l[i].libre /\ l[i].tamanio >= t}

Mejores(l, t) ==
  CASE Asignacion = "FIRST" -> Candidatos(l, t)
    [] Asignacion = "BEST"  -> {i \in Candidatos(l, t) :
         \A j \in Candidatos(l, t) : l[i].tamanio <= l[j].tamanio}
    [] Asignacion = "WORST" -> {i \in Candidatos(l, t) :
         \A j \in Candidatos(l, t) : l[i].tamanio >= l[j].tamanio}

HuecoElegido(l, t) == IF Candidatos(l, t) = {} THEN 0 ELSE Min(Mejores(l, t))

(* comprobar_compactacion: the free holes together are big enough.         *)
Libre(l) ==
  FoldLeft(LAMBDA suma, h : IF h.libre THEN suma + h.tamanio ELSE suma, 0, l)

AlcanzaCompactando(l, t) == Libre(l) >= t

(* obtener_indice_de_lista_huecos: the first hole with that base, which    *)
(* need not be the hole the caller has in mind when one has size 0.        *)
IndiceDeBase(l, base) == SelectInSeq(l, LAMBDA h : h.base = base)

(* Faulty variants of Ocupar: the rest does not start behind the segment;  *)
(* the hole is not marked as occupied.                                     *)
OcuparCon(l, i, t, corrido, libre) ==
  LET resto   == Hueco(l[i].base + corrido, l[i].tamanio - t, TRUE)
      partido == [l EXCEPT ![i].tamanio = t, ![i].libre = libre]
  IN  InsertAt(partido, IndiceDeBase(l, l[i].base) + 1, resto)

OcuparSinCorrer(l, i, t) == OcuparCon(l, i, t, 0, FALSE)
OcuparSinMarcar(l, i, t) == OcuparCon(l, i, t, t, TRUE)

(* modificar_lista_huecos: hole i keeps the first t bytes, occupied, and   *)
(* the rest, even if empty, is a free hole inserted behind it.             *)
Ocupar(l, i, t) ==
  LET resto  == Hueco(l[i].base + t, l[i].tamanio - t, TRUE)
      partido == [l EXCEPT ![i].tamanio = t, ![i].libre = FALSE]
  IN  InsertAt(partido, IndiceDeBase(l, l[i].base) + 1, resto)

-----------------------------------------------------------------------------
(* comprobar_consolidacion_huecos_aledanios: hole i absorbs or is absorbed *)
(* by its free neighbours; the hole of segment 0 is never an absorbing     *)
(* left neighbour. Both neighbours are read before anything moves.         *)
UnirConSiguiente(l, i) ==
  RemoveAt([l EXCEPT ![i].tamanio = @ + l[i + 1].tamanio], i + 1)

(* (Faulty variant: the next hole is absorbed even if it is occupied.)     *)
ConsolidarSinMirar(l, i) ==
  LET anterior == i > 2 /\ l[i - 1].libre
      m == IF i < Len(l) THEN UnirConSiguiente(l, i) ELSE l
  IN  IF anterior THEN UnirConSiguiente(m, i - 1) ELSE m

Consolidar(l, i) ==
  LET anterior  == i > 2 /\ l[i - 1].libre
      siguiente == i < Len(l) /\ l[i + 1].libre
      m == IF siguiente THEN UnirConSiguiente(l, i) ELSE l
  IN  IF anterior THEN UnirConSiguiente(m, i - 1) ELSE m

(* Faulty variant: the hole found is not marked as free.                   *)
LiberarSinMarcar(l, base) ==
  LET i == IF base = Nulo THEN 0 ELSE IndiceDeBase(l, base)
  IN  IF i = 0 THEN Consolidar(l, 1) ELSE Consolidar(l, i)

(* The loop of eliminar_segmento: the first hole with the base of the      *)
(* segment is freed and merged. When there is none index_hueco keeps its   *)
(* initial 0, the hole of segment 0.                                       *)
Liberar(l, base) ==
  LET i == IF base = Nulo THEN 0 ELSE IndiceDeBase(l, base)
  IN  IF i = 0 THEN Consolidar(l, 1)
               ELSE Consolidar([l EXCEPT ![i].libre = TRUE], i)

-----------------------------------------------------------------------------
(* compactar, first loop. One turn of the for: c.i is the position it      *)
(* looks at, c.nuevo the free bytes gathered and c.primera the base of the *)
(* first free hole found. Meeting that base again ends the loop.           *)
(* The inner loop removes position j and then advances j, so it only       *)
(* removes every other hole of those that follow.                          *)
QuitarDeLaDerecha(l, i) ==
  LET quedan(k) == k <= i \/ (k - i) % 2 = 0
  IN  FoldLeftDomain(LAMBDA acc, k : IF quedan(k) THEN Append(acc, l[k]) ELSE acc,
                     <<>>, l)

(* Faulty variant: the free bytes are not added up.                        *)
VueltaSinSumar(c) ==
  LET h == c.l[c.i] IN
  IF c.fin \/ c.i > Len(c.l) THEN c
  ELSE IF c.primera = h.base
  THEN [c EXCEPT !.l = QuitarDeLaDerecha([c.l EXCEPT ![c.i].tamanio = c.nuevo], c.i),
                 !.fin = TRUE]
  ELSE IF h.libre
  THEN [c EXCEPT !.l = Append(RemoveAt(c.l, c.i), h),
                 !.nuevo = h.tamanio,
                 !.primera = IF @ = Nulo THEN h.base ELSE @]
  ELSE [c EXCEPT !.i = @ + 1]

(* Faulty variant: the holes gathered at the end are not made one.         *)
VueltaSinJuntar(c) ==
  LET h == c.l[c.i] IN
  IF c.fin \/ c.i > Len(c.l) THEN c
  ELSE IF c.primera = h.base THEN [c EXCEPT !.fin = TRUE]
  ELSE IF h.libre
  THEN [c EXCEPT !.l = Append(RemoveAt(c.l, c.i), h),
                 !.nuevo = @ + h.tamanio,
                 !.primera = IF @ = Nulo THEN h.base ELSE @]
  ELSE [c EXCEPT !.i = @ + 1]

Vuelta(c) ==
  LET h == c.l[c.i] IN
  IF c.fin \/ c.i > Len(c.l) THEN c
  ELSE IF c.primera = h.base
  THEN [c EXCEPT !.l = QuitarDeLaDerecha([c.l EXCEPT ![c.i].tamanio = c.nuevo], c.i),
                 !.fin = TRUE]
  ELSE IF h.libre
  THEN [c EXCEPT !.l = Append(RemoveAt(c.l, c.i), h),
                 !.nuevo = @ + h.tamanio,
                 !.primera = IF @ = Nulo THEN h.base ELSE @]
  ELSE [c EXCEPT !.i = @ + 1]

JuntarLibres(l) ==
  FoldLeftDomain(LAMBDA c, k : Vuelta(c),
           [l |-> l, i |-> 2, nuevo |-> 0, primera |-> Nulo, fin |-> FALSE],
           l \o l).l

(* compactar, second loop: the holes are laid one after the other and, in  *)
(* every table, the first segment (but 0) with the old base of an occupied *)
(* hole gets the new one. base_actual does not advance over a free hole.   *)
MoverSegmento(tabla, vieja, nueva) ==
  LET ks == {k \in DOMAIN tabla : k > 0 /\ tabla[k].base = vieja}
  IN  IF ks = {} THEN tabla ELSE [tabla EXCEPT ![Min(ks)].base = nueva]

Reubicar(c, k) ==
  LET h == c.l[k]
      nueva == c.base + c.tamanio
  IN  [l |-> [c.l EXCEPT ![k].base = nueva],
       tablas |-> IF h.libre THEN c.tablas
                  ELSE [p \in DOMAIN c.tablas |->
                          MoverSegmento(c.tablas[p], h.base, nueva)],
       base |-> IF h.libre THEN c.base ELSE nueva,
       tamanio |-> h.tamanio]

Compactar(l, tablas) ==
  LET juntos == JuntarLibres(l) IN
  FoldLeft(LAMBDA c, k : Reubicar(c, k),
           [l |-> juntos, tablas |-> tablas, base |-> juntos[1].base,
            tamanio |-> juntos[1].tamanio],
           [k \in 1..Len(juntos) - 1 |-> k + 1])
=============================================================================
