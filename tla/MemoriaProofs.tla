---------------------------- MODULE MemoriaProofs ----------------------------
(***************************************************************************)
(* Theorems about Memoria, for every size of the memory, every set of      *)
(* processes and each of the three allocation algorithms.                  *)
(*                                                                         *)
(* The list of holes first: choosing, splitting, freeing and merging; then *)
(* compactar, whose two loops are folds and are unrolled turn by turn; and *)
(* last the invariant on the holes and the tables, with its theorems.      *)
(***************************************************************************)
EXTENDS Memoria, LemasListas, FiniteSetTheorems

-----------------------------------------------------------------------------
(* Lists of holes.                                                         *)
TipoHueco == [base : Nat, tamanio : Nat, libre : BOOLEAN]

Fin(h) == h.base + h.tamanio

(* A hole is what its fields say, and its fields have their types.         *)
LEMMA CamposDeHueco ==
  /\ \A h \in TipoHueco : /\ h.base \in Nat /\ h.tamanio \in Nat /\ h.libre \in BOOLEAN
                          /\ Fin(h) \in Nat
                          /\ h = Hueco(h.base, h.tamanio, h.libre)
  /\ \A b, t \in Nat, x \in BOOLEAN :
       /\ Hueco(b, t, x) \in TipoHueco /\ Hueco(b, t, x).base = b
       /\ Hueco(b, t, x).tamanio = t /\ Hueco(b, t, x).libre = x
  BY DEF TipoHueco, Hueco, Fin

(* A list of holes that tile the memory: the first is occupied, none of    *)
(* those that are is empty, and no two free ones are together.             *)
Sana(l) ==
  /\ Tesela(l) /\ ~l[1].libre
  /\ \A i \in 1..Len(l) : ~l[i].libre => l[i].tamanio > 0
  /\ \A i \in 1..Len(l) - 1 : ~(l[i].libre /\ l[i + 1].libre)

(* Every element of such a list is a hole.                                 *)
LEMMA ListasSonSecuencias ==
  ASSUME NEW l \in Listas
  PROVE  /\ l \in Seq(TipoHueco) /\ Len(l) \in Nat /\ DOMAIN l = 1..Len(l)
         /\ \A i \in 1..Len(l) : /\ l[i] \in TipoHueco /\ l[i].base \in Nat
                                 /\ l[i].tamanio \in Nat /\ l[i].libre \in BOOLEAN
<1>1. l \in Seq(TipoHueco)
  BY DEF Listas, TipoHueco
<1>2. Len(l) \in Nat /\ DOMAIN l = 1..Len(l)
  BY <1>1, LenProperties
<1>3. \A i \in 1..Len(l) : l[i] \in TipoHueco
  BY <1>1, ElementOfSeq
<1>4. QED
  BY <1>1, <1>2, <1>3, CamposDeHueco

(* A hole of a tiling ends before the next ones start.                     *)
LEMMA Orden ==
  ASSUME NEW l \in Listas, Tesela(l), NEW i \in 1..Len(l), NEW j \in 1..Len(l), i < j
  PROVE  l[i].base + l[i].tamanio <= l[j].base
<1> DEFINE T == {m \in i + 1..j : ~(l[i].base + l[i].tamanio <= l[m].base)}
<1>1. SUFFICES ASSUME T # {} PROVE FALSE
  <2>1. j \in i + 1..j
    BY ListasSonSecuencias
  <2>2. QED
    BY <2>1
<1>2. T \subseteq Nat
  BY ListasSonSecuencias
<1>3. PICK m \in T : \A x \in T : m <= x
  BY <1>1, <1>2, Primero
<1>4. m \in i + 1..j /\ ~(l[i].base + l[i].tamanio <= l[m].base)
  OBVIOUS
<1>5. m - 1 \notin T
  <2>1. \A x \in T : m <= x
    BY <1>3
  <2> HIDE DEF T
  <2>2. m \in Nat
    BY <1>2
  <2>3. QED
    BY <2>1, <2>2
<1>6. /\ m - 1 \in i..j /\ m - 1 \in 1..Len(l) - 1 /\ (m - 1) + 1 = m
      /\ m - 1 = i \/ m - 1 \in i + 1..j
  BY <1>4, ListasSonSecuencias
<1>7. l[m].base = l[m - 1].base + l[m - 1].tamanio
  BY <1>6 DEF Tesela
<1>8. l[m - 1].base \in Nat /\ l[m - 1].tamanio \in Nat /\ l[i].base \in Nat /\ l[i].tamanio \in Nat
  BY <1>6, ListasSonSecuencias
<1>9. CASE m - 1 = i
  BY <1>4, <1>7, <1>8, <1>9
<1>10. CASE m - 1 \in i + 1..j
  <2>1. l[i].base + l[i].tamanio <= l[m - 1].base
    BY <1>5, <1>10
  <2>2. QED
    BY <1>4, <1>7, <1>8, <2>1, SMTT(30)
<1>11. QED
  BY <1>6, <1>9, <1>10

(* And inside the memory.                                                  *)
LEMMA DentroDeMemoria ==
  ASSUME NEW l \in Listas, Tesela(l), NEW i \in 1..Len(l)
  PROVE  l[i].base + l[i].tamanio <= TamMemoria
<1>1. CASE i = Len(l)
  BY <1>1, ListasSonSecuencias, HuecosOK DEF Tesela, HuecosOK
<1>2. CASE i < Len(l)
  <2>1. Len(l) \in 1..Len(l) /\ Len(l) \in Nat
    BY ListasSonSecuencias
  <2>2. l[i].base + l[i].tamanio <= l[Len(l)].base
    BY <1>2, <2>1, Orden
  <2>3. l[Len(l)].base + l[Len(l)].tamanio = TamMemoria
    BY DEF Tesela
  <2>4. /\ l[i].base \in Nat /\ l[i].tamanio \in Nat
        /\ l[Len(l)].base \in Nat /\ l[Len(l)].tamanio \in Nat
    BY <2>1, ListasSonSecuencias
  <2>5. QED
    BY <2>2, <2>3, <2>4
<1>3. QED
  BY <1>1, <1>2, ListasSonSecuencias

(* The hole chosen, if any, is free and big enough: first, best and worst  *)
(* fit find one whenever there is one.                                     *)
LEMMA ElegidoBien ==
  ASSUME NEW l \in Listas, NEW t \in Nat
  PROVE  /\ HuecoElegido(l, t) \in Nat
         /\ HuecoElegido(l, t) # 0 =>
              HuecoElegido(l, t) \in {i \in 1..Len(l) : l[i].libre /\ l[i].tamanio >= t}
         /\ (\E i \in 1..Len(l) : l[i].libre /\ l[i].tamanio >= t) =>
              HuecoElegido(l, t) > 0
<1> DEFINE C == {i \in 1..Len(l) : l[i].libre /\ l[i].tamanio >= t}
<1>1. Candidatos(l, t) = C
  BY ListasSonSecuencias DEF Candidatos
<1>2. CASE C = {}
  BY <1>1, <1>2 DEF HuecoElegido
<1>3. CASE C # {}
  <2> DEFINE T == {n \in Nat : \E i \in C : l[i].tamanio = n}
  <2>1. /\ C \subseteq Nat /\ T \subseteq Nat /\ T # {}
        /\ \A i \in C : l[i].tamanio \in T
    BY <1>3, ListasSonSecuencias
  <2>2. PICK m \in Nat : \A i \in 1..Len(l) : l[i].tamanio <= m
    <3>0. PICK f : f = [i \in 1..Len(l) |-> l[i].tamanio]
      OBVIOUS
    <3>1. \A i \in 1..Len(l) : f[i] \in Nat
      BY <3>0, ListasSonSecuencias
    <3>2. Len(l) \in Nat
      BY ListasSonSecuencias
    <3>3. \A i \in 1..Len(l) : f[i] = l[i].tamanio
      BY <3>0
    <3>4. \E m \in Nat : \A i \in 1..Len(l) : f[i] <= m
      BY <3>1, <3>2, Acotada
    <3>5. QED
      BY <3>3, <3>4
  <2>3. \A x \in T : x <= m
    BY <2>2
  <2>4. PICK chico \in T : \A x \in T : chico <= x
    BY <2>1, Primero
  <2>5. PICK grande \in T : \A x \in T : x <= grande
    BY <2>1, <2>3, Ultimo
  <2>6. Mejores(l, t) \subseteq C /\ Mejores(l, t) # {}
    <3>1. CASE Asignacion = "FIRST"
      BY <1>1, <1>3, <3>1 DEF Mejores
    <3>2. CASE Asignacion = "BEST"
      <4>1. PICK i \in C : l[i].tamanio = chico
        OBVIOUS
      <4>2. \A j \in C : l[i].tamanio <= l[j].tamanio
        BY <2>1, <2>4, <4>1
      <4> HIDE DEF C
      <4>3. Mejores(l, t) = {k \in C : \A j \in C : l[k].tamanio <= l[j].tamanio}
        BY <1>1, <3>2 DEF Mejores
      <4>4. QED
        BY <4>2, <4>3
    <3>3. CASE Asignacion = "WORST"
      <4>1. PICK i \in C : l[i].tamanio = grande
        OBVIOUS
      <4>2. \A j \in C : l[j].tamanio <= l[i].tamanio
        BY <2>1, <2>5, <4>1
      <4>3. \A j, k \in C : l[j].tamanio \in Nat /\ l[k].tamanio \in Nat
        BY ListasSonSecuencias
      <4> HIDE DEF C
      <4>4. Mejores(l, t) = {k \in C : \A j \in C : l[k].tamanio >= l[j].tamanio}
        BY <1>1, <3>3 DEF Mejores
      <4>5. QED
        BY <4>2, <4>3, <4>4
    <3>4. QED
      BY <3>1, <3>2, <3>3, HuecosOK DEF HuecosOK
  <2> HIDE DEF C, T
  <2>7. Min(Mejores(l, t)) \in C
    BY <2>1, <2>6, MinimoDeNaturales
  <2>8. HuecoElegido(l, t) = Min(Mejores(l, t))
    BY <1>1, <1>3 DEF HuecoElegido
  <2>9. QED
    BY <2>1, <2>7, <2>8 DEF C
<1>4. QED
  BY <1>2, <1>3

(* The first hole with a base.                                             *)
LEMMA IndiceBien ==
  ASSUME NEW l \in Listas, NEW b
  PROVE  /\ IndiceDeBase(l, b) \in 0..Len(l)
         /\ IndiceDeBase(l, b) # 0 =>
              /\ l[IndiceDeBase(l, b)].base = b
              /\ \A j \in 1..IndiceDeBase(l, b) - 1 : l[j].base # b
         /\ (\E i \in 1..Len(l) : l[i].base = b) => IndiceDeBase(l, b) # 0
<1> DEFINE I == {i \in 1..Len(l) : l[i].base = b}
<1>1. IndiceDeBase(l, b) = IF I # {} THEN Min(I) ELSE 0
  BY DEF IndiceDeBase, SelectInSeq
<1>2. I \subseteq Nat /\ Len(l) \in Nat
  BY ListasSonSecuencias
<1>3. CASE I = {}
  BY <1>1, <1>2, <1>3
<1>4. CASE I # {}
  <2>1. Min(I) \in I /\ \A x \in I : Min(I) <= x
    BY <1>2, <1>4, MinimoDeNaturales
  <2>2. PICK k : k = Min(I) /\ k \in 1..Len(l) /\ l[k].base = b
    BY <2>1
  <2>3. ASSUME NEW j \in 1..k - 1, l[j].base = b PROVE FALSE
    <3>1. j \in I
      BY <1>2, <2>2, <2>3
    <3>2. k <= j
      BY <2>1, <2>2, <3>1
    <3>3. QED
      BY <1>2, <2>2, <3>2
  <2>4. IndiceDeBase(l, b) = k
    BY <1>1, <1>4, <2>2
  <2>5. QED
    BY <1>2, <2>2, <2>3, <2>4
<1>5. QED
  BY <1>3, <1>4

(* The base of a free hole that is not empty is found first in that hole:  *)
(* an empty one before it would be free and next to it.                    *)
LEMMA IndiceDeLibre ==
  ASSUME NEW l \in Listas, Sana(l), NEW i \in 1..Len(l), l[i].libre, l[i].tamanio > 0
  PROVE  IndiceDeBase(l, l[i].base) = i
<1>1. PICK k : k = IndiceDeBase(l, l[i].base)
  OBVIOUS
<1>2. /\ k \in 1..Len(l) /\ l[k].base = l[i].base /\ Len(l) \in Nat
      /\ \A j \in 1..k - 1 : l[j].base # l[i].base
  BY <1>1, IndiceBien, ListasSonSecuencias
<1>3. ~(k > i)
  BY <1>2
<1>4. ASSUME k < i PROVE FALSE
  <2>1. i - 1 \in 1..Len(l) /\ k <= i - 1 /\ i - 1 < i /\ (i - 1) + 1 = i
    BY <1>2, <1>4
  <2>2. l[i - 1].base + l[i - 1].tamanio <= l[i].base
    BY <2>1, Orden DEF Sana
  <2>3. l[k].base <= l[i - 1].base
    <3>1. CASE k = i - 1
      BY <1>2, <2>1, <3>1, ListasSonSecuencias
    <3>2. CASE k # i - 1
      <4>1. k < i - 1
        BY <1>2, <2>1, <3>2
      <4>2. l[k].base + l[k].tamanio <= l[i - 1].base
        BY <1>2, <2>1, <4>1, Orden DEF Sana
      <4>3. QED
        BY <1>2, <2>1, <4>2, ListasSonSecuencias
    <3>3. QED
      BY <3>1, <3>2
  <2>4. l[i - 1].tamanio = 0
    <3>1. l[i - 1].base \in Nat /\ l[i - 1].tamanio \in Nat /\ l[k].base \in Nat
      BY <1>2, <2>1, ListasSonSecuencias
    <3>2. QED
      BY <1>2, <2>2, <2>3, <3>1, SMTT(30)
  <2>5. l[i - 1].libre
    BY <2>1, <2>4 DEF Sana
  <2>6. i - 1 \in 1..Len(l) - 1
    BY <1>2, <2>1
  <2>7. QED
    BY <2>1, <2>5, <2>6 DEF Sana
<1>5. QED
  BY <1>1, <1>2, <1>3, <1>4

(* Changing a field of a hole is putting another hole in its place.        *)
LEMMA CambiaHueco ==
  ASSUME NEW l \in Listas, NEW i \in 1..Len(l), NEW h \in TipoHueco,
         NEW m, m = [l EXCEPT ![i] = h]
  PROVE  /\ m \in Listas /\ Len(m) = Len(l) /\ m[i] = h
         /\ \A j \in 1..Len(l) : j # i => m[j] = l[j]
<1>1. l \in Seq(TipoHueco) /\ i \in 1..Len(l)
  BY ListasSonSecuencias
<1>2. QED
  BY <1>1, ExceptSeq DEF Listas, TipoHueco

(* A hole is inserted.                                                     *)
LEMMA InsertaHueco ==
  ASSUME NEW l \in Listas, NEW i \in 1..Len(l) + 1, NEW h \in TipoHueco,
         NEW m, m = InsertAt(l, i, h)
  PROVE  /\ m \in Listas /\ Len(m) = Len(l) + 1 /\ m[i] = h
         /\ \A j \in 1..Len(l) : j < i => m[j] = l[j]
         /\ \A j \in 1..Len(l) + 1 : j > i => m[j] = l[j - 1]
<1>1. l \in Seq(TipoHueco) /\ Len(l) \in Nat
  BY ListasSonSecuencias
<1>2. m \in Listas
  BY <1>1, InsertarPosiciones DEF Listas, TipoHueco
<1>3. Len(m) = Len(l) + 1
  BY <1>1, InsertarPosiciones
<1>4. \A j \in 1..Len(l) + 1 :
        InsertAt(l, i, h)[j] = IF j < i THEN l[j] ELSE IF j = i THEN h ELSE l[j - 1]
  BY <1>1, InsertarPosiciones
<1>5. \A j \in 1..Len(l) + 1 :
        m[j] = IF j < i THEN l[j] ELSE IF j = i THEN h ELSE l[j - 1]
  BY <1>4
<1>6. m[i] = h
  BY <1>1, <1>5
<1>7. \A j \in 1..Len(l) : j < i => m[j] = l[j]
  BY <1>1, <1>5
<1>8. \A j \in 1..Len(l) + 1 : j > i => m[j] = l[j - 1]
  BY <1>1, <1>5
<1>9. QED
  BY <1>2, <1>3, <1>6, <1>7, <1>8

(* A hole is removed.                                                      *)
LEMMA QuitaHueco ==
  ASSUME NEW l \in Listas, NEW i \in 1..Len(l), NEW m, m = RemoveAt(l, i)
  PROVE  /\ m \in Listas /\ Len(m) = Len(l) - 1
         /\ \A j \in 1..Len(l) - 1 : j < i => m[j] = l[j]
         /\ \A j \in 1..Len(l) - 1 : j >= i => m[j] = l[j + 1]
<1>1. l \in Seq(TipoHueco) /\ Len(l) \in Nat
  BY ListasSonSecuencias
<1>2. /\ m \in Seq(TipoHueco) /\ Len(m) = Len(l) - 1
      /\ \A j \in 1..Len(l) - 1 : m[j] = IF j < i THEN l[j] ELSE l[j + 1]
  BY <1>1, QuitarPosiciones
<1>3. QED
  BY <1>1, <1>2, SMTT(30) DEF Listas, TipoHueco

(* The holes that the code makes.                                          *)
LEMMA HuecosNuevos ==
  ASSUME NEW b \in Nat, NEW t \in Nat
  PROVE  /\ Hueco(b, t, TRUE) \in TipoHueco /\ Hueco(b, t, FALSE) \in TipoHueco
         /\ Hueco(b, t, TRUE).base = b /\ Hueco(b, t, TRUE).tamanio = t
         /\ Hueco(b, t, TRUE).libre = TRUE
         /\ Hueco(b, t, FALSE).base = b /\ Hueco(b, t, FALSE).tamanio = t
         /\ Hueco(b, t, FALSE).libre = FALSE
  BY DEF Hueco, TipoHueco

(* A hole is occupied, in part: modificar_lista_huecos.                    *)
LEMMA PartirHueco ==
  ASSUME NEW l \in Listas, NEW i \in 1..Len(l), NEW t \in Nat
  PROVE  [l EXCEPT ![i].tamanio = t, ![i].libre = FALSE]
           = [l EXCEPT ![i] = Hueco(l[i].base, t, FALSE)]
<1>1. l[i] \in TipoHueco /\ l \in Seq(TipoHueco) /\ Len(l) \in Nat
  BY ListasSonSecuencias
<1>2. PICK r \in TipoHueco : r = l[i]
  BY <1>1
<1>3. [[r EXCEPT !.tamanio = t] EXCEPT !.libre = FALSE] = Hueco(r.base, t, FALSE)
  <2>1. PICK b, k, x : r = [base |-> b, tamanio |-> k, libre |-> x]
    BY DEF TipoHueco
  <2>2. PICK v : v = FALSE
    OBVIOUS
  <2>3. PICK q : q = [base |-> b, tamanio |-> t, libre |-> x]
    OBVIOUS
  <2>4. [r EXCEPT !.tamanio = t] = q /\ r.base = b
    BY <2>1, <2>3
  <2>5. [q EXCEPT !.libre = v] = [base |-> b, tamanio |-> t, libre |-> v]
    BY <2>3
  <2>6. QED
    BY <2>2, <2>4, <2>5 DEF Hueco
<1>4. [l EXCEPT ![i].tamanio = t, ![i].libre = FALSE] = [l EXCEPT ![i] = [[l[i] EXCEPT !.tamanio = t] EXCEPT !.libre = FALSE]]
  OBVIOUS
<1>5. QED
  BY <1>2, <1>3, <1>4

(* A hole is freed: eliminar_segmento.                                     *)
LEMMA SoltarHueco ==
  ASSUME NEW r \in TipoHueco, NEW h, h = [r EXCEPT !.libre = TRUE]
  PROVE  h \in TipoHueco /\ h.base = r.base /\ h.tamanio = r.tamanio /\ h.libre
  BY DEF TipoHueco

(* A hole grows: comprobar_consolidacion_huecos_aledanios.                 *)
LEMMA AgrandarHueco ==
  ASSUME NEW r \in TipoHueco, NEW t \in Nat, NEW h, h = [r EXCEPT !.tamanio = @ + t]
  PROVE  h \in TipoHueco /\ h.base = r.base /\ h.tamanio = r.tamanio + t /\ h.libre = r.libre
  BY DEF TipoHueco

(* What modificar_lista_huecos does with a hole that is big enough.        *)
LEMMA OcuparEs ==
  ASSUME NEW l \in Listas, NEW i \in 1..Len(l), NEW t \in Nat, l[i].tamanio >= t
  PROVE  LET h     == Hueco(l[i].base, t, FALSE)
             resto == Hueco(l[i].base + t, l[i].tamanio - t, TRUE)
         IN  /\ h \in TipoHueco /\ resto \in TipoHueco
             /\ Ocupar(l, i, t) = InsertAt([l EXCEPT ![i] = h], IndiceDeBase(l, l[i].base) + 1, resto)
<1>1. PICK b \in Nat, k \in Nat : b = l[i].base /\ k = l[i].tamanio /\ k >= t
  BY ListasSonSecuencias
<1>2. b + t \in Nat /\ k - t \in Nat
  BY <1>1
<1>3. Hueco(b, t, FALSE) \in TipoHueco /\ Hueco(b + t, k - t, TRUE) \in TipoHueco
  BY <1>2, HuecosNuevos
<1>4. QED
  BY <1>1, <1>3, PartirHueco DEF Ocupar

(* It leaves a list of holes...                                            *)
LEMMA OcuparTipo ==
  ASSUME NEW l \in Listas, NEW i \in 1..Len(l), NEW t \in Nat, l[i].tamanio >= t
  PROVE  Ocupar(l, i, t) \in Listas
<1>1. PICK h \in TipoHueco, resto \in TipoHueco :
        Ocupar(l, i, t) = InsertAt([l EXCEPT ![i] = h], IndiceDeBase(l, l[i].base) + 1, resto)
  BY OcuparEs, ZenonT(30)
<1>2. PICK partido : partido = [l EXCEPT ![i] = h]
  OBVIOUS
<1>3. partido \in Listas /\ Len(partido) = Len(l)
  BY <1>2, CambiaHueco, ZenonT(30)
<1>4. PICK k : k = IndiceDeBase(l, l[i].base) + 1 /\ k \in 1..Len(partido) + 1
  BY <1>3, IndiceBien, ListasSonSecuencias
<1>5. InsertAt(partido, k, resto) \in Listas
  BY <1>3, <1>4, InsertaHueco
<1>6. QED
  BY <1>1, <1>2, <1>4, <1>5

(* ...and splits hole i when its base is found there.                      *)
LEMMA OcuparPosiciones ==
  ASSUME NEW l \in Listas, NEW i \in 1..Len(l), NEW t \in Nat, l[i].tamanio >= t,
         IndiceDeBase(l, l[i].base) = i, NEW m, m = Ocupar(l, i, t)
  PROVE  /\ Len(m) = Len(l) + 1
         /\ \A j \in 1..Len(l) : j < i => m[j] = l[j]
         /\ m[i].base = l[i].base /\ m[i].tamanio = t /\ ~m[i].libre
         /\ m[i + 1].base = l[i].base + t /\ m[i + 1].tamanio = l[i].tamanio - t
         /\ m[i + 1].libre
         /\ \A j \in 1..Len(l) + 1 : j > i + 1 => m[j] = l[j - 1]
<1>1. PICK h \in TipoHueco, resto \in TipoHueco :
        /\ m = InsertAt([l EXCEPT ![i] = h], i + 1, resto)
        /\ h.base = l[i].base /\ h.tamanio = t /\ ~h.libre
        /\ resto.base = l[i].base + t /\ resto.tamanio = l[i].tamanio - t /\ resto.libre
  <2>1. PICK h, resto :
          /\ h = Hueco(l[i].base, t, FALSE)
          /\ resto = Hueco(l[i].base + t, l[i].tamanio - t, TRUE)
    OBVIOUS
  <2>2. h \in TipoHueco /\ resto \in TipoHueco
    BY <2>1, OcuparEs
  <2>3. m = InsertAt([l EXCEPT ![i] = h], i + 1, resto)
    BY <2>1, OcuparEs
  <2>4. h.base = l[i].base /\ h.tamanio = t /\ ~h.libre
    BY <2>1 DEF Hueco
  <2>5. resto.base = l[i].base + t /\ resto.tamanio = l[i].tamanio - t /\ resto.libre
    BY <2>1 DEF Hueco
  <2>6. QED
    BY <2>2, <2>3, <2>4, <2>5
<1>2. PICK partido : partido = [l EXCEPT ![i] = h]
  OBVIOUS
<1>3. /\ partido \in Listas /\ Len(partido) = Len(l) /\ partido[i] = h
      /\ \A j \in 1..Len(l) : j # i => partido[j] = l[j]
  <2>1. partido \in Listas /\ Len(partido) = Len(l)
    BY <1>2, CambiaHueco, ZenonT(30)
  <2>2. partido[i] = h
    BY <1>2, CambiaHueco
  <2>3. \A j \in 1..Len(l) : j # i => partido[j] = l[j]
    BY <1>2, CambiaHueco
  <2>4. QED
    BY <2>1, <2>2, <2>3
<1>4. PICK n : n = Len(l) /\ n \in Nat /\ i \in 1..n
  BY ListasSonSecuencias
<1>5. i + 1 \in 1..Len(partido) + 1 /\ m = InsertAt(partido, i + 1, resto)
  BY <1>1, <1>2, <1>3, <1>4
<1>6. /\ Len(m) = n + 1 /\ m[i + 1] = resto
      /\ \A j \in 1..n : j < i + 1 => m[j] = partido[j]
      /\ \A j \in 1..n + 1 : j > i + 1 => m[j] = partido[j - 1]
  BY <1>3, <1>4, <1>5, InsertaHueco
<1>7. ASSUME NEW j \in 1..n, j < i PROVE m[j] = l[j]
  <2>1. j < i + 1 /\ j # i
    BY <1>4, <1>7
  <2>2. QED
    BY <1>3, <1>4, <1>6, <2>1
<1>8. m[i] = h
  <2>1. i < i + 1
    BY <1>4
  <2>2. QED
    BY <1>3, <1>4, <1>6, <2>1
<1>9. ASSUME NEW j \in 1..n + 1, j > i + 1 PROVE m[j] = l[j - 1]
  <2>1. j - 1 \in 1..n /\ j - 1 # i
    BY <1>4, <1>9
  <2>2. QED
    BY <1>3, <1>4, <1>6, <1>9, <2>1
<1>10. QED
  BY <1>1, <1>4, <1>6, <1>7, <1>8, <1>9

(* A segment taken from a free hole that is big enough leaves a sane list. *)
LEMMA OcuparSana ==
  ASSUME NEW l \in Listas, Sana(l), NEW i \in 1..Len(l), l[i].libre,
         NEW t \in Nat \ {0}, l[i].tamanio >= t
  PROVE  Sana(Ocupar(l, i, t)) /\ IndiceDeBase(l, l[i].base) = i
<1>1. IndiceDeBase(l, l[i].base) = i
  BY IndiceDeLibre, ListasSonSecuencias
<1>2. PICK m : m = Ocupar(l, i, t)
  OBVIOUS
<1>3. PICK n : n = Len(l) /\ n \in Nat
  BY ListasSonSecuencias
<1>4. PICK b \in Nat, s \in Nat : b = l[i].base /\ s = l[i].tamanio /\ s >= t
  BY ListasSonSecuencias
<1>5. i \in 1..n /\ b + t \in Nat /\ s - t \in Nat /\ t \in Nat /\ t > 0
  BY <1>3, <1>4
<1>6. /\ Len(m) = n + 1
      /\ m[i].base = b /\ m[i].tamanio = t /\ ~m[i].libre
      /\ m[i + 1].base = b + t /\ m[i + 1].tamanio = s - t /\ m[i + 1].libre
  <2>1. Len(m) = n + 1
    BY <1>1, <1>2, <1>3, <1>4, <1>5, OcuparPosiciones, SMTT(30)
  <2>2. m[i].base = b /\ m[i].tamanio = t /\ ~m[i].libre
    BY <1>1, <1>2, <1>4, <1>5, OcuparPosiciones, SMTT(30)
  <2>3. m[i + 1].base = b + t /\ m[i + 1].tamanio = s - t /\ m[i + 1].libre
    BY <1>1, <1>2, <1>4, <1>5, OcuparPosiciones, SMTT(30)
  <2>4. QED
    BY <2>1, <2>2, <2>3
<1>7. /\ \A j \in 1..n + 1 : j < i => m[j] = l[j]
      /\ \A j \in 1..n + 1 : j > i + 1 => m[j] = l[j - 1]
  <2>1. \A j \in 1..n + 1 : j < i => j \in 1..n
    BY <1>3, <1>5
  <2>2. \A j \in 1..n : j < i => m[j] = l[j]
    <3>1. \A j \in 1..Len(l) : j < i => m[j] = l[j]
      BY <1>1, <1>2, <1>4, <1>5, OcuparPosiciones
    <3>2. QED
      BY <1>3, <3>1
  <2>3. \A j \in 1..n + 1 : j > i + 1 => m[j] = l[j - 1]
    <3>1. \A j \in 1..Len(l) + 1 : j > i + 1 => m[j] = l[j - 1]
      BY <1>1, <1>2, <1>4, <1>5, OcuparPosiciones
    <3>2. QED
      BY <1>3, <3>1
  <2>4. QED
    BY <2>1, <2>2, <2>3
<1>8. Tesela(m)
  <2>1. m[1].base = 0
    <3>1. l[1].base = 0 /\ 1 \in 1..n + 1
      BY <1>3 DEF Sana, Tesela
    <3>2. CASE i = 1
      BY <1>4, <1>6, <3>1, <3>2
    <3>3. CASE i > 1
      BY <1>7, <3>1, <3>3
    <3>4. QED
      BY <1>5, <3>2, <3>3
  <2>2. ASSUME NEW j \in 1..n PROVE m[j + 1].base = m[j].base + m[j].tamanio
    <3>1. \A x \in 1..n - 1 : l[x + 1].base = l[x].base + l[x].tamanio
      BY <1>3 DEF Sana, Tesela
    <3>2. CASE j + 1 < i
      BY <1>3, <1>7, <3>1, <3>2
    <3>3. CASE j + 1 = i
      <4>1. j \in 1..n - 1 /\ m[j] = l[j]
        BY <1>3, <1>7, <3>3
      <4>2. QED
        BY <1>4, <1>5, <1>6, <3>1, <3>3, <4>1
    <3>4. CASE j = i
      BY <1>6, <3>4
    <3>5. CASE j = i + 1
      <4>1. m[j + 1] = l[j] /\ j - 1 \in 1..n - 1 /\ j - 1 = i /\ (j - 1) + 1 = j /\ (i + 1) = j
        BY <1>3, <1>7, <3>5
      <4>2. l[j].base = b + s
        BY <1>4, <1>5, <3>1, <4>1
      <4>3. m[j].base = b + t /\ m[j].tamanio = s - t
        BY <1>6, <3>5
      <4>4. m[j + 1].base = b + s
        BY <4>1, <4>2
      <4>5. QED
        BY <1>4, <1>5, <4>3, <4>4, SMTT(30)
    <3>6. CASE j > i + 1
      <4>1. /\ m[j] = l[j - 1] /\ m[j + 1] = l[j] /\ j - 1 \in 1..n - 1 /\ (j - 1) + 1 = j
        BY <1>3, <1>7, <3>6
      <4>2. QED
        BY <3>1, <4>1
    <3>7. QED
      BY <1>3, <3>2, <3>3, <3>4, <3>5, <3>6
  <2>3. m[n + 1].base + m[n + 1].tamanio = TamMemoria
    <3>1. l[n].base + l[n].tamanio = TamMemoria
      BY <1>3 DEF Sana, Tesela
    <3>2. CASE i = n
      <4>1. m[n + 1].base = b + t /\ m[n + 1].tamanio = s - t
        BY <1>6, <3>2
      <4>2. b + s = TamMemoria
        BY <1>4, <1>5, <3>1, <3>2
      <4>3. QED
        BY <1>4, <1>5, <4>1, <4>2
    <3>3. CASE i < n
      <4>1. m[n + 1] = l[(n + 1) - 1] /\ (n + 1) - 1 = n
        BY <1>3, <1>7, <3>3
      <4>2. QED
        BY <3>1, <4>1
    <3>4. QED
      BY <1>3, <3>2, <3>3
  <2>4. QED
    BY <1>3, <1>6, <2>1, <2>2, <2>3 DEF Tesela
<1>9. ASSUME NEW j \in 1..n + 1, ~m[j].libre PROVE m[j].tamanio > 0
  <2>1. \A x \in 1..n : ~l[x].libre => l[x].tamanio > 0
    BY <1>3 DEF Sana
  <2>2. CASE j < i
    BY <1>3, <1>7, <1>9, <2>1, <2>2
  <2>3. CASE j = i
    BY <1>6, <2>3
  <2>4. CASE j = i + 1
    BY <1>6, <1>9, <2>4
  <2>5. CASE j > i + 1
    <3>1. m[j] = l[j - 1] /\ j - 1 \in 1..n
      BY <1>3, <1>7, <2>5
    <3>2. QED
      BY <1>9, <2>1, <3>1
  <2>6. QED
    BY <1>3, <2>2, <2>3, <2>4, <2>5
<1>10. ASSUME NEW j \in 1..n, m[j].libre, m[j + 1].libre PROVE FALSE
  <2>1. \A x \in 1..n - 1 : ~(l[x].libre /\ l[x + 1].libre)
    BY <1>3 DEF Sana
  <2>2. CASE j + 1 < i
    <3>1. m[j] = l[j] /\ m[j + 1] = l[j + 1] /\ j \in 1..n - 1
      BY <1>3, <1>7, <2>2
    <3>2. QED
      BY <1>10, <2>1, <3>1
  <2>3. CASE j + 1 = i \/ j = i
    BY <1>6, <1>10, <2>3
  <2>4. CASE j = i + 1
    <3>1. m[j + 1] = l[j] /\ i + 1 = j /\ i \in 1..n - 1
      BY <1>3, <1>7, <2>4
    <3>2. QED
      BY <1>10, <2>1, <3>1
  <2>5. CASE j > i + 1
    <3>1. m[j] = l[j - 1] /\ m[j + 1] = l[j] /\ j - 1 \in 1..n - 1 /\ (j - 1) + 1 = j
      BY <1>3, <1>7, <2>5
    <3>2. QED
      BY <1>10, <2>1, <3>1
  <2>6. QED
    BY <1>3, <2>2, <2>3, <2>4, <2>5
<1>11. ~m[1].libre
  BY <1>3, <1>6, <1>7 DEF Sana
<1>12. QED
  BY <1>1, <1>2, <1>3, <1>6, <1>8, <1>9, <1>10, <1>11 DEF Sana

(* What absorbing the next hole does to the positions.                     *)
LEMMA UnirPosiciones ==
  ASSUME NEW l \in Listas, NEW i \in 1..Len(l) - 1, NEW m, m = UnirConSiguiente(l, i)
  PROVE  /\ m \in Listas /\ Len(m) = Len(l) - 1
         /\ \A j \in 1..Len(l) - 1 : j < i => m[j] = l[j]
         /\ m[i].base = l[i].base /\ m[i].tamanio = l[i].tamanio + l[i + 1].tamanio
         /\ m[i].libre = l[i].libre
         /\ \A j \in 1..Len(l) - 1 : j > i => m[j] = l[j + 1]
<1>1. PICK n \in Nat : n = Len(l)
  BY ListasSonSecuencias
<1>2. i \in 1..n /\ i + 1 \in 1..n
  BY <1>1
<1>3. PICK b \in Nat, s \in Nat, t \in Nat :
        b = l[i].base /\ s = l[i].tamanio /\ t = l[i + 1].tamanio
  BY <1>1, <1>2, ListasSonSecuencias
<1>4. PICK h : h = [l[i] EXCEPT !.tamanio = @ + t]
  OBVIOUS
<1>5. h \in TipoHueco /\ h.base = b /\ h.tamanio = s + t /\ h.libre = l[i].libre
  <2>1. l[i] \in TipoHueco
    BY <1>1, <1>2, ListasSonSecuencias
  <2>2. h \in TipoHueco
    BY <1>4, <2>1, AgrandarHueco
  <2>3. h.base = l[i].base
    BY <1>4, <2>1, AgrandarHueco
  <2>4. h.tamanio = l[i].tamanio + t
    BY <1>4, <2>1, AgrandarHueco
  <2>5. h.libre = l[i].libre
    BY <1>4, <2>1, AgrandarHueco
  <2>6. QED
    BY <1>3, <2>2, <2>3, <2>4, <2>5
<1>6. PICK a : a = [l EXCEPT ![i] = h]
  OBVIOUS
<1>7. a \in Listas /\ Len(a) = n
  BY <1>1, <1>2, <1>5, <1>6, CambiaHueco, ZenonT(30)
<1>8. a[i] = h
  BY <1>1, <1>2, <1>5, <1>6, CambiaHueco
<1>9. \A j \in 1..n : j # i => a[j] = l[j]
  <2>1. \A j \in 1..Len(l) : j # i => a[j] = l[j]
    BY <1>1, <1>2, <1>5, <1>6, CambiaHueco
  <2>2. QED
    BY <1>1, <2>1
<1>10. m = RemoveAt(a, i + 1)
  <2>1. [l EXCEPT ![i].tamanio = @ + t] = a
    BY <1>4, <1>6
  <2>2. QED
    BY <1>3, <2>1 DEF UnirConSiguiente
<1>11. m \in Listas /\ Len(m) = n - 1
  BY <1>2, <1>7, <1>10, QuitaHueco
<1>12. \A j \in 1..n - 1 : j < i + 1 => m[j] = a[j]
  BY <1>2, <1>7, <1>10, QuitaHueco
<1>13. \A j \in 1..n - 1 : j >= i + 1 => m[j] = a[j + 1]
  BY <1>2, <1>7, <1>10, QuitaHueco
<1>14. m[i].base = b /\ m[i].tamanio = s + t /\ m[i].libre = l[i].libre
  <2>1. i \in 1..n - 1 /\ i < i + 1
    BY <1>1
  <2>2. m[i] = h
    BY <1>8, <1>12, <2>1
  <2>3. QED
    BY <1>5, <2>2
<1>15. ASSUME NEW j \in 1..n - 1, j < i PROVE m[j] = l[j]
  <2>1. j < i + 1 /\ j # i /\ j \in 1..n
    BY <1>2, <1>15
  <2>2. QED
    BY <1>9, <1>12, <2>1
<1>16. ASSUME NEW j \in 1..n - 1, j > i PROVE m[j] = l[j + 1]
  <2>1. j >= i + 1 /\ j + 1 # i /\ j + 1 \in 1..n
    BY <1>2, <1>16
  <2>2. QED
    BY <1>9, <1>13, <2>1
<1>17. QED
  BY <1>1, <1>3, <1>11, <1>14, <1>15, <1>16

(* A list where absorbing a hole can start: as a sane one, but for the     *)
(* free holes that are together.                                           *)
Regular(l) ==
  /\ Tesela(l) /\ ~l[1].libre
  /\ \A i \in 1..Len(l) : ~l[i].libre => l[i].tamanio > 0

Pareja(l, i) == l[i].libre /\ l[i + 1].libre

(* Absorbing a free hole leaves the list tiling the memory.                *)
LEMMA UnirTesela ==
  ASSUME NEW l \in Listas, NEW i \in 1..Len(l) - 1, NEW m, m = UnirConSiguiente(l, i), Tesela(l)
  PROVE  Tesela(m)
<1>1. PICK n \in Nat : n = Len(l) /\ i \in 1..n - 1
  BY ListasSonSecuencias
<1>2. /\ m \in Listas /\ Len(m) = n - 1
  BY <1>1, UnirPosiciones
<1>3. \A j \in 1..n - 1 : j < i => m[j] = l[j]
  BY <1>1, UnirPosiciones
<1>4. m[i].base = l[i].base /\ m[i].tamanio = l[i].tamanio + l[i + 1].tamanio
  BY UnirPosiciones
<1>5. \A j \in 1..n - 1 : j > i => m[j] = l[j + 1]
  BY <1>1, UnirPosiciones
<1>6. \A j \in 1..n - 1 : l[j + 1].base = l[j].base + l[j].tamanio
  BY <1>1 DEF Tesela
<1>7. \A j \in 1..n : l[j].base \in Nat /\ l[j].tamanio \in Nat
  BY <1>1, ListasSonSecuencias
<1>8. m # <<>> /\ m[1].base = 0
  <2>1. m[1].base = 0
    <3>1. CASE i = 1
      BY <1>4, <3>1 DEF Tesela
    <3>2. CASE i # 1
      <4>1. 1 \in 1..n - 1 /\ 1 < i
        BY <1>1, <3>2
      <4>2. QED
        BY <1>3, <4>1 DEF Tesela
    <3>3. QED
      BY <3>1, <3>2
  <2>2. Len(m) # 0
    BY <1>1, <1>2
  <2>3. QED
    BY <1>2, <2>1, <2>2, ListasSonSecuencias
<1>9. ASSUME NEW j \in 1..n - 2 PROVE m[j + 1].base = m[j].base + m[j].tamanio
  <2>1. j \in 1..n - 1 /\ j + 1 \in 1..n - 1
    BY <1>1
  <2>2. CASE j + 1 < i
    BY <1>1, <1>3, <1>6, <2>1, <2>2
  <2>3. CASE j + 1 = i
    <3>1. m[j] = l[j]
      BY <1>1, <1>3, <2>1, <2>3
    <3>2. QED
      BY <1>4, <1>6, <2>1, <2>3, <3>1
  <2>4. CASE j = i
    <3>1. m[j + 1] = l[(i + 1) + 1]
      BY <1>1, <1>5, <2>1, <2>4
    <3>2. l[(i + 1) + 1].base = l[i + 1].base + l[i + 1].tamanio
      BY <1>6, <2>1, <2>4
    <3>3. l[i + 1].base = l[i].base + l[i].tamanio
      BY <1>1, <1>6
    <3>4. PICK b \in Nat, s \in Nat, t \in Nat :
            b = l[i].base /\ s = l[i].tamanio /\ t = l[i + 1].tamanio
      BY <1>1, <1>7
    <3>5. m[j + 1].base = (b + s) + t
      BY <3>1, <3>2, <3>3, <3>4
    <3>6. m[j].base = b /\ m[j].tamanio = s + t
      BY <1>4, <2>4, <3>4
    <3>7. (b + s) + t = b + (s + t)
      BY <3>4
    <3>8. QED
      BY <3>5, <3>6, <3>7
  <2>5. CASE j > i
    <3>1. m[j] = l[j + 1] /\ m[j + 1] = l[(j + 1) + 1]
      BY <1>1, <1>5, <2>1, <2>5
    <3>2. QED
      BY <1>6, <2>1, <3>1
  <2>6. QED
    BY <1>1, <2>2, <2>3, <2>4, <2>5
<1>10. m[n - 1].base + m[n - 1].tamanio = TamMemoria
  <2>1. l[n].base + l[n].tamanio = TamMemoria
    BY <1>1 DEF Tesela
  <2>2. CASE i = n - 1
    <3>1. i + 1 = n /\ l[n].base = l[i].base + l[i].tamanio
      BY <1>1, <1>6, <2>2
    <3>2. PICK b \in Nat, s \in Nat, t \in Nat :
            b = l[i].base /\ s = l[i].tamanio /\ t = l[n].tamanio
      BY <1>1, <1>7
    <3>3. m[n - 1].base = b /\ m[n - 1].tamanio = s + t
      BY <1>4, <2>2, <3>1, <3>2
    <3>4. (b + s) + t = TamMemoria
      BY <2>1, <3>1, <3>2
    <3>5. QED
      BY <3>2, <3>3, <3>4, SMTT(30)
  <2>3. CASE i # n - 1
    <3>1. n - 1 \in 1..n - 1 /\ n - 1 > i /\ (n - 1) + 1 = n
      BY <1>1, <2>3
    <3>2. m[n - 1] = l[n]
      BY <1>5, <3>1
    <3>3. QED
      BY <2>1, <3>2
  <2>4. QED
    BY <2>2, <2>3
<1>11. QED
  <2>1. \A j \in 1..Len(m) - 1 : m[j + 1].base = m[j].base + m[j].tamanio
    <3>1. Len(m) - 1 = n - 2
      BY <1>1, <1>2
    <3>2. QED
      BY <1>9, <3>1
  <2>2. m[Len(m)].base + m[Len(m)].tamanio = TamMemoria
    BY <1>2, <1>10
  <2>3. QED
    BY <1>8, <2>1, <2>2 DEF Tesela

(* The holes of segments other than 0.                                     *)
Ocupados(l) == {h \in TipoHueco : ~h.libre /\ \E j \in 2..Len(l) : l[j] = h}

(* None of them changes, the first hole does not shrink and none is left   *)
(* empty.                                                                  *)
Conserva(l, m) ==
  /\ m \in Listas /\ Regular(m) /\ Ocupados(m) = Ocupados(l)
  /\ m[1].tamanio >= l[1].tamanio
  /\ (\A i \in 1..Len(l) : l[i].tamanio > 0) => \A i \in 1..Len(m) : m[i].tamanio > 0

(* Absorbing a free hole, by the first or by another that is free.         *)
LEMMA UnirConserva ==
  ASSUME NEW l \in Listas, Regular(l), NEW i \in 1..Len(l) - 1, l[i + 1].libre,
         i = 1 \/ l[i].libre, NEW m, m = UnirConSiguiente(l, i)
  PROVE  Conserva(l, m)
<1>1. PICK n \in Nat : n = Len(l) /\ i \in 1..n - 1
  BY ListasSonSecuencias
<1>2. /\ m \in Listas /\ Len(m) = n - 1
  BY <1>1, UnirPosiciones
<1>3. \A j \in 1..n - 1 : j < i => m[j] = l[j]
  BY <1>1, UnirPosiciones
<1>4. m[i].base = l[i].base /\ m[i].tamanio = l[i].tamanio + l[i + 1].tamanio
  BY UnirPosiciones
<1>5. \A j \in 1..n - 1 : j > i => m[j] = l[j + 1]
  BY <1>1, UnirPosiciones
<1>6. m[i].libre = l[i].libre
  BY UnirPosiciones
<1>7. m[i].tamanio >= l[i].tamanio
  <2>1. l[i].tamanio \in Nat /\ l[i + 1].tamanio \in Nat
    BY <1>1, ListasSonSecuencias
  <2>2. QED
    BY <1>4, <2>1
<1>8. Tesela(m)
  BY UnirTesela DEF Regular
<1>9. \A j \in 1..n : l[j].tamanio \in Nat
  BY <1>1, ListasSonSecuencias
<1>10. m[i].tamanio \in Nat
  BY <1>1, <1>2, ListasSonSecuencias
<1>11. ~m[1].libre /\ m[1].tamanio >= l[1].tamanio
  <2>1. CASE i = 1
    BY <1>6, <1>7, <2>1 DEF Regular
  <2>2. CASE i # 1
    <3>1. 1 \in 1..n - 1 /\ 1 < i /\ 1 \in 1..n
      BY <1>1, <2>2
    <3>2. m[1] = l[1]
      BY <1>3, <3>1
    <3>3. QED
      BY <1>9, <3>1, <3>2 DEF Regular
  <2>3. QED
    BY <2>1, <2>2
<1>12. ASSUME NEW j \in 1..n - 1
       PROVE  \E k \in 1..n : (l[k].tamanio > 0 => m[j].tamanio > 0) /\ m[j].libre = l[k].libre
  <2>1. CASE j < i
    BY <1>1, <1>3, <2>1
  <2>2. CASE j = i
    <3>1. l[i].tamanio > 0 => m[i].tamanio > 0
      BY <1>1, <1>7, <1>9, <1>10
    <3>2. QED
      BY <1>1, <1>6, <2>2, <3>1
  <2>3. CASE j > i
    <3>1. j + 1 \in 1..n /\ m[j] = l[j + 1]
      BY <1>1, <1>5, <2>3
    <3>2. QED
      BY <3>1
  <2>4. QED
    BY <1>1, <2>1, <2>2, <2>3
<1>13. \A j \in 1..Len(m) : ~m[j].libre => m[j].tamanio > 0
  <2>1. \A k \in 1..n : ~l[k].libre => l[k].tamanio > 0
    BY <1>1 DEF Regular
  <2>2. QED
    BY <1>2, <1>12, <2>1
<1>14. (\A k \in 1..Len(l) : l[k].tamanio > 0) => \A j \in 1..Len(m) : m[j].tamanio > 0
  BY <1>1, <1>2, <1>12
<1>15. ASSUME NEW h \in TipoHueco, ~h.libre
       PROVE  (\E j \in 2..n - 1 : m[j] = h) <=> (\E j \in 2..n : l[j] = h)
  <2>1. ASSUME NEW j \in 2..n - 1, m[j] = h PROVE \E k \in 2..n : l[k] = h
    <3>1. j # i
      BY <1>6, <1>15, <2>1
    <3>2. CASE j < i
      BY <1>1, <1>3, <2>1, <3>2
    <3>3. CASE j > i
      <4>1. j + 1 \in 2..n /\ m[j] = l[j + 1]
        BY <1>1, <1>5, <3>3
      <4>2. QED
        BY <2>1, <4>1
    <3>4. QED
      BY <1>1, <3>1, <3>2, <3>3
  <2>2. ASSUME NEW j \in 2..n, l[j] = h PROVE \E k \in 2..n - 1 : m[k] = h
    <3>1. j # i /\ j # i + 1
      BY <1>15, <2>2
    <3>2. CASE j < i
      <4>1. j \in 2..n - 1
        BY <1>1, <3>2
      <4>2. QED
        BY <1>1, <1>3, <2>2, <3>2, <4>1
    <3>3. CASE j > i
      <4>1. j - 1 \in 2..n - 1 /\ j - 1 > i /\ (j - 1) + 1 = j
        BY <1>1, <3>1, <3>3
      <4>2. m[j - 1] = l[j]
        BY <1>1, <1>5, <4>1
      <4>3. QED
        BY <2>2, <4>1, <4>2
    <3>4. QED
      BY <1>1, <3>1, <3>2, <3>3
  <2>3. QED
    BY <2>1, <2>2
<1>16. Ocupados(m) = Ocupados(l)
  BY <1>1, <1>2, <1>15 DEF Ocupados
<1>17. QED
  BY <1>2, <1>8, <1>11, <1>13, <1>14, <1>16 DEF Conserva, Regular

(* No two free holes are together after it that were not before.           *)
LEMMA UnirParejas ==
  ASSUME NEW l \in Listas, NEW i \in 1..Len(l) - 1, l[i + 1].libre,
         NEW x \in {0, i - 1}, \A j \in 1..Len(l) - 1 : j # x /\ j # i => ~Pareja(l, j),
         NEW m, m = UnirConSiguiente(l, i)
  PROVE  \A j \in 1..Len(m) - 1 : j # x => ~Pareja(m, j)
<1>1. PICK n \in Nat : n = Len(l) /\ i \in 1..n - 1
  BY ListasSonSecuencias
<1>2. /\ m \in Listas /\ Len(m) = n - 1
  BY <1>1, UnirPosiciones
<1>3. \A j \in 1..n - 1 : j < i => m[j] = l[j]
  BY <1>1, UnirPosiciones
<1>4. m[i].libre = l[i].libre
  BY UnirPosiciones
<1>5. \A j \in 1..n - 1 : j > i => m[j] = l[j + 1]
  BY <1>1, UnirPosiciones
<1>6. \A j \in 1..n - 1 : j # x /\ j # i => ~(l[j].libre /\ l[j + 1].libre)
  BY <1>1 DEF Pareja
<1>7. SUFFICES ASSUME NEW j \in 1..n - 2, j # x, m[j].libre, m[j + 1].libre PROVE FALSE
  <2>1. Len(m) - 1 = n - 2
    BY <1>1, <1>2
  <2>2. QED
    BY <2>1 DEF Pareja
<1>8. j \in 1..n - 1 /\ j + 1 \in 1..n - 1
  BY <1>1
<1>9. CASE j + 1 < i
  <2>1. m[j] = l[j] /\ m[j + 1] = l[j + 1] /\ j # i
    BY <1>1, <1>3, <1>8, <1>9
  <2>2. QED
    BY <1>6, <1>7, <1>8, <2>1
<1>10. CASE j + 1 = i
  <2>1. m[j] = l[j] /\ j # i /\ j < i
    BY <1>1, <1>3, <1>8, <1>10
  <2>2. l[j + 1].libre
    BY <1>4, <1>7, <1>10
  <2>3. QED
    BY <1>6, <1>7, <1>8, <2>1, <2>2
<1>11. CASE j = i
  <2>1. m[j + 1] = l[(j + 1) + 1] /\ j + 1 # i /\ j + 1 # x
    BY <1>1, <1>5, <1>8, <1>11
  <2>2. QED
    BY <1>6, <1>7, <1>8, <1>11, <2>1
<1>12. CASE j > i
  <2>1. m[j] = l[j + 1] /\ m[j + 1] = l[(j + 1) + 1] /\ j + 1 # i /\ j + 1 # x
    BY <1>1, <1>5, <1>8, <1>12
  <2>2. QED
    BY <1>6, <1>7, <1>8, <2>1
<1>13. QED
  BY <1>1, <1>9, <1>10, <1>11, <1>12

(* A sane list is a regular one with no two free holes together.           *)
LEMMA SanaEs ==
  ASSUME NEW l
  PROVE  Sana(l) <=> Regular(l) /\ \A j \in 1..Len(l) - 1 : ~Pareja(l, j)
  BY DEF Sana, Regular, Pareja

(* Two changes that keep the segments are one.                             *)
LEMMA ConservaTrans ==
  ASSUME NEW l \in Listas, Regular(l), NEW m, NEW n, Conserva(l, m), Conserva(m, n)
  PROVE  Conserva(l, n)
<1>1. n[1].tamanio >= l[1].tamanio
  <2>1. 1 \in 1..Len(l) /\ 1 \in 1..Len(m) /\ 1 \in 1..Len(n)
    <3>1. \A x \in Listas : x # <<>> => 1 \in 1..Len(x)
      BY EmptySeq, ListasSonSecuencias
    <3>2. QED
      BY <3>1 DEF Conserva, Regular, Tesela
  <2>2. l[1].tamanio \in Nat /\ m[1].tamanio \in Nat /\ n[1].tamanio \in Nat
    BY <2>1, ListasSonSecuencias DEF Conserva
  <2>3. QED
    BY <2>2 DEF Conserva
<1>2. QED
  BY <1>1 DEF Conserva

(* comprobar_consolidacion_huecos_aledanios, called with a free hole, or   *)
(* with the first.                                                         *)
LEMMA ConsolidarBien ==
  ASSUME NEW l \in Listas, Regular(l), NEW i \in 1..Len(l), i # 1 => l[i].libre,
         \A j \in 1..Len(l) - 1 : j # i - 1 /\ j # i => ~Pareja(l, j),
         NEW m, m = Consolidar(l, i)
  PROVE  Conserva(l, m) /\ Sana(m)
<1>1. PICK n \in Nat : n = Len(l) /\ i \in 1..n
  BY ListasSonSecuencias
<1>2. PICK a : a = IF i < Len(l) /\ l[i + 1].libre THEN UnirConSiguiente(l, i) ELSE l
  OBVIOUS
<1>3. m = IF i > 2 /\ l[i - 1].libre THEN UnirConSiguiente(a, i - 1) ELSE a
  BY <1>2 DEF Consolidar
<1>4. /\ Conserva(l, a) /\ \A j \in 1..Len(a) - 1 : j # i - 1 => ~Pareja(a, j)
      /\ Len(a) >= i /\ \A j \in 1..i - 1 : a[j] = l[j]
      /\ a[i].libre = l[i].libre
  <2>1. CASE i < n /\ l[i + 1].libre
    <3>1. Conserva(l, a)
      BY <1>1, <1>2, <2>1, UnirConserva
    <3>2. \A j \in 1..Len(a) - 1 : j # i - 1 => ~Pareja(a, j)
      BY <1>1, <1>2, <2>1, UnirParejas
    <3>3. Len(a) = n - 1 /\ \A j \in 1..n - 1 : j < i => a[j] = l[j]
      BY <1>1, <1>2, <2>1, UnirPosiciones
    <3>4. a[i].libre = l[i].libre
      BY <1>1, <1>2, <2>1, UnirPosiciones
    <3>5. QED
      BY <1>1, <2>1, <3>1, <3>2, <3>3, <3>4
  <2>2. CASE ~(i < n /\ l[i + 1].libre)
    <3>1. a = l
      BY <1>1, <1>2, <2>2
    <3>2. Conserva(l, l)
      <4>1. l[1].tamanio \in Nat
        BY <1>1, ListasSonSecuencias
      <4>2. QED
        BY <4>1 DEF Conserva
    <3>3. ASSUME NEW j \in 1..n - 1, j # i - 1 PROVE ~Pareja(l, j)
      <4>1. CASE j = i
        BY <1>1, <2>2, <4>1 DEF Pareja
      <4>2. CASE j # i
        BY <1>1, <3>3, <4>2
      <4>3. QED
        BY <4>1, <4>2
    <3>4. QED
      BY <1>1, <3>1, <3>2, <3>3
  <2>3. QED
    BY <2>1, <2>2
<1>5. PICK k \in Nat : k = Len(a) /\ a \in Listas /\ Regular(a) /\ i <= k
  BY <1>4, ListasSonSecuencias DEF Conserva
<1>6. CASE i > 2 /\ l[i - 1].libre
  <2>1. /\ i - 1 \in 1..k - 1 /\ (i - 1) + 1 = i /\ m = UnirConSiguiente(a, i - 1)
        /\ a[i - 1] = l[i - 1]
    BY <1>1, <1>3, <1>4, <1>5, <1>6
  <2>2. a[i].libre /\ a[i - 1].libre
    BY <1>4, <1>6, <2>1
  <2>3. PICK x : x = i - 1 /\ x \in 1..Len(a) - 1 /\ x + 1 = i
    BY <1>5, <2>1
  <2>4. a[x + 1].libre /\ a[x].libre /\ m = UnirConSiguiente(a, x)
    BY <2>1, <2>2, <2>3
  <2>5. Conserva(a, m)
    BY <1>5, <2>3, <2>4, UnirConserva
  <2>6. \A j \in 1..Len(m) - 1 : j # 0 => ~Pareja(m, j)
    <3>1. \A j \in 1..Len(a) - 1 : j # 0 /\ j # x => ~Pareja(a, j)
      BY <1>4, <2>3
    <3>2. QED
      BY <1>5, <2>3, <2>4, <3>1, UnirParejas
  <2>7. \A j \in 1..Len(m) - 1 : ~Pareja(m, j)
    <3>1. Len(m) \in Nat
      BY <2>5, ListasSonSecuencias DEF Conserva
    <3>2. QED
      BY <2>6, <3>1
  <2>8. Conserva(l, m)
    BY <1>4, <2>5, ConservaTrans
  <2>9. QED
    BY <2>5, <2>7, <2>8, SanaEs DEF Conserva
<1>7. CASE ~(i > 2 /\ l[i - 1].libre)
  <2>1. m = a
    BY <1>3, <1>7
  <2>2. ASSUME NEW j \in 1..k - 1, j = i - 1 PROVE ~Pareja(a, j)
    <3>1. a[j] = l[j]
      BY <1>1, <1>4, <2>2
    <3>2. CASE i > 2
      BY <1>7, <2>2, <3>1, <3>2 DEF Pareja
    <3>3. CASE ~(i > 2)
      <4>1. j = 1
        BY <1>1, <1>5, <2>2, <3>3
      <4>2. QED
        BY <1>5, <4>1 DEF Regular, Pareja
    <3>4. QED
      BY <3>2, <3>3
  <2>3. \A j \in 1..Len(a) - 1 : ~Pareja(a, j)
    BY <1>4, <1>5, <2>2
  <2>4. QED
    BY <1>4, <1>5, <2>1, <2>3, SanaEs
<1>8. QED
  BY <1>6, <1>7

(* Two holes that are not empty do not start together.                     *)
LEMMA BasesDistintas ==
  ASSUME NEW l \in Listas, Tesela(l), NEW i \in 1..Len(l), NEW j \in 1..Len(l),
         l[i].tamanio > 0, l[j].tamanio > 0, l[i].base = l[j].base
  PROVE  i = j
<1>1. /\ l[i].base \in Nat /\ l[i].tamanio \in Nat /\ l[j].base \in Nat /\ l[j].tamanio \in Nat
      /\ i \in Nat /\ j \in Nat
  BY ListasSonSecuencias
<1>2. ASSUME i < j PROVE FALSE
  <2>1. l[i].base + l[i].tamanio <= l[j].base
    BY <1>2, Orden
  <2>2. QED
    BY <1>1, <2>1
<1>3. ASSUME j < i PROVE FALSE
  <2>1. l[j].base + l[j].tamanio <= l[i].base
    BY <1>3, Orden
  <2>2. QED
    BY <1>1, <2>1
<1>4. QED
  BY <1>1, <1>2, <1>3

(* eliminar_segmento, of a base that is not that of segment 0: the list is *)
(* as good as it was, and only the hole with that base may be freed, which *)
(* it is when no hole is empty.                                            *)
LEMMA LiberarBien ==
  ASSUME NEW l \in Listas, Sana(l), NEW b, b # 0, NEW m, m = Liberar(l, b)
  PROVE  /\ m \in Listas /\ Sana(m) /\ m[1].tamanio >= l[1].tamanio
         /\ Ocupados(m) \subseteq Ocupados(l)
         /\ \A h \in Ocupados(l) : h.base # b => h \in Ocupados(m)
         /\ (\A i \in 1..Len(l) : l[i].tamanio > 0) =>
              /\ \A i \in 1..Len(m) : m[i].tamanio > 0
              /\ \A h \in Ocupados(m) : h.base # b
<1>1. PICK n \in Nat : n = Len(l) /\ n > 0
  <2>1. l # <<>>
    BY DEF Sana, Tesela
  <2>2. QED
    BY <2>1, ListasSonSecuencias, EmptySeq
<1>2. PICK k : k = IF b = Nulo THEN 0 ELSE IndiceDeBase(l, b)
  OBVIOUS
<1>3. m = IF k = 0 THEN Consolidar(l, 1) ELSE Consolidar([l EXCEPT ![k].libre = TRUE], k)
  BY <1>2 DEF Liberar
<1>4. Regular(l) /\ \A j \in 1..n - 1 : ~Pareja(l, j)
  BY <1>1, SanaEs
<1>5. CASE k = 0
  <2>1. Conserva(l, m) /\ Sana(m)
    BY <1>1, <1>3, <1>4, <1>5, ConsolidarBien
  <2>2. ASSUME NEW h \in Ocupados(l) PROVE h.base # b
    <3>1. PICK j \in 1..n : l[j] = h /\ h.base \in Nat
      BY <1>1, ListasSonSecuencias DEF Ocupados
    <3>2. CASE b = Nulo
      BY <3>1, <3>2, HuecosOK DEF HuecosOK
    <3>3. CASE b # Nulo
      <4>1. IndiceDeBase(l, b) = 0
        BY <1>2, <1>5, <3>3
      <4>2. ~ \E x \in 1..Len(l) : l[x].base = b
        BY <4>1, IndiceBien
      <4>3. QED
        BY <1>1, <3>1, <4>2
    <3>4. QED
      BY <3>2, <3>3
  <2>3. QED
    BY <2>1, <2>2 DEF Conserva
<1>6. CASE k # 0
  <2>1. k \in 1..n /\ l[k].base = b
    BY <1>1, <1>2, <1>6, IndiceBien
  <2>2. k # 1
    BY <2>1 DEF Sana, Tesela
  <2>3. PICK h : h = [l[k] EXCEPT !.libre = TRUE]
    OBVIOUS
  <2>4. l[k] \in TipoHueco
    BY <1>1, <2>1, ListasSonSecuencias
  <2>5. h \in TipoHueco
    BY <2>3, <2>4, SoltarHueco
  <2>6. h.base = b
    BY <2>1, <2>3, <2>4, SoltarHueco
  <2>7. h.tamanio = l[k].tamanio
    BY <2>3, <2>4, SoltarHueco
  <2>8. h.libre
    BY <2>3, <2>4, SoltarHueco
  <2>9. PICK a : a = [l EXCEPT ![k] = h] /\ m = Consolidar(a, k)
    BY <1>3, <1>6, <2>3
  <2>10. a \in Listas /\ Len(a) = n
    <3>1. k \in 1..Len(l)
      BY <1>1, <2>1
    <3>2. a \in Listas /\ Len(a) = Len(l)
      BY <2>5, <2>9, <3>1, CambiaHueco, ZenonT(30)
    <3>3. QED
      BY <1>1, <3>2
  <2>11. a[k] = h
    BY <1>1, <2>1, <2>5, <2>9, CambiaHueco
  <2>12. \A j \in 1..n : j # k => a[j] = l[j]
    <3>1. \A j \in 1..Len(l) : j # k => a[j] = l[j]
      BY <1>1, <2>1, <2>5, <2>9, CambiaHueco
    <3>2. QED
      BY <1>1, <3>1
  <2>13. \A j \in 1..n : a[j].base = l[j].base /\ a[j].tamanio = l[j].tamanio
    BY <2>1, <2>6, <2>7, <2>11, <2>12
  <2>14. Regular(a)
    <3>1. Tesela(a)
      <4>1. a # <<>>
        BY <1>1, <2>10
      <4>2. a[1].base = 0 /\ a[n].base + a[n].tamanio = TamMemoria
        BY <1>1, <1>4, <2>13 DEF Regular, Tesela
      <4>3. ASSUME NEW j \in 1..n - 1 PROVE a[j + 1].base = a[j].base + a[j].tamanio
        <5>1. j \in 1..n /\ j + 1 \in 1..n
          BY <1>1
        <5>2. l[j + 1].base = l[j].base + l[j].tamanio
          BY <1>1, <1>4 DEF Regular, Tesela
        <5>3. QED
          BY <2>13, <5>1, <5>2
      <4>4. QED
        BY <2>10, <4>1, <4>2, <4>3 DEF Tesela
    <3>2. a[1] = l[1]
      BY <1>1, <2>2, <2>12
    <3>3. ASSUME NEW j \in 1..n, ~a[j].libre PROVE a[j].tamanio > 0
      <4>1. j # k
        BY <2>8, <2>11, <3>3
      <4>2. a[j] = l[j]
        BY <2>12, <4>1
      <4>3. QED
        BY <1>1, <1>4, <3>3, <4>2 DEF Regular
    <3>4. QED
      BY <1>4, <2>10, <3>1, <3>2, <3>3 DEF Regular
  <2>15. ASSUME NEW j \in 1..n - 1, j # k - 1, j # k PROVE ~Pareja(a, j)
    <3>1. j \in 1..n /\ j + 1 \in 1..n /\ j + 1 # k
      BY <1>1, <2>1, <2>15
    <3>2. a[j] = l[j] /\ a[j + 1] = l[j + 1]
      BY <2>12, <2>15, <3>1
    <3>3. QED
      BY <1>4, <3>2 DEF Pareja
  <2>16. Conserva(a, m) /\ Sana(m)
    <3>1. k \in 1..Len(a) /\ (k # 1 => a[k].libre)
      BY <2>1, <2>8, <2>10, <2>11
    <3>2. \A j \in 1..Len(a) - 1 : j # k - 1 /\ j # k => ~Pareja(a, j)
      BY <2>10, <2>15
    <3>3. QED
      BY <2>9, <2>10, <2>14, <3>1, <3>2, ConsolidarBien
  <2>17. m[1].tamanio >= l[1].tamanio
    BY <1>1, <2>13, <2>16 DEF Conserva
  <2>18. ASSUME NEW x \in Ocupados(a)
         PROVE  x \in Ocupados(l) /\ \E j \in 2..n : j # k /\ l[j] = x
    <3>1. PICK j \in 2..n : a[j] = x /\ ~x.libre /\ x \in TipoHueco
      BY <2>10 DEF Ocupados
    <3>2. j # k
      BY <2>8, <2>11, <3>1
    <3>3. l[j] = x
      BY <1>1, <2>12, <3>1, <3>2
    <3>4. QED
      BY <1>1, <3>1, <3>2, <3>3 DEF Ocupados
  <2>19. ASSUME NEW x \in Ocupados(l), x.base # b PROVE x \in Ocupados(a)
    <3>1. PICK j \in 2..n : l[j] = x /\ ~x.libre /\ x \in TipoHueco
      BY <1>1 DEF Ocupados
    <3>2. j # k
      BY <2>1, <2>19, <3>1
    <3>3. a[j] = x
      BY <1>1, <2>12, <3>1, <3>2
    <3>4. QED
      BY <2>10, <3>1, <3>3 DEF Ocupados
  <2>20. ASSUME \A i \in 1..Len(l) : l[i].tamanio > 0
         PROVE  /\ \A i \in 1..Len(m) : m[i].tamanio > 0
                /\ \A x \in Ocupados(m) : x.base # b
    <3>1. \A i \in 1..Len(a) : a[i].tamanio > 0
      BY <1>1, <2>10, <2>13, <2>20
    <3>2. ASSUME NEW x \in Ocupados(a), x.base = b PROVE FALSE
      <4>1. PICK j \in 2..n : j # k /\ l[j] = x
        BY <2>18
      <4>2. j \in 1..n /\ l[j].base = l[k].base
        BY <2>1, <3>2, <4>1
      <4>3. QED
        BY <1>1, <1>4, <2>1, <2>20, <4>1, <4>2, BasesDistintas DEF Regular
    <3>3. QED
      BY <2>16, <3>1, <3>2 DEF Conserva
  <2>21. Ocupados(m) \subseteq Ocupados(l) /\ \A x \in Ocupados(l) : x.base # b => x \in Ocupados(m)
    BY <2>16, <2>18, <2>19 DEF Conserva
  <2>22. m \in Listas /\ Sana(m)
    BY <2>16 DEF Conserva
  <2>23. QED
    BY <2>17, <2>20, <2>21, <2>22
<1>7. QED
  BY <1>5, <1>6

(* modificar_lista_huecos adds a hole to those of the segments, and its    *)
(* base is that of none of them.                                           *)
LEMMA OcuparOcupados ==
  ASSUME NEW l \in Listas, Sana(l), NEW i \in 1..Len(l), l[i].libre,
         NEW t \in Nat \ {0}, l[i].tamanio >= t, NEW m, m = Ocupar(l, i, t)
  PROVE  /\ m[1] = l[1] /\ l[i].base # 0
         /\ Ocupados(l) \subseteq Ocupados(m)
         /\ \A h \in Ocupados(l) : h.base # l[i].base
         /\ \A h \in Ocupados(m) : h \in Ocupados(l) \/ h.base = l[i].base
         /\ \E h \in Ocupados(m) : h.base = l[i].base /\ h.tamanio = t
<1>1. PICK n \in Nat : n = Len(l) /\ i \in 1..n
  BY ListasSonSecuencias
<1>2. IndiceDeBase(l, l[i].base) = i /\ t \in Nat
  BY OcuparSana
<1>3. i # 1
  BY DEF Sana
<1>4. l[i].tamanio > 0
  <2>1. l[i].tamanio \in Nat /\ t > 0
    BY ListasSonSecuencias
  <2>2. QED
    BY <2>1
<1>5. Len(m) = n + 1
  BY <1>1, <1>2, OcuparPosiciones
<1>6. m[i].base = l[i].base /\ m[i].tamanio = t /\ ~m[i].libre
  BY <1>2, OcuparPosiciones
<1>7. m[i + 1].libre
  BY <1>2, OcuparPosiciones
<1>8. \A j \in 1..n : j < i => m[j] = l[j]
  BY <1>1, <1>2, OcuparPosiciones
<1>9. \A j \in 1..n + 1 : j > i + 1 => m[j] = l[j - 1]
  <2>1. \A j \in 1..Len(l) + 1 : j > i + 1 => m[j] = l[j - 1]
    BY <1>2, OcuparPosiciones, SMTT(30)
  <2>2. QED
    BY <1>1, <2>1
<1>10. m[1] = l[1]
  BY <1>1, <1>3, <1>8
<1>11. ASSUME NEW h \in Ocupados(l) PROVE h \in Ocupados(m) /\ h.base # l[i].base
  <2>1. PICK j \in 2..n : l[j] = h /\ ~h.libre /\ h \in TipoHueco
    BY <1>1 DEF Ocupados
  <2>2. j # i /\ j \in 1..n
    BY <1>1, <2>1
  <2>3. h.base # l[i].base
    <3>1. l[j].tamanio > 0
      BY <1>1, <2>1, <2>2 DEF Sana
    <3>2. QED
      BY <1>1, <1>4, <2>1, <2>2, <3>1, BasesDistintas DEF Sana
  <2>4. \E x \in 2..n + 1 : m[x] = h
    <3>1. CASE j < i
      BY <1>1, <1>8, <2>1, <2>2, <3>1
    <3>2. CASE j > i
      <4>1. j + 1 \in 2..n + 1 /\ j + 1 > i + 1 /\ (j + 1) - 1 = j /\ j + 1 \in 1..n + 1
        BY <1>1, <3>2
      <4>2. m[j + 1] = l[(j + 1) - 1]
        BY <1>9, <4>1
      <4>3. QED
        BY <2>1, <4>1, <4>2
    <3>3. QED
      BY <1>1, <2>2, <3>1, <3>2
  <2>5. QED
    BY <1>5, <2>1, <2>3, <2>4 DEF Ocupados
<1>12. ASSUME NEW h \in Ocupados(m) PROVE h \in Ocupados(l) \/ h.base = l[i].base
  <2>1. PICK j \in 2..n + 1 : m[j] = h /\ ~h.libre /\ h \in TipoHueco
    BY <1>5 DEF Ocupados
  <2>2. CASE j = i
    BY <1>6, <2>1, <2>2
  <2>3. CASE j < i
    <3>1. j \in 2..n /\ l[j] = h
      BY <1>1, <1>8, <2>1, <2>3
    <3>2. QED
      BY <1>1, <2>1, <3>1 DEF Ocupados
  <2>4. CASE j = i + 1
    BY <1>7, <2>1, <2>4
  <2>5. CASE j > i + 1
    <3>1. j - 1 \in 2..n /\ l[j - 1] = h
      BY <1>1, <1>9, <2>1, <2>5
    <3>2. QED
      BY <1>1, <2>1, <3>1 DEF Ocupados
  <2>6. QED
    BY <1>1, <2>2, <2>3, <2>4, <2>5
<1>13. m[i] \in Ocupados(m)
  <2>1. l[i].tamanio >= t
    OBVIOUS
  <2>2. m \in Listas
    BY <1>2, <2>1, OcuparTipo
  <2>3. i \in 2..n + 1
    BY <1>1, <1>3
  <2>4. m[i] \in TipoHueco
    BY <1>1, <1>5, <2>2, <2>3, ListasSonSecuencias
  <2>5. QED
    BY <1>5, <1>6, <2>3, <2>4 DEF Ocupados
<1>14. l[i].base # 0
  <2>1. 1 \in 1..n /\ l[1].tamanio > 0 /\ l[1].base = 0
    BY <1>1 DEF Sana, Tesela
  <2>2. QED
    BY <1>1, <1>3, <1>4, <2>1, BasesDistintas DEF Sana
<1>15. QED
  BY <1>6, <1>10, <1>11, <1>12, <1>13, <1>14

-----------------------------------------------------------------------------
(* The tables of the kernel and of memory.                                 *)
Coinciden ==
  /\ DOMAIN tablas = Procesos /\ DOMAIN tablasKernel = Procesos /\ activos \subseteq Procesos
  /\ TablasCoinciden

(* One request of a process leaves the two copies of its table the same.   *)
LEMMA PedidoCoincide ==
  ASSUME Coinciden, NEW p \in Procesos, NEW tabla,
         tablas' = [tablas EXCEPT ![p] = tabla],
         tablasKernel' = [tablasKernel EXCEPT ![p] = tabla],
         atrasados' = atrasados \ {p}, activos' \subseteq activos
  PROVE  Coinciden'
<1>1. \A q \in Procesos : q # p => tablas'[q] = tablas[q] /\ tablasKernel'[q] = tablasKernel[q]
  BY DEF Coinciden
<1>2. tablas'[p] = tablasKernel'[p]
  BY DEF Coinciden
<1>3. ASSUME NEW q \in activos' \ atrasados' PROVE tablasKernel'[q] = tablas'[q]
  <2>1. q \in Procesos /\ (q # p => q \in activos \ atrasados)
    BY <1>3 DEF Coinciden
  <2>2. q # p => tablasKernel[q] = tablas[q]
    BY <2>1 DEF Coinciden, TablasCoinciden
  <2>3. QED
    BY <1>1, <1>2, <2>1, <2>2
<1>4. /\ DOMAIN tablas' = Procesos /\ DOMAIN tablasKernel' = Procesos
      /\ activos' \subseteq Procesos
  BY DEF Coinciden
<1>5. QED
  BY <1>3, <1>4 DEF Coinciden, TablasCoinciden

(* Compacting sends their tables to all but those it leaves behind.        *)
LEMMA CompactarCoincide ==
  ASSUME Coinciden, NEW p \in Procesos, NEW id, NEW t, CompactarPara(p, id, t)
  PROVE  Coinciden'
<1>1. PICK ts : /\ tablas' = [q \in Procesos |-> ts[q]]
                /\ \E esperan \in SUBSET (activos \ {p}) :
                     /\ atrasados' = esperan \union {p}
                     /\ tablasKernel' = [q \in Procesos |->
                          IF q \in activos \ (esperan \union {p}) THEN ts[q]
                                                                  ELSE tablasKernel[q]]
  BY DEF CompactarPara
<1>2. PICK esperan \in SUBSET (activos \ {p}) :
        /\ atrasados' = esperan \union {p}
        /\ tablasKernel' = [q \in Procesos |->
             IF q \in activos \ (esperan \union {p}) THEN ts[q] ELSE tablasKernel[q]]
  BY <1>1
<1>3. activos' \subseteq activos
  BY DEF CompactarPara
<1>4. ASSUME NEW q \in activos' \ atrasados' PROVE tablasKernel'[q] = tablas'[q]
  <2>1. q \in Procesos /\ q \in activos \ (esperan \union {p})
    BY <1>2, <1>3, <1>4 DEF Coinciden
  <2>2. tablasKernel'[q] = ts[q]
    BY <1>2, <2>1
  <2>3. tablas'[q] = ts[q]
    BY <1>1, <2>1
  <2>4. QED
    BY <2>2, <2>3
<1>5. /\ DOMAIN tablas' = Procesos /\ DOMAIN tablasKernel' = Procesos
      /\ activos' \subseteq Procesos
  BY <1>1, <1>2, <1>3 DEF Coinciden
<1>6. QED
  BY <1>4, <1>5 DEF Coinciden, TablasCoinciden

(* Every step.                                                             *)
LEMMA CoincidenPasos == Coinciden /\ [Next]_vars => Coinciden'
<1> SUFFICES ASSUME Coinciden, [Next]_vars PROVE Coinciden'
  OBVIOUS
<1>1. CASE UNCHANGED vars
  BY <1>1 DEF vars, Coinciden, TablasCoinciden
<1>2. ASSUME NEW p \in Procesos, CrearPCB(p) PROVE Coinciden'
  <2>1. /\ tablas' = [tablas EXCEPT ![p] = TablaInicial]
        /\ tablasKernel' = [tablasKernel EXCEPT ![p] = TablaInicial]
        /\ activos' = activos \union {p} /\ atrasados' = atrasados
    BY <1>2 DEF CrearPCB
  <2> HIDE DEF TablaInicial
  <2>2. tablas'[p] = tablasKernel'[p]
    BY <2>1 DEF Coinciden
  <2>3. \A q \in Procesos : q # p => tablas'[q] = tablas[q] /\ tablasKernel'[q] = tablasKernel[q]
    BY <2>1 DEF Coinciden
  <2>4. DOMAIN tablas' = Procesos /\ DOMAIN tablasKernel' = Procesos /\ activos' \subseteq Procesos
    BY <2>1 DEF Coinciden
  <2>5. ASSUME NEW q \in activos' \ atrasados' PROVE tablasKernel'[q] = tablas'[q]
    <3>1. q \in Procesos /\ (q # p => q \in activos \ atrasados)
      BY <2>1, <2>4
    <3>2. q # p => tablasKernel[q] = tablas[q]
      BY <3>1 DEF Coinciden, TablasCoinciden
    <3>3. QED
      BY <2>2, <2>3, <3>1, <3>2
  <2>6. QED
    BY <2>4, <2>5 DEF Coinciden, TablasCoinciden
<1>3. ASSUME NEW p \in Procesos, Terminar(p) PROVE Coinciden'
  BY <1>3 DEF Terminar, Coinciden, TablasCoinciden
<1>4. ASSUME NEW p \in Procesos, NEW id \in Ids, EliminarSegmento(p, id) PROVE Coinciden'
  <2>1. PICK tabla : /\ tablas' = [tablas EXCEPT ![p] = tabla]
                     /\ tablasKernel' = [tablasKernel EXCEPT ![p] = tabla]
                     /\ atrasados' = atrasados \ {p} /\ activos' = activos
    BY <1>4 DEF EliminarSegmento
  <2>2. QED
    BY <2>1, PedidoCoincide
<1>5. ASSUME NEW p \in Procesos, NEW id \in Ids, NEW t \in Tamanios, CrearSegmento(p, id, t)
      PROVE  Coinciden'
  <2>1. PICK tabla : /\ tablas' = [tablas EXCEPT ![p] = tabla]
                     /\ tablasKernel' = [tablasKernel EXCEPT ![p] = tabla]
                     /\ atrasados' = atrasados \ {p} /\ activos' = activos
    BY <1>5 DEF CrearSegmento
  <2>2. QED
    BY <2>1, PedidoCoincide
<1>6. ASSUME NEW p \in Procesos, NEW id \in Ids, NEW t \in Tamanios, CompactarPara(p, id, t)
      PROVE  Coinciden'
  BY <1>6, CompactarCoincide
<1>7. ASSUME NEW p \in Procesos, NEW id \in Ids, NEW t \in Tamanios, SinMemoria(p, id, t)
      PROVE  Coinciden'
  BY <1>7 DEF SinMemoria, Coinciden, TablasCoinciden
<1>8. QED
  BY <1>1, <1>2, <1>3, <1>4, <1>5, <1>6, <1>7 DEF Next

(* The kernel and memory have the same table of every process that made a  *)
(* request or got its table since the last compaction, however many of     *)
(* these there were and whatever they found waiting.                       *)
THEOREM CopiasIguales == Spec => []TablasCoinciden
<1>1. Init => Coinciden
  BY DEF Init, Coinciden, TablasCoinciden
<1>2. Coinciden => TablasCoinciden
  BY DEF Coinciden
<1>3. QED
  BY <1>1, <1>2, CoincidenPasos, PTL DEF Spec

-----------------------------------------------------------------------------
(* The list of holes. Whatever base is freed, it stays a list of holes.    *)
LEMMA ConsolidarTipo ==
  ASSUME NEW l \in Listas, NEW i \in Nat \ {0}, i = 1 \/ i <= Len(l)
  PROVE  Consolidar(l, i) \in Listas
<1>1. PICK n \in Nat : n = Len(l)
  BY ListasSonSecuencias
<1>2. PICK a : a = IF i < Len(l) /\ l[i + 1].libre THEN UnirConSiguiente(l, i) ELSE l
  OBVIOUS
<1>3. Consolidar(l, i) = IF i > 2 /\ l[i - 1].libre THEN UnirConSiguiente(a, i - 1) ELSE a
  BY <1>2 DEF Consolidar
<1>4. a \in Listas /\ (i > 2 => Len(a) >= i)
  <2>1. CASE i < n /\ l[i + 1].libre
    <3>1. i \in 1..Len(l) - 1 /\ a = UnirConSiguiente(l, i)
      BY <1>1, <1>2, <2>1
    <3>2. a \in Listas /\ Len(a) = n - 1
      BY <1>1, <3>1, UnirPosiciones
    <3>3. QED
      BY <1>1, <2>1, <3>2
  <2>2. CASE ~(i < n /\ l[i + 1].libre)
    BY <1>1, <1>2, <2>2
  <2>3. QED
    BY <2>1, <2>2
<1>5. CASE i > 2 /\ l[i - 1].libre
  <2>1. Len(a) \in Nat
    BY <1>4, ListasSonSecuencias
  <2>2. PICK x : x = i - 1 /\ x \in 1..Len(a) - 1
    BY <1>4, <1>5, <2>1
  <2>3. PICK m : m = UnirConSiguiente(a, x)
    OBVIOUS
  <2>4. m \in Listas
    BY <1>4, <2>2, <2>3, UnirPosiciones
  <2>5. QED
    BY <1>3, <1>5, <2>2, <2>3, <2>4
<1>6. QED
  BY <1>3, <1>4, <1>5

(* So does freeing a base.                                                 *)
LEMMA LiberarTipo ==
  ASSUME NEW l \in Listas, NEW b
  PROVE  Liberar(l, b) \in Listas
<1>1. PICK k : k = IF b = Nulo THEN 0 ELSE IndiceDeBase(l, b)
  OBVIOUS
<1>2. Liberar(l, b) = IF k = 0 THEN Consolidar(l, 1) ELSE Consolidar([l EXCEPT ![k].libre = TRUE], k)
  BY <1>1 DEF Liberar
<1>3. CASE k = 0
  BY <1>2, <1>3, ConsolidarTipo
<1>4. CASE k # 0
  <2>1. k \in 1..Len(l) /\ Len(l) \in Nat
    BY <1>1, <1>4, IndiceBien, ListasSonSecuencias
  <2>2. l[k] \in TipoHueco
    BY <2>1, ListasSonSecuencias
  <2>3. PICK h : h = [l[k] EXCEPT !.libre = TRUE]
    OBVIOUS
  <2>4. h \in TipoHueco
    BY <2>2, <2>3, SoltarHueco
  <2>5. PICK a : a = [l EXCEPT ![k] = h] /\ Liberar(l, b) = Consolidar(a, k)
    BY <1>2, <1>4, <2>3
  <2>6. a \in Listas /\ Len(a) = Len(l)
    BY <2>1, <2>4, <2>5, CambiaHueco, ZenonT(30)
  <2>7. k \in Nat \ {0} /\ k <= Len(a)
    BY <2>1, <2>6
  <2>8. Consolidar(a, k) \in Listas
    BY <2>6, <2>7, ConsolidarTipo
  <2>9. QED
    BY <2>5, <2>8
<1>5. QED
  BY <1>3, <1>4

-----------------------------------------------------------------------------
(* The loops of memory are folds. Each is unrolled into the states its     *)
(* turns go through; g says which loop it is.                              *)
Paso(g, e, s) ==
  IF g.bucle = "vuelta" THEN Vuelta(s)
  ELSE IF g.bucle = "reubicar" THEN Reubicar(s, e)
  ELSE IF g.bucle = "suma" THEN (IF e.libre THEN s + e.tamanio ELSE s)
  ELSE IF e <= g.i \/ (e - g.i) % 2 = 0 THEN Append(s, g.l[e]) ELSE s

(* The function a fold iterates on, over the sets of positions.            *)
Iteracion(it, h, t, n, g) ==
  it = [s \in SUBSET (1..n) |->
          IF s = {} THEN h ELSE Paso(g, t[Max(s)], it[s \ {Max(s)}])]

(* There is such a function for every length: one more position only adds  *)
(* the sets in which it is the last.                                       *)
LEMMA IteracionExiste ==
  ASSUME NEW h, NEW t, NEW n \in Nat, NEW g
  PROVE  \E it : Iteracion(it, h, t, n, g)
<1> DEFINE T == {k \in Nat : ~ \E it : Iteracion(it, h, t, k, g)}
<1>1. SUFFICES ASSUME T # {} PROVE FALSE
  OBVIOUS
<1>2. PICK k \in T : \A x \in T : k <= x
  BY <1>1, Primero
<1>3. CASE k = 0
  <2> DEFINE f == [s \in SUBSET (1..0) |-> h]
  <2>1. SUBSET (1..0) = {{}}
    OBVIOUS
  <2>2. Iteracion(f, h, t, 0, g)
    BY <2>1 DEF Iteracion
  <2>3. QED
    BY <1>2, <1>3, <2>2
<1>4. CASE k # 0
  <2>1. k \in Nat /\ k - 1 \in Nat /\ k - 1 \notin T
    BY <1>2, <1>4
  <2>2. PICK f : Iteracion(f, h, t, k - 1, g)
    BY <2>1
  <2> DEFINE G(s) == IF k \in s THEN Paso(g, t[k], f[s \ {k}]) ELSE f[s]
             m == [s \in SUBSET (1..k) |-> G(s)]
  <2>3. ASSUME NEW s \in SUBSET (1..k)
        PROVE  G(s) = IF s = {} THEN h ELSE Paso(g, t[Max(s)], m[s \ {Max(s)}])
    <3>1. CASE s = {}
      <4>1. s \in SUBSET (1..k - 1)
        BY <3>1
      <4>2. QED
        BY <2>2, <3>1, <4>1 DEF Iteracion
    <3>2. CASE k \in s
      <4>1. Max(s) = k
        <5>1. Max(s) \in s /\ k <= Max(s)
          BY <2>1, <3>2, MaximoAcotado
        <5>2. Max(s) \in 1..k
          BY <5>1
        <5>3. QED
          BY <2>1, <5>1, <5>2
      <4>2. s \ {k} \in SUBSET (1..k) /\ k \notin s \ {k}
        OBVIOUS
      <4>3. m[s \ {k}] = f[s \ {k}]
        BY <4>2
      <4>4. QED
        BY <3>2, <4>1, <4>3
    <3>3. CASE s # {} /\ k \notin s
      <4>1. s \in SUBSET (1..k - 1)
        BY <2>1, <3>3
      <4>2. f[s] = Paso(g, t[Max(s)], f[s \ {Max(s)}])
        BY <2>2, <3>3, <4>1 DEF Iteracion
      <4>3. m[s \ {Max(s)}] = f[s \ {Max(s)}]
        BY <3>3
      <4>4. QED
        BY <3>3, <4>2, <4>3
    <3>4. QED
      BY <3>1, <3>2, <3>3
  <2>4. m = [s \in SUBSET (1..k) |->
               IF s = {} THEN h ELSE Paso(g, t[Max(s)], m[s \ {Max(s)}])]
    BY <2>3
  <2>5. QED
    BY <1>2, <2>4 DEF Iteracion
<1>5. QED
  BY <1>3, <1>4

(* The states after 0, 1, ..., n turns.                                    *)
Turnos(F, h, t, n, g) ==
  /\ DOMAIN F = 0..n /\ F[0] = h
  /\ \A k \in 1..n : F[k] = Paso(g, t[k], F[k - 1])

(* Its last state is the value of the fold.                                *)
LEMMA IteracionPorTurnos ==
  ASSUME NEW h, NEW t, NEW n \in Nat, NEW g, NEW it, Iteracion(it, h, t, n, g)
  PROVE  \E F : Turnos(F, h, t, n, g) /\ F[n] = it[1..n]
<1> DEFINE F == [k \in 0..n |-> it[1..k]]
<1>1. F[0] = h
  <2>1. 1..0 = {} /\ 0 \in 0..n
    OBVIOUS
  <2>2. QED
    BY <2>1 DEF Iteracion
<1>2. ASSUME NEW k \in 1..n PROVE F[k] = Paso(g, t[k], F[k - 1])
  <2>0. k \in 1..k
    OBVIOUS
  <2>1. 1..k \in SUBSET (1..n) /\ 1..k # {}
    <3>1. \A x \in 1..k : x \in 1..n
      OBVIOUS
    <3>2. QED
      BY <3>1, <2>0
  <2>2. Max(1..k) = k
    <3>1. Max(1..k) \in 1..k /\ k <= Max(1..k)
      BY <2>0, <2>1, MaximoAcotado
    <3>2. QED
      BY <3>1
  <2>3. (1..k) \ {k} = 1..k - 1
    OBVIOUS
  <2>4. it[1..k] = Paso(g, t[k], it[1..k - 1])
    BY <2>1, <2>2, <2>3 DEF Iteracion
  <2>5. k \in 0..n /\ k - 1 \in 0..n
    OBVIOUS
  <2>6. QED
    BY <2>4, <2>5
<1>3. F[n] = it[1..n]
  OBVIOUS
<1> HIDE DEF F
<1>4. DOMAIN F = 0..n
  BY DEF F
<1>5. QED
  BY <1>1, <1>2, <1>3, <1>4 DEF Turnos

(* What holds at the start and is kept by the turns holds at the end.      *)
(* Set of the states that are right, one for each number of turns.         *)
LEMMA Induccion ==
  ASSUME NEW n \in Nat, NEW Mal \in SUBSET (0..n), 0 \notin Mal,
         \A k \in 1..n : k - 1 \notin Mal => k \notin Mal
  PROVE  Mal = {}
<1> SUFFICES ASSUME Mal # {} PROVE FALSE
  OBVIOUS
<1>1. PICK k \in Mal : \A x \in Mal : k <= x
  BY Primero
<1>2. k \in 1..n /\ k - 1 \notin Mal
  BY <1>1
<1>3. QED
  BY <1>1, <1>2

-----------------------------------------------------------------------------
(* The four folds.                                                         *)
LEMMA LibrePorTurnos ==
  ASSUME NEW l \in Listas
  PROVE  \E F : Turnos(F, 0, l, Len(l), [bucle |-> "suma"]) /\ Libre(l) = F[Len(l)]
<1>1. PICK n \in Nat : n = Len(l) /\ DOMAIN l = 1..n
  BY ListasSonSecuencias
<1> DEFINE g == [bucle |-> "suma"]
           P(it) == it = [s \in SUBSET (1..n) |->
                  IF s = {} THEN 0
                  ELSE IF l[Max(s)].libre
                       THEN it[s \ {Max(s)}] + l[Max(s)].tamanio
                       ELSE it[s \ {Max(s)}]]
           f == CHOOSE it : P(it)
<1>2. Libre(l) = f[1..n]
  BY <1>1 DEF Libre, FoldLeft, MapThenFoldSet
<1>3. \A e, s : Paso(g, e, s) = IF e.libre THEN s + e.tamanio ELSE s
  BY DEF Paso
<1>4. \A it : P(it) <=> Iteracion(it, 0, l, n, g)
  <2> HIDE DEF g
  <2>1. QED
    BY <1>3 DEF Iteracion
<1> HIDE DEF P, g
<1>5. Iteracion(f, 0, l, n, g)
  BY <1>4, IteracionExiste
<1> HIDE DEF f
<1>6. QED
  BY <1>1, <1>2, <1>5, IteracionPorTurnos DEF g

(* The removal of every other hole on the right.                           *)
LEMMA QuitarPorTurnos ==
  ASSUME NEW l \in Listas, NEW i
  PROVE  \E F : /\ Turnos(F, <<>>, [k \in 1..Len(l) |-> k], Len(l),
                         [bucle |-> "quitar", i |-> i, l |-> l])
               /\ QuitarDeLaDerecha(l, i) = F[Len(l)]
<1>1. PICK n \in Nat : n = Len(l) /\ DOMAIN l = 1..n
  BY ListasSonSecuencias
<1> DEFINE g == [bucle |-> "quitar", i |-> i, l |-> l]
           t == [k \in DOMAIN l |-> k]
           P(it) == it = [s \in SUBSET (1..n) |->
                  IF s = {} THEN <<>>
                  ELSE IF t[Max(s)] <= i \/ (t[Max(s)] - i) % 2 = 0
                       THEN Append(it[s \ {Max(s)}], l[t[Max(s)]])
                       ELSE it[s \ {Max(s)}]]
           f == CHOOSE it : P(it)
<1>2. QuitarDeLaDerecha(l, i) = f[1..n]
  BY <1>1 DEF QuitarDeLaDerecha, FoldLeftDomain, FoldLeft, MapThenFoldSet
<1>3. \A e, s : Paso(g, e, s) = IF e <= i \/ (e - i) % 2 = 0 THEN Append(s, l[e]) ELSE s
  BY DEF Paso
<1>4. \A it : P(it) <=> Iteracion(it, <<>>, t, n, g)
  <2> HIDE DEF g, t
  <2>1. QED
    BY <1>3, ZenonT(30) DEF Iteracion
<1> HIDE DEF P, g
<1>5. Iteracion(f, <<>>, t, n, g)
  BY <1>4, IteracionExiste
<1> HIDE DEF f
<1>6. t = [k \in 1..Len(l) |-> k]
  BY <1>1
<1> HIDE DEF t
<1>7. \E F : Turnos(F, <<>>, t, n, g) /\ F[n] = f[1..n]
  BY <1>5, IteracionPorTurnos
<1>8. QED
  BY <1>1, <1>2, <1>6, <1>7 DEF g

(* The first loop of compactar, which gathers the free holes.              *)
InicioJuntar(l) == [l |-> l, i |-> 2, nuevo |-> 0, primera |-> Nulo, fin |-> FALSE]

(* By its turns.                                                           *)
LEMMA JuntarPorTurnos ==
  ASSUME NEW l \in Listas, NEW n \in Nat, n = Len(l),
         NEW m \in Nat, m = n + n
  PROVE  \E F : /\ Turnos(F, InicioJuntar(l), [k \in 1..m |-> k], m,
                         [bucle |-> "vuelta"])
               /\ JuntarLibres(l) = F[m].l
<1> DEFINE h == InicioJuntar(l)
           g == [bucle |-> "vuelta"]
           ll == l \o l
           t == [k \in DOMAIN ll |-> k]
           P(it) == it = [s \in SUBSET (1..m) |->
                  IF s = {} THEN h ELSE Vuelta(it[s \ {Max(s)}])]
           f == CHOOSE it : P(it)
<1>1. DOMAIN ll = 1..m
  <2>1. l \in Seq(TipoHueco)
    BY ListasSonSecuencias
  <2>2. ll \in Seq(TipoHueco) /\ Len(ll) = m
    BY <2>1, ConcatProperties
  <2>3. QED
    BY <2>2, LenProperties
<1>2. JuntarLibres(l) = f[1..m].l
  BY <1>1 DEF JuntarLibres, FoldLeftDomain, FoldLeft, MapThenFoldSet, InicioJuntar
<1> HIDE DEF ll
<1>6. t = [k \in 1..m |-> k] /\ DOMAIN t = 1..m
  BY <1>1
<1>3. \A e, s : Paso(g, e, s) = Vuelta(s)
  BY DEF Paso
<1>4. \A it : P(it) <=> Iteracion(it, h, t, m, g)
  <2> HIDE DEF g, t, h
  <2>1. \A it, s : Paso(g, t[Max(s)], it[s \ {Max(s)}]) = Vuelta(it[s \ {Max(s)}])
    BY <1>3
  <2> SUFFICES ASSUME NEW it PROVE P(it) <=> Iteracion(it, h, t, m, g)
    OBVIOUS
  <2>2. \A s \in SUBSET (1..m) :
          (IF s = {} THEN h ELSE Vuelta(it[s \ {Max(s)}]))
            = (IF s = {} THEN h ELSE Paso(g, t[Max(s)], it[s \ {Max(s)}]))
    BY <2>1
  <2>3. [s \in SUBSET (1..m) |-> IF s = {} THEN h ELSE Vuelta(it[s \ {Max(s)}])]
          = [s \in SUBSET (1..m) |-> IF s = {} THEN h ELSE Paso(g, t[Max(s)], it[s \ {Max(s)}])]
    BY <2>2
  <2>4. QED
    BY <2>3 DEF Iteracion
<1> HIDE DEF P, g, h
<1>5. Iteracion(f, h, t, m, g)
  <2>2. \E it : Iteracion(it, h, t, m, g)
    BY IteracionExiste
  <2>3. \E it : P(it)
    BY <1>4, <2>2
  <2>4. P(f)
    BY <2>3
  <2>5. QED
    BY <1>4, <2>4
<1> HIDE DEF f, t
<1>7. \E F : Turnos(F, h, t, m, g) /\ F[m] = f[1..m]
  BY <1>5, IteracionPorTurnos
<1>8. QED
  BY <1>2, <1>6, <1>7 DEF g, h

(* The second, which lays the holes one after the other.                   *)
InicioReubicar(l, ts) ==
  [l |-> l, tablas |-> ts, base |-> l[1].base, tamanio |-> l[1].tamanio]

(* By its turns.                                                           *)
LEMMA CompactarPorTurnos ==
  ASSUME NEW l, NEW ts, NEW juntos, juntos = JuntarLibres(l),
         NEW n \in Nat, 1..Len(juntos) - 1 = 1..n
  PROVE  \E F : /\ Turnos(F, InicioReubicar(juntos, ts), [k \in 1..n |-> k + 1], n,
                         [bucle |-> "reubicar"])
               /\ Compactar(l, ts) = F[n]
<1> DEFINE h == InicioReubicar(juntos, ts)
           g == [bucle |-> "reubicar"]
           t == [k \in 1..Len(juntos) - 1 |-> k + 1]
           P(it) == it = [s \in SUBSET (1..n) |->
                  IF s = {} THEN h ELSE Reubicar(it[s \ {Max(s)}], t[Max(s)])]
           f == CHOOSE it : P(it)
<1>2. Compactar(l, ts) = f[1..n]
  BY ZenonT(30) DEF Compactar, FoldLeft, MapThenFoldSet, InicioReubicar
<1>6. t = [k \in 1..n |-> k + 1] /\ DOMAIN t = 1..n
  OBVIOUS
<1>3. \A e, s : Paso(g, e, s) = Reubicar(s, e)
  BY DEF Paso
<1>4. \A it : P(it) <=> Iteracion(it, h, t, n, g)
  <2> HIDE DEF g, t, h
  <2>1. QED
    BY <1>3 DEF Iteracion
<1> HIDE DEF P, g, h
<1>5. Iteracion(f, h, t, n, g)
  BY <1>4, IteracionExiste
<1> HIDE DEF f, t
<1>7. \E F : Turnos(F, h, t, n, g) /\ F[n] = f[1..n]
  BY <1>5, IteracionPorTurnos
<1>8. QED
  BY <1>2, <1>6, <1>7 DEF g, h

-----------------------------------------------------------------------------
(* What the loops of compactar leave has the types it should, whatever     *)
(* they are given.                                                         *)

(* The other holes that follow are taken out; when only one does, just it. *)
LEMMA QuitarTipo ==
  ASSUME NEW l \in Listas, NEW n \in Nat, n = Len(l), NEW i \in Nat, NEW r,
         r = QuitarDeLaDerecha(l, i)
  PROVE  /\ r \in Listas
         /\ i = n => r = l
         /\ i \in 1..n /\ i = n - 1 => Len(r) = i /\ \A j \in 1..i : r[j] = l[j]
<1> DEFINE g == [bucle |-> "quitar", i |-> i, l |-> l]
           t == [k \in 1..n |-> k]
<1>1. PICK F : Turnos(F, <<>>, t, n, g) /\ r = F[n]
  BY QuitarPorTurnos
<1>2. F[0] = <<>>
  BY <1>1 DEF Turnos
<1>3. ASSUME NEW k \in 1..n
      PROVE  F[k] = IF k <= i \/ (k - i) % 2 = 0 THEN Append(F[k - 1], l[k]) ELSE F[k - 1]
  <2>1. F[k] = Paso(g, t[k], F[k - 1])
    BY <1>1 DEF Turnos
  <2>2. t[k] = k
    OBVIOUS
  <2>3. QED
    BY <2>1, <2>2 DEF Paso
<1> HIDE DEF t, g
<1>4. \A k \in 0..n : F[k] \in Listas
  <2> DEFINE Mal == {k \in 0..n : F[k] \notin Listas}
  <2>0. <<>> \in Listas
    BY DEF Listas
  <2>1. 0 \notin Mal
    BY <1>2, <2>0
  <2>2. ASSUME NEW k \in 1..n, k - 1 \notin Mal PROVE k \notin Mal
    <3>1. F[k - 1] \in Listas /\ l[k] \in TipoHueco
      BY <2>2, ListasSonSecuencias
    <3>2. Append(F[k - 1], l[k]) \in Listas
      BY <3>1, AppendProperties DEF Listas, TipoHueco
    <3>3. QED
      BY <1>3, <3>1, <3>2
  <2>3. Mal = {}
    <3> HIDE DEF Mal
    <3>0. Mal \in SUBSET (0..n)
      BY DEF Mal
    <3>1. QED
      BY <2>1, <2>2, <3>0, Induccion
  <2>4. QED
    BY <2>3
<1> DEFINE Copia(k) == Len(F[k]) = k /\ \A j \in 1..k : F[k][j] = l[j]
           Otras == {k \in 0..n : k <= i /\ ~Copia(k)}
<1>5. Otras = {}
  <2>1. 0 \notin Otras
    <3>1. Len(F[0]) = 0
      BY <1>2
    <3>2. QED
      BY <3>1
  <2>2. ASSUME NEW k \in 1..n, k - 1 \notin Otras PROVE k \notin Otras
    <3> SUFFICES ASSUME k <= i PROVE Copia(k)
      OBVIOUS
    <3>1. k - 1 \in 0..n /\ Copia(k - 1)
      BY <2>2
    <3>2. F[k] = Append(F[k - 1], l[k])
      BY <1>3
    <3>3. F[k - 1] \in Seq(TipoHueco) /\ l[k] \in TipoHueco
      BY <1>4, <3>1, ListasSonSecuencias
    <3>4. Len(F[k]) = k /\ F[k][k] = l[k] /\ \A j \in 1..k - 1 : F[k][j] = F[k - 1][j]
      BY <3>1, <3>2, <3>3, AppendProperties
    <3>5. QED
      BY <3>1, <3>4
  <2>3. QED
    <3> HIDE DEF Otras
    <3>0. Otras \in SUBSET (0..n)
      BY DEF Otras
    <3>1. QED
      BY <2>1, <2>2, <3>0, Induccion
<1>6. ASSUME i = n PROVE r = l
  <2>1. Copia(n)
    BY <1>5, <1>6
  <2>2. F[n] \in Seq(TipoHueco) /\ l \in Seq(TipoHueco)
    BY <1>4, ListasSonSecuencias
  <2>3. QED
    BY <1>1, <2>1, <2>2, SeqEqual
<1>7. ASSUME i \in 1..n, i = n - 1 PROVE Len(r) = i /\ \A j \in 1..i : r[j] = l[j]
  <2>1. Copia(i)
    BY <1>5, <1>7, SMTT(30)
  <2>2. F[n] = F[n - 1]
    <3>1. (n - i) % 2 # 0 /\ ~(n <= i)
      <4>1. n - i = 1
        BY <1>7
      <4>2. QED
        BY <4>1, <1>7
    <3>2. QED
      BY <1>3, <1>7, <3>1
  <2>3. QED
    BY <1>1, <1>7, <2>1, <2>2
<1>8. r \in Listas
  BY <1>1, <1>4
<1>9. QED
  BY <1>6, <1>7, <1>8

(* The states of the first loop.                                           *)
EstadosDeJuntar ==
  [l : Listas, i : Nat \ {0}, nuevo : Nat, primera : Nat \union {Nulo}, fin : BOOLEAN]

(* A turn of the first loop keeps them.                                    *)
LEMMA VueltaTipo ==
  ASSUME NEW c \in EstadosDeJuntar
  PROVE  Vuelta(c) \in EstadosDeJuntar
<1>1. /\ c.l \in Listas /\ c.i \in Nat \ {0} /\ c.nuevo \in Nat
      /\ c.primera \in Nat \union {Nulo} /\ c.fin \in BOOLEAN
  BY DEF EstadosDeJuntar
<1>2. CASE c.fin \/ c.i > Len(c.l)
  BY <1>2 DEF Vuelta
<1>3. CASE ~(c.fin \/ c.i > Len(c.l))
  <2>1. PICK h : h = c.l[c.i]
    OBVIOUS
  <2>2. c.i \in 1..Len(c.l) /\ Len(c.l) \in Nat
    BY <1>1, <1>3, ListasSonSecuencias
  <2>3. h \in TipoHueco /\ h.base \in Nat /\ h.tamanio \in Nat
    BY <1>1, <2>1, <2>2, ListasSonSecuencias
  <2>4. CASE c.primera = h.base
    <3>1. PICK m : m = [c.l EXCEPT ![c.i].tamanio = c.nuevo]
      OBVIOUS
    <3>2. m = [c.l EXCEPT ![c.i] = Hueco(h.base, c.nuevo, h.libre)]
      BY <1>1, <2>1, <2>3, <3>1 DEF TipoHueco, Hueco
    <3>a. PICK x \in TipoHueco : x = Hueco(h.base, c.nuevo, h.libre)
      BY <1>1, <2>3, CamposDeHueco
    <3>3. m \in Listas /\ Len(m) = Len(c.l)
      BY <1>1, <2>2, <3>2, <3>a, CambiaHueco
    <3>4. PICK r : r = QuitarDeLaDerecha(m, c.i)
      OBVIOUS
    <3>5. r \in Listas
      BY <1>1, <2>2, <3>3, <3>4, QuitarTipo
    <3>6. Vuelta(c) = [c EXCEPT !.l = r, !.fin = TRUE]
      BY <1>3, <2>1, <2>4, <3>1, <3>4 DEF Vuelta
    <3>7. QED
      BY <3>5, <3>6 DEF EstadosDeJuntar
  <2>5. CASE c.primera # h.base /\ h.libre
    <3>1. PICK r : r = Append(RemoveAt(c.l, c.i), h)
      OBVIOUS
    <3>2. r \in Listas
      BY <1>1, <2>2, <2>3, <3>1, QuitaHueco, AppendProperties DEF Listas, TipoHueco
    <3>3. Vuelta(c) = [c EXCEPT !.l = r, !.nuevo = @ + h.tamanio,
                                !.primera = IF @ = Nulo THEN h.base ELSE @]
      BY <1>3, <2>1, <2>5, <3>1 DEF Vuelta
    <3>4. PICK u \in Nat : u = c.nuevo + h.tamanio
      BY <1>1, <2>3
    <3>5. PICK q \in Nat \union {Nulo} : q = IF c.primera = Nulo THEN h.base ELSE c.primera
      BY <1>1, <2>3
    <3>6. Vuelta(c) = [c EXCEPT !.l = r, !.nuevo = u, !.primera = q]
      BY <3>3, <3>4, <3>5 DEF EstadosDeJuntar
    <3>7. QED
      BY <3>2, <3>6 DEF EstadosDeJuntar
  <2>6. CASE c.primera # h.base /\ ~h.libre
    <3>1. Vuelta(c) = [c EXCEPT !.i = @ + 1]
      BY <1>3, <2>1, <2>6 DEF Vuelta
    <3>2. QED
      BY <1>1, <3>1 DEF EstadosDeJuntar
  <2>7. QED
    BY <2>4, <2>5, <2>6
<1>4. QED
  BY <1>2, <1>3

(* The first loop leaves a list of holes.                                  *)
LEMMA JuntarTipo ==
  ASSUME NEW l \in Listas
  PROVE  JuntarLibres(l) \in Listas
<1>1. PICK n \in Nat : n = Len(l)
  BY ListasSonSecuencias
<1>2. PICK m \in Nat : m = n + n
  OBVIOUS
<1>3. PICK F : /\ Turnos(F, InicioJuntar(l), [k \in 1..m |-> k], m, [bucle |-> "vuelta"])
               /\ JuntarLibres(l) = F[m].l
  BY <1>1, <1>2, JuntarPorTurnos
<1>4. \A k \in 1..m : F[k] = Vuelta(F[k - 1])
  BY <1>3 DEF Turnos, Paso
<1>5. F[0] \in EstadosDeJuntar
  BY <1>3 DEF Turnos, InicioJuntar, EstadosDeJuntar
<1> DEFINE Mal == {k \in 0..m : F[k] \notin EstadosDeJuntar}
<1>6. Mal = {}
  <2>1. 0 \notin Mal
    BY <1>5
  <2>2. \A k \in 1..m : k - 1 \notin Mal => k \notin Mal
    BY <1>4, VueltaTipo
  <2>3. Mal \in SUBSET (0..m)
    OBVIOUS
  <2> HIDE DEF Mal
  <2>4. QED
    BY <2>1, <2>2, <2>3, Induccion
<1>7. F[m] \in EstadosDeJuntar
  BY <1>6
<1>8. QED
  BY <1>3, <1>7 DEF EstadosDeJuntar

-----------------------------------------------------------------------------
(* The indices of a table of segments.                                     *)
Indices == 0..CantSegmentos - 1

(* The tables of segments, with their types.                               *)
Segs == [base : Nat \union {Nulo}, tamanio : Nat]
Tablas == [Indices -> Segs] \union {SinTabla}

(* A segment is what its fields say, and moving it changes one of them.    *)
LEMMA CamposDeSegmento ==
  /\ \A x \in Segs : /\ x.base \in Nat \union {Nulo} /\ x.tamanio \in Nat
                     /\ x = Segmento(x.base, x.tamanio)
                     /\ \A b : [x EXCEPT !.base = b] = Segmento(b, x.tamanio)
  /\ \A b \in Nat \union {Nulo}, t \in Nat : Segmento(b, t) \in Segs
  /\ \A b, t : Segmento(b, t).base = b /\ Segmento(b, t).tamanio = t
  /\ SinSegmento \in Segs
  BY DEF Segs, Segmento, SinSegmento

(* The segments of a table, other than 0, with a base.                     *)
ConBase(tabla, b) == {k \in DOMAIN tabla : k > 0 /\ tabla[k].base = b}

(* Moving the first of them changes its base and no more.                  *)
LEMMA MoverBien ==
  ASSUME NEW tabla \in Tablas, NEW vieja, NEW nueva \in Nat, NEW r,
         r = MoverSegmento(tabla, vieja, nueva)
  PROVE  /\ r \in Tablas /\ DOMAIN r = DOMAIN tabla
         /\ ConBase(tabla, vieja) = {} => r = tabla
         /\ ConBase(tabla, vieja) # {} =>
              \E m \in ConBase(tabla, vieja) :
                /\ m \in Indices /\ r[m] = Segmento(nueva, tabla[m].tamanio)
                /\ \A k \in DOMAIN tabla : k # m => r[k] = tabla[k]
<1>1. r = IF ConBase(tabla, vieja) = {} THEN tabla
          ELSE [tabla EXCEPT ![Min(ConBase(tabla, vieja))].base = nueva]
  BY DEF MoverSegmento, ConBase
<1>2. CASE ConBase(tabla, vieja) = {}
  BY <1>1, <1>2
<1>3. CASE ConBase(tabla, vieja) # {}
  <2>1. tabla \in [Indices -> Segs]
    BY <1>3 DEF Tablas, SinTabla, ConBase
  <2>2. ConBase(tabla, vieja) \in SUBSET Nat /\ ConBase(tabla, vieja) \subseteq Indices
    BY <2>1, MemoriaOK DEF ConBase, Indices, MemoriaOK
  <2>3. PICK m \in ConBase(tabla, vieja) : m = Min(ConBase(tabla, vieja))
    BY <1>3, <2>2, MinimoDeNaturales
  <2>4. m \in Indices /\ tabla[m] \in Segs
    BY <2>1, <2>2
  <2>5. r = [tabla EXCEPT ![m] = Segmento(nueva, tabla[m].tamanio)]
    BY <1>1, <1>3, <2>1, <2>3, <2>4, CamposDeSegmento
  <2>6. Segmento(nueva, tabla[m].tamanio) \in Segs
    BY <2>4, CamposDeSegmento
  <2>7. r \in [Indices -> Segs] /\ r[m] = Segmento(nueva, tabla[m].tamanio)
        /\ \A k \in DOMAIN tabla : k # m => r[k] = tabla[k]
    BY <2>1, <2>4, <2>5, <2>6
  <2>8. QED
    BY <1>3, <2>1, <2>3, <2>4, <2>7 DEF Tablas
<1>4. QED
  BY <1>2, <1>3

(* The states of the second loop, over n holes.                            *)
EstadosDeReubicar(n) ==
  [l : {x \in Listas : Len(x) = n}, tablas : [Procesos -> Tablas], base : Nat, tamanio : Nat]

(* A turn moves one hole and, if it is occupied, the segments in it.       *)
LEMMA ReubicarTurno ==
  ASSUME NEW n \in Nat, NEW c \in EstadosDeReubicar(n), NEW k \in 1..n, NEW d, d = Reubicar(c, k)
  PROVE  /\ d \in EstadosDeReubicar(n)
         /\ \A p \in Procesos : DOMAIN d.tablas[p] = DOMAIN c.tablas[p]
         /\ d.l[k].base = c.base + c.tamanio /\ d.l[k].tamanio = c.l[k].tamanio
         /\ d.l[k].libre <=> c.l[k].libre
         /\ \A j \in 1..n : j # k => d.l[j] = c.l[j]
         /\ d.tamanio = c.l[k].tamanio
         /\ c.l[k].libre => d.base = c.base /\ d.tablas = c.tablas
         /\ ~c.l[k].libre =>
              /\ d.base = c.base + c.tamanio
              /\ \A p \in Procesos :
                   d.tablas[p] = MoverSegmento(c.tablas[p], c.l[k].base, c.base + c.tamanio)
<1>0. PICK h, b : h = c.l[k] /\ b = c.base + c.tamanio
  OBVIOUS
<1>1. /\ c.l \in Listas /\ Len(c.l) = n /\ c.tablas \in [Procesos -> Tablas]
      /\ c.base \in Nat /\ c.tamanio \in Nat /\ b \in Nat
  BY <1>0 DEF EstadosDeReubicar
<1>2. h \in TipoHueco /\ h.base \in Nat /\ h.tamanio \in Nat /\ h.libre \in BOOLEAN
  BY <1>0, <1>1, ListasSonSecuencias
<1>3. d = [l |-> [c.l EXCEPT ![k].base = b],
           tablas |-> IF h.libre THEN c.tablas
                      ELSE [p \in Procesos |-> MoverSegmento(c.tablas[p], h.base, b)],
           base |-> IF h.libre THEN c.base ELSE b,
           tamanio |-> h.tamanio]
  BY <1>0, <1>1 DEF Reubicar
<1>4. [c.l EXCEPT ![k].base = b] = [c.l EXCEPT ![k] = Hueco(b, h.tamanio, h.libre)]
  BY <1>0, <1>2 DEF TipoHueco, Hueco
<1>5. PICK x \in TipoHueco : x = Hueco(b, h.tamanio, h.libre)
  BY <1>1, <1>2, CamposDeHueco
<1>6. PICK m : m = [c.l EXCEPT ![k] = x]
  OBVIOUS
<1>7. m \in Listas /\ Len(m) = n
  BY <1>1, <1>5, <1>6, CambiaHueco
<1>8. ASSUME NEW p \in Procesos
      PROVE  /\ MoverSegmento(c.tablas[p], h.base, b) \in Tablas
             /\ DOMAIN MoverSegmento(c.tablas[p], h.base, b) = DOMAIN c.tablas[p]
  <2>1. c.tablas[p] \in Tablas
    BY <1>1
  <2>2. QED
    BY <1>1, <2>1, MoverBien
<1>9. PICK ts : ts = IF h.libre THEN c.tablas
                     ELSE [p \in Procesos |-> MoverSegmento(c.tablas[p], h.base, b)]
  OBVIOUS
<1>10. /\ ts \in [Procesos -> Tablas]
       /\ \A p \in Procesos : DOMAIN ts[p] = DOMAIN c.tablas[p]
  BY <1>1, <1>8, <1>9
<1>11. d = [l |-> m, tablas |-> ts, base |-> IF h.libre THEN c.base ELSE b, tamanio |-> h.tamanio]
  BY <1>3, <1>4, <1>5, <1>6, <1>9
<1>12. d \in EstadosDeReubicar(n)
  BY <1>1, <1>2, <1>7, <1>10, <1>11 DEF EstadosDeReubicar
<1>13. /\ d.l = m /\ d.base = (IF h.libre THEN c.base ELSE b) /\ d.tamanio = h.tamanio
       /\ d.tablas = ts
  BY <1>11
<1>14. ~h.libre => \A p \in Procesos : d.tablas[p] = MoverSegmento(c.tablas[p], h.base, b)
  BY <1>9, <1>13
<1>15. m[k] = x /\ \A j \in 1..n : j # k => m[j] = c.l[j]
  BY <1>1, <1>5, <1>6, CambiaHueco
<1>16. x.base = b /\ x.tamanio = h.tamanio /\ x.libre = h.libre
  BY <1>5 DEF Hueco
<1>17. \A p \in Procesos : DOMAIN d.tablas[p] = DOMAIN c.tablas[p]
  BY <1>10, <1>13
<1>18. /\ d.l[k].base = c.base + c.tamanio /\ d.l[k].tamanio = c.l[k].tamanio
       /\ d.l[k].libre <=> c.l[k].libre
       /\ \A j \in 1..n : j # k => d.l[j] = c.l[j]
       /\ d.tamanio = c.l[k].tamanio
  BY <1>0, <1>13, <1>15, <1>16
<1>19. c.l[k].libre => d.base = c.base /\ d.tablas = c.tablas
  BY <1>0, <1>9, <1>13
<1>20. ~c.l[k].libre =>
              /\ d.base = c.base + c.tamanio
              /\ \A p \in Procesos :
                   d.tablas[p] = MoverSegmento(c.tablas[p], c.l[k].base, c.base + c.tamanio)
  BY <1>0, <1>13, <1>14
<1>21. QED
  BY <1>12, <1>17, <1>18, <1>19, <1>20

(* Compacting any list leaves a list of holes, and no table gets or loses  *)
(* an entry.                                                               *)
LEMMA CompactarTipo ==
  ASSUME NEW l \in Listas, NEW ts \in [Procesos -> Tablas], NEW c, c = Compactar(l, ts)
  PROVE  /\ c.l \in Listas /\ c.tablas \in [Procesos -> Tablas]
         /\ \A p \in Procesos : DOMAIN c.tablas[p] = DOMAIN ts[p]
<1>1. PICK juntos \in Listas : juntos = JuntarLibres(l)
  BY JuntarTipo
<1>2. PICK n \in Nat : n = Len(juntos)
  BY ListasSonSecuencias
<1>3. PICK m \in Nat : m = IF n = 0 THEN 0 ELSE n - 1
  OBVIOUS
<1>4. 1..Len(juntos) - 1 = 1..m
  BY <1>2, <1>3
<1>5. PICK F : /\ Turnos(F, InicioReubicar(juntos, ts), [k \in 1..m |-> k + 1], m,
                         [bucle |-> "reubicar"])
               /\ c = F[m]
  BY <1>1, <1>4, CompactarPorTurnos
<1>6. F[0] = InicioReubicar(juntos, ts)
  BY <1>5 DEF Turnos
<1>7. \A k \in 1..m : F[k] = Reubicar(F[k - 1], k + 1)
  BY <1>5 DEF Turnos, Paso
<1>8. CASE n = 0
  BY <1>1, <1>3, <1>5, <1>6, <1>8 DEF InicioReubicar
<1>9. CASE n # 0
  <2>1. juntos[1].base \in Nat /\ juntos[1].tamanio \in Nat
    <3>1. 1 \in 1..n
      BY <1>9
    <3>2. QED
      BY <1>2, <3>1, ListasSonSecuencias
  <2>2. F[0] \in EstadosDeReubicar(n) /\ F[0].tablas = ts
    BY <1>2, <1>6, <2>1 DEF InicioReubicar, EstadosDeReubicar
  <2> DEFINE Bien(k) == /\ F[k] \in EstadosDeReubicar(n)
                        /\ \A p \in Procesos : DOMAIN F[k].tablas[p] = DOMAIN ts[p]
             Mal == {k \in 0..m : ~Bien(k)}
  <2>3. Mal = {}
    <3>1. 0 \notin Mal
      BY <2>2
    <3>2. ASSUME NEW k \in 1..m, k - 1 \notin Mal PROVE k \notin Mal
      <4>1. Bien(k - 1) /\ k + 1 \in 1..n
        BY <1>3, <1>9, <3>2
      <4>2. PICK c0, d : c0 = F[k - 1] /\ d = F[k]
        OBVIOUS
      <4>b. PICK x \in 1..n : x = k + 1
        BY <4>1
      <4>3. c0 \in EstadosDeReubicar(n) /\ d = Reubicar(c0, x)
        BY <1>7, <4>1, <4>2, <4>b
      <4>4. /\ d \in EstadosDeReubicar(n)
            /\ \A p \in Procesos : DOMAIN d.tablas[p] = DOMAIN c0.tablas[p]
        BY <4>3, ReubicarTurno
      <4>5. Bien(k)
        BY <4>1, <4>2, <4>4
      <4>6. QED
        BY <4>5
    <3>3. Mal \in SUBSET (0..m)
      OBVIOUS
    <3> HIDE DEF Mal
    <3>4. QED
      BY <3>1, <3>2, <3>3, Induccion
  <2>4. Bien(m)
    BY <2>3
  <2>5. QED
    BY <1>5, <2>4 DEF EstadosDeReubicar
<1>10. QED
  BY <1>8, <1>9

-----------------------------------------------------------------------------
(* One or two holes are free.                                              *)
LEMMA UnoODos ==
  ASSUME NEW l \in Listas, NEW n \in Nat, n = Len(l), Compactable(l)
  PROVE  \/ \E a \in 1..n : Libres(l) = {a}
         \/ \E a, b \in 1..n : a < b /\ Libres(l) = {a, b}
<1> DEFINE S == Libres(l)
<1>1. S \in SUBSET (1..n)
  BY ListasSonSecuencias DEF Libres
<1>2. IsFiniteSet(1..n)
  BY FS_Interval
<1>3. IsFiniteSet(S)
  BY <1>1, <1>2, FS_Subset
<1>4. Cardinality(S) = 1 \/ Cardinality(S) = 2
  BY DEF Compactable
<1> HIDE DEF S
<1>5. CASE Cardinality(S) = 1
  <2>1. PICK a : S = {a}
    BY <1>3, <1>5, FS_Singleton
  <2>2. QED
    BY <1>1, <2>1 DEF S
<1>6. CASE Cardinality(S) = 2
  <2>0. Cardinality({}) = 0
    BY FS_EmptySet
  <2>1. S # {}
    BY <1>6, <2>0
  <2>2. PICK x \in S : TRUE
    BY <2>1
  <2>a. /\ IsFiniteSet(S \ {x})
        /\ Cardinality(S \ {x}) = IF x \in S THEN Cardinality(S) - 1 ELSE Cardinality(S)
    BY <1>3, FS_RemoveElement
  <2>3. IsFiniteSet(S \ {x}) /\ Cardinality(S \ {x}) = 1
    BY <1>6, <2>a
  <2>4. PICK y : S \ {x} = {y}
    BY <2>3, FS_Singleton
  <2>5. x \in 1..n /\ y \in 1..n /\ x # y /\ S = {x, y} /\ S = {y, x}
    BY <1>1, <2>4
  <2>6. x < y \/ y < x
    BY <2>5
  <2>7. QED
    BY <2>5, <2>6 DEF S
<1>7. QED
  BY <1>4, <1>5, <1>6

(* The first loop while it goes on: it looks at position i of x.           *)
Mira(x, i, u, q) == [l |-> x, i |-> i, nuevo |-> u, primera |-> q, fin |-> FALSE]

(* Hole i with another size.                                               *)
ConTamanio(x, i, u) == [x EXCEPT ![i].tamanio = u]

(* The rest of the list and of the hole are as they were.                  *)
LEMMA ConTamanioBien ==
  ASSUME NEW x \in Listas, NEW i \in 1..Len(x), NEW u \in Nat, NEW t, t = ConTamanio(x, i, u)
  PROVE  /\ t \in Listas /\ Len(t) = Len(x)
         /\ t[i].base = x[i].base /\ t[i].tamanio = u /\ (t[i].libre <=> x[i].libre)
         /\ \A j \in 1..Len(x) : j # i => t[j] = x[j]
<1>1. PICK h : h = x[i]
  OBVIOUS
<1>2. h \in TipoHueco /\ h.base \in Nat /\ h.libre \in BOOLEAN
  BY <1>1, ListasSonSecuencias
<1>3. PICK y \in TipoHueco : y = Hueco(h.base, u, h.libre)
  BY <1>2, CamposDeHueco
<1>4. t = [x EXCEPT ![i] = y]
  <2>1. PICK b, k, v : h = [base |-> b, tamanio |-> k, libre |-> v]
    BY <1>2 DEF TipoHueco
  <2>2. [h EXCEPT !.tamanio = u] = [base |-> b, tamanio |-> u, libre |-> v]
    BY <2>1
  <2>3. [h EXCEPT !.tamanio = u] = y
    BY <1>3, <2>1, <2>2 DEF Hueco
  <2>4. QED
    BY <1>1, <2>3 DEF ConTamanio
<1>5. t \in Listas /\ Len(t) = Len(x) /\ t[i] = y /\ \A j \in 1..Len(x) : j # i => t[j] = x[j]
  <2>1. x \in Seq(TipoHueco)
    BY ListasSonSecuencias
  <2>2. t \in Seq(TipoHueco)
    BY <1>4, <2>1, ExceptSeq
  <2>3. Len(t) = Len(x)
    BY <1>4, <2>1, ExceptSeq
  <2>4. t[i] = y /\ \A j \in 1..Len(x) : j # i => t[j] = x[j]
    BY <1>4, <2>1, ExceptSeq
  <2>5. QED
    BY <2>2, <2>3, <2>4 DEF Listas, TipoHueco
<1>6. y.base = h.base /\ y.tamanio = u /\ y.libre = h.libre
  BY <1>3 DEF Hueco
<1>7. QED
  BY <1>1, <1>5, <1>6

(* Turns 1 to m are of the first loop; positions i0 to i1 - 1 of x are     *)
(* occupied and do not have the base q.                                    *)
SonVueltas(F, m) == \A k \in 1..m : F[k] = Vuelta(F[k - 1])
SoloPasa(x, i0, i1, q) == \A j \in Nat : i0 <= j /\ j < i1 => ~x[j].libre /\ x[j].base # q

(* A free hole goes to the end of the list.                                *)
AlFinal(x, i) == Append(RemoveAt(x, i), x[i])

(* Those behind it come one place forward.                                 *)
LEMMA AlFinalBien ==
  ASSUME NEW x \in Listas, NEW i \in 1..Len(x), NEW r, r = AlFinal(x, i)
  PROVE  /\ r \in Listas /\ Len(r) = Len(x)
         /\ \A j \in 1..Len(x) : j < i => r[j] = x[j]
         /\ \A j \in 1..Len(x) - 1 : j >= i => r[j] = x[j + 1]
         /\ r[Len(x)] = x[i]
<1>1. PICK n \in Nat : n = Len(x)
  BY ListasSonSecuencias
<1>2. PICK m : m = RemoveAt(x, i)
  OBVIOUS
<1>3. /\ m \in Listas /\ Len(m) = n - 1
      /\ \A j \in 1..n - 1 : j < i => m[j] = x[j]
      /\ \A j \in 1..n - 1 : j >= i => m[j] = x[j + 1]
  BY <1>1, <1>2, QuitaHueco
<1>4. m \in Seq(TipoHueco) /\ x[i] \in TipoHueco
  BY <1>3, ListasSonSecuencias
<1>5. PICK h \in TipoHueco : h = x[i]
  BY <1>4
<1>6. r = Append(m, h)
  BY <1>2, <1>5 DEF AlFinal
<1>7. /\ r \in Seq(TipoHueco) /\ Len(r) = Len(m) + 1
      /\ \A j \in 1..Len(m) : r[j] = m[j]
      /\ r[Len(m) + 1] = h
  BY <1>4, <1>6, AppendProperties
<1>8. Len(m) + 1 = n /\ n - 1 + 1 = n
  BY <1>3
<1>9. Len(r) = n /\ r[n] = h /\ \A j \in 1..n - 1 : r[j] = m[j]
  BY <1>3, <1>7, <1>8
<1>10. r \in Listas
  BY <1>7 DEF Listas, TipoHueco
<1>11. \A j \in 1..n : j < i => r[j] = x[j]
  <2>1. \A j \in 1..n : j < i => j \in 1..n - 1
    BY <1>1
  <2>2. QED
    BY <1>3, <1>9, <2>1
<1>12. \A j \in 1..n - 1 : j >= i => r[j] = x[j + 1]
  BY <1>3, <1>9
<1>13. QED
  BY <1>1, <1>5, <1>9, <1>10, <1>11, <1>12

(* A turn goes past an occupied hole, moves a free one, or, back at the    *)
(* first that it moved, ends; the turns that are left do nothing.          *)
LEMMA VueltaPasa ==
  ASSUME NEW x, NEW i \in Nat, Len(x) \in Nat, i <= Len(x), NEW u, NEW q,
         q # x[i].base, ~x[i].libre
  PROVE  Vuelta(Mira(x, i, u, q)) = Mira(x, i + 1, u, q)
<1>1. PICK c : c = Mira(x, i, u, q)
  OBVIOUS
<1>2. c.l = x /\ c.i = i /\ c.primera = q /\ ~c.fin
  BY <1>1 DEF Mira
<1>3. Vuelta(c) = [c EXCEPT !.i = @ + 1]
  BY <1>2 DEF Vuelta
<1>4. PICK j, f : j = i + 1 /\ f = Vuelta(c)
  OBVIOUS
<1>5. f = [c EXCEPT !.i = j]
  BY <1>2, <1>3, <1>4
<1>6. f = Mira(x, j, u, q)
  BY <1>1, <1>5 DEF Mira
<1>7. QED
  BY <1>1, <1>4, <1>6

(* A free one goes to the end and its bytes are added.                     *)
LEMMA VueltaMueve ==
  ASSUME NEW x, NEW i \in Nat, Len(x) \in Nat, i <= Len(x), NEW u, NEW q,
         q # x[i].base, x[i].libre,
         NEW r, r = AlFinal(x, i), NEW v, v = u + x[i].tamanio,
         NEW w, w = IF q = Nulo THEN x[i].base ELSE q
  PROVE  Vuelta(Mira(x, i, u, q)) = Mira(r, i, v, w)
<1>1. PICK c : c = Mira(x, i, u, q)
  OBVIOUS
<1>2. c.l = x /\ c.i = i /\ c.primera = q /\ c.nuevo = u /\ ~c.fin
  BY <1>1 DEF Mira
<1>3. PICK h : h = x[i]
  OBVIOUS
<1>4. Vuelta(c) = [c EXCEPT !.l = Append(RemoveAt(x, i), h), !.nuevo = @ + h.tamanio,
                            !.primera = IF @ = Nulo THEN h.base ELSE @]
  BY <1>2, <1>3 DEF Vuelta
<1>5. PICK f : f = Vuelta(c)
  OBVIOUS
<1>6. f = [c EXCEPT !.l = r, !.nuevo = v, !.primera = w]
  BY <1>1, <1>2, <1>3, <1>4, <1>5 DEF AlFinal, Mira
<1>7. f = Mira(r, i, v, w)
  BY <1>1, <1>6 DEF Mira
<1>8. QED
  BY <1>1, <1>5, <1>7

(* Back at the first that was moved, the others are taken out.             *)
UltimaVuelta(d, x, i, u, q) ==
  /\ i \in Nat /\ Len(x) \in Nat /\ i <= Len(x) /\ q = x[i].base
  /\ d = Vuelta(Mira(x, i, u, q))

(* What is left then.                                                      *)
LEMMA VueltaTermina ==
  ASSUME NEW d, NEW x, NEW i, NEW u, NEW q, UltimaVuelta(d, x, i, u, q)
  PROVE  d.fin = TRUE /\ d.l = QuitarDeLaDerecha(ConTamanio(x, i, u), i)
  BY DEF UltimaVuelta, Vuelta, Mira, ConTamanio

(* From then on nothing changes.                                           *)
LEMMA VueltaQuieta ==
  ASSUME NEW c, c.fin
  PROVE  Vuelta(c) = c
  BY DEF Vuelta

(* Turns k0 to k1 go past the holes i0 to i1 - 1 of x, all occupied.       *)
Tramo(F, m, k0, k1, x, i0, i1, u, q) ==
  /\ m \in Nat /\ Len(x) \in Nat /\ k0 \in Nat /\ k1 \in Nat /\ i0 \in Nat /\ i1 \in Nat
  /\ k0 <= k1 /\ k1 <= m /\ i1 - i0 = k1 - k0 /\ i1 <= Len(x) + 1
  /\ SonVueltas(F, m) /\ F[k0] = Mira(x, i0, u, q) /\ SoloPasa(x, i0, i1, q)

(* After them the loop looks at position i1.                               *)
LEMMA VueltasPasan ==
  ASSUME NEW F, NEW m, NEW k0, NEW k1, NEW x, NEW i0, NEW i1, NEW u, NEW q,
         Tramo(F, m, k0, k1, x, i0, i1, u, q)
  PROVE  F[k1] = Mira(x, i1, u, q)
<1>a. /\ m \in Nat /\ Len(x) \in Nat /\ k0 \in Nat /\ k1 \in Nat /\ i0 \in Nat /\ i1 \in Nat
      /\ k0 <= k1 /\ k1 <= m /\ i1 - i0 = k1 - k0 /\ i1 <= Len(x) + 1
      /\ SonVueltas(F, m) /\ F[k0] = Mira(x, i0, u, q) /\ SoloPasa(x, i0, i1, q)
  BY DEF Tramo
<1>0. PICK d \in Nat : d = k1 - k0 /\ d = i1 - i0
  BY <1>a
<1> DEFINE Mal == {e \in 0..d : F[k0 + e] # Mira(x, i0 + e, u, q)}
<1>1. 0 \notin Mal
  BY <1>a
<1>2. ASSUME NEW e \in 1..d, e - 1 \notin Mal PROVE e \notin Mal
  <2>1. PICK j \in Nat, k \in 1..m : j = i0 + (e - 1) /\ k = k0 + e
    BY <1>0, <1>a
  <2>2. k - 1 = k0 + (e - 1) /\ j + 1 = i0 + e /\ i0 <= j /\ j < i1 /\ j <= Len(x)
    BY <1>0, <1>a, <2>1
  <2>3. F[k - 1] = Mira(x, j, u, q)
    BY <1>2, <2>1, <2>2
  <2>4. F[k] = Mira(x, j + 1, u, q)
    <3>1. ~x[j].libre /\ q # x[j].base
      BY <1>a, <2>2 DEF SoloPasa
    <3>2. Vuelta(Mira(x, j, u, q)) = Mira(x, j + 1, u, q)
      BY <1>a, <2>2, <3>1, VueltaPasa
    <3>3. F[k] = Vuelta(F[k - 1])
      BY <1>a DEF SonVueltas
    <3>4. QED
      BY <2>3, <3>2, <3>3
  <2>5. QED
    BY <2>1, <2>2, <2>4
<1>3. Mal \in SUBSET (0..d)
  OBVIOUS
<1>4. Mal = {}
  <2> HIDE DEF Mal
  <2>1. QED
    BY <1>1, <1>2, <1>3, Induccion
<1>5. d \in 0..d
  OBVIOUS
<1>6. F[k0 + d] = Mira(x, i0 + d, u, q)
  BY <1>4, <1>5
<1>7. k0 + d = k1 /\ i0 + d = i1
  BY <1>0, <1>a
<1>8. QED
  BY <1>6, <1>7

(* The turns after the end.                                                *)
LEMMA VueltasQuietas ==
  ASSUME NEW F, NEW m \in Nat, SonVueltas(F, m),
         NEW k0 \in 0..m, F[k0].fin
  PROVE  F[m] = F[k0]
<1> DEFINE Mal == {k \in 0..m : k >= k0 /\ F[k] # F[k0]}
<1>1. 0 \notin Mal
  OBVIOUS
<1>2. ASSUME NEW k \in 1..m, k - 1 \notin Mal PROVE k \notin Mal
  <2>1. CASE k <= k0
    BY <2>1
  <2>2. CASE k > k0
    <3>1. F[k - 1] = F[k0]
      BY <1>2, <2>2
    <3>2. F[k] = F[k0]
      BY <3>1, VueltaQuieta DEF SonVueltas
    <3>3. QED
      BY <3>2
  <2>3. QED
    BY <2>1, <2>2
<1>3. Mal \in SUBSET (0..m)
  OBVIOUS
<1>4. Mal = {}
  <2> HIDE DEF Mal
  <2>1. QED
    BY <1>1, <1>2, <1>3, Induccion
<1>5. m \notin Mal /\ m \in 0..m /\ m >= k0
  BY <1>4
<1>6. QED
  BY <1>5

-----------------------------------------------------------------------------
(* A tiling with no empty hole.                                            *)
SinVacios(l) == Tesela(l) /\ \A i \in 1..Len(l) : l[i].tamanio > 0

(* Its bases grow.                                                         *)
LEMMA BasesCrecen ==
  ASSUME NEW l \in Listas, SinVacios(l), NEW i \in 1..Len(l), NEW j \in 1..Len(l), i < j
  PROVE  l[i].base < l[j].base
<1>1. Tesela(l) /\ l[i].tamanio > 0
  BY DEF SinVacios
<1>2. l[i].base + l[i].tamanio <= l[j].base
  BY <1>1, Orden
<1>3. l[i].base \in Nat /\ l[i].tamanio \in Nat /\ l[j].base \in Nat
  BY ListasSonSecuencias
<1>4. QED
  BY <1>1, <1>2, <1>3

(* With one free hole, the first loop puts it at the end.                  *)
LEMMA JuntarUno ==
  ASSUME NEW l \in Listas, SinVacios(l), NEW n \in Nat, n = Len(l),
         NEW a \in 2..n, \A i \in 1..n : l[i].libre <=> i = a,
         NEW juntos, juntos = JuntarLibres(l)
  PROVE  /\ juntos \in Listas /\ Len(juntos) = n
         /\ \A j \in 1..a - 1 : juntos[j] = l[j]
         /\ \A j \in a..n - 1 : juntos[j] = l[j + 1]
         /\ juntos[n] = l[a]
<1>1. PICK m \in Nat : m = n + n
  OBVIOUS
<1>2. PICK F : /\ Turnos(F, InicioJuntar(l), [k \in 1..m |-> k], m, [bucle |-> "vuelta"])
               /\ juntos = F[m].l
  BY <1>1, JuntarPorTurnos
<1>3. SonVueltas(F, m)
  BY <1>2 DEF Turnos, Paso, SonVueltas
<1>4. F[0] = Mira(l, 2, 0, Nulo)
  BY <1>2 DEF Turnos, InicioJuntar, Mira
<1>5. \A i \in 1..n : /\ l[i] \in TipoHueco /\ l[i].base \in Nat /\ l[i].tamanio \in Nat
                      /\ l[i].base # Nulo
  BY ListasSonSecuencias, HuecosOK DEF HuecosOK
<1>6. F[a - 2] = Mira(l, a, 0, Nulo)
  <2>1. PICK k \in Nat, i \in Nat : k = a - 2 /\ i = 2
    OBVIOUS
  <2>2. SoloPasa(l, i, a, Nulo)
    BY <1>5, <2>1 DEF SoloPasa
  <2>3. PICK o \in Nat : o = 0
    OBVIOUS
  <2>4. o <= k /\ k <= m /\ a - i = k - o /\ a <= Len(l) + 1 /\ Len(l) \in Nat /\ a \in Nat
    BY <1>1, <2>1, <2>3
  <2>5. F[o] = Mira(l, i, o, Nulo)
    BY <1>4, <2>1, <2>3
  <2>t. Tramo(F, m, o, k, l, i, a, o, Nulo)
    BY <1>3, <2>2, <2>4, <2>5 DEF Tramo
  <2>6. F[k] = Mira(l, a, o, Nulo)
    BY <2>t, VueltasPasan
  <2>7. QED
    BY <2>1, <2>3, <2>6
<1>7. PICK r, v, w : r = AlFinal(l, a) /\ v = l[a].tamanio /\ w = l[a].base
  OBVIOUS
<1>8. /\ r \in Listas /\ Len(r) = n
      /\ \A j \in 1..n : j < a => r[j] = l[j]
      /\ \A j \in 1..n - 1 : j >= a => r[j] = l[j + 1]
      /\ r[n] = l[a]
  BY <1>7, AlFinalBien
<1>9. F[a - 1] = Mira(r, a, v, w)
  <2>1. a \in 1..n /\ l[a].libre /\ Nulo # l[a].base
    BY <1>5
  <2>2. v = 0 + l[a].tamanio /\ w = IF Nulo = Nulo THEN l[a].base ELSE Nulo
    BY <1>5, <1>7, <2>1
  <2>3. Vuelta(Mira(l, a, 0, Nulo)) = Mira(r, a, v, w)
    BY <1>7, <2>1, <2>2, VueltaMueve
  <2>4. a - 1 \in 1..m /\ (a - 1) - 1 = a - 2
    BY <1>1
  <2>5. QED
    BY <1>3, <1>6, <2>3, <2>4 DEF SonVueltas
<1>10. F[n - 1] = Mira(r, n, v, w)
  <2>1. PICK k \in Nat, z \in Nat : k = a - 1 /\ z = n - 1
    BY <1>1
  <2>a. ASSUME NEW j \in Nat, a <= j, j < n PROVE ~r[j].libre /\ r[j].base # w
    <3>1. j \in 1..n - 1 /\ j + 1 \in 1..n /\ j + 1 > a /\ a \in 1..n
      BY <2>a
    <3>2. r[j] = l[j + 1]
      BY <1>8, <2>a, <3>1
    <3>3. l[a].base < l[j + 1].base
      BY <3>1, BasesCrecen
    <3>4. QED
      BY <1>5, <1>7, <3>1, <3>2, <3>3
  <2>2. SoloPasa(r, a, n, w)
    BY <2>a DEF SoloPasa
  <2>3. /\ k <= z /\ z <= m /\ n - a = z - k /\ n <= Len(r) + 1 /\ Len(r) \in Nat
        /\ a \in Nat /\ F[k] = Mira(r, a, v, w)
    BY <1>1, <1>8, <1>9, <2>1
  <2>t. Tramo(F, m, k, z, r, a, n, v, w)
    BY <1>3, <2>2, <2>3 DEF Tramo
  <2>4. F[z] = Mira(r, n, v, w)
    BY <2>t, VueltasPasan
  <2>5. QED
    BY <2>1, <2>4
<1>11. PICK e : e = F[n]
  OBVIOUS
<1>a. PICK t, g : t = ConTamanio(r, n, v) /\ g = QuitarDeLaDerecha(t, n)
  OBVIOUS
<1>12. e.fin = TRUE /\ e.l = g
  <2>1. e = Vuelta(Mira(r, n, v, w))
    BY <1>1, <1>3, <1>10, <1>11 DEF SonVueltas
  <2>2. n <= Len(r) /\ Len(r) \in Nat /\ w = r[n].base
    BY <1>7, <1>8
  <2>3. UltimaVuelta(e, r, n, v, w)
    BY <2>1, <2>2 DEF UltimaVuelta
  <2>4. e.fin = TRUE /\ e.l = QuitarDeLaDerecha(ConTamanio(r, n, v), n)
    BY <2>3, VueltaTermina
  <2>5. QED
    BY <1>a, <2>4
<1>13. t = r
  <2>1. r[n] \in TipoHueco /\ r[n].tamanio = v
    BY <1>5, <1>7, <1>8
  <2>2. [r[n] EXCEPT !.tamanio = v] = r[n]
    BY <2>1 DEF TipoHueco
  <2>3. PICK h : h = r[n]
    OBVIOUS
  <2>4. [r EXCEPT ![n] = h] = r
    <3>1. r \in Seq(TipoHueco)
      BY <1>8, ListasSonSecuencias
    <3>2. QED
      BY <2>3, <3>1
  <2>5. QED
    BY <1>a, <2>2, <2>3, <2>4 DEF ConTamanio
<1>14. e.l = r
  BY <1>8, <1>a, <1>12, <1>13, QuitarTipo
<1>15. F[m] = e
  <2>1. n \in 0..m /\ F[n].fin
    BY <1>1, <1>11, <1>12
  <2>2. QED
    BY <1>3, <1>11, <2>1, VueltasQuietas
<1>16. juntos = r
  BY <1>2, <1>14, <1>15
<1>17. QED
  BY <1>8, <1>16

(* Those at a and b, and no others, are free.                              *)
DosLibres(l, n, a, b) ==
  n = Len(l) /\ a \in 2..n /\ b \in a + 1..n /\ \A i \in 1..n : l[i].libre <=> i = a \/ i = b

(* With two, it puts them together at the end, with the bytes of both.     *)
LEMMA JuntarDos ==
  ASSUME NEW l \in Listas, SinVacios(l), NEW n \in Nat, NEW a, NEW b, DosLibres(l, n, a, b),
         NEW juntos, juntos = JuntarLibres(l)
  PROVE  /\ juntos \in Listas /\ Len(juntos) = n - 1
         /\ \A j \in 1..a - 1 : juntos[j] = l[j]
         /\ \A j \in a..b - 2 : juntos[j] = l[j + 1]
         /\ \A j \in b - 1..n - 2 : juntos[j] = l[j + 2]
         /\ juntos[n - 1].libre /\ juntos[n - 1].base = l[a].base
         /\ juntos[n - 1].tamanio = l[a].tamanio + l[b].tamanio
<1>0. n = Len(l) /\ a \in 2..n /\ b \in a + 1..n /\ \A i \in 1..n : l[i].libre <=> i = a \/ i = b
  BY DEF DosLibres
<1> USE <1>0
<1>1. PICK m \in Nat : m = n + n
  OBVIOUS
<1>2. PICK F : /\ Turnos(F, InicioJuntar(l), [k \in 1..m |-> k], m, [bucle |-> "vuelta"])
               /\ juntos = F[m].l
  BY <1>1, JuntarPorTurnos
<1>3. SonVueltas(F, m)
  BY <1>2 DEF Turnos, Paso, SonVueltas
<1>4. F[0] = Mira(l, 2, 0, Nulo)
  BY <1>2 DEF Turnos, InicioJuntar, Mira
<1>5. \A i \in 1..n : /\ l[i] \in TipoHueco /\ l[i].base \in Nat /\ l[i].tamanio \in Nat
                      /\ l[i].base # Nulo
  BY ListasSonSecuencias, HuecosOK DEF HuecosOK
<1>6. F[a - 2] = Mira(l, a, 0, Nulo)
  <2>1. PICK k \in Nat, i \in Nat : k = a - 2 /\ i = 2
    OBVIOUS
  <2>2. SoloPasa(l, i, a, Nulo)
    <3>1. \A j \in Nat : i <= j /\ j < a => j \in 1..n /\ j # a /\ j # b
      BY <2>1
    <3>2. QED
      BY <1>5, <3>1 DEF SoloPasa
  <2>3. PICK o \in Nat : o = 0
    OBVIOUS
  <2>4. o <= k /\ k <= m /\ a - i = k - o /\ a <= Len(l) + 1 /\ Len(l) \in Nat /\ a \in Nat
    BY <1>1, <2>1, <2>3
  <2>5. F[o] = Mira(l, i, o, Nulo)
    BY <1>4, <2>1, <2>3
  <2>t. Tramo(F, m, o, k, l, i, a, o, Nulo)
    BY <1>3, <2>2, <2>4, <2>5 DEF Tramo
  <2>6. F[k] = Mira(l, a, o, Nulo)
    BY <2>t, VueltasPasan
  <2>7. QED
    BY <2>1, <2>3, <2>6
<1>7. PICK r, v, w : r = AlFinal(l, a) /\ v = l[a].tamanio /\ w = l[a].base
  OBVIOUS
<1>8. /\ r \in Listas /\ Len(r) = n
      /\ \A j \in 1..n : j < a => r[j] = l[j]
      /\ \A j \in 1..n - 1 : j >= a => r[j] = l[j + 1]
      /\ r[n] = l[a]
  BY <1>7, AlFinalBien
<1>9. F[a - 1] = Mira(r, a, v, w)
  <2>1. a \in 1..n /\ l[a].libre /\ Nulo # l[a].base
    BY <1>5
  <2>2. v = 0 + l[a].tamanio /\ w = IF Nulo = Nulo THEN l[a].base ELSE Nulo
    BY <1>5, <1>7, <2>1
  <2>3. Vuelta(Mira(l, a, 0, Nulo)) = Mira(r, a, v, w)
    BY <1>7, <2>1, <2>2, VueltaMueve
  <2>4. a - 1 \in 1..m /\ (a - 1) - 1 = a - 2
    BY <1>1
  <2>5. QED
    BY <1>3, <1>6, <2>3, <2>4 DEF SonVueltas
<1>a. \A j \in 1..n : j > a => l[j].base # w
  <2>1. ASSUME NEW j \in 1..n, j > a PROVE l[j].base # w
    <3>1. l[a].base < l[j].base /\ a \in 1..n
      BY <2>1, BasesCrecen
    <3>2. QED
      BY <1>5, <1>7, <3>1
  <2>2. QED
    BY <2>1
<1>b. PICK c \in 1..n - 1 : c = b - 1 /\ c + 1 = b /\ c >= a
  OBVIOUS
<1>10. F[c - 1] = Mira(r, c, v, w)
  <2>1. PICK k \in Nat, y \in Nat : k = a - 1 /\ y = c - 1
    BY <1>b
  <2>a. ASSUME NEW j \in Nat, a <= j, j < c PROVE ~r[j].libre /\ r[j].base # w
    <3>1. j \in 1..n - 1 /\ j + 1 \in 1..n /\ j + 1 > a /\ j + 1 # b
      BY <1>b, <2>a
    <3>2. r[j] = l[j + 1]
      BY <1>8, <2>a, <3>1
    <3>3. QED
      BY <1>a, <3>1, <3>2
  <2>2. SoloPasa(r, a, c, w)
    BY <2>a DEF SoloPasa
  <2>3. /\ k <= y /\ y <= m /\ c - a = y - k /\ c <= Len(r) + 1 /\ Len(r) \in Nat
        /\ a \in Nat /\ c \in Nat /\ F[k] = Mira(r, a, v, w)
    BY <1>1, <1>8, <1>9, <1>b, <2>1
  <2>t. Tramo(F, m, k, y, r, a, c, v, w)
    BY <1>3, <2>2, <2>3 DEF Tramo
  <2>4. F[y] = Mira(r, c, v, w)
    BY <2>t, VueltasPasan
  <2>5. QED
    BY <2>1, <2>4
<1>11. PICK s, u : s = AlFinal(r, c) /\ u = v + l[b].tamanio
  OBVIOUS
<1>12. r[c] = l[b]
  BY <1>8, <1>b
<1>13. /\ s \in Listas /\ Len(s) = n
       /\ \A j \in 1..n : j < c => s[j] = r[j]
       /\ \A j \in 1..n - 1 : j >= c => s[j] = r[j + 1]
       /\ s[n] = l[b]
  <2>1. c \in 1..n
    BY <1>b
  <2>2. QED
    BY <1>8, <1>11, <1>12, <2>1, AlFinalBien
<1>14. /\ \A j \in 1..a - 1 : s[j] = l[j]
       /\ \A j \in a..b - 2 : s[j] = l[j + 1]
       /\ \A j \in b - 1..n - 2 : s[j] = l[j + 2]
       /\ s[n - 1] = l[a]
  <2>1. ASSUME NEW j \in 1..a - 1 PROVE s[j] = l[j]
    <3>1. j \in 1..n /\ j < c /\ j < a
      BY <1>b
    <3>2. QED
      BY <1>8, <1>13, <3>1
  <2>2. ASSUME NEW j \in a..b - 2 PROVE s[j] = l[j + 1]
    <3>1. j \in 1..n /\ j < c /\ j \in 1..n - 1 /\ j >= a
      BY <1>b
    <3>2. QED
      BY <1>8, <1>13, <3>1
  <2>3. ASSUME NEW j \in b - 1..n - 2 PROVE s[j] = l[j + 2]
    <3>1. j \in 1..n - 1 /\ j >= c /\ j + 1 \in 1..n - 1 /\ j + 1 >= a /\ (j + 1) + 1 = j + 2
      BY <1>b
    <3>2. s[j] = r[j + 1] /\ r[j + 1] = l[(j + 1) + 1]
      BY <1>8, <1>13, <3>1
    <3>3. QED
      BY <3>1, <3>2
  <2>4. s[n - 1] = l[a]
    <3>1. n - 1 \in 1..n - 1 /\ n - 1 >= c /\ (n - 1) + 1 = n
      BY <1>b
    <3>2. QED
      BY <1>8, <1>13, <3>1
  <2>5. QED
    BY <2>1, <2>2, <2>3, <2>4
<1>15. F[c] = Mira(s, c, u, w)
  <2>1. c \in Nat /\ c <= Len(r) /\ Len(r) \in Nat /\ r[c].libre /\ w # r[c].base
    BY <1>8, <1>12, <1>a, <1>b
  <2>2. u = v + r[c].tamanio /\ w = IF w = Nulo THEN r[c].base ELSE w
    BY <1>5, <1>7, <1>11, <1>12
  <2>3. Vuelta(Mira(r, c, v, w)) = Mira(s, c, u, w)
    BY <1>11, <2>1, <2>2, VueltaMueve
  <2>4. c \in 1..m
    BY <1>1, <1>b
  <2>5. QED
    BY <1>3, <1>10, <2>3, <2>4 DEF SonVueltas
<1>c. PICK z \in 1..n : z = n - 1 /\ z >= c
  BY <1>b
<1>16. F[z] = Mira(s, z, u, w)
  <2>a. ASSUME NEW j \in Nat, c <= j, j < z PROVE ~s[j].libre /\ s[j].base # w
    <3>1. j \in b - 1..n - 2 /\ j + 2 \in 1..n /\ j + 2 > a /\ j + 2 # b
      BY <1>b, <1>c, <2>a
    <3>2. s[j] = l[j + 2]
      BY <1>14, <3>1
    <3>3. QED
      BY <1>a, <3>1, <3>2
  <2>2. SoloPasa(s, c, z, w)
    BY <2>a DEF SoloPasa
  <2>3. /\ c <= z /\ z <= m /\ z - c = z - c /\ z <= Len(s) + 1 /\ Len(s) \in Nat
        /\ c \in Nat /\ z \in Nat
    BY <1>1, <1>13, <1>b, <1>c
  <2>t. Tramo(F, m, c, z, s, c, z, u, w)
    BY <1>3, <1>15, <2>2, <2>3 DEF Tramo
  <2>4. QED
    BY <2>t, VueltasPasan
<1>17. PICK e : e = F[n]
  OBVIOUS
<1>18. PICK t : t = ConTamanio(s, z, u)
  OBVIOUS
<1>d. PICK g : g = QuitarDeLaDerecha(t, z)
  OBVIOUS
<1>19. e.fin = TRUE /\ e.l = g
  <2>1. e = Vuelta(Mira(s, z, u, w))
    <3>1. n \in 1..m /\ n - 1 = z
      BY <1>1, <1>c
    <3>2. QED
      BY <1>3, <1>16, <1>17, <3>1 DEF SonVueltas
  <2>2. z \in Nat /\ z <= Len(s) /\ Len(s) \in Nat /\ w = s[z].base
    BY <1>7, <1>13, <1>14, <1>c
  <2>3. UltimaVuelta(e, s, z, u, w)
    BY <2>1, <2>2 DEF UltimaVuelta
  <2>4. e.fin = TRUE /\ e.l = QuitarDeLaDerecha(ConTamanio(s, z, u), z)
    BY <2>3, VueltaTermina
  <2>5. QED
    BY <1>18, <1>d, <2>4
<1>20. /\ t \in Listas /\ Len(t) = n /\ t[z].base = w /\ t[z].tamanio = u /\ t[z].libre
       /\ \A j \in 1..n : j # z => t[j] = s[j]
  <2>1. u \in Nat /\ s[z] = l[a] /\ l[a].libre /\ z \in 1..Len(s) /\ s \in Listas
    BY <1>5, <1>7, <1>11, <1>13, <1>14, <1>c, SMTT(30)
  <2>2. /\ t \in Listas /\ Len(t) = Len(s)
        /\ t[z].base = s[z].base /\ t[z].tamanio = u /\ (t[z].libre <=> s[z].libre)
        /\ \A j \in 1..Len(s) : j # z => t[j] = s[j]
    BY <1>18, <2>1, ConTamanioBien, SMTT(30)
  <2>3. QED
    BY <1>7, <1>13, <2>1, <2>2
<1>22. g \in Listas /\ Len(g) = z /\ \A j \in 1..z : g[j] = t[j]
  <2>1. z \in Nat /\ z \in 1..n /\ z = n - 1 /\ t \in Listas /\ n = Len(t)
    BY <1>20, <1>c
  <2>2. ASSUME NEW t1 \in Listas, NEW k \in Nat, k = Len(t1), NEW y \in 1..k, y = k - 1,
               NEW g1, g1 = QuitarDeLaDerecha(t1, y)
        PROVE  g1 \in Listas /\ Len(g1) = y /\ \A j \in 1..y : g1[j] = t1[j]
    <3>1. y \in Nat
      OBVIOUS
    <3>2. QED
      BY <2>2, <3>1, QuitarTipo
  <2>3. QED
    BY <1>d, <2>1, <2>2
<1>23. F[m] = e
  <2>1. n \in 0..m /\ F[n].fin
    BY <1>1, <1>17, <1>19
  <2>2. QED
    BY <1>3, <1>17, <2>1, VueltasQuietas
<1>24. juntos = g
  BY <1>2, <1>19, <1>23
<1>25. \A j \in 1..n - 2 : g[j] = s[j]
  <2>1. \A j \in 1..n - 2 : j \in 1..z /\ j \in 1..n /\ j # z
    BY <1>c
  <2>2. QED
    BY <1>20, <1>22, <2>1
<1>26. g[z].libre /\ g[z].base = w /\ g[z].tamanio = u
  <2>1. z \in 1..z
    BY <1>c
  <2>2. QED
    BY <1>20, <1>22, <2>1
<1>27. /\ \A j \in 1..a - 1 : j \in 1..n - 2
       /\ \A j \in a..b - 2 : j \in 1..n - 2
       /\ \A j \in b - 1..n - 2 : j \in 1..n - 2
  OBVIOUS
<1>28. QED
  BY <1>7, <1>11, <1>14, <1>22, <1>24, <1>25, <1>26, <1>27, <1>c, ZenonT(30)

-----------------------------------------------------------------------------
(* Where each hole of a tiling starts, and where the last one ends.        *)
Bordes(l, n, e) ==
  /\ e \in [1..n + 1 -> Nat] /\ e[1] = 0 /\ e[n + 1] = TamMemoria
  /\ \A i \in 1..n : e[i] = l[i].base /\ e[i + 1] = e[i] + l[i].tamanio
  /\ \A i \in 1..n, j \in 1..n + 1 : i < j => e[i] + l[i].tamanio <= e[j]

(* Every tiling has them.                                                  *)
LEMMA BordesHay ==
  ASSUME NEW l \in Listas, Tesela(l), NEW n \in Nat \ {0}, n = Len(l)
  PROVE  \E e : Bordes(l, n, e)
<1>1. PICK e : e = [i \in 1..n + 1 |-> IF i = n + 1 THEN TamMemoria ELSE l[i].base]
  OBVIOUS
<1>2. \A i \in 1..n : l[i].base \in Nat /\ l[i].tamanio \in Nat
  BY ListasSonSecuencias
<1>3. TamMemoria \in Nat
  BY HuecosOK DEF HuecosOK
<1>4. e \in [1..n + 1 -> Nat] /\ e[n + 1] = TamMemoria /\ \A i \in 1..n : e[i] = l[i].base
  <2>1. \A i \in 1..n + 1 : i # n + 1 => i \in 1..n
    OBVIOUS
  <2>2. \A i \in 1..n : i \in 1..n + 1 /\ i # n + 1
    OBVIOUS
  <2>3. \A i \in 1..n + 1 : (IF i = n + 1 THEN TamMemoria ELSE l[i].base) \in Nat
    BY <1>2, <1>3, <2>1
  <2>4. QED
    BY <1>1, <2>2, <2>3
<1>5. e[1] = 0
  <2>1. 1 \in 1..n
    OBVIOUS
  <2>2. QED
    BY <1>4, <2>1 DEF Tesela
<1>6. ASSUME NEW i \in 1..n PROVE e[i + 1] = e[i] + l[i].tamanio
  <2>1. CASE i = n
    BY <1>4, <2>1 DEF Tesela
  <2>2. CASE i # n
    <3>1. i \in 1..Len(l) - 1 /\ i + 1 \in 1..n
      BY <2>2
    <3>2. QED
      BY <1>4, <3>1 DEF Tesela
  <2>3. QED
    BY <2>1, <2>2
<1>7. ASSUME NEW i \in 1..n, NEW j \in 1..n + 1, i < j PROVE e[i] + l[i].tamanio <= e[j]
  <2>1. CASE j = n + 1
    BY <1>4, <2>1, DentroDeMemoria
  <2>2. CASE j # n + 1
    <3>1. j \in 1..n
      BY <2>2
    <3>2. QED
      BY <1>4, <1>7, <3>1, Orden
  <2>3. QED
    BY <2>1, <2>2
<1>8. QED
  BY <1>4, <1>5, <1>6, <1>7 DEF Bordes

(* The first loop leaves in juntos the occupied holes of l, in their       *)
(* order, and one free hole at the end; nb is where each is to start.      *)
Acomodo(l, juntos, m, nb, total) ==
  /\ juntos \in Listas /\ m \in Nat /\ m = Len(juntos) /\ m >= 2
  /\ nb \in [1..m -> Nat] /\ total \in Nat /\ total > 0
  /\ juntos[1] = l[1] /\ juntos[m].libre /\ juntos[m].tamanio = total
  /\ \A j \in 1..m - 1 : ~juntos[j].libre /\ juntos[j].tamanio > 0
  /\ \A i, j \in 1..m - 1 : i < j => juntos[i].base < juntos[j].base
  /\ nb[1] = 0 /\ nb[m] + total = TamMemoria
  /\ \A j \in 1..m - 1 : nb[j + 1] = nb[j] + juntos[j].tamanio /\ nb[j] <= juntos[j].base
  /\ \A i \in 2..Len(l) : ~l[i].libre => \E j \in 2..m - 1 : juntos[j] = l[i]
  /\ \A j \in 2..m - 1 : \E i \in 2..Len(l) : juntos[j] = l[i]

(* One free hole: those behind it come forward by its bytes.               *)
LEMMA AcomodoUno ==
  ASSUME NEW l \in Listas, SinVacios(l), NEW n \in Nat, n = Len(l),
         NEW a \in 2..n, \A i \in 1..n : l[i].libre <=> i = a,
         NEW juntos, juntos = JuntarLibres(l)
  PROVE  \E nb : Acomodo(l, juntos, n, nb, l[a].tamanio)
<1>1. /\ juntos \in Listas /\ Len(juntos) = n
      /\ \A j \in 1..a - 1 : juntos[j] = l[j]
      /\ \A j \in a..n - 1 : juntos[j] = l[j + 1]
      /\ juntos[n] = l[a]
  BY JuntarUno
<1>2. PICK e : Bordes(l, n, e)
  BY BordesHay DEF SinVacios
<1>3. PICK t \in Nat : t = l[a].tamanio /\ t > 0
  <2>1. a \in 1..n
    OBVIOUS
  <2>2. QED
    BY <2>1, ListasSonSecuencias DEF SinVacios
<1>4. PICK nb : nb = [j \in 1..n |-> IF j < a THEN e[j] ELSE e[j + 1] - t]
  OBVIOUS
<1>5. /\ \A i \in 1..n + 1 : e[i] \in Nat
      /\ \A i \in 1..n : /\ e[i] = l[i].base /\ e[i + 1] = e[i] + l[i].tamanio
                         /\ l[i].tamanio \in Nat /\ l[i].tamanio > 0
      /\ \A i \in 1..n, j \in 1..n + 1 : i < j => e[i] + l[i].tamanio <= e[j]
  BY <1>2, ListasSonSecuencias DEF Bordes, SinVacios
<1>6. /\ \A j \in 1..n : j < a => nb[j] = e[j]
      /\ \A j \in 1..n : j >= a => nb[j] = e[j + 1] - t /\ e[j + 1] - t >= e[a]
  <2>1. ASSUME NEW j \in 1..n, j >= a PROVE e[j + 1] - t >= e[a]
    <3>1. a \in 1..n /\ j + 1 \in 1..n + 1 /\ a < j + 1 /\ a \in 1..n + 1
      BY <2>1
    <3>2. e[a] + t <= e[j + 1] /\ e[a] \in Nat /\ e[j + 1] \in Nat
      BY <1>3, <1>5, <3>1
    <3>3. QED
      BY <3>2
  <2>2. QED
    BY <1>4, <2>1
<1>7. nb \in [1..n -> Nat]
  <2>1. ASSUME NEW j \in 1..n PROVE (IF j < a THEN e[j] ELSE e[j + 1] - t) \in Nat
    <3>1. j \in 1..n + 1 /\ j + 1 \in 1..n + 1 /\ a \in 1..n + 1
      OBVIOUS
    <3>2. e[j] \in Nat /\ e[j + 1] \in Nat /\ e[a] \in Nat
      BY <1>5, <3>1
    <3>3. QED
      BY <1>4, <1>6, <3>2
  <2>2. QED
    BY <1>4, <2>1
<1>8. nb[1] = 0
  BY <1>2, <1>6 DEF Bordes
<1>9. nb[n] + t = TamMemoria
  <2>1. n \in 1..n /\ n >= a
    OBVIOUS
  <2>2. nb[n] = e[n + 1] - t /\ e[n + 1] = TamMemoria
    BY <1>2, <1>6, <2>1 DEF Bordes
  <2>3. QED
    BY <2>2, HuecosOK DEF HuecosOK
<1>10. ASSUME NEW j \in 1..n - 1
       PROVE  /\ nb[j + 1] = nb[j] + juntos[j].tamanio /\ nb[j] <= juntos[j].base
              /\ ~juntos[j].libre /\ juntos[j].tamanio > 0
  <2>1. j \in 1..n /\ j + 1 \in 1..n /\ (j + 1) + 1 = j + 2 /\ j + 2 \in 1..n + 1
    OBVIOUS
  <2>2. CASE j < a
    <3>1. juntos[j] = l[j] /\ ~l[j].libre /\ nb[j] = e[j]
      BY <1>1, <1>6, <2>1, <2>2
    <3>a. /\ e[j + 1] = e[j] + l[j].tamanio /\ e[j] = l[j].base
          /\ e[j] \in Nat /\ l[j].tamanio \in Nat /\ l[j].tamanio > 0
      BY <1>5, <2>1
    <3>2. CASE j + 1 < a
      <4>1. nb[j + 1] = e[j + 1]
        BY <1>6, <2>1, <3>2
      <4>2. QED
        BY <3>1, <3>a, <4>1
    <3>3. CASE j + 1 = a
      <4>a. a \in 1..n /\ a >= a
        OBVIOUS
      <4>1. nb[a] = e[a + 1] - t /\ e[a + 1] = e[a] + t /\ e[a] = e[j] + l[j].tamanio
        BY <1>3, <1>5, <1>6, <3>3, <3>a, <4>a
      <4>2. e[a] \in Nat /\ a \in 1..n
        BY <1>5, <2>1, <3>3
      <4>3. nb[a] = e[a]
        BY <4>1, <4>2
      <4>4. nb[j + 1] = e[a]
        BY <3>3, <4>3
      <4>5. QED
        BY <3>1, <3>a, <4>1, <4>4
    <3>4. QED
      BY <2>2, <3>2, <3>3
  <2>3. CASE j >= a
    <3>1. juntos[j] = l[j + 1] /\ ~l[j + 1].libre /\ nb[j] = e[j + 1] - t
      BY <1>1, <1>6, <2>1, <2>3
    <3>2. nb[j + 1] = e[j + 2] - t /\ e[j + 2] = e[j + 1] + l[j + 1].tamanio
      BY <1>5, <1>6, <2>1, <2>3
    <3>3. e[j + 1] = l[j + 1].base /\ e[j + 1] \in Nat /\ l[j + 1].tamanio \in Nat /\ l[j + 1].tamanio > 0
      BY <1>5, <2>1
    <3>4. QED
      BY <3>1, <3>2, <3>3
  <2>4. QED
    BY <2>2, <2>3
<1>11. ASSUME NEW i \in 1..n - 1, NEW j \in 1..n - 1, i < j PROVE juntos[i].base < juntos[j].base
  <2>1. PICK x \in 1..n : juntos[i] = l[x] /\ x = IF i < a THEN i ELSE i + 1
    BY <1>1
  <2>2. PICK y \in 1..n : juntos[j] = l[y] /\ y = IF j < a THEN j ELSE j + 1
    BY <1>1
  <2>3. x < y
    BY <1>11, <2>1, <2>2
  <2>4. QED
    BY <2>1, <2>2, <2>3, BasesCrecen
<1>12. ASSUME NEW i \in 2..n, ~l[i].libre PROVE \E j \in 2..n - 1 : juntos[j] = l[i]
  <2>1. i # a /\ i \in 1..n /\ a \in 1..n
    BY <1>12
  <2>2. CASE i < a
    <3>1. i \in 2..n - 1 /\ i \in 1..a - 1
      BY <2>1, <2>2
    <3>2. QED
      BY <1>1, <3>1
  <2>3. CASE i > a
    <3>1. PICK j \in Nat : j = i - 1
      OBVIOUS
    <3>2. j \in a..n - 1 /\ j \in 2..n - 1 /\ j + 1 = i
      BY <2>3, <3>1
    <3>3. QED
      BY <1>1, <3>2
  <2>4. QED
    BY <2>1, <2>2, <2>3
<1>13. ASSUME NEW j \in 2..n - 1 PROVE \E i \in 2..n : juntos[j] = l[i]
  <2>1. CASE j < a
    BY <1>1, <2>1
  <2>2. CASE j >= a
    <3>1. j \in a..n - 1 /\ j + 1 \in 2..n
      BY <2>2
    <3>2. QED
      BY <1>1, <3>1
  <2>3. QED
    BY <2>1, <2>2
<1>14. juntos[1] = l[1] /\ juntos[n].libre /\ juntos[n].tamanio = t
  BY <1>1, <1>3
<1>15. Acomodo(l, juntos, n, nb, t)
  BY <1>1, <1>3, <1>7, <1>8, <1>9, <1>10, <1>11, <1>12, <1>13, <1>14 DEF Acomodo
<1>16. QED
  BY <1>3, <1>15

(* Two free holes: those behind the second come forward by the bytes of    *)
(* both.                                                                   *)
LEMMA AcomodoDos ==
  ASSUME NEW l \in Listas, SinVacios(l), NEW n \in Nat, NEW a, NEW b, DosLibres(l, n, a, b),
         NEW juntos, juntos = JuntarLibres(l)
  PROVE  \E nb : Acomodo(l, juntos, n - 1, nb, l[a].tamanio + l[b].tamanio)
<1>d. n = Len(l) /\ a \in 2..n /\ b \in a + 1..n /\ \A i \in 1..n : l[i].libre <=> i = a \/ i = b
  BY DEF DosLibres
<1>j. /\ juntos \in Listas /\ Len(juntos) = n - 1
      /\ \A j \in 1..a - 1 : juntos[j] = l[j]
      /\ \A j \in a..b - 2 : juntos[j] = l[j + 1]
      /\ \A j \in b - 1..n - 2 : juntos[j] = l[j + 2]
      /\ juntos[n - 1].libre /\ juntos[n - 1].base = l[a].base
      /\ juntos[n - 1].tamanio = l[a].tamanio + l[b].tamanio
  BY JuntarDos
<1> USE <1>d
<1>0. PICK m \in Nat : m = n - 1 /\ m + 1 = n /\ m >= 2
  OBVIOUS
<1>1. /\ juntos \in Listas /\ Len(juntos) = m
      /\ \A j \in 1..a - 1 : juntos[j] = l[j]
      /\ \A j \in a..b - 2 : juntos[j] = l[j + 1]
      /\ \A j \in b - 1..n - 2 : juntos[j] = l[j + 2]
      /\ juntos[m].libre /\ juntos[m].tamanio = l[a].tamanio + l[b].tamanio
  BY <1>0, <1>j
<1>2. PICK e : Bordes(l, n, e)
  BY BordesHay DEF SinVacios
<1>3. PICK t \in Nat, u \in Nat : t = l[a].tamanio /\ t > 0 /\ u = l[b].tamanio /\ u > 0
  <2>1. a \in 1..n /\ b \in 1..n
    OBVIOUS
  <2>2. QED
    BY <2>1, ListasSonSecuencias DEF SinVacios
<1>4. PICK nb : nb = [j \in 1..m |-> IF j < a THEN e[j] ELSE IF j < b - 1 THEN e[j + 1] - t
                                     ELSE e[j + 2] - t - u]
  OBVIOUS
<1>5. /\ \A i \in 1..n + 1 : e[i] \in Nat
      /\ \A i \in 1..n : /\ e[i] = l[i].base /\ e[i + 1] = e[i] + l[i].tamanio
                         /\ l[i].tamanio \in Nat /\ l[i].tamanio > 0
      /\ \A i \in 1..n, j \in 1..n + 1 : i < j => e[i] + l[i].tamanio <= e[j]
  BY <1>2, ListasSonSecuencias DEF Bordes, SinVacios
<1>a. a \in 1..n /\ b \in 1..n /\ a < b /\ a \in 1..n + 1 /\ b \in 1..n + 1
  OBVIOUS
<1>b. e[a + 1] = e[a] + t /\ e[b + 1] = e[b] + u /\ e[a] + t <= e[b] /\ e[a] \in Nat /\ e[b] \in Nat
  BY <1>3, <1>5, <1>a
<1>6. /\ \A j \in 1..m : j < a => nb[j] = e[j]
      /\ \A j \in 1..m : j >= a /\ j < b - 1 => nb[j] = e[j + 1] - t /\ e[j + 1] - t >= e[a]
      /\ \A j \in 1..m : j >= b - 1 => nb[j] = e[j + 2] - t - u /\ e[j + 2] - t - u >= e[a]
  <2>1. ASSUME NEW j \in 1..m, j >= a PROVE e[j + 1] - t >= e[a]
    <3>1. j + 1 \in 1..n + 1 /\ a < j + 1
      BY <1>0, <2>1
    <3>2. e[a] + t <= e[j + 1] /\ e[j + 1] \in Nat
      BY <1>3, <1>5, <1>a, <3>1
    <3>3. QED
      BY <1>b, <3>2
  <2>2. ASSUME NEW j \in 1..m, j >= b - 1 PROVE e[j + 2] - t - u >= e[a]
    <3>1. j + 2 \in 1..n + 1 /\ b < j + 2
      BY <1>0, <2>2
    <3>2. e[b] + u <= e[j + 2] /\ e[j + 2] \in Nat
      BY <1>3, <1>5, <1>a, <3>1
    <3>3. QED
      BY <1>b, <3>2, SMTT(30)
  <2>3. \A j \in 1..m : j >= b - 1 => ~(j < a)
    OBVIOUS
  <2>4. QED
    BY <1>4, <2>1, <2>2, <2>3
<1>7. nb \in [1..m -> Nat]
  <2>1. ASSUME NEW j \in 1..m PROVE nb[j] \in Nat
    <3>1. j \in 1..n + 1 /\ j + 1 \in 1..n + 1 /\ j + 2 \in 1..n + 1
      BY <1>0
    <3>2. e[j] \in Nat /\ e[j + 1] \in Nat /\ e[j + 2] \in Nat
      BY <1>5, <3>1
    <3>3. CASE j < a
      BY <1>6, <3>2, <3>3
    <3>4. CASE j >= a /\ j < b - 1
      <4>1. PICK x \in Nat : x = e[j + 1]
        BY <3>2
      <4>2. nb[j] = x - t /\ x - t >= e[a]
        BY <1>6, <3>4, <4>1
      <4>3. QED
        BY <1>b, <4>2
    <3>5. CASE j >= b - 1
      <4>1. PICK x \in Nat : x = e[j + 2]
        BY <3>2
      <4>2. nb[j] = x - t - u /\ x - t - u >= e[a]
        BY <1>6, <3>5, <4>1
      <4>3. QED
        BY <1>b, <4>2
    <3>6. QED
      BY <3>3, <3>4, <3>5
  <2>2. QED
    BY <1>4, <2>1
<1>8. nb[1] = 0
  BY <1>0, <1>2, <1>6 DEF Bordes
<1>9. nb[m] + (t + u) = TamMemoria
  <2>1. m \in 1..m /\ m >= b - 1 /\ m + 2 = n + 1
    BY <1>0
  <2>2. nb[m] = e[m + 2] - t - u /\ e[m + 2] = TamMemoria
    BY <1>2, <1>6, <2>1 DEF Bordes
  <2>3. QED
    BY <2>2, HuecosOK DEF HuecosOK
<1>10. ASSUME NEW j \in 1..m - 1
       PROVE  /\ nb[j + 1] = nb[j] + juntos[j].tamanio /\ nb[j] <= juntos[j].base
              /\ ~juntos[j].libre /\ juntos[j].tamanio > 0
  <2>1. /\ j \in 1..m /\ j + 1 \in 1..m /\ (j + 1) + 1 = j + 2 /\ j + 2 \in 1..n /\ j \in 1..n
        /\ j + 1 \in 1..n /\ (j + 1) + 2 = j + 3 /\ (j + 2) + 1 = j + 3
    BY <1>0
  <2>2. CASE j < a
    <3>1. juntos[j] = l[j] /\ ~l[j].libre /\ nb[j] = e[j] /\ e[j] = l[j].base
      BY <1>1, <1>5, <1>6, <2>1, <2>2
    <3>a. e[j + 1] = e[j] + l[j].tamanio /\ l[j].tamanio > 0 /\ e[j] \in Nat /\ l[j].tamanio \in Nat
      BY <1>5, <2>1
    <3>2. CASE j + 1 < a
      BY <1>6, <2>1, <3>1, <3>2, <3>a
    <3>3. CASE j + 1 = a /\ a < b - 1
      <4>1. nb[a] = e[a + 1] - t
        BY <1>6, <2>1, <3>3
      <4>2. QED
        BY <1>b, <3>1, <3>3, <3>a, <4>1
    <3>4. CASE j + 1 = a /\ a = b - 1
      <4>1. nb[a] = e[b + 1] - t - u /\ a + 1 = b
        BY <1>6, <2>1, <3>4
      <4>2. nb[a] = e[a]
        BY <1>b, <4>1, SMTT(30)
      <4>3. QED
        BY <3>1, <3>4, <3>a, <4>2
    <3>5. QED
      BY <2>2, <3>2, <3>3, <3>4
  <2>3. CASE j >= a /\ j < b - 1
    <3>1. juntos[j] = l[j + 1] /\ ~l[j + 1].libre /\ nb[j] = e[j + 1] - t
      BY <1>1, <1>6, <2>1, <2>3
    <3>2. /\ e[j + 2] = e[j + 1] + l[j + 1].tamanio /\ e[j + 1] = l[j + 1].base
          /\ e[j + 1] \in Nat /\ l[j + 1].tamanio \in Nat /\ l[j + 1].tamanio > 0
      <4>1. PICK i \in 1..n : i = j + 1 /\ i + 1 = j + 2 /\ i \in 1..n + 1
        BY <2>1
      <4>2. /\ e[i] = l[i].base /\ e[i + 1] = e[i] + l[i].tamanio
            /\ l[i].tamanio \in Nat /\ l[i].tamanio > 0 /\ e[i] \in Nat
        BY <1>5, <4>1
      <4>3. QED
        BY <4>1, <4>2
    <3>3. CASE j + 1 < b - 1
      <4>1. nb[j + 1] = e[j + 2] - t
        BY <1>6, <2>1, <2>3, <3>3
      <4>2. QED
        BY <3>1, <3>2, <4>1
    <3>4. CASE j + 1 = b - 1
      <4>1. nb[j + 1] = e[j + 3] - t - u /\ j + 2 = b /\ j + 3 = b + 1
        BY <1>6, <2>1, <3>4
      <4>a. e[j + 3] = e[b + 1] /\ e[j + 2] = e[b]
        BY <4>1
      <4>b. nb[j + 1] = (e[b] + u) - t - u
        BY <1>b, <4>1, <4>a
      <4>2. nb[j + 1] = e[j + 2] - t
        BY <1>b, <4>a, <4>b
      <4>3. QED
        BY <3>1, <3>2, <4>2, SMTT(30)
    <3>5. QED
      BY <2>3, <3>3, <3>4
  <2>4. CASE j >= b - 1
    <3>1. juntos[j] = l[j + 2] /\ ~l[j + 2].libre /\ nb[j] = e[j + 2] - t - u
      <4>1. j \in b - 1..n - 2 /\ j + 2 # a /\ j + 2 # b
        BY <1>0, <2>4
      <4>2. QED
        BY <1>1, <1>6, <2>1, <2>4, <4>1
    <3>2. /\ e[j + 3] = e[j + 2] + l[j + 2].tamanio /\ e[j + 2] = l[j + 2].base
          /\ e[j + 2] \in Nat /\ l[j + 2].tamanio \in Nat /\ l[j + 2].tamanio > 0
      <4>1. PICK i \in 1..n : i = j + 2 /\ i + 1 = j + 3 /\ i \in 1..n + 1
        BY <2>1
      <4>2. /\ e[i] = l[i].base /\ e[i + 1] = e[i] + l[i].tamanio
            /\ l[i].tamanio \in Nat /\ l[i].tamanio > 0 /\ e[i] \in Nat
        BY <1>5, <4>1
      <4>3. QED
        BY <4>1, <4>2
    <3>3. nb[j + 1] = e[j + 3] - t - u
      BY <1>6, <2>1, <2>4
    <3>4. PICK x \in Nat, y \in Nat : x = e[j + 2] /\ y = l[j + 2].tamanio
      BY <3>2
    <3>5. nb[j + 1] = (x + y) - t - u /\ nb[j] = x - t - u
      BY <3>1, <3>2, <3>3, <3>4
    <3>6. nb[j + 1] = nb[j] + y /\ nb[j] <= x
      BY <3>5
    <3>7. QED
      BY <3>1, <3>2, <3>4, <3>6
  <2>5. QED
    BY <2>2, <2>3, <2>4
<1>c. ASSUME NEW j \in 1..m - 1
      PROVE  \E x \in 1..n : juntos[j] = l[x] /\ x = IF j < a THEN j ELSE IF j < b - 1 THEN j + 1 ELSE j + 2
  <2>1. CASE j < a
    BY <1>0, <1>1, <2>1
  <2>2. CASE j >= a /\ j < b - 1
    BY <1>0, <1>1, <2>2
  <2>3. CASE j >= b - 1
    <3>1. j \in b - 1..n - 2 /\ j + 2 \in 1..n /\ ~(j < a) /\ ~(j < b - 1)
      BY <1>0, <2>3
    <3>2. QED
      BY <1>1, <3>1
  <2>4. QED
    BY <2>1, <2>2, <2>3
<1>11. ASSUME NEW i \in 1..m - 1, NEW j \in 1..m - 1, i < j PROVE juntos[i].base < juntos[j].base
  <2>1. PICK x \in 1..n :
          juntos[i] = l[x] /\ x = IF i < a THEN i ELSE IF i < b - 1 THEN i + 1 ELSE i + 2
    BY <1>c
  <2>2. PICK y \in 1..n :
          juntos[j] = l[y] /\ y = IF j < a THEN j ELSE IF j < b - 1 THEN j + 1 ELSE j + 2
    BY <1>c
  <2>3. x < y
    BY <1>11, <2>1, <2>2
  <2>4. QED
    BY <2>1, <2>2, <2>3, BasesCrecen
<1>12. ASSUME NEW i \in 2..n, ~l[i].libre PROVE \E j \in 2..m - 1 : juntos[j] = l[i]
  <2>1. i # a /\ i # b /\ i \in 1..n
    BY <1>12
  <2>2. CASE i < a
    <3>1. i \in 2..m - 1 /\ i \in 1..a - 1
      BY <1>0, <2>1, <2>2
    <3>2. QED
      BY <1>1, <3>1
  <2>3. CASE i > a /\ i < b
    <3>1. PICK j \in Nat : j = i - 1
      OBVIOUS
    <3>2. j \in a..b - 2 /\ j \in 2..m - 1 /\ j + 1 = i
      BY <1>0, <2>3, <3>1
    <3>3. QED
      BY <1>1, <3>2
  <2>4. CASE i > b
    <3>1. PICK j \in Nat : j = i - 2
      OBVIOUS
    <3>2. j \in b - 1..n - 2 /\ j \in 2..m - 1 /\ j + 2 = i
      BY <1>0, <2>4, <3>1
    <3>3. QED
      BY <1>1, <3>2
  <2>5. QED
    BY <2>1, <2>2, <2>3, <2>4
<1>13. ASSUME NEW j \in 2..m - 1 PROVE \E i \in 2..n : juntos[j] = l[i]
  <2>1. j \in 1..m - 1
    OBVIOUS
  <2>2. PICK x \in 1..n : juntos[j] = l[x] /\ x = IF j < a THEN j ELSE IF j < b - 1 THEN j + 1 ELSE j + 2
    BY <1>c, <2>1
  <2>3. x \in 2..n
    BY <2>2
  <2>4. QED
    BY <2>2, <2>3
<1>14. juntos[1] = l[1] /\ juntos[m].libre /\ juntos[m].tamanio = t + u
  BY <1>1, <1>3
<1>15. PICK s \in Nat : s = t + u /\ s > 0 /\ s = l[a].tamanio + l[b].tamanio
  BY <1>3
<1>16. Acomodo(l, juntos, m, nb, s)
  BY <1>0, <1>1, <1>7, <1>8, <1>9, <1>10, <1>11, <1>12, <1>13, <1>14, <1>15 DEF Acomodo
<1>17. QED
  BY <1>0, <1>15, <1>16

-----------------------------------------------------------------------------
(* Only the hole at a is free.                                             *)
UnLibre(l, n, a) == n = Len(l) /\ a \in 2..n /\ \A i \in 1..n : l[i].libre <=> i = a

(* The free bytes are those of the free holes.                             *)
LEMMA LibreDeUno ==
  ASSUME NEW l \in Listas, NEW n \in Nat, NEW a, UnLibre(l, n, a)
  PROVE  Libre(l) = l[a].tamanio
<1>1. n = Len(l) /\ a \in 2..n /\ \A i \in 1..n : l[i].libre <=> i = a
  BY DEF UnLibre
<1>2. PICK F : Turnos(F, 0, l, n, [bucle |-> "suma"]) /\ Libre(l) = F[n]
  BY <1>1, LibrePorTurnos
<1>3. F[0] = 0 /\ \A k \in 1..n : F[k] = IF l[k].libre THEN F[k - 1] + l[k].tamanio ELSE F[k - 1]
  BY <1>2 DEF Turnos, Paso
<1>4. PICK t \in Nat : t = l[a].tamanio
  <2>1. a \in 1..n
    BY <1>1
  <2>2. QED
    BY <1>1, <2>1, ListasSonSecuencias
<1> DEFINE Mal == {k \in 0..n : F[k] # IF k < a THEN 0 ELSE t}
<1>5. 0 \notin Mal
  BY <1>1, <1>3
<1>6. ASSUME NEW k \in 1..n, k - 1 \notin Mal PROVE k \notin Mal
  <2>1. k - 1 \in 0..n /\ F[k - 1] = IF k - 1 < a THEN 0 ELSE t
    BY <1>6
  <2>2. CASE k = a
    <3>1. F[k] = F[k - 1] + l[a].tamanio
      BY <1>1, <1>3, <2>2
    <3>2. QED
      BY <1>1, <1>4, <2>1, <2>2, <3>1
  <2>3. CASE k # a
    <3>1. F[k] = F[k - 1]
      BY <1>1, <1>3, <2>3
    <3>2. QED
      BY <1>1, <2>1, <2>3, <3>1
  <2>4. QED
    BY <2>2, <2>3
<1>7. Mal \in SUBSET (0..n)
  OBVIOUS
<1>8. Mal = {}
  <2> HIDE DEF Mal
  <2>1. QED
    BY <1>5, <1>6, <1>7, Induccion
<1>9. n \in 0..n /\ ~(n < a)
  BY <1>1
<1>10. F[n] = t
  BY <1>8, <1>9
<1>11. QED
  BY <1>2, <1>4, <1>10

(* Those of both, when there are two.                                      *)
LEMMA LibreDeDos ==
  ASSUME NEW l \in Listas, NEW n \in Nat, NEW a, NEW b, DosLibres(l, n, a, b)
  PROVE  Libre(l) = l[a].tamanio + l[b].tamanio
<1>1. n = Len(l) /\ a \in 2..n /\ b \in a + 1..n /\ \A i \in 1..n : l[i].libre <=> i = a \/ i = b
  BY DEF DosLibres
<1>2. PICK F : Turnos(F, 0, l, n, [bucle |-> "suma"]) /\ Libre(l) = F[n]
  BY <1>1, LibrePorTurnos
<1>3. F[0] = 0 /\ \A k \in 1..n : F[k] = IF l[k].libre THEN F[k - 1] + l[k].tamanio ELSE F[k - 1]
  BY <1>2 DEF Turnos, Paso
<1>4. PICK t \in Nat, u \in Nat : t = l[a].tamanio /\ u = l[b].tamanio
  <2>1. a \in 1..n /\ b \in 1..n
    BY <1>1
  <2>2. QED
    BY <1>1, <2>1, ListasSonSecuencias
<1> DEFINE Mal == {k \in 0..n : F[k] # IF k < a THEN 0 ELSE IF k < b THEN t ELSE t + u}
<1>5. 0 \notin Mal
  BY <1>1, <1>3
<1>6. ASSUME NEW k \in 1..n, k - 1 \notin Mal PROVE k \notin Mal
  <2>1. k - 1 \in 0..n /\ F[k - 1] = IF k - 1 < a THEN 0 ELSE IF k - 1 < b THEN t ELSE t + u
    BY <1>6
  <2>2. CASE k = a
    <3>1. F[k] = F[k - 1] + l[a].tamanio
      BY <1>1, <1>3, <2>2
    <3>2. QED
      BY <1>1, <1>4, <2>1, <2>2, <3>1
  <2>3. CASE k = b
    <3>1. F[k] = F[k - 1] + l[b].tamanio
      BY <1>1, <1>3, <2>3
    <3>2. QED
      BY <1>1, <1>4, <2>1, <2>3, <3>1
  <2>4. CASE k # a /\ k # b
    <3>1. F[k] = F[k - 1]
      BY <1>1, <1>3, <2>4
    <3>2. QED
      BY <1>1, <2>1, <2>4, <3>1
  <2>5. QED
    BY <2>2, <2>3, <2>4
<1>7. Mal \in SUBSET (0..n)
  OBVIOUS
<1>8. Mal = {}
  <2> HIDE DEF Mal
  <2>1. QED
    BY <1>5, <1>6, <1>7, Induccion
<1>9. n \in 0..n /\ ~(n < a) /\ ~(n < b)
  BY <1>1
<1>10. F[n] = t + u
  BY <1>8, <1>9
<1>11. QED
  BY <1>2, <1>4, <1>10

(* The first loop, on a list that can be compacted.                        *)
LEMMA AcomodoHay ==
  ASSUME NEW l \in Listas, Sana(l), Compactable(l), NEW juntos, juntos = JuntarLibres(l)
  PROVE  \E m, nb : Acomodo(l, juntos, m, nb, Libre(l))
<1>1. PICK n \in Nat : n = Len(l) /\ DOMAIN l = 1..n
  BY ListasSonSecuencias
<1>2. SinVacios(l)
  BY <1>1, ListasSonSecuencias DEF Sana, SinVacios, Compactable, Libres
<1>3. 1 \notin Libres(l) /\ \A i \in 1..n : i \in Libres(l) <=> l[i].libre
  BY <1>1 DEF Sana, Libres
<1>4. CASE \E a \in 1..n : Libres(l) = {a}
  <2>1. PICK a \in 1..n : Libres(l) = {a}
    BY <1>4
  <2>2. a \in 2..n /\ \A i \in 1..n : l[i].libre <=> i = a
    BY <1>3, <2>1
  <2>3. PICK nb : Acomodo(l, juntos, n, nb, l[a].tamanio)
    BY <1>1, <1>2, <2>2, AcomodoUno
  <2>4. Libre(l) = l[a].tamanio
    BY <1>1, <2>2, LibreDeUno DEF UnLibre
  <2>5. QED
    BY <2>3, <2>4
<1>5. CASE \E a, b \in 1..n : a < b /\ Libres(l) = {a, b}
  <2>1. PICK a \in 1..n, b \in 1..n : a < b /\ Libres(l) = {a, b}
    BY <1>5
  <2>2. DosLibres(l, n, a, b)
    BY <1>1, <1>3, <2>1 DEF DosLibres
  <2>3. PICK nb : Acomodo(l, juntos, n - 1, nb, l[a].tamanio + l[b].tamanio)
    BY <1>2, <2>2, AcomodoDos
  <2>4. Libre(l) = l[a].tamanio + l[b].tamanio
    BY <2>2, LibreDeDos
  <2>5. QED
    BY <2>3, <2>4
<1>6. QED
  BY <1>1, <1>4, <1>5, UnoODos

-----------------------------------------------------------------------------
(* F goes through the turns of the second loop on the list of the first.   *)
Recorrido(F, juntos, ts, m) ==
  /\ F[0] = InicioReubicar(juntos, ts)
  /\ \A k \in 1..m - 1 : F[k] = Reubicar(F[k - 1], k + 1)

(* compactar, by its turns.                                                *)
LEMMA RecorridoHay ==
  ASSUME NEW l, NEW ts, NEW juntos, juntos = JuntarLibres(l), NEW m \in Nat, m >= 2,
         m = Len(juntos)
  PROVE  \E F : Recorrido(F, juntos, ts, m) /\ Compactar(l, ts) = F[m - 1]
<1>1. PICK n \in Nat : n = m - 1
  OBVIOUS
<1>2. 1..Len(juntos) - 1 = 1..n
  BY <1>1
<1>3. PICK F : /\ Turnos(F, InicioReubicar(juntos, ts), [k \in 1..n |-> k + 1], n,
                         [bucle |-> "reubicar"])
               /\ Compactar(l, ts) = F[n]
  BY <1>2, CompactarPorTurnos
<1>4. \A k \in 1..n : F[k] = Reubicar(F[k - 1], k + 1)
  BY <1>3 DEF Turnos, Paso
<1>5. F[0] = InicioReubicar(juntos, ts)
  BY <1>3 DEF Turnos
<1>6. QED
  BY <1>1, <1>3, <1>4, <1>5 DEF Recorrido

(* After turn k holes 1 to k + 1 are in their new places and the others    *)
(* where they were.                                                        *)
Colocados(d, juntos, m, nb, ts, k) ==
  /\ d \in EstadosDeReubicar(m)
  /\ \A p \in Procesos : DOMAIN d.tablas[p] = DOMAIN ts[p]
  /\ \A j \in 1..m : /\ d.l[j].base = (IF j <= k + 1 THEN nb[j] ELSE juntos[j].base)
                     /\ d.l[j].tamanio = juntos[j].tamanio
                     /\ d.l[j].libre <=> juntos[j].libre
  /\ d.l[1] = juntos[1]
  /\ k < m - 1 => d.base = nb[k + 1] /\ d.tamanio = juntos[k + 1].tamanio

(* The starting state.                                                     *)
LEMMA ColocadosInicio ==
  ASSUME NEW l \in Listas, l[1].base = 0, NEW juntos, NEW m, NEW nb, NEW total,
         Acomodo(l, juntos, m, nb, total), NEW ts \in [Procesos -> Tablas],
         NEW d, d = InicioReubicar(juntos, ts)
  PROVE  Colocados(d, juntos, m, nb, ts, 0) /\ d.tablas = ts
<1>1. /\ juntos \in Listas /\ m \in Nat /\ m = Len(juntos) /\ m >= 2 /\ nb[1] = 0
      /\ juntos[1] = l[1]
  BY DEF Acomodo
<1>2. /\ d.l = juntos /\ d.tablas = ts /\ d.base = juntos[1].base
      /\ d.tamanio = juntos[1].tamanio
      /\ d = [l |-> juntos, tablas |-> ts, base |-> juntos[1].base, tamanio |-> juntos[1].tamanio]
  BY DEF InicioReubicar
<1>3. juntos[1].base = 0 /\ juntos[1].tamanio \in Nat
  <2>1. 1 \in 1..m
    BY <1>1
  <2>2. QED
    BY <1>1, <2>1, ListasSonSecuencias
<1>4. d \in EstadosDeReubicar(m)
  BY <1>1, <1>2, <1>3 DEF EstadosDeReubicar
<1>5. \A j \in 1..m : d.l[j].base = IF j <= 0 + 1 THEN nb[j] ELSE juntos[j].base
  BY <1>1, <1>2, <1>3
<1>6. QED
  BY <1>1, <1>2, <1>3, <1>4, <1>5 DEF Colocados

(* Turn k.                                                                 *)
Turno(c, d, juntos, m, nb, ts, k, x) ==
  /\ k \in 1..m - 1 /\ x = k + 1
  /\ Colocados(c, juntos, m, nb, ts, k - 1) /\ d = Reubicar(c, x)

(* It puts hole k + 1 behind hole k and, if it is occupied, moves the      *)
(* segments that start where it did.                                       *)
LEMMA ColocadosPaso ==
  ASSUME NEW l \in Listas, NEW juntos, NEW m, NEW nb, NEW total,
         Acomodo(l, juntos, m, nb, total), NEW ts, NEW c, NEW d, NEW k, NEW x,
         Turno(c, d, juntos, m, nb, ts, k, x)
  PROVE  /\ Colocados(d, juntos, m, nb, ts, k)
         /\ x = m => d.tablas = c.tablas
         /\ x < m => \A p \in Procesos :
                       d.tablas[p] = MoverSegmento(c.tablas[p], juntos[x].base, nb[x])
<1>1. /\ m \in Nat /\ m >= 2 /\ k \in Nat /\ k >= 1 /\ k < m /\ x \in 1..m /\ x # 1
      /\ k \in 1..m - 1 /\ k - 1 < m - 1 /\ (k - 1) + 1 = k /\ x <= m /\ x = k + 1
  <2>1. k \in 1..m - 1 /\ x = k + 1
    BY DEF Turno
  <2>2. m \in Nat /\ m >= 2
    BY DEF Acomodo
  <2>3. QED
    BY <2>1, <2>2
<1>2. /\ nb[x] = nb[k] + juntos[k].tamanio
      /\ juntos[m].libre /\ \A j \in 1..m - 1 : ~juntos[j].libre
  <2>1. \A j \in 1..m - 1 : nb[j + 1] = nb[j] + juntos[j].tamanio
    BY DEF Acomodo
  <2>2. juntos[m].libre /\ \A j \in 1..m - 1 : ~juntos[j].libre
    BY DEF Acomodo
  <2>3. QED
    BY <1>1, <2>1, <2>2
<1>3. /\ c \in EstadosDeReubicar(m)
      /\ \A p \in Procesos : DOMAIN c.tablas[p] = DOMAIN ts[p]
      /\ \A j \in 1..m : /\ c.l[j].base = (IF j <= k THEN nb[j] ELSE juntos[j].base)
                         /\ c.l[j].tamanio = juntos[j].tamanio
                         /\ c.l[j].libre <=> juntos[j].libre
      /\ c.l[1] = juntos[1]
      /\ c.base = nb[k] /\ c.tamanio = juntos[k].tamanio
  BY <1>1 DEF Colocados, Turno
<1>a. m \in Nat /\ c \in EstadosDeReubicar(m) /\ x \in 1..m /\ d = Reubicar(c, x)
  BY <1>1, <1>3 DEF Turno
<1>4. /\ d \in EstadosDeReubicar(m)
      /\ \A p \in Procesos : DOMAIN d.tablas[p] = DOMAIN c.tablas[p]
      /\ d.l[x].base = c.base + c.tamanio /\ d.l[x].tamanio = c.l[x].tamanio
      /\ d.l[x].libre <=> c.l[x].libre
      /\ \A j \in 1..m : j # x => d.l[j] = c.l[j]
      /\ d.tamanio = c.l[x].tamanio
      /\ c.l[x].libre => d.base = c.base /\ d.tablas = c.tablas
      /\ ~c.l[x].libre =>
           /\ d.base = c.base + c.tamanio
           /\ \A p \in Procesos :
                d.tablas[p] = MoverSegmento(c.tablas[p], c.l[x].base, c.base + c.tamanio)
  BY <1>a, ReubicarTurno
<1>5. c.l[x].base = juntos[x].base /\ c.l[x].tamanio = juntos[x].tamanio /\ (c.l[x].libre <=> x = m)
  BY <1>1, <1>2, <1>3
<1>6. c.base + c.tamanio = nb[x]
  BY <1>2, <1>3
<1>7. x < m => /\ d.base = nb[x]
               /\ \A p \in Procesos :
                    d.tablas[p] = MoverSegmento(c.tablas[p], juntos[x].base, nb[x])
  BY <1>1, <1>4, <1>5, <1>6
<1>8. ASSUME NEW j \in 1..m
      PROVE  /\ d.l[j].base = (IF j <= k + 1 THEN nb[j] ELSE juntos[j].base)
             /\ d.l[j].tamanio = juntos[j].tamanio
             /\ d.l[j].libre <=> juntos[j].libre
  <2>1. CASE j = x
    <3>1. d.l[j].libre <=> c.l[j].libre
      BY <1>4, <2>1
    <3>2. d.l[j].base = nb[j] /\ d.l[j].tamanio = juntos[j].tamanio
      BY <1>4, <1>5, <1>6, <2>1
    <3>3. QED
      BY <1>1, <1>3, <2>1, <3>1, <3>2
  <2>2. CASE j # x
    <3>1. j <= k <=> j <= k + 1
      BY <1>1, <2>2
    <3>2. d.l[j] = c.l[j]
      BY <1>4, <2>2
    <3>3. QED
      BY <1>3, <3>1, <3>2
  <2>3. QED
    BY <2>1, <2>2
<1>9. d.l[1] = juntos[1]
  BY <1>1, <1>3, <1>4
<1>10. k < m - 1 => d.base = nb[k + 1] /\ d.tamanio = juntos[k + 1].tamanio
  BY <1>1, <1>4, <1>5, <1>7
<1>11. \A p \in Procesos : DOMAIN d.tablas[p] = DOMAIN ts[p]
  BY <1>3, <1>4
<1>12. Colocados(d, juntos, m, nb, ts, k)
  BY <1>4, <1>8, <1>9, <1>10, <1>11 DEF Colocados
<1>13. x = m => d.tablas = c.tablas
  BY <1>1, <1>4, <1>5
<1>14. QED
  BY <1>7, <1>12, <1>13

(* So the holes end up one after the other, the free one at the end.       *)
LEMMA ColocadosTodos ==
  ASSUME NEW l \in Listas, l[1].base = 0, NEW juntos, NEW m, NEW nb, NEW total,
         Acomodo(l, juntos, m, nb, total), NEW ts \in [Procesos -> Tablas],
         NEW F, Recorrido(F, juntos, ts, m)
  PROVE  \A k \in 0..m - 1 : Colocados(F[k], juntos, m, nb, ts, k)
<1>a. m \in Nat /\ m >= 2
  BY DEF Acomodo
<1>1. PICK n \in Nat : n = m - 1
  BY <1>a
<1> DEFINE Mal == {k \in 0..n : ~Colocados(F[k], juntos, m, nb, ts, k)}
<1>2. 0 \notin Mal
  BY ColocadosInicio DEF Recorrido
<1>3. ASSUME NEW k \in 1..n, k - 1 \notin Mal PROVE k \notin Mal
  <2>1. PICK c, d, x : c = F[k - 1] /\ d = F[k] /\ x = k + 1
    OBVIOUS
  <2>2. k \in 1..m - 1 /\ k - 1 \in 0..n
    BY <1>1
  <2>3. Turno(c, d, juntos, m, nb, ts, k, x)
    BY <1>3, <2>1, <2>2 DEF Recorrido, Turno
  <2>4. Colocados(d, juntos, m, nb, ts, k)
    BY <2>3, ColocadosPaso
  <2>5. QED
    BY <2>1, <2>4
<1>4. Mal \in SUBSET (0..n)
  OBVIOUS
<1>5. Mal = {}
  <2> HIDE DEF Mal
  <2>1. QED
    BY <1>2, <1>3, <1>4, Induccion
<1>6. QED
  BY <1>1, <1>5

-----------------------------------------------------------------------------
(* No segment other than 0 of these tables starts at 0.                    *)
SinCero(ts) == \A p \in Procesos : \A k \in DOMAIN ts[p] \ {0} : ts[p][k].base # 0

(* The second loop moves them to bases that are not 0.                     *)
LEMMA SinCeroTodos ==
  ASSUME NEW l \in Listas, l[1].base = 0, NEW juntos, NEW m, NEW nb, NEW total,
         Acomodo(l, juntos, m, nb, total), NEW ts \in [Procesos -> Tablas], SinCero(ts),
         NEW F, Recorrido(F, juntos, ts, m)
  PROVE  SinCero(F[m - 1].tablas)
<1>a. m \in Nat /\ m >= 2
  BY DEF Acomodo
<1>1. PICK n \in Nat : n = m - 1
  BY <1>a
<1>2. \A k \in 0..n : Colocados(F[k], juntos, m, nb, ts, k)
  BY <1>1, ColocadosTodos
<1>3. ASSUME NEW j \in 2..m PROVE nb[j] \in Nat /\ nb[j] > 0
  <2>1. j - 1 \in 1..m - 1 /\ (j - 1) + 1 = j /\ j \in 1..m /\ j - 1 \in 1..m
    BY <1>a
  <2>2. nb \in [1..m -> Nat] /\ juntos \in Listas /\ m = Len(juntos)
    BY DEF Acomodo
  <2>3. \A i \in 1..m - 1 : nb[i + 1] = nb[i] + juntos[i].tamanio /\ juntos[i].tamanio > 0
    BY DEF Acomodo
  <2>4. PICK x \in Nat, y \in Nat : x = nb[j - 1] /\ y = juntos[j - 1].tamanio
    BY <2>1, <2>2, ListasSonSecuencias
  <2>5. nb[j] = x + y /\ y > 0
    BY <2>1, <2>3, <2>4
  <2>6. QED
    BY <2>5
<1> DEFINE Mal == {k \in 0..n : ~SinCero(F[k].tablas)}
<1>4. 0 \notin Mal
  BY DEF Recorrido, InicioReubicar
<1>5. ASSUME NEW k \in 1..n, k - 1 \notin Mal PROVE k \notin Mal
  <2>1. PICK c, d, x : c = F[k - 1] /\ d = F[k] /\ x = k + 1
    OBVIOUS
  <2>2. k \in 1..m - 1 /\ k - 1 \in 0..n /\ x \in 2..m /\ x <= m
    BY <1>1, <1>a, <2>1
  <2>3. Turno(c, d, juntos, m, nb, ts, k, x)
    BY <1>2, <2>1, <2>2 DEF Recorrido, Turno
  <2>4. /\ x = m => d.tablas = c.tablas
        /\ x < m => \A p \in Procesos :
                      d.tablas[p] = MoverSegmento(c.tablas[p], juntos[x].base, nb[x])
    BY <2>3, ColocadosPaso
  <2>5. SinCero(c.tablas)
    BY <1>5, <2>1, <2>2
  <2>6. CASE x = m
    BY <2>1, <2>4, <2>5, <2>6
  <2>7. CASE x < m
    <3>1. ASSUME NEW p \in Procesos, NEW i \in DOMAIN d.tablas[p] \ {0}
          PROVE  d.tablas[p][i].base # 0
      <4>1. PICK t, r : t = c.tablas[p] /\ r = d.tablas[p]
        OBVIOUS
      <4>2. PICK w : w = juntos[x].base
        OBVIOUS
      <4>3. PICK b \in Nat : b = nb[x] /\ b > 0
        BY <1>3, <2>2
      <4>4. r = MoverSegmento(t, w, b)
        BY <2>4, <2>7, <4>1, <4>2, <4>3
      <4>5. t \in Tablas
        <5>1. c \in EstadosDeReubicar(m)
          BY <2>3 DEF Turno, Colocados
        <5>2. QED
          BY <4>1, <5>1 DEF EstadosDeReubicar
      <4>6. /\ DOMAIN r = DOMAIN t
            /\ ConBase(t, w) = {} => r = t
            /\ ConBase(t, w) # {} =>
                 \E y \in ConBase(t, w) :
                   /\ y \in Indices /\ r[y] = Segmento(b, t[y].tamanio)
                   /\ \A z \in DOMAIN t : z # y => r[z] = t[z]
        BY <4>4, <4>5, MoverBien
      <4>7. i \in DOMAIN t \ {0} /\ t[i].base # 0
        BY <2>5, <3>1, <4>1, <4>6 DEF SinCero
      <4>8. CASE ConBase(t, w) = {}
        BY <4>1, <4>6, <4>7, <4>8
      <4>9. CASE ConBase(t, w) # {}
        <5>1. PICK y : /\ r[y] = Segmento(b, t[y].tamanio)
                       /\ \A z \in DOMAIN t : z # y => r[z] = t[z]
          BY <4>6, <4>9
        <5>2. r[y].base = b
          BY <5>1, CamposDeSegmento
        <5>3. QED
          BY <4>1, <4>3, <4>7, <5>1, <5>2
      <4>10. QED
        BY <4>8, <4>9
    <3>2. QED
      BY <2>1, <3>1 DEF SinCero
  <2>8. QED
    BY <1>a, <2>2, <2>6, <2>7
<1>6. Mal \in SUBSET (0..n)
  OBVIOUS
<1>7. Mal = {}
  <2> HIDE DEF Mal
  <2>1. QED
    BY <1>4, <1>5, <1>6, Induccion
<1>8. QED
  BY <1>1, <1>7

(* The segments of a table that have an address of their own.              *)
Propios(p) == {k \in DOMAIN tablas[p] : k > 0 /\ tablas[p][k].base # Nulo}

(* Those with their hole among 2 to x have moved with it, and no other has *)
(* changed.                                                                *)
Movidos(ts, juntos, m, nb, x) ==
  \A p \in Procesos : \A k \in DOMAIN tablas[p] :
    /\ k \notin Propios(p) => ts[p][k] = tablas[p][k]
    /\ k \in Propios(p) => \A j \in 2..m - 1 : juntos[j].base = tablas[p][k].base =>
         ts[p][k] = Segmento(IF j <= x THEN nb[j] ELSE juntos[j].base, tablas[p][k].tamanio)

(* Every segment has its hole, and no other segment of its table has it.   *)
Alojados(juntos, m) ==
  /\ tablas \in [Procesos -> Tablas]
  /\ \A p \in Procesos : \A k \in Propios(p) :
       /\ \E j \in 2..m - 1 : juntos[j].base = tablas[p][k].base
       /\ \A i \in Propios(p) : i # k => tablas[p][i].base # tablas[p][k].base

(* Moving the segments of hole x of one table.                             *)
LEMMA MoverUno ==
  ASSUME NEW l \in Listas, NEW juntos, NEW m, NEW nb, NEW total,
         Acomodo(l, juntos, m, nb, total), Alojados(juntos, m),
         NEW ts \in [Procesos -> Tablas], NEW x, x \in 2..m - 1,
         Movidos(ts, juntos, m, nb, x - 1), NEW p \in Procesos, DOMAIN ts[p] = DOMAIN tablas[p],
         NEW k \in DOMAIN tablas[p], NEW r, r = MoverSegmento(ts[p], juntos[x].base, nb[x])
  PROVE  /\ k \notin Propios(p) => r[k] = tablas[p][k]
         /\ k \in Propios(p) => \A j \in 2..m - 1 : juntos[j].base = tablas[p][k].base =>
              r[k] = Segmento(IF j <= x THEN nb[j] ELSE juntos[j].base, tablas[p][k].tamanio)
<1>1. /\ m \in Nat /\ nb \in [1..m -> Nat] /\ juntos \in Listas /\ m = Len(juntos)
      /\ \A i, j \in 1..m - 1 : i < j => juntos[i].base < juntos[j].base
      /\ \A j \in 1..m - 1 : nb[j] <= juntos[j].base
  BY DEF Acomodo
<1>2. PICK w \in Nat, b \in Nat : w = juntos[x].base /\ b = nb[x]
  <2>1. x \in 1..m
    BY <1>1
  <2>2. QED
    BY <1>1, <2>1, ListasSonSecuencias
<1>3. PICK t, u : t = ts[p] /\ u = tablas[p]
  OBVIOUS
<1>4. t \in Tablas /\ u \in Tablas /\ DOMAIN t = DOMAIN u /\ r = MoverSegmento(t, w, b)
  BY <1>2, <1>3 DEF Alojados
<1>5. /\ DOMAIN r = DOMAIN t
      /\ ConBase(t, w) = {} => r = t
      /\ ConBase(t, w) # {} =>
           \E y \in ConBase(t, w) :
             /\ y \in Indices /\ r[y] = Segmento(b, t[y].tamanio)
             /\ \A z \in DOMAIN t : z # y => r[z] = t[z]
  BY <1>4, MoverBien
<1>6. ASSUME NEW i \in DOMAIN u
      PROVE  /\ i \notin Propios(p) => t[i] = u[i]
             /\ i \in Propios(p) => \A j \in 2..m - 1 : juntos[j].base = u[i].base =>
                  t[i] = Segmento(IF j <= x - 1 THEN nb[j] ELSE juntos[j].base, u[i].tamanio)
  BY <1>3 DEF Movidos
<1>a. \A j \in 2..m - 1 : juntos[j].base \in Nat /\ nb[j] \in Nat /\ j \in 1..m - 1
  <2>1. \A j \in 2..m - 1 : j \in 1..m /\ j \in 1..m - 1
    BY <1>1
  <2>2. QED
    BY <1>1, <2>1, ListasSonSecuencias
<1>7. ASSUME NEW i \in DOMAIN u
      PROVE  i \in ConBase(t, w) <=> i \in Propios(p) /\ u[i].base = w
  <2>1. CASE i \notin Propios(p)
    <3>1. i = 0 \/ ~(i > 0) \/ t[i].base = Nulo
      BY <1>3, <1>6, <2>1 DEF Propios
    <3>2. i \notin ConBase(t, w)
      BY <1>2, <3>1, HuecosOK DEF HuecosOK, ConBase
    <3>3. QED
      BY <2>1, <3>2
  <2>2. CASE i \in Propios(p)
    <3>1. PICK j \in 2..m - 1 : juntos[j].base = u[i].base
      BY <1>3, <2>2 DEF Alojados
    <3>2. t[i] = Segmento(IF j <= x - 1 THEN nb[j] ELSE juntos[j].base, u[i].tamanio)
      BY <1>6, <2>2, <3>1
    <3>3. t[i].base = IF j <= x - 1 THEN nb[j] ELSE juntos[j].base
      BY <3>2, CamposDeSegmento
    <3>4. i \in ConBase(t, w) <=> t[i].base = w
      BY <1>4, <2>2 DEF ConBase, Propios
    <3>5. CASE j < x
      <4>1. juntos[j].base < w /\ nb[j] <= juntos[j].base /\ j <= x - 1
        BY <1>1, <1>2, <1>a, <3>5
      <4>2. t[i].base < w /\ u[i].base < w
        BY <1>2, <1>a, <3>1, <3>3, <4>1
      <4>3. QED
        BY <1>2, <1>a, <3>1, <3>3, <3>4, <4>1, <4>2
    <3>6. CASE j = x
      BY <1>2, <2>2, <3>1, <3>3, <3>4, <3>6
    <3>7. CASE j > x
      <4>1. w < juntos[j].base /\ ~(j <= x - 1)
        BY <1>1, <1>2, <1>a, <3>7
      <4>2. QED
        BY <1>2, <1>a, <3>1, <3>3, <3>4, <4>1
    <3>8. QED
      BY <3>5, <3>6, <3>7
  <2>3. QED
    BY <2>1, <2>2
<1>8. k \in DOMAIN u /\ k \in DOMAIN t
  BY <1>3, <1>4
<1>9. CASE k \in Propios(p) /\ u[k].base = w
  <2>1. k \in ConBase(t, w)
    BY <1>7, <1>8, <1>9
  <2>2. PICK y \in ConBase(t, w) :
          r[y] = Segmento(b, t[y].tamanio) /\ \A z \in DOMAIN t : z # y => r[z] = t[z]
    BY <1>5, <2>1
  <2>3. y \in DOMAIN u /\ y \in Propios(p) /\ u[y].base = w
    <3>1. y \in DOMAIN u
      BY <1>4, <2>2 DEF ConBase
    <3>2. QED
      BY <1>7, <2>2, <3>1
  <2>4. y = k
    BY <1>3, <1>9, <2>3 DEF Alojados
  <2>5. t[k].tamanio = u[k].tamanio
    <3>1. t[k] = Segmento(IF x <= x - 1 THEN nb[x] ELSE juntos[x].base, u[k].tamanio)
      BY <1>2, <1>6, <1>8, <1>9
    <3>2. QED
      BY <3>1, CamposDeSegmento
  <2>6. r[k] = Segmento(nb[x], u[k].tamanio)
    BY <1>2, <2>2, <2>4, <2>5
  <2>7. ASSUME NEW j \in 2..m - 1, juntos[j].base = u[k].base PROVE j = x
    <3>1. j \in 1..m - 1 /\ x \in 1..m - 1 /\ juntos[j].base = w /\ juntos[x].base = w
      BY <1>1, <1>2, <1>9, <2>7
    <3>2. ~(j < x)
      BY <1>1, <1>2, <3>1
    <3>3. ~(x < j)
      BY <1>1, <1>2, <3>1
    <3>4. QED
      BY <1>1, <3>2, <3>3
  <2>8. x <= x
    BY <1>1
  <2>9. QED
    BY <1>3, <1>9, <2>6, <2>7, <2>8
<1>10. CASE ~(k \in Propios(p) /\ u[k].base = w)
  <2>1. k \notin ConBase(t, w)
    BY <1>7, <1>8, <1>10
  <2>2. r[k] = t[k]
    BY <1>5, <1>8, <2>1
  <2>3. ASSUME NEW j \in 2..m - 1, k \in Propios(p), juntos[j].base = u[k].base
        PROVE  j <= x <=> j <= x - 1
    <3>1. j # x
      BY <1>2, <1>10, <2>3
    <3>2. QED
      BY <3>1
  <2>4. QED
    BY <1>3, <1>6, <1>8, <2>2, <2>3
<1>11. QED
  BY <1>9, <1>10

(* The turns of the second loop move every segment with its hole.          *)
LEMMA MovidosTodos ==
  ASSUME NEW l \in Listas, l[1].base = 0, NEW juntos, NEW m, NEW nb, NEW total,
         Acomodo(l, juntos, m, nb, total), Alojados(juntos, m),
         NEW F, Recorrido(F, juntos, tablas, m)
  PROVE  Movidos(F[m - 1].tablas, juntos, m, nb, m)
<1>a. m \in Nat /\ m >= 2 /\ tablas \in [Procesos -> Tablas]
  BY DEF Acomodo, Alojados
<1>1. PICK n \in Nat : n = m - 1
  BY <1>a
<1>2. \A k \in 0..n : Colocados(F[k], juntos, m, nb, tablas, k)
  BY <1>1, <1>a, ColocadosTodos
<1> DEFINE Mal == {k \in 0..n : ~Movidos(F[k].tablas, juntos, m, nb, k + 1)}
<1>3. 0 \notin Mal
  <2>1. F[0].tablas = tablas
    BY DEF Recorrido, InicioReubicar
  <2>2. ASSUME NEW p \in Procesos, NEW k \in DOMAIN tablas[p]
        PROVE  tablas[p][k] = Segmento(tablas[p][k].base, tablas[p][k].tamanio)
    <3>1. tablas[p] \in Tablas
      BY <1>a
    <3>2. tablas[p][k] \in Segs
      BY <3>1 DEF Tablas, SinTabla
    <3>3. QED
      BY <3>2, CamposDeSegmento
  <2>3. \A j \in 2..m - 1 : ~(j <= 0 + 1)
    BY <1>a
  <2>4. Movidos(tablas, juntos, m, nb, 0 + 1)
    BY <2>2, <2>3 DEF Movidos
  <2>5. QED
    BY <2>1, <2>4
<1>4. ASSUME NEW k \in 1..n, k - 1 \notin Mal PROVE k \notin Mal
  <2>1. PICK c, d, x : c = F[k - 1] /\ d = F[k] /\ x = k + 1
    OBVIOUS
  <2>2. k \in 1..m - 1 /\ k - 1 \in 0..n /\ x \in 2..m /\ x <= m /\ (k - 1) + 1 = x - 1
    BY <1>1, <1>a, <2>1
  <2>3. Turno(c, d, juntos, m, nb, tablas, k, x)
    BY <1>2, <2>1, <2>2 DEF Recorrido, Turno
  <2>4. /\ x = m => d.tablas = c.tablas
        /\ x < m => \A p \in Procesos :
                      d.tablas[p] = MoverSegmento(c.tablas[p], juntos[x].base, nb[x])
    BY <2>3, ColocadosPaso
  <2>5. Movidos(c.tablas, juntos, m, nb, x - 1)
    <3>1. Movidos(F[k - 1].tablas, juntos, m, nb, (k - 1) + 1)
      BY <1>4, <2>2
    <3>2. QED
      BY <2>1, <2>2, <3>1
  <2>6. CASE x = m
    <3>1. \A j \in 2..m - 1 : j <= x /\ j <= x - 1
      BY <1>a, <2>6
    <3>2. Movidos(c.tablas, juntos, m, nb, x)
      BY <2>5, <3>1 DEF Movidos
    <3>3. QED
      BY <2>1, <2>4, <2>6, <3>2
  <2>7. CASE x < m
    <3>1. c.tablas \in [Procesos -> Tablas] /\ \A p \in Procesos : DOMAIN c.tablas[p] = DOMAIN tablas[p]
      BY <2>3 DEF Turno, Colocados, EstadosDeReubicar
    <3>2. PICK t : t = c.tablas
      OBVIOUS
    <3>3. /\ t \in [Procesos -> Tablas] /\ \A p \in Procesos : DOMAIN t[p] = DOMAIN tablas[p]
          /\ Movidos(t, juntos, m, nb, x - 1) /\ x \in 2..m - 1
      BY <1>a, <2>2, <2>5, <2>7, <3>1, <3>2
    <3>4. \A p \in Procesos : d.tablas[p] = MoverSegmento(t[p], juntos[x].base, nb[x])
      BY <2>4, <2>7, <3>2
    <3>5. ASSUME NEW p \in Procesos, NEW i \in DOMAIN tablas[p]
          PROVE  /\ i \notin Propios(p) => d.tablas[p][i] = tablas[p][i]
                 /\ i \in Propios(p) => \A j \in 2..m - 1 : juntos[j].base = tablas[p][i].base =>
                      d.tablas[p][i] = Segmento(IF j <= x THEN nb[j] ELSE juntos[j].base,
                                                tablas[p][i].tamanio)
      <4>1. PICK r : r = d.tablas[p]
        OBVIOUS
      <4>2. r = MoverSegmento(t[p], juntos[x].base, nb[x]) /\ DOMAIN t[p] = DOMAIN tablas[p]
        BY <3>3, <3>4, <4>1
      <4>3. /\ i \notin Propios(p) => r[i] = tablas[p][i]
            /\ i \in Propios(p) => \A j \in 2..m - 1 : juntos[j].base = tablas[p][i].base =>
                 r[i] = Segmento(IF j <= x THEN nb[j] ELSE juntos[j].base, tablas[p][i].tamanio)
        BY <3>3, <4>2, MoverUno
      <4>4. QED
        BY <4>1, <4>3
    <3>6. Movidos(d.tablas, juntos, m, nb, x)
      BY <3>5 DEF Movidos
    <3>7. QED
      BY <2>1, <3>6
  <2>8. QED
    BY <1>a, <2>2, <2>6, <2>7
<1>5. Mal \in SUBSET (0..n)
  OBVIOUS
<1>6. Mal = {}
  <2> HIDE DEF Mal
  <2>1. QED
    BY <1>3, <1>4, <1>5, Induccion
<1>7. n \in 0..n /\ n + 1 = m /\ n = m - 1
  BY <1>1, <1>a
<1>8. QED
  BY <1>6, <1>7

-----------------------------------------------------------------------------
(* The invariants of the memory.                                           *)

(* No segment of the kernel's tables starts where segment 0 does.          *)
FueraDelSegmento0 == \A p \in activos : \A k \in Ids : tablasKernel[p][k].base # 0

(* The invariant behind Teselado: the tables have their indices; the list  *)
(* is sane, not just a tiling, unless a compaction left holes behind.      *)
InvTablas ==
  /\ DOMAIN tablas = Procesos /\ DOMAIN tablasKernel = Procesos /\ activos \subseteq Procesos
  /\ \A p \in activos : DOMAIN tablas[p] = Indices /\ DOMAIN tablasKernel[p] = Indices

InvLista ==
  /\ InvTablas /\ huecos \in Listas
  /\ "restos" \notin averias => Sana(huecos) /\ FueraDelSegmento0

(* The indices that programs use are in every table.                       *)
LEMMA IdsEnTabla ==
  ASSUME 0 \notin Ids, NEW id \in Ids
  PROVE  id \in Indices /\ id # 0 /\ id \in 1..CantSegmentos - 1
  BY MemoriaOK DEF MemoriaOK, Indices

(* The memory starts with a sane list.                                     *)
LEMMA ListaInicial ==
  ASSUME NEW l, l = HuecosIniciales
  PROVE  /\ l \in Listas /\ Len(l) = 2 /\ Sana(l)
         /\ l[1].tamanio = TamSegmento0 /\ l[2].tamanio > 0 /\ l[2].libre
<1>1. l = <<Hueco(0, TamSegmento0, FALSE), Hueco(TamSegmento0, TamMemoria - TamSegmento0, TRUE)>>
  BY DEF HuecosIniciales
<1>3. /\ TamSegmento0 \in Nat /\ TamSegmento0 > 0 /\ TamMemoria - TamSegmento0 \in Nat
      /\ TamMemoria - TamSegmento0 > 0
      /\ TamSegmento0 + (TamMemoria - TamSegmento0) = TamMemoria
  BY HuecosOK DEF HuecosOK
<1>4. l \in Listas /\ Len(l) = 2
  <2>1. /\ Hueco(0, TamSegmento0, FALSE) \in TipoHueco
        /\ Hueco(TamSegmento0, TamMemoria - TamSegmento0, TRUE) \in TipoHueco
    BY <1>3, HuecosNuevos
  <2>2. PICK g, h : /\ g = Hueco(0, TamSegmento0, FALSE)
                    /\ h = Hueco(TamSegmento0, TamMemoria - TamSegmento0, TRUE)
    OBVIOUS
  <2>3. l = <<g, h>> /\ g \in TipoHueco /\ h \in TipoHueco
    BY <1>1, <2>1, <2>2
  <2>4. l \in Seq(TipoHueco) /\ Len(l) = 2
    BY <2>3
  <2>5. QED
    BY <2>4 DEF Listas, TipoHueco
<1>5. l[1].base = 0 /\ l[1].tamanio = TamSegmento0 /\ ~l[1].libre
  BY <1>1 DEF Hueco
<1>6. l[2].base = TamSegmento0 /\ l[2].tamanio = TamMemoria - TamSegmento0 /\ l[2].libre
  BY <1>1 DEF Hueco
<1>7. Tesela(l)
  <2>1. l # <<>>
    BY <1>4
  <2>2. \A i \in 1..Len(l) - 1 : l[i + 1].base = l[i].base + l[i].tamanio
    <3>1. Len(l) - 1 = 1 /\ 1 + 1 = 2 /\ l[2].base = l[1].base + l[1].tamanio
      BY <1>3, <1>4, <1>5, <1>6
    <3>2. \A i \in 1..1 : i = 1
      OBVIOUS
    <3>3. QED
      BY <3>1, <3>2
  <2>3. l[2].base + l[2].tamanio = TamMemoria
    BY <1>3, <1>6
  <2>4. QED
    BY <1>4, <1>5, <2>1, <2>2, <2>3 DEF Tesela
<1>8. Sana(l)
  <2>1. \A i \in 1..2 : ~l[i].libre => l[i].tamanio > 0
    <3>1. \A i \in 1..2 : i = 1 \/ i = 2
      OBVIOUS
    <3>2. QED
      BY <1>3, <1>5, <1>6, <3>1
  <2>2. \A i \in 1..2 - 1 : ~(l[i].libre /\ l[i + 1].libre)
    <3>1. \A i \in 1..2 - 1 : i = 1
      OBVIOUS
    <3>2. QED
      BY <1>5, <3>1
  <2>3. QED
    BY <1>4, <1>5, <1>7, <2>1, <2>2 DEF Sana
<1>9. QED
  BY <1>3, <1>4, <1>5, <1>6, <1>8

(* So does the module.                                                     *)
LEMMA InvListaInicial ==
  ASSUME Init PROVE InvLista
<1>1. huecos \in Listas /\ Sana(huecos)
  BY ListaInicial DEF Init
<1>2. QED
  BY <1>1 DEF Init, InvLista, InvTablas, FueraDelSegmento0

(* One more segment, taken from a hole that was chosen for it.             *)
LEMMA CrearTesela ==
  ASSUME 0 \notin Ids, InvLista, NEW p \in Procesos, NEW id \in Ids, NEW t \in Tamanios,
         CrearSegmento(p, id, t)
  PROVE  InvLista'
<1>1. PICK i : i = HuecoElegido(huecos, t)
  OBVIOUS
<1>2. PICK tabla : tabla = [tablasKernel[p] EXCEPT ![id] = Segmento(huecos[i].base, t)]
  OBVIOUS
<1>3. /\ i > 0 /\ huecos' = Ocupar(huecos, i, t)
      /\ tablas' = [tablas EXCEPT ![p] = tabla]
      /\ tablasKernel' = [tablasKernel EXCEPT ![p] = tabla]
      /\ activos' = activos /\ averias \subseteq averias' /\ p \in activos
  BY <1>1, <1>2 DEF CrearSegmento, Pide
<1>4. t \in Nat \ {0} /\ t \in Nat
  BY MemoriaOK DEF MemoriaOK
<1>5. i \in 1..Len(huecos) /\ huecos[i].libre /\ huecos[i].tamanio >= t /\ huecos \in Listas
  BY <1>1, <1>3, <1>4, ElegidoBien DEF InvLista
<1>6. huecos' \in Listas
  BY <1>3, <1>4, <1>5, OcuparTipo
<1>7. DOMAIN tabla = Indices
  BY <1>2, <1>3 DEF InvLista, InvTablas
<1>8. tabla[id].base = huecos[i].base /\ \A k \in Ids : k # id => tabla[k] = tablasKernel[p][k]
  <2>1. DOMAIN tablasKernel[p] = Indices
    BY <1>3 DEF InvLista, InvTablas
  <2>2. \A k \in Ids : k \in Indices
    BY IdsEnTabla
  <2>3. QED
    BY <1>2, <2>1, <2>2 DEF Segmento
<1>9. InvTablas'
  <2>1. \A q \in activos : DOMAIN tablas'[q] = Indices /\ DOMAIN tablasKernel'[q] = Indices
    BY <1>3, <1>7 DEF InvLista, InvTablas
  <2>2. QED
    BY <1>3, <2>1 DEF InvLista, InvTablas
<1>10. ASSUME "restos" \notin averias' PROVE Sana(huecos') /\ FueraDelSegmento0'
  <2>1. Sana(huecos) /\ FueraDelSegmento0
    BY <1>3, <1>10 DEF InvLista
  <2>2. Sana(huecos')
    BY <1>3, <1>4, <1>5, <2>1, OcuparSana
  <2>3. huecos[i].base # 0
    BY <1>4, <1>5, <2>1, OcuparOcupados
  <2>4. ASSUME NEW q \in activos, NEW k \in Ids PROVE tablasKernel'[q][k].base # 0
    <3>1. q = p => tablasKernel'[q] = tabla
      BY <1>3 DEF InvLista, InvTablas
    <3>2. q # p => tablasKernel'[q] = tablasKernel[q]
      BY <1>3 DEF InvLista, InvTablas
    <3>3. QED
      BY <1>3, <1>8, <2>1, <2>3, <3>1, <3>2 DEF FueraDelSegmento0
  <2>5. QED
    BY <1>3, <2>2, <2>4 DEF FueraDelSegmento0
<1>11. QED
  BY <1>6, <1>9, <1>10 DEF InvLista

(* One segment less.                                                       *)
LEMMA EliminarTesela ==
  ASSUME 0 \notin Ids, InvLista, NEW p \in Procesos, NEW id \in Ids, EliminarSegmento(p, id)
  PROVE  InvLista'
<1>1. PICK tabla : tabla = [tablasKernel[p] EXCEPT ![id] = SinSegmento]
  OBVIOUS
<1>2. PICK b : b = tablasKernel[p][id].base
  OBVIOUS
<1>3. /\ huecos' = Liberar(huecos, b)
      /\ tablas' = [tablas EXCEPT ![p] = tabla]
      /\ tablasKernel' = [tablasKernel EXCEPT ![p] = tabla]
      /\ activos' = activos /\ averias \subseteq averias' /\ p \in activos
  BY <1>1, <1>2 DEF EliminarSegmento
<1>4. huecos' \in Listas
  BY <1>3, LiberarTipo DEF InvLista
<1>5. DOMAIN tabla = Indices
  BY <1>1, <1>3 DEF InvLista, InvTablas
<1>6. tabla[id].base # 0 /\ \A k \in Ids : k # id => tabla[k] = tablasKernel[p][k]
  <2>1. DOMAIN tablasKernel[p] = Indices
    BY <1>3 DEF InvLista, InvTablas
  <2>2. \A k \in Ids : k \in Indices
    BY IdsEnTabla
  <2>3. tabla[id] = SinSegmento /\ \A k \in Ids : k # id => tabla[k] = tablasKernel[p][k]
    BY <1>1, <2>1, <2>2
  <2>4. SinSegmento.base # 0
    BY HuecosOK DEF HuecosOK, SinSegmento, Segmento
  <2>5. QED
    BY <2>3, <2>4
<1>7. InvTablas'
  <2>1. \A q \in activos : DOMAIN tablas'[q] = Indices /\ DOMAIN tablasKernel'[q] = Indices
    BY <1>3, <1>5 DEF InvLista, InvTablas
  <2>2. QED
    BY <1>3, <2>1 DEF InvLista, InvTablas
<1>8. ASSUME "restos" \notin averias' PROVE Sana(huecos') /\ FueraDelSegmento0'
  <2>1. Sana(huecos) /\ FueraDelSegmento0 /\ huecos \in Listas
    BY <1>3, <1>8 DEF InvLista
  <2>2. b # 0
    BY <1>2, <1>3, <2>1 DEF FueraDelSegmento0
  <2>3. Sana(huecos')
    BY <1>3, <2>1, <2>2, LiberarBien
  <2>4. ASSUME NEW q \in activos, NEW k \in Ids PROVE tablasKernel'[q][k].base # 0
    <3>1. q = p => tablasKernel'[q] = tabla
      BY <1>3 DEF InvLista, InvTablas
    <3>2. q # p => tablasKernel'[q] = tablasKernel[q]
      BY <1>3 DEF InvLista, InvTablas
    <3>3. QED
      BY <1>3, <1>6, <2>1, <3>1, <3>2 DEF FueraDelSegmento0
  <2>5. QED
    BY <1>3, <2>3, <2>4 DEF FueraDelSegmento0
<1>9. QED
  BY <1>4, <1>7, <1>8 DEF InvLista

(* What compactar left, without failures: a sane list.                     *)
LEMMA CompactadaSana ==
  ASSUME NEW c, c.l \in Listas, Tesela(c.l), ~c.l[1].libre,
         \A i \in DOMAIN c.l : c.l[i].tamanio > 0 /\ (c.l[i].libre <=> i = Len(c.l))
  PROVE  Sana(c.l)
<1>1. PICK l : l = c.l
  OBVIOUS
<1>2. PICK n \in Nat : n = Len(l) /\ DOMAIN l = 1..n
  BY <1>1, ListasSonSecuencias
<1>3. \A i \in 1..n : l[i].tamanio > 0 /\ (l[i].libre <=> i = n)
  BY <1>1, <1>2
<1>4. ASSUME NEW i \in 1..n - 1 PROVE ~l[i].libre
  <2>1. i \in 1..n /\ i # n
    OBVIOUS
  <2>2. QED
    BY <1>3, <2>1
<1>5. QED
  BY <1>1, <1>2, <1>3, <1>4 DEF Sana

(* What a compaction does, after which failures.                           *)
LEMMA CompactarHace ==
  ASSUME NEW p \in Procesos, NEW id, NEW t, CompactarPara(p, id, t),
         NEW c, c = Compactar(huecos, tablas)
  PROVE  /\ huecos' = c.l /\ tablas' = [q \in Procesos |-> c.tablas[q]]
         /\ DOMAIN tablasKernel' = Procesos
         /\ \A q \in Procesos : tablasKernel'[q] = c.tablas[q] \/ tablasKernel'[q] = tablasKernel[q]
         /\ activos' \subseteq activos /\ averias \subseteq averias'
         /\ averias' \subseteq averias \union {"restos"}
         /\ "restos" \notin averias' => Compactable(huecos)
<1>1. /\ huecos' = c.l /\ tablas' = [q \in Procesos |-> c.tablas[q]]
      /\ activos' \subseteq activos
  BY DEF CompactarPara
<1>2. PICK esperan :
        tablasKernel' = [q \in Procesos |->
          IF q \in activos \ (esperan \union {p}) THEN c.tablas[q] ELSE tablasKernel[q]]
  BY DEF CompactarPara
<1>3. averias' = averias \union Si(~Compactable(huecos), "restos")
  BY DEF CompactarPara, AlCompactar
<1>4. averias \subseteq averias' /\ averias' \subseteq averias \union {"restos"}
  BY <1>3 DEF Si
<1>5. "restos" \notin averias' => Compactable(huecos)
  BY <1>3 DEF Si
<1>6. /\ DOMAIN tablasKernel' = Procesos
      /\ \A q \in Procesos : tablasKernel'[q] = c.tablas[q] \/ tablasKernel'[q] = tablasKernel[q]
  BY <1>2
<1>7. QED
  BY <1>1, <1>4, <1>5, <1>6

(* What CompactarDosLibres says of it.                                     *)
LEMMA CompactarDeja ==
  ASSUME CompactarDosLibres, NEW c, c = Compactar(huecos, tablas)
  PROVE  /\ c.l \in Listas
         /\ \A p \in Procesos : DOMAIN c.tablas[p] = DOMAIN tablas[p]
         /\ "restos" \notin averias /\ Compactable(huecos) =>
              /\ Tesela(c.l) /\ c.l[1] = huecos[1]
              /\ \A i \in DOMAIN c.l : c.l[i].tamanio > 0 /\ (c.l[i].libre <=> i = Len(c.l))
              /\ \A p \in Procesos : \A k \in DOMAIN tablas[p] \ {0} : c.tablas[p][k].base # 0
              /\ TablasFieles => Reubicados(c)
  BY DEF CompactarDosLibres

(* A compaction, when it leaves nothing behind.                            *)
LEMMA CompactarTesela ==
  ASSUME 0 \notin Ids, InvLista, CompactarDosLibres,
         NEW p \in Procesos, NEW id \in Ids, NEW t \in Tamanios, CompactarPara(p, id, t)
  PROVE  InvLista'
<1>1. PICK c : c = Compactar(huecos, tablas)
  OBVIOUS
<1>2. /\ huecos' = c.l /\ tablas' = [q \in Procesos |-> c.tablas[q]]
      /\ DOMAIN tablasKernel' = Procesos
      /\ \A q \in Procesos : tablasKernel'[q] = c.tablas[q] \/ tablasKernel'[q] = tablasKernel[q]
      /\ activos' \subseteq activos /\ averias \subseteq averias'
      /\ "restos" \notin averias' => Compactable(huecos)
  BY <1>1, CompactarHace
<1>3. /\ c.l \in Listas
      /\ \A q \in Procesos : DOMAIN c.tablas[q] = DOMAIN tablas[q]
  BY <1>1, CompactarDeja
<1>4. InvTablas'
  <2>1. ASSUME NEW q \in activos'
        PROVE  DOMAIN tablas'[q] = Indices /\ DOMAIN tablasKernel'[q] = Indices
    <3>1. q \in activos /\ q \in Procesos
      BY <1>2 DEF InvLista, InvTablas
    <3>2. DOMAIN tablas[q] = Indices /\ DOMAIN tablasKernel[q] = Indices
      BY <3>1 DEF InvLista, InvTablas
    <3>3. tablas'[q] = c.tablas[q]
      BY <1>2, <3>1
    <3>4. QED
      BY <1>2, <1>3, <3>1, <3>2, <3>3
  <2>2. DOMAIN tablas' = Procesos /\ activos' \subseteq Procesos
    BY <1>2 DEF InvLista, InvTablas
  <2>3. QED
    BY <1>2, <2>1, <2>2 DEF InvTablas
<1>5. ASSUME "restos" \notin averias' PROVE Sana(huecos') /\ FueraDelSegmento0'
  <2>1. /\ Sana(huecos) /\ FueraDelSegmento0 /\ "restos" \notin averias /\ Compactable(huecos)
    BY <1>2, <1>5 DEF InvLista
  <2>2. /\ Tesela(c.l) /\ c.l[1] = huecos[1]
        /\ \A i \in DOMAIN c.l : c.l[i].tamanio > 0 /\ (c.l[i].libre <=> i = Len(c.l))
    BY <1>1, <2>1, CompactarDeja
  <2>3. \A q \in Procesos : \A k \in DOMAIN tablas[q] \ {0} : c.tablas[q][k].base # 0
    BY <1>1, <2>1, CompactarDeja
  <2>4. Sana(huecos')
    <3>1. ~c.l[1].libre
      BY <2>1, <2>2 DEF Sana
    <3>2. QED
      BY <1>2, <1>3, <2>2, <3>1, CompactadaSana
  <2>5. ASSUME NEW q \in activos', NEW k \in Ids PROVE tablasKernel'[q][k].base # 0
    <3>1. q \in activos /\ q \in Procesos
      BY <1>2 DEF InvLista, InvTablas
    <3>2. k \in DOMAIN tablas[q] \ {0}
      BY <3>1, IdsEnTabla DEF InvLista, InvTablas
    <3>3. c.tablas[q][k].base # 0 /\ tablasKernel[q][k].base # 0
      BY <2>1, <2>3, <3>1, <3>2 DEF FueraDelSegmento0
    <3>4. QED
      BY <1>2, <3>1, <3>3
  <2>6. QED
    BY <2>4, <2>5 DEF FueraDelSegmento0
<1>6. QED
  BY <1>2, <1>3, <1>4, <1>5 DEF InvLista

(* A new table has no segment but 0.                                       *)
LEMMA CrearPCBTesela ==
  ASSUME 0 \notin Ids, InvLista, NEW p \in Procesos, CrearPCB(p)
  PROVE  InvLista'
<1>1. /\ tablas' = [tablas EXCEPT ![p] = TablaInicial]
      /\ tablasKernel' = [tablasKernel EXCEPT ![p] = TablaInicial]
      /\ activos' = activos \union {p} /\ averias' = averias /\ huecos' = huecos
  BY DEF CrearPCB
<1>2. DOMAIN TablaInicial = Indices
  BY DEF TablaInicial, Indices
<1>3. \A k \in Ids : TablaInicial[k].base # 0
  <2>1. ASSUME NEW k \in Ids PROVE TablaInicial[k] = SinSegmento
    BY IdsEnTabla DEF TablaInicial, Indices
  <2>2. SinSegmento.base # 0
    BY HuecosOK DEF HuecosOK, SinSegmento, Segmento
  <2>3. QED
    BY <2>1, <2>2
<1> HIDE DEF TablaInicial
<1>4. /\ tablas'[p] = TablaInicial /\ tablasKernel'[p] = TablaInicial
      /\ \A q \in Procesos : q # p => tablas'[q] = tablas[q] /\ tablasKernel'[q] = tablasKernel[q]
  BY <1>1 DEF InvLista, InvTablas
<1>5. InvTablas'
  <2>1. DOMAIN tablas' = Procesos /\ DOMAIN tablasKernel' = Procesos /\ activos' \subseteq Procesos
    BY <1>1 DEF InvLista, InvTablas
  <2>2. ASSUME NEW q \in activos'
        PROVE  DOMAIN tablas'[q] = Indices /\ DOMAIN tablasKernel'[q] = Indices
    <3>1. CASE q = p
      BY <1>2, <1>4, <3>1
    <3>2. CASE q # p
      BY <1>1, <1>4, <3>2 DEF InvLista, InvTablas
    <3>3. QED
      BY <3>1, <3>2
  <2>3. QED
    BY <2>1, <2>2 DEF InvTablas
<1>6. ASSUME "restos" \notin averias, NEW q \in activos', NEW k \in Ids
      PROVE  tablasKernel'[q][k].base # 0
  <2>1. CASE q = p
    BY <1>3, <1>4, <2>1
  <2>2. CASE q # p
    BY <1>1, <1>4, <1>6, <2>2 DEF InvLista, InvTablas, FueraDelSegmento0
  <2>3. QED
    BY <2>1, <2>2
<1>7. "restos" \notin averias' => Sana(huecos') /\ FueraDelSegmento0'
  <2>1. "restos" \notin averias => Sana(huecos')
    BY <1>1 DEF InvLista
  <2>2. QED
    BY <1>1, <1>6, <2>1 DEF FueraDelSegmento0
<1>8. QED
  BY <1>1, <1>5, <1>7 DEF InvLista

(* Ending a process leaves the list and the tables.                        *)
LEMMA FinTesela ==
  ASSUME InvLista, UNCHANGED <<huecos, tablas, tablasKernel, averias>>, activos' \subseteq activos
  PROVE  InvLista'
  BY DEF InvLista, InvTablas, FueraDelSegmento0

(* Every step.                                                             *)
LEMMA InvListaPasos ==
  ASSUME 0 \notin Ids
  PROVE  InvLista /\ CompactarDosLibres /\ [Next]_vars => InvLista'
<1> SUFFICES ASSUME InvLista, CompactarDosLibres, [Next]_vars PROVE InvLista'
  OBVIOUS
<1>1. CASE UNCHANGED vars
  BY <1>1, FinTesela DEF vars
<1>2. ASSUME NEW p \in Procesos, CrearPCB(p) PROVE InvLista'
  BY <1>2, CrearPCBTesela
<1>3. ASSUME NEW p \in Procesos, Terminar(p) PROVE InvLista'
  <2>1. UNCHANGED <<huecos, tablas, tablasKernel, averias>> /\ activos' \subseteq activos
    BY <1>3 DEF Terminar
  <2>2. QED
    BY <2>1, FinTesela
<1>4. ASSUME NEW p \in Procesos, NEW id \in Ids, EliminarSegmento(p, id) PROVE InvLista'
  BY <1>4, EliminarTesela
<1>5. ASSUME NEW p \in Procesos, NEW id \in Ids, NEW t \in Tamanios, CrearSegmento(p, id, t)
      PROVE  InvLista'
  BY <1>5, CrearTesela
<1>6. ASSUME NEW p \in Procesos, NEW id \in Ids, NEW t \in Tamanios, CompactarPara(p, id, t)
      PROVE  InvLista'
  BY <1>6, CompactarTesela
<1>7. ASSUME NEW p \in Procesos, NEW id \in Ids, NEW t \in Tamanios, SinMemoria(p, id, t)
      PROVE  InvLista'
  <2>1. UNCHANGED <<huecos, tablas, tablasKernel, averias>> /\ activos' \subseteq activos
    BY <1>7 DEF SinMemoria
  <2>2. QED
    BY <2>1, FinTesela
<1>8. QED
  BY <1>1, <1>2, <1>3, <1>4, <1>5, <1>6, <1>7 DEF Next

-----------------------------------------------------------------------------
(* The segments of the tables and the holes.                               *)
InvSegmentos ==
  TablasFieles =>
    /\ \A p \in Procesos : tablas[p] = SinTabla \/ DOMAIN tablas[p] = Indices
    /\ huecos[1].tamanio >= TamSegmento0
    /\ \A s \in Vivos : \E h \in Ocupados(huecos) :
         h.base = Dato(s).base /\ h.tamanio = Dato(s).tamanio
    /\ \A s, r \in Vivos : s # r => Dato(s).base # Dato(r).base

InvDuenios ==
  averias = {} =>
    /\ \A i \in 1..Len(huecos) : huecos[i].tamanio > 0
    /\ \A h \in Ocupados(huecos) : \E s \in Vivos : Dato(s).base = h.base

(* The tables have an entry for segment 0, so none of them is SinTabla.    *)
LEMMA IndicesNoVacio ==
  /\ 0 \in Indices /\ \A k \in 1..CantSegmentos - 1 : k \in Indices
  /\ \A f : DOMAIN f = Indices => f # SinTabla
<1>1. 0 \in Indices /\ \A k \in 1..CantSegmentos - 1 : k \in Indices
  BY MemoriaOK DEF MemoriaOK, Indices
<1>2. 0 \notin DOMAIN SinTabla
  BY DEF SinTabla
<1>3. QED
  BY <1>1, <1>2

(* Changing one entry of one table.                                        *)
LEMMA CambiaSegmento ==
  ASSUME DOMAIN tablas = Procesos, NEW p \in Procesos, NEW id \in 1..CantSegmentos - 1, NEW x,
         DOMAIN tablas[p] = Indices,
         tablas' = [tablas EXCEPT ![p] = [tablas[p] EXCEPT ![id] = x]]
  PROVE  /\ \A s \in Vivos : s # <<p, id>> => s \in Vivos' /\ Dato(s)' = Dato(s)
         /\ \A s \in Vivos' : s # <<p, id>> => s \in Vivos
         /\ x.base # Nulo <=> <<p, id>> \in Vivos'
         /\ tablas[p][id].base # Nulo <=> <<p, id>> \in Vivos
         /\ Dato(<<p, id>>)' = x
<1>1. /\ tablas'[p] = [tablas[p] EXCEPT ![id] = x]
      /\ \A q \in Procesos : q # p => tablas'[q] = tablas[q]
  OBVIOUS
<1>2. PICK f : f = tablas'[p]
  OBVIOUS
<1>3. /\ DOMAIN f = Indices /\ f[id] = x /\ \A k \in Indices : k # id => f[k] = tablas[p][k]
  BY <1>1, <1>2, IndicesNoVacio
<1>4. f # SinTabla /\ tablas[p] # SinTabla
  BY <1>3, IndicesNoVacio
<1>5. ASSUME NEW q \in Procesos, NEW k \in 1..CantSegmentos - 1, <<q, k>> # <<p, id>>
      PROVE  /\ tablas'[q][k] = tablas[q][k]
             /\ (tablas'[q] # SinTabla <=> tablas[q] # SinTabla)
  <2>1. CASE q = p
    <3>1. k \in Indices /\ k # id
      BY <1>5, <2>1, IndicesNoVacio
    <3>2. QED
      BY <1>2, <1>3, <1>4, <2>1, <3>1
  <2>2. CASE q # p
    BY <1>1, <2>2
  <2>3. QED
    BY <2>1, <2>2
<1>6. ASSUME NEW s \in Procesos \X (1..CantSegmentos - 1), s # <<p, id>>
      PROVE  /\ tablas'[s[1]][s[2]] = tablas[s[1]][s[2]]
             /\ (tablas'[s[1]] # SinTabla <=> tablas[s[1]] # SinTabla)
  <2>1. PICK q \in Procesos, k \in 1..CantSegmentos - 1 : s = <<q, k>>
    OBVIOUS
  <2>2. s[1] = q /\ s[2] = k
    BY <2>1
  <2>3. QED
    BY <1>5, <1>6, <2>1, <2>2
<1>7. \A s \in Vivos : s # <<p, id>> => s \in Vivos' /\ Dato(s)' = Dato(s)
  BY <1>6 DEF Vivos, Dato
<1>8. \A s \in Vivos' : s # <<p, id>> => s \in Vivos
  BY <1>6 DEF Vivos
<1>9. PICK s : s = <<p, id>>
  OBVIOUS
<1>10. s[1] = p /\ s[2] = id /\ s \in Procesos \X (1..CantSegmentos - 1)
  BY <1>9
<1>11. x.base # Nulo <=> s \in Vivos'
  BY <1>2, <1>3, <1>4, <1>10 DEF Vivos
<1>12. tablas[p][id].base # Nulo <=> s \in Vivos
  BY <1>4, <1>10 DEF Vivos
<1>13. Dato(s)' = x
  BY <1>2, <1>3, <1>10 DEF Dato
<1>14. QED
  BY <1>7, <1>8, <1>9, <1>11, <1>12, <1>13

(* The failures that a request records.                                    *)
LEMMA AveriasDePedido ==
  ASSUME NEW a, NEW traida, NEW propia, NEW id, NEW l
  PROVE  /\ "tabla" \notin a \union AlTraer(traida, propia) => traida = propia
         /\ "tabla" \notin a \union AlCrear(traida, propia, id, l) => traida = propia
         /\ "recreado" \notin a \union AlCrear(traida, propia, id, l) => traida[id].base = Nulo
         /\ "vacio" \notin a \union AlCrear(traida, propia, id, l) =>
              \A i \in DOMAIN l : l[i].tamanio # 0
  BY DEF AlCrear, AlTraer, Si

(* A created segment gets a hole that no other has.                        *)
LEMMA CrearSegmentos ==
  ASSUME 0 \notin Ids, InvLista, InvSegmentos, InvDuenios,
         NEW p \in Procesos, NEW id \in Ids, NEW t \in Tamanios, CrearSegmento(p, id, t)
  PROVE  InvSegmentos' /\ InvDuenios'
<1>1. PICK i : i = HuecoElegido(huecos, t)
  OBVIOUS
<1>2. PICK b : b = huecos[i].base
  OBVIOUS
<1>3. PICK x : x = Segmento(b, t)
  OBVIOUS
<1>4. /\ i > 0 /\ huecos' = Ocupar(huecos, i, t)
      /\ tablas' = [tablas EXCEPT ![p] = [tablasKernel[p] EXCEPT ![id] = x]]
      /\ averias' = averias \union AlCrear(tablasKernel[p], tablas[p], id, huecos')
      /\ p \in activos
  BY <1>1, <1>2, <1>3 DEF CrearSegmento, Pide
<1>5. t \in Nat \ {0} /\ t \in Nat
  BY MemoriaOK DEF MemoriaOK
<1>6. i \in 1..Len(huecos) /\ huecos[i].libre /\ huecos[i].tamanio >= t /\ huecos \in Listas
  BY <1>1, <1>4, <1>5, ElegidoBien DEF InvLista
<1>7. b \in Nat /\ b # Nulo /\ x.base = b /\ x.tamanio = t
  BY <1>2, <1>3, <1>6, ListasSonSecuencias, HuecosOK DEF HuecosOK, Segmento
<1>8. id \in 1..CantSegmentos - 1
  BY IdsEnTabla
<1>9. ASSUME TablasFieles' PROVE TablasFieles /\ tablasKernel[p] = tablas[p]
  <2>1. "tabla" \notin averias' /\ "restos" \notin averias'
    BY <1>9 DEF TablasFieles
  <2>2. TablasFieles
    BY <1>4, <2>1 DEF TablasFieles
  <2>3. tablasKernel[p] = tablas[p]
    BY <1>4, <2>1, AveriasDePedido
  <2>4. QED
    BY <2>2, <2>3
<1>10. ASSUME TablasFieles'
       PROVE  /\ Sana(huecos) /\ huecos'[1] = huecos[1]
              /\ Ocupados(huecos) \subseteq Ocupados(huecos')
              /\ \A h \in Ocupados(huecos) : h.base # b
              /\ \A h \in Ocupados(huecos') : h \in Ocupados(huecos) \/ h.base = b
              /\ \E h \in Ocupados(huecos') : h.base = b /\ h.tamanio = t
  <2>1. Sana(huecos)
    BY <1>9, <1>10 DEF InvLista, TablasFieles
  <2>2. huecos'[1] = huecos[1]
    BY <1>4, <1>5, <1>6, <2>1, OcuparOcupados
  <2>3. Ocupados(huecos) \subseteq Ocupados(huecos')
    BY <1>4, <1>5, <1>6, <2>1, OcuparOcupados
  <2>4. \A h \in Ocupados(huecos) : h.base # b
    BY <1>2, <1>4, <1>5, <1>6, <2>1, OcuparOcupados
  <2>5. \A h \in Ocupados(huecos') : h \in Ocupados(huecos) \/ h.base = b
    BY <1>2, <1>4, <1>5, <1>6, <2>1, OcuparOcupados
  <2>6. \E h \in Ocupados(huecos') : h.base = b /\ h.tamanio = t
    BY <1>2, <1>4, <1>5, <1>6, <2>1, OcuparOcupados
  <2>7. QED
    BY <2>1, <2>2, <2>3, <2>4, <2>5, <2>6
<1>11. ASSUME TablasFieles'
       PROVE  /\ \A s \in Vivos : s # <<p, id>> => s \in Vivos' /\ Dato(s)' = Dato(s)
              /\ \A s \in Vivos' : s # <<p, id>> => s \in Vivos
              /\ <<p, id>> \in Vivos' /\ Dato(<<p, id>>)' = x
              /\ tablas[p][id].base # Nulo <=> <<p, id>> \in Vivos
  <2>1. tablas' = [tablas EXCEPT ![p] = [tablas[p] EXCEPT ![id] = x]]
    BY <1>4, <1>9, <1>11
  <2>2. DOMAIN tablas = Procesos /\ DOMAIN tablas[p] = Indices
    BY <1>4 DEF InvLista, InvTablas
  <2>3. QED
    BY <1>7, <1>8, <2>1, <2>2, CambiaSegmento
<1>12. ASSUME TablasFieles' PROVE InvSegmentos'
  <2>1. /\ \A q \in Procesos : tablas[q] = SinTabla \/ DOMAIN tablas[q] = Indices
        /\ huecos[1].tamanio >= TamSegmento0
        /\ \A s \in Vivos : \E h \in Ocupados(huecos) :
             h.base = Dato(s).base /\ h.tamanio = Dato(s).tamanio
        /\ \A s, r \in Vivos : s # r => Dato(s).base # Dato(r).base
    BY <1>9, <1>12 DEF InvSegmentos
  <2>2. \A q \in Procesos : tablas'[q] = SinTabla \/ DOMAIN tablas'[q] = Indices
    BY <1>4, <2>1 DEF InvLista, InvTablas
  <2>3. huecos'[1].tamanio >= TamSegmento0
    BY <1>10, <1>12, <2>1
  <2>4. ASSUME NEW s \in Vivos'
        PROVE  \E h \in Ocupados(huecos') : h.base = Dato(s)'.base /\ h.tamanio = Dato(s)'.tamanio
    <3>1. CASE s = <<p, id>>
      <4>1. Dato(s)' = x
        BY <1>11, <1>12, <3>1
      <4>2. PICK h \in Ocupados(huecos') : h.base = b /\ h.tamanio = t
        BY <1>10, <1>12
      <4>3. QED
        BY <1>7, <4>1, <4>2
    <3>2. CASE s # <<p, id>>
      <4>1. s \in Vivos /\ Dato(s)' = Dato(s)
        BY <1>11, <1>12, <2>4, <3>2
      <4>2. QED
        BY <1>10, <1>12, <2>1, <4>1
    <3>3. QED
      BY <3>1, <3>2
  <2>5. ASSUME NEW s \in Vivos, s # <<p, id>> PROVE Dato(s)'.base # b /\ Dato(s)' = Dato(s)
    <3>1. PICK h \in Ocupados(huecos) : h.base = Dato(s).base
      BY <2>1
    <3>2. QED
      BY <1>10, <1>11, <1>12, <2>5, <3>1
  <2>6. ASSUME NEW s \in Vivos', NEW r \in Vivos', s # r PROVE Dato(s)'.base # Dato(r)'.base
    <3>1. CASE s = <<p, id>>
      <4>1. r \in Vivos /\ r # <<p, id>> /\ Dato(s)' = x
        BY <1>11, <1>12, <2>6, <3>1
      <4>2. QED
        BY <1>7, <2>5, <4>1
    <3>2. CASE r = <<p, id>>
      <4>1. s \in Vivos /\ s # <<p, id>> /\ Dato(r)' = x
        BY <1>11, <1>12, <2>6, <3>2
      <4>2. QED
        BY <1>7, <2>5, <4>1
    <3>3. CASE s # <<p, id>> /\ r # <<p, id>>
      <4>1. s \in Vivos /\ r \in Vivos
        BY <1>11, <1>12, <3>3
      <4>2. QED
        BY <2>1, <2>5, <2>6, <3>3, <4>1
    <3>4. QED
      BY <3>1, <3>2, <3>3
  <2>7. QED
    BY <2>2, <2>3, <2>4, <2>6 DEF InvSegmentos
<1>13. ASSUME averias' = {} PROVE InvDuenios'
  <2>1. averias = {} /\ TablasFieles'
    BY <1>4, <1>13 DEF TablasFieles
  <2>2. /\ tablasKernel[p][id].base = Nulo
        /\ \A k \in DOMAIN huecos' : huecos'[k].tamanio # 0
    <3>1. PICK l : l = huecos'
      OBVIOUS
    <3>2. averias' = averias \union AlCrear(tablasKernel[p], tablas[p], id, l)
      BY <1>4, <3>1
    <3>3. "recreado" \notin averias' /\ "vacio" \notin averias'
      BY <1>13
    <3>4. tablasKernel[p][id].base = Nulo
      BY <3>2, <3>3, AveriasDePedido
    <3>5. \A k \in DOMAIN l : l[k].tamanio # 0
      BY <3>2, <3>3, AveriasDePedido
    <3>6. QED
      BY <3>1, <3>4, <3>5
  <2>3. <<p, id>> \notin Vivos
    BY <1>9, <1>11, <2>1, <2>2
  <2>4. \A k \in 1..Len(huecos') : huecos'[k].tamanio > 0
    <3>1. huecos' \in Listas
      BY <1>4, <1>5, <1>6, OcuparTipo
    <3>2. ASSUME NEW k \in 1..Len(huecos') PROVE huecos'[k].tamanio > 0
      <4>1. huecos'[k].tamanio \in Nat /\ k \in DOMAIN huecos'
        BY <3>1, ListasSonSecuencias
      <4>2. huecos'[k].tamanio # 0
        BY <2>2, <4>1
      <4>3. QED
        BY <4>1, <4>2
    <3>3. QED
      BY <3>2
  <2>5. ASSUME NEW h \in Ocupados(huecos') PROVE \E s \in Vivos' : Dato(s)'.base = h.base
    <3>1. CASE h.base = b
      BY <1>7, <1>11, <2>1, <3>1
    <3>2. CASE h \in Ocupados(huecos)
      <4>1. PICK s \in Vivos : Dato(s).base = h.base
        BY <2>1, <3>2 DEF InvDuenios
      <4>2. s # <<p, id>>
        BY <2>3, <4>1
      <4>3. s \in Vivos' /\ Dato(s)' = Dato(s)
        BY <1>11, <2>1, <4>2
      <4>4. QED
        BY <4>1, <4>3
    <3>3. QED
      BY <1>10, <2>1, <3>1, <3>2
  <2>6. QED
    BY <2>4, <2>5 DEF InvDuenios
<1>14. InvSegmentos'
  BY <1>12 DEF InvSegmentos
<1>15. InvDuenios'
  BY <1>13 DEF InvDuenios
<1>16. QED
  BY <1>14, <1>15

(* A deleted segment leaves its hole to nobody, or to another.             *)
LEMMA EliminarSegmentos ==
  ASSUME 0 \notin Ids, InvLista, InvSegmentos, InvDuenios,
         NEW p \in Procesos, NEW id \in Ids, EliminarSegmento(p, id)
  PROVE  InvSegmentos' /\ InvDuenios'
<1>1. PICK b : b = tablasKernel[p][id].base
  OBVIOUS
<1>2. /\ huecos' = Liberar(huecos, b)
      /\ tablas' = [tablas EXCEPT ![p] = [tablasKernel[p] EXCEPT ![id] = SinSegmento]]
      /\ averias' = averias \union AlTraer(tablasKernel[p], tablas[p])
      /\ p \in activos
  BY <1>1 DEF EliminarSegmento
<1>3. SinSegmento.base = Nulo
  BY DEF SinSegmento, Segmento
<1>4. id \in 1..CantSegmentos - 1
  BY IdsEnTabla
<1>5. ASSUME TablasFieles' PROVE TablasFieles /\ tablasKernel[p] = tablas[p]
  <2>1. "tabla" \notin averias' /\ "restos" \notin averias'
    BY <1>5 DEF TablasFieles
  <2>2. TablasFieles
    BY <1>2, <2>1 DEF TablasFieles
  <2>3. tablasKernel[p] = tablas[p]
    BY <1>2, <2>1, AveriasDePedido
  <2>4. QED
    BY <2>2, <2>3
<1>6. ASSUME TablasFieles'
      PROVE  /\ huecos \in Listas /\ Sana(huecos) /\ huecos' \in Listas
             /\ huecos'[1].tamanio >= huecos[1].tamanio
             /\ Ocupados(huecos') \subseteq Ocupados(huecos)
             /\ \A h \in Ocupados(huecos) : h.base # b => h \in Ocupados(huecos')
             /\ (\A i \in 1..Len(huecos) : huecos[i].tamanio > 0) =>
                  /\ \A i \in 1..Len(huecos') : huecos'[i].tamanio > 0
                  /\ \A h \in Ocupados(huecos') : h.base # b
  <2>1. huecos \in Listas /\ Sana(huecos) /\ FueraDelSegmento0
    BY <1>5, <1>6 DEF InvLista, TablasFieles
  <2>2. b # 0
    BY <1>1, <1>2, <2>1 DEF FueraDelSegmento0
  <2>3. PICK m : m = huecos' /\ m = Liberar(huecos, b)
    BY <1>2
  <2>4. m \in Listas /\ m[1].tamanio >= huecos[1].tamanio
    BY <2>1, <2>2, <2>3, LiberarBien
  <2>5. Ocupados(m) \subseteq Ocupados(huecos)
    BY <2>1, <2>2, <2>3, LiberarBien
  <2>6. \A h \in Ocupados(huecos) : h.base # b => h \in Ocupados(m)
    BY <2>1, <2>2, <2>3, LiberarBien
  <2>7. (\A i \in 1..Len(huecos) : huecos[i].tamanio > 0) =>
          /\ \A i \in 1..Len(m) : m[i].tamanio > 0
          /\ \A h \in Ocupados(m) : h.base # b
    BY <2>1, <2>2, <2>3, LiberarBien
  <2>8. QED
    BY <2>1, <2>3, <2>4, <2>5, <2>6, <2>7
<1>7. ASSUME TablasFieles'
      PROVE  /\ \A s \in Vivos : s # <<p, id>> => s \in Vivos' /\ Dato(s)' = Dato(s)
             /\ \A s \in Vivos' : s # <<p, id>> => s \in Vivos
             /\ <<p, id>> \notin Vivos'
             /\ b # Nulo => <<p, id>> \in Vivos
             /\ Dato(<<p, id>>).base = b
  <2>1. tablas' = [tablas EXCEPT ![p] = [tablas[p] EXCEPT ![id] = SinSegmento]]
    BY <1>2, <1>5, <1>7
  <2>2. DOMAIN tablas = Procesos /\ DOMAIN tablas[p] = Indices
    BY <1>2 DEF InvLista, InvTablas
  <2>3. b = tablas[p][id].base
    BY <1>1, <1>5, <1>7
  <2>4. Dato(<<p, id>>).base = b
    BY <2>3 DEF Dato
  <2>5. QED
    BY <1>3, <1>4, <2>1, <2>2, <2>3, <2>4, CambiaSegmento
<1>8. ASSUME TablasFieles' PROVE InvSegmentos'
  <2>1. /\ \A q \in Procesos : tablas[q] = SinTabla \/ DOMAIN tablas[q] = Indices
        /\ huecos[1].tamanio >= TamSegmento0
        /\ \A s \in Vivos : \E h \in Ocupados(huecos) :
             h.base = Dato(s).base /\ h.tamanio = Dato(s).tamanio
        /\ \A s, r \in Vivos : s # r => Dato(s).base # Dato(r).base
    BY <1>5, <1>8 DEF InvSegmentos
  <2>2. \A q \in Procesos : tablas'[q] = SinTabla \/ DOMAIN tablas'[q] = Indices
    BY <1>2, <2>1 DEF InvLista, InvTablas
  <2>3. huecos'[1].tamanio >= TamSegmento0
    <3>1. \A l \in Listas : Sana(l) => 1 \in 1..Len(l)
      BY EmptySeq, ListasSonSecuencias DEF Sana, Tesela
    <3>2. Sana(huecos')
      <4>1. huecos \in Listas /\ Sana(huecos) /\ FueraDelSegmento0
        BY <1>5, <1>8 DEF InvLista, TablasFieles
      <4>2. b # 0
        BY <1>1, <1>2, <4>1 DEF FueraDelSegmento0
      <4>3. QED
        BY <1>2, <4>1, <4>2, LiberarBien
    <3>3. huecos[1].tamanio \in Nat /\ huecos'[1].tamanio \in Nat
      BY <1>6, <1>8, <3>1, <3>2, ListasSonSecuencias
    <3>4. huecos'[1].tamanio >= huecos[1].tamanio
      BY <1>6, <1>8
    <3>5. QED
      BY <2>1, <3>3, <3>4, HuecosOK DEF HuecosOK
  <2>4. ASSUME NEW s \in Vivos' PROVE s \in Vivos /\ s # <<p, id>> /\ Dato(s)' = Dato(s)
    BY <1>7, <1>8
  <2>5. ASSUME NEW s \in Vivos'
        PROVE  \E h \in Ocupados(huecos') : h.base = Dato(s)'.base /\ h.tamanio = Dato(s)'.tamanio
    <3>1. s \in Vivos /\ s # <<p, id>> /\ Dato(s)' = Dato(s)
      BY <2>4
    <3>2. PICK h \in Ocupados(huecos) : h.base = Dato(s).base /\ h.tamanio = Dato(s).tamanio
      BY <2>1, <3>1
    <3>3. h.base # b
      <4>1. CASE b = Nulo
        <5>1. h.base \in Nat
          BY CamposDeHueco DEF Ocupados
        <5>2. QED
          BY <4>1, <5>1, HuecosOK DEF HuecosOK
      <4>2. CASE b # Nulo
        BY <1>7, <1>8, <2>1, <3>1, <3>2, <4>2
      <4>3. QED
        BY <4>1, <4>2
    <3>4. QED
      BY <1>6, <1>8, <3>1, <3>2, <3>3
  <2>6. \A s, r \in Vivos' : s # r => Dato(s)'.base # Dato(r)'.base
    BY <2>1, <2>4
  <2>7. QED
    BY <2>2, <2>3, <2>5, <2>6 DEF InvSegmentos
<1>9. ASSUME averias' = {} PROVE InvDuenios'
  <2>1. averias = {} /\ TablasFieles'
    BY <1>2, <1>9 DEF TablasFieles
  <2>2. /\ \A i \in 1..Len(huecos) : huecos[i].tamanio > 0
        /\ \A h \in Ocupados(huecos) : \E s \in Vivos : Dato(s).base = h.base
    BY <2>1 DEF InvDuenios
  <2>3. /\ \A i \in 1..Len(huecos') : huecos'[i].tamanio > 0
        /\ \A h \in Ocupados(huecos') : h.base # b
    BY <1>6, <2>1, <2>2
  <2>4. ASSUME NEW h \in Ocupados(huecos') PROVE \E s \in Vivos' : Dato(s)'.base = h.base
    <3>1. PICK s \in Vivos : Dato(s).base = h.base
      BY <1>6, <2>1, <2>2
    <3>2. s # <<p, id>>
      BY <1>7, <2>1, <2>3, <3>1
    <3>3. s \in Vivos' /\ Dato(s)' = Dato(s)
      BY <1>7, <2>1, <3>2
    <3>4. QED
      BY <3>1, <3>3
  <2>5. QED
    BY <2>3, <2>4 DEF InvDuenios
<1>10. InvSegmentos'
  BY <1>8 DEF InvSegmentos
<1>11. InvDuenios'
  BY <1>9 DEF InvDuenios
<1>12. QED
  BY <1>10, <1>11

(* What a compaction that keeps the tables right does to the segments: it  *)
(* moves them, and no more.                                                *)
LEMMA CompactarMueve ==
  ASSUME NEW c, Reubicados(c), c.l \in Listas, tablas' = [q \in Procesos |-> c.tablas[q]],
         \A q \in Procesos : tablas[q] = SinTabla \/ DOMAIN tablas[q] = Indices
  PROVE  /\ \A q \in Procesos : tablas'[q] = SinTabla \/ DOMAIN tablas'[q] = Indices
         /\ Vivos' = Vivos
         /\ \A s \in Vivos : /\ Dato(s)' = c.tablas[s[1]][s[2]]
                             /\ Dato(s)'.tamanio = Dato(s).tamanio
<1>1. ASSUME NEW q \in Procesos
      PROVE  tablas'[q] = [k \in DOMAIN tablas[q] |->
               IF <<q, k>> \in Vivos THEN Segmento(c.tablas[q][k].base, tablas[q][k].tamanio)
                                     ELSE tablas[q][k]]
  BY DEF Reubicados
<1>2. ASSUME NEW q \in Procesos PROVE DOMAIN tablas'[q] = DOMAIN tablas[q]
  BY <1>1
<1>3. ASSUME NEW q \in Procesos, tablas[q] = SinTabla PROVE tablas'[q] = SinTabla
  <2>1. PICK f : f = tablas'[q]
    OBVIOUS
  <2>2. DOMAIN f = {}
    BY <1>2, <1>3, <2>1 DEF SinTabla
  <2>3. f = [k \in DOMAIN f |-> f[k]]
    BY <1>1, <2>1
  <2>4. f = <<>>
    BY <2>2, <2>3
  <2>5. QED
    BY <2>1, <2>4 DEF SinTabla
<1>4. ASSUME NEW q \in Procesos PROVE tablas'[q] = SinTabla \/ DOMAIN tablas'[q] = Indices
  BY <1>2, <1>3
<1>5. ASSUME NEW s \in Procesos \X (1..CantSegmentos - 1), s \notin Vivos
      PROVE  s \notin Vivos'
  <2>1. PICK q \in Procesos, k \in 1..CantSegmentos - 1 : s = <<q, k>>
    OBVIOUS
  <2>2. s[1] = q /\ s[2] = k
    BY <2>1
  <2>3. tablas[q] = SinTabla \/ tablas[q][k].base = Nulo
    BY <1>5, <2>2 DEF Vivos
  <2>4. CASE tablas[q] = SinTabla
    BY <1>3, <2>2, <2>4 DEF Vivos
  <2>5. CASE tablas[q] # SinTabla
    <3>1. k \in DOMAIN tablas[q]
      BY <2>5, IndicesNoVacio
    <3>2. tablas'[q][k] = tablas[q][k]
      BY <1>1, <1>5, <2>1, <3>1, ZenonT(30)
    <3>3. QED
      BY <2>2, <2>3, <2>5, <3>2 DEF Vivos
  <2>6. QED
    BY <2>4, <2>5
<1>6. ASSUME NEW s \in Vivos
      PROVE  /\ s \in Vivos' /\ Dato(s)'.base = c.tablas[s[1]][s[2]].base
             /\ Dato(s)'.tamanio = Dato(s).tamanio
  <2>1. PICK q \in Procesos, k \in 1..CantSegmentos - 1 : s = <<q, k>>
    BY DEF Vivos
  <2>2. s[1] = q /\ s[2] = k
    BY <2>1
  <2>3. tablas[q] # SinTabla
    BY <2>2 DEF Vivos
  <2>4. k \in DOMAIN tablas[q]
    BY <2>3, IndicesNoVacio
  <2>5. tablas'[q][k] = Segmento(c.tablas[q][k].base, tablas[q][k].tamanio)
    BY <1>1, <2>1, <2>4
  <2>6. /\ tablas'[q][k].base = c.tablas[q][k].base
        /\ tablas'[q][k].tamanio = tablas[q][k].tamanio
    BY <2>5 DEF Segmento
  <2>7. tablas'[q] # SinTabla
    <3>1. DOMAIN tablas'[q] = Indices
      BY <1>2, <2>3
    <3>2. QED
      BY <3>1, IndicesNoVacio
  <2>8. c.tablas[q][k].base # Nulo
    <3>1. PICK i \in 2..Len(c.l) : c.l[i] = Hueco(c.tablas[q][k].base, Dato(s).tamanio, FALSE)
      BY <2>2 DEF Reubicados
    <3>2. c.l[i].base = c.tablas[q][k].base
      BY <3>1 DEF Hueco
    <3>3. c.l[i].base \in Nat
      <4>1. i \in 1..Len(c.l)
        BY ListasSonSecuencias
      <4>2. QED
        BY <4>1, ListasSonSecuencias
    <3>4. QED
      BY <3>2, <3>3, HuecosOK DEF HuecosOK
  <2>9. s \in Vivos'
    BY <2>1, <2>2, <2>6, <2>7, <2>8 DEF Vivos
  <2>10. QED
    BY <2>2, <2>6, <2>9 DEF Dato
<1>7. ASSUME NEW s \in Vivos PROVE Dato(s)' = c.tablas[s[1]][s[2]]
  <2>1. s[1] \in Procesos
    BY DEF Vivos
  <2>2. QED
    BY <2>1 DEF Dato
<1>8. Vivos' = Vivos
  <2>1. Vivos' \subseteq Procesos \X (1..CantSegmentos - 1)
    BY DEF Vivos
  <2>2. QED
    BY <1>5, <1>6, <2>1
<1>9. QED
  BY <1>4, <1>6, <1>7, <1>8

(* An occupied hole, other than the first, is one of those.                *)
LEMMA HuecoOcupado ==
  ASSUME NEW l \in Listas, NEW i \in 2..Len(l), ~l[i].libre
  PROVE  l[i] \in Ocupados(l)
<1>1. i \in 1..Len(l)
  BY ListasSonSecuencias
<1>2. l[i] \in TipoHueco
  BY <1>1, ListasSonSecuencias
<1>3. QED
  BY <1>2 DEF Ocupados

(* Compacting moves every segment with its hole.                           *)
LEMMA CompactarSegmentos ==
  ASSUME InvLista, InvSegmentos, InvDuenios, CompactarDosLibres,
         NEW p \in Procesos, NEW id \in Ids, NEW t \in Tamanios, CompactarPara(p, id, t)
  PROVE  InvSegmentos' /\ InvDuenios'
<1>1. PICK c : c = Compactar(huecos, tablas)
  OBVIOUS
<1>2. /\ huecos' = c.l /\ tablas' = [q \in Procesos |-> c.tablas[q]]
      /\ averias \subseteq averias'
      /\ "restos" \notin averias' => Compactable(huecos)
  BY <1>1, CompactarHace
<1>3. c.l \in Listas
  BY <1>1, CompactarDeja
<1>4. ASSUME TablasFieles'
      PROVE  TablasFieles /\ "restos" \notin averias /\ Compactable(huecos)
  BY <1>2, <1>4 DEF TablasFieles
<1>5. ASSUME TablasFieles'
      PROVE  /\ Reubicados(c) /\ c.l[1] = huecos[1]
             /\ \A i \in DOMAIN c.l : c.l[i].tamanio > 0 /\ (c.l[i].libre <=> i = Len(c.l))
  BY <1>1, <1>4, <1>5, CompactarDeja
<1>6. ASSUME TablasFieles'
      PROVE  /\ \A q \in Procesos : tablas'[q] = SinTabla \/ DOMAIN tablas'[q] = Indices
             /\ Vivos' = Vivos
             /\ \A s \in Vivos : /\ Dato(s)' = c.tablas[s[1]][s[2]]
                                 /\ Dato(s)'.tamanio = Dato(s).tamanio
  <2>1. \A q \in Procesos : tablas[q] = SinTabla \/ DOMAIN tablas[q] = Indices
    BY <1>4, <1>6 DEF InvSegmentos
  <2>2. Reubicados(c)
    BY <1>5, <1>6
  <2>3. QED
    BY <1>2, <1>3, <2>1, <2>2, CompactarMueve
<1>7. ASSUME TablasFieles' PROVE InvSegmentos'
  <2>1. huecos'[1].tamanio >= TamSegmento0
    BY <1>2, <1>4, <1>5, <1>7 DEF InvSegmentos
  <2>2. ASSUME NEW s \in Vivos'
        PROVE  \E h \in Ocupados(huecos') : h.base = Dato(s)'.base /\ h.tamanio = Dato(s)'.tamanio
    <3>1. s \in Vivos
      BY <1>6, <1>7, <2>2
    <3>2. PICK b, n : b = c.tablas[s[1]][s[2]].base /\ n = Dato(s).tamanio
      OBVIOUS
    <3>3. PICK i \in 2..Len(c.l) : c.l[i] = Hueco(b, n, FALSE)
      BY <1>5, <1>7, <3>1, <3>2 DEF Reubicados
    <3>4. \E h \in Ocupados(c.l) : h.base = b /\ h.tamanio = n
      <4>1. c.l[i].base = b /\ c.l[i].tamanio = n /\ ~c.l[i].libre
        BY <3>3 DEF Hueco
      <4>2. c.l[i] \in Ocupados(c.l)
        BY <1>3, <4>1, HuecoOcupado
      <4>3. QED
        BY <4>1, <4>2
    <3>5. Dato(s)'.base = b /\ Dato(s)'.tamanio = n
      BY <1>6, <1>7, <3>1, <3>2
    <3>6. QED
      BY <1>2, <3>4, <3>5
  <2>3. ASSUME NEW s \in Vivos', NEW r \in Vivos', s # r PROVE Dato(s)'.base # Dato(r)'.base
    <3>1. s \in Vivos /\ r \in Vivos
      BY <1>6, <1>7, <2>3
    <3>2. c.tablas[s[1]][s[2]].base # c.tablas[r[1]][r[2]].base
      BY <1>5, <1>7, <2>3, <3>1 DEF Reubicados
    <3>3. QED
      BY <1>6, <1>7, <3>1, <3>2
  <2>4. QED
    BY <1>6, <1>7, <2>1, <2>2, <2>3 DEF InvSegmentos
<1>8. ASSUME averias' = {} PROVE InvDuenios'
  <2>1. averias = {} /\ TablasFieles'
    BY <1>2, <1>8 DEF TablasFieles
  <2>2. PICK n \in Nat : n = Len(c.l) /\ DOMAIN c.l = 1..n
    BY <1>3, ListasSonSecuencias
  <2>3. \A i \in 1..Len(huecos') : huecos'[i].tamanio > 0
    BY <1>2, <1>5, <2>1, <2>2
  <2>4. ASSUME NEW h \in Ocupados(c.l) PROVE \E s \in Vivos' : Dato(s)'.base = h.base
    <3>1. PICK i \in 2..n : c.l[i] = h /\ ~h.libre
      BY <2>2 DEF Ocupados
    <3>2. i \in 1..n /\ i # n
      BY <1>5, <2>1, <2>2, <3>1
    <3>3. i \in 2..Len(c.l) - 1
      BY <2>2, <3>1, <3>2
    <3>4. PICK s \in Vivos : c.tablas[s[1]][s[2]].base = c.l[i].base
      BY <1>5, <2>1, <3>3 DEF Reubicados
    <3>5. s \in Vivos' /\ Dato(s)' = c.tablas[s[1]][s[2]]
      BY <1>6, <2>1, <3>4
    <3>6. QED
      BY <3>1, <3>4, <3>5
  <2>5. QED
    BY <1>2, <2>3, <2>4 DEF InvDuenios
<1>9. InvSegmentos'
  BY <1>7 DEF InvSegmentos
<1>10. InvDuenios'
  BY <1>8 DEF InvDuenios
<1>11. QED
  BY <1>9, <1>10

(* A new table has no segment of its own.                                  *)
LEMMA CrearPCBSegmentos ==
  ASSUME InvLista, InvSegmentos, InvDuenios, NEW p \in Procesos, CrearPCB(p)
  PROVE  InvSegmentos' /\ InvDuenios'
<1>1. /\ tablas[p] = SinTabla /\ tablas' = [tablas EXCEPT ![p] = TablaInicial]
      /\ averias' = averias /\ huecos' = huecos
  BY DEF CrearPCB
<1>2. DOMAIN TablaInicial = Indices
  BY DEF TablaInicial, Indices
<1>3. \A k \in 1..CantSegmentos - 1 : TablaInicial[k].base = Nulo
  <2>1. ASSUME NEW k \in 1..CantSegmentos - 1 PROVE TablaInicial[k] = SinSegmento
    <3>1. k \in 0..CantSegmentos - 1 /\ k # 0
      BY MemoriaOK DEF MemoriaOK
    <3>2. QED
      BY <3>1 DEF TablaInicial
  <2>2. SinSegmento.base = Nulo
    BY DEF SinSegmento, Segmento
  <2>3. QED
    BY <2>1, <2>2
<1> HIDE DEF TablaInicial
<1>4. /\ tablas'[p] = TablaInicial /\ \A q \in Procesos : q # p => tablas'[q] = tablas[q]
  BY <1>1 DEF InvLista, InvTablas
<1>5. ASSUME NEW s \in Procesos \X (1..CantSegmentos - 1)
      PROVE  /\ s \in Vivos' <=> s \in Vivos
             /\ s \in Vivos => Dato(s)' = Dato(s)
  <2>1. s[1] \in Procesos /\ s[2] \in 1..CantSegmentos - 1
    OBVIOUS
  <2>2. CASE s[1] = p
    BY <1>1, <1>3, <1>4, <2>1, <2>2 DEF Vivos
  <2>3. CASE s[1] # p
    BY <1>4, <2>1, <2>3 DEF Vivos, Dato
  <2>4. QED
    BY <2>2, <2>3
<1>6. Vivos' = Vivos /\ \A s \in Vivos : Dato(s)' = Dato(s)
  <2>1. /\ Vivos' \subseteq Procesos \X (1..CantSegmentos - 1)
        /\ Vivos \subseteq Procesos \X (1..CantSegmentos - 1)
    BY DEF Vivos
  <2>2. QED
    BY <1>5, <2>1
<1>7. TablasFieles' <=> TablasFieles
  BY <1>1 DEF TablasFieles
<1>8. (\A q \in Procesos : tablas[q] = SinTabla \/ DOMAIN tablas[q] = Indices)
        => \A q \in Procesos : tablas'[q] = SinTabla \/ DOMAIN tablas'[q] = Indices
  BY <1>2, <1>4
<1>9. InvSegmentos'
  BY <1>1, <1>6, <1>7, <1>8 DEF InvSegmentos
<1>10. InvDuenios'
  BY <1>1, <1>6 DEF InvDuenios
<1>11. QED
  BY <1>9, <1>10

(* Steps that change neither the holes nor memory's tables.                *)
LEMMA FinSegmentos ==
  ASSUME InvSegmentos, InvDuenios, UNCHANGED <<huecos, tablas, averias>>
  PROVE  InvSegmentos' /\ InvDuenios'
<1>1. Vivos' = Vivos
  BY DEF Vivos
<1>2. \A s : Dato(s)' = Dato(s)
  BY DEF Dato
<1>3. TablasFieles' <=> TablasFieles
  BY DEF TablasFieles
<1>4. InvSegmentos'
  BY <1>1, <1>2, <1>3 DEF InvSegmentos
<1>5. InvDuenios'
  BY <1>1, <1>2 DEF InvDuenios
<1>6. QED
  BY <1>4, <1>5

(* At the start no segments; hole 1 is segment 0's and 2 is free.          *)
LEMMA InvSegmentosInicial ==
  ASSUME Init PROVE InvSegmentos /\ InvDuenios
<1>1. Vivos = {}
  BY DEF Init, Vivos
<1>2. PICK l : l = huecos /\ l = HuecosIniciales
  BY DEF Init
<1>3. l \in Listas /\ Len(l) = 2
  BY <1>2, ListaInicial
<1>4. l[1].tamanio = TamSegmento0 /\ l[2].tamanio > 0 /\ l[2].libre
  BY <1>2, ListaInicial
<1>5. \A i \in 1..2 : l[i].tamanio > 0
  <2>1. \A i \in 1..2 : i = 1 \/ i = 2
    OBVIOUS
  <2>2. TamSegmento0 > 0
    BY HuecosOK DEF HuecosOK
  <2>3. QED
    BY <1>4, <2>1, <2>2
<1>6. Ocupados(l) = {}
  <2>1. \A i \in 2..2 : i = 2
    OBVIOUS
  <2>2. QED
    BY <1>3, <1>4, <2>1 DEF Ocupados
<1>7. InvSegmentos
  <2>1. huecos[1].tamanio >= TamSegmento0
    BY <1>2, <1>4, HuecosOK DEF HuecosOK
  <2>2. \A q \in Procesos : tablas[q] = SinTabla
    BY DEF Init
  <2>3. QED
    BY <1>1, <2>1, <2>2 DEF InvSegmentos
<1>8. InvDuenios
  BY <1>2, <1>3, <1>5, <1>6 DEF InvDuenios
<1>9. QED
  BY <1>7, <1>8

(* Every step of Next keeps the match of segments and holes, where         *)
(* compactar does what CompactarDosLibres says of it.                      *)
LEMMA InvSegmentosPasos ==
  ASSUME 0 \notin Ids
  PROVE  InvLista /\ InvSegmentos /\ InvDuenios /\ CompactarDosLibres /\ [Next]_vars
           => InvSegmentos' /\ InvDuenios'
<1> SUFFICES ASSUME InvLista, InvSegmentos, InvDuenios, CompactarDosLibres, [Next]_vars
             PROVE  InvSegmentos' /\ InvDuenios'
  OBVIOUS
<1>1. CASE UNCHANGED vars
  BY <1>1, FinSegmentos DEF vars
<1>2. ASSUME NEW p \in Procesos, CrearPCB(p) PROVE InvSegmentos' /\ InvDuenios'
  BY <1>2, CrearPCBSegmentos
<1>3. ASSUME NEW p \in Procesos, Terminar(p) PROVE InvSegmentos' /\ InvDuenios'
  <2>1. UNCHANGED <<huecos, tablas, averias>>
    BY <1>3 DEF Terminar
  <2>2. QED
    BY <2>1, FinSegmentos
<1>4. ASSUME NEW p \in Procesos, NEW id \in Ids, EliminarSegmento(p, id)
      PROVE  InvSegmentos' /\ InvDuenios'
  BY <1>4, EliminarSegmentos
<1>5. ASSUME NEW p \in Procesos, NEW id \in Ids, NEW t \in Tamanios, CrearSegmento(p, id, t)
      PROVE  InvSegmentos' /\ InvDuenios'
  BY <1>5, CrearSegmentos
<1>6. ASSUME NEW p \in Procesos, NEW id \in Ids, NEW t \in Tamanios, CompactarPara(p, id, t)
      PROVE  InvSegmentos' /\ InvDuenios'
  BY <1>6, CompactarSegmentos
<1>7. ASSUME NEW p \in Procesos, NEW id \in Ids, NEW t \in Tamanios, SinMemoria(p, id, t)
      PROVE  InvSegmentos' /\ InvDuenios'
  <2>1. UNCHANGED <<huecos, tablas, averias>>
    BY <1>7 DEF SinMemoria
  <2>2. QED
    BY <2>1, FinSegmentos
<1>8. QED
  BY <1>1, <1>2, <1>3, <1>4, <1>5, <1>6, <1>7 DEF Next

(* The tables have segments, and none but 0 starts at 0 unless a           *)
(* compaction left holes behind.                                           *)
InvTipos ==
  /\ tablas \in [Procesos -> Tablas] /\ tablasKernel \in [Procesos -> Tablas]
  /\ "restos" \notin averias => SinCero(tablas) /\ SinCero(tablasKernel)

(* The segments of the tables are those of Vivos.                          *)
LEMMA PropiosVivos ==
  ASSUME tablas \in [Procesos -> Tablas], NEW p \in Procesos
  PROVE  /\ \A k \in Propios(p) : <<p, k>> \in Vivos /\ k \in 1..CantSegmentos - 1
         /\ \A k \in DOMAIN tablas[p] : <<p, k>> \in Vivos => k \in Propios(p)
<1>1. PICK t : t = tablas[p]
  OBVIOUS
<1>2. t = SinTabla \/ DOMAIN t = Indices
  BY <1>1 DEF Tablas
<1>3. ASSUME NEW k \in Propios(p) PROVE <<p, k>> \in Vivos /\ k \in 1..CantSegmentos - 1
  <2>1. k \in DOMAIN t /\ k > 0 /\ t[k].base # Nulo
    BY <1>1 DEF Propios
  <2>2. t # SinTabla
    BY <2>1 DEF SinTabla
  <2>3. k \in 1..CantSegmentos - 1
    BY <1>2, <2>1, <2>2, MemoriaOK DEF Indices, MemoriaOK
  <2>4. QED
    BY <1>1, <2>1, <2>2, <2>3 DEF Vivos
<1>4. ASSUME NEW k \in DOMAIN t, <<p, k>> \in Vivos PROVE k \in Propios(p)
  <2>1. k \in 1..CantSegmentos - 1 /\ t[k].base # Nulo
    BY <1>1, <1>4 DEF Vivos
  <2>2. QED
    BY <1>1, <2>1 DEF Propios
<1>5. QED
  BY <1>1, <1>3, <1>4

(* The other way round.                                                    *)
LEMMA VivosPropios ==
  ASSUME tablas \in [Procesos -> Tablas], NEW s \in Vivos
  PROVE  \E p \in Procesos : \E k \in Propios(p) :
           s = <<p, k>> /\ s[1] = p /\ s[2] = k /\ k \in DOMAIN tablas[p] /\ Dato(s) = tablas[p][k]
<1>1. PICK p \in Procesos, k \in 1..CantSegmentos - 1 : s = <<p, k>>
  BY DEF Vivos
<1>2. s[1] = p /\ s[2] = k
  BY <1>1
<1>3. tablas[p] # SinTabla /\ tablas[p][k].base # Nulo
  BY <1>2 DEF Vivos
<1>4. DOMAIN tablas[p] = Indices
  BY <1>3 DEF Tablas
<1>5. k \in DOMAIN tablas[p] /\ k > 0
  BY <1>4, IndicesNoVacio
<1>6. QED
  BY <1>1, <1>2, <1>3, <1>5 DEF Propios, Dato

(* The list that the second loop leaves.                                   *)
LEMMA ListaCompactada ==
  ASSUME NEW l \in Listas, NEW juntos, NEW m, NEW nb, NEW total,
         Acomodo(l, juntos, m, nb, total), NEW ts,
         NEW c, Colocados(c, juntos, m, nb, ts, m - 1)
  PROVE  /\ c.l \in Listas /\ Len(c.l) = m /\ DOMAIN c.l = 1..m /\ SinVacios(c.l)
         /\ c.l[1] = l[1] /\ Last(c.l).tamanio = total
         /\ \A i \in 1..m : c.l[i].libre <=> i = m
         /\ \A i \in 1..m : c.l[i].base = nb[i] /\ c.l[i].tamanio = juntos[i].tamanio
<1>1. /\ m \in Nat /\ m >= 2 /\ nb[1] = 0 /\ nb[m] + total = TamMemoria
      /\ juntos[1] = l[1] /\ total > 0 /\ juntos[m].libre /\ juntos[m].tamanio = total
  BY DEF Acomodo
<1>2. \A j \in 1..m - 1 : /\ ~juntos[j].libre /\ juntos[j].tamanio > 0
                          /\ nb[j + 1] = nb[j] + juntos[j].tamanio
  BY DEF Acomodo
<1>3. c \in EstadosDeReubicar(m) /\ c.l[1] = juntos[1]
  BY DEF Colocados
<1>4. PICK g : g = c.l
  OBVIOUS
<1>5. g \in Listas /\ Len(g) = m /\ DOMAIN g = 1..m
  <2>1. g \in Listas /\ Len(g) = m
    BY <1>3, <1>4 DEF EstadosDeReubicar
  <2>2. QED
    BY <2>1, ListasSonSecuencias
<1>6. ASSUME NEW j \in 1..m
      PROVE  /\ g[j].base = nb[j] /\ g[j].tamanio = juntos[j].tamanio
             /\ g[j].libre <=> juntos[j].libre
  <2>1. j <= (m - 1) + 1
    BY <1>1
  <2>2. QED
    BY <1>4, <2>1 DEF Colocados
<1>7. \A j \in 1..m : j = m \/ j \in 1..m - 1
  BY <1>1
<1>8. \A i \in 1..m : (g[i].libre <=> i = m) /\ g[i].tamanio > 0
  <2>1. ~(m \in 1..m - 1)
    BY <1>1
  <2>2. QED
    BY <1>1, <1>2, <1>6, <1>7, <2>1
<1>9. Tesela(g)
  <2>1. 1 \in 1..m /\ m \in 1..m /\ g # <<>>
    BY <1>1, <1>5
  <2>2. \A i \in 1..m - 1 : g[i + 1].base = g[i].base + g[i].tamanio
    <3>1. \A i \in 1..m - 1 : i \in 1..m /\ i + 1 \in 1..m
      BY <1>1
    <3>2. QED
      BY <1>2, <1>6, <3>1
  <2>3. g[1].base = 0 /\ g[m].base + g[m].tamanio = TamMemoria
    BY <1>1, <1>6, <2>1
  <2>4. QED
    BY <1>5, <2>1, <2>2, <2>3 DEF Tesela
<1>10. SinVacios(g)
  BY <1>5, <1>8, <1>9 DEF SinVacios
<1>11. Last(g).tamanio = total
  <2>1. Last(g) = g[m] /\ m \in 1..m
    BY <1>1, <1>5 DEF Last
  <2>2. QED
    BY <1>1, <1>6, <2>1
<1>12. QED
  BY <1>1, <1>3, <1>4, <1>5, <1>6, <1>8, <1>10, <1>11

(* The segments have their holes, when the tables are right.               *)
LEMMA SegmentosAlojados ==
  ASSUME huecos \in Listas, tablas \in [Procesos -> Tablas], InvSegmentos, TablasFieles,
         NEW juntos, NEW m, NEW nb, NEW total, Acomodo(huecos, juntos, m, nb, total)
  PROVE  Alojados(juntos, m)
<1>1. \A i \in 2..Len(huecos) : ~huecos[i].libre => \E j \in 2..m - 1 : juntos[j] = huecos[i]
  BY DEF Acomodo
<1>2. ASSUME NEW p \in Procesos, NEW k \in Propios(p)
      PROVE  /\ \E j \in 2..m - 1 : juntos[j].base = tablas[p][k].base
             /\ \A i \in Propios(p) : i # k => tablas[p][i].base # tablas[p][k].base
  <2>1. <<p, k>> \in Vivos /\ Dato(<<p, k>>) = tablas[p][k]
    BY PropiosVivos DEF Dato
  <2>2. PICK h \in Ocupados(huecos) : h.base = tablas[p][k].base
    BY <2>1 DEF InvSegmentos
  <2>3. PICK i \in 2..Len(huecos) : huecos[i] = h /\ ~huecos[i].libre
    BY DEF Ocupados
  <2>4. PICK j \in 2..m - 1 : juntos[j] = h
    BY <1>1, <2>3
  <2>5. ASSUME NEW y \in Propios(p), y # k PROVE tablas[p][y].base # tablas[p][k].base
    <3>1. <<p, y>> \in Vivos /\ Dato(<<p, y>>) = tablas[p][y]
      BY PropiosVivos DEF Dato
    <3>2. <<p, y>> # <<p, k>>
      BY <2>5
    <3>3. QED
      BY <2>1, <3>1, <3>2 DEF InvSegmentos
  <2>6. QED
    BY <2>2, <2>4, <2>5
<1>3. QED
  BY <1>2 DEF Alojados

(* So they move with them.                                                 *)
LEMMA SegmentosReubicados ==
  ASSUME huecos \in Listas, tablas \in [Procesos -> Tablas], InvSegmentos, InvDuenios, TablasFieles,
         NEW juntos, NEW m, NEW nb, NEW total, Acomodo(huecos, juntos, m, nb, total),
         NEW c, Colocados(c, juntos, m, nb, tablas, m - 1),
         Movidos(c.tablas, juntos, m, nb, m)
  PROVE  Reubicados(c)
<1>1. /\ c.l \in Listas /\ Len(c.l) = m /\ DOMAIN c.l = 1..m /\ SinVacios(c.l)
      /\ \A i \in 1..m : c.l[i].libre <=> i = m
      /\ \A i \in 1..m : c.l[i].base = nb[i] /\ c.l[i].tamanio = juntos[i].tamanio
  BY ListaCompactada
<1>2. /\ m \in Nat /\ m >= 2
      /\ \A j \in 1..m - 1 : ~juntos[j].libre
      /\ \A i \in 2..Len(huecos) : ~huecos[i].libre => \E j \in 2..m - 1 : juntos[j] = huecos[i]
      /\ \A j \in 2..m - 1 : \E i \in 2..Len(huecos) : juntos[j] = huecos[i]
  BY DEF Acomodo
<1>3. PICK g, ct : g = c.l /\ ct = c.tablas
  OBVIOUS
<1>4. \A p \in Procesos : DOMAIN ct[p] = DOMAIN tablas[p]
  BY <1>3 DEF Colocados
<1>5. /\ g \in Listas /\ Len(g) = m /\ DOMAIN g = 1..m /\ SinVacios(g)
      /\ \A i \in 1..m : g[i].libre <=> i = m
      /\ \A i \in 1..m : g[i].base = nb[i] /\ g[i].tamanio = juntos[i].tamanio
  BY <1>1, <1>3
<1>6. Movidos(ct, juntos, m, nb, m)
  BY <1>3
(* Where a segment is, before and after.                                   *)
<1>7. ASSUME NEW p \in Procesos, NEW k \in Propios(p)
      PROVE  \E j \in 2..m - 1 :
               /\ juntos[j].base = tablas[p][k].base /\ juntos[j].tamanio = tablas[p][k].tamanio
               /\ ct[p][k] = Segmento(nb[j], tablas[p][k].tamanio)
  <2>1. <<p, k>> \in Vivos /\ Dato(<<p, k>>) = tablas[p][k] /\ k \in DOMAIN tablas[p]
    BY PropiosVivos DEF Dato, Propios
  <2>2. PICK h \in Ocupados(huecos) : h.base = tablas[p][k].base /\ h.tamanio = tablas[p][k].tamanio
    BY <2>1 DEF InvSegmentos
  <2>3. PICK i \in 2..Len(huecos) : huecos[i] = h /\ ~huecos[i].libre
    BY DEF Ocupados
  <2>4. PICK j \in 2..m - 1 : juntos[j] = h
    BY <1>2, <2>3
  <2>5. j <= m
    BY <1>2
  <2>6. ct[p][k] = Segmento(IF j <= m THEN nb[j] ELSE juntos[j].base, tablas[p][k].tamanio)
    BY <1>6, <2>1, <2>2, <2>4 DEF Movidos
  <2>7. QED
    BY <2>2, <2>4, <2>5, <2>6
<1>8. ASSUME NEW p \in Procesos
      PROVE  ct[p] = [k \in DOMAIN tablas[p] |->
               IF <<p, k>> \in Vivos THEN Segmento(ct[p][k].base, tablas[p][k].tamanio)
                                     ELSE tablas[p][k]]
  <2>1. PICK f : f = ct[p]
    OBVIOUS
  <2>2. f = [k \in DOMAIN tablas[p] |-> f[k]]
    <3>1. c.tablas \in [Procesos -> Tablas]
      BY DEF Colocados, EstadosDeReubicar
    <3>2. f \in Tablas /\ DOMAIN f = DOMAIN tablas[p]
      BY <1>3, <1>4, <2>1, <3>1
    <3>3. f = [k \in DOMAIN f |-> f[k]]
      <4>1. CASE f \in [Indices -> Segs]
        BY <4>1
      <4>2. CASE f = <<>>
        <5>1. <<>> \in Seq(Segs) /\ DOMAIN <<>> = {}
          OBVIOUS
        <5>2. [k \in {} |-> f[k]] = <<>>
          OBVIOUS
        <5>3. QED
          BY <4>2, <5>1, <5>2
      <4>3. QED
        BY <3>2, <4>1, <4>2 DEF Tablas, SinTabla
    <3>4. QED
      BY <3>2, <3>3
  <2>3. ASSUME NEW k \in DOMAIN tablas[p]
        PROVE  f[k] = IF <<p, k>> \in Vivos THEN Segmento(f[k].base, tablas[p][k].tamanio)
                                            ELSE tablas[p][k]
    <3>1. <<p, k>> \in Vivos <=> k \in Propios(p)
      BY PropiosVivos
    <3>2. CASE k \in Propios(p)
      <4>1. PICK j : f[k] = Segmento(nb[j], tablas[p][k].tamanio)
        BY <1>7, <2>1, <3>2
      <4>2. f[k].base = nb[j]
        BY <4>1, CamposDeSegmento
      <4>3. QED
        BY <3>1, <3>2, <4>1, <4>2
    <3>3. CASE k \notin Propios(p)
      BY <1>6, <2>1, <3>1, <3>3 DEF Movidos
    <3>4. QED
      BY <3>2, <3>3
  <2>4. f = [k \in DOMAIN tablas[p] |->
               IF <<p, k>> \in Vivos THEN Segmento(f[k].base, tablas[p][k].tamanio)
                                     ELSE tablas[p][k]]
    BY <2>2, <2>3
  <2>5. QED
    BY <2>1, <2>4
<1>9. ASSUME NEW s \in Vivos
      PROVE  \E j \in 2..m - 1 :
               /\ juntos[j].base = Dato(s).base /\ ct[s[1]][s[2]].base = nb[j]
               /\ g[j] = Hueco(nb[j], Dato(s).tamanio, FALSE)
  <2>1. PICK p \in Procesos : \E k \in Propios(p) :
          s[1] = p /\ s[2] = k /\ Dato(s) = tablas[p][k]
    BY VivosPropios
  <2>a. PICK k \in Propios(p) : s[1] = p /\ s[2] = k /\ Dato(s) = tablas[p][k]
    BY <2>1
  <2>2. PICK j \in 2..m - 1 :
          /\ juntos[j].base = tablas[p][k].base /\ juntos[j].tamanio = tablas[p][k].tamanio
          /\ ct[p][k] = Segmento(nb[j], tablas[p][k].tamanio)
    BY <1>7
  <2>3. j \in 1..m /\ j # m
    BY <1>2
  <2>4. PICK h : h = g[j]
    OBVIOUS
  <2>5. h \in TipoHueco /\ h.base = nb[j] /\ h.tamanio = Dato(s).tamanio /\ ~h.libre
    BY <1>5, <2>a, <2>2, <2>3, <2>4, ListasSonSecuencias
  <2>6. h = Hueco(nb[j], Dato(s).tamanio, FALSE)
    BY <2>5 DEF TipoHueco, Hueco
  <2>7. ct[p][k].base = nb[j]
    BY <2>2, CamposDeSegmento
  <2>8. QED
    BY <2>a, <2>2, <2>4, <2>6, <2>7
<1>10. ASSUME NEW s \in Vivos
       PROVE  \E i \in 2..Len(g) : g[i] = Hueco(ct[s[1]][s[2]].base, Dato(s).tamanio, FALSE)
  <2>1. PICK j \in 2..m - 1 : /\ ct[s[1]][s[2]].base = nb[j]
                              /\ g[j] = Hueco(nb[j], Dato(s).tamanio, FALSE)
    BY <1>9
  <2>2. j \in 2..Len(g)
    BY <1>2, <1>5
  <2>3. QED
    BY <2>1, <2>2
<1>11. ASSUME NEW s \in Vivos, NEW r \in Vivos, s # r
       PROVE  ct[s[1]][s[2]].base # ct[r[1]][r[2]].base
  <2>1. PICK i \in 2..m - 1 : juntos[i].base = Dato(s).base /\ ct[s[1]][s[2]].base = nb[i]
    BY <1>9
  <2>2. PICK j \in 2..m - 1 : juntos[j].base = Dato(r).base /\ ct[r[1]][r[2]].base = nb[j]
    BY <1>9
  <2>3. Dato(s).base # Dato(r).base
    BY <1>11 DEF InvSegmentos
  <2>4. i # j /\ i \in 1..m /\ j \in 1..m
    BY <1>2, <2>1, <2>2, <2>3
  <2>5. g[i].base \in Nat /\ g[j].base \in Nat
    BY <1>5, <2>4, ListasSonSecuencias
  <2>6. CASE i < j
    BY <1>5, <2>1, <2>2, <2>4, <2>5, <2>6, BasesCrecen
  <2>7. CASE j < i
    BY <1>5, <2>1, <2>2, <2>4, <2>5, <2>7, BasesCrecen
  <2>8. QED
    BY <2>4, <2>6, <2>7
<1>12. ASSUME averias = {}, NEW i \in 2..Len(g) - 1
       PROVE  \E s \in Vivos : ct[s[1]][s[2]].base = g[i].base
  <2>1. i \in 2..m - 1 /\ i \in 1..m - 1 /\ i \in 1..m
    BY <1>2, <1>5
  <2>2. PICK y \in 2..Len(huecos) : juntos[i] = huecos[y]
    BY <1>2, <2>1
  <2>3. huecos[y] \in Ocupados(huecos)
    BY <1>2, <2>1, <2>2, HuecoOcupado
  <2>4. PICK s \in Vivos : Dato(s).base = juntos[i].base
    BY <1>12, <2>2, <2>3 DEF InvDuenios
  <2>5. PICK p \in Procesos : \E k \in Propios(p) :
          s[1] = p /\ s[2] = k /\ k \in DOMAIN tablas[p] /\ Dato(s) = tablas[p][k]
    BY VivosPropios
  <2>a. PICK k \in Propios(p) :
          s[1] = p /\ s[2] = k /\ k \in DOMAIN tablas[p] /\ Dato(s) = tablas[p][k]
    BY <2>5
  <2>6. i <= m
    BY <2>1
  <2>7. ct[p][k] = Segmento(IF i <= m THEN nb[i] ELSE juntos[i].base, tablas[p][k].tamanio)
    BY <1>6, <2>1, <2>4, <2>a DEF Movidos
  <2>8. ct[p][k].base = nb[i]
    BY <2>6, <2>7, CamposDeSegmento
  <2>9. QED
    BY <1>5, <2>1, <2>4, <2>a, <2>8
<1>13. /\ \A s \in Vivos : \E i \in 2..Len(c.l) :
            c.l[i] = Hueco(c.tablas[s[1]][s[2]].base, Dato(s).tamanio, FALSE)
       /\ \A s, r \in Vivos :
            s # r => c.tablas[s[1]][s[2]].base # c.tablas[r[1]][r[2]].base
       /\ averias = {} => \A i \in 2..Len(c.l) - 1 : \E s \in Vivos :
            c.tablas[s[1]][s[2]].base = c.l[i].base
  BY <1>3, <1>10, <1>11, <1>12
<1>14. \A p \in Procesos : c.tablas[p] = [k \in DOMAIN tablas[p] |->
         IF <<p, k>> \in Vivos THEN Segmento(c.tablas[p][k].base, tablas[p][k].tamanio)
                              ELSE tablas[p][k]]
  BY <1>3, <1>8
<1>15. QED
  BY <1>13, <1>14 DEF Reubicados

(* compactar does what CompactarDosLibres says of it.                      *)
LEMMA CompactarCumple ==
  ASSUME InvLista, InvTipos, InvSegmentos, InvDuenios
  PROVE  CompactarDosLibres
<1>1. PICK c : c = Compactar(huecos, tablas)
  OBVIOUS
<1>2. huecos \in Listas /\ tablas \in [Procesos -> Tablas]
  BY DEF InvLista, InvTipos
<1>3. c.l \in Listas /\ \A p \in Procesos : DOMAIN c.tablas[p] = DOMAIN tablas[p]
  BY <1>1, <1>2, CompactarTipo
<1>4. ASSUME "restos" \notin averias, Compactable(huecos)
      PROVE  /\ Tesela(c.l) /\ c.l[1] = huecos[1]
             /\ Last(c.l).tamanio = Libre(huecos)
             /\ \A i \in DOMAIN c.l : c.l[i].tamanio > 0 /\ (c.l[i].libre <=> i = Len(c.l))
             /\ SinCero(c.tablas)
             /\ TablasFieles => Reubicados(c)
  <2>1. Sana(huecos) /\ SinCero(tablas) /\ huecos[1].base = 0
    BY <1>4 DEF InvLista, InvTipos, Sana, Tesela
  <2>2. PICK juntos : juntos = JuntarLibres(huecos)
    OBVIOUS
  <2>3. PICK total : total = Libre(huecos)
    OBVIOUS
  <2>4. PICK m, nb : Acomodo(huecos, juntos, m, nb, total)
    BY <1>2, <1>4, <2>1, <2>2, <2>3, AcomodoHay
  <2>5. m \in Nat /\ m >= 2 /\ m = Len(juntos)
    BY <2>4 DEF Acomodo
  <2>6. PICK F : Recorrido(F, juntos, tablas, m) /\ Compactar(huecos, tablas) = F[m - 1]
    BY <2>2, <2>5, RecorridoHay
  <2>7. Colocados(c, juntos, m, nb, tablas, m - 1)
    <3>1. m - 1 \in 0..m - 1
      BY <2>5
    <3>2. \A k \in 0..m - 1 : Colocados(F[k], juntos, m, nb, tablas, k)
      BY <1>2, <2>1, <2>4, <2>6, ColocadosTodos
    <3>3. QED
      BY <1>1, <2>6, <3>1, <3>2
  <2>8. /\ Len(c.l) = m /\ DOMAIN c.l = 1..m /\ SinVacios(c.l)
        /\ c.l[1] = huecos[1] /\ Last(c.l).tamanio = total
        /\ \A i \in 1..m : c.l[i].libre <=> i = m
    BY <1>2, <2>4, <2>7, ListaCompactada
  <2>9. SinCero(c.tablas)
    <3>1. SinCero(F[m - 1].tablas)
      BY <1>2, <2>1, <2>4, <2>6, SinCeroTodos
    <3>2. QED
      BY <1>1, <2>6, <3>1
  <2>10. ASSUME TablasFieles PROVE Reubicados(c)
    <3>1. Alojados(juntos, m)
      BY <1>2, <2>4, <2>10, SegmentosAlojados
    <3>2. Movidos(F[m - 1].tablas, juntos, m, nb, m)
      BY <1>2, <2>1, <2>4, <2>6, <3>1, MovidosTodos
    <3>3. Movidos(c.tablas, juntos, m, nb, m)
      BY <1>1, <2>6, <3>2
    <3>4. QED
      BY <1>2, <2>4, <2>7, <2>10, <3>3, SegmentosReubicados
  <2>11. QED
    BY <2>3, <2>8, <2>9, <2>10 DEF SinVacios
<1>5. SinCero(c.tablas) => \A p \in Procesos : \A k \in DOMAIN tablas[p] \ {0} : c.tablas[p][k].base # 0
  BY <1>3 DEF SinCero
<1>6. QED
  BY <1>1, <1>3, <1>4, <1>5 DEF CompactarDosLibres

(* A table without such a segment.                                         *)
SinCeroEn(t) == \A k \in DOMAIN t \ {0} : t[k].base # 0

(* Giving a process another table.                                         *)
LEMMA CambiaTabla ==
  ASSUME NEW ts \in [Procesos -> Tablas], NEW p \in Procesos, NEW t \in Tablas,
         NEW r, r = [ts EXCEPT ![p] = t]
  PROVE  /\ r \in [Procesos -> Tablas]
         /\ SinCero(ts) /\ SinCeroEn(t) => SinCero(r)
<1>1. r \in [Procesos -> Tablas] /\ r[p] = t /\ \A q \in Procesos : q # p => r[q] = ts[q]
  OBVIOUS
<1>2. QED
  BY <1>1 DEF SinCero, SinCeroEn

(* Giving a segment of a process other data.                               *)
LEMMA CambiaTipos ==
  ASSUME InvLista, InvTipos, NEW p \in activos, NEW id \in Indices, id # 0, NEW x \in Segs,
         "restos" \notin averias' => "restos" \notin averias /\ x.base # 0,
         NEW tabla, tabla = [tablasKernel[p] EXCEPT ![id] = x],
         tablas' = [tablas EXCEPT ![p] = tabla],
         tablasKernel' = [tablasKernel EXCEPT ![p] = tabla]
  PROVE  InvTipos'
<1>1. PICK t : t = tablasKernel[p]
  OBVIOUS
<1>2. p \in Procesos /\ DOMAIN t = Indices /\ t \in Tablas
  BY <1>1 DEF InvLista, InvTablas, InvTipos
<1>3. t \in [Indices -> Segs]
  <2>1. SinTabla \notin {f \in {t} : DOMAIN f = Indices}
    BY IndicesNoVacio
  <2>2. QED
    BY <1>2, <2>1 DEF Tablas
<1>4. tabla \in [Indices -> Segs] /\ tabla[id] = x /\ \A k \in Indices : k # id => tabla[k] = t[k]
  BY <1>1, <1>3
<1>5. tabla \in Tablas /\ DOMAIN tabla = Indices
  BY <1>4 DEF Tablas
<1>6. tablas' \in [Procesos -> Tablas] /\ tablasKernel' \in [Procesos -> Tablas]
  BY <1>2, <1>5, CambiaTabla DEF InvTipos
<1>7. ASSUME "restos" \notin averias' PROVE SinCero(tablas') /\ SinCero(tablasKernel')
  <2>1. SinCero(tablas) /\ SinCero(tablasKernel) /\ x.base # 0
    BY <1>7 DEF InvTipos
  <2>2. SinCeroEn(tabla)
    BY <1>1, <1>2, <1>4, <1>5, <2>1 DEF SinCero, SinCeroEn
  <2>3. PICK r, s : r = tablas' /\ s = tablasKernel'
    OBVIOUS
  <2>4. /\ r = [tablas EXCEPT ![p] = tabla] /\ s = [tablasKernel EXCEPT ![p] = tabla]
        /\ tablas \in [Procesos -> Tablas] /\ tablasKernel \in [Procesos -> Tablas]
        /\ p \in Procesos /\ tabla \in Tablas
    BY <1>2, <1>5, <2>3 DEF InvTipos
  <2>5. SinCero(r)
    BY <2>1, <2>2, <2>4, CambiaTabla
  <2>6. SinCero(s)
    BY <2>1, <2>2, <2>4, CambiaTabla
  <2>7. QED
    BY <2>3, <2>5, <2>6
<1>8. QED
  BY <1>6, <1>7 DEF InvTipos, SinCero

(* A segment is created at the base of a hole that is not the first.       *)
LEMMA CrearTipos ==
  ASSUME 0 \notin Ids, InvLista, InvTipos, NEW p \in Procesos, NEW id \in Ids, NEW t \in Tamanios,
         CrearSegmento(p, id, t)
  PROVE  InvTipos'
<1>1. PICK i : i = HuecoElegido(huecos, t)
  OBVIOUS
<1>2. PICK x : x = Segmento(huecos[i].base, t)
  OBVIOUS
<1>3. PICK tabla : tabla = [tablasKernel[p] EXCEPT ![id] = x]
  OBVIOUS
<1>4. /\ i > 0 /\ p \in activos /\ averias \subseteq averias'
      /\ tablas' = [tablas EXCEPT ![p] = tabla]
      /\ tablasKernel' = [tablasKernel EXCEPT ![p] = tabla]
  BY <1>1, <1>2, <1>3 DEF CrearSegmento, Pide
<1>5. t \in Nat \ {0} /\ t \in Nat
  BY MemoriaOK DEF MemoriaOK
<1>6. i \in 1..Len(huecos) /\ huecos[i].libre /\ huecos[i].tamanio >= t /\ huecos \in Listas
  BY <1>1, <1>4, <1>5, ElegidoBien DEF InvLista
<1>7. huecos[i].base \in Nat
  BY <1>6, ListasSonSecuencias
<1>8. x \in Segs /\ x.base = huecos[i].base
  BY <1>2, <1>5, <1>7, CamposDeSegmento
<1>9. ASSUME "restos" \notin averias' PROVE "restos" \notin averias /\ x.base # 0
  <2>1. "restos" \notin averias /\ Sana(huecos)
    BY <1>4, <1>9 DEF InvLista
  <2>2. huecos[i].base # 0
    BY <1>5, <1>6, <2>1, OcuparOcupados
  <2>3. QED
    BY <1>8, <2>1, <2>2
<1>10. id \in Indices /\ id # 0
  BY IdsEnTabla
<1>11. QED
  BY <1>3, <1>4, <1>8, <1>9, <1>10, CambiaTipos

(* A deleted one has no base.                                              *)
LEMMA EliminarTipos ==
  ASSUME 0 \notin Ids, InvLista, InvTipos, NEW p \in Procesos, NEW id \in Ids, EliminarSegmento(p, id)
  PROVE  InvTipos'
<1>1. PICK tabla : tabla = [tablasKernel[p] EXCEPT ![id] = SinSegmento]
  OBVIOUS
<1>2. /\ p \in activos /\ averias \subseteq averias'
      /\ tablas' = [tablas EXCEPT ![p] = tabla]
      /\ tablasKernel' = [tablasKernel EXCEPT ![p] = tabla]
  BY <1>1 DEF EliminarSegmento
<1>3. SinSegmento \in Segs /\ SinSegmento.base # 0
  BY CamposDeSegmento, HuecosOK DEF HuecosOK, SinSegmento
<1>4. id \in Indices /\ id # 0
  BY IdsEnTabla
<1>5. "restos" \notin averias' => "restos" \notin averias
  BY <1>2
<1>6. QED
  BY <1>1, <1>2, <1>3, <1>4, <1>5, CambiaTipos

(* A new table has no segment but 0.                                       *)
LEMMA CrearPCBTipos ==
  ASSUME InvTipos, NEW p \in Procesos, CrearPCB(p)
  PROVE  InvTipos'
<1>1. /\ tablas' = [tablas EXCEPT ![p] = TablaInicial]
      /\ tablasKernel' = [tablasKernel EXCEPT ![p] = TablaInicial]
      /\ averias' = averias
  BY DEF CrearPCB
<1>2. Segmento(0, TamSegmento0) \in Segs /\ SinSegmento \in Segs /\ SinSegmento.base # 0
  BY CamposDeSegmento, HuecosOK DEF HuecosOK, SinSegmento
<1>3. /\ TablaInicial \in Tablas
      /\ \A k \in DOMAIN TablaInicial \ {0} : TablaInicial[k].base # 0
  BY <1>2 DEF TablaInicial, Indices, Tablas
<1>4. PICK t : t = TablaInicial
  OBVIOUS
<1>5. t \in Tablas /\ SinCeroEn(t)
  BY <1>3, <1>4 DEF SinCeroEn
<1>6. PICK r, s : r = tablas' /\ s = tablasKernel'
  OBVIOUS
<1>7. /\ r = [tablas EXCEPT ![p] = t] /\ s = [tablasKernel EXCEPT ![p] = t]
      /\ tablas \in [Procesos -> Tablas] /\ tablasKernel \in [Procesos -> Tablas]
  BY <1>1, <1>4, <1>6 DEF InvTipos
<1>8. /\ r \in [Procesos -> Tablas]
      /\ SinCero(tablas) => SinCero(r)
  BY <1>5, <1>7, CambiaTabla
<1>9. /\ s \in [Procesos -> Tablas]
      /\ SinCero(tablasKernel) => SinCero(s)
  BY <1>5, <1>7, CambiaTabla
<1>10. ASSUME "restos" \notin averias' PROVE SinCero(r) /\ SinCero(s)
  BY <1>1, <1>8, <1>9, <1>10 DEF InvTipos
<1>11. QED
  BY <1>6, <1>8, <1>9, <1>10 DEF InvTipos, SinCero

(* A compaction gives every table the bases of holes.                      *)
LEMMA CompactarTipos ==
  ASSUME InvLista, InvTipos, CompactarDosLibres,
         NEW p \in Procesos, NEW id \in Ids, NEW t \in Tamanios, CompactarPara(p, id, t)
  PROVE  InvTipos'
<1>1. PICK c : c = Compactar(huecos, tablas)
  OBVIOUS
<1>2. /\ tablas' = [q \in Procesos |-> c.tablas[q]]
      /\ DOMAIN tablasKernel' = Procesos
      /\ \A q \in Procesos : tablasKernel'[q] = c.tablas[q] \/ tablasKernel'[q] = tablasKernel[q]
      /\ averias \subseteq averias'
      /\ "restos" \notin averias' => Compactable(huecos)
  BY <1>1, CompactarHace
<1>3. PICK ts : ts = c.tablas
  OBVIOUS
<1>4. ts \in [Procesos -> Tablas] /\ \A q \in Procesos : DOMAIN ts[q] = DOMAIN tablas[q]
  BY <1>1, <1>3, CompactarTipo DEF InvLista, InvTipos
<1>5. tablas' = ts
  BY <1>2, <1>3, <1>4
<1>6. tablasKernel' \in [Procesos -> Tablas]
  <2>1. \A q \in Procesos : tablasKernel'[q] \in Tablas
    BY <1>2, <1>3, <1>4 DEF InvTipos
  <2>2. PICK f, g : f = tablasKernel' /\ g = [q \in Procesos |->
                       IF tablasKernel'[q] = c.tablas[q] THEN c.tablas[q] ELSE tablasKernel[q]]
    OBVIOUS
  <2>3. tablasKernel' = [q \in Procesos |-> tablasKernel'[q]]
    <3>1. PICK esperan :
            tablasKernel' = [q \in Procesos |->
              IF q \in activos \ (esperan \union {p}) THEN c.tablas[q] ELSE tablasKernel[q]]
      BY <1>1 DEF CompactarPara
    <3>2. QED
      BY <3>1
  <2>4. QED
    BY <2>1, <2>3
<1>7. ASSUME "restos" \notin averias' PROVE SinCero(ts) /\ SinCero(tablasKernel')
  <2>1. "restos" \notin averias /\ Compactable(huecos) /\ SinCero(tablasKernel)
    BY <1>2, <1>7 DEF InvTipos
  <2>2. \A q \in Procesos : \A k \in DOMAIN tablas[q] \ {0} : c.tablas[q][k].base # 0
    BY <1>1, <2>1, CompactarDeja
  <2>3. SinCero(ts)
    BY <1>3, <1>4, <2>2 DEF SinCero
  <2>4. SinCero(tablasKernel')
    BY <1>2, <1>3, <2>1, <2>3 DEF SinCero
  <2>5. QED
    BY <2>3, <2>4
<1>8. QED
  BY <1>4, <1>5, <1>6, <1>7 DEF InvTipos, SinCero

(* Every step.                                                             *)
LEMMA InvTiposPasos ==
  ASSUME 0 \notin Ids
  PROVE  InvLista /\ InvTipos /\ CompactarDosLibres /\ [Next]_vars => InvTipos'
<1> SUFFICES ASSUME InvLista, InvTipos, CompactarDosLibres, [Next]_vars PROVE InvTipos'
  OBVIOUS
<1>1. ASSUME UNCHANGED <<tablas, tablasKernel, averias>> PROVE InvTipos'
  BY <1>1 DEF InvTipos, SinCero
<1>2. CASE UNCHANGED vars
  BY <1>1, <1>2 DEF vars
<1>3. ASSUME NEW p \in Procesos, CrearPCB(p) PROVE InvTipos'
  BY <1>3, CrearPCBTipos
<1>4. ASSUME NEW p \in Procesos, Terminar(p) PROVE InvTipos'
  BY <1>1, <1>4 DEF Terminar
<1>5. ASSUME NEW p \in Procesos, NEW id \in Ids, EliminarSegmento(p, id) PROVE InvTipos'
  BY <1>5, EliminarTipos
<1>6. ASSUME NEW p \in Procesos, NEW id \in Ids, NEW t \in Tamanios, CrearSegmento(p, id, t)
      PROVE  InvTipos'
  BY <1>6, CrearTipos
<1>7. ASSUME NEW p \in Procesos, NEW id \in Ids, NEW t \in Tamanios, CompactarPara(p, id, t)
      PROVE  InvTipos'
  BY <1>7, CompactarTipos
<1>8. ASSUME NEW p \in Procesos, NEW id \in Ids, NEW t \in Tamanios, SinMemoria(p, id, t)
      PROVE  InvTipos'
  BY <1>1, <1>8 DEF SinMemoria
<1>9. QED
  BY <1>2, <1>3, <1>4, <1>5, <1>6, <1>7, <1>8 DEF Next

(* The four invariants, on which the theorems of this section rest.        *)
InvMemoria == InvLista /\ InvTipos /\ InvSegmentos /\ InvDuenios

(* They hold at the start.                                                 *)
LEMMA InvMemoriaInicial == Init => InvMemoria
<1>1. Init => InvTipos
  BY DEF Init, InvTipos, SinCero, Tablas, SinTabla
<1>2. QED
  BY <1>1, InvListaInicial, InvSegmentosInicial DEF InvMemoria

(* Every step keeps them.                                                  *)
LEMMA InvMemoriaPasos ==
  ASSUME 0 \notin Ids
  PROVE  InvMemoria /\ [Next]_vars => InvMemoria'
<1>1. InvMemoria => CompactarDosLibres
  BY CompactarCumple DEF InvMemoria
<1>2. InvLista /\ CompactarDosLibres /\ [Next]_vars => InvLista'
  BY InvListaPasos
<1>3. InvLista /\ InvTipos /\ CompactarDosLibres /\ [Next]_vars => InvTipos'
  BY InvTiposPasos
<1>4. InvLista /\ InvSegmentos /\ InvDuenios /\ CompactarDosLibres /\ [Next]_vars
        => InvSegmentos' /\ InvDuenios'
  BY InvSegmentosPasos
<1>5. QED
  BY <1>1, <1>2, <1>3, <1>4 DEF InvMemoria

(* They always hold.                                                       *)
LEMMA InvMemoriaSiempre ==
  ASSUME 0 \notin Ids
  PROVE  Spec => []InvMemoria
<1>1. InvMemoria /\ [Next]_vars => InvMemoria'
  BY InvMemoriaPasos
<1>2. QED
  BY <1>1, InvMemoriaInicial, PTL DEF Spec

(* compactar keeps the tiling and moves every segment with its hole,       *)
(* whatever the sizes, the processes and the order of their requests, as   *)
(* long as it is called with at most two free holes, neither empty.        *)
THEOREM CompactarBien ==
  ASSUME 0 \notin Ids
  PROVE  Spec => []CompactarDosLibres
<1>1. InvMemoria => CompactarDosLibres
  BY CompactarCumple DEF InvMemoria
<1>2. QED
  BY <1>1, InvMemoriaSiempre, PTL

(* That the holes tile the memory.                                         *)
LEMMA MemoriaTeseladaDe == InvMemoria => Teselado
  BY DEF InvMemoria, InvLista, Teselado, Sana

(* The holes tile the memory whatever segments, other than 0, the programs *)
(* create and delete and with the three algorithms, until a compaction     *)
(* finds more than two free holes, or an empty one.                        *)
THEOREM MemoriaTeselada ==
  ASSUME 0 \notin Ids
  PROVE  Spec => []Teselado
  BY MemoriaTeseladaDe, InvMemoriaSiempre, PTL

(* The hole of a segment.                                                  *)
LEMMA HuecoDeSegmento ==
  ASSUME InvLista, InvSegmentos, TablasFieles, NEW s \in Vivos
  PROVE  \E i \in 2..Len(huecos) :
           /\ ~huecos[i].libre /\ huecos[i] \in TipoHueco
           /\ huecos[i].base = Dato(s).base /\ huecos[i].tamanio = Dato(s).tamanio
<1>1. PICK h \in Ocupados(huecos) : h.base = Dato(s).base /\ h.tamanio = Dato(s).tamanio
  BY DEF InvSegmentos
<1>2. PICK i \in 2..Len(huecos) : huecos[i] = h /\ ~h.libre /\ h \in TipoHueco
  BY DEF Ocupados
<1>3. QED
  BY <1>1, <1>2

(* The segments of the tables, from the invariants.                        *)
LEMMA CadaSegmentoTieneHuecoDe == InvMemoria => SegmentosOcupados
<1>1. ASSUME InvLista, InvSegmentos PROVE SegmentosOcupados
  <2> SUFFICES ASSUME TablasFieles, NEW s \in Vivos
               PROVE  \E i \in DOMAIN huecos :
                        huecos[i] = Hueco(Dato(s).base, Dato(s).tamanio, FALSE)
    BY DEF SegmentosOcupados
  <2>1. PICK i \in 2..Len(huecos) :
          /\ ~huecos[i].libre /\ huecos[i] \in TipoHueco
          /\ huecos[i].base = Dato(s).base /\ huecos[i].tamanio = Dato(s).tamanio
    BY <1>1, HuecoDeSegmento
  <2>2. i \in DOMAIN huecos
    BY <1>1, ListasSonSecuencias DEF InvLista
  <2>3. huecos[i] = Hueco(Dato(s).base, Dato(s).tamanio, FALSE)
    BY <2>1 DEF TipoHueco, Hueco
  <2>4. QED
    BY <2>2, <2>3
<1>2. QED
  BY <1>1 DEF InvMemoria

(* Every segment in memory's tables is an occupied hole of its base and    *)
(* size, unless a process brought back a table from before a compaction or *)
(* one left holes behind.                                                  *)
THEOREM CadaSegmentoTieneHueco ==
  ASSUME 0 \notin Ids
  PROVE  Spec => []SegmentosOcupados
  BY CadaSegmentoTieneHuecoDe, InvMemoriaSiempre, PTL

(* That they do not overlap.                                               *)
LEMMA SegmentosSeparadosDe == InvMemoria => SinSolapamiento
<1>1. ASSUME InvLista, InvSegmentos, TablasFieles, NEW s \in Vivos
      PROVE  /\ Dato(s).base >= TamSegmento0
             /\ Dato(s).base + Dato(s).tamanio <= TamMemoria
             /\ \A r \in Vivos \ {s} : \/ Dato(s).base + Dato(s).tamanio <= Dato(r).base
                                       \/ Dato(r).base + Dato(r).tamanio <= Dato(s).base
  <2>1. huecos \in Listas /\ Sana(huecos) /\ Tesela(huecos)
    BY <1>1 DEF InvLista, TablasFieles, Sana
  <2>2. PICK n \in Nat : n = Len(huecos)
    BY <2>1, ListasSonSecuencias
  <2>3. PICK i \in 2..n :
          huecos[i].base = Dato(s).base /\ huecos[i].tamanio = Dato(s).tamanio
    BY <1>1, <2>2, HuecoDeSegmento
  <2>4. i \in 1..n /\ 1 \in 1..n /\ 1 < i
    OBVIOUS
  <2>5. Dato(s).base >= TamSegmento0
    <3>1. huecos[1].base + huecos[1].tamanio <= huecos[i].base
      BY <2>1, <2>2, <2>4, Orden
    <3>2. huecos[1].tamanio >= TamSegmento0 /\ huecos[1].base = 0
      BY <1>1, <2>1 DEF InvSegmentos, Tesela
    <3>3. huecos[1].tamanio \in Nat /\ huecos[i].base \in Nat
      BY <2>1, <2>2, <2>4, ListasSonSecuencias
    <3>4. QED
      BY <2>3, <3>1, <3>2, <3>3, HuecosOK DEF HuecosOK
  <2>6. Dato(s).base + Dato(s).tamanio <= TamMemoria
    BY <2>1, <2>2, <2>3, <2>4, DentroDeMemoria
  <2>7. ASSUME NEW r \in Vivos \ {s}
        PROVE  \/ Dato(s).base + Dato(s).tamanio <= Dato(r).base
               \/ Dato(r).base + Dato(r).tamanio <= Dato(s).base
    <3>1. PICK j \in 2..n :
            huecos[j].base = Dato(r).base /\ huecos[j].tamanio = Dato(r).tamanio
      BY <1>1, <2>2, HuecoDeSegmento
    <3>2. i # j
      BY <1>1, <2>3, <3>1 DEF InvSegmentos
    <3>3. j \in 1..n
      OBVIOUS
    <3>4. CASE i < j
      <4>1. huecos[i].base + huecos[i].tamanio <= huecos[j].base
        BY <2>1, <2>2, <2>4, <3>3, <3>4, Orden
      <4>2. QED
        BY <2>3, <3>1, <4>1
    <3>5. CASE j < i
      <4>1. huecos[j].base + huecos[j].tamanio <= huecos[i].base
        BY <2>1, <2>2, <2>4, <3>3, <3>5, Orden
      <4>2. QED
        BY <2>3, <3>1, <4>1
    <3>6. QED
      BY <3>2, <3>4, <3>5
  <2>8. QED
    BY <2>5, <2>6, <2>7
<1>2. QED
  BY <1>1 DEF InvMemoria, SinSolapamiento

(* No segment has a byte of another, of segment 0 or from beyond the       *)
(* memory: processes do not see one another.                               *)
THEOREM SegmentosSeparados ==
  ASSUME 0 \notin Ids
  PROVE  Spec => []SinSolapamiento
  BY SegmentosSeparadosDe, InvMemoriaSiempre, PTL

(* That no occupied hole is left over.                                     *)
LEMMA NadaOcupadoDeMasDe == InvMemoria => OcupadoTieneDuenio
<1>1. ASSUME InvLista, InvDuenios, averias = {}, NEW i \in 2..Len(huecos)
      PROVE  huecos[i].libre \/ \E s \in Vivos : Dato(s).base = huecos[i].base
  <2>1. CASE huecos[i].libre
    BY <2>1
  <2>2. CASE ~huecos[i].libre
    <3>1. huecos[i] \in Ocupados(huecos)
      BY <1>1, <2>2, HuecoOcupado DEF InvLista
    <3>2. QED
      BY <1>1, <3>1 DEF InvDuenios
  <2>3. QED
    BY <2>1, <2>2
<1>2. QED
  BY <1>1 DEF InvMemoria, OcupadoTieneDuenio

(* Without failures every occupied hole is the segment of some table: the  *)
(* bytes of what programs delete can be used again.                        *)
THEOREM NadaOcupadoDeMas ==
  ASSUME 0 \notin Ids
  PROVE  Spec => []OcupadoTieneDuenio
  BY NadaOcupadoDeMasDe, InvMemoriaSiempre, PTL

-----------------------------------------------------------------------------
(* The CREATE_SEGMENT that is repeated after a compaction finds a hole,    *)
(* unless the compaction left holes behind.                                *)
ReintentoCabe ==
  reintento.proceso # Ninguno /\ "restos" \notin averias =>
    HuecoElegido(huecos, reintento.tamanio) > 0

(* A compaction of two free holes leaves one with all the free bytes, and  *)
(* nobody takes it before the retry.                                       *)
LEMMA ReintentoCabePasos ==
  InvMemoria /\ ReintentoCabe /\ [Next]_vars => ReintentoCabe'
<1> SUFFICES ASSUME InvMemoria, ReintentoCabe, [Next]_vars PROVE ReintentoCabe'
  OBVIOUS
<1>1. CASE UNCHANGED <<huecos, reintento, averias>>
  BY <1>1 DEF ReintentoCabe
<1>2. CASE reintento' = SinReintento
  BY <1>2 DEF ReintentoCabe, SinReintento
<1>3. ASSUME NEW p \in Procesos, NEW id \in Ids, NEW t \in Tamanios,
             CompactarPara(p, id, t), reintento.proceso = Ninguno
      PROVE  ReintentoCabe'
  <2>1. PICK c : c = Compactar(huecos, tablas)
    OBVIOUS
  <2>2. /\ huecos' = c.l /\ averias' = averias \union AlCompactar(huecos)
        /\ reintento' = [proceso |-> p, id |-> id, tamanio |-> t]
        /\ Libre(huecos) >= t
    BY <1>3, <2>1 DEF CompactarPara, AlcanzaCompactando
  <2>3. SUFFICES ASSUME "restos" \notin averias' PROVE HuecoElegido(huecos', t) > 0
    BY <2>2 DEF ReintentoCabe
  <2>4. "restos" \notin averias /\ Compactable(huecos)
    BY <2>2, <2>3 DEF AlCompactar, Si
  <2>5. /\ c.l \in Listas /\ Tesela(c.l) /\ Last(c.l).tamanio = Libre(huecos)
        /\ \A i \in DOMAIN c.l : c.l[i].libre <=> i = Len(c.l)
    BY <2>1, <2>4, CompactarCumple DEF InvMemoria, CompactarDosLibres
  <2>6. PICK n \in Nat : n = Len(c.l) /\ DOMAIN c.l = 1..n
    BY <2>5, ListasSonSecuencias
  <2>7. n \in 1..n
    BY <2>5, <2>6 DEF Tesela, Listas
  <2>8. c.l[n].libre /\ c.l[n].tamanio >= t
    BY <2>2, <2>5, <2>6, <2>7 DEF Last
  <2>9. t \in Nat
    BY MemoriaOK DEF MemoriaOK
  <2>10. HuecoElegido(c.l, t) > 0
    BY <2>5, <2>6, <2>7, <2>8, <2>9, ElegidoBien
  <2>11. QED
    BY <2>2, <2>10
<1>4. QED
  BY <1>1, <1>2, <1>3
  DEF Next, vars, CrearPCB, Terminar, EliminarSegmento, CrearSegmento, SinMemoria,
      CompactarPara
=============================================================================
