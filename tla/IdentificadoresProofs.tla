------------------------ MODULE IdentificadoresProofs ------------------------
(***************************************************************************)
(* Numbers repeat only through a race, and a process whose number is its   *)
(* own is always in exactly one place, for any number of consoles.         *)
(***************************************************************************)
EXTENDS Identificadores, LemasListas, FiniteSetTheorems, TLAPS

(* What the counter and the threads of the consoles hold.                  *)
TipoNumeros ==
  /\ contador \in Int
  /\ paso \in [Consolas -> {"espera", "id", "suma", "sumado", "creado"}]
  /\ id \in [Consolas -> Int]
  /\ leido \in [Consolas -> Int]
  /\ previos \in [Consolas -> SUBSET ConNumero]

(* No two of those that have their number were inside at once.             *)
EnSerie == \A c, d \in ConNumero : c # d => ~Coincidieron(c, d)

(* As long as they came one at a time the numbers given are all different  *)
(* and below the counter.                                                  *)
NumerosDados ==
  EnSerie =>
    /\ \A c \in ConNumero : id[c] < contador
    /\ \A c, d \in ConNumero : c # d => id[c] # id[d]

(* Nobody has written the counter since a console began, if nobody has     *)
(* finished since: what it read is what there is.                          *)
LecturaVigente ==
  \A c \in Consolas :
    /\ paso[c] \in {"id", "suma"} /\ previos[c] = ConNumero => id[c] = contador
    /\ paso[c] = "suma" /\ previos[c] = ConNumero => leido[c] = contador

InvNumeros == TipoNumeros /\ NumerosDados /\ LecturaVigente

(* The consoles have no number at first.                                   *)
LEMMA InicioNumeros == Init => InvNumeros
  BY DEF Init, InvNumeros, TipoNumeros, NumerosDados, LecturaVigente, ConNumero,
         ContadorInicial

(* A console that writes the counter while the others kept to their turn   *)
(* is preceded by all that had their number.                               *)
LEMMA EnSerieEsUltimo ==
  ASSUME InvNumeros, NEW c \in Consolas, Escribe(c), EnSerie'
  PROVE  /\ EnSerie
         /\ previos[c] = ConNumero
         /\ ConNumero' = ConNumero \union {c} /\ c \notin ConNumero
<1>1. ConNumero' = ConNumero \union {c} /\ c \notin ConNumero
  BY DEF InvNumeros, TipoNumeros, Escribe, Avanza, ConNumero
<1>2. previos' = previos
  BY DEF Escribe
<1>3. EnSerie
  BY <1>1, <1>2 DEF EnSerie, Coincidieron
<1>4. ASSUME NEW d \in ConNumero PROVE d \in previos[c]
  <2>1. d \in Consolas /\ d # c
    BY <1>1, <1>4 DEF ConNumero
  <2>2. c \notin previos[d]
    BY <2>1, <1>1 DEF InvNumeros, TipoNumeros
  <2>3. c \in ConNumero' /\ d \in ConNumero'
    BY <1>1, <1>4
  <2>4. QED
    BY <1>2, <2>1, <2>2, <2>3 DEF EnSerie, Coincidieron
<1>5. previos[c] \subseteq ConNumero
  BY DEF InvNumeros, TipoNumeros
<1>6. QED
  BY <1>1, <1>3, <1>4, <1>5

(* Every step keeps the invariant. Only Escribe changes who has a number   *)
(* and the counter.                                                        *)
LEMMA PasoNumeros == InvNumeros /\ [Next]_vars => InvNumeros'
<1> SUFFICES ASSUME InvNumeros, [Next]_vars
             PROVE  InvNumeros'
  OBVIOUS
<1> USE DEF InvNumeros
<1>1. ASSUME NEW c \in Consolas, LeeId(c) PROVE InvNumeros'
  <2>1. ConNumero' = ConNumero
    BY <1>1 DEF TipoNumeros, LeeId, Avanza, ConNumero
  <2>2. TipoNumeros'
    BY <1>1, <2>1 DEF TipoNumeros, LeeId, Avanza
  <2>3. NumerosDados'
    <3>1. c \notin ConNumero
      BY <1>1 DEF LeeId, Avanza, ConNumero
    <3>2. \A d \in ConNumero : d \in Consolas /\ d # c
                                /\ id'[d] = id[d] /\ previos'[d] = previos[d]
      BY <1>1, <3>1 DEF TipoNumeros, LeeId, ConNumero
    <3>3. EnSerie' => EnSerie
      BY <2>1, <3>2 DEF EnSerie, Coincidieron
    <3>4. contador' = contador
      BY <1>1 DEF LeeId
    <3>5. QED
      BY <2>1, <3>2, <3>3, <3>4 DEF NumerosDados
  <2>4. LecturaVigente'
    BY <1>1, <2>1 DEF LecturaVigente, TipoNumeros, LeeId, Avanza
  <2>5. QED
    BY <2>2, <2>3, <2>4
<1>2. ASSUME NEW c \in Consolas, LeeContador(c) PROVE InvNumeros'
  <2>1. ConNumero' = ConNumero
    BY <1>2 DEF TipoNumeros, LeeContador, Avanza, ConNumero
  <2>2. TipoNumeros'
    BY <1>2, <2>1 DEF TipoNumeros, LeeContador, Avanza
  <2>3. NumerosDados'
    BY <1>2, <2>1 DEF NumerosDados, EnSerie, Coincidieron, LeeContador
  <2>4. LecturaVigente'
    BY <1>2, <2>1 DEF LecturaVigente, TipoNumeros, LeeContador, Avanza
  <2>5. QED
    BY <2>2, <2>3, <2>4
<1>3. ASSUME NEW c \in Consolas, Escribe(c) PROVE InvNumeros'
  <2>1. ConNumero' = ConNumero \union {c} /\ c \notin ConNumero
    BY <1>3 DEF TipoNumeros, Escribe, Avanza, ConNumero
  <2>2. TipoNumeros'
    BY <1>3, <2>1 DEF TipoNumeros, Escribe, Avanza
  <2>3. NumerosDados'
    <3> SUFFICES ASSUME EnSerie'
                 PROVE  /\ \A d \in ConNumero' : id'[d] < contador'
                        /\ \A d, e \in ConNumero' : d # e => id'[d] # id'[e]
      BY DEF NumerosDados
    <3>1. EnSerie /\ previos[c] = ConNumero
      BY <1>3, EnSerieEsUltimo
    <3>2. id[c] = contador /\ contador' = contador + 1 /\ id' = id
      BY <1>3, <3>1 DEF LecturaVigente, Escribe, Avanza
    <3>3. \A d \in ConNumero : id[d] < contador /\ id[d] \in Int
      BY <3>1 DEF NumerosDados, TipoNumeros, ConNumero
    <3>4. contador \in Int
      BY DEF TipoNumeros
    <3>5. \A d, e \in ConNumero : d # e => id[d] # id[e]
      BY <3>1 DEF NumerosDados
    <3>6. QED
      BY <2>1, <3>2, <3>3, <3>4, <3>5
  <2>4. LecturaVigente'
    <3>1. ASSUME NEW d \in Consolas PROVE previos'[d] # ConNumero'
      BY <1>3, <2>1, <3>1 DEF TipoNumeros, Escribe
    <3>2. QED
      BY <3>1 DEF LecturaVigente
  <2>5. QED
    BY <2>2, <2>3, <2>4
<1>4. ASSUME NEW c \in Consolas, Crea(c) PROVE InvNumeros'
  <2>1. ConNumero' = ConNumero
    BY <1>4 DEF TipoNumeros, Crea, Avanza, ConNumero
  <2>2. TipoNumeros'
    BY <1>4, <2>1 DEF TipoNumeros, Crea, Avanza
  <2>3. NumerosDados'
    BY <1>4, <2>1 DEF NumerosDados, EnSerie, Coincidieron, Crea
  <2>4. LecturaVigente'
    BY <1>4, <2>1 DEF LecturaVigente, TipoNumeros, Crea, Avanza
  <2>5. QED
    BY <2>2, <2>3, <2>4
<1>5. CASE UNCHANGED <<contador, paso, id, leido, previos>>
  BY <1>5 DEF TipoNumeros, NumerosDados, LecturaVigente, EnSerie, Coincidieron, ConNumero
<1>6. QED
  BY <1>1, <1>2, <1>3, <1>4, <1>5 DEF Next, vars, procesos, Admite, Elige, Deja

(* Processes whose consoles come one at a time have different numbers,     *)
(* however many consoles there are and wherever the others are stopped.    *)
THEOREM NumerosPropios == Spec => []RepetidosSoloConCarrera
<1>1. InvNumeros => RepetidosSoloConCarrera
  BY DEF InvNumeros, NumerosDados, EnSerie, RepetidosSoloConCarrera
<1>2. QED
  BY InicioNumeros, PasoNumeros, <1>1, PTL DEF Spec
-----------------------------------------------------------------------------
(* Where the processes are.                                                *)

(* c is at most once in the list.                                          *)
SinRepetir(s, c) == \A i, j \in DOMAIN s : s[i] = c /\ s[j] = c => i = j

(* list_add of another process, or of one that was not in the list.        *)
LEMMA AgregaSinRepetir ==
  ASSUME NEW S, NEW s \in Seq(S), NEW p \in S, NEW c,
         SinRepetir(s, c), p # c \/ c \notin Range(s)
  PROVE  SinRepetir(Append(s, p), c)
<1>1. /\ Len(s) \in Nat /\ DOMAIN s = 1 .. Len(s)
      /\ DOMAIN Append(s, p) = 1 .. Len(s) + 1
      /\ \A i \in 1 .. Len(s) : Append(s, p)[i] = s[i]
      /\ Append(s, p)[Len(s) + 1] = p
  BY AppendProperties, LenProperties
<1>2. \A i \in 1 .. Len(s) : s[i] \in Range(s)
  BY RangoDeLista
<1> DEFINE t == Append(s, p)
<1> HIDE DEF t
<1>3. QED
  BY <1>1, <1>2 DEF SinRepetir, t

(* list_remove of the head takes out c only if it was the head.            *)
LEMMA ColaSinRepetir ==
  ASSUME NEW S, NEW s \in Seq(S), s # <<>>, NEW c, SinRepetir(s, c)
  PROVE  /\ SinRepetir(Tail(s), c)
         /\ c \in Range(Tail(s)) <=> c \in Range(s) /\ c # Head(s)
<1>1. /\ Len(s) \in Nat /\ Len(s) >= 1 /\ DOMAIN s = 1..Len(s)
      /\ Head(s) = s[1]
      /\ DOMAIN Tail(s) = 1..(Len(s) - 1)
      /\ \A i \in 1..(Len(s) - 1) : Tail(s)[i] = s[i + 1]
  BY HeadTailProperties, LenProperties, EmptySeq, RangoDeLista
<1> DEFINE t == Tail(s)
           n == Len(s)
<1> HIDE DEF t, n
<1>2. SinRepetir(t, c)
  BY <1>1 DEF SinRepetir, t, n
<1>3. ASSUME c \in Range(t) PROVE c \in Range(s) /\ c # Head(s)
  <2>1. PICK i \in 1 .. n - 1 : c = t[i]
    BY <1>1, <1>3 DEF Range, t, n
  <2>2. i + 1 \in 1 .. n /\ s[i + 1] = c /\ i + 1 # 1
    BY <2>1, <1>1 DEF t, n
  <2>3. QED
    BY <2>2, <1>1 DEF Range, SinRepetir, n
<1>4. ASSUME c \in Range(s), c # Head(s) PROVE c \in Range(t)
  <2>1. PICK i \in 1 .. n : c = s[i]
    BY <1>1, <1>4 DEF Range, n
  <2>2. i # 1
    BY <2>1, <1>4, <1>1
  <2>3. i - 1 \in 1 .. n - 1 /\ t[i - 1] = c
    BY <2>1, <2>2, <1>1 DEF t, n
  <2>4. QED
    BY <2>3, <1>1 DEF Range, t, n
<1>5. QED
  BY <1>2, <1>3, <1>4 DEF t

(* list_remove of a position takes out c only if it was there.             *)
LEMMA QuitaSinRepetir ==
  ASSUME NEW S, NEW s \in Seq(S), NEW k \in 1 .. Len(s), NEW c, SinRepetir(s, c)
  PROVE  /\ SinRepetir(RemoveAt(s, k), c)
         /\ c \in Range(RemoveAt(s, k)) <=> c \in Range(s) /\ c # s[k]
<1> DEFINE t == RemoveAt(s, k)
           n == Len(s)
<1>1. n \in Nat /\ DOMAIN s = 1 .. n /\ k \in 1 .. n
  BY LenProperties
<1>2. /\ t \in Seq(S) /\ Len(t) = n - 1
      /\ \A j \in 1 .. n - 1 : t[j] = IF j < k THEN s[j] ELSE s[j + 1]
  BY QuitarPosiciones
<1> HIDE DEF t
<1>3. DOMAIN t = 1 .. n - 1
  BY <1>2, LenProperties
<1> HIDE DEF n
<1>4. SinRepetir(t, c)
  <2> DEFINE f(i) == IF i < k THEN i ELSE i + 1
  <2>1. \A i \in 1 .. n - 1 : f(i) \in 1 .. n /\ s[f(i)] = t[i]
    BY <1>1, <1>2
  <2>2. \A i, j \in 1 .. n - 1 : f(i) = f(j) => i = j
    BY <1>1
  <2> HIDE DEF f
  <2>3. QED
    BY <1>1, <1>3, <2>1, <2>2 DEF SinRepetir
<1>5. ASSUME c \in Range(t) PROVE c \in Range(s) /\ c # s[k]
  <2>1. PICK i \in 1 .. n - 1 : c = t[i]
    BY <1>3, <1>5 DEF Range
  <2>2. PICK j \in 1 .. n : j # k /\ s[j] = c
    <3>1. CASE i < k
      BY <3>1, <2>1, <1>1, <1>2
    <3>2. CASE ~(i < k)
      <4>1. i + 1 \in 1 .. n /\ i + 1 # k /\ s[i + 1] = c
        BY <3>2, <2>1, <1>1, <1>2
      <4>2. QED
        BY <4>1
    <3>3. QED
      BY <3>1, <3>2
  <2>3. QED
    BY <2>2, <1>1 DEF Range, SinRepetir
<1>6. ASSUME c \in Range(s), c # s[k] PROVE c \in Range(t)
  <2>1. PICK i \in 1 .. n : c = s[i]
    BY <1>1, <1>6 DEF Range
  <2>2. i # k
    BY <2>1, <1>6
  <2>3. PICK j \in 1 .. n - 1 : t[j] = c
    <3>1. CASE i < k
      BY <3>1, <2>1, <1>1, <1>2
    <3>2. CASE ~(i < k)
      <4>1. i - 1 \in 1 .. n - 1 /\ t[i - 1] = c
        BY <3>2, <2>1, <2>2, <1>1, <1>2
      <4>2. QED
        BY <4>1
    <3>3. QED
      BY <3>1, <3>2
  <2>4. QED
    BY <2>3, <1>3 DEF Range
<1>7. QED
  BY <1>4, <1>5, <1>6 DEF t

(* No other process that has its number has the same one.                  *)
Unico(c) == \A d \in ConNumero : d # c => id[d] # id[c]

Creados == {c \in Consolas : paso[c] = "creado"}

(* c is in one place, and once.                                            *)
EnUnSitio(c) ==
  /\ SinRepetir(nuevos, c) /\ SinRepetir(listos, c)
  /\ c \in Range(nuevos) \/ c \in Range(listos) \/ c = exec \/ c \in terminados
  /\ c \in Range(nuevos) => c \notin Range(listos) /\ c # exec /\ c \notin terminados
  /\ c \in Range(listos) => c # exec /\ c \notin terminados
  /\ c = exec => c \notin terminados

(* Only the processes that were created are anywhere, and those whose      *)
(* number is their own are in one place.                                   *)
TipoLugares ==
  /\ paso \in [Consolas -> {"espera", "id", "suma", "sumado", "creado"}]
  /\ DOMAIN id = Consolas
  /\ nuevos \in Seq(Consolas) /\ listos \in Seq(Consolas)
  /\ Range(nuevos) \subseteq Creados /\ Range(listos) \subseteq Creados
  /\ exec \in Creados \union {Ninguna} /\ terminados \subseteq Creados

InvLugares == TipoLugares /\ \A c \in Creados : Unico(c) => EnUnSitio(c)
(* Nothing is anywhere at first.                                           *)
LEMMA InicioLugares == Init => InvLugares
  BY IdentificadoresOK, RangoVacio DEF Init, InvLugares, TipoLugares, Creados

(* The process that is found has the number that was looked for.           *)
LEMMA IndiceDelNumero ==
  ASSUME TipoLugares, NEW i \in DOMAIN listos
  PROVE  /\ Indice(listos[i]) \in 1 .. Len(listos)
         /\ id[listos[Indice(listos[i])]] = id[listos[i]]
<1>1. listos \in Seq(Consolas) /\ Len(listos) \in Nat /\ i \in 1 .. Len(listos)
  BY LenProperties DEF TipoLugares
<1> DEFINE I == {j \in 1 .. Len(listos) : id[listos[j]] = id[listos[i]]}
<1>2. I \in SUBSET Nat /\ i \in I
  BY <1>1
<1>3. Indice(listos[i]) = Min(I)
  BY <1>2 DEF Indice, SelectInSeq
<1>4. Min(I) \in I
  BY <1>2, MinimoDeNaturales
<1>5. QED
  BY <1>3, <1>4

(* A number that is nobody else's was nobody else's before.                *)
LEMMA UnicoDesdeAntes ==
  ASSUME TipoLugares, [Next]_vars, NEW c \in Consolas, paso[c] = "creado", Unico(c)'
  PROVE  Unico(c)
<1>1. ASSUME NEW d \in ConNumero
      PROVE  d \in ConNumero' /\ id'[d] = id[d]
  BY <1>1 DEF TipoLugares, Next, vars, procesos, Avanza, LeeId, LeeContador,
              Escribe, Crea, Admite, Elige, Deja, ConNumero
<1>2. c \in ConNumero
  BY DEF ConNumero
<1>3. QED
  BY <1>1, <1>2 DEF Unico

(* Every step keeps each process whose number is its own in one place.     *)
LEMMA PasoLugares == InvLugares /\ [Next]_vars => InvLugares'
<1> SUFFICES ASSUME InvLugares, [Next]_vars
             PROVE  InvLugares'
  OBVIOUS
<1>0. TipoLugares
  BY DEF InvLugares
<1>u. ASSUME NEW c \in Creados, Unico(c)'
      PROVE  Unico(c) /\ EnUnSitio(c)
  BY <1>0, <1>u, UnicoDesdeAntes DEF InvLugares, Creados
<1>1. ASSUME NEW c \in Consolas, LeeId(c) \/ LeeContador(c) \/ Escribe(c)
      PROVE  InvLugares'
  <2>1. Creados' = Creados /\ UNCHANGED procesos
    BY <1>0, <1>1 DEF TipoLugares, Creados, LeeId, LeeContador, Escribe, Avanza
  <2>2. TipoLugares'
    BY <1>0, <1>1, <2>1 DEF TipoLugares, LeeId, LeeContador, Escribe, Avanza, procesos
  <2>3. \A d \in Creados' : Unico(d)' => EnUnSitio(d)'
    BY <1>u, <2>1 DEF EnUnSitio, procesos
  <2>4. QED
    BY <2>2, <2>3 DEF InvLugares
<1>2. ASSUME NEW c \in Consolas, Crea(c) PROVE InvLugares'
  <2>1. Creados' = Creados \union {c} /\ c \notin Creados
    BY <1>0, <1>2 DEF TipoLugares, Creados, Crea, Avanza
  <2>2. /\ nuevos' \in Seq(Consolas)
        /\ Range(nuevos') = Range(nuevos) \union {c}
    BY <1>0, <1>2, RangoAgrega, AppendProperties DEF TipoLugares, Crea
  <2>3. TipoLugares'
    BY <1>0, <1>2, <2>1, <2>2 DEF TipoLugares, Crea, Avanza
  <2>4. c \notin Range(nuevos) /\ c \notin Range(listos) /\ c # exec /\ c \notin terminados
    BY <1>0, <2>1, IdentificadoresOK DEF TipoLugares
  <2>5. ASSUME NEW d \in Creados', Unico(d)' PROVE EnUnSitio(d)'
    <3>1. SinRepetir(nuevos, d) /\ SinRepetir(listos, d)
      <4>1. CASE d \in Creados
        BY <4>1, <1>u, <2>5 DEF EnUnSitio
      <4>2. CASE d = c
        BY <4>2, <2>4, <1>0, RangoDeLista DEF SinRepetir, TipoLugares
      <4>3. QED
        BY <4>1, <4>2, <2>1
    <3>2. SinRepetir(nuevos', d)
      <4>1. d # c \/ d \notin Range(nuevos)
        BY <2>4
      <4>2. QED
        BY <1>0, <1>2, <3>1, <4>1, AgregaSinRepetir DEF TipoLugares, Crea
    <3>3. CASE d = c
      BY <3>1, <3>2, <3>3, <2>2, <2>4, <1>2 DEF EnUnSitio, Crea
    <3>4. CASE d # c
      <4>1. EnUnSitio(d)
        BY <3>4, <1>u, <2>1, <2>5
      <4>2. QED
        BY <4>1, <3>2, <3>4, <2>2, <1>2 DEF EnUnSitio, Crea
    <3>5. QED
      BY <3>3, <3>4
  <2>6. QED
    BY <2>3, <2>5 DEF InvLugares
<1>3. CASE Admite
  <2>1. Creados' = Creados /\ nuevos # <<>> /\ nuevos \in Seq(Consolas)
        /\ listos \in Seq(Consolas)
    BY <1>0, <1>3 DEF Creados, Admite, TipoLugares
  <2>2. PICK p : p = Head(nuevos)
    OBVIOUS
  <2>3. p \in Range(nuevos) /\ p \in Consolas
    BY <2>1, <2>2, HeadTailProperties, RangoDeLista, EmptySeq, LenProperties
  <2>4. /\ nuevos' = Tail(nuevos) /\ listos' = Append(listos, p)
        /\ nuevos' \in Seq(Consolas) /\ listos' \in Seq(Consolas)
        /\ Range(listos') = Range(listos) \union {p}
    BY <1>3, <2>1, <2>2, <2>3, HeadTailProperties, AppendProperties, RangoAgrega DEF Admite
  <2>5. Range(nuevos') \subseteq Range(nuevos)
    BY <2>1, <2>4, HeadTailProperties, LenProperties, EmptySeq DEF Range
  <2>6. TipoLugares'
    BY <1>0, <1>3, <2>1, <2>3, <2>4, <2>5 DEF TipoLugares, Admite
  <2>7. ASSUME NEW d \in Creados', Unico(d)' PROVE EnUnSitio(d)'
    <3>1. EnUnSitio(d)
      BY <1>u, <2>1, <2>7
    <3>2. /\ SinRepetir(nuevos', d)
          /\ d \in Range(nuevos') <=> d \in Range(nuevos) /\ d # p
      BY <3>1, <2>1, <2>2, <2>4, ColaSinRepetir DEF EnUnSitio
    <3>3. p # d \/ d \notin Range(listos)
      BY <3>1, <2>3 DEF EnUnSitio
    <3>4. SinRepetir(listos', d)
      BY <3>1, <3>3, <2>1, <2>3, <2>4, AgregaSinRepetir DEF EnUnSitio
    <3>5. QED
      BY <3>1, <3>2, <3>4, <2>3, <2>4, <1>3 DEF EnUnSitio, Admite
  <2>8. QED
    BY <2>6, <2>7 DEF InvLugares
<1>4. ASSUME NEW i \in DOMAIN listos, Elige(i) PROVE InvLugares'
  <2>1. Creados' = Creados /\ listos \in Seq(Consolas)
    BY <1>0, <1>4 DEF Creados, Elige, TipoLugares
  <2>2. PICK k : k = Indice(listos[i])
    OBVIOUS
  <2>3. k \in 1 .. Len(listos) /\ id[listos[k]] = id[listos[i]]
    BY <1>0, <2>2, IndiceDelNumero
  <2>4. listos[i] \in Range(listos) /\ listos[k] \in Range(listos)
    BY <2>1, <2>3, RangoDeLista
  <2>5. /\ exec = Ninguna /\ exec' = listos[i] /\ listos' = RemoveAt(listos, k)
        /\ listos' \in Seq(Consolas)
    BY <1>4, <2>1, <2>2, <2>3, QuitarPosiciones DEF Elige
  <2>6. Range(listos') \subseteq Range(listos)
    <3>1. /\ Len(listos') = Len(listos) - 1 /\ Len(listos) \in Nat
          /\ DOMAIN listos' = 1 .. Len(listos') /\ DOMAIN listos = 1 .. Len(listos)
          /\ \A j \in 1 .. Len(listos) - 1 :
               listos'[j] = IF j < k THEN listos[j] ELSE listos[j + 1]
      BY <2>1, <2>3, <2>5, QuitarPosiciones, LenProperties
    <3>2. QED
      BY <3>1 DEF Range
  <2>7. TipoLugares'
    BY <1>0, <1>4, <2>1, <2>4, <2>5, <2>6 DEF TipoLugares, Elige
  <2>8. ASSUME NEW d \in Creados', Unico(d)' PROVE EnUnSitio(d)'
    <3>1. EnUnSitio(d) /\ Unico(d) /\ d # Ninguna
      BY <1>u, <2>1, <2>8, IdentificadoresOK DEF Creados
    <3>2. /\ SinRepetir(listos', d)
          /\ d \in Range(listos') <=> d \in Range(listos) /\ d # listos[k]
      BY <3>1, <2>1, <2>3, <2>5, QuitaSinRepetir DEF EnUnSitio
    <3>3. d = listos[k] <=> d = listos[i]
      <4>1. listos[i] \in ConNumero /\ listos[k] \in ConNumero
        BY <1>0, <2>4 DEF TipoLugares, Creados, ConNumero
      <4>2. QED
        BY <4>1, <3>1, <2>3 DEF Unico
    <3>4. QED
      BY <3>1, <3>2, <3>3, <2>4, <2>5, <1>4 DEF EnUnSitio, Elige
  <2>9. QED
    BY <2>7, <2>8 DEF InvLugares
<1>5. CASE Deja
  <2>1. Creados' = Creados /\ listos \in Seq(Consolas) /\ exec \in Consolas
        /\ exec \in Creados /\ exec' = Ninguna /\ nuevos' = nuevos
    BY <1>0, <1>5 DEF Creados, Deja, TipoLugares
  <2>2. CASE listos' = Append(listos, exec) /\ UNCHANGED terminados
    <3>1. listos' \in Seq(Consolas) /\ Range(listos') = Range(listos) \union {exec}
      BY <2>1, <2>2, AppendProperties, RangoAgrega
    <3>2. TipoLugares'
      BY <1>0, <1>5, <2>1, <2>2, <3>1 DEF TipoLugares, Deja
    <3>3. ASSUME NEW d \in Creados', Unico(d)' PROVE EnUnSitio(d)'
      <4>1. EnUnSitio(d) /\ d # Ninguna
        BY <1>u, <2>1, <3>3, IdentificadoresOK DEF Creados
      <4>2. exec # d \/ d \notin Range(listos)
        BY <4>1 DEF EnUnSitio
      <4>3. SinRepetir(listos', d)
        BY <4>1, <4>2, <2>1, <2>2, AgregaSinRepetir DEF EnUnSitio
      <4>4. QED
        BY <4>1, <4>3, <3>1, <2>1, <2>2 DEF EnUnSitio
    <3>4. QED
      BY <3>2, <3>3 DEF InvLugares
  <2>3. CASE terminados' = terminados \union {exec} /\ UNCHANGED listos
    <3>1. TipoLugares'
      BY <1>0, <1>5, <2>1, <2>3 DEF TipoLugares, Deja
    <3>2. ASSUME NEW d \in Creados', Unico(d)' PROVE EnUnSitio(d)'
      <4>1. EnUnSitio(d) /\ d # Ninguna
        BY <1>u, <2>1, <3>2, IdentificadoresOK DEF Creados
      <4>2. QED
        BY <4>1, <2>1, <2>3 DEF EnUnSitio
    <3>3. QED
      BY <3>1, <3>2 DEF InvLugares
  <2>4. QED
    BY <1>5, <2>2, <2>3 DEF Deja
<1>6. CASE UNCHANGED vars
  <2>1. TipoLugares'
    BY <1>0, <1>6 DEF TipoLugares, vars, procesos, Creados
  <2>2. \A d \in Creados' : Unico(d)' => EnUnSitio(d)'
    BY <1>6, <1>u DEF vars, procesos, Creados, EnUnSitio
  <2>3. QED
    BY <2>1, <2>2 DEF InvLugares
<1>7. QED
  BY <1>1, <1>2, <1>3, <1>4, <1>5, <1>6 DEF Next, Elige

(* One place is one.                                                       *)
LEMMA LugaresDeUno ==
  ASSUME InvLugares, NEW c \in Creados, Unico(c)
  PROVE  Cardinality(Lugares(c)) = 1
<1>1. EnUnSitio(c) /\ c # Ninguna
  BY IdentificadoresOK DEF InvLugares, Creados
<1>2. \E l : Lugares(c) = {l}
  <2>1. CASE c \in Range(nuevos)
    <3>1. PICK i \in DOMAIN nuevos : nuevos[i] = c
      BY <2>1 DEF Range
    <3>2. Lugares(c) = {<<"nuevos", i>>}
      BY <1>1, <2>1, <3>1 DEF Lugares, EnUnSitio, SinRepetir, Range
    <3>3. QED
      BY <3>2
  <2>2. CASE c \in Range(listos)
    <3>1. PICK i \in DOMAIN listos : listos[i] = c
      BY <2>2 DEF Range
    <3>2. Lugares(c) = {<<"listos", i>>}
      BY <1>1, <2>2, <3>1 DEF Lugares, EnUnSitio, SinRepetir, Range
    <3>3. QED
      BY <3>2
  <2>3. CASE c = exec
    <3>1. Lugares(c) = {<<"exec", 1>>}
      BY <1>1, <2>3 DEF Lugares, EnUnSitio, Range
    <3>2. QED
      BY <3>1
  <2>4. CASE c \in terminados
    <3>1. Lugares(c) = {<<"terminados", 1>>}
      BY <1>1, <2>4 DEF Lugares, EnUnSitio, Range
    <3>2. QED
      BY <3>1
  <2>5. QED
    BY <1>1, <2>1, <2>2, <2>3, <2>4 DEF EnUnSitio
<1>3. QED
  BY <1>2, FS_Singleton

(* A process whose number is its own is never lost nor duplicated by the   *)
(* removal by number of HRRN, even while others repeat theirs.             *)
THEOREM UnLugar == Spec => []UnLugarSiEsUnico
<1>1. InvLugares => UnLugarSiEsUnico
  BY LugaresDeUno DEF UnLugarSiEsUnico, Creados, Unico
<1>2. QED
  BY InicioLugares, PasoLugares, <1>1, PTL DEF Spec
=============================================================================
