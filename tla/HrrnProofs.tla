----------------------------- MODULE HrrnProofs -----------------------------
(***************************************************************************)
(* Whoever the dispatcher compares has the mark it should have, and        *)
(* nobody is overtaken by a longer burst that came later, for any number   *)
(* of processes, of bursts and of seconds.                                 *)
(***************************************************************************)
EXTENDS Hrrn, LemasListas, TLAPS

-----------------------------------------------------------------------------
(* The calls the eviction thread has to come, by what they imply.          *)

(* The process is still in the thread's hands and goes back to the CPU.    *)
PorCorrer == {<<"corre">>, <<"sigue">>, <<"sigue", "despierta", "listo">>}

(* It will enter READY, and be marked then or not.                         *)
PorAgregarYMarcar == {<<"agrega", "marca", "cpu", "listo">>,
                      <<"pausa", "agrega", "marca", "cpu", "listo">>}
PorAgregar == {<<"pausa", "agrega", "listo", "cpu">>, <<"agrega", "listo", "cpu">>,
               <<"cpu", "pausa", "agrega", "listo">>,
               <<"pausa", "agrega", "listo">>, <<"agrega", "listo">>}
EnMano == PorCorrer \union PorAgregarYMarcar \union PorAgregar

(* It entered READY and its mark is to come.                               *)
PorMarcar == <<"marca", "cpu", "listo">>

(* A process entered READY and the dispatcher does not know yet.           *)
PorAvisar == {PorMarcar, <<"cpu", "listo">>, <<"listo", "cpu">>, <<"listo">>}

(* The first of the queue of the resource will enter READY.                *)
PorDespertar == {<<"sigue", "despierta", "listo">>, <<"despierta", "listo">>}

(* The CPU is this thread's, or is not.                                    *)
ConCpu == PorCorrer \union PorAgregarYMarcar
            \union {<<"pausa", "agrega", "listo", "cpu">>, <<"agrega", "listo", "cpu">>,
                    <<"cpu", "pausa", "agrega", "listo">>,
                    PorMarcar, <<"cpu", "listo">>, <<"listo", "cpu">>, <<"cpu">>}
SinCpu == {<<"pausa", "agrega", "listo">>, <<"agrega", "listo">>, <<"listo">>,
           <<"despierta", "listo">>, <<>>}
Conocidos == ConCpu \union SinCpu

-----------------------------------------------------------------------------
(* The invariant.                                                          *)

TipoHrrn ==
  /\ ahora \in Nat \ {0}
  /\ listos \in Seq(Procesos) /\ cola \in Seq(Procesos)
  /\ marca \in [Procesos -> Nat] /\ \A p \in Procesos : marca[p] <= ahora
  /\ estimacion \in [Procesos -> Nat]
  /\ porMarcar \in Procesos \union {Ninguno} /\ exec \in Procesos \union {Ninguno}
  /\ pasos \in Conocidos /\ (pasos # <<>> => pcb \in Procesos)
  /\ inicio \in Nat /\ inicio <= ahora
  /\ semCpu \in Nat /\ semListo \in Nat
  /\ dispatcher \in {"cpu", "listo", "elige"}
  /\ vigente \subseteq Procesos /\ sinMarca \subseteq Procesos
  /\ delante \in [Procesos -> SUBSET Procesos]

Uno(condicion) == IF condicion THEN 1 ELSE 0

(* There is one CPU: in the semaphore, with the dispatcher, in EXEC or     *)
(* with the eviction thread.                                               *)
UnaCpu ==
  semCpu + Uno(dispatcher # "cpu") + Uno(exec # Ninguno) + Uno(pasos \in ConCpu) = 1

(* Every process of READY was announced, will be, or is being chosen.      *)
ListosAvisados ==
  Len(listos) = semListo + Uno(dispatcher = "elige") + Uno(pasos \in PorAvisar)

Colocado(p) == p \in Range(listos) \/ p \in Range(cola)

(* No process is in two places, and one that was never marked is in none.  *)
CadaUnoEnSuLugar ==
  /\ IsInjective(listos) /\ IsInjective(cola)
  /\ Range(listos) \intersect Range(cola) = {}
  /\ ~Colocado(exec) /\ ~Colocado(porMarcar)
  /\ exec # Ninguno => exec # porMarcar
  /\ pasos \in EnMano => ~Colocado(pcb) /\ pcb # exec /\ pcb # porMarcar
  /\ pasos \in PorDespertar => cola # <<>>
  /\ \A p \in Procesos : marca[p] = 0 =>
       /\ ~Colocado(p) /\ p # exec /\ p # porMarcar
       /\ ~(pasos \in EnMano /\ p = pcb)

(* The mark is of this stay, or is not to be expected, or is to come.      *)
Marcados ==
  /\ Range(listos) \subseteq vigente \union sinMarca
                             \union (IF pasos = PorMarcar THEN {pcb} ELSE {})
  /\ Range(cola) \subseteq sinMarca
  /\ pasos \in PorAgregar => pcb \in sinMarca
  /\ porMarcar # Ninguno => porMarcar \in vigente

InvMarcas == TipoHrrn /\ UnaCpu /\ ListosAvisados /\ CadaUnoEnSuLugar /\ Marcados

(* Those that were settled when p began to enter are before it in READY    *)
(* and were marked before it.                                              *)
Precede(q, p) == \A i, j \in DOMAIN listos : listos[i] = q /\ listos[j] = p => i < j

EnOrdenDeLlegada ==
  /\ vigente \subseteq Range(listos) \union {porMarcar}
  /\ \A p \in Range(listos) \union ({porMarcar} \ {Ninguno}) :
       \A q \in delante[p] :
         /\ q \in Range(listos) /\ Precede(q, p)
         /\ ~(pasos = PorMarcar /\ q = pcb)
         /\ p \in vigente => marca[q] <= marca[p]

InvHrrn == InvMarcas /\ EnOrdenDeLlegada
-----------------------------------------------------------------------------
(* The greatest of READY: the fold that MaximoPorR is, unrolled.           *)

(* What the turn for q leaves when m was the greatest so far.              *)
Mayor(q, m) == IF Supera(q, m) THEN q ELSE m

(* The function the fold iterates on, over the sets of positions.          *)
Iteracion(it, h, t, n) ==
  it = [s \in SUBSET (1 .. n) |->
          IF s = {} THEN h ELSE Mayor(t[Max(s)], it[s \ {Max(s)}])]

(* There is such a function for every length: one more position only adds  *)
(* the sets in which it is the last.                                       *)
LEMMA IteracionExiste ==
  ASSUME NEW h, NEW t, NEW n \in Nat
  PROVE  \E it : Iteracion(it, h, t, n)
<1> DEFINE T == {k \in Nat : ~ \E it : Iteracion(it, h, t, k)}
<1>1. SUFFICES ASSUME T # {} PROVE FALSE
  OBVIOUS
<1>2. PICK k \in T : \A x \in T : k <= x
  BY <1>1, Primero
<1>3. CASE k = 0
  <2> DEFINE f == [s \in SUBSET (1 .. 0) |-> h]
  <2>1. SUBSET (1 .. 0) = {{}}
    OBVIOUS
  <2>2. Iteracion(f, h, t, 0)
    BY <2>1 DEF Iteracion
  <2>3. QED
    BY <1>2, <1>3, <2>2
<1>4. CASE k # 0
  <2>1. k \in Nat /\ k - 1 \in Nat /\ k - 1 \notin T
    BY <1>2, <1>4
  <2>2. PICK f : Iteracion(f, h, t, k - 1)
    BY <2>1
  <2> DEFINE G(s) == IF k \in s THEN Mayor(t[k], f[s \ {k}]) ELSE f[s]
             g == [s \in SUBSET (1 .. k) |-> G(s)]
  <2>3. ASSUME NEW s \in SUBSET (1 .. k)
        PROVE  G(s) = IF s = {} THEN h ELSE Mayor(t[Max(s)], g[s \ {Max(s)}])
    <3>1. CASE s = {}
      <4>1. s \in SUBSET (1 .. k - 1)
        BY <3>1
      <4>2. QED
        BY <2>2, <3>1, <4>1 DEF Iteracion
    <3>2. CASE k \in s
      <4>1. Max(s) = k
        <5>1. Max(s) \in s /\ k <= Max(s)
          BY <2>1, <3>2, MaximoAcotado
        <5>2. Max(s) \in 1 .. k
          BY <5>1
        <5>3. QED
          BY <2>1, <5>1, <5>2
      <4>2. s \ {k} \in SUBSET (1 .. k) /\ k \notin s \ {k}
        OBVIOUS
      <4>3. g[s \ {k}] = f[s \ {k}]
        BY <4>2
      <4>4. QED
        BY <3>2, <4>1, <4>3
    <3>3. CASE s # {} /\ k \notin s
      <4>1. s \in SUBSET (1 .. k - 1)
        BY <2>1, <3>3
      <4>2. f[s] = Mayor(t[Max(s)], f[s \ {Max(s)}])
        BY <2>2, <3>3, <4>1 DEF Iteracion
      <4>3. g[s \ {Max(s)}] = f[s \ {Max(s)}]
        BY <3>3
      <4>4. QED
        BY <3>3, <4>2, <4>3
    <3>4. QED
      BY <3>1, <3>2, <3>3
  <2>4. g = [s \in SUBSET (1 .. k) |->
               IF s = {} THEN h ELSE Mayor(t[Max(s)], g[s \ {Max(s)}])]
    BY <2>3
  <2>5. QED
    BY <1>2, <2>4 DEF Iteracion
<1>5. QED
  BY <1>3, <1>4

(* p has a response ratio at least that of q, and a greater one unless     *)
(* neither q's wait nor its estimate is anything.                          *)
NoMenor(p, q) == Espera(p) * estimacion[q] >= Espera(q) * estimacion[p]
Gana(p, q) == Supera(p, q) \/ (estimacion[q] = 0 /\ Espera(q) = 0 /\ Espera(p) > 0)

(* The products that stand for the comparison of two quotients.            *)
LEMMA Productos ==
  ASSUME NEW wp \in Nat, NEW wm \in Nat, NEW wq \in Nat,
         NEW ep \in Nat, NEW em \in Nat, NEW eq \in Nat,
         wp * em > wm * ep, wm * eq >= wq * em
  PROVE  /\ wp * eq >= wq * ep
         /\ wp * eq > wq * ep \/ (eq = 0 /\ wq = 0 /\ wp > 0)
<1>1. em > 0 /\ wp > 0
  OBVIOUS
<1>2. (wp * em) * eq >= (wm * ep) * eq
  OBVIOUS
<1>3. (wm * eq) * ep >= (wq * em) * ep
  OBVIOUS
<1>4. em * (wp * eq) >= em * (wq * ep)
  BY <1>2, <1>3
<1>5. wp * eq >= wq * ep
  BY <1>1, <1>4
<1>6. CASE eq = 0
  <2>1. wq * em = 0
    BY <1>6
  <2>2. wq = 0
    BY <1>1, <2>1
  <2>3. QED
    BY <1>1, <1>5, <1>6, <2>2
<1>7. CASE eq > 0
  <2>1. (wp * em) * eq > (wm * ep) * eq
    BY <1>7
  <2>2. em * (wp * eq) > em * (wq * ep)
    BY <2>1, <1>3
  <2>3. wp * eq > wq * ep
    BY <1>1, <2>2
  <2>4. QED
    BY <1>5, <2>3
<1>8. QED
  BY <1>6, <1>7

(* Nobody waits less than nothing.                                         *)
LEMMA EsperaNatural ==
  ASSUME TipoHrrn, NEW p \in Procesos
  PROVE  Espera(p) \in Nat /\ estimacion[p] \in Nat
<1>1. /\ ahora \in Nat /\ marca[p] \in Nat /\ marca[p] <= ahora
      /\ estimacion[p] \in Nat
  BY DEF TipoHrrn
<1>2. QED
  BY <1>1 DEF Espera

(* Who overtakes the greatest so far is not less than anyone the greatest  *)
(* was not less than.                                                      *)
LEMMA SuperaAlMayor ==
  ASSUME TipoHrrn, NEW p \in Procesos, NEW m \in Procesos, NEW q \in Procesos,
         Supera(p, m), NoMenor(m, q)
  PROVE  NoMenor(p, q) /\ Gana(p, q)
<1>1. /\ Espera(p) \in Nat /\ Espera(m) \in Nat /\ Espera(q) \in Nat
      /\ estimacion[p] \in Nat /\ estimacion[m] \in Nat /\ estimacion[q] \in Nat
  BY EsperaNatural
<1>2. QED
  BY <1>1, Productos DEF Supera, NoMenor, Gana

(* The one that is chosen is in READY, and wins over all those before it.  *)
LEMMA MaximoBien ==
  ASSUME TipoHrrn, listos # <<>>
  PROVE  \E j \in 1 .. Len(listos) :
           /\ MaximoPorR = listos[j]
           /\ \A i \in 1 .. j - 1 : Gana(listos[j], listos[i])
<1> DEFINE t == Tail(listos)
           h == Head(listos)
           n == Len(listos) - 1
<1>1. /\ n \in Nat /\ DOMAIN t = 1 .. n /\ h = listos[1]
      /\ \A k \in 1 .. n : t[k] = listos[k + 1]
      /\ \A k \in 1 .. n + 1 : listos[k] \in Procesos
  BY HeadTailProperties, LenProperties, EmptySeq, ElementOfSeq DEF TipoHrrn
<1> DEFINE f == CHOOSE it : Iteracion(it, h, t, n)
<1>2. MaximoPorR = f[1 .. n]
  BY <1>1 DEF MaximoPorR, FoldLeft, MapThenFoldSet, Iteracion, Mayor
<1>3. Iteracion(f, h, t, n)
  BY <1>1, IteracionExiste
<1> HIDE DEF t, h, n, f
<1>4. f[1 .. 0] = h
  BY <1>3, <1>1 DEF Iteracion
<1>5. ASSUME NEW k \in 1 .. n PROVE f[1 .. k] = Mayor(t[k], f[1 .. k - 1])
  <2>0. k \in 1 .. k
    BY <1>1
  <2>1. 1 .. k \in SUBSET (1 .. n) /\ 1 .. k # {}
    <3>1. \A x \in 1 .. k : x \in 1 .. n
      BY <1>1
    <3>2. QED
      BY <3>1, <2>0
  <2>2. Max(1 .. k) = k
    <3>1. Max(1 .. k) \in 1 .. k /\ k <= Max(1 .. k)
      BY <2>0, <2>1, <1>1, MaximoAcotado
    <3>2. QED
      BY <3>1, <1>1
  <2>3. (1 .. k) \ {k} = 1 .. k - 1
    BY <1>1
  <2>4. QED
    BY <1>3, <2>1, <2>2, <2>3 DEF Iteracion
<1> DEFINE Bien(k, j) ==
             /\ f[1 .. k] = listos[j]
             /\ \A i \in 1 .. k + 1 : NoMenor(listos[j], listos[i])
             /\ \A i \in 1 .. j - 1 : Gana(listos[j], listos[i])
           T == {k \in 0 .. n : ~ \E j \in 1 .. k + 1 : Bien(k, j)}
<1>6. \A p \in Procesos : NoMenor(p, p)
  <2>1. \A p \in Procesos : Espera(p) \in Nat /\ estimacion[p] \in Nat
    BY EsperaNatural
  <2>2. QED
    BY <2>1 DEF NoMenor
<1>7. T = {}
  <2>1. SUFFICES ASSUME T # {} PROVE FALSE
    OBVIOUS
  <2>a. T \in SUBSET Nat
    BY <1>1
  <2>2. PICK k \in T : \A x \in T : k <= x
    <3> HIDE DEF T
    <3>1. QED
      BY <2>1, <2>a, Primero
  <2>3. CASE k = 0
    <3>1. Bien(0, 1)
      BY <1>1, <1>4, <1>6
    <3>2. QED
      BY <2>2, <2>3, <3>1
  <2>4. CASE k # 0
    <3>0. k \in 0 .. n
      BY <2>2
    <3>1. k \in 1 .. n /\ k - 1 \in 0 .. n /\ k - 1 \notin T
      <4> HIDE DEF T
      <4>1. QED
        BY <3>0, <2>2, <2>4, <1>1
    <3>2. PICK j \in 1 .. k : Bien(k - 1, j)
      BY <3>1, <1>1
    <3>3. f[1 .. k] = Mayor(listos[k + 1], listos[j])
      BY <3>1, <3>2, <1>5, <1>1
    <3>4. listos[j] \in Procesos /\ listos[k + 1] \in Procesos
      BY <3>1, <1>1
    <3>5. CASE Supera(listos[k + 1], listos[j])
      <4>1. \A i \in 1 .. k : NoMenor(listos[k + 1], listos[i])
                              /\ Gana(listos[k + 1], listos[i])
        <5> SUFFICES ASSUME NEW i \in 1 .. k
                     PROVE  NoMenor(listos[k + 1], listos[i]) /\ Gana(listos[k + 1], listos[i])
          OBVIOUS
        <5>1. NoMenor(listos[j], listos[i]) /\ listos[i] \in Procesos
          BY <3>1, <3>2, <1>1
        <5>2. QED
          BY <5>1, <3>4, <3>5, SuperaAlMayor
      <4>2. Bien(k, k + 1)
        BY <4>1, <3>1, <3>3, <3>4, <3>5, <1>1, <1>6 DEF Mayor
      <4>3. QED
        BY <2>2, <4>2, <1>1
    <3>6. CASE ~Supera(listos[k + 1], listos[j])
      <4>1. NoMenor(listos[j], listos[k + 1])
        <5>1. /\ Espera(listos[j]) \in Nat /\ estimacion[listos[j]] \in Nat
              /\ Espera(listos[k + 1]) \in Nat /\ estimacion[listos[k + 1]] \in Nat
          BY <3>4, EsperaNatural
        <5>2. QED
          BY <5>1, <3>6 DEF Supera, NoMenor
      <4>2. Bien(k, j)
        BY <4>1, <3>1, <3>2, <3>3, <3>6 DEF Mayor
      <4>3. QED
        BY <2>2, <4>2, <3>1
    <3>7. QED
      BY <3>5, <3>6
  <2>5. QED
    BY <2>3, <2>4
<1>8. n \in 0 .. n
  BY <1>1
<1>9. PICK j \in 1 .. n + 1 : Bien(n, j)
  BY <1>7, <1>8
<1>10. QED
  BY <1>2, <1>9, <1>1 DEF n

(* list_remove of the process with that number takes out the one that is   *)
(* there.                                                                  *)
LEMMA QuitaAlElegido ==
  ASSUME TipoHrrn, NEW p \in Range(listos)
  PROVE  \E k \in 1 .. Len(listos) :
           listos[k] = p /\ RemoveFirst(listos, p) = RemoveAt(listos, k)
<1>1. listos \in Seq(Procesos) /\ Len(listos) \in Nat /\ DOMAIN listos = 1 .. Len(listos)
  BY LenProperties DEF TipoHrrn
<1> DEFINE I == {i \in 1 .. Len(listos) : listos[i] = p}
<1>2. I \in SUBSET Nat /\ I # {}
  BY <1>1 DEF Range
<1>3. RemoveFirst(listos, p) = RemoveAt(listos, Min(I))
  BY <1>2 DEF RemoveFirst, SelectInSeq
<1>4. Min(I) \in I
  BY <1>2, MinimoDeNaturales
<1>5. QED
  BY <1>3, <1>4
-----------------------------------------------------------------------------
(* What each call of the eviction thread is preceded and followed by.      *)

(* Who is settled: everyone in READY but the one whose mark is to come.    *)
LEMMA AsentadosSon ==
  ASSUME pasos \in Conocidos
  PROVE  Asentados = Range(listos) \ (IF pasos = PorMarcar THEN {pcb} ELSE {})
<1>1. pasos = <<>> => Head(pasos \o <<"nada">>) = "nada"
  OBVIOUS
<1> DEFINE S == {"corre", "sigue", "despierta", "listo", "pausa", "agrega", "marca", "cpu", "nada"}
<1>2. pasos # <<>> => Head(pasos \o <<"nada">>) = Head(pasos)
  <2>1. pasos \in Seq(S)
    <3>1. ConCpu \subseteq Seq(S)
      BY DEF ConCpu, PorCorrer, PorAgregarYMarcar, PorMarcar
    <3>2. SinCpu \subseteq Seq(S)
      BY DEF SinCpu
    <3>3. QED
      BY <3>1, <3>2 DEF Conocidos
  <2>2. <<"nada">> \in Seq(S) /\ Len(<<"nada">>) = 1
    OBVIOUS
  <2>3. ASSUME pasos # <<>> PROVE Head(pasos \o <<"nada">>) = Head(pasos)
    <3>1. Len(pasos) >= 1 /\ Len(pasos) \in Nat
      BY <2>1, <2>3, EmptySeq, LenProperties
    <3>2. /\ pasos \o <<"nada">> \in Seq(S)
          /\ Len(pasos \o <<"nada">>) = Len(pasos) + 1
          /\ (pasos \o <<"nada">>)[1] = pasos[1]
      BY <2>1, <2>2, <3>1, ConcatProperties
    <3>3. pasos \o <<"nada">> # <<>>
      BY <3>1, <3>2, EmptySeq
    <3>4. QED
      BY <2>1, <2>3, <3>2, <3>3, HeadTailProperties
  <2>4. QED
    BY <2>1, <2>3
<1>3. Head(PorMarcar) = "marca" /\ PorMarcar # <<>>
  BY DEF PorMarcar
<1>4. pasos # <<>> /\ pasos # PorMarcar => Head(pasos) # "marca"
  BY DEF Conocidos, ConCpu, SinCpu, PorCorrer, PorAgregarYMarcar, PorMarcar
<1>5. QED
  BY <1>1, <1>2, <1>3, <1>4 DEF Asentados

(* list_add in the eviction thread: "listo" is to come, and the mark too   *)
(* unless the return is one that writes none.                              *)
LEMMA DaAgrega ==
  ASSUME pasos \in Conocidos, Da("agrega")
  PROVE  /\ pasos' \in Conocidos /\ (pasos' \in ConCpu <=> pasos \in ConCpu)
         /\ pasos # <<>> /\ pasos \in EnMano /\ pasos' \notin EnMano
         /\ pasos \notin PorAvisar /\ pasos' \in PorAvisar
         /\ pasos' \notin PorDespertar /\ pasos' \notin PorAgregar
         /\ pasos # PorMarcar /\ (pasos' = PorMarcar \/ pasos \in PorAgregar)
<1>1. pasos \in {<<"agrega", "marca", "cpu", "listo">>, <<"agrega", "listo", "cpu">>,
                 <<"agrega", "listo">>}
  BY DEF Da, Conocidos, ConCpu, SinCpu, PorCorrer, PorAgregarYMarcar, PorMarcar
<1>2. /\ Tail(<<"agrega", "marca", "cpu", "listo">>) = PorMarcar
      /\ Tail(<<"agrega", "listo", "cpu">>) = <<"listo", "cpu">>
      /\ Tail(<<"agrega", "listo">>) = <<"listo">>
  BY DEF PorMarcar
<1>3. pasos' = Tail(pasos)
  BY DEF Da
<1>4. CASE pasos = <<"agrega", "marca", "cpu", "listo">>
  BY <1>2, <1>3, <1>4 DEF Conocidos, ConCpu, SinCpu, EnMano, PorCorrer, PorAgregarYMarcar,
     PorAgregar, PorMarcar, PorAvisar, PorDespertar
<1>5. CASE pasos = <<"agrega", "listo", "cpu">>
  BY <1>2, <1>3, <1>5 DEF Conocidos, ConCpu, SinCpu, EnMano, PorCorrer, PorAgregarYMarcar,
     PorAgregar, PorMarcar, PorAvisar, PorDespertar
<1>6. CASE pasos = <<"agrega", "listo">>
  BY <1>2, <1>3, <1>6 DEF Conocidos, ConCpu, SinCpu, EnMano, PorCorrer, PorAgregarYMarcar,
     PorAgregar, PorMarcar, PorAvisar, PorDespertar
<1>7. QED
  BY <1>1, <1>4, <1>5, <1>6

(* The write of the mark: the CPU and "listo" are to come.                 *)
LEMMA DaMarca ==
  ASSUME pasos \in Conocidos, Da("marca")
  PROVE  /\ pasos' \in Conocidos /\ pasos' \in ConCpu /\ pasos \in ConCpu
         /\ pasos # <<>> /\ pasos \notin EnMano /\ pasos' \notin EnMano
         /\ pasos \in PorAvisar /\ pasos' \in PorAvisar
         /\ pasos' \notin PorDespertar /\ pasos' \notin PorAgregar
         /\ pasos = PorMarcar /\ pasos' # PorMarcar
<1>1. pasos = PorMarcar
  BY DEF Da, Conocidos, ConCpu, SinCpu, PorCorrer, PorAgregarYMarcar, PorMarcar
<1>2. pasos' = <<"cpu", "listo">>
  BY <1>1 DEF Da, PorMarcar
<1>3. QED
  BY <1>1, <1>2 DEF Conocidos, ConCpu, SinCpu, EnMano, PorCorrer, PorAgregarYMarcar,
     PorAgregar, PorMarcar, PorAvisar, PorDespertar

(* The list_add of who was waiting for the resource.                       *)
LEMMA DaDespierta ==
  ASSUME pasos \in Conocidos, Da("despierta")
  PROVE  /\ pasos' \in Conocidos /\ pasos' \notin ConCpu /\ pasos \notin ConCpu
         /\ pasos # <<>> /\ pasos \notin EnMano /\ pasos' \notin EnMano
         /\ pasos \notin PorAvisar /\ pasos' \in PorAvisar
         /\ pasos \in PorDespertar /\ pasos' \notin PorDespertar
         /\ pasos' \notin PorAgregar
         /\ pasos # PorMarcar /\ pasos' # PorMarcar
<1>1. pasos = <<"despierta", "listo">>
  BY DEF Da, Conocidos, ConCpu, SinCpu, PorCorrer, PorAgregarYMarcar, PorMarcar
<1>2. pasos' = <<"listo">>
  BY <1>1 DEF Da
<1>3. QED
  BY <1>1, <1>2 DEF Conocidos, ConCpu, SinCpu, EnMano, PorCorrer, PorAgregarYMarcar,
     PorAgregar, PorMarcar, PorAvisar, PorDespertar

(* The process goes back to EXEC, and with it the CPU.                     *)
LEMMA DaSigue ==
  ASSUME pasos \in Conocidos, Da("sigue")
  PROVE  /\ pasos' \in Conocidos /\ pasos' \notin ConCpu /\ pasos \in ConCpu
         /\ pasos # <<>> /\ pasos \in EnMano /\ pasos' \notin EnMano
         /\ pasos \notin PorAvisar /\ pasos' \notin PorAvisar
         /\ (pasos' \in PorDespertar => pasos \in PorDespertar)
         /\ pasos' \notin PorAgregar
         /\ pasos # PorMarcar /\ pasos' # PorMarcar
<1>1. pasos \in {<<"sigue">>, <<"sigue", "despierta", "listo">>}
  BY DEF Da, Conocidos, ConCpu, SinCpu, PorCorrer, PorAgregarYMarcar, PorMarcar
<1>2. /\ Tail(<<"sigue">>) = <<>>
      /\ Tail(<<"sigue", "despierta", "listo">>) = <<"despierta", "listo">>
  OBVIOUS
<1>3. pasos' = Tail(pasos)
  BY DEF Da
<1>4. CASE pasos = <<"sigue">>
  BY <1>2, <1>3, <1>4 DEF Conocidos, ConCpu, SinCpu, EnMano, PorCorrer, PorAgregarYMarcar,
     PorAgregar, PorMarcar, PorAvisar, PorDespertar
<1>5. CASE pasos = <<"sigue", "despierta", "listo">>
  BY <1>2, <1>3, <1>5 DEF Conocidos, ConCpu, SinCpu, EnMano, PorCorrer, PorAgregarYMarcar,
     PorAgregar, PorMarcar, PorAvisar, PorDespertar
<1>6. QED
  BY <1>1, <1>4, <1>5

(* sem_post of the CPU.                                                    *)
LEMMA DaCpu ==
  ASSUME pasos \in Conocidos, Da("cpu")
  PROVE  /\ pasos' \in Conocidos /\ pasos' \notin ConCpu /\ pasos \in ConCpu
         /\ pasos # <<>> /\ (pasos' \in EnMano => pasos \in EnMano)
         /\ (pasos' \in PorAvisar <=> pasos \in PorAvisar)
         /\ pasos' \notin PorDespertar /\ (pasos' \in PorAgregar => pasos \in PorAgregar)
         /\ pasos # PorMarcar /\ pasos' # PorMarcar
<1>1. pasos \in {<<"cpu">>, <<"cpu", "listo">>, <<"cpu", "pausa", "agrega", "listo">>}
  BY DEF Da, Conocidos, ConCpu, SinCpu, PorCorrer, PorAgregarYMarcar, PorMarcar
<1>2. /\ Tail(<<"cpu">>) = <<>> /\ Tail(<<"cpu", "listo">>) = <<"listo">>
      /\ Tail(<<"cpu", "pausa", "agrega", "listo">>) = <<"pausa", "agrega", "listo">>
  OBVIOUS
<1>3. pasos' = Tail(pasos)
  BY DEF Da
<1>4. CASE pasos = <<"cpu">>
  BY <1>2, <1>3, <1>4 DEF Conocidos, ConCpu, SinCpu, EnMano, PorCorrer, PorAgregarYMarcar,
     PorAgregar, PorMarcar, PorAvisar, PorDespertar
<1>5. CASE pasos = <<"cpu", "listo">>
  BY <1>2, <1>3, <1>5 DEF Conocidos, ConCpu, SinCpu, EnMano, PorCorrer, PorAgregarYMarcar,
     PorAgregar, PorMarcar, PorAvisar, PorDespertar
<1>6. CASE pasos = <<"cpu", "pausa", "agrega", "listo">>
  BY <1>2, <1>3, <1>6 DEF Conocidos, ConCpu, SinCpu, EnMano, PorCorrer, PorAgregarYMarcar,
     PorAgregar, PorMarcar, PorAvisar, PorDespertar
<1>7. QED
  BY <1>1, <1>4, <1>5, <1>6

(* sem_post of READY.                                                      *)
LEMMA DaListo ==
  ASSUME pasos \in Conocidos, Da("listo")
  PROVE  /\ pasos' \in Conocidos /\ (pasos' \in ConCpu <=> pasos \in ConCpu)
         /\ pasos # <<>> /\ pasos' \notin EnMano
         /\ pasos' \notin PorAvisar /\ pasos \in PorAvisar
         /\ pasos' \notin PorDespertar /\ pasos' \notin PorAgregar
         /\ pasos # PorMarcar /\ pasos' # PorMarcar
<1>1. pasos \in {<<"listo">>, <<"listo", "cpu">>}
  BY DEF Da, Conocidos, ConCpu, SinCpu, PorCorrer, PorAgregarYMarcar, PorMarcar
<1>2. Tail(<<"listo">>) = <<>> /\ Tail(<<"listo", "cpu">>) = <<"cpu">>
  OBVIOUS
<1>3. pasos' = Tail(pasos)
  BY DEF Da
<1>4. CASE pasos = <<"listo">>
  BY <1>2, <1>3, <1>4 DEF Conocidos, ConCpu, SinCpu, EnMano, PorCorrer, PorAgregarYMarcar,
     PorAgregar, PorMarcar, PorAvisar, PorDespertar
<1>5. CASE pasos = <<"listo", "cpu">>
  BY <1>2, <1>3, <1>5 DEF Conocidos, ConCpu, SinCpu, EnMano, PorCorrer, PorAgregarYMarcar,
     PorAgregar, PorMarcar, PorAvisar, PorDespertar
<1>6. QED
  BY <1>1, <1>4, <1>5

(* The I/O or the answer of the File System.                               *)
LEMMA DaPausa ==
  ASSUME pasos \in Conocidos, Da("pausa")
  PROVE  /\ pasos' \in Conocidos /\ (pasos' \in ConCpu <=> pasos \in ConCpu)
         /\ pasos # <<>> /\ pasos \in EnMano
         /\ pasos' \notin PorAvisar /\ pasos \notin PorAvisar
         /\ pasos' \notin PorDespertar /\ (pasos' \in PorAgregar => pasos \in PorAgregar)
         /\ pasos # PorMarcar /\ pasos' # PorMarcar
<1>1. pasos \in {<<"pausa", "agrega", "marca", "cpu", "listo">>,
                 <<"pausa", "agrega", "listo", "cpu">>, <<"pausa", "agrega", "listo">>}
  BY DEF Da, Conocidos, ConCpu, SinCpu, PorCorrer, PorAgregarYMarcar, PorMarcar
<1>2. /\ Tail(<<"pausa", "agrega", "marca", "cpu", "listo">>)
           = <<"agrega", "marca", "cpu", "listo">>
      /\ Tail(<<"pausa", "agrega", "listo", "cpu">>) = <<"agrega", "listo", "cpu">>
      /\ Tail(<<"pausa", "agrega", "listo">>) = <<"agrega", "listo">>
  OBVIOUS
<1>3. pasos' = Tail(pasos)
  BY DEF Da
<1>4. CASE pasos = <<"pausa", "agrega", "marca", "cpu", "listo">>
  BY <1>2, <1>3, <1>4 DEF Conocidos, ConCpu, SinCpu, EnMano, PorCorrer, PorAgregarYMarcar,
     PorAgregar, PorMarcar, PorAvisar, PorDespertar
<1>5. CASE pasos = <<"pausa", "agrega", "listo", "cpu">>
  BY <1>2, <1>3, <1>5 DEF Conocidos, ConCpu, SinCpu, EnMano, PorCorrer, PorAgregarYMarcar,
     PorAgregar, PorMarcar, PorAvisar, PorDespertar
<1>6. CASE pasos = <<"pausa", "agrega", "listo">>
  BY <1>2, <1>3, <1>6 DEF Conocidos, ConCpu, SinCpu, EnMano, PorCorrer, PorAgregarYMarcar,
     PorAgregar, PorMarcar, PorAvisar, PorDespertar
<1>7. QED
  BY <1>1, <1>4, <1>5, <1>6

(* What the thread does when it is waiting for a process, and when it has  *)
(* just taken one.                                                         *)
LEMMA Extremos ==
  /\ <<>> \in Conocidos /\ <<>> \notin ConCpu /\ <<>> \notin PorAvisar /\ <<>> # PorMarcar
  /\ <<"corre">> \in Conocidos /\ <<"corre">> \in ConCpu /\ <<"corre">> \in EnMano
  /\ <<"corre">> \notin PorAvisar /\ <<"corre">> \notin PorDespertar
  /\ <<"corre">> \notin PorAgregar /\ <<"corre">> # PorMarcar /\ <<"corre">> # <<>>
  BY DEF Conocidos, ConCpu, SinCpu, EnMano, PorCorrer, PorAgregarYMarcar,
     PorAgregar, PorMarcar, PorAvisar, PorDespertar

(* What every return to the kernel leaves to do.                           *)
LEMMA LoQueHaceCadaVuelta ==
  ASSUME NEW op \in Operaciones \union {"EXIT"}
  PROVE  /\ Pasos(op) \in ConCpu /\ Pasos(op) \notin PorAvisar /\ Pasos(op) # PorMarcar
         /\ Pasos(op) # <<>>
         /\ Pasos(op) \in PorAgregar => op \in {"F_READ", "F_TRUNCATE"}
         /\ Pasos(op) \in PorDespertar => op = "SIGNAL" /\ cola # <<>>
         /\ op = "WAIT" /\ instancias = 0 => Pasos(op) \notin EnMano
<1>1. op \in {"YIELD", "IO", "F_READ", "F_TRUNCATE", "WAIT", "SIGNAL", "EXIT"}
  BY HrrnOK
<1>2. CASE op \in {"YIELD", "IO", "F_READ", "F_TRUNCATE", "EXIT"}
  BY <1>2 DEF Pasos, PasosYield, ConCpu, EnMano, PorCorrer, PorAgregarYMarcar,
     PorAgregar, PorMarcar, PorAvisar, PorDespertar
<1>3. CASE op = "WAIT"
  BY <1>3 DEF Pasos, PasosYield, ConCpu, EnMano, PorCorrer, PorAgregarYMarcar,
     PorAgregar, PorMarcar, PorAvisar, PorDespertar
<1>4. CASE op = "SIGNAL"
  BY <1>4 DEF Pasos, PasosYield, ConCpu, EnMano, PorCorrer, PorAgregarYMarcar,
     PorAgregar, PorMarcar, PorAvisar, PorDespertar
<1>5. QED
  BY <1>1, <1>2, <1>3, <1>4
-----------------------------------------------------------------------------
(* The steps that keep InvMarcas.                                          *)

(* Everything is empty at first, and the CPU is in its semaphore.          *)
LEMMA InicioHrrn == Init => InvHrrn
<1> SUFFICES ASSUME Init PROVE InvHrrn
  OBVIOUS
<1>1. /\ <<>> \in Seq(Procesos) /\ Len(<<>>) = 0
      /\ \A e \in EstimacionesIniciales : e * Unidad \in Nat
      /\ Range(<<>>) = {} /\ IsInjective(<<>>)
  BY HrrnOK, RangoVacio
<1>2. TipoHrrn
  BY <1>1, Extremos, HrrnOK DEF Init, TipoHrrn
<1>3. UnaCpu
  BY Extremos DEF Init, UnaCpu, Uno
<1>4. ListosAvisados
  BY <1>1, Extremos DEF Init, ListosAvisados, Uno
<1>5. <<>> \notin EnMano /\ <<>> \notin PorDespertar /\ <<>> \notin PorAgregar
  BY DEF EnMano, PorCorrer, PorAgregarYMarcar, PorAgregar, PorDespertar
<1>6. CadaUnoEnSuLugar
  BY <1>1, <1>5, HrrnOK DEF Init, CadaUnoEnSuLugar, Colocado
<1>7. Marcados
  BY <1>1, <1>5, Extremos DEF Init, Marcados
<1>8. EnOrdenDeLlegada
  BY <1>1 DEF Init, EnOrdenDeLlegada
<1>9. QED
  BY <1>2, <1>3, <1>4, <1>6, <1>7, <1>8 DEF InvHrrn, InvMarcas

(* A second more.                                                          *)
LEMMA PasaMarcas == InvMarcas /\ Pasa => InvMarcas'
<1> SUFFICES ASSUME InvMarcas, Pasa PROVE InvMarcas'
  OBVIOUS
<1>1. TipoHrrn'
  BY DEF InvMarcas, TipoHrrn, Pasa, planificacion, desalojo, historia
<1>2. UnaCpu' /\ ListosAvisados' /\ CadaUnoEnSuLugar' /\ Marcados'
  BY DEF InvMarcas, Pasa, UnaCpu, ListosAvisados, CadaUnoEnSuLugar, Colocado, Marcados,
         planificacion, desalojo, historia
<1>3. QED
  BY <1>1, <1>2 DEF InvMarcas

(* The long-term thread marks a process that was nowhere.                  *)
LEMMA MarcaNuevoMarcas ==
  ASSUME InvMarcas, NEW p \in Procesos, MarcaNuevo(p)
  PROVE  InvMarcas'
<1> USE DEF MarcaNuevo, planificacion, desalojo
<1>1. /\ ~Colocado(p) /\ p # exec /\ p # porMarcar /\ ~(pasos \in EnMano /\ p = pcb)
      /\ porMarcar' = p /\ p # Ninguno
  BY HrrnOK DEF InvMarcas, CadaUnoEnSuLugar
<1>2. TipoHrrn'
  <2>1. Asentados \in SUBSET Procesos
    BY RangoDeLista DEF InvMarcas, TipoHrrn, Asentados
  <2>2. delante' \in [Procesos -> SUBSET Procesos]
    BY <2>1 DEF InvMarcas, TipoHrrn
  <2>3. QED
    BY <2>2 DEF InvMarcas, TipoHrrn
<1>3. UnaCpu' /\ ListosAvisados'
  BY DEF InvMarcas, UnaCpu, ListosAvisados
<1>4. CadaUnoEnSuLugar'
  BY <1>1 DEF InvMarcas, TipoHrrn, CadaUnoEnSuLugar, Colocado
<1>5. Marcados'
  BY DEF InvMarcas, Marcados
<1>6. QED
  BY <1>2, <1>3, <1>4, <1>5 DEF InvMarcas

(* ... and adds it to READY.                                               *)
LEMMA AgregaNuevoMarcas == InvMarcas /\ AgregaNuevo => InvMarcas'
<1> SUFFICES ASSUME InvMarcas, AgregaNuevo PROVE InvMarcas'
  OBVIOUS
<1> USE DEF AgregaNuevo, planificacion, desalojo, historia
<1>1. porMarcar \in Procesos /\ listos \in Seq(Procesos) /\ porMarcar \notin Range(listos)
      /\ IsInjective(listos)
  BY DEF InvMarcas, TipoHrrn, CadaUnoEnSuLugar, Colocado
<1>2. /\ listos' \in Seq(Procesos) /\ Len(listos') = Len(listos) + 1 /\ Len(listos) \in Nat
      /\ Range(listos') = Range(listos) \union {porMarcar} /\ IsInjective(listos')
  BY <1>1, AppendProperties, LenProperties, RangoAgrega
<1>3. TipoHrrn'
  BY <1>2 DEF InvMarcas, TipoHrrn
<1>4. UnaCpu'
  BY DEF InvMarcas, UnaCpu
<1>5. ListosAvisados'
  BY <1>2 DEF InvMarcas, TipoHrrn, ListosAvisados, Uno
<1>6. CadaUnoEnSuLugar'
  <2>1. \A p : Colocado(p)' <=> Colocado(p) \/ p = porMarcar
    BY <1>2 DEF Colocado
  <2>2. porMarcar' = Ninguno /\ ~Colocado(Ninguno)' /\ porMarcar # Ninguno
    BY <1>1, <1>2, HrrnOK, RangoDeLista DEF InvMarcas, TipoHrrn, Colocado
  <2>3. ~Colocado(exec)'
    BY <2>1, <2>2 DEF InvMarcas, CadaUnoEnSuLugar
  <2>4. Range(listos') \intersect Range(cola) = {}
    BY <1>2 DEF InvMarcas, CadaUnoEnSuLugar, Colocado
  <2>5. pasos \in EnMano => pcb \in Procesos
    <3>1. <<>> \notin EnMano
      BY DEF EnMano, PorCorrer, PorAgregarYMarcar, PorAgregar
    <3>2. QED
      BY <3>1 DEF InvMarcas, TipoHrrn
  <2>6. pasos \in EnMano => ~Colocado(pcb)' /\ pcb # exec /\ pcb # Ninguno
    BY <2>1, <2>5, HrrnOK DEF InvMarcas, CadaUnoEnSuLugar
  <2>7. \A p \in Procesos : marca[p] = 0 =>
          ~Colocado(p)' /\ p # exec /\ p # Ninguno /\ ~(pasos \in EnMano /\ p = pcb)
    BY <2>1, HrrnOK DEF InvMarcas, CadaUnoEnSuLugar
  <2>8. QED
    BY <1>2, <2>2, <2>3, <2>4, <2>6, <2>7 DEF InvMarcas, CadaUnoEnSuLugar
<1>7. Marcados'
  BY <1>2 DEF InvMarcas, Marcados
<1>8. QED
  BY <1>3, <1>4, <1>5, <1>6, <1>7 DEF InvMarcas

(* The dispatcher waits for the CPU and for a process.                     *)
LEMMA EsperaMarcas == InvMarcas /\ (EsperaCpu \/ EsperaListo) => InvMarcas'
<1> SUFFICES ASSUME InvMarcas, EsperaCpu \/ EsperaListo PROVE InvMarcas'
  OBVIOUS
<1> USE DEF EsperaCpu, EsperaListo, planificacion, desalojo, historia
<1>1. TipoHrrn'
  BY DEF InvMarcas, TipoHrrn
<1>2. UnaCpu'
  BY DEF InvMarcas, TipoHrrn, UnaCpu, Uno
<1>3. ListosAvisados'
  <2>1. Len(listos) \in Nat /\ Uno(pasos \in PorAvisar) \in Nat
    BY LenProperties DEF InvMarcas, TipoHrrn, Uno
  <2>2. QED
    BY <2>1 DEF InvMarcas, TipoHrrn, ListosAvisados, Uno
<1>4. CadaUnoEnSuLugar' /\ Marcados'
  BY DEF InvMarcas, CadaUnoEnSuLugar, Colocado, Marcados
<1>5. QED
  BY <1>1, <1>2, <1>3, <1>4 DEF InvMarcas

(* When the dispatcher chooses, READY is not empty, and the CPU is its.    *)
LEMMA AlElegir ==
  ASSUME InvMarcas, Elige
  PROVE  /\ exec = Ninguno /\ pasos \notin ConCpu /\ semCpu = 0
         /\ listos # <<>> /\ MaximoPorR \in Range(listos) /\ MaximoPorR \in Procesos
         /\ \E k \in 1 .. Len(listos) :
              listos[k] = MaximoPorR /\ listos' = RemoveAt(listos, k)
<1>1. exec = Ninguno /\ pasos \notin ConCpu /\ semCpu = 0
  BY DEF InvMarcas, UnaCpu, Uno, Elige, TipoHrrn
<1>2. listos # <<>>
  BY DEF InvMarcas, ListosAvisados, Uno, Elige, TipoHrrn
<1>3. PICK j \in 1 .. Len(listos) : MaximoPorR = listos[j]
  BY <1>2, MaximoBien DEF InvMarcas
<1>4. MaximoPorR \in Range(listos) /\ MaximoPorR \in Procesos
  BY <1>3, RangoDeLista DEF InvMarcas, TipoHrrn
<1>5. \E k \in 1 .. Len(listos) :
        listos[k] = MaximoPorR /\ RemoveFirst(listos, MaximoPorR) = RemoveAt(listos, k)
  BY <1>4, QuitaAlElegido DEF InvMarcas
<1>6. QED
  BY <1>1, <1>2, <1>4, <1>5 DEF Elige

(* The one that is chosen leaves READY for EXEC.                           *)
LEMMA EligeMarcas == InvMarcas /\ Elige => InvMarcas'
<1> SUFFICES ASSUME InvMarcas, Elige PROVE InvMarcas'
  OBVIOUS
<1>1. PICK p : p = MaximoPorR
  OBVIOUS
<1>2. PICK k \in 1 .. Len(listos) : listos[k] = p /\ listos' = RemoveAt(listos, k)
  BY <1>1, AlElegir
<1>3. /\ exec = Ninguno /\ pasos \notin ConCpu /\ p \in Procesos /\ p \in Range(listos)
      /\ listos \in Seq(Procesos) /\ IsInjective(listos) /\ p # Ninguno
  BY <1>1, AlElegir, HrrnOK DEF InvMarcas, TipoHrrn, CadaUnoEnSuLugar
<1>4. /\ listos' \in Seq(Procesos) /\ Len(listos') = Len(listos) - 1 /\ Len(listos) \in Nat
      /\ Range(listos') = Range(listos) \ {p} /\ IsInjective(listos')
  BY <1>2, <1>3, QuitarPosiciones, RangoQuita, LenProperties
<1>5. /\ exec' = p /\ vigente' = vigente \ {p} /\ dispatcher = "elige" /\ dispatcher' = "cpu"
      /\ porMarcar = Ninguno
      /\ delante' = [q \in Procesos |-> IF q = p THEN {} ELSE delante[q] \ {p}]
      /\ UNCHANGED <<ahora, marca, planificacion, porMarcar, desalojo, semCpu, semListo, sinMarca>>
  BY <1>1 DEF Elige
<1> USE DEF planificacion, desalojo
<1>6. TipoHrrn'
  <2>1. delante' \in [Procesos -> SUBSET Procesos]
    BY <1>5 DEF InvMarcas, TipoHrrn
  <2>2. QED
    BY <1>3, <1>4, <1>5, <2>1 DEF InvMarcas, TipoHrrn
<1>7. UnaCpu'
  BY <1>3, <1>5 DEF InvMarcas, TipoHrrn, UnaCpu, Uno
<1>8. ListosAvisados'
  BY <1>4, <1>5 DEF InvMarcas, TipoHrrn, ListosAvisados, Uno
<1>9. CadaUnoEnSuLugar'
  <2>1. ~Colocado(p)' /\ p # porMarcar
    BY <1>3, <1>4, <1>5 DEF InvMarcas, CadaUnoEnSuLugar, Colocado
  <2>2. pasos \in EnMano => ~Colocado(pcb)' /\ pcb # p /\ pcb # porMarcar
    BY <1>3, <1>4, <1>5 DEF InvMarcas, CadaUnoEnSuLugar, Colocado
  <2>3. \A q \in Procesos : marca[q] = 0 => ~Colocado(q)' /\ q # p /\ q # porMarcar
    BY <1>3, <1>4, <1>5 DEF InvMarcas, CadaUnoEnSuLugar, Colocado
  <2>4. ~Colocado(porMarcar)'
    BY <1>4, <1>5 DEF InvMarcas, CadaUnoEnSuLugar, Colocado
  <2>5. QED
    BY <1>4, <1>5, <2>1, <2>2, <2>3, <2>4 DEF InvMarcas, CadaUnoEnSuLugar
<1>10. Marcados'
  <2>1. pasos # PorMarcar
    BY <1>3 DEF ConCpu
  <2>2. QED
    BY <1>4, <1>5, <2>1 DEF InvMarcas, Marcados
<1>11. QED
  BY <1>6, <1>7, <1>8, <1>9, <1>10 DEF InvMarcas

(* The eviction thread takes the process of EXEC.                          *)
LEMMA TomaMarcas == InvMarcas /\ Toma => InvMarcas'
<1> SUFFICES ASSUME InvMarcas, Toma PROVE InvMarcas'
  OBVIOUS
<1> USE DEF Toma, historia
<1>1. exec \in Procesos /\ exec' = Ninguno /\ pcb' = exec
  BY DEF InvMarcas, TipoHrrn
<1>2. TipoHrrn'
  <2>1. pasos' \in Conocidos /\ inicio' \in Nat /\ inicio' <= ahora'
    BY Extremos DEF InvMarcas, TipoHrrn
  <2>2. UNCHANGED <<ahora, listos, marca, estimacion, rafagas, porMarcar, dispatcher,
                    instancias, cola, semCpu, semListo, vigente, sinMarca, delante>>
    OBVIOUS
  <2>3. QED
    BY <1>1, <2>1, <2>2 DEF InvMarcas, TipoHrrn
<1>3. UnaCpu'
  BY <1>1, Extremos, HrrnOK DEF InvMarcas, TipoHrrn, UnaCpu, Uno
<1>4. ListosAvisados'
  BY Extremos DEF InvMarcas, ListosAvisados, Uno
<1>5. CadaUnoEnSuLugar'
  <2>1. ~Colocado(Ninguno)
    BY HrrnOK, RangoDeLista DEF InvMarcas, TipoHrrn, Colocado
  <2>2. QED
    BY <1>1, <2>1, Extremos, HrrnOK DEF InvMarcas, TipoHrrn, CadaUnoEnSuLugar, Colocado
<1>6. Marcados'
  <2>1. pasos # PorMarcar /\ pasos' # PorMarcar /\ pasos' \notin PorAgregar
    BY Extremos
  <2>2. QED
    BY <2>1 DEF InvMarcas, Marcados
<1>7. QED
  BY <1>2, <1>3, <1>4, <1>5, <1>6 DEF InvMarcas

(* The process comes back from the CPU.                                    *)
LEMMA VuelveMarcas ==
  ASSUME InvMarcas, NEW op \in Operaciones \union {"EXIT"}, Vuelve(op)
  PROVE  InvMarcas'
<1>1. /\ pasos = <<"corre">> /\ pasos' = Pasos(op) /\ pcb \in Procesos
      /\ ~Colocado(pcb) /\ pcb # exec /\ pcb # porMarcar /\ marca[pcb] # 0
  BY Extremos DEF InvMarcas, TipoHrrn, CadaUnoEnSuLugar, Vuelve
<1>2. /\ pasos' \in ConCpu /\ pasos' \notin PorAvisar /\ pasos' # PorMarcar
      /\ pasos' # <<>>
      /\ pasos' \in PorAgregar => op \in {"F_READ", "F_TRUNCATE"}
      /\ pasos' \in PorDespertar => op = "SIGNAL" /\ cola # <<>>
      /\ op = "WAIT" /\ instancias = 0 => pasos' \notin EnMano
  BY <1>1, LoQueHaceCadaVuelta
<1>3. /\ cola' \in Seq(Procesos) /\ IsInjective(cola')
      /\ Range(cola') \subseteq Range(cola) \union {pcb}
      /\ (pcb \notin Range(cola')) \/ (op = "WAIT" /\ instancias = 0)
      /\ op = "SIGNAL" => cola' = cola
  <2>1. cola \in Seq(Procesos) /\ IsInjective(cola) /\ pcb \notin Range(cola)
    BY <1>1 DEF InvMarcas, TipoHrrn, CadaUnoEnSuLugar, Colocado
  <2>2. CASE op = "WAIT" /\ instancias = 0
    <3>1. cola' = Append(cola, pcb)
      BY <2>2 DEF Vuelve
    <3>2. QED
      BY <1>1, <2>1, <2>2, <3>1, AppendProperties, RangoAgrega
  <2>3. CASE ~(op = "WAIT" /\ instancias = 0)
    <3>1. cola' = cola
      BY <2>3 DEF Vuelve
    <3>2. QED
      BY <2>1, <3>1
  <2>4. QED
    BY <2>2, <2>3
<1>4. /\ UNCHANGED <<ahora, listos, marca, porMarcar, dispatcher, exec, pcb, inicio, semCpu,
                     semListo, vigente, delante>>
  BY DEF Vuelve
<1>5. /\ sinMarca' \subseteq sinMarca \union {pcb} /\ sinMarca \ {pcb} \subseteq sinMarca'
      /\ op \in {"F_READ", "F_TRUNCATE", "WAIT"} => pcb \in sinMarca'
  BY DEF Vuelve
<1>6. TipoHrrn'
  <2>1. ASSUME NEW t \in Nat, NEW e \in Nat PROVE Estima(t, e) \in Nat
    BY HrrnOK DEF Estima
  <2>2. ahora - inicio \in Nat
    BY DEF InvMarcas, TipoHrrn
  <2>3. estimacion' \in [Procesos -> Nat]
    BY <1>1, <2>1, <2>2 DEF InvMarcas, TipoHrrn, Vuelve
  <2>4. QED
    BY <1>1, <1>2, <1>3, <1>4, <1>5, <2>3 DEF InvMarcas, TipoHrrn, Conocidos
<1>7. UnaCpu'
  BY <1>1, <1>2, <1>4, Extremos DEF InvMarcas, UnaCpu
<1>8. ListosAvisados'
  BY <1>1, <1>2, <1>4, Extremos DEF InvMarcas, ListosAvisados
<1>9. CadaUnoEnSuLugar'
  <2>1. \A p : Colocado(p)' => Colocado(p) \/ (p = pcb /\ p \in Range(cola'))
    BY <1>3, <1>4 DEF Colocado
  <2>2. pasos' \in EnMano => ~Colocado(pcb)'
    BY <1>1, <1>2, <1>3, <1>4 DEF Colocado
  <2>3. ~Colocado(exec)' /\ ~Colocado(porMarcar)'
    BY <1>1, <2>1, <1>4 DEF InvMarcas, CadaUnoEnSuLugar
  <2>4. \A p \in Procesos : marca[p] = 0 => ~Colocado(p)' /\ p # pcb
    BY <1>1, <2>1 DEF InvMarcas, CadaUnoEnSuLugar
  <2>5. Range(listos) \intersect Range(cola') = {}
    BY <1>1, <1>3 DEF InvMarcas, CadaUnoEnSuLugar, Colocado
  <2>6. pasos' \in PorDespertar => cola' # <<>>
    BY <1>2, <1>3
  <2>7. QED
    BY <1>1, <1>3, <1>4, <2>2, <2>3, <2>4, <2>5, <2>6 DEF InvMarcas, CadaUnoEnSuLugar
<1>10. Marcados'
  <2>1. Range(listos) \subseteq vigente \union sinMarca /\ pcb \notin Range(listos)
    BY <1>1, Extremos DEF InvMarcas, Marcados, Colocado
  <2>2. Range(cola') \subseteq sinMarca'
    BY <1>1, <1>3, <1>5 DEF InvMarcas, Marcados, Colocado
  <2>3. QED
    BY <1>2, <1>4, <1>5, <2>1, <2>2 DEF InvMarcas, Marcados
<1>11. QED
  BY <1>6, <1>7, <1>8, <1>9, <1>10 DEF InvMarcas
(* The calls of the eviction thread that add to READY.                     *)
LEMMA AgregaMarcas == InvMarcas /\ Agrega => InvMarcas'
<1> SUFFICES ASSUME InvMarcas, Agrega PROVE InvMarcas'
  OBVIOUS
<1>1. pasos \in Conocidos /\ Da("agrega")
  BY DEF InvMarcas, TipoHrrn, Agrega
<1>2. /\ pasos' \in Conocidos /\ (pasos' \in ConCpu <=> pasos \in ConCpu)
      /\ pasos # <<>> /\ pasos \in EnMano /\ pasos' \notin EnMano
      /\ pasos \notin PorAvisar /\ pasos' \in PorAvisar
      /\ pasos' \notin PorDespertar /\ pasos' \notin PorAgregar
      /\ pasos # PorMarcar /\ (pasos' = PorMarcar \/ pasos \in PorAgregar)
  BY <1>1, DaAgrega
<1>3. /\ listos' = Append(listos, pcb) /\ porMarcar = Ninguno
      /\ delante' = [delante EXCEPT ![pcb] = Asentados]
      /\ UNCHANGED <<ahora, marca, estimacion, rafagas, inicio, porMarcar, dispatcher, exec, pcb,
                     instancias, cola, semCpu, semListo, vigente, sinMarca>>
  BY DEF Agrega, EntraEnListos, planificacion
<1>4. /\ listos \in Seq(Procesos) /\ pcb \in Procesos /\ pcb \notin Range(listos)
      /\ IsInjective(listos) /\ ~Colocado(pcb) /\ pcb # exec /\ pcb # porMarcar
  BY <1>2 DEF InvMarcas, TipoHrrn, CadaUnoEnSuLugar, Colocado
<1>5. /\ listos' \in Seq(Procesos) /\ Len(listos') = Len(listos) + 1 /\ Len(listos) \in Nat
      /\ Range(listos') = Range(listos) \union {pcb} /\ IsInjective(listos')
  BY <1>3, <1>4, AppendProperties, LenProperties, RangoAgrega
<1>6. TipoHrrn'
  <2>1. Asentados \in SUBSET Procesos
    BY RangoDeLista DEF InvMarcas, TipoHrrn, Asentados
  <2>2. delante' \in [Procesos -> SUBSET Procesos]
    BY <1>3, <2>1 DEF InvMarcas, TipoHrrn
  <2>3. QED
    BY <1>2, <1>3, <1>4, <1>5, <2>2 DEF InvMarcas, TipoHrrn
<1>7. UnaCpu'
  BY <1>2, <1>3 DEF InvMarcas, UnaCpu, Uno
<1>8. ListosAvisados'
  BY <1>2, <1>3, <1>5 DEF InvMarcas, TipoHrrn, ListosAvisados, Uno
<1>9. CadaUnoEnSuLugar'
  <2>1. \A p : Colocado(p)' <=> Colocado(p) \/ p = pcb
    BY <1>3, <1>5 DEF Colocado
  <2>2. ~Colocado(exec)' /\ ~Colocado(porMarcar)'
    BY <1>3, <1>4, <2>1 DEF InvMarcas, CadaUnoEnSuLugar
  <2>3. \A p \in Procesos : marca[p] = 0 => ~Colocado(p)' /\ p # exec /\ p # porMarcar
    BY <1>2, <2>1 DEF InvMarcas, CadaUnoEnSuLugar
  <2>4. Range(listos') \intersect Range(cola) = {}
    BY <1>4, <1>5 DEF InvMarcas, CadaUnoEnSuLugar, Colocado
  <2>5. QED
    BY <1>2, <1>3, <1>5, <2>2, <2>3, <2>4 DEF InvMarcas, CadaUnoEnSuLugar
<1>10. Marcados'
  <2>1. pasos' = PorMarcar \/ pcb \in sinMarca
    BY <1>2 DEF InvMarcas, Marcados
  <2>2. QED
    BY <1>2, <1>3, <1>5, <2>1 DEF InvMarcas, Marcados
<1>11. QED
  BY <1>6, <1>7, <1>8, <1>9, <1>10 DEF InvMarcas

(* SIGNAL wakes the first of the queue, that WAIT put there.               *)
LEMMA DespiertaMarcas == InvMarcas /\ Despierta => InvMarcas'
<1> SUFFICES ASSUME InvMarcas, Despierta PROVE InvMarcas'
  OBVIOUS
<1>1. pasos \in Conocidos /\ Da("despierta")
  BY DEF InvMarcas, TipoHrrn, Despierta
<1>2. /\ pasos' \in Conocidos /\ pasos' \notin ConCpu /\ pasos \notin ConCpu
      /\ pasos # <<>> /\ pasos \notin EnMano /\ pasos' \notin EnMano
      /\ pasos \notin PorAvisar /\ pasos' \in PorAvisar
      /\ pasos \in PorDespertar /\ pasos' \notin PorDespertar
      /\ pasos' \notin PorAgregar
      /\ pasos # PorMarcar /\ pasos' # PorMarcar
  BY <1>1, DaDespierta
<1>p. PICK p : p = Head(cola)
  OBVIOUS
<1>3. /\ listos' = Append(listos, p) /\ porMarcar = Ninguno /\ cola' = Tail(cola)
      /\ delante' = [delante EXCEPT ![p] = Asentados]
      /\ UNCHANGED <<ahora, marca, estimacion, rafagas, inicio, porMarcar, dispatcher, exec, pcb,
                     instancias, semCpu, semListo, vigente, sinMarca>>
  BY <1>p DEF Despierta, EntraEnListos, planificacion
<1>4. /\ cola \in Seq(Procesos) /\ cola # <<>> /\ IsInjective(cola)
      /\ listos \in Seq(Procesos) /\ IsInjective(listos)
  BY <1>2 DEF InvMarcas, TipoHrrn, CadaUnoEnSuLugar
<1>5. /\ p \in Range(cola) /\ p \in Procesos /\ p \notin Range(listos)
      /\ cola' \in Seq(Procesos) /\ IsInjective(cola') /\ Range(cola') = Range(cola) \ {p}
  <2>1. p \in Range(cola) /\ IsInjective(cola') /\ Range(cola') = Range(cola) \ {p}
    BY <1>p, <1>3, <1>4, RangoCola
  <2>2. cola' \in Seq(Procesos) /\ p \in Procesos
    BY <1>p, <1>3, <1>4, HeadTailProperties
  <2>3. QED
    BY <2>1, <2>2 DEF InvMarcas, CadaUnoEnSuLugar
<1>6. /\ listos' \in Seq(Procesos) /\ Len(listos') = Len(listos) + 1 /\ Len(listos) \in Nat
      /\ Range(listos') = Range(listos) \union {p} /\ IsInjective(listos')
  BY <1>3, <1>4, <1>5, AppendProperties, LenProperties, RangoAgrega
<1>7. TipoHrrn'
  <2>1. Asentados \in SUBSET Procesos
    BY RangoDeLista DEF InvMarcas, TipoHrrn, Asentados
  <2>2. delante' \in [Procesos -> SUBSET Procesos]
    BY <1>3, <2>1 DEF InvMarcas, TipoHrrn
  <2>3. QED
    BY <1>2, <1>3, <1>5, <1>6, <2>2 DEF InvMarcas, TipoHrrn
<1>8. UnaCpu'
  BY <1>2, <1>3 DEF InvMarcas, UnaCpu, Uno
<1>9. ListosAvisados'
  BY <1>2, <1>3, <1>6 DEF InvMarcas, TipoHrrn, ListosAvisados, Uno
<1>10. CadaUnoEnSuLugar'
  <2>1. \A q : Colocado(q)' <=> Colocado(q)
    BY <1>5, <1>6 DEF Colocado
  <2>2. Range(listos') \intersect Range(cola') = {}
    BY <1>5, <1>6 DEF InvMarcas, CadaUnoEnSuLugar
  <2>3. QED
    BY <1>2, <1>3, <1>5, <1>6, <2>1, <2>2 DEF InvMarcas, CadaUnoEnSuLugar
<1>11. Marcados'
  BY <1>2, <1>3, <1>5, <1>6 DEF InvMarcas, Marcados
<1>12. QED
  BY <1>7, <1>8, <1>9, <1>10, <1>11 DEF InvMarcas

(* The mark of who has just entered READY.                                 *)
LEMMA MarcaMarcas == InvMarcas /\ Marca => InvMarcas'
<1> SUFFICES ASSUME InvMarcas, Marca PROVE InvMarcas'
  OBVIOUS
<1>1. pasos \in Conocidos /\ Da("marca")
  BY DEF InvMarcas, TipoHrrn, Marca
<1>2. /\ pasos' \in Conocidos /\ pasos' \in ConCpu /\ pasos \in ConCpu
      /\ pasos # <<>> /\ pasos \notin EnMano /\ pasos' \notin EnMano
      /\ pasos \in PorAvisar /\ pasos' \in PorAvisar
      /\ pasos' \notin PorDespertar /\ pasos' \notin PorAgregar
      /\ pasos = PorMarcar /\ pasos' # PorMarcar
  BY <1>1, DaMarca
<1>3. /\ marca' = [marca EXCEPT ![pcb] = ahora]
      /\ vigente' = vigente \union ({pcb} \intersect Range(listos))
      /\ UNCHANGED <<ahora, listos, estimacion, rafagas, inicio, porMarcar, dispatcher, exec, pcb,
                     instancias, cola, semCpu, semListo, sinMarca, delante>>
  BY DEF Marca, planificacion
<1>4. pcb \in Procesos
  BY <1>2 DEF InvMarcas, TipoHrrn
<1>5. TipoHrrn'
  BY <1>2, <1>3, <1>4 DEF InvMarcas, TipoHrrn
<1>6. UnaCpu' /\ ListosAvisados'
  BY <1>2, <1>3 DEF InvMarcas, UnaCpu, ListosAvisados
<1>7. CadaUnoEnSuLugar'
  <2>1. \A q : Colocado(q)' <=> Colocado(q)
    BY <1>3 DEF Colocado
  <2>2. \A q \in Procesos : marca'[q] = 0 => marca[q] = 0
    BY <1>3, <1>4 DEF InvMarcas, TipoHrrn
  <2>3. QED
    BY <1>2, <1>3, <2>1, <2>2 DEF InvMarcas, CadaUnoEnSuLugar
<1>8. Marcados'
  BY <1>2, <1>3 DEF InvMarcas, Marcados
<1>9. QED
  BY <1>5, <1>6, <1>7, <1>8 DEF InvMarcas

(* The process goes back to the CPU.                                       *)
LEMMA SigueMarcas == InvMarcas /\ Sigue => InvMarcas'
<1> SUFFICES ASSUME InvMarcas, Sigue PROVE InvMarcas'
  OBVIOUS
<1>1. pasos \in Conocidos /\ Da("sigue")
  BY DEF InvMarcas, TipoHrrn, Sigue
<1>2. /\ pasos' \in Conocidos /\ pasos' \notin ConCpu /\ pasos \in ConCpu
      /\ pasos # <<>> /\ pasos \in EnMano /\ pasos' \notin EnMano
      /\ pasos \notin PorAvisar /\ pasos' \notin PorAvisar
      /\ (pasos' \in PorDespertar => pasos \in PorDespertar)
      /\ pasos' \notin PorAgregar
      /\ pasos # PorMarcar /\ pasos' # PorMarcar
  BY <1>1, DaSigue
<1>3. /\ exec' = pcb
      /\ UNCHANGED <<ahora, listos, marca, estimacion, rafagas, inicio, porMarcar, dispatcher, pcb,
                     instancias, cola, semCpu, semListo, vigente, sinMarca, delante>>
  BY DEF Sigue, planificacion, historia
<1>4. /\ pcb \in Procesos /\ ~Colocado(pcb) /\ pcb # exec /\ pcb # porMarcar
      /\ exec = Ninguno
  <2>1. exec = Ninguno
    BY <1>2 DEF InvMarcas, TipoHrrn, UnaCpu, Uno
  <2>2. QED
    BY <1>2, <2>1 DEF InvMarcas, TipoHrrn, CadaUnoEnSuLugar
<1>5. TipoHrrn'
  BY <1>2, <1>3, <1>4 DEF InvMarcas, TipoHrrn
<1>6. UnaCpu'
  <2>1. semCpu' = semCpu /\ semCpu \in Nat /\ dispatcher' = dispatcher /\ exec' # Ninguno
    BY <1>3, <1>4, HrrnOK DEF InvMarcas, TipoHrrn
  <2>2. QED
    BY <1>2, <1>4, <2>1 DEF InvMarcas, UnaCpu, Uno
<1>7. ListosAvisados'
  BY <1>2, <1>3 DEF InvMarcas, ListosAvisados, Uno
<1>8. CadaUnoEnSuLugar'
  <2>1. \A q : Colocado(q)' <=> Colocado(q)
    BY <1>3 DEF Colocado
  <2>2. \A p \in Procesos : marca[p] = 0 => ~Colocado(p) /\ p # pcb /\ p # porMarcar
    BY <1>2 DEF InvMarcas, CadaUnoEnSuLugar
  <2>3. QED
    BY <1>2, <1>3, <1>4, <2>1, <2>2 DEF InvMarcas, CadaUnoEnSuLugar
<1>9. Marcados'
  BY <1>2, <1>3 DEF InvMarcas, Marcados
<1>10. QED
  BY <1>5, <1>6, <1>7, <1>8, <1>9 DEF InvMarcas

(* The posts of the semaphores, and the waits.                             *)
LEMMA AvisaMarcas == InvMarcas /\ Avisa => InvMarcas'
<1> SUFFICES ASSUME InvMarcas, Avisa PROVE InvMarcas'
  OBVIOUS
<1>1. pasos \in Conocidos
  BY DEF InvMarcas, TipoHrrn
<1>2. UNCHANGED <<ahora, listos, marca, estimacion, rafagas, inicio, porMarcar, dispatcher, exec,
                  pcb, instancias, cola, vigente, sinMarca, delante>>
  BY DEF Avisa, planificacion, historia
<1>3. /\ semCpu' \in Nat /\ semListo' \in Nat
      /\ pasos' \in Conocidos /\ pasos # <<>>
      /\ (pasos' \in EnMano => pasos \in EnMano)
      /\ pasos' \notin PorDespertar /\ (pasos' \in PorAgregar => pasos \in PorAgregar)
      /\ pasos # PorMarcar /\ pasos' # PorMarcar
      /\ semCpu' + Uno(pasos' \in ConCpu) = semCpu + Uno(pasos \in ConCpu)
      /\ semListo' + Uno(pasos' \in PorAvisar) = semListo + Uno(pasos \in PorAvisar)
  <2>0. semCpu \in Nat /\ semListo \in Nat
    BY DEF InvMarcas, TipoHrrn
  <2>1. CASE Da("cpu") /\ semCpu' = semCpu + 1 /\ UNCHANGED semListo
    <3>1. /\ pasos' \in Conocidos /\ pasos' \notin ConCpu /\ pasos \in ConCpu
          /\ pasos # <<>> /\ (pasos' \in EnMano => pasos \in EnMano)
          /\ (pasos' \in PorAvisar <=> pasos \in PorAvisar)
          /\ pasos' \notin PorDespertar /\ (pasos' \in PorAgregar => pasos \in PorAgregar)
          /\ pasos # PorMarcar /\ pasos' # PorMarcar
      BY <1>1, <2>1, DaCpu
    <3>2. QED
      BY <2>0, <2>1, <3>1 DEF Uno
  <2>2. CASE Da("listo") /\ semListo' = semListo + 1 /\ UNCHANGED semCpu
    <3>1. /\ pasos' \in Conocidos /\ (pasos' \in ConCpu <=> pasos \in ConCpu)
          /\ pasos # <<>> /\ pasos' \notin EnMano
          /\ pasos' \notin PorAvisar /\ pasos \in PorAvisar
          /\ pasos' \notin PorDespertar /\ pasos' \notin PorAgregar
          /\ pasos # PorMarcar /\ pasos' # PorMarcar
      BY <1>1, <2>2, DaListo
    <3>2. QED
      BY <2>0, <2>2, <3>1 DEF Uno
  <2>3. CASE Da("pausa") /\ UNCHANGED <<semCpu, semListo>>
    <3>1. /\ pasos' \in Conocidos /\ (pasos' \in ConCpu <=> pasos \in ConCpu)
          /\ pasos # <<>> /\ pasos \in EnMano
          /\ pasos' \notin PorAvisar /\ pasos \notin PorAvisar
          /\ pasos' \notin PorDespertar /\ (pasos' \in PorAgregar => pasos \in PorAgregar)
          /\ pasos # PorMarcar /\ pasos' # PorMarcar
      BY <1>1, <2>3, DaPausa
    <3>2. QED
      BY <2>0, <2>3, <3>1 DEF Uno
  <2>4. QED
    BY <2>1, <2>2, <2>3 DEF Avisa
<1>4. TipoHrrn'
  BY <1>2, <1>3 DEF InvMarcas, TipoHrrn
<1>5. UnaCpu'
  <2>1. semCpu \in Nat /\ Uno(pasos \in ConCpu) \in Nat /\ Uno(pasos' \in ConCpu) \in Nat
        /\ Uno(dispatcher # "cpu") \in Nat /\ Uno(exec # Ninguno) \in Nat
    BY DEF InvMarcas, TipoHrrn, Uno
  <2>2. semCpu + Uno(dispatcher # "cpu") + Uno(exec # Ninguno) + Uno(pasos \in ConCpu) = 1
    BY DEF InvMarcas, UnaCpu
  <2>3. semCpu' + Uno(dispatcher # "cpu") + Uno(exec # Ninguno) + Uno(pasos' \in ConCpu) = 1
    BY <1>3, <2>1, <2>2
  <2>4. QED
    BY <1>2, <2>3 DEF UnaCpu
<1>6. ListosAvisados'
  <2>1. semListo \in Nat /\ Uno(pasos \in PorAvisar) \in Nat /\ Uno(pasos' \in PorAvisar) \in Nat
        /\ Uno(dispatcher = "elige") \in Nat
    BY DEF InvMarcas, TipoHrrn, Uno
  <2>2. Len(listos) = semListo + Uno(dispatcher = "elige") + Uno(pasos \in PorAvisar)
    BY DEF InvMarcas, ListosAvisados
  <2>a. semListo' + Uno(pasos' \in PorAvisar) = semListo + Uno(pasos \in PorAvisar)
        /\ semListo' \in Nat
    BY <1>3
  <2>b. PICK a, b, d : a = Uno(pasos \in PorAvisar) /\ b = Uno(pasos' \in PorAvisar)
                       /\ d = Uno(dispatcher = "elige")
    OBVIOUS
  <2>3. Len(listos) = semListo' + Uno(dispatcher = "elige") + Uno(pasos' \in PorAvisar)
    BY <2>1, <2>2, <2>a, <2>b
  <2>4. QED
    BY <1>2, <2>3 DEF ListosAvisados
<1>7. CadaUnoEnSuLugar'
  <2>1. \A q : Colocado(q)' <=> Colocado(q)
    BY <1>2 DEF Colocado
  <2>2. QED
    BY <1>2, <1>3, <2>1 DEF InvMarcas, CadaUnoEnSuLugar
<1>8. Marcados'
  BY <1>2, <1>3 DEF InvMarcas, Marcados
<1>9. QED
  BY <1>4, <1>5, <1>6, <1>7, <1>8 DEF InvMarcas

(* Every step keeps the CPU with one holder, each process in its place and *)
(* the marks of READY in order.                                            *)
LEMMA PasoMarcas == InvMarcas /\ [Next]_vars => InvMarcas'
<1> SUFFICES ASSUME InvMarcas, [Next]_vars PROVE InvMarcas'
  OBVIOUS
<1>1. CASE UNCHANGED vars
  <2>1. TipoHrrn'
    BY <1>1 DEF InvMarcas, TipoHrrn, vars
  <2>2. UnaCpu' /\ ListosAvisados' /\ CadaUnoEnSuLugar' /\ Marcados'
    BY <1>1 DEF InvMarcas, UnaCpu, ListosAvisados, CadaUnoEnSuLugar, Colocado, Marcados, vars
  <2>3. QED
    BY <2>1, <2>2 DEF InvMarcas
<1>2. QED
  BY <1>1, PasaMarcas, MarcaNuevoMarcas, AgregaNuevoMarcas, EsperaMarcas, EligeMarcas,
     TomaMarcas, VuelveMarcas, AgregaMarcas, MarcaMarcas, DespiertaMarcas, SigueMarcas,
     AvisaMarcas DEF Next
-----------------------------------------------------------------------------
(* The order of arrival.                                                   *)

(* What is added is after everyone, and moves nobody.                      *)
LEMMA PrecedeAlAgregar ==
  ASSUME NEW x \in Procesos, listos \in Seq(Procesos), x \notin Range(listos),
         listos' = Append(listos, x),
         NEW q \in Range(listos), NEW p, Precede(q, p) \/ p = x
  PROVE  Precede(q, p)'
<1>1. /\ Len(listos) \in Nat /\ DOMAIN listos = 1 .. Len(listos)
      /\ DOMAIN listos' = 1 .. Len(listos) + 1
      /\ \A i \in 1 .. Len(listos) : listos'[i] = listos[i]
      /\ listos'[Len(listos) + 1] = x
  BY AppendProperties, LenProperties
<1>2. \A i \in 1 .. Len(listos) : listos[i] \in Range(listos)
  BY RangoDeLista
<1>3. ASSUME NEW i \in DOMAIN listos', NEW j \in DOMAIN listos', listos'[i] = q, listos'[j] = p
      PROVE  i < j
  <2>1. i \in 1 .. Len(listos) /\ listos[i] = q
    BY <1>1, <1>3
  <2>2. CASE j = Len(listos) + 1
    BY <1>1, <2>1, <2>2
  <2>3. CASE j \in 1 .. Len(listos)
    <3>1. listos[j] = p /\ p # x
      BY <1>1, <1>2, <1>3, <2>3
    <3>2. QED
      BY <1>1, <2>1, <2>3, <3>1 DEF Precede
  <2>4. QED
    BY <1>1, <1>3, <2>2, <2>3
<1>4. QED
  BY <1>3 DEF Precede

(* What is removed leaves the others in their order.                       *)
LEMMA PrecedeAlQuitar ==
  ASSUME listos \in Seq(Procesos), NEW k \in 1 .. Len(listos),
         listos' = RemoveAt(listos, k), NEW q, NEW p, Precede(q, p)
  PROVE  Precede(q, p)'
<1>1. /\ Len(listos) \in Nat /\ DOMAIN listos = 1 .. Len(listos)
      /\ listos' \in Seq(Procesos) /\ Len(listos') = Len(listos) - 1
      /\ \A j \in 1 .. Len(listos) - 1 :
           listos'[j] = IF j < k THEN listos[j] ELSE listos[j + 1]
  BY QuitarPosiciones, LenProperties
<1>2. DOMAIN listos' = 1 .. Len(listos) - 1
  BY <1>1, LenProperties
<1> DEFINE f(i) == IF i < k THEN i ELSE i + 1
<1>3. \A i \in 1 .. Len(listos) - 1 : f(i) \in DOMAIN listos /\ listos[f(i)] = listos'[i]
  BY <1>1
<1>4. \A i, j \in 1 .. Len(listos) - 1 : f(i) < f(j) => i < j
  BY <1>1
<1> HIDE DEF f
<1>5. QED
  BY <1>2, <1>3, <1>4 DEF Precede

(* The steps that touch neither READY nor the marks.                       *)
LEMMA AjenosOrden ==
  ASSUME InvHrrn, UNCHANGED <<listos, porMarcar, vigente, delante, marca>>,
         pasos' # PorMarcar \/ UNCHANGED <<pasos, pcb>>
  PROVE  EnOrdenDeLlegada'
  BY DEF InvHrrn, EnOrdenDeLlegada, Precede

(* A new process is marked now, after all that are settled.                *)
LEMMA MarcaNuevoOrden ==
  ASSUME InvHrrn, NEW p \in Procesos, MarcaNuevo(p)
  PROVE  EnOrdenDeLlegada'
<1>1. /\ p \notin Range(listos) /\ porMarcar = Ninguno /\ porMarcar' = p
      /\ marca' = [marca EXCEPT ![p] = ahora]
      /\ vigente' = vigente \union {p}
      /\ delante' = [delante EXCEPT ![p] = Asentados]
      /\ UNCHANGED <<ahora, listos, pasos, pcb>>
  BY DEF InvHrrn, InvMarcas, CadaUnoEnSuLugar, Colocado, MarcaNuevo, desalojo
<1>2. Asentados = Range(listos) \ (IF pasos = PorMarcar THEN {pcb} ELSE {})
  BY AsentadosSon DEF InvHrrn, InvMarcas, TipoHrrn
<1>3. Range(listos) \subseteq Procesos /\ vigente \subseteq Procesos /\ Ninguno \notin Procesos
      /\ \A q \in Procesos : marca[q] <= ahora /\ marca[q] \in Nat
      /\ DOMAIN delante = Procesos /\ DOMAIN marca = Procesos /\ ahora \in Nat
  BY RangoDeLista, HrrnOK DEF InvHrrn, InvMarcas, TipoHrrn
<1>4. vigente' \subseteq Range(listos') \union {porMarcar'}
  BY <1>1, <1>3 DEF InvHrrn, EnOrdenDeLlegada
<1>5. ASSUME NEW r \in Range(listos'), NEW q \in delante'[r]
      PROVE  /\ q \in Range(listos') /\ Precede(q, r)' /\ ~(pasos' = PorMarcar /\ q = pcb')
             /\ r \in vigente' => marca'[q] <= marca'[r]
  <2>1. r \in Range(listos) /\ r # p /\ r \in Procesos
    BY <1>1, <1>3, <1>5
  <2>2. delante'[r] = delante[r] /\ marca'[r] = marca[r]
    BY <1>1, <1>3, <2>1
  <2>3. /\ q \in Range(listos) /\ Precede(q, r) /\ ~(pasos = PorMarcar /\ q = pcb)
        /\ r \in vigente => marca[q] <= marca[r]
    BY <1>5, <2>1, <2>2 DEF InvHrrn, EnOrdenDeLlegada
  <2>4. marca'[q] = marca[q]
    BY <1>1, <1>3, <2>3
  <2>5. Precede(q, r)'
    BY <1>1, <2>3 DEF Precede
  <2>6. QED
    BY <1>1, <2>1, <2>2, <2>3, <2>4, <2>5
<1>6. ASSUME NEW q \in delante'[p]
      PROVE  /\ q \in Range(listos') /\ Precede(q, p)' /\ ~(pasos' = PorMarcar /\ q = pcb')
             /\ marca'[q] <= marca'[p]
  <2>1. q \in Asentados
    BY <1>1, <1>3, <1>6
  <2>2. q \in Range(listos) /\ ~(pasos = PorMarcar /\ q = pcb) /\ q # p /\ q \in Procesos
    BY <1>1, <1>2, <1>3, <2>1
  <2>3. marca'[p] = ahora /\ marca'[q] = marca[q]
    BY <1>1, <1>3, <2>2
  <2>4. Precede(q, p)'
    BY <1>1 DEF Precede, Range
  <2>5. QED
    BY <1>1, <1>3, <2>2, <2>3, <2>4
<1>7. QED
  BY <1>1, <1>4, <1>5, <1>6 DEF EnOrdenDeLlegada

(* It is added after them.                                                 *)
LEMMA AgregaNuevoOrden ==
  ASSUME InvHrrn, AgregaNuevo
  PROVE  EnOrdenDeLlegada'
<1>1. /\ porMarcar \in Procesos /\ porMarcar \notin Range(listos) /\ listos \in Seq(Procesos)
      /\ listos' = Append(listos, porMarcar) /\ porMarcar' = Ninguno
      /\ UNCHANGED <<pasos, pcb, marca, vigente, delante>>
  BY DEF InvHrrn, InvMarcas, TipoHrrn, CadaUnoEnSuLugar, Colocado, AgregaNuevo, desalojo, historia
<1>2. Range(listos') = Range(listos) \union {porMarcar}
  BY <1>1, RangoAgrega
<1>3. ASSUME NEW r \in Range(listos'), NEW q \in delante[r]
      PROVE  /\ q \in Range(listos') /\ Precede(q, r)' /\ ~(pasos = PorMarcar /\ q = pcb)
             /\ r \in vigente => marca[q] <= marca[r]
  <2>1. r \in Range(listos) \union ({porMarcar} \ {Ninguno})
    BY <1>1, <1>2, HrrnOK
  <2>2. /\ q \in Range(listos) /\ Precede(q, r) /\ ~(pasos = PorMarcar /\ q = pcb)
        /\ r \in vigente => marca[q] <= marca[r]
    BY <1>3, <2>1 DEF InvHrrn, EnOrdenDeLlegada
  <2>3. Precede(q, r)'
    BY <1>1, <2>2, PrecedeAlAgregar
  <2>4. QED
    BY <1>2, <2>2, <2>3
<1>4. vigente' \subseteq Range(listos') \union {porMarcar'}
  BY <1>1, <1>2 DEF InvHrrn, EnOrdenDeLlegada
<1>5. QED
  BY <1>1, <1>3, <1>4 DEF EnOrdenDeLlegada

(* Who is chosen is before nobody any more.                                *)
LEMMA EligeOrden ==
  ASSUME InvHrrn, Elige
  PROVE  EnOrdenDeLlegada'
<1>1. PICK p : p = MaximoPorR
  OBVIOUS
<1>2. PICK k \in 1 .. Len(listos) : listos[k] = p /\ listos' = RemoveAt(listos, k)
  BY <1>1, AlElegir DEF InvHrrn
<1>3. /\ listos \in Seq(Procesos) /\ IsInjective(listos) /\ p \in Procesos
      /\ Range(listos) \subseteq Procesos /\ pasos \notin ConCpu
  BY <1>1, AlElegir, RangoDeLista DEF InvHrrn, InvMarcas, TipoHrrn, CadaUnoEnSuLugar
<1>4. Range(listos') = Range(listos) \ {p}
  BY <1>2, <1>3, RangoQuita
<1>5. /\ vigente' = vigente \ {p} /\ porMarcar = Ninguno
      /\ delante' = [q \in Procesos |-> IF q = p THEN {} ELSE delante[q] \ {p}]
      /\ UNCHANGED <<marca, porMarcar, pasos, pcb>>
  BY <1>1 DEF Elige, desalojo
<1>6. ASSUME NEW r \in Range(listos'), NEW q \in delante'[r]
      PROVE  /\ q \in Range(listos') /\ Precede(q, r)' /\ ~(pasos = PorMarcar /\ q = pcb)
             /\ r \in vigente' => marca[q] <= marca[r]
  <2>1. r \in Range(listos) /\ r # p /\ q \in delante[r] /\ q # p
    BY <1>3, <1>4, <1>5, <1>6
  <2>2. /\ q \in Range(listos) /\ Precede(q, r) /\ ~(pasos = PorMarcar /\ q = pcb)
        /\ r \in vigente => marca[q] <= marca[r]
    BY <2>1 DEF InvHrrn, EnOrdenDeLlegada
  <2>3. Precede(q, r)'
    BY <1>2, <1>3, <2>2, PrecedeAlQuitar
  <2>4. QED
    BY <1>4, <1>5, <2>1, <2>2, <2>3
<1>7. vigente' \subseteq Range(listos') \union {porMarcar'}
  BY <1>4, <1>5 DEF InvHrrn, EnOrdenDeLlegada
<1>8. QED
  BY <1>5, <1>6, <1>7 DEF EnOrdenDeLlegada

(* The eviction thread adds after all that are settled.                    *)
LEMMA EntraOrden ==
  ASSUME InvHrrn, NEW p \in Procesos, EntraEnListos(p), p \notin Range(listos),
         pasos # PorMarcar, pasos' # PorMarcar \/ p = pcb,
         UNCHANGED <<pcb, marca, porMarcar, vigente>>
  PROVE  EnOrdenDeLlegada'
<1>1. /\ listos \in Seq(Procesos) /\ listos' = Append(listos, p) /\ porMarcar = Ninguno
      /\ delante' = [delante EXCEPT ![p] = Asentados] /\ DOMAIN delante = Procesos
      /\ vigente \subseteq Procesos /\ Range(listos) \subseteq Procesos
  BY RangoDeLista DEF InvHrrn, InvMarcas, TipoHrrn, EntraEnListos
<1>2. Asentados = Range(listos)
  BY AsentadosSon DEF InvHrrn, InvMarcas, TipoHrrn
<1>3. Range(listos') = Range(listos) \union {p}
  BY <1>1, RangoAgrega
<1>4. vigente \subseteq Range(listos) /\ p \notin vigente
  BY <1>1, HrrnOK DEF InvHrrn, EnOrdenDeLlegada
<1>5. ASSUME NEW r \in Range(listos'), NEW q \in delante'[r]
      PROVE  /\ q \in Range(listos') /\ Precede(q, r)' /\ ~(pasos' = PorMarcar /\ q = pcb)
             /\ r \in vigente => marca[q] <= marca[r]
  <2>1. q \in Range(listos)
    <3>1. CASE r = p
      BY <1>1, <1>2, <1>5, <3>1
    <3>2. CASE r # p
      BY <1>1, <1>3, <1>5, <3>2 DEF InvHrrn, EnOrdenDeLlegada
    <3>3. QED
      BY <3>1, <3>2
  <2>2. r = p \/ (Precede(q, r) /\ (r \in vigente => marca[q] <= marca[r]))
    BY <1>1, <1>3, <1>5 DEF InvHrrn, EnOrdenDeLlegada
  <2>3. Precede(q, r)'
    BY <1>1, <2>1, <2>2, PrecedeAlAgregar
  <2>4. QED
    BY <1>3, <1>4, <2>1, <2>2, <2>3
<1>6. QED
  BY <1>1, <1>3, <1>4, <1>5 DEF EnOrdenDeLlegada

(* The mark that was to come is written after all those before it.         *)
LEMMA MarcaOrden ==
  ASSUME InvHrrn, Marca
  PROVE  EnOrdenDeLlegada'
<1>1. /\ pasos = PorMarcar /\ pasos' # PorMarcar /\ pasos # <<>>
  BY DaMarca DEF InvHrrn, InvMarcas, TipoHrrn, Marca
<1>2. /\ marca' = [marca EXCEPT ![pcb] = ahora] /\ pcb \in Procesos
      /\ vigente' = vigente \union ({pcb} \intersect Range(listos))
      /\ UNCHANGED <<listos, porMarcar, pcb, delante>>
  BY <1>1 DEF InvHrrn, InvMarcas, TipoHrrn, Marca
<1>3. DOMAIN marca = Procesos /\ ahora \in Nat /\ Range(listos) \subseteq Procesos
      /\ \A q \in Procesos : marca[q] <= ahora /\ marca[q] \in Nat
      /\ porMarcar \in Procesos \union {Ninguno}
  BY RangoDeLista DEF InvHrrn, InvMarcas, TipoHrrn
<1>4. ASSUME NEW r \in Range(listos) \union ({porMarcar} \ {Ninguno}), NEW q \in delante[r]
      PROVE  /\ q \in Range(listos) /\ Precede(q, r)'
             /\ r \in vigente' => marca'[q] <= marca'[r]
  <2>1. /\ q \in Range(listos) /\ Precede(q, r) /\ q # pcb
        /\ r \in vigente => marca[q] <= marca[r]
    BY <1>1, <1>4 DEF InvHrrn, EnOrdenDeLlegada
  <2>2. Precede(q, r)'
    BY <1>2, <2>1 DEF Precede
  <2>3. r \in vigente' => marca'[q] <= marca'[r]
    <3>1. CASE r = pcb
      BY <1>2, <1>3, <2>1, <3>1
    <3>2. CASE r # pcb
      BY <1>2, <1>3, <1>4, <2>1, <3>2
    <3>3. QED
      BY <3>1, <3>2
  <2>4. QED
    BY <2>1, <2>2, <2>3
<1>5. vigente' \subseteq Range(listos') \union {porMarcar'}
  BY <1>2 DEF InvHrrn, EnOrdenDeLlegada
<1>6. QED
  BY <1>1, <1>2, <1>4, <1>5 DEF EnOrdenDeLlegada

(* Every step keeps the order of arrival.                                  *)
LEMMA PasoOrden == InvHrrn /\ [Next]_vars => EnOrdenDeLlegada'
<1> SUFFICES ASSUME InvHrrn, [Next]_vars PROVE EnOrdenDeLlegada'
  OBVIOUS
<1>0. pasos \in Conocidos
  BY DEF InvHrrn, InvMarcas, TipoHrrn
<1>1. CASE Pasa \/ EsperaCpu \/ EsperaListo \/ UNCHANGED vars
  <2>1. UNCHANGED <<listos, porMarcar, vigente, delante, marca, pasos, pcb>>
    BY <1>1 DEF Pasa, EsperaCpu, EsperaListo, vars, planificacion, desalojo, historia
  <2>2. QED
    BY <2>1, AjenosOrden
<1>2. CASE Toma \/ Sigue \/ Avisa
  <2>1. UNCHANGED <<listos, porMarcar, vigente, delante, marca>>
    BY <1>2 DEF Toma, Sigue, Avisa, planificacion, historia
  <2>2. pasos' # PorMarcar
    BY <1>0, <1>2, Extremos, DaSigue, DaCpu, DaListo, DaPausa DEF Toma, Sigue, Avisa
  <2>3. QED
    BY <2>1, <2>2, AjenosOrden
<1>3. ASSUME NEW op \in Operaciones \union {"EXIT"}, Vuelve(op) PROVE EnOrdenDeLlegada'
  <2>1. pasos' # PorMarcar
    BY <1>3, LoQueHaceCadaVuelta DEF Vuelve
  <2>2. UNCHANGED <<listos, porMarcar, vigente, delante, marca>>
    BY <1>3 DEF Vuelve
  <2>3. QED
    BY <2>1, <2>2, AjenosOrden
<1>4. CASE Agrega
  <2>1. pasos \in EnMano /\ pasos # PorMarcar /\ pasos # <<>>
    BY <1>0, <1>4, DaAgrega DEF Agrega
  <2>2. pcb \in Procesos /\ pcb \notin Range(listos)
    BY <2>1 DEF InvHrrn, InvMarcas, TipoHrrn, CadaUnoEnSuLugar, Colocado
  <2>3. EntraEnListos(pcb) /\ UNCHANGED <<pcb, marca, porMarcar, vigente>>
    BY <1>4 DEF Agrega
  <2>4. QED
    BY <2>1, <2>2, <2>3, EntraOrden
<1>5. CASE Despierta
  <2>1. pasos \in PorDespertar /\ pasos # PorMarcar /\ pasos' # PorMarcar
    BY <1>0, <1>5, DaDespierta DEF Despierta
  <2>2. cola \in Seq(Procesos) /\ cola # <<>> /\ IsInjective(cola)
    BY <2>1 DEF InvHrrn, InvMarcas, TipoHrrn, CadaUnoEnSuLugar
  <2>3. Head(cola) \in Procesos /\ Head(cola) \in Range(cola)
    BY <2>2, HeadTailProperties, RangoCola
  <2>4. Head(cola) \notin Range(listos)
    BY <2>3 DEF InvHrrn, InvMarcas, CadaUnoEnSuLugar
  <2>5. EntraEnListos(Head(cola)) /\ UNCHANGED <<pcb, marca, porMarcar, vigente>>
    BY <1>5 DEF Despierta
  <2>6. QED
    BY <2>1, <2>3, <2>4, <2>5, EntraOrden
<1>6. QED
  BY <1>1, <1>2, <1>3, <1>4, <1>5, MarcaNuevoOrden, AgregaNuevoOrden, EligeOrden, MarcaOrden
     DEF Next

(* Both together.                                                          *)
LEMMA PasoHrrn == InvHrrn /\ [Next]_vars => InvHrrn'
  BY PasoMarcas, PasoOrden DEF InvHrrn

(* When the dispatcher compares, the mark of every process of READY was    *)
(* written in this stay, unless it came by one of the ways that write      *)
(* none: the CPU is not posted while a mark is to come.                    *)
THEOREM MarcasAlDia == Spec => []MarcaDeEstaVez
<1>1. InvHrrn => MarcaDeEstaVez
  <2> SUFFICES ASSUME InvHrrn, dispatcher = "elige"
               PROVE  Range(listos) \subseteq vigente \union sinMarca
    BY DEF MarcaDeEstaVez
  <2>1. pasos \notin ConCpu
    BY DEF InvHrrn, InvMarcas, TipoHrrn, UnaCpu, Uno
  <2>2. pasos # PorMarcar
    BY <2>1 DEF ConCpu
  <2>3. QED
    BY <2>2 DEF InvHrrn, InvMarcas, Marcados
<1>2. QED
  BY InicioHrrn, PasoHrrn, <1>1, PTL DEF Spec

(* Only the dispatcher takes out of READY.                                 *)
LEMMA QuienSaleEsElElegido ==
  ASSUME InvHrrn, [Next]_vars, NEW p \in Range(listos), p \notin Range(listos')
  PROVE  Elige /\ p = MaximoPorR
<1>1. listos \in Seq(Procesos) /\ porMarcar \in Procesos \union {Ninguno}
  BY DEF InvHrrn, InvMarcas, TipoHrrn
<1>2. ~ \E x \in Procesos : listos' = Append(listos, x)
  <2> SUFFICES ASSUME NEW x \in Procesos, listos' = Append(listos, x) PROVE FALSE
    OBVIOUS
  <2>1. Range(listos') = Range(listos) \union {x}
    BY <1>1, RangoAgrega
  <2>2. QED
    BY <2>1
<1>3. ~AgregaNuevo
  BY <1>1, <1>2 DEF AgregaNuevo
<1>4. ~Agrega
  <2> SUFFICES ASSUME Agrega PROVE FALSE
    OBVIOUS
  <2>1. pasos # <<>> /\ pcb \in Procesos
    BY DaAgrega DEF Agrega, InvHrrn, InvMarcas, TipoHrrn
  <2>2. QED
    BY <1>2, <2>1 DEF Agrega, EntraEnListos
<1>5. ~Despierta
  <2> SUFFICES ASSUME Despierta PROVE FALSE
    OBVIOUS
  <2>1. pasos \in PorDespertar
    BY DaDespierta DEF Despierta, InvHrrn, InvMarcas, TipoHrrn
  <2>2. Head(cola) \in Procesos
    BY <2>1, HeadTailProperties DEF InvHrrn, InvMarcas, TipoHrrn, CadaUnoEnSuLugar
  <2>3. QED
    BY <1>2, <2>2 DEF Despierta, EntraEnListos
<1>6. Elige
  <2>1. listos' # listos
    OBVIOUS
  <2>2. QED
    BY <1>3, <1>4, <1>5, <2>1 DEF Next, vars, Pasa, MarcaNuevo, EsperaCpu, EsperaListo,
       Toma, Vuelve, Marca, Sigue, Avisa
<1>7. p = MaximoPorR
  <2>1. PICK m : m = MaximoPorR
    OBVIOUS
  <2>2. PICK k \in 1 .. Len(listos) : listos[k] = m /\ listos' = RemoveAt(listos, k)
    BY <1>6, <2>1, AlElegir DEF InvHrrn
  <2>3. Range(listos') = Range(listos) \ {m}
    BY <1>1, <2>2, RangoQuita DEF InvHrrn, InvMarcas, CadaUnoEnSuLugar
  <2>4. QED
    BY <2>1, <2>3
<1>8. QED
  BY <1>6, <1>7

(* A process with a mark of this stay overtakes one that was settled       *)
(* before it came only with a smaller estimate: whoever waited less wins   *)
(* the comparison of the ratios in no other way, and ties keep the order.  *)
THEOREM NadieEsAdelantado == Spec => NadieAdelanta
<1>1. ASSUME InvHrrn, [Next]_vars, NEW p \in vigente, Contains(listos, p), ~Contains(listos', p),
             NEW q \in delante[p]
      PROVE  estimacion[p] < estimacion[q]
  <2>0. InvHrrn'
    BY <1>1, PasoHrrn
  <2>1. listos \in Seq(Procesos) /\ listos' \in Seq(Procesos) /\ TipoHrrn
    BY <1>1, <2>0 DEF InvHrrn, InvMarcas, TipoHrrn
  <2>2. p \in Range(listos) /\ p \notin Range(listos') /\ p \in Procesos
    BY <1>1, <2>1, RangoDeLista
  <2>3. p = MaximoPorR
    BY <1>1, <2>2, QuienSaleEsElElegido
  <2>4. /\ q \in Range(listos) /\ Precede(q, p) /\ marca[q] <= marca[p] /\ q \in Procesos
    BY <1>1, <2>1, <2>2, RangoDeLista DEF InvHrrn, EnOrdenDeLlegada
  <2>5. listos # <<>> /\ DOMAIN listos = 1 .. Len(listos)
    BY <2>1, <2>2, LenProperties, RangoVacio
  <2>6. PICK j \in 1 .. Len(listos) :
          MaximoPorR = listos[j] /\ \A i \in 1 .. j - 1 : Gana(listos[j], listos[i])
    BY <2>1, <2>5, MaximoBien
  <2>7. PICK i \in 1 .. Len(listos) : listos[i] = q
    BY <2>4, <2>5 DEF Range
  <2>8. i < j
    BY <2>3, <2>4, <2>5, <2>6, <2>7 DEF Precede
  <2>9. Gana(p, q)
    BY <2>3, <2>6, <2>7, <2>8
  <2>10. /\ Espera(p) \in Nat /\ Espera(q) \in Nat /\ Espera(q) >= Espera(p)
         /\ estimacion[p] \in Nat /\ estimacion[q] \in Nat
    <3>1. marca[p] \in Nat /\ marca[q] \in Nat /\ ahora \in Nat
      BY <2>1, <2>2, <2>4 DEF TipoHrrn
    <3>2. QED
      BY <2>1, <2>2, <2>4, <3>1, EsperaNatural DEF Espera
  <2>11. Espera(p) * estimacion[q] > Espera(q) * estimacion[p]
    BY <2>9, <2>10 DEF Gana, Supera
  <2>12. ASSUME NEW wp \in Nat, NEW wq \in Nat, NEW ep \in Nat, NEW eq \in Nat,
                wq >= wp, wp * eq > wq * ep, ep >= eq
         PROVE  FALSE
    <3>1. wq * ep >= wp * ep
      BY <2>12
    <3>2. wp * ep >= wp * eq
      BY <2>12
    <3>3. QED
      BY <2>12, <3>1, <3>2
  <2>13. QED
    BY <2>10, <2>11, <2>12
<1>2. InvHrrn /\ [Next]_vars =>
        [\A p \in vigente : Contains(listos, p) /\ ~Contains(listos', p) =>
           \A q \in delante[p] : estimacion[p] < estimacion[q]]_vars
  BY <1>1
<1>3. QED
  BY InicioHrrn, PasoHrrn, <1>2, PTL DEF Spec, NadieAdelanta
=============================================================================
