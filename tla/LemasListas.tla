----------------------------- MODULE LemasListas -----------------------------
(***************************************************************************)
(* What the operations on the lists of the programs do: Append, Tail and   *)
(* RemoveAt as sets, to the elements of a list with no repetitions;        *)
(* InsertAt and RemoveAt by position. And least and greatest naturals.     *)
(***************************************************************************)
EXTENDS SequencesExt, SequenceTheorems, WellFoundedInduction, TLAPS

(* The elements of a list are those at its positions.                      *)
LEMMA RangoDeLista ==
  ASSUME NEW S, NEW s \in Seq(S)
  PROVE  /\ DOMAIN s = 1..Len(s) /\ Len(s) \in Nat
         /\ Range(s) \subseteq S
         /\ \A x : Contains(s, x) <=> x \in Range(s)
         /\ \A i \in 1..Len(s) : s[i] \in Range(s)
  BY LenProperties, ElementOfSeq DEF Range, Contains

(* The empty list has no elements and repeats none.                        *)
LEMMA RangoVacio == Range(<<>>) = {} /\ IsInjective(<<>>)
  BY DEF Range, IsInjective

(* list_add adds its element, and repeats it only if it was there.         *)
LEMMA RangoAgrega ==
  ASSUME NEW S, NEW s \in Seq(S), NEW p \in S
  PROVE  /\ Range(Append(s, p)) = Range(s) \union {p}
         /\ IsInjective(s) /\ p \notin Range(s) => IsInjective(Append(s, p))
  BY AppendProperties, RangoDeLista DEF Range, IsInjective

(* list_remove of index 0 takes the head out, and it was there once.       *)
LEMMA RangoCola ==
  ASSUME NEW S, NEW s \in Seq(S), s # <<>>, IsInjective(s)
  PROVE  /\ Head(s) \in Range(s)
         /\ Range(Tail(s)) = Range(s) \ {Head(s)}
         /\ IsInjective(Tail(s))
<1>1. /\ Len(s) \in Nat /\ Len(s) >= 1 /\ DOMAIN s = 1..Len(s)
      /\ Head(s) = s[1]
      /\ DOMAIN Tail(s) = 1..(Len(s) - 1)
      /\ \A i \in 1..(Len(s) - 1) : Tail(s)[i] = s[i + 1]
  BY HeadTailProperties, LenProperties, EmptySeq, RangoDeLista
<1> DEFINE t == Tail(s)
<1> HIDE DEF t
<1>2. Head(s) \in Range(s)
  BY <1>1 DEF Range
<1>3. ASSUME NEW i \in DOMAIN t PROVE t[i] \in Range(s) /\ t[i] # s[1]
  BY <1>1 DEF Range, IsInjective, t
<1>4. ASSUME NEW x \in Range(s), x # s[1] PROVE x \in Range(t)
  <2>1. PICK i \in DOMAIN s : x = s[i]
    BY DEF Range
  <2>2. i - 1 \in DOMAIN t /\ t[i - 1] = x
    BY <1>1, <1>4, <2>1 DEF t
  <2>3. QED
    BY <2>2 DEF Range
<1>5. IsInjective(t)
  BY <1>1 DEF IsInjective, t
<1>6. QED
  BY <1>1, <1>2, <1>3, <1>4, <1>5 DEF Range, t

(* Where each element is after a removal.                                  *)
LEMMA QuitarPosiciones ==
  ASSUME NEW S, NEW s \in Seq(S), NEW i \in 1 .. Len(s)
  PROVE  /\ RemoveAt(s, i) \in Seq(S) /\ Len(RemoveAt(s, i)) = Len(s) - 1
         /\ \A j \in 1 .. Len(s) - 1 : RemoveAt(s, i)[j] = IF j < i THEN s[j] ELSE s[j + 1]
<1> DEFINE a == SubSeq(s, 1, i - 1)
           b == SubSeq(s, i + 1, Len(s))
<1>0. Len(s) \in Nat
  BY LenProperties
<1>1. /\ a \in Seq(S) /\ Len(a) = i - 1
      /\ \A j \in 1 .. i - 1 : a[j] = s[j]
  BY <1>0, SubSeqProperties
<1>2. /\ b \in Seq(S) /\ Len(b) = Len(s) - i
      /\ \A j \in 1 .. Len(s) - i : b[j] = s[i + j]
  BY <1>0, SubSeqProperties
<1> HIDE DEF a, b
<1>3. /\ a \o b \in Seq(S) /\ Len(a \o b) = Len(s) - 1
      /\ \A j \in 1 .. Len(s) - 1 : (a \o b)[j] = IF j < i THEN s[j] ELSE s[j + 1]
  <2>1. /\ a \o b \in Seq(S) /\ Len(a \o b) = Len(a) + Len(b)
        /\ \A j \in 1 .. Len(a) + Len(b) :
             (a \o b)[j] = IF j <= Len(a) THEN a[j] ELSE b[j - Len(a)]
    BY <1>1, <1>2, ConcatProperties
  <2>2. PICK w : w = a \o b
    OBVIOUS
  <2>3. /\ w \in Seq(S) /\ Len(w) = Len(s) - 1
        /\ \A j \in 1 .. Len(s) - 1 :
             w[j] = IF j <= i - 1 THEN a[j] ELSE b[j - (i - 1)]
    <3>1. Len(a) = i - 1 /\ Len(a) + Len(b) = Len(s) - 1
      BY <1>0, <1>1, <1>2
    <3>2. QED
      BY <2>1, <2>2, <3>1
  <2>4. \A j \in 1 .. Len(s) - 1 : w[j] = IF j < i THEN s[j] ELSE s[j + 1]
    <3> SUFFICES ASSUME NEW j \in 1 .. Len(s) - 1
                 PROVE  w[j] = IF j < i THEN s[j] ELSE s[j + 1]
      OBVIOUS
    <3>1. CASE j < i
      BY <1>0, <1>1, <2>3, <3>1
    <3>2. CASE ~ (j < i)
      <4>1. j - (i - 1) \in 1 .. Len(s) - i /\ i + (j - (i - 1)) = j + 1 /\ ~ (j <= i - 1)
        BY <1>0, <3>2
      <4>2. b[j - (i - 1)] = s[j + 1]
        BY <1>2, <4>1
      <4>3. QED
        BY <2>3, <3>2, <4>1, <4>2
    <3>3. QED
      BY <3>1, <3>2
  <2>5. QED
    BY <2>2, <2>3, <2>4
<1>4. QED
  BY <1>3 DEF RemoveAt, a, b

(* Without position i the others stay, each once.                          *)
LEMMA RangoQuita ==
  ASSUME NEW S, NEW s \in Seq(S), NEW i \in 1..Len(s), IsInjective(s)
  PROVE  /\ s[i] \in Range(s)
         /\ Range(RemoveAt(s, i)) = Range(s) \ {s[i]}
         /\ IsInjective(RemoveAt(s, i))
<1> DEFINE t == RemoveAt(s, i)
<1>1. Len(s) \in Nat /\ DOMAIN s = 1..Len(s)
  BY LenProperties
<1>2. /\ t \in Seq(S) /\ Len(t) = Len(s) - 1
      /\ \A j \in 1..(Len(s) - 1) : t[j] = IF j < i THEN s[j] ELSE s[j + 1]
  BY QuitarPosiciones
<1> HIDE DEF t
<1>3. /\ DOMAIN t = 1..(Len(s) - 1)
      /\ \A j \in 1..(Len(s) - 1) : t[j] = IF j < i THEN s[j] ELSE s[j + 1]
  BY <1>2, LenProperties
<1>4. ASSUME NEW j \in DOMAIN t PROVE t[j] \in Range(s) /\ t[j] # s[i]
  BY <1>1, <1>3, SMTT(30) DEF Range, IsInjective
<1>5. ASSUME NEW x \in Range(s), x # s[i] PROVE x \in Range(t)
  <2>1. PICK j \in DOMAIN s : x = s[j]
    BY DEF Range
  <2>2. CASE j < i
    BY <1>1, <1>3, <2>1, <2>2 DEF Range
  <2>3. CASE j > i
    <3>1. j - 1 \in DOMAIN t /\ t[j - 1] = x
      BY <1>1, <1>3, <2>1, <2>3
    <3>2. QED
      BY <3>1 DEF Range
  <2>4. QED
    BY <1>1, <1>5, <2>1, <2>2, <2>3
<1>6. IsInjective(t)
  <2> SUFFICES ASSUME NEW j \in DOMAIN t, NEW k \in DOMAIN t, t[j] = t[k]
               PROVE  j = k
    BY DEF IsInjective
  <2> DEFINE m(n) == IF n < i THEN n ELSE n + 1
  <2>1. m(j) \in DOMAIN s /\ m(k) \in DOMAIN s /\ s[m(j)] = s[m(k)]
    BY <1>1, <1>3
  <2>2. m(j) = m(k)
    BY <2>1 DEF IsInjective
  <2>3. QED
    BY <1>1, <1>3, <2>2
<1>7. QED
  BY <1>1, <1>4, <1>5, <1>6 DEF Range, t

(* Where each element is after an insertion.                               *)
LEMMA InsertarPosiciones ==
  ASSUME NEW S, NEW s \in Seq(S), NEW i \in 1 .. Len(s) + 1, NEW e \in S
  PROVE  /\ InsertAt(s, i, e) \in Seq(S) /\ Len(InsertAt(s, i, e)) = Len(s) + 1
         /\ \A j \in 1 .. Len(s) + 1 :
              InsertAt(s, i, e)[j] = IF j < i THEN s[j] ELSE IF j = i THEN e ELSE s[j - 1]
<1> DEFINE a == SubSeq(s, 1, i - 1)
           b == SubSeq(s, i, Len(s))
           u == <<e>>
<1>0. Len(s) \in Nat
  BY LenProperties
<1>1. /\ a \in Seq(S) /\ Len(a) = i - 1
      /\ \A j \in 1 .. i - 1 : a[j] = s[j]
  BY <1>0, SubSeqProperties
<1>2. /\ b \in Seq(S) /\ Len(b) = Len(s) - i + 1
      /\ \A j \in 1 .. Len(s) - i + 1 : b[j] = s[i + j - 1]
  BY <1>0, SubSeqProperties
<1>3. u \in Seq(S) /\ Len(u) = 1 /\ u[1] = e
  OBVIOUS
<1> HIDE DEF a, b, u
<1>4. /\ a \o u \in Seq(S) /\ Len(a \o u) = i
      /\ \A j \in 1 .. i : (a \o u)[j] = IF j < i THEN s[j] ELSE e
  <2>1. /\ a \o u \in Seq(S) /\ Len(a \o u) = Len(a) + Len(u)
        /\ \A j \in 1 .. Len(a) + Len(u) :
             (a \o u)[j] = IF j <= Len(a) THEN a[j] ELSE u[j - Len(a)]
    BY <1>1, <1>3, ConcatProperties
  <2>2. PICK v : v = a \o u
    OBVIOUS
  <2>3. /\ v \in Seq(S) /\ Len(v) = i
        /\ \A j \in 1 .. i : v[j] = IF j < i THEN s[j] ELSE e
    BY <1>0, <1>1, <1>3, <2>1, <2>2, SMTT(30)
  <2>4. QED
    BY <2>2, <2>3
<1>5. PICK v : v = a \o u
  OBVIOUS
<1>6. /\ v \o b \in Seq(S) /\ Len(v \o b) = Len(s) + 1
      /\ \A j \in 1 .. Len(s) + 1 :
           (v \o b)[j] = IF j < i THEN s[j] ELSE IF j = i THEN e ELSE s[j - 1]
  <2>1. v \in Seq(S) /\ Len(v) = i /\ \A j \in 1 .. i : v[j] = IF j < i THEN s[j] ELSE e
    BY <1>4, <1>5
  <2>2. /\ v \o b \in Seq(S) /\ Len(v \o b) = Len(v) + Len(b)
        /\ \A j \in 1 .. Len(v) + Len(b) :
             (v \o b)[j] = IF j <= Len(v) THEN v[j] ELSE b[j - Len(v)]
    BY <1>2, <2>1, ConcatProperties
  <2>3. PICK w : w = v \o b
    OBVIOUS
  <2>4. /\ w \in Seq(S) /\ Len(w) = Len(s) + 1
        /\ \A j \in 1 .. Len(s) + 1 :
             w[j] = IF j <= i THEN v[j] ELSE b[j - i]
    BY <1>0, <1>2, <2>1, <2>2, <2>3
  <2>5. \A j \in 1 .. Len(s) + 1 :
           w[j] = IF j < i THEN s[j] ELSE IF j = i THEN e ELSE s[j - 1]
    <3> SUFFICES ASSUME NEW j \in 1 .. Len(s) + 1
                 PROVE  w[j] = IF j < i THEN s[j] ELSE IF j = i THEN e ELSE s[j - 1]
      OBVIOUS
    <3>1. CASE j <= i
      BY <1>0, <2>1, <2>4, <3>1
    <3>2. CASE ~ (j <= i)
      <4>1. j - i \in 1 .. Len(s) - i + 1 /\ i + (j - i) - 1 = j - 1
        BY <1>0, <3>2
      <4>2. b[j - i] = s[j - 1]
        BY <1>2, <4>1
      <4>3. QED
        BY <1>0, <2>4, <3>2, <4>2
    <3>3. QED
      BY <3>1, <3>2
  <2>6. QED
    BY <2>3, <2>4, <2>5
<1>7. QED
  BY <1>5, <1>6 DEF InsertAt, a, b, u

(* A set of naturals has a least element.                                  *)
LEMMA Primero ==
  ASSUME NEW T \in SUBSET Nat, T # {}
  PROVE  \E x \in T : \A y \in T : x <= y
<1>1. PICK x \in T : \A y \in T : <<y, x>> \notin OpToRel(<, Nat)
  BY WFMin, NatLessThanWellFounded, Zenon
<1>2. \A y \in T : <<y, x>> \notin {ss \in Nat \X Nat : ss[1] < ss[2]}
  BY <1>1, Zenon DEF OpToRel
<1>3. ASSUME NEW y \in T PROVE x <= y
  <2>1. x \in Nat /\ y \in Nat
    OBVIOUS
  <2>2. ~ (<<y, x>>[1] < <<y, x>>[2])
    BY <1>2, <2>1
  <2>3. QED
    BY <2>1, <2>2
<1>4. QED
  BY <1>3

(* The least element of a set is its Min.                                  *)
LEMMA MinimoDeNaturales ==
  ASSUME NEW S \in SUBSET Nat, S # {}
  PROVE  Min(S) \in S /\ \A x \in S : Min(S) <= x
  BY Primero DEF Min

(* A bounded set of naturals has a greatest element.                       *)
LEMMA Ultimo ==
  ASSUME NEW T \in SUBSET Nat, T # {}, NEW n \in Nat, \A x \in T : x <= n
  PROVE  \E x \in T : \A y \in T : y <= x
<1> DEFINE R == {r \in Nat : n - r \in T}
<1>1. \A x \in T : n - x \in R
  <2> SUFFICES ASSUME NEW x \in T PROVE n - x \in R
    OBVIOUS
  <2>1. x \in Nat /\ x <= n
    OBVIOUS
  <2>2. n - x \in Nat /\ n - (n - x) = x
    BY <2>1
  <2>3. QED
    BY <2>2
<1>2. R \subseteq Nat /\ R # {}
  BY <1>1
<1>3. PICK r \in R : \A q \in R : r <= q
  BY <1>2, Primero
<1>4. ASSUME NEW y \in T PROVE y <= n - r
  <2>1. r <= n - y /\ y \in Nat /\ r \in Nat
    BY <1>1, <1>3
  <2>2. QED
    BY <2>1
<1>5. QED
  BY <1>4

(* The greatest element of a bounded set is its Max.                       *)
LEMMA MaximoAcotado ==
  ASSUME NEW n \in Nat, NEW S \in SUBSET (1 .. n), S # {}
  PROVE  Max(S) \in S /\ \A x \in S : x <= Max(S)
<1>1. S \in SUBSET Nat /\ \A x \in S : x <= n
  OBVIOUS
<1>2. PICK x \in S : \A y \in S : y <= x
  BY <1>1, Ultimo
<1>3. \A y \in S : x >= y
  BY <1>1, <1>2
<1>4. QED
  BY <1>1, <1>3 DEF Max

(* The values of a list of naturals have a bound.                          *)
LEMMA Acotada ==
  ASSUME NEW n \in Nat, NEW f, \A i \in 1 .. n : f[i] \in Nat
  PROVE  \E m \in Nat : \A i \in 1 .. n : f[i] <= m
<1> DEFINE T == {k \in 0 .. n : ~ \E m \in Nat : \A i \in 1 .. k : f[i] <= m}
<1>1. SUFFICES ASSUME T # {} PROVE FALSE
  <2>1. n \in 0 .. n
    OBVIOUS
  <2>2. QED
    BY <2>1
<1>2. T \subseteq Nat
  OBVIOUS
<1>3. PICK k \in T : \A x \in T : k <= x
  BY <1>1, <1>2, Primero
<1>4. k # 0
  <2>1. \A i \in 1 .. 0 : f[i] <= 0
    OBVIOUS
  <2>2. QED
    BY <2>1
<1>5. k \in 1 .. n /\ k - 1 \in 0 .. n /\ ~ (k <= k - 1)
  BY <1>4
<1>6. k - 1 \notin T
  <2>1. \A x \in T : k <= x
    BY <1>3
  <2> HIDE DEF T
  <2>2. QED
    BY <1>5, <2>1
<1>7. PICK m \in Nat : \A i \in 1 .. k - 1 : f[i] <= m
  BY <1>5, <1>6
<1>8. PICK x \in Nat : m <= x /\ f[k] <= x
  <2>1. f[k] \in Nat
    BY <1>5
  <2>2. CASE f[k] <= m
    BY <2>2
  <2>3. CASE ~ (f[k] <= m)
    BY <2>1, <2>3
  <2>4. QED
    BY <2>2, <2>3
<1>9. ASSUME NEW i \in 1 .. k PROVE f[i] <= x
  <2>1. CASE i = k
    BY <1>8, <2>1
  <2>2. CASE i # k
    <3>1. i \in 1 .. k - 1 /\ f[i] \in Nat
      BY <1>5, <2>2
    <3>2. f[i] <= m
      BY <1>7, <3>1
    <3>3. QED
      BY <1>8, <3>1, <3>2
  <2>3. QED
    BY <2>1, <2>2
<1>10. QED
  BY <1>3, <1>9
=============================================================================
