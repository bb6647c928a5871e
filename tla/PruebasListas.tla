---------------------------- MODULE PruebasListas ----------------------------
(***************************************************************************)
(* What the operators on lists preserve, and how a list changes when an    *)
(* element comes in or goes: which ones it has, and how often.             *)
(***************************************************************************)
EXTENDS Listas, SequencesExt, SequenceTheorems, FiniteSetTheorems, FunctionTheorems, WellFoundedInduction, TLAPS

(* Taking an element out of a list leaves a list of the same kind that has  *)
(* not grown.                                                               *)
LEMMA ListRemoveElementTipo ==
  ASSUME NEW S, NEW s \in Seq(S), NEW e
  PROVE  ListRemoveElement(s, e) \in Seq(S) /\ Len(ListRemoveElement(s, e)) <= Len(s)
<1>1. Len(s) \in Nat /\ \A i \in 1..Len(s) : s[i] \in S
  BY LenProperties, ElementOfSeq
<1>2. CASE \A i \in 1..Len(s) : s[i] # e
  BY <1>1, <1>2 DEF ListRemoveElement
<1>3. CASE \E i \in 1..Len(s) : s[i] = e
  <2>1. Len(s) - 1 \in Nat
    BY <1>1, <1>3
  <2>2. ListRemoveElement(s, e) \in [1..(Len(s) - 1) -> S]
    BY <1>1, <1>3, <2>1 DEF ListRemoveElement
  <2>3. QED
    BY <1>1, <2>1, <2>2
<1>4. QED
  BY <1>2, <1>3

-----------------------------------------------------------------------------
(***************************************************************************)
(* Which elements a list has.                                              *)
(***************************************************************************)
Elementos(s) == {s[k] : k \in DOMAIN s}
SinRepetir(s) == \A j, k \in DOMAIN s : s[j] = s[k] => j = k

LEMMA Vacia == Elementos(<<>>) = {} /\ SinRepetir(<<>>)
  BY DEF Elementos, SinRepetir

LEMMA AlFinal ==
  ASSUME NEW S, NEW s \in Seq(S), NEW e \in S
  PROVE  /\ Append(s, e) \in Seq(S)
         /\ Elementos(Append(s, e)) = Elementos(s) \cup {e}
         /\ SinRepetir(s) /\ e \notin Elementos(s) => SinRepetir(Append(s, e))
<1>1. /\ Append(s, e) \in Seq(S)
      /\ Len(s) \in Nat /\ DOMAIN s = 1..Len(s)
      /\ DOMAIN Append(s, e) = 1..(Len(s) + 1)
      /\ \A k \in 1..Len(s) : Append(s, e)[k] = s[k]
      /\ Append(s, e)[Len(s) + 1] = e
  BY LenProperties
<1>2. Elementos(Append(s, e)) = Elementos(s) \cup {e}
  <2>1. ASSUME NEW x \in Elementos(Append(s, e)) PROVE x \in Elementos(s) \cup {e}
    BY <1>1, <2>1 DEF Elementos
  <2>2. ASSUME NEW x \in Elementos(s) PROVE x \in Elementos(Append(s, e))
    BY <1>1, <2>2 DEF Elementos
  <2>3. e \in Elementos(Append(s, e))
    <3>1. Len(s) + 1 \in DOMAIN Append(s, e)
      BY <1>1
    <3>2. QED
      BY <1>1, <3>1 DEF Elementos
  <2>4. QED
    BY <2>1, <2>2, <2>3
<1>3. ASSUME SinRepetir(s), e \notin Elementos(s) PROVE SinRepetir(Append(s, e))
  <2> SUFFICES ASSUME NEW j \in 1..(Len(s) + 1), NEW k \in 1..(Len(s) + 1),
                      Append(s, e)[j] = Append(s, e)[k], j # k
               PROVE  FALSE
    BY <1>1 DEF SinRepetir
  <2>1. CASE j \in 1..Len(s) /\ k \in 1..Len(s)
    BY <1>1, <1>3, <2>1 DEF SinRepetir
  <2>2. CASE j = Len(s) + 1 /\ k \in 1..Len(s)
    BY <1>1, <1>3, <2>2 DEF Elementos
  <2>3. CASE k = Len(s) + 1 /\ j \in 1..Len(s)
    BY <1>1, <1>3, <2>3 DEF Elementos
  <2>4. QED
    BY <1>1, <2>1, <2>2, <2>3
<1>4. QED
  BY <1>1, <1>2, <1>3

LEMMA DelPrincipio ==
  ASSUME NEW S, NEW s \in Seq(S), s # <<>>
  PROVE  /\ Head(s) \in S /\ Tail(s) \in Seq(S)
         /\ Head(s) \in Elementos(s)
         /\ Elementos(Tail(s)) \subseteq Elementos(s)
         /\ SinRepetir(s) => /\ Elementos(Tail(s)) = Elementos(s) \ {Head(s)}
                             /\ SinRepetir(Tail(s))
<1>1. /\ Head(s) \in S /\ Tail(s) \in Seq(S)
      /\ Len(s) \in Nat \ {0} /\ DOMAIN s = 1..Len(s)
      /\ DOMAIN Tail(s) = 1..(Len(s) - 1)
      /\ \A k \in 1..(Len(s) - 1) : Tail(s)[k] = s[k + 1]
      /\ Head(s) = s[1]
  BY LenProperties, HeadTailProperties, EmptySeq
<1>2. Head(s) \in Elementos(s)
  <2>1. 1 \in DOMAIN s
    BY <1>1
  <2>2. QED
    BY <1>1, <2>1 DEF Elementos
<1>3. \A k \in DOMAIN Tail(s) : k + 1 \in DOMAIN s /\ Tail(s)[k] = s[k + 1]
  BY <1>1
<1>4. \A j \in DOMAIN s : j # 1 => j - 1 \in DOMAIN Tail(s) /\ Tail(s)[j - 1] = s[j]
  BY <1>1
<1>5. Elementos(Tail(s)) \subseteq Elementos(s)
  BY <1>3 DEF Elementos
<1>6. ASSUME SinRepetir(s)
      PROVE  Elementos(Tail(s)) = Elementos(s) \ {Head(s)} /\ SinRepetir(Tail(s))
  <2>1. ASSUME NEW k \in DOMAIN Tail(s) PROVE Tail(s)[k] # Head(s)
    <3>1. k + 1 \in DOMAIN s /\ k + 1 # 1 /\ 1 \in DOMAIN s
      BY <1>1, <1>3, <2>1
    <3>2. QED
      BY <1>1, <1>3, <1>6, <3>1 DEF SinRepetir
  <2>2. ASSUME NEW x \in Elementos(s), x # Head(s) PROVE x \in Elementos(Tail(s))
    <3>1. PICK j \in DOMAIN s : x = s[j]
      BY <2>2 DEF Elementos
    <3>2. j # 1
      BY <1>1, <2>2, <3>1
    <3>3. QED
      BY <1>4, <3>1, <3>2 DEF Elementos
  <2>3. SinRepetir(Tail(s))
    <3> SUFFICES ASSUME NEW j \in DOMAIN Tail(s), NEW k \in DOMAIN Tail(s), Tail(s)[j] = Tail(s)[k]
                 PROVE  j = k
      BY DEF SinRepetir
    <3>1. j + 1 = k + 1
      BY <1>3, <1>6 DEF SinRepetir
    <3>2. QED
      BY <1>1, <3>1
  <2>4. QED
    BY <1>5, <2>1, <2>2, <2>3 DEF Elementos
<1>7. QED
  BY <1>1, <1>2, <1>5, <1>6

LEMMA NoEsta ==
  ASSUME NEW S, NEW s \in Seq(S), NEW e, e \notin Elementos(s)
  PROVE  ListRemoveElement(s, e) = s
<1>1. DOMAIN s = 1..Len(s)
  BY LenProperties
<1>2. QED
  BY <1>1 DEF ListRemoveElement, Elementos

-----------------------------------------------------------------------------
(***************************************************************************)
(* How often a list has an element.                                        *)
(***************************************************************************)
Posiciones(s, e) == {k \in DOMAIN s : s[k] = e}

LEMMA VecesTipo ==
  ASSUME NEW S, NEW s \in Seq(S), NEW e
  PROVE  IsFiniteSet(Posiciones(s, e)) /\ Veces(s, e) = Cardinality(Posiciones(s, e)) /\ Veces(s, e) \in Nat
<1>1. DOMAIN s = 1..Len(s) /\ Len(s) \in Nat
  BY LenProperties
<1>2. IsFiniteSet(1..Len(s))
  BY <1>1, FS_Interval
<1>3. IsFiniteSet(Posiciones(s, e))
  BY <1>1, <1>2, FS_Subset DEF Posiciones
<1>4. QED
  BY <1>3, FS_CardinalityType DEF Veces, Posiciones

LEMMA VecesCero ==
  ASSUME NEW S, NEW s \in Seq(S), NEW e
  PROVE  Veces(s, e) = 0 <=> e \notin Elementos(s)
<1>1. Veces(s, e) = 0 <=> Posiciones(s, e) = {}
  BY VecesTipo, FS_EmptySet
<1>2. QED
  BY <1>1 DEF Posiciones, Elementos

LEMMA VecesVacia == \A e : Veces(<<>>, e) = 0
  BY FS_EmptySet DEF Veces

LEMMA VecesAlFinal ==
  ASSUME NEW S, NEW s \in Seq(S), NEW x \in S, NEW e
  PROVE  Veces(Append(s, x), e) = Veces(s, e) + Uno(x = e)
<1>1. /\ Append(s, x) \in Seq(S)
      /\ Len(s) \in Nat /\ DOMAIN s = 1..Len(s)
      /\ DOMAIN Append(s, x) = 1..(Len(s) + 1)
      /\ \A k \in 1..Len(s) : Append(s, x)[k] = s[k]
      /\ Append(s, x)[Len(s) + 1] = x
  BY LenProperties
<1>2. Len(s) + 1 \notin Posiciones(s, e)
  BY <1>1 DEF Posiciones
<1>3. Posiciones(Append(s, x), e) = IF x = e THEN Posiciones(s, e) \cup {Len(s) + 1} ELSE Posiciones(s, e)
  BY <1>1 DEF Posiciones
<1>4. /\ IsFiniteSet(Posiciones(s, e)) /\ Veces(s, e) = Cardinality(Posiciones(s, e)) /\ Veces(s, e) \in Nat
      /\ Veces(Append(s, x), e) = Cardinality(Posiciones(Append(s, x), e))
  BY <1>1, VecesTipo
<1>5. Cardinality(Posiciones(s, e) \cup {Len(s) + 1}) = Cardinality(Posiciones(s, e)) + 1
  BY <1>2, <1>4, FS_AddElement
<1>6. QED
  BY <1>3, <1>4, <1>5 DEF Uno

(* Elements that go on being there, from another place on *)
LEMMA Corridas ==
  ASSUME NEW A, NEW B, IsFiniteSet(A), NEW f \in [A -> B],
         \A a, b \in A : f[a] = f[b] => a = b,
         \A b \in B : \E a \in A : f[a] = b
  PROVE  Cardinality(B) = Cardinality(A)
<1>1. f \in Bijection(A, B)
  BY Fun_IsBij
<1>2. ExistsBijection(A, B)
  BY <1>1 DEF ExistsBijection
<1>3. QED
  BY <1>2, FS_Bijection

LEMMA VecesDelPrincipio ==
  ASSUME NEW S, NEW s \in Seq(S), s # <<>>, NEW e
  PROVE  Veces(s, e) = Veces(Tail(s), e) + Uno(Head(s) = e)
<1>1. /\ Tail(s) \in Seq(S)
      /\ Len(s) \in Nat \ {0} /\ DOMAIN s = 1..Len(s)
      /\ DOMAIN Tail(s) = 1..(Len(s) - 1)
      /\ \A k \in 1..(Len(s) - 1) : Tail(s)[k] = s[k + 1]
      /\ Head(s) = s[1]
  BY LenProperties, HeadTailProperties, EmptySeq
<1> DEFINE A == Posiciones(Tail(s), e)
           B == Posiciones(s, e) \ {1}
           f == [k \in A |-> k + 1]
<1>2. /\ IsFiniteSet(A) /\ Veces(Tail(s), e) = Cardinality(A) /\ Veces(Tail(s), e) \in Nat
      /\ IsFiniteSet(Posiciones(s, e)) /\ Veces(s, e) = Cardinality(Posiciones(s, e)) /\ Veces(s, e) \in Nat
  BY <1>1, VecesTipo
<1>3. Cardinality(B) = Cardinality(A)
  <2>1. A \subseteq Int /\ \A k \in A : k + 1 \in B
    BY <1>1 DEF Posiciones
  <2>2. f \in [A -> B] /\ \A a \in A : f[a] = a + 1
    BY <2>1
  <2>3. \A a, b \in A : f[a] = f[b] => a = b
    BY <2>1, <2>2
  <2>4. ASSUME NEW b \in B PROVE \E a \in A : f[a] = b
    <3>1. b - 1 \in A /\ b \in Int
      BY <1>1 DEF Posiciones
    <3>2. f[b - 1] = b
      BY <2>2, <3>1
    <3>3. QED
      BY <3>1, <3>2
  <2>5. QED
    BY <1>2, <2>2, <2>3, <2>4, Corridas
<1>4. 1 \in Posiciones(s, e) <=> Head(s) = e
  BY <1>1 DEF Posiciones
<1>5. Cardinality(B) = IF 1 \in Posiciones(s, e) THEN Cardinality(Posiciones(s, e)) - 1 ELSE Cardinality(Posiciones(s, e))
  BY <1>2, FS_RemoveElement
<1>6. QED
  BY <1>2, <1>3, <1>4, <1>5 DEF Uno

(* A set of natural numbers has a smallest one: the intervals up to its     *)
(* elements are finite sets, ordered by inclusion.                          *)
LEMMA MenorNatural ==
  ASSUME NEW M, M \subseteq Nat, M # {}
  PROVE  \E n \in M : \A k \in M : n <= k
<1> DEFINE Desde(n) == 0..n
           T == {Desde(n) : n \in M}
<1>1. T \subseteq FiniteSubsetsOf(Nat) /\ T # {}
  <2>1. ASSUME NEW n \in M PROVE IsFiniteSet(Desde(n)) /\ Desde(n) \subseteq Nat
    BY FS_Interval
  <2>2. QED
    BY <2>1 DEF FiniteSubsetsOf
<1>2. PICK x \in T : \A y \in T : ~(<<y, x>> \in StrictSubsetOrdering(Nat))
  BY <1>1, FS_StrictSubsetOrderingWellFounded, WFMin
<1>3. PICK n \in M : x = Desde(n)
  OBVIOUS
<1>4. ASSUME NEW k \in M PROVE n <= k
  <2>1. SUFFICES ASSUME k < n PROVE FALSE
    OBVIOUS
  <2>2. Desde(k) \in T /\ Desde(k) \subseteq Desde(n) /\ Desde(n) \subseteq Nat
    BY <2>1
  <2>3. n \in Desde(n) /\ n \notin Desde(k)
    BY <2>1
  <2>4. <<Desde(k), x>> \in StrictSubsetOrdering(Nat)
    BY <1>3, <2>2, <2>3 DEF StrictSubsetOrdering
  <2>5. QED
    BY <1>2, <2>2, <2>4
<1>5. QED
  BY <1>4

LEMMA VecesSinUno ==
  ASSUME NEW S, NEW s \in Seq(S), NEW x \in Elementos(s), NEW e
  PROVE  Veces(s, e) = Veces(ListRemoveElement(s, x), e) + Uno(x = e)
<1> DEFINE t == ListRemoveElement(s, x)
<1>1. /\ t \in Seq(S) /\ DOMAIN t = 1..Len(t)
      /\ Len(s) \in Nat /\ DOMAIN s = 1..Len(s)
  BY ListRemoveElementTipo, LenProperties
<1>2. \E i \in 1..Len(s) : s[i] = x
  BY <1>1 DEF Elementos
<1>3. t = [j \in 1..(Len(s) - 1) |-> IF \E i \in 1..j : s[i] = x THEN s[j + 1] ELSE s[j]]
  BY <1>2 DEF ListRemoveElement
(* the first x *)
<1>4. PICK m \in 1..Len(s) : s[m] = x /\ \A i \in 1..(m - 1) : s[i] # x
  <2> DEFINE P(n) == n \in 1..Len(s) /\ s[n] = x
             M == {n \in Nat : P(n)}
  <2>1. PICK n \in M : \A k \in M : n <= k
    <3>1. M \subseteq Nat /\ M # {}
      BY <1>1, <1>2
    <3>2. QED
      BY <3>1, MenorNatural
  <2>2. QED
    BY <1>1, <2>1
<1>5. \A j \in 1..(Len(s) - 1) : t[j] = IF j >= m THEN s[j + 1] ELSE s[j]
  <2> SUFFICES ASSUME NEW j \in 1..(Len(s) - 1) PROVE t[j] = IF j >= m THEN s[j + 1] ELSE s[j]
    OBVIOUS
  <2>1. (\E i \in 1..j : s[i] = x) <=> j >= m
    BY <1>1, <1>4
  <2>2. QED
    BY <1>3, <2>1
<1>6. DOMAIN t = 1..(Len(s) - 1)
  BY <1>3
<1> DEFINE A == Posiciones(t, e)
           B == Posiciones(s, e) \ {m}
           f == [k \in A |-> IF k >= m THEN k + 1 ELSE k]
<1>7. /\ IsFiniteSet(A) /\ Veces(t, e) = Cardinality(A) /\ Veces(t, e) \in Nat
      /\ IsFiniteSet(Posiciones(s, e)) /\ Veces(s, e) = Cardinality(Posiciones(s, e)) /\ Veces(s, e) \in Nat
  BY <1>1, VecesTipo
<1>8. Cardinality(B) = Cardinality(A)
  <2>1. A \subseteq Int /\ \A k \in A : (IF k >= m THEN k + 1 ELSE k) \in B
    BY <1>1, <1>5, <1>6 DEF Posiciones
  <2>2. f \in [A -> B] /\ \A a \in A : f[a] = IF a >= m THEN a + 1 ELSE a
    BY <2>1
  <2>3. \A a, b \in A : f[a] = f[b] => a = b
    BY <2>1, <2>2
  <2>4. ASSUME NEW b \in B PROVE \E a \in A : f[a] = b
    <3>1. b \in Int /\ b # m /\ b \in 1..Len(s) /\ s[b] = e
      BY <1>1 DEF Posiciones
    <3>2. CASE b < m
      <4>1. b \in A
        BY <1>1, <1>5, <1>6, <3>1, <3>2 DEF Posiciones
      <4>2. f[b] = b
        BY <2>2, <3>1, <3>2, <4>1
      <4>3. QED
        BY <4>1, <4>2
    <3>3. CASE b > m
      <4>1. b - 1 \in A /\ b - 1 >= m
        BY <1>1, <1>5, <1>6, <3>1, <3>3 DEF Posiciones
      <4>2. f[b - 1] = b
        BY <2>2, <3>1, <4>1
      <4>3. QED
        BY <4>1, <4>2
    <3>4. QED
      BY <3>1, <3>2, <3>3
  <2>5. IsFiniteSet(A)
    BY <1>7
  <2> HIDE DEF A, B, f
  <2>6. QED
    BY <2>2, <2>3, <2>4, <2>5, Corridas
<1>9. m \in Posiciones(s, e) <=> x = e
  BY <1>1, <1>4 DEF Posiciones
<1>10. Cardinality(B) = IF m \in Posiciones(s, e) THEN Cardinality(Posiciones(s, e)) - 1 ELSE Cardinality(Posiciones(s, e))
  BY <1>7, FS_RemoveElement
<1>11. QED
  BY <1>7, <1>8, <1>9, <1>10 DEF Uno

-----------------------------------------------------------------------------
(***************************************************************************)
(* How often the lists L[q], one for each q in P, have an element.         *)
(***************************************************************************)
Fila(q, s, e)  == {q} \X {k \in DOMAIN s : s[k] = e}
Pares(P, L, e) == UNION {Fila(q, L[q], e) : q \in P}

LEMMA ParesDeUno ==
  ASSUME NEW S, NEW q, NEW s \in Seq(S), NEW e
  PROVE  /\ IsFiniteSet(Fila(q, s, e))
         /\ Cardinality(Fila(q, s, e)) = Veces(s, e)
<1> DEFINE A == Posiciones(s, e)
           B == {q} \X A
           f == [k \in A |-> <<q, k>>]
<1>1. IsFiniteSet(A) /\ Veces(s, e) = Cardinality(A)
  BY VecesTipo
<1>2. f \in [A -> B] /\ \A a \in A : f[a] = <<q, a>>
  OBVIOUS
<1>3. \A a, b \in A : f[a] = f[b] => a = b
  BY <1>2
<1>4. ASSUME NEW b \in B PROVE \E a \in A : f[a] = b
  BY <1>2
<1>5. f \in Bijection(A, B)
  BY <1>2, <1>3, <1>4, Fun_IsBij
<1>6. ExistsBijection(A, B)
  BY <1>5 DEF ExistsBijection
<1> HIDE DEF A, B, f
<1>7. IsFiniteSet(B) /\ Cardinality(B) = Cardinality(A)
  BY <1>1, <1>6, FS_Bijection
<1>8. QED
  BY <1>1, <1>7 DEF A, B, Fila, Posiciones

(* Only the list of p changes.                                               *)
ListasDe(P, S) == [P -> Seq(S)]

LEMMA UnaLista ==
  ASSUME NEW S, NEW P, NEW L \in ListasDe(P, S), NEW M \in ListasDe(P, S), NEW p \in P,
         \A q \in P \ {p} : M[q] = L[q], NEW e, IsFiniteSet(Pares(P, L, e))
  PROVE  /\ IsFiniteSet(Pares(P, M, e))
         /\ Cardinality(Pares(P, M, e)) \in Nat /\ Cardinality(Pares(P, L, e)) \in Nat
         /\ Cardinality(Pares(P, M, e)) + Veces(L[p], e) = Cardinality(Pares(P, L, e)) + Veces(M[p], e)
<1> DEFINE R == Pares(P \ {p}, L, e)
           A == Fila(p, L[p], e)
           B == Fila(p, M[p], e)
<1>1. Pares(P, L, e) = R \cup A /\ R \cap A = {}
  BY DEF Pares, Fila
<1>2. Pares(P, M, e) = R \cup B /\ R \cap B = {}
  BY DEF Pares, Fila
<1>3. IsFiniteSet(A) /\ Cardinality(A) = Veces(L[p], e)
      /\ IsFiniteSet(B) /\ Cardinality(B) = Veces(M[p], e)
  <2>1. L[p] \in Seq(S) /\ M[p] \in Seq(S)
    BY DEF ListasDe
  <2>2. \A s \in Seq(S) : /\ IsFiniteSet(Fila(p, s, e))
                          /\ Cardinality(Fila(p, s, e)) = Veces(s, e)
    BY ParesDeUno
  <2>3. QED
    BY <2>1, <2>2
<1>4. IsFiniteSet(R)
  BY <1>1, FS_Subset
<1> HIDE DEF R, A, B
<1>5. /\ Cardinality(R) \in Nat /\ Cardinality(A) \in Nat /\ Cardinality(B) \in Nat
      /\ Cardinality({}) = 0
  BY <1>3, <1>4, FS_CardinalityType, FS_EmptySet
<1>6. IsFiniteSet(R \cup A) /\ Cardinality(R \cup A) = Cardinality(R) + Cardinality(A)
  <2>1. /\ IsFiniteSet(R \cup A)
        /\ Cardinality(R \cup A) = Cardinality(R) + Cardinality(A) - Cardinality(R \cap A)
    BY <1>3, <1>4, FS_Union
  <2>2. Cardinality(R \cap A) = 0
    BY <1>1, <1>5
  <2>3. QED
    BY <1>5, <2>1, <2>2
<1>7. IsFiniteSet(R \cup B) /\ Cardinality(R \cup B) = Cardinality(R) + Cardinality(B)
  <2>1. /\ IsFiniteSet(R \cup B)
        /\ Cardinality(R \cup B) = Cardinality(R) + Cardinality(B) - Cardinality(R \cap B)
    BY <1>3, <1>4, FS_Union
  <2>2. Cardinality(R \cap B) = 0
    BY <1>2, <1>5
  <2>3. QED
    BY <1>5, <2>1, <2>2
<1>8. QED
  BY <1>1, <1>2, <1>3, <1>5, <1>6, <1>7

-----------------------------------------------------------------------------
(***************************************************************************)
(* FlattenSeq: the function it chooses is there for every length, and      *)
(* there is one.                                                           *)
(***************************************************************************)
Aplana(q, f, n) == f = [i \in 1 .. n |-> IF i = 1 THEN q[i] ELSE f[i - 1] \o q[i]]

LEMMA AplanaUno ==
  ASSUME NEW q, NEW f, NEW n \in Nat, Aplana(q, f, n), NEW i \in 1 .. n
  PROVE  f[i] = IF i = 1 THEN q[i] ELSE f[i - 1] \o q[i]
<1>1. f = [j \in 1 .. n |-> IF j = 1 THEN q[j] ELSE f[j - 1] \o q[j]]
  BY DEF Aplana
<1>2. [j \in 1 .. n |-> IF j = 1 THEN q[j] ELSE f[j - 1] \o q[j]][i] = IF i = 1 THEN q[i] ELSE f[i - 1] \o q[i]
  OBVIOUS
<1>3. QED
  BY <1>1, <1>2

LEMMA HayUna ==
  ASSUME NEW q, NEW n \in Nat
  PROVE  \E f : Aplana(q, f, n)
<1> DEFINE M == {m \in Nat : ~ \E f : Aplana(q, f, m)}
<1>1. SUFFICES ASSUME M # {} PROVE FALSE
  OBVIOUS
<1>2. PICK m \in M : \A k \in M : m <= k
  BY <1>1, MenorNatural
<1>3. m \in Nat /\ ~ \E f : Aplana(q, f, m)
  BY <1>2
<1>4. m # 0
  <2>1. Aplana(q, [i \in 1 .. 0 |-> 0], 0)
    BY DEF Aplana
  <2>2. QED
    BY <1>3, <2>1
<1>5. m - 1 \in Nat /\ m - 1 \notin M
  BY <1>2, <1>3, <1>4
<1>6. PICK f : Aplana(q, f, m - 1)
  BY <1>5
<1> DEFINE g == [i \in 1 .. m |-> IF i = m THEN IF m = 1 THEN q[m] ELSE f[m - 1] \o q[m] ELSE f[i]]
<1>7. ASSUME NEW i \in 1 .. m
      PROVE  g[i] = IF i = 1 THEN q[i] ELSE g[i - 1] \o q[i]
  <2>1. CASE i = m
    <3>1. m # 1 => g[m - 1] = f[m - 1]
      BY <1>3, <1>4
    <3>2. QED
      BY <1>3, <2>1, <3>1
  <2>2. CASE i # m
    <3>1. i \in 1 .. m - 1 /\ (i # 1 => i - 1 \in 1 .. m - 1)
      BY <1>3, <2>2
    <3>2. f[i] = IF i = 1 THEN q[i] ELSE f[i - 1] \o q[i]
      BY <1>5, <1>6, <3>1, AplanaUno
    <3>3. g[i] = f[i] /\ (i # 1 => g[i - 1] = f[i - 1])
      BY <1>3, <2>2, <3>1
    <3>4. QED
      BY <3>2, <3>3
  <2>3. QED
    BY <2>1, <2>2
<1>8. Aplana(q, g, m)
  <2>1. g = [i \in 1 .. m |-> g[i]]
    OBVIOUS
  <2> HIDE DEF g
  <2>2. QED
    BY <1>7, <2>1 DEF Aplana
<1>9. QED
  BY <1>3, <1>8

LEMMA HayUnaSola ==
  ASSUME NEW q, NEW f, NEW g, NEW n \in Nat, NEW l \in Nat, n <= l, Aplana(q, f, n), Aplana(q, g, l)
  PROVE  \A i \in 1 .. n : f[i] = g[i]
<1> DEFINE M == {m \in 1 .. n : f[m] # g[m]}
<1>1. SUFFICES ASSUME M # {} PROVE FALSE
  OBVIOUS
<1>2. PICK m \in M : \A k \in M : m <= k
  <2>1. M \subseteq Nat
    OBVIOUS
  <2>2. QED
    BY <1>1, <2>1, MenorNatural
<1>3. m \in 1 .. n /\ m \in 1 .. l /\ f[m] # g[m]
  OBVIOUS
<1>4. /\ f[m] = IF m = 1 THEN q[m] ELSE f[m - 1] \o q[m]
      /\ g[m] = IF m = 1 THEN q[m] ELSE g[m - 1] \o q[m]
  BY <1>3, AplanaUno
<1>5. m # 1
  BY <1>3, <1>4
<1>6. m - 1 \in 1 .. n /\ ~(m <= m - 1)
  BY <1>3, <1>5
<1>7. f[m - 1] = g[m - 1]
  BY <1>2, <1>6
<1>8. QED
  BY <1>3, <1>4, <1>7

LEMMA AplanaDos ==
  ASSUME NEW q, NEW r, NEW f, NEW n \in Nat, Aplana(q, f, n), \A i \in 1 .. n : r[i] = q[i]
  PROVE  Aplana(r, f, n)
  BY DEF Aplana

LEMMA SeElige ==
  ASSUME NEW q, NEW n \in Nat, n # 0, Len(q) = n
  PROVE  \E f : Aplana(q, f, n) /\ FlattenSeq(q) = f[n]
<1>1. FlattenSeq(q) = (CHOOSE f : f = [i \in 1 .. n |-> IF i = 1 THEN q[i] ELSE f[i - 1] \o q[i]])[n]
  BY DEF FlattenSeq
<1>2. PICK f : f = (CHOOSE h : Aplana(q, h, n))
  OBVIOUS
<1>3. Aplana(q, f, n)
  BY <1>2, HayUna
<1>4. FlattenSeq(q) = f[n]
  BY <1>1, <1>2 DEF Aplana
<1>5. QED
  BY <1>3, <1>4

LEMMA AplanarVacia == FlattenSeq(<<>>) = <<>>
  BY DEF FlattenSeq

LEMMA AplanarMas ==
  ASSUME NEW S, NEW q \in Seq(Seq(S)), NEW e \in Seq(S), FlattenSeq(q) \in Seq(S)
  PROVE  FlattenSeq(Append(q, e)) = FlattenSeq(q) \o e
<1>1. PICK r \in Seq(Seq(S)) : r = Append(q, e)
  BY AppendProperties
<1>2. PICK n \in Nat : n = Len(q) /\ Len(r) = n + 1 /\ r[n + 1] = e /\ \A i \in 1 .. n : r[i] = q[i]
  BY <1>1, AppendProperties, LenProperties
<1>3. PICK l \in Nat : l = n + 1 /\ l # 0 /\ l - 1 = n /\ l \in 1 .. l
  BY <1>2
<1>4. PICK g : Aplana(r, g, l) /\ FlattenSeq(r) = g[l]
  BY <1>2, <1>3, SeElige
<1>5. g[l] = IF l = 1 THEN r[l] ELSE g[l - 1] \o r[l]
  BY <1>3, <1>4, AplanaUno
<1>6. CASE n = 0
  <2>1. q = <<>> /\ FlattenSeq(r) = e
    <3>1. q = <<>>
      BY <1>2, <1>6, EmptySeq
    <3>2. l = 1 /\ r[l] = e
      BY <1>2, <1>3, <1>6
    <3>3. QED
      BY <1>4, <1>5, <3>1, <3>2
  <2>2. FlattenSeq(q) = <<>>
    BY <2>1, AplanarVacia
  <2>3. <<>> \o e = e
    OBVIOUS
  <2>4. QED
    BY <1>1, <2>1, <2>2, <2>3
<1>7. CASE n # 0
  <2>1. PICK f : Aplana(q, f, n) /\ FlattenSeq(q) = f[n]
    BY <1>2, <1>7, SeElige
  <2>2. Aplana(r, f, n)
    BY <1>2, <2>1, AplanaDos
  <2>3. f[n] = g[n]
    <3>1. n <= l /\ n \in 1 .. n
      BY <1>2, <1>3, <1>7
    <3>2. QED
      BY <1>2, <1>3, <1>4, <2>2, <3>1, HayUnaSola
  <2>4. g[l] = g[n] \o e
    <3>1. l # 1 /\ r[l] = e
      BY <1>2, <1>3, <1>7
    <3>2. QED
      BY <1>3, <1>5, <3>1
  <2>5. QED
    BY <1>1, <1>4, <2>1, <2>3, <2>4
<1>8. QED
  BY <1>6, <1>7
=============================================================================
