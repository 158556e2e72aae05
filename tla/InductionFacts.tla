---------------------------- MODULE InductionFacts ----------------------------
(***************************************************************************)
(* Induction over the natural numbers, stated about sets and functions     *)
(* instead of formulas, so that first-order provers can instantiate it.    *)
(* The proof modules use it where a definition of a model is by recursion  *)
(* (Kahn's rounds) or where an argument goes along chains of dependencies. *)
(***************************************************************************)
EXTENDS Naturals, FiniteSets, SequencesExt, SequenceTheorems, FiniteSetTheorems,
        WellFoundedInduction, TLAPS

\* A set of natural numbers that is not empty has a least element.
LEMMA LeastNatural ==
  ASSUME NEW S \in SUBSET Nat, S # {}
  PROVE  \E m \in S : \A n \in S : m <= n
<1>1. PICK m \in S : \A n \in S : ~(<<n, m>> \in OpToRel(<, Nat))
  BY WFMin, NatLessThanWellFounded, Zenon
<1>2. \A n \in S : ~(n < m)
  BY <1>1, Zenon DEF OpToRel
<1> QED
  BY <1>2

\* A set of natural numbers with zero and the successor of each member has them all.
LEMMA SetInduction ==
  ASSUME NEW S, 0 \in S, \A n \in Nat : n \in S => n + 1 \in S
  PROVE  Nat \subseteq S
<1> SUFFICES ASSUME Nat \ S # {} PROVE FALSE
  OBVIOUS
<1>1. PICK m \in Nat \ S : \A n \in Nat \ S : m <= n
  BY LeastNatural
<1>2. m # 0 /\ m - 1 \in Nat
  BY <1>1
<1>3. m - 1 \in S
  BY <1>1, <1>2
<1> QED
  BY <1>1, <1>2, <1>3

\* Values determined one from the other: a function on the natural numbers exists that
\* starts with a and goes on with F.
LEMMA Iteration ==
  ASSUME NEW V, NEW a \in V, NEW F \in [V -> V]
  PROVE  \E f \in [Nat -> V] : f[0] = a /\ \A n \in Nat : f[n + 1] = F[f[n]]
<1> DEFINE Good(n) == {g \in [0..n -> V] : g[0] = a /\ \A i \in 0..n : i # n => g[i + 1] = F[g[i]]}
           Defined == {n \in Nat : Good(n) # {}}
           Agreed(n, m, g, h) == {i \in Nat : i <= n /\ i <= m => g[i] = h[i]}
<1>1. Nat \subseteq Defined
  <2>1. 0 \in Defined
    <3>1. [i \in 0..0 |-> a] \in Good(0)
      OBVIOUS
    <3> QED
      BY <3>1
  <2>2. ASSUME NEW n \in Nat, n \in Defined PROVE n + 1 \in Defined
    <3>1. PICK g \in [0..n -> V] : g[0] = a /\ \A i \in 0..n : i # n => g[i + 1] = F[g[i]]
      BY <2>2
    <3> DEFINE h == [i \in 0..(n + 1) |-> IF i <= n THEN g[i] ELSE F[g[n]]]
    <3>2. h \in [0..(n + 1) -> V] /\ h[0] = a
      BY <3>1
    <3>3. ASSUME NEW i \in 0..(n + 1), i # n + 1 PROVE h[i + 1] = F[h[i]]
      <4>1. CASE i = n
        BY <3>1, <4>1
      <4>2. CASE i # n
        <5>1. i \in 0..n /\ i + 1 \in 0..n /\ i + 1 <= n
          BY <3>3, <4>2
        <5> QED
          BY <3>1, <4>2, <5>1
      <4> QED
        BY <4>1, <4>2
    <3> HIDE DEF h
    <3>4. h \in Good(n + 1)
      BY <3>2, <3>3
    <3> QED
      BY <3>4
  <2> HIDE DEF Defined
  <2> QED
    BY <2>1, <2>2, SetInduction
<1>2. ASSUME NEW n \in Nat, NEW m \in Nat, NEW g \in Good(n), NEW h \in Good(m)
      PROVE  \A i \in Nat : i <= n /\ i <= m => g[i] = h[i]
  <2>1. 0 \in Agreed(n, m, g, h)
    OBVIOUS
  <2>2. ASSUME NEW i \in Nat, i \in Agreed(n, m, g, h) PROVE i + 1 \in Agreed(n, m, g, h)
    <3> SUFFICES ASSUME i + 1 <= n, i + 1 <= m PROVE g[i + 1] = h[i + 1]
      OBVIOUS
    <3>1. i \in 0..n /\ i # n /\ i \in 0..m /\ i # m
      OBVIOUS
    <3> QED
      BY <2>2, <3>1
  <2>3. Nat \subseteq Agreed(n, m, g, h)
    <3> HIDE DEF Agreed
    <3> QED
      BY <2>1, <2>2, SetInduction
  <2> QED
    BY <2>3
<1> DEFINE G(n) == CHOOSE g : g \in Good(n)
           f == [n \in Nat |-> G(n)[n]]
<1>3. \A n \in Nat : G(n) \in Good(n)
  BY <1>1
<1>4. \A n \in Nat : f[n] = G(n)[n]
  OBVIOUS
<1> HIDE DEF G
<1>5. f \in [Nat -> V]
  <2>1. \A n \in Nat : G(n)[n] \in V
    BY <1>3
  <2> QED
    BY <2>1
<1>6. f[0] = a
  <2>1. G(0)[0] = a
    BY <1>3
  <2> QED
    BY <2>1
<1>7. ASSUME NEW n \in Nat PROVE f[n + 1] = F[f[n]]
  <2>1. G(n) \in Good(n) /\ G(n + 1) \in Good(n + 1)
    BY <1>3
  <2>2. n \in Nat /\ n + 1 \in Nat /\ n <= n /\ n <= n + 1
    OBVIOUS
  <2>3. G(n)[n] = G(n + 1)[n]
    <3> HIDE DEF Good
    <3> QED
      BY <1>2, <2>1, <2>2
  <2>4. G(n + 1)[n + 1] = F[G(n + 1)[n]]
    BY <2>1
  <2> QED
    BY <1>4, <2>2, <2>3, <2>4
<1> HIDE DEF f
<1> QED
  BY <1>5, <1>6, <1>7

-----------------------------------------------------------------------------
(***************************************************************************)
(* Flattening (FlattenSeq).                                                *)
(***************************************************************************)
\* The partial results of flattening ss, up to its n-th sequence.
PartialAt(f, ss, i) == IF i = 1 THEN ss[i] ELSE f[i - 1] \o ss[i]
Partials(f, ss, n) == f = [i \in 1..n |-> PartialAt(f, ss, i)]

LEMMA PartialValues ==
  \A h, ss : \A n \in Nat : Partials(h, ss, n) =>
    /\ \A i \in 1..n : h[i] = PartialAt(h, ss, i)
    /\ DOMAIN h = 1..n /\ h = [i \in 1..n |-> h[i]]
<1> SUFFICES ASSUME NEW h, NEW ss, NEW n \in Nat, Partials(h, ss, n)
             PROVE  /\ \A i \in 1..n : h[i] = PartialAt(h, ss, i)
                    /\ DOMAIN h = 1..n /\ h = [i \in 1..n |-> h[i]]
  OBVIOUS
<1> DEFINE k == [i \in 1..n |-> PartialAt(h, ss, i)]
<1>1. h = k
  BY DEF Partials
<1>2. DOMAIN k = 1..n /\ \A i \in 1..n : k[i] = PartialAt(h, ss, i)
  OBVIOUS
<1>3. k = [i \in 1..n |-> k[i]]
  BY <1>2
<1> HIDE DEF k
<1> QED
  BY <1>1, <1>2, <1>3

LEMMA PartialsExist ==
  ASSUME NEW S, NEW ss \in Seq(Seq(S))
  PROVE  \A n \in Nat : n <= Len(ss) => \E f \in [1..n -> Seq(S)] : Partials(f, ss, n)
<1> DEFINE Good == {n \in Nat : n <= Len(ss) => \E f \in [1..n -> Seq(S)] : Partials(f, ss, n)}
<1>1. Len(ss) \in Nat /\ \A i \in 1..Len(ss) : ss[i] \in Seq(S)
  BY ElementOfSeq, LenProperties
<1>2. 0 \in Good
  <2> DEFINE f == [i \in 1..0 |-> << >>]
  <2>1. f \in [1..0 -> Seq(S)] /\ Partials(f, ss, 0)
    BY DEF Partials
  <2> QED
    BY <2>1
<1>3. ASSUME NEW n \in Nat, n \in Good PROVE n + 1 \in Good
  <2> SUFFICES ASSUME n + 1 <= Len(ss)
               PROVE  \E g \in [1..(n + 1) -> Seq(S)] : Partials(g, ss, n + 1)
    OBVIOUS
  <2>1. PICK f : f \in [1..n -> Seq(S)] /\ Partials(f, ss, n)
    BY <1>1, <1>3
  <2>0. Partials(f, ss, n)
    BY <2>1
  <2> DEFINE last == IF n = 0 THEN ss[1] ELSE f[n] \o ss[n + 1]
             g == [i \in 1..(n + 1) |-> IF i <= n THEN f[i] ELSE last]
  <2>2. last \in Seq(S)
    <3>1. CASE n = 0
      BY <1>1, <3>1
    <3>2. CASE n # 0
      <4>1. f[n] \in Seq(S) /\ ss[n + 1] \in Seq(S)
        BY <1>1, <2>1, <3>2
      <4> QED
        BY <3>2, <4>1, ConcatProperties
    <3> QED
      BY <3>1, <3>2
  <2>3. \A i \in 1..(n + 1) : g[i] = IF i <= n THEN f[i] ELSE last
    OBVIOUS
  <2>4. g \in [1..(n + 1) -> Seq(S)]
    BY <2>1, <2>2
  <2>5. ASSUME NEW i \in 1..(n + 1)
        PROVE  g[i] = PartialAt(g, ss, i)
    <3>1. CASE i <= n
      <4>1. f[i] = PartialAt(f, ss, i)
        <5>1. \A k \in 1..n : f[k] = PartialAt(f, ss, k)
          BY <2>0, PartialValues
        <5>2. i \in 1..n
          BY <1>3, <3>1
        <5> HIDE DEF g, last
        <5> QED
          BY <5>1, <5>2
      <4>2. i # 1 => i - 1 \in 1..(n + 1) /\ i - 1 <= n
        BY <3>1
      <4> HIDE DEF g
      <4> QED
        BY <2>3, <3>1, <4>1, <4>2 DEF PartialAt
    <3>2. CASE i = n + 1
      <4>1. n # 0 => n \in 1..(n + 1) /\ n <= n /\ i - 1 = n
        BY <3>2
      <4> HIDE DEF g
      <4> QED
        BY <2>3, <3>2, <4>1 DEF PartialAt
    <3> HIDE DEF g, last
    <3> QED
      BY <3>1, <3>2
  <2> HIDE DEF g
  <2>6. g = [i \in 1..(n + 1) |-> g[i]]
    BY <2>4
  <2>7. Partials(g, ss, n + 1)
    BY <2>5, <2>6 DEF Partials
  <2> QED
    BY <2>4, <2>7
<1> HIDE DEF Good
<1>4. Nat \subseteq Good
  BY <1>2, <1>3, SetInduction
<1> QED
  BY <1>4 DEF Good

LEMMA FlattenIsPartial ==
  ASSUME NEW S, NEW ss \in Seq(Seq(S)), ss # << >>
  PROVE  \E f \in [1..Len(ss) -> Seq(S)] : Partials(f, ss, Len(ss)) /\ FlattenSeq(ss) = f[Len(ss)]
<1>1. Len(ss) \in Nat \ {0}
  BY EmptySeq
<1> DEFINE g == CHOOSE f : Partials(f, ss, Len(ss))
<1>2. FlattenSeq(ss) = g[Len(ss)]
  <2>1. Len(ss) # 0
    BY <1>1
  <2> QED
    BY <2>1, Zenon DEF FlattenSeq, Partials, PartialAt
<1>3. PICK f : f \in [1..Len(ss) -> Seq(S)] /\ Partials(f, ss, Len(ss))
  <2>1. Len(ss) \in Nat /\ Len(ss) <= Len(ss)
    BY <1>1
  <2>2. \A n \in Nat : n <= Len(ss) =>
          \E f \in [1..n -> Seq(S)] : Partials(f, ss, n)
    BY PartialsExist
  <2> QED
    BY <2>1, <2>2, Zenon
<1>4. Partials(g, ss, Len(ss)) /\ Partials(f, ss, Len(ss))
  BY <1>3
<1> HIDE DEF g
<1>5. g = f
  <2> DEFINE Same == {i \in Nat : i \in 1..Len(ss) => g[i] = f[i]}
  <2>1. /\ \A i \in 1..Len(ss) : g[i] = PartialAt(g, ss, i)
        /\ \A i \in 1..Len(ss) : f[i] = PartialAt(f, ss, i)
        /\ DOMAIN g = 1..Len(ss) /\ DOMAIN f = 1..Len(ss)
        /\ g = [i \in 1..Len(ss) |-> g[i]] /\ f = [i \in 1..Len(ss) |-> f[i]]
    <3>1. Len(ss) \in Nat
      BY <1>1
    <3>2. /\ \A i \in 1..Len(ss) : g[i] = PartialAt(g, ss, i)
          /\ DOMAIN g = 1..Len(ss) /\ g = [i \in 1..Len(ss) |-> g[i]]
      BY <1>4, <3>1, PartialValues
    <3>3. /\ \A i \in 1..Len(ss) : f[i] = PartialAt(f, ss, i)
          /\ DOMAIN f = 1..Len(ss) /\ f = [i \in 1..Len(ss) |-> f[i]]
      BY <1>4, <3>1, PartialValues
    <3> QED
      BY <3>2, <3>3, Zenon
  <2>2. 0 \in Same
    OBVIOUS
  <2>3. ASSUME NEW i \in Nat, i \in Same PROVE i + 1 \in Same
    <3> SUFFICES ASSUME i + 1 \in 1..Len(ss) PROVE g[i + 1] = f[i + 1]
      OBVIOUS
    <3>1. CASE i = 0
      <4>0. 1 \in 1..Len(ss)
        BY <1>1
      <4>1. g[1] = ss[1] /\ f[1] = ss[1]
        BY <2>1, <4>0 DEF PartialAt
      <4> QED
        BY <3>1, <4>1
    <3>2. CASE i # 0
      <4>1. i \in 1..Len(ss) /\ g[i] = f[i] /\ i + 1 # 1 /\ (i + 1) - 1 = i
        BY <2>3, <3>2, <1>1
      <4>2. g[i + 1] = g[i] \o ss[i + 1] /\ f[i + 1] = f[i] \o ss[i + 1]
        BY <2>1, <4>1 DEF PartialAt
      <4> QED
        BY <4>1, <4>2
    <3> QED
      BY <3>1, <3>2
  <2> HIDE DEF Same
  <2>4. Nat \subseteq Same
    BY <2>2, <2>3, SetInduction
  <2>5. \A i \in 1..Len(ss) : g[i] = f[i]
    BY <2>4, <1>1 DEF Same
  <2> QED
    BY <2>1, <2>5
<1> QED
  BY <1>2, <1>3, <1>5

\* Flattening one more sequence appends it.
LEMMA FlattenAppend ==
  ASSUME NEW S, NEW ss \in Seq(Seq(S)), NEW s \in Seq(S)
  PROVE  /\ FlattenSeq(ss) \in Seq(S)
         /\ FlattenSeq(Append(ss, s)) = FlattenSeq(ss) \o s
<1> DEFINE L == Len(ss)
           tt == Append(ss, s)
<1>1. /\ L \in Nat /\ tt \in Seq(Seq(S)) /\ tt # << >> /\ Len(tt) = L + 1
      /\ \A i \in 1..L : tt[i] = ss[i]
      /\ tt[L + 1] = s
  BY AppendProperties, LenProperties
<1> HIDE DEF tt
<1>2. PICK g \in [1..(L + 1) -> Seq(S)] : Partials(g, tt, L + 1) /\ FlattenSeq(tt) = g[L + 1]
  BY <1>1, FlattenIsPartial
<1>3. \A i \in 1..(L + 1) : g[i] = PartialAt(g, tt, i)
  <2>1. L + 1 \in Nat
    BY <1>1
  <2> QED
    BY <1>2, <2>1, PartialValues
<1>4. CASE ss = << >>
  <2>1. L = 0 /\ FlattenSeq(ss) = ss
    BY <1>4, Zenon, EmptySeq DEF FlattenSeq
  <2>2. g[1] = s
    BY <1>1, <1>3, <2>1 DEF PartialAt
  <2>3. << >> \o s = s
    BY ConcatEmptySeq
  <2>4. FlattenSeq(ss) = << >> /\ << >> \in Seq(S)
    BY <1>4, <2>1
  <2>5. FlattenSeq(tt) = s
    <3>1. L + 1 = 1
      BY <2>1
    <3> QED
      BY <1>2, <2>2, <3>1
  <2> HIDE DEF L
  <2> QED
    BY <2>3, <2>4, <2>5 DEF tt
<1>5. CASE ss # << >>
  <2>1. PICK f : f \in [1..L -> Seq(S)] /\ Partials(f, ss, L) /\ FlattenSeq(ss) = f[L]
    BY <1>5, FlattenIsPartial
  <2>0. Partials(f, ss, L)
    BY <2>1
  <2>2. \A i \in 1..L : f[i] = PartialAt(f, ss, i)
    BY <1>1, <2>0, PartialValues
  <2>3. L \in 1..L
    BY <1>5, EmptySeq, <1>1
  <2> DEFINE Same == {i \in Nat : i \in 1..L => g[i] = f[i]}
  <2>4. 0 \in Same
    OBVIOUS
  <2>5. ASSUME NEW i \in Nat, i \in Same PROVE i + 1 \in Same
    <3> SUFFICES ASSUME i + 1 \in 1..L PROVE g[i + 1] = f[i + 1]
      OBVIOUS
    <3>1. CASE i = 0
      <4>1. 1 \in 1..L /\ 1 \in 1..(L + 1)
        BY <1>1, <3>1
      <4>2. g[1] = tt[1] /\ f[1] = ss[1] /\ tt[1] = ss[1]
        BY <1>1, <1>3, <2>2, <4>1 DEF PartialAt
      <4> QED
        BY <3>1, <4>2
    <3>2. CASE i # 0
      <4>1. i \in 1..L /\ g[i] = f[i] /\ i + 1 # 1 /\ (i + 1) - 1 = i /\ i + 1 \in 1..(L + 1)
        BY <2>5, <3>2, <1>1
      <4>2. g[i + 1] = g[i] \o tt[i + 1] /\ f[i + 1] = f[i] \o ss[i + 1]
        BY <1>3, <2>2, <4>1 DEF PartialAt
      <4> QED
        BY <1>1, <4>1, <4>2
    <3> QED
      BY <3>1, <3>2
  <2> HIDE DEF Same
  <2>6. Nat \subseteq Same
    BY <2>4, <2>5, SetInduction
  <2>7. g[L] = f[L]
    BY <2>3, <2>6, <1>1 DEF Same
  <2>8. g[L + 1] = g[L] \o s
    <3>1. L + 1 \in 1..(L + 1) /\ L + 1 # 1 /\ (L + 1) - 1 = L
      BY <1>1, <2>3
    <3> QED
      BY <1>1, <1>3, <3>1 DEF PartialAt
  <2>9. FlattenSeq(ss) \in Seq(S)
    BY <2>1, <2>3
  <2> QED
    BY <1>2, <2>1, <2>7, <2>8, <2>9 DEF tt
<1> QED
  BY <1>4, <1>5


\* The elements of the flattened sequence are those of its parts.
LEMMA FlattenRange ==
  ASSUME NEW S, NEW ss \in Seq(Seq(S))
  PROVE  /\ FlattenSeq(ss) \in Seq(S)
         /\ Range(FlattenSeq(ss)) = UNION {Range(ss[i]) : i \in 1..Len(ss)}
<1>1. Len(ss) \in Nat /\ \A i \in 1..Len(ss) : ss[i] \in Seq(S)
  BY ElementOfSeq, LenProperties
<1>2. CASE ss = << >>
  <2>1. FlattenSeq(ss) = << >> /\ Len(ss) = 0
    BY <1>2, Zenon, EmptySeq DEF FlattenSeq
  <2>2. Range(<< >>) = {} /\ << >> \in Seq(S)
    BY DEF Range
  <2> QED
    BY <2>1, <2>2
<1>3. CASE ss # << >>
  <2>1. PICK f : f \in [1..Len(ss) -> Seq(S)] /\ Partials(f, ss, Len(ss)) /\ FlattenSeq(ss) = f[Len(ss)]
    BY <1>3, FlattenIsPartial
  <2>2. \A i \in 1..Len(ss) : f[i] = PartialAt(f, ss, i)
    BY <1>1, <2>1, PartialValues
  <2>3. Len(ss) \in 1..Len(ss)
    BY <1>1, <1>3, EmptySeq
  <2> DEFINE Parts(n) == UNION {Range(ss[i]) : i \in 1..n}
             Good == {n \in Nat : n \in 1..Len(ss) => Range(f[n]) = Parts(n)}
  <2>4. 0 \in Good
    OBVIOUS
  <2>5. ASSUME NEW n \in Nat, n \in Good PROVE n + 1 \in Good
    <3> SUFFICES ASSUME n + 1 \in 1..Len(ss) PROVE Range(f[n + 1]) = Parts(n + 1)
      OBVIOUS
    <3>1. CASE n = 0
      <4>1. f[1] = ss[1]
        BY <2>2, <3>1 DEF PartialAt
      <4>2. Parts(1) = Range(ss[1])
        OBVIOUS
      <4> QED
        BY <3>1, <4>1, <4>2
    <3>2. CASE n # 0
      <4>1. n \in 1..Len(ss) /\ n + 1 # 1 /\ (n + 1) - 1 = n
        BY <1>1, <3>2
      <4>2. f[n + 1] = f[n] \o ss[n + 1] /\ f[n] \in Seq(S) /\ ss[n + 1] \in Seq(S)
        BY <1>1, <2>1, <2>2, <4>1 DEF PartialAt
      <4>3. Range(f[n + 1]) = Range(f[n]) \cup Range(ss[n + 1])
        BY <4>2, RangeConcatenation
      <4>4. Range(f[n]) = Parts(n)
        BY <2>5, <4>1
      <4>5. 1..(n + 1) = 1..n \cup {n + 1}
        OBVIOUS
      <4>6. Parts(n + 1) = Parts(n) \cup Range(ss[n + 1])
        BY <4>5, Zenon
      <4> QED
        BY <4>3, <4>4, <4>6
    <3> QED
      BY <3>1, <3>2
  <2> HIDE DEF Good
  <2>6. Nat \subseteq Good
    BY <2>4, <2>5, SetInduction
  <2>7. Range(f[Len(ss)]) = Parts(Len(ss))
    BY <1>1, <2>3, <2>6 DEF Good
  <2> QED
    BY <2>1, <2>3, <2>7
<1> QED
  BY <1>2, <1>3

-----------------------------------------------------------------------------
(***************************************************************************)
(* Finite sets taken apart (FoldSet), and their images.                     *)
(***************************************************************************)
ANY(s) == CHOOSE x \in s : TRUE

\* A function on the subsets of a finite set exists that appends to the value of a
\* set without some element that element.
LEMMA FoldExists ==
  ASSUME NEW S, IsFiniteSet(S)
  PROVE  \E f : f = [s \in SUBSET S |-> IF s = {} THEN << >>
                                        ELSE Append(f[s \ {ANY(s)}], ANY(s))]
<1> DEFINE D(n) == {s \in SUBSET S : Cardinality(s) <= n}
           Step(g, s) == IF s = {} THEN << >> ELSE Append(g[s \ {ANY(s)}], ANY(s))
           Good == {n \in Nat : \E g : g = [s \in D(n) |-> Step(g, s)]}
<1>1. \A s \in SUBSET S : IsFiniteSet(s) /\ Cardinality(s) \in Nat /\ Cardinality(s) <= Cardinality(S)
  BY FS_Subset, FS_CardinalityType
<1>2. \A s \in SUBSET S : s # {} =>
        ANY(s) \in s /\ s \ {ANY(s)} \in SUBSET S /\ Cardinality(s \ {ANY(s)}) = Cardinality(s) - 1
  <2> SUFFICES ASSUME NEW s \in SUBSET S, s # {}
               PROVE  ANY(s) \in s /\ s \ {ANY(s)} \in SUBSET S
                      /\ Cardinality(s \ {ANY(s)}) = Cardinality(s) - 1
    OBVIOUS
  <2>1. ANY(s) \in s
    BY DEF ANY
  <2> QED
    BY <2>1, <1>1, FS_RemoveElement
<1>3. 0 \in Good
  <2>1. \A s \in D(0) : s = {}
    BY <1>1, FS_EmptySet
  <2> DEFINE g == [s \in D(0) |-> << >>]
  <2>2. g = [s \in D(0) |-> Step(g, s)]
    BY <2>1
  <2> QED
    BY <2>2
<1>4. ASSUME NEW n \in Nat, n \in Good PROVE n + 1 \in Good
  <2>1. PICK g : g = [s \in D(n) |-> Step(g, s)]
    BY <1>4
  <2> DEFINE h == [s \in D(n + 1) |-> Step(g, s)]
  <2>2. \A s \in D(n) : g[s] = Step(g, s)
    BY <2>1
  <2>3. D(n) \subseteq D(n + 1)
    BY <1>1
  <2>4. \A s \in D(n) : h[s] = g[s]
    BY <2>2, <2>3
  <2>5. \A s \in D(n + 1) : s # {} => s \ {ANY(s)} \in D(n)
    BY <1>1, <1>2
  <2>6. \A s \in D(n + 1) : Step(g, s) = Step(h, s)
    BY <2>4, <2>5
  <2>7. h = [s \in D(n + 1) |-> Step(h, s)]
    BY <2>6
  <2> HIDE DEF h
  <2>8. \E g2 : g2 = [s \in D(n + 1) |-> Step(g2, s)]
    BY <2>7
  <2>9. n + 1 \in Nat
    OBVIOUS
  <2> HIDE DEF D, Step
  <2> QED
    BY <2>8, <2>9, Zenon
<1> HIDE DEF Good
<1>5. Nat \subseteq Good
  BY <1>3, <1>4, SetInduction
<1>6. Cardinality(S) \in Good
  BY <1>5, FS_CardinalityType
<1>7. D(Cardinality(S)) = SUBSET S
  BY <1>1
<1> QED
  BY <1>6, <1>7, Zenon DEF Good

\* Such a function lists the elements of each set.
LEMMA FoldLists ==
  ASSUME NEW S, IsFiniteSet(S),
         NEW f, f = [s \in SUBSET S |-> IF s = {} THEN << >>
                                        ELSE Append(f[s \ {ANY(s)}], ANY(s))]
  PROVE  f[S] \in Seq(S) /\ Range(f[S]) = S
<1> DEFINE Good == {n \in Nat : \A s \in SUBSET S : Cardinality(s) = n =>
                                  f[s] \in Seq(S) /\ Range(f[s]) = s}
<1>1. \A s \in SUBSET S : IsFiniteSet(s) /\ Cardinality(s) \in Nat
  BY FS_Subset, FS_CardinalityType
<1>2. \A s \in SUBSET S : f[s] = IF s = {} THEN << >> ELSE Append(f[s \ {ANY(s)}], ANY(s))
  <2> DEFINE g == [s \in SUBSET S |-> IF s = {} THEN << >>
                                      ELSE Append(f[s \ {ANY(s)}], ANY(s))]
  <2>1. \A s \in SUBSET S : g[s] = IF s = {} THEN << >> ELSE Append(f[s \ {ANY(s)}], ANY(s))
    OBVIOUS
  <2>2. f = g
    OBVIOUS
  <2> HIDE DEF g
  <2> QED
    BY <2>1, <2>2
<1>3. 0 \in Good
  <2> SUFFICES ASSUME NEW s \in SUBSET S, Cardinality(s) = 0
               PROVE  f[s] \in Seq(S) /\ Range(f[s]) = s
    OBVIOUS
  <2>1. s = {}
    BY <1>1, FS_EmptySet
  <2>2. f[s] = << >>
    BY <1>2, <2>1
  <2> QED
    BY <2>1, <2>2 DEF Range
<1>4. ASSUME NEW n \in Nat, n \in Good PROVE n + 1 \in Good
  <2>0. n + 1 \in Nat
    OBVIOUS
  <2> SUFFICES ASSUME NEW s \in SUBSET S, Cardinality(s) = n + 1
               PROVE  f[s] \in Seq(S) /\ Range(f[s]) = s
    BY <2>0, Zenon
  <2> DEFINE x == ANY(s)
             r == s \ {x}
  <2>1. s # {} /\ x \in s
    <3>1. s # {}
      BY <1>1, FS_EmptySet
    <3> QED
      BY <3>1 DEF ANY
  <2>2. f[s] = Append(f[r], x)
    BY <1>2, <2>1
  <2>3. r \in SUBSET S /\ Cardinality(r) = n
    BY <1>1, <2>1, FS_RemoveElement
  <2>4. f[r] \in Seq(S) /\ Range(f[r]) = r
    BY <1>4, <2>3
  <2> HIDE DEF x, r
  <2>5. <<x>> \in Seq(S) /\ Range(<<x>>) = {x} /\ x \in S
    BY <2>1 DEF Range
  <2>6. Append(f[r], x) = f[r] \o <<x>>
    BY <2>4, <2>5, AppendIsConcat
  <2>7. f[r] \o <<x>> \in Seq(S) /\ Range(f[r] \o <<x>>) = r \cup {x}
    <3>1. \A a, b \in Seq(S) : a \o b \in Seq(S) /\ Range(a \o b) = Range(a) \cup Range(b)
      BY ConcatProperties, RangeConcatenation
    <3> QED
      BY <2>4, <2>5, <3>1, Zenon
  <2> QED
    BY <2>1, <2>2, <2>6, <2>7 DEF r
<1> HIDE DEF Good
<1>5. Nat \subseteq Good
  BY <1>3, <1>4, SetInduction
<1>6. Cardinality(S) \in Good
  BY <1>5, FS_CardinalityType
<1> QED
  BY <1>6 DEF Good

\* The image of a finite set under a function is finite.
LEMMA FiniteImage ==
  ASSUME NEW f, IsFiniteSet(DOMAIN f)
  PROVE  IsFiniteSet({f[x] : x \in DOMAIN f})
<1> DEFINE g == [x \in DOMAIN f |-> f[x]]
           T == {f[x] : x \in DOMAIN f}
<1>1. g \in Surjection(DOMAIN f, T)
  BY DEF Surjection
<1> QED
  BY <1>1, FS_Surjection

-----------------------------------------------------------------------------
(***************************************************************************)
(* Sets built by recursion on sets: of a finite set U, what some elements   *)
(* need, directly or not, by a function N; and what is left of some when    *)
(* those that need none of the rest are taken away again and again.         *)
(***************************************************************************)
Widened(N, S) == S \cup UNION {N[i] : i \in S}
Trimmed(N, S) == {i \in S : N[i] \cap S # {}}
IsClosure(c, U, N) ==
  c = [S \in SUBSET U |-> IF Widened(N, S) = S THEN S ELSE c[Widened(N, S)]]
IsCore(c, U, N) ==
  c = [S \in SUBSET U |-> IF Trimmed(N, S) = S THEN S ELSE c[Trimmed(N, S)]]

LEMMA SubsetsOfFinite ==
  ASSUME NEW U, IsFiniteSet(U)
  PROVE  /\ Cardinality(U) \in Nat
         /\ \A S \in SUBSET U : Cardinality(S) \in Nat /\ Cardinality(S) <= Cardinality(U)
         /\ \A S, T \in SUBSET U : S \subseteq T /\ S # T => Cardinality(S) < Cardinality(T)
<1>1. \A S \in SUBSET U : IsFiniteSet(S) /\ Cardinality(S) \in Nat /\ Cardinality(S) <= Cardinality(U)
  BY FS_Subset, FS_CardinalityType
<1>2. ASSUME NEW S \in SUBSET U, NEW T \in SUBSET U, S \subseteq T, S # T
      PROVE  Cardinality(S) < Cardinality(T)
  <2>1. IsFiniteSet(T) /\ S \in SUBSET T
    BY <1>1, <1>2
  <2>2. Cardinality(S) <= Cardinality(T) /\ Cardinality(S) # Cardinality(T)
    BY <1>2, <2>1, FS_Subset
  <2> QED
    BY <1>1, <2>2
<1> QED
  BY <1>1, <1>2, FS_CardinalityType

LEMMA ClosureExists ==
  ASSUME NEW U, NEW N \in [U -> SUBSET U]
  PROVE  \E c : IsClosure(c, U, N)
<1> DEFINE Least(S) == {x \in U : \A X \in SUBSET U :
                          S \subseteq X /\ Widened(N, X) = X => x \in X}
           c == [S \in SUBSET U |-> Least(S)]
<1>1. ASSUME NEW S \in SUBSET U
      PROVE  /\ Widened(N, S) \in SUBSET U
             /\ Widened(N, S) = S => Least(S) = S
             /\ Least(Widened(N, S)) = Least(S)
  <2>1. Widened(N, S) \in SUBSET U /\ S \subseteq Widened(N, S)
    BY DEF Widened
  <2>2. \A X \in SUBSET U : Widened(N, X) = X =>
          (S \subseteq X <=> Widened(N, S) \subseteq X)
    BY <2>1 DEF Widened
  <2>3. Widened(N, S) = S => Least(S) = S
    OBVIOUS
  <2>4. Least(Widened(N, S)) = Least(S)
    BY <2>2, Zenon
  <2> QED
    BY <2>1, <2>3, <2>4
<1>2. c = [S \in SUBSET U |-> IF Widened(N, S) = S THEN S ELSE c[Widened(N, S)]]
  <2> HIDE DEF Least
  <2> QED
    BY <1>1
<1> HIDE DEF c
<1> QED
  BY <1>2 DEF IsClosure

\* It is the least set that contains what its elements need.
LEMMA ClosureIsLeast ==
  ASSUME NEW U, IsFiniteSet(U), NEW N \in [U -> SUBSET U],
         NEW c, IsClosure(c, U, N), NEW S0 \in SUBSET U
  PROVE  /\ c[S0] \in SUBSET U /\ S0 \subseteq c[S0]
         /\ \A i \in c[S0] : N[i] \subseteq c[S0]
         /\ \A X \in SUBSET U : S0 \subseteq X /\ (\A i \in X : N[i] \subseteq X) => c[S0] \subseteq X
<1> DEFINE Fine(S) == /\ c[S] \in SUBSET U /\ S \subseteq c[S]
                      /\ \A i \in c[S] : N[i] \subseteq c[S]
                      /\ \A X \in SUBSET U : S \subseteq X /\ (\A i \in X : N[i] \subseteq X)
                                               => c[S] \subseteq X
           Rest(S) == Cardinality(U) - Cardinality(S)
           Good == {n \in Nat : \A S \in SUBSET U : Rest(S) < n => Fine(S)}
<1>1. \A S \in SUBSET U : c[S] = IF Widened(N, S) = S THEN S ELSE c[Widened(N, S)]
  <2> DEFINE g == [S \in SUBSET U |-> IF Widened(N, S) = S THEN S ELSE c[Widened(N, S)]]
  <2>1. \A S \in SUBSET U : g[S] = IF Widened(N, S) = S THEN S ELSE c[Widened(N, S)]
    OBVIOUS
  <2>2. c = g
    BY DEF IsClosure
  <2> HIDE DEF g
  <2> QED
    BY <2>1, <2>2
<1>2. \A S \in SUBSET U : Rest(S) \in Nat
  BY SubsetsOfFinite
<1>3. 0 \in Good
  BY <1>2
<1>4. ASSUME NEW n \in Nat, n \in Good PROVE n + 1 \in Good
  <2> SUFFICES ASSUME NEW S \in SUBSET U, Rest(S) < n + 1 PROVE Fine(S)
    <3> n + 1 \in Nat
      OBVIOUS
    <3> HIDE DEF Fine, Rest
    <3> QED
      OBVIOUS
  <2> DEFINE T == Widened(N, S)
  <2>1. T \in SUBSET U /\ S \subseteq T /\ \A i \in S : N[i] \subseteq T
    BY DEF Widened
  <2>2. CASE T = S
    <3>1. c[S] = S
      BY <1>1, <2>2
    <3>2. \A i \in S : N[i] \subseteq S
      BY <2>1, <2>2
    <3> HIDE DEF T
    <3> QED
      BY <3>1, <3>2
  <2>3. CASE T # S
    <3>1. c[S] = c[T]
      BY <1>1, <2>3
    <3>2. Rest(T) < n
      <4>1. Cardinality(S) < Cardinality(T)
        BY <2>1, <2>3, SubsetsOfFinite
      <4>2. Cardinality(S) \in Nat /\ Cardinality(T) \in Nat /\ Cardinality(U) \in Nat
        BY <2>1, SubsetsOfFinite
      <4> HIDE DEF T
      <4> QED
        BY <4>1, <4>2
    <3>3. Fine(T)
      <4> HIDE DEF T, Fine, Rest
      <4> QED
        BY <1>4, <2>1, <3>2
    <3>4. \A X \in SUBSET U : S \subseteq X /\ (\A i \in X : N[i] \subseteq X) => T \subseteq X
      BY DEF Widened
    <3> HIDE DEF T
    <3> QED
      BY <2>1, <3>1, <3>3, <3>4
  <2> QED
    BY <2>2, <2>3
<1> HIDE DEF Good
<1>5. Nat \subseteq Good
  BY <1>3, <1>4, SetInduction
<1>6. Rest(S0) + 1 \in Good /\ Rest(S0) < Rest(S0) + 1
  BY <1>2, <1>5
<1>7. Fine(S0)
  <2> HIDE DEF Fine, Rest
  <2> QED
    BY <1>6 DEF Good
<1> QED
  BY <1>7

LEMMA CoreExists ==
  ASSUME NEW U, NEW N \in [U -> SUBSET U]
  PROVE  \E c : IsCore(c, U, N)
<1> DEFINE Left(S) == {x \in U : \E X \in SUBSET S : x \in X /\ Trimmed(N, X) = X}
           c == [S \in SUBSET U |-> Left(S)]
<1>1. ASSUME NEW S \in SUBSET U
      PROVE  /\ Trimmed(N, S) \in SUBSET U
             /\ Trimmed(N, S) = S => Left(S) = S
             /\ Left(Trimmed(N, S)) = Left(S)
  <2>1. Trimmed(N, S) \in SUBSET U /\ Trimmed(N, S) \subseteq S
    BY DEF Trimmed
  <2>2. ASSUME NEW X, Trimmed(N, X) = X
        PROVE  X \subseteq S <=> X \subseteq Trimmed(N, S)
    BY <2>1, <2>2 DEF Trimmed
  <2>3. Trimmed(N, S) = S => Left(S) = S
    OBVIOUS
  <2>4. Left(Trimmed(N, S)) = Left(S)
    BY <2>2
  <2> QED
    BY <2>1, <2>3, <2>4
<1>2. c = [S \in SUBSET U |-> IF Trimmed(N, S) = S THEN S ELSE c[Trimmed(N, S)]]
  <2> HIDE DEF Left
  <2> QED
    BY <1>1
<1> HIDE DEF c
<1> QED
  BY <1>2 DEF IsCore

\* It is empty if and only if no part of the set needs something of that part for
\* each of its elements.
LEMMA CoreIsLeft ==
  ASSUME NEW U, IsFiniteSet(U), NEW N \in [U -> SUBSET U],
         NEW c, IsCore(c, U, N), NEW S0 \in SUBSET U
  PROVE  c[S0] # {} <=> \E X \in SUBSET S0 : X # {} /\ \A i \in X : N[i] \cap X # {}
<1> DEFINE Fine(S) == c[S] # {} <=> \E X \in SUBSET S : X # {} /\ \A i \in X : N[i] \cap X # {}
           Good == {n \in Nat : \A S \in SUBSET U : Cardinality(S) < n => Fine(S)}
<1>1. \A S \in SUBSET U : c[S] = IF Trimmed(N, S) = S THEN S ELSE c[Trimmed(N, S)]
  <2> DEFINE g == [S \in SUBSET U |-> IF Trimmed(N, S) = S THEN S ELSE c[Trimmed(N, S)]]
  <2>1. \A S \in SUBSET U : g[S] = IF Trimmed(N, S) = S THEN S ELSE c[Trimmed(N, S)]
    OBVIOUS
  <2>2. c = g
    BY DEF IsCore
  <2> HIDE DEF g
  <2> QED
    BY <2>1, <2>2
<1>2. \A S \in SUBSET U : Cardinality(S) \in Nat
  BY SubsetsOfFinite
<1>3. 0 \in Good
  BY <1>2
<1>4. ASSUME NEW n \in Nat, n \in Good PROVE n + 1 \in Good
  <2> SUFFICES ASSUME NEW S \in SUBSET U, Cardinality(S) < n + 1 PROVE Fine(S)
    <3> n + 1 \in Nat
      OBVIOUS
    <3> HIDE DEF Fine
    <3> QED
      OBVIOUS
  <2> DEFINE T == Trimmed(N, S)
  <2>1. T \in SUBSET U /\ T \subseteq S
    BY DEF Trimmed
  <2>2. CASE T = S
    <3>1. c[S] = S
      BY <1>1, <2>2
    <3>2. \A i \in S : N[i] \cap S # {}
      BY <2>2 DEF Trimmed
    <3> HIDE DEF T
    <3> QED
      BY <3>1, <3>2
  <2>3. CASE T # S
    <3>1. c[S] = c[T]
      BY <1>1, <2>3
    <3>2. Cardinality(T) < n
      <4>1. Cardinality(T) < Cardinality(S)
        BY <2>1, <2>3, SubsetsOfFinite
      <4> HIDE DEF T
      <4> QED
        BY <4>1, <1>2, <2>1
    <3>3. Fine(T)
      <4> HIDE DEF T, Fine
      <4> QED
        BY <1>4, <2>1, <3>2
    <3>4. \A X : (\A i \in X : N[i] \cap X # {}) => (X \subseteq S <=> X \subseteq T)
      BY <2>1 DEF Trimmed
    <3> HIDE DEF T
    <3> QED
      BY <3>1, <3>3, <3>4
  <2> QED
    BY <2>2, <2>3
<1> HIDE DEF Good
<1>5. Nat \subseteq Good
  BY <1>3, <1>4, SetInduction
<1>6. Cardinality(S0) + 1 \in Good /\ Cardinality(S0) < Cardinality(S0) + 1
  BY <1>2, <1>5
<1>7. Fine(S0)
  <2> HIDE DEF Fine
  <2> QED
    BY <1>6 DEF Good
<1> QED
  BY <1>7
=============================================================================
