-------------------------- MODULE CollectionProofs --------------------------
(***************************************************************************)
(* What the components' proofs need to know of numbers, sequences and      *)
(* sets: induction up to a number, what Filter and Sorted return, the laws *)
(* of finite sums (MapThenSumSet of the values of a function).  Induction  *)
(* is on the least number or the smallest set for which it were not so.    *)
(***************************************************************************)
EXTENDS Filtering, Sorting, FiniteSetsExt, FiniteSetTheorems, SequencesExt,
        FunctionTheorems, WellFoundedInduction, SequenceTheorems, TLAPS

\* A set of natural numbers has a least element.
LEMMA LeastElement ==
    ASSUME NEW S \in SUBSET Nat, S # {}
    PROVE  \E m \in S : \A k \in S : m <= k
<1> DEFINE less == OpToRel(<, Nat)
<1>1. IsWellFoundedOn(less, Nat)
  BY NatLessThanWellFounded
<1>2. PICK m \in S : \A k \in S : ~ (<<k, m>> \in less)
  BY <1>1, WFMin, Zenon
<1>3. \A k \in S : k < m => <<k, m>> \in less
  BY DEF OpToRel
<1>4. \A k \in S : m \in Nat /\ k \in Nat /\ ~ (k < m)
  BY <1>2, <1>3
<1> QED
  <2> HIDE DEF less
  <2> QED BY <1>4

\* Induction up to a number, on the set of those for which it is so.
LEMMA CountUp ==
    ASSUME NEW n \in Nat, NEW good, 0 \in good,
           \A k \in 1..n : k - 1 \in good => k \in good
    PROVE  0..n \subseteq good
<1> DEFINE bad == {k \in 0..n : k \notin good}
<1>1. SUFFICES ASSUME bad # {} PROVE FALSE
  OBVIOUS
<1>2. PICK m \in bad : \A k \in bad : m <= k
  <2>1. bad \in SUBSET Nat
    OBVIOUS
  <2> HIDE DEF bad
  <2> QED BY <1>1, <2>1, LeastElement
<1>3. m \in 1..n /\ m - 1 \in 0..n
  BY <1>2
<1>4. m - 1 \notin bad
  BY <1>2, <1>3
<1> QED BY <1>2, <1>3, <1>4

\* The numbers up to n.
LEMMA UpToFinite ==
    ASSUME NEW n \in Nat
    PROVE  IsFiniteSet(1..n) /\ Cardinality(1..n) = n
<1>1. 1 \in Int /\ n \in Int
  OBVIOUS
<1>2. IsFiniteSet(1..n) /\ Cardinality(1..n) = IF 1 > n THEN 0 ELSE n - 1 + 1
  BY <1>1, FS_Interval
<1> QED BY <1>2

-----------------------------------------------------------------------------
(* What Filter returns. *)

\* One element more.
Longer(s, S, n, shorter) == IF s[n] \in S THEN Append(shorter, s[n]) ELSE shorter

\* f is the recursive function of Filter on the first m elements.
IsFilter(s, S, m, f) ==
    f = [n \in 0..m |-> IF n = 0 THEN <<>> ELSE Longer(s, S, n, f[n - 1])]

\* There is such a function.
LEMMA FilterExists ==
    ASSUME NEW s, NEW S, NEW len \in Nat
    PROVE  \E f : IsFilter(s, S, len, f)
<1> DEFINE bad == {m \in Nat : ~ \E f : IsFilter(s, S, m, f)}
<1>1. SUFFICES ASSUME bad # {} PROVE FALSE
  OBVIOUS
<1>2. PICK m \in bad : \A k \in bad : m <= k
  BY <1>1, LeastElement
<1>3. m # 0
  <2>1. IsFilter(s, S, 0, [n \in 0..0 |-> <<>>])
    BY DEF IsFilter
  <2> QED BY <2>1
<1>4. m - 1 \in Nat /\ m - 1 \notin bad
  BY <1>2, <1>3
<1>5. PICK f : IsFilter(s, S, m - 1, f)
  BY <1>4
<1> DEFINE g == [n \in 0..m |-> IF n < m THEN f[n] ELSE Longer(s, S, m, f[m - 1])]
<1>6. \A n \in 0..m : g[n] = IF n = 0 THEN <<>> ELSE Longer(s, S, n, g[n - 1])
  <2> TAKE n \in 0..m
  <2>1. CASE n < m
    BY <1>4, <1>5, <2>1 DEF IsFilter
  <2>2. CASE n = m
    BY <1>3, <1>4, <2>2
  <2> QED BY <2>1, <2>2
<1>7. IsFilter(s, S, m, g)
  BY <1>6, Zenon DEF IsFilter
<1> QED BY <1>7

\* The recursion of Filter, for a function that is all but chosen.
LEMMA FilterRecursion ==
    ASSUME NEW s, NEW S, Len(s) \in Nat
    PROVE  \E f : IsFilter(s, S, Len(s), f) /\ Filter(s, S) = f[Len(s)]
<1> DEFINE f == CHOOSE f : IsFilter(s, S, Len(s), f)
<1>1. IsFilter(s, S, Len(s), f)
  BY FilterExists
<1>2. Filter(s, S) = f[Len(s)]
  BY DEF Filter, IsFilter, Longer
<1> HIDE DEF f
<1> QED BY <1>1, <1>2

\* What is kept is a sequence of elements of the set.
LEMMA FilterType ==
    ASSUME NEW T, NEW s \in Seq(T), NEW S
    PROVE  Filter(s, S) \in Seq(T \cap S)
<1>1. PICK f : IsFilter(s, S, Len(s), f) /\ Filter(s, S) = f[Len(s)]
  BY FilterRecursion
<1>2. /\ f[0] = <<>>
      /\ \A n \in 1..Len(s) : f[n] = Longer(s, S, n, f[n - 1])
  BY <1>1 DEF IsFilter
<1>3. \A n \in 1..Len(s) : f[n - 1] \in Seq(T \cap S) => f[n] \in Seq(T \cap S)
  <2> SUFFICES ASSUME NEW n \in 1..Len(s), f[n - 1] \in Seq(T \cap S)
               PROVE  f[n] \in Seq(T \cap S)
    OBVIOUS
  <2>1. s[n] \in T
    BY ElementOfSeq
  <2>2. CASE s[n] \in S
    <3>1. f[n] = Append(f[n - 1], s[n])
      BY <1>2, <2>2 DEF Longer
    <3> QED BY <2>1, <2>2, <3>1, AppendProperties
  <2>3. CASE s[n] \notin S
    <3>1. f[n] = f[n - 1]
      BY <1>2, <2>3 DEF Longer
    <3> QED BY <3>1
  <2> QED BY <2>2, <2>3
<1> DEFINE bad == {n \in 0..Len(s) : f[n] \notin Seq(T \cap S)}
<1>4. SUFFICES bad = {}
  BY <1>1
<1>5. SUFFICES ASSUME bad # {} PROVE FALSE
  OBVIOUS
<1>6. PICK m \in bad : \A k \in bad : m <= k
  <2>1. bad \in SUBSET Nat
    OBVIOUS
  <2> HIDE DEF bad
  <2> QED BY <1>5, <2>1, LeastElement
<1>7. m # 0
  BY <1>2, EmptySeq
<1>8. m - 1 \in 0..Len(s) /\ m - 1 \notin bad
  BY <1>6, <1>7
<1> QED BY <1>3, <1>7, <1>8

\* A sequence over a set is one over a larger set.
LEMMA SeqWider ==
    ASSUME NEW S, NEW T, S \subseteq T, NEW s \in Seq(S)
    PROVE  s \in Seq(T)
<1>1. Len(s) \in Nat /\ s \in [1..Len(s) -> S]
  OBVIOUS
<1>2. s \in [1..Len(s) -> T]
  BY <1>1
<1> QED BY <1>1, <1>2

\* What an element more does to a sequence.
LEMMA Appended ==
    ASSUME NEW T, NEW s \in Seq(T), NEW e \in T
    PROVE  /\ Append(s, e) \in Seq(T)
           /\ Len(Append(s, e)) = Len(s) + 1
           /\ DOMAIN Append(s, e) = 1..Len(s) + 1
           /\ DOMAIN s = 1..Len(s)
           /\ \A i \in 1..Len(s) : Append(s, e)[i] = s[i]
           /\ Append(s, e)[Len(s) + 1] = e
           /\ IsPrefix(s, Append(s, e))
<1>1. Append(s, e) \in Seq(T) /\ Len(Append(s, e)) = Len(s) + 1 /\ Len(s) \in Nat
  BY AppendProperties
<1>2. \A i \in 1..Len(s) : Append(s, e)[i] = s[i]
  BY AppendProperties
<1>3. IsPrefix(s, Append(s, e))
  BY <1>1, <1>2 DEF IsPrefix
<1> QED BY <1>1, <1>2, <1>3, AppendProperties

\* The range of a sequence that has grown.
LEMMA RangeAppended ==
    ASSUME NEW T, NEW s \in Seq(T), NEW e \in T
    PROVE  Range(Append(s, e)) = Range(s) \cup {e}
BY Appended DEF Range

\* The smaller of two numbers.
LEMMA MinOfTwo ==
    ASSUME NEW a \in Nat, NEW b \in Nat
    PROVE  /\ Min({a, b}) \in Nat /\ Min({a, b}) <= a /\ Min({a, b}) <= b
           /\ Min({a, b}) = a \/ Min({a, b}) = b
<1>1. \E x \in {a, b} : \A y \in {a, b} : x <= y
  OBVIOUS
<1> QED BY <1>1 DEF Min

\* The larger of two numbers.
LEMMA MaxOfTwo ==
    ASSUME NEW a \in Nat, NEW b \in Nat
    PROVE  /\ Max({a, b}) \in Nat /\ a <= Max({a, b}) /\ b <= Max({a, b})
           /\ Max({a, b}) = a \/ Max({a, b}) = b
<1>1. \E x \in {a, b} : \A y \in {a, b} : x >= y
  OBVIOUS
<1> QED BY <1>1 DEF Max

\* How multiples of a number are ordered.
LEMMA TimesOrder ==
    ASSUME NEW a \in Nat, NEW b \in Nat, NEW c \in Nat \ {0}
    PROVE  /\ a * c \in Nat
           /\ a < b => a * c + c <= b * c
           /\ (a + 1) * c = a * c + c
<1>1. a * c \in Nat
  OBVIOUS
<1>2. (a + 1) * c = a * c + c
  OBVIOUS
<1>3. ASSUME a < b PROVE a * c + c <= b * c
  <2>1. PICK d \in Nat : b = a + 1 + d
    <3>1. b - a - 1 \in Nat /\ b = a + 1 + (b - a - 1)
      BY <1>3
    <3> QED BY <3>1
  <2>2. b * c = (a + 1) * c + d * c /\ d * c \in Nat
    BY <2>1
  <2> QED BY <1>1, <1>2, <2>2
<1> QED BY <1>1, <1>2, <1>3

\* f[n] is what is kept of the first n elements.
KeepsUpTo(f, s, S, T) ==
    /\ f[0] = <<>>
    /\ \A n \in 0..Len(s) : f[n] \in Seq(T)
    /\ \A n \in 1..Len(s) : f[n] = IF s[n] \in S THEN Append(f[n - 1], s[n]) ELSE f[n - 1]

\* The steps of Filter.
LEMMA FilterSteps ==
    ASSUME NEW T, NEW s \in Seq(T), NEW S
    PROVE  \E f : Filter(s, S) = f[Len(s)] /\ KeepsUpTo(f, s, S, T)
<1>1. PICK f : IsFilter(s, S, Len(s), f) /\ Filter(s, S) = f[Len(s)]
  BY FilterRecursion
<1>2. /\ f[0] = <<>>
      /\ \A n \in 1..Len(s) : f[n] = Longer(s, S, n, f[n - 1])
  BY <1>1 DEF IsFilter
<1> DEFINE good == {n \in 0..Len(s) : f[n] \in Seq(T)}
<1>3. 0 \in good
  <2>1. <<>> \in Seq(T) /\ Len(s) \in Nat
    BY EmptySeq
  <2>2. f[0] \in Seq(T)
    BY <1>2, <2>1, Zenon
  <2> QED BY <2>1, <2>2
<1>4. ASSUME NEW n \in 1..Len(s), n - 1 \in good PROVE n \in good
  <2>1. s[n] \in T /\ f[n - 1] \in Seq(T)
    BY <1>4, ElementOfSeq
  <2>2. Append(f[n - 1], s[n]) \in Seq(T)
    BY <2>1, AppendProperties
  <2>3. f[n] \in {Append(f[n - 1], s[n]), f[n - 1]}
    BY <1>2 DEF Longer
  <2>4. f[n] \in Seq(T)
    BY <2>1, <2>2, <2>3, Zenon
  <2>5. n \in 0..Len(s)
    OBVIOUS
  <2> QED BY <2>4, <2>5
<1>5. 0..Len(s) \subseteq good
  <2>1. Len(s) \in Nat
    OBVIOUS
  <2> HIDE DEF good
  <2> QED BY <1>3, <1>4, <2>1, CountUp
<1>6. \A n \in 1..Len(s) : f[n] = IF s[n] \in S THEN Append(f[n - 1], s[n]) ELSE f[n - 1]
  BY <1>2 DEF Longer
<1> QED BY <1>1, <1>2, <1>5, <1>6 DEF KeepsUpTo

\* What is kept is what the sequence has of the set.
LEMMA FilterRange ==
    ASSUME NEW T, NEW s \in Seq(T), NEW S
    PROVE  Range(Filter(s, S)) = Range(s) \cap S
<1>0. PICK f : Filter(s, S) = f[Len(s)] /\ KeepsUpTo(f, s, S, T)
  BY FilterSteps
<1>1. /\ f[0] = <<>>
      /\ \A n \in 0..Len(s) : f[n] \in Seq(T)
      /\ \A n \in 1..Len(s) : f[n] = IF s[n] \in S THEN Append(f[n - 1], s[n]) ELSE f[n - 1]
  BY <1>0 DEF KeepsUpTo
<1> DEFINE good == {n \in 0..Len(s) : Range(f[n]) = {s[i] : i \in 1..n} \cap S}
<1>2. 0 \in good
  BY <1>1 DEF Range
<1>3. ASSUME NEW n \in 1..Len(s), n - 1 \in good PROVE n \in good
  <2>1. s[n] \in T /\ f[n - 1] \in Seq(T) /\ n \in Nat
    BY <1>1, ElementOfSeq
  <2>2. {s[i] : i \in 1..n} = {s[i] : i \in 1..n - 1} \cup {s[n]}
    BY <2>1
  <2>3. Range(f[n - 1]) = {s[i] : i \in 1..n - 1} \cap S
    BY <1>3
  <2>4. CASE s[n] \in S
    <3>1. f[n] = Append(f[n - 1], s[n])
      BY <1>1, <2>4
    <3>2. Range(f[n]) = Range(f[n - 1]) \cup {s[n]}
      BY <2>1, <3>1, RangeAppended
    <3> QED BY <2>2, <2>3, <2>4, <3>2
  <2>5. CASE s[n] \notin S
    <3>1. f[n] = f[n - 1]
      BY <1>1, <2>5
    <3> QED BY <2>2, <2>3, <2>5, <3>1
  <2> QED BY <2>4, <2>5
<1>4. 0..Len(s) \subseteq good
  <2>1. Len(s) \in Nat
    OBVIOUS
  <2> HIDE DEF good
  <2> QED BY <1>2, <1>3, <2>1, CountUp
<1>5. Len(s) \in 0..Len(s) /\ DOMAIN s = 1..Len(s)
  OBVIOUS
<1>6. Range(f[Len(s)]) = {s[i] : i \in 1..Len(s)} \cap S
  BY <1>4, <1>5
<1>7. Range(s) = {s[i] : i \in 1..Len(s)}
  BY <1>5 DEF Range
<1> QED BY <1>0, <1>6, <1>7, Zenon

\* Nothing is lost when the set has everything.
LEMMA FilterAll ==
    ASSUME NEW T, NEW s \in Seq(T), NEW S, Range(s) \subseteq S
    PROVE  Filter(s, S) = s
<1>0. PICK f : Filter(s, S) = f[Len(s)] /\ KeepsUpTo(f, s, S, T)
  BY FilterSteps
<1>1. /\ f[0] = <<>>
      /\ \A n \in 0..Len(s) : f[n] \in Seq(T)
      /\ \A n \in 1..Len(s) : f[n] = IF s[n] \in S THEN Append(f[n - 1], s[n]) ELSE f[n - 1]
  BY <1>0 DEF KeepsUpTo
<1> DEFINE good == {n \in 0..Len(s) : Len(f[n]) = n /\ \A i \in 1..n : f[n][i] = s[i]}
<1>2. 0 \in good
  BY <1>1
<1>3. ASSUME NEW n \in 1..Len(s), n - 1 \in good PROVE n \in good
  <2>1. s[n] \in T /\ f[n - 1] \in Seq(T) /\ n \in Nat /\ n - 1 \in Nat /\ s[n] \in S
    BY <1>1, ElementOfSeq DEF Range
  <2>2. f[n] = Append(f[n - 1], s[n])
    BY <1>1, <2>1
  <2>3. Len(f[n - 1]) = n - 1 /\ \A i \in 1..n - 1 : f[n - 1][i] = s[i]
    BY <1>3
  <2>4. /\ Len(f[n]) = n /\ f[n][n] = s[n]
        /\ \A i \in 1..n - 1 : f[n][i] = s[i]
    BY <2>1, <2>2, <2>3, Appended
  <2> QED BY <2>1, <2>4
<1>4. 0..Len(s) \subseteq good
  <2>1. Len(s) \in Nat
    OBVIOUS
  <2> HIDE DEF good
  <2> QED BY <1>2, <1>3, <2>1, CountUp
<1>5. Len(s) \in 0..Len(s) /\ f[Len(s)] \in Seq(T)
  BY <1>1
<1>6. Len(f[Len(s)]) = Len(s) /\ \A i \in 1..Len(s) : f[Len(s)][i] = s[i]
  BY <1>4, <1>5
<1> QED BY <1>0, <1>5, <1>6, SeqEqual

\* Each element is related to all that come later.
Ordered(s, R) == \A k, l \in DOMAIN s : k < l => <<s[k], s[l]>> \in R

\* What is kept stays in its order.
LEMMA FilterOrdered ==
    ASSUME NEW T, NEW s \in Seq(T), NEW S, NEW R, Ordered(s, R)
    PROVE  Ordered(Filter(s, S), R)
<1>0. PICK f : Filter(s, S) = f[Len(s)] /\ KeepsUpTo(f, s, S, T)
  BY FilterSteps
<1>1. /\ f[0] = <<>>
      /\ \A n \in 0..Len(s) : f[n] \in Seq(T)
      /\ \A n \in 1..Len(s) : f[n] = IF s[n] \in S THEN Append(f[n - 1], s[n]) ELSE f[n - 1]
  BY <1>0 DEF KeepsUpTo
<1> DEFINE before(n) == {s[i] : i \in 1..n}
           good == {n \in 0..Len(s) : Ordered(f[n], R) /\ Range(f[n]) \subseteq before(n)}
<1>2. 0 \in good
  BY <1>1 DEF Range, Ordered
<1>3. ASSUME NEW n \in 1..Len(s), n - 1 \in good PROVE n \in good
  <2>1. s[n] \in T /\ f[n - 1] \in Seq(T) /\ n \in Nat /\ n - 1 \in 0..Len(s)
    BY <1>1, ElementOfSeq
  <2>2. Ordered(f[n - 1], R) /\ Range(f[n - 1]) \subseteq before(n - 1)
    BY <1>3
  <2>3. before(n) = before(n - 1) \cup {s[n]}
    BY <2>1
  <2>4. CASE s[n] \in S
    <3>1. f[n] = Append(f[n - 1], s[n])
      BY <1>1, <2>4
    <3>2. Range(f[n]) = Range(f[n - 1]) \cup {s[n]}
      BY <2>1, <3>1, RangeAppended
    <3>3. \A x \in before(n - 1) : <<x, s[n]>> \in R
      <4>1. \A i \in 1..n - 1 : i \in DOMAIN s /\ n \in DOMAIN s /\ i < n
        BY <2>1
      <4> QED BY <4>1 DEF Ordered
    <3>4. PICK m \in Nat : m = Len(f[n - 1]) /\ DOMAIN f[n - 1] = 1..m
      BY <2>1
    <3>5. /\ DOMAIN f[n] = 1..m + 1
          /\ \A i \in 1..m : f[n][i] = f[n - 1][i]
          /\ f[n][m + 1] = s[n]
      BY <2>1, <3>1, <3>4, Appended
    <3>6. \A i \in 1..m : f[n - 1][i] \in before(n - 1)
      BY <2>2, <3>4 DEF Range
    <3> HIDE DEF before
    <3>7. Ordered(f[n], R)
      <4> SUFFICES ASSUME NEW k \in 1..m + 1, NEW l \in 1..m + 1, k < l
                   PROVE  <<f[n][k], f[n][l]>> \in R
        BY <3>5 DEF Ordered
      <4>1. k \in 1..m
        OBVIOUS
      <4>2. CASE l = m + 1
        BY <3>3, <3>5, <3>6, <4>1, <4>2
      <4>3. CASE l \in 1..m
        BY <2>2, <3>4, <3>5, <4>1, <4>3 DEF Ordered
      <4> QED BY <4>2, <4>3
    <3> QED BY <2>2, <2>3, <3>2, <3>7
  <2>5. CASE s[n] \notin S
    <3>1. f[n] = f[n - 1]
      BY <1>1, <2>5
    <3> QED BY <2>2, <2>3, <3>1
  <2> QED BY <2>4, <2>5
<1>4. 0..Len(s) \subseteq good
  <2>1. Len(s) \in Nat
    OBVIOUS
  <2> HIDE DEF good
  <2> QED BY <1>2, <1>3, <2>1, CountUp
<1>5. Len(s) \in 0..Len(s)
  OBVIOUS
<1> QED BY <1>0, <1>4, <1>5

\* A sequence without repetition is as long as it has elements.
LEMMA DistinctLength ==
    ASSUME NEW T, NEW s \in Seq(T), \A k, l \in DOMAIN s : s[k] = s[l] => k = l
    PROVE  IsFiniteSet(Range(s)) /\ Cardinality(Range(s)) = Len(s)
<1>1. s \in [DOMAIN s -> Range(s)] /\ \A x \in Range(s) : \E k \in DOMAIN s : s[k] = x
  <2>1. DOMAIN s = 1..Len(s) /\ s = [k \in DOMAIN s |-> s[k]]
    OBVIOUS
  <2> QED BY <2>1 DEF Range
<1>2. s \in Bijection(DOMAIN s, Range(s))
  BY <1>1, Fun_IsBij
<1>3. IsFiniteSet(DOMAIN s) /\ Cardinality(DOMAIN s) = Len(s)
  <2>1. DOMAIN s = 1..Len(s) /\ Len(s) \in Nat
    OBVIOUS
  <2> QED BY <2>1, UpToFinite
<1> QED BY <1>2, <1>3, FS_Bijection, Fun_ExistsBij

-----------------------------------------------------------------------------
(* Sums.  A law that failed would fail of some set and of no smaller one,   *)
(* which its recursion contradicts.                                         *)

\* The sum of f[x] for x in S.
SumOver(f, S) == MapThenSumSet(LAMBDA x : f[x], S)

\* The element that a sum adds first.
Chosen(S) == CHOOSE x \in S : TRUE

\* g is the recursive function of the sum over S.
IsSum(f, S, g) ==
    g = [T \in SUBSET S |-> IF T = {} THEN 0 ELSE f[Chosen(T)] + g[T \ {Chosen(T)}]]

\* The recursive function of a sum, as it is chosen.
Summing(f, S) == CHOOSE g : IsSum(f, S, g)

\* A sum by its recursive function.
LEMMA SumDef == ASSUME NEW f, NEW S PROVE SumOver(f, S) = Summing(f, S)[S]
BY DEF SumOver, MapThenSumSet, MapThenFoldSet, IsSum, Chosen, Summing

\* A collection of finite sets has a smallest one.
LEMMA SmallestSet ==
    ASSUME NEW B, B # {}, \A S \in B : IsFiniteSet(S)
    PROVE  \E S \in B : \A T \in B : Cardinality(S) <= Cardinality(T)
<1> DEFINE sizes == {Cardinality(S) : S \in B}
<1>1. sizes \in SUBSET Nat /\ sizes # {}
  BY FS_CardinalityType
<1>2. \E m \in sizes : \A k \in sizes : m <= k
  <2> HIDE DEF sizes
  <2> QED BY <1>1, LeastElement
<1> QED BY <1>2

\* A set without one of its elements.
LEMMA WithoutOne ==
    ASSUME NEW S, IsFiniteSet(S), NEW x \in S
    PROVE  /\ IsFiniteSet(S \ {x})
           /\ ~ (Cardinality(S) <= Cardinality(S \ {x}))
<1>1. /\ IsFiniteSet(S \ {x}) /\ Cardinality(S \ {x}) = Cardinality(S) - 1
      /\ Cardinality(S) \in Nat
  BY FS_RemoveElement, FS_CardinalityType
<1> QED BY <1>1

\* A set that is not empty contains what is chosen of it.
LEMMA ChosenIn == ASSUME NEW S, S # {} PROVE Chosen(S) \in S
BY DEF Chosen

\* The recursive functions of two sets agree on what is a subset of both.
LEMMA SumAgree ==
    ASSUME NEW f, NEW S, NEW T, NEW g, NEW h, IsSum(f, S, g), IsSum(f, T, h),
           NEW U \in SUBSET S, U \subseteq T, IsFiniteSet(U)
    PROVE  g[U] = h[U]
<1> DEFINE bad == {V \in SUBSET U : g[V] # h[V]}
<1>1. SUFFICES ASSUME bad # {} PROVE FALSE
  OBVIOUS
<1>2. \A V \in bad : IsFiniteSet(V)
  BY FS_Subset
<1>3. PICK V \in bad : \A W \in bad : Cardinality(V) <= Cardinality(W)
  <2> HIDE DEF bad
  <2> QED BY <1>1, <1>2, SmallestSet
<1>4. V \in SUBSET U /\ IsFiniteSet(V) /\ V \in SUBSET S /\ V \in SUBSET T
  BY <1>3, <1>2
<1>5. V # {}
  BY <1>3, <1>4 DEF IsSum
<1>6. Chosen(V) \in V
  BY <1>5, ChosenIn
<1>7. g[V \ {Chosen(V)}] = h[V \ {Chosen(V)}]
  BY <1>3, <1>4, <1>6, WithoutOne
<1>8. /\ g[V] = f[Chosen(V)] + g[V \ {Chosen(V)}]
      /\ h[V] = f[Chosen(V)] + h[V \ {Chosen(V)}]
  BY <1>4, <1>5 DEF IsSum
<1> QED BY <1>3, <1>7, <1>8

\* The recursion of a sum, from the functions of the set and of the smaller one.
LEMMA SumUnfold ==
    ASSUME NEW f, NEW S, IsFiniteSet(S), S # {}, NEW g, IsSum(f, S, g),
           NEW h, IsSum(f, S \ {Chosen(S)}, h)
    PROVE  SumOver(f, S) = f[Chosen(S)] + SumOver(f, S \ {Chosen(S)})
<1> DEFINE T == S \ {Chosen(S)}
<1>1. IsSum(f, S, Summing(f, S)) /\ IsSum(f, T, Summing(f, T))
  BY DEF Summing
<1>2. Summing(f, S)[S] = f[Chosen(S)] + Summing(f, S)[T]
  BY <1>1 DEF IsSum
<1>3. IsFiniteSet(T) /\ T \in SUBSET S
  BY FS_Subset
<1>4. Summing(f, S)[T] = Summing(f, T)[T]
  <2> HIDE DEF T
  <2> QED BY <1>1, <1>3, SumAgree
<1> QED BY <1>2, <1>4, SumDef

\* Every finite set has its recursive function.
LEMMA SumExists ==
    ASSUME NEW f, NEW S, IsFiniteSet(S)
    PROVE  \E g : IsSum(f, S, g)
<1> DEFINE bad == {T \in SUBSET S : ~ \E g : IsSum(f, T, g)}
<1>1. SUFFICES ASSUME bad # {} PROVE FALSE
  OBVIOUS
<1>2. \A T \in bad : IsFiniteSet(T)
  BY FS_Subset
<1>3. PICK T \in bad : \A U \in bad : Cardinality(T) <= Cardinality(U)
  <2> HIDE DEF bad
  <2> QED BY <1>1, <1>2, SmallestSet
<1>4. T \in SUBSET S /\ IsFiniteSet(T)
  BY <1>3, <1>2
<1>5. ASSUME NEW x \in T, NEW U \in SUBSET (T \ {x}) PROVE \E g : IsSum(f, U, g)
  <2>1. /\ IsFiniteSet(T \ {x}) /\ Cardinality(T) \in Nat /\ Cardinality(T \ {x}) \in Nat
        /\ ~ (Cardinality(T) <= Cardinality(T \ {x}))
    BY <1>4, <1>5, WithoutOne, FS_CardinalityType
  <2>2. Cardinality(U) \in Nat /\ Cardinality(U) <= Cardinality(T \ {x})
    BY <2>1, FS_Subset, FS_CardinalityType
  <2>3. ~ (Cardinality(T) <= Cardinality(U))
    BY <2>1, <2>2
  <2> QED BY <1>3, <1>4, <2>3
<1> DEFINE g == [U \in SUBSET T |->
                   IF U = {} THEN 0 ELSE f[Chosen(U)] + SumOver(f, U \ {Chosen(U)})]
<1>6. ASSUME NEW U \in SUBSET T, U # {}
      PROVE  g[U \ {Chosen(U)}] = SumOver(f, U \ {Chosen(U)})
  <2> DEFINE V == U \ {Chosen(U)}
  <2>1. Chosen(U) \in T /\ V \in SUBSET (T \ {Chosen(U)}) /\ V \in SUBSET T /\ IsFiniteSet(V)
    BY <1>4, <1>6, ChosenIn, FS_Subset
  <2>2. PICK h : IsSum(f, V, h)
    BY <1>5, <2>1
  <2>3. CASE V = {}
    <3>1. Summing(f, V)[V] = 0
      <4>1. IsSum(f, V, Summing(f, V))
        BY <2>2 DEF Summing
      <4> QED BY <4>1, <2>3 DEF IsSum
    <3> QED BY <2>1, <2>3, <3>1, SumDef
  <2>4. CASE V # {}
    <3>1. V \ {Chosen(V)} \in SUBSET (T \ {Chosen(U)})
      BY <2>1
    <3>2. PICK k : IsSum(f, V \ {Chosen(V)}, k)
      BY <1>5, <2>1, <3>1
    <3>3. SumOver(f, V) = f[Chosen(V)] + SumOver(f, V \ {Chosen(V)})
      <4> HIDE DEF V
      <4> QED BY <2>1, <2>2, <2>4, <3>2, SumUnfold
    <3> QED BY <2>1, <2>4, <3>3
  <2> QED BY <2>3, <2>4
<1>7. IsSum(f, T, g)
  <2>1. \A U \in SUBSET T :
           g[U] = IF U = {} THEN 0 ELSE f[Chosen(U)] + g[U \ {Chosen(U)}]
    BY <1>6
  <2> QED BY <2>1, Zenon DEF IsSum
<1> QED BY <1>3, <1>7

-----------------------------------------------------------------------------
(* The laws. *)

\* The sum of nothing.
LEMMA SumEmpty == ASSUME NEW f PROVE SumOver(f, {}) = 0
<1>1. PICK g : IsSum(f, {}, g)
  BY SumExists, FS_EmptySet
<1>2. IsSum(f, {}, Summing(f, {}))
  BY <1>1 DEF Summing
<1> QED BY <1>2, SumDef DEF IsSum

\* The recursion of a sum.
LEMMA SumStep ==
    ASSUME NEW f, NEW S, IsFiniteSet(S), S # {}
    PROVE  SumOver(f, S) = f[Chosen(S)] + SumOver(f, S \ {Chosen(S)})
<1>1. Chosen(S) \in S /\ IsFiniteSet(S \ {Chosen(S)})
  BY ChosenIn, FS_Subset
<1> QED BY <1>1, SumExists, SumUnfold

\* Induction: what holds of a set when it holds of the set without any one of its
\* elements holds of every subset of a finite set.
LEMMA SetInduction ==
    ASSUME NEW S, IsFiniteSet(S), NEW good,
           \A T \in SUBSET S : (\A x \in T : T \ {x} \in good) => T \in good
    PROVE  \A T \in SUBSET S : T \in good
<1> DEFINE bad == {T \in SUBSET S : T \notin good}
<1>1. SUFFICES ASSUME bad # {} PROVE FALSE
  OBVIOUS
<1>2. \A T \in bad : IsFiniteSet(T)
  BY FS_Subset
<1>3. PICK T \in bad : \A U \in bad : Cardinality(T) <= Cardinality(U)
  <2> HIDE DEF bad
  <2> QED BY <1>1, <1>2, SmallestSet
<1>4. \A x \in T : T \ {x} \in good
  BY <1>2, <1>3, WithoutOne
<1> QED BY <1>3, <1>4

\* A sum of integers is an integer.
LEMMA SumType ==
    ASSUME NEW S, IsFiniteSet(S), NEW f, \A x \in S : f[x] \in Int
    PROVE  SumOver(f, S) \in Int
<1> DEFINE good == {T \in SUBSET S : SumOver(f, T) \in Int}
<1>1. ASSUME NEW T \in SUBSET S, \A x \in T : T \ {x} \in good PROVE T \in good
  <2>1. CASE T = {}
    BY <2>1, SumEmpty
  <2>2. CASE T # {}
    <3>1. Chosen(T) \in T /\ IsFiniteSet(T)
      BY <2>2, ChosenIn, FS_Subset
    <3>2. SumOver(f, T) = f[Chosen(T)] + SumOver(f, T \ {Chosen(T)})
      BY <2>2, <3>1, SumStep
    <3>3. SumOver(f, T \ {Chosen(T)}) \in Int /\ f[Chosen(T)] \in Int
      BY <1>1, <3>1
    <3> QED BY <3>2, <3>3
  <2> QED BY <2>1, <2>2
<1>2. S \in good
  <2>1. S \in SUBSET S
    OBVIOUS
  <2> HIDE DEF good
  <2> QED BY <1>1, <2>1, SetInduction
<1> QED BY <1>2

\* Any element may be added first.
LEMMA SumRemove ==
    ASSUME NEW S, IsFiniteSet(S), NEW f, \A x \in S : f[x] \in Int, NEW y \in S
    PROVE  SumOver(f, S) = f[y] + SumOver(f, S \ {y})
<1> DEFINE good == {T \in SUBSET S : \A x \in T : SumOver(f, T) = f[x] + SumOver(f, T \ {x})}
<1>1. ASSUME NEW T \in SUBSET S, \A x \in T : T \ {x} \in good PROVE T \in good
  <2> SUFFICES ASSUME NEW x \in T PROVE SumOver(f, T) = f[x] + SumOver(f, T \ {x})
    OBVIOUS
  <2> DEFINE c == Chosen(T)
  <2>1. c \in T /\ IsFiniteSet(T) /\ SumOver(f, T) = f[c] + SumOver(f, T \ {c})
    BY ChosenIn, FS_Subset, SumStep
  <2>2. CASE x = c
    BY <2>1, <2>2
  <2>3. CASE x # c
    <3> HIDE DEF c
    <3>1. x \in T \ {c} /\ c \in T \ {x} /\ (T \ {c}) \ {x} = (T \ {x}) \ {c}
      BY <2>1, <2>3
    <3>2. SumOver(f, T \ {c}) = f[x] + SumOver(f, (T \ {c}) \ {x})
      BY <1>1, <2>1, <3>1
    <3>3. SumOver(f, T \ {x}) = f[c] + SumOver(f, (T \ {x}) \ {c})
      BY <1>1, <3>1
    <3>4. SumOver(f, (T \ {x}) \ {c}) \in Int
      <4>1. IsFiniteSet((T \ {x}) \ {c}) /\ (T \ {x}) \ {c} \subseteq S
        BY <2>1, FS_Subset
      <4> QED BY <4>1, SumType
    <3>5. f[x] \in Int /\ f[c] \in Int
      BY <2>1
    <3>6. SumOver(f, T) = f[c] + (f[x] + SumOver(f, (T \ {x}) \ {c}))
      BY <2>1, <3>1, <3>2
    <3> QED BY <3>3, <3>4, <3>5, <3>6
  <2> QED BY <2>2, <2>3
<1>2. S \in good
  <2>1. S \in SUBSET S
    OBVIOUS
  <2> HIDE DEF good
  <2> QED BY <1>1, <2>1, SetInduction
<1> QED BY <1>2

\* One summand more.
LEMMA SumAdd ==
    ASSUME NEW S, IsFiniteSet(S), NEW y, y \notin S,
           NEW f, \A x \in S \cup {y} : f[x] \in Int
    PROVE  SumOver(f, S \cup {y}) = SumOver(f, S) + f[y]
<1>1. IsFiniteSet(S \cup {y}) /\ (S \cup {y}) \ {y} = S
  BY FS_AddElement
<1>2. SumOver(f, S \cup {y}) = f[y] + SumOver(f, S)
  BY <1>1, SumRemove
<1> QED BY <1>2, SumType

\* A sum depends on the values it adds only.
LEMMA SumEqual ==
    ASSUME NEW S, IsFiniteSet(S), NEW f, NEW g, \A x \in S : f[x] = g[x]
    PROVE  SumOver(f, S) = SumOver(g, S)
<1> DEFINE good == {T \in SUBSET S : SumOver(f, T) = SumOver(g, T)}
<1>1. ASSUME NEW T \in SUBSET S, \A x \in T : T \ {x} \in good PROVE T \in good
  <2>1. CASE T = {}
    BY <2>1, SumEmpty
  <2>2. CASE T # {}
    <3>1. Chosen(T) \in T /\ IsFiniteSet(T)
      BY <2>2, ChosenIn, FS_Subset
    <3>2. /\ SumOver(f, T) = f[Chosen(T)] + SumOver(f, T \ {Chosen(T)})
          /\ SumOver(g, T) = g[Chosen(T)] + SumOver(g, T \ {Chosen(T)})
      BY <2>2, <3>1, SumStep
    <3> QED BY <1>1, <3>1, <3>2
  <2> QED BY <2>1, <2>2
<1>2. S \in good
  <2>1. S \in SUBSET S
    OBVIOUS
  <2> HIDE DEF good
  <2> QED BY <1>1, <2>1, SetInduction
<1> QED BY <1>2

\* What is outside A adds nothing.
LEMMA SumRestrict ==
    ASSUME NEW S, IsFiniteSet(S), NEW A, NEW f, NEW g, \A x \in S : f[x] \in Int,
           \A x \in S : g[x] = IF x \in A THEN f[x] ELSE 0
    PROVE  SumOver(g, S) = SumOver(f, S \cap A)
<1> DEFINE good == {T \in SUBSET S : SumOver(g, T) = SumOver(f, T \cap A)}
<1>1. ASSUME NEW T \in SUBSET S, \A x \in T : T \ {x} \in good PROVE T \in good
  <2>1. CASE T = {}
    BY <2>1, SumEmpty
  <2>2. CASE T # {}
    <3> DEFINE c == Chosen(T)
    <3>1. /\ c \in T /\ IsFiniteSet(T) /\ IsFiniteSet(T \cap A)
          /\ SumOver(g, T) = g[c] + SumOver(g, T \ {c})
      BY <2>2, ChosenIn, FS_Subset, SumStep
    <3> HIDE DEF c
    <3>2. SumOver(g, T \ {c}) = SumOver(f, (T \ {c}) \cap A)
      BY <1>1, <3>1
    <3>3. SumOver(f, T \cap A) \in Int
      BY <3>1, SumType
    <3>4. CASE c \in A
      <4>1. (T \ {c}) \cap A = (T \cap A) \ {c} /\ c \in T \cap A
        BY <3>1, <3>4
      <4>2. SumOver(f, T \cap A) = f[c] + SumOver(f, (T \cap A) \ {c})
        BY <3>1, <4>1, SumRemove
      <4> QED BY <3>1, <3>2, <3>4, <4>1, <4>2
    <3>5. CASE c \notin A
      <4>1. (T \ {c}) \cap A = T \cap A
        BY <3>5
      <4> QED BY <3>1, <3>2, <3>3, <3>5, <4>1
    <3> QED BY <3>4, <3>5
  <2> QED BY <2>1, <2>2
<1>2. S \in good
  <2>1. S \in SUBSET S
    OBVIOUS
  <2> HIDE DEF good
  <2> QED BY <1>1, <2>1, SetInduction
<1> QED BY <1>2

\* The sum of the sums of two functions.
LEMMA SumPlus ==
    ASSUME NEW S, IsFiniteSet(S), NEW f, NEW g, NEW h,
           \A x \in S : f[x] \in Int /\ g[x] \in Int /\ h[x] = f[x] + g[x]
    PROVE  SumOver(h, S) = SumOver(f, S) + SumOver(g, S)
<1> DEFINE good == {T \in SUBSET S : SumOver(h, T) = SumOver(f, T) + SumOver(g, T)}
<1>1. ASSUME NEW T \in SUBSET S, \A x \in T : T \ {x} \in good PROVE T \in good
  <2>1. CASE T = {}
    BY <2>1, SumEmpty
  <2>2. CASE T # {}
    <3> DEFINE c == Chosen(T)
    <3>1. c \in T /\ IsFiniteSet(T) /\ IsFiniteSet(T \ {c})
      BY <2>2, ChosenIn, FS_Subset
    <3>2. /\ SumOver(f, T) = f[c] + SumOver(f, T \ {c})
          /\ SumOver(g, T) = g[c] + SumOver(g, T \ {c})
          /\ SumOver(h, T) = h[c] + SumOver(h, T \ {c})
      BY <2>2, <3>1, SumStep
    <3> HIDE DEF c
    <3>3. SumOver(h, T \ {c}) = SumOver(f, T \ {c}) + SumOver(g, T \ {c})
      BY <1>1, <3>1
    <3>4. SumOver(f, T \ {c}) \in Int /\ SumOver(g, T \ {c}) \in Int
      BY <3>1, SumType
    <3>5. f[c] \in Int /\ g[c] \in Int /\ h[c] = f[c] + g[c]
      BY <3>1
    <3> QED BY <3>2, <3>3, <3>4, <3>5
  <2> QED BY <2>1, <2>2
<1>2. S \in good
  <2>1. S \in SUBSET S
    OBVIOUS
  <2> HIDE DEF good
  <2> QED BY <1>1, <2>1, SetInduction
<1> QED BY <1>2

\* The elements of I in the class r, and in one of the classes X.
InClass(I, class, r) == {i \in I : class[i] = r}
InClasses(I, class, X) == {i \in I : class[i] \in X}

\* Summing by classes: F[r] is the sum of the f[i] of the class r.
LEMMA SumByClass ==
    ASSUME NEW I, IsFiniteSet(I), NEW f, \A i \in I : f[i] \in Int, NEW class,
           NEW X, IsFiniteSet(X), NEW F,
           \A r \in X : F[r] = SumOver(f, InClass(I, class, r))
    PROVE  SumOver(F, X) = SumOver(f, InClasses(I, class, X))
<1> USE DEF InClass, InClasses
<1> DEFINE of(T) == InClasses(I, class, T)
<1> DEFINE good == {T \in SUBSET X : SumOver(F, T) = SumOver(f, of(T))}
<1>1. ASSUME NEW T \in SUBSET X, \A x \in T : T \ {x} \in good PROVE T \in good
  <2>1. CASE T = {}
    <3>1. of(T) = {}
      BY <2>1
    <3> QED BY <2>1, <3>1, SumEmpty
  <2>2. CASE T # {}
    <3> DEFINE c == Chosen(T)
               one == InClass(I, class, c)
               rest == of(T \ {c})
    <3>1. /\ c \in T /\ IsFiniteSet(T)
          /\ SumOver(F, T) = F[c] + SumOver(F, T \ {c})
      BY <2>2, ChosenIn, FS_Subset, SumStep
    <3>2. SumOver(F, T \ {c}) = SumOver(f, rest)
      BY <1>1, <3>1
    <3>3. F[c] = SumOver(f, one)
      BY <3>1
    <3>4. IsFiniteSet(of(T)) /\ of(T) \cap one = one /\ of(T) \cap rest = rest
      <4>1. of(T) \subseteq I
        OBVIOUS
      <4> QED BY <3>1, <4>1, FS_Subset
    <3> DEFINE a == [i \in of(T) |-> IF i \in one THEN f[i] ELSE 0]
               b == [i \in of(T) |-> IF i \in rest THEN f[i] ELSE 0]
    <3>5. SumOver(a, of(T)) = SumOver(f, of(T) \cap one)
      <4>1. \A i \in of(T) : a[i] = IF i \in one THEN f[i] ELSE 0
        OBVIOUS
      <4> HIDE DEF a, one
      <4> QED BY <3>4, <4>1, SumRestrict
    <3>6. SumOver(b, of(T)) = SumOver(f, of(T) \cap rest)
      <4>1. \A i \in of(T) : b[i] = IF i \in rest THEN f[i] ELSE 0
        OBVIOUS
      <4> HIDE DEF b, rest
      <4> QED BY <3>4, <4>1, SumRestrict
    <3>7. \A i \in of(T) : a[i] \in Int /\ b[i] \in Int /\ f[i] = a[i] + b[i]
      OBVIOUS
    <3>8. SumOver(f, of(T)) = SumOver(a, of(T)) + SumOver(b, of(T))
      <4> HIDE DEF a, b, of
      <4> QED BY <3>4, <3>7, SumPlus
    <3> QED BY <3>1, <3>2, <3>3, <3>4, <3>5, <3>6, <3>8
  <2> QED BY <2>1, <2>2
<1>2. X \in good
  <2>1. X \in SUBSET X
    OBVIOUS
  <2> HIDE DEF good
  <2> QED BY <1>1, <2>1, SetInduction
<1> QED BY <1>2

\* Summands that are not negative: no part of a sum exceeds it.
LEMMA SumNat ==
    ASSUME NEW S, IsFiniteSet(S), NEW f, \A x \in S : f[x] \in Nat
    PROVE  /\ SumOver(f, S) \in Nat
           /\ \A x \in S : f[x] <= SumOver(f, S)
<1> DEFINE good == {T \in SUBSET S : SumOver(f, T) \in Nat}
<1>1. ASSUME NEW T \in SUBSET S, \A x \in T : T \ {x} \in good PROVE T \in good
  <2>1. CASE T = {}
    BY <2>1, SumEmpty
  <2>2. CASE T # {}
    <3>1. Chosen(T) \in T /\ IsFiniteSet(T)
      BY <2>2, ChosenIn, FS_Subset
    <3>2. SumOver(f, T) = f[Chosen(T)] + SumOver(f, T \ {Chosen(T)})
      BY <2>2, <3>1, SumStep
    <3>3. SumOver(f, T \ {Chosen(T)}) \in Nat /\ f[Chosen(T)] \in Nat
      BY <1>1, <3>1
    <3> QED BY <3>2, <3>3
  <2> QED BY <2>1, <2>2
<1>2. \A T \in SUBSET S : T \in good
  <2> HIDE DEF good
  <2> QED BY <1>1, SetInduction
<1>3. ASSUME NEW x \in S PROVE f[x] <= SumOver(f, S)
  <2>1. SumOver(f, S) = f[x] + SumOver(f, S \ {x})
    BY SumRemove
  <2>2. SumOver(f, S \ {x}) \in Nat /\ f[x] \in Nat
    BY <1>2
  <2> QED BY <2>1, <2>2
<1> QED BY <1>2, <1>3

-----------------------------------------------------------------------------
(* What Sorted returns. *)

\* A relation that orders a set, up to elements it takes for equal.
WeakOrder(less, S) ==
    /\ \A a, b \in S : <<a, b>> \in less => <<b, a>> \notin less
    /\ \A a, b, c \in S : <<a, b>> \notin less /\ <<b, c>> \notin less => <<a, c>> \notin less

\* Of two places one comes first, and so do those that come before it.
LEMMA AheadOrders ==
    ASSUME NEW T, NEW s \in Seq(T), NEW less, WeakOrder(less, T),
           NEW i \in DOMAIN s, NEW j \in DOMAIN s
    PROVE  /\ i \notin Ahead(s, less, i)
           /\ i # j => j \in Ahead(s, less, i) \/ i \in Ahead(s, less, j)
           /\ j \in Ahead(s, less, i) => Ahead(s, less, j) \subseteq Ahead(s, less, i)
<1>1. DOMAIN s \subseteq Int /\ \A k \in DOMAIN s : s[k] \in T
  BY ElementOfSeq
<1>2. i \notin Ahead(s, less, i)
  BY <1>1 DEF Ahead, WeakOrder
<1>3. i # j => j \in Ahead(s, less, i) \/ i \in Ahead(s, less, j)
  BY <1>1 DEF Ahead, WeakOrder
<1>4. ASSUME j \in Ahead(s, less, i), NEW k \in Ahead(s, less, j)
      PROVE  k \in Ahead(s, less, i)
  <2> k \in DOMAIN s
    BY DEF Ahead
  <2>1. /\ <<s[k], s[i]>> \notin less => <<s[k], s[j]>> \notin less \/ <<s[j], s[i]>> \notin less
        /\ <<s[i], s[k]>> \in less => <<s[i], s[j]>> \in less \/ <<s[j], s[k]>> \in less
    BY <1>1 DEF WeakOrder
  <2> QED BY <1>1, <1>4, <2>1 DEF Ahead, WeakOrder
<1> QED BY <1>2, <1>3, <1>4

\* Every place of the sorted sequence is that of one element.
LEMMA SortedPlaces ==
    ASSUME NEW T, NEW s \in Seq(T), NEW less, WeakOrder(less, T)
    PROVE  \E p \in Bijection(DOMAIN s, DOMAIN s) :
             /\ Sorted(s, less) = [k \in DOMAIN s |-> s[p[k]]]
             /\ \A k, l \in DOMAIN s : k < l => p[k] \in Ahead(s, less, p[l])
<1> DEFINE D == DOMAIN s
           rank == [i \in D |-> Cardinality(Ahead(s, less, i)) + 1]
<1>1. /\ D = 1..Len(s) /\ Len(s) \in Nat /\ IsFiniteSet(D) /\ Cardinality(D) = Len(s)
  <2>1. D = 1..Len(s) /\ Len(s) \in Nat
    OBVIOUS
  <2> QED BY <2>1, UpToFinite
<1>2. ASSUME NEW i \in D
      PROVE  IsFiniteSet(Ahead(s, less, i)) /\ rank[i] \in D
  <2>1. Ahead(s, less, i) \subseteq D \ {i}
    BY AheadOrders DEF Ahead
  <2>2. IsFiniteSet(D \ {i}) /\ Cardinality(D \ {i}) = Len(s) - 1
    BY <1>1, FS_RemoveElement
  <2>3. /\ IsFiniteSet(Ahead(s, less, i)) /\ Cardinality(Ahead(s, less, i)) <= Len(s) - 1
        /\ Cardinality(Ahead(s, less, i)) \in Nat
    BY <2>1, <2>2, FS_Subset, FS_CardinalityType
  <2> QED BY <1>1, <2>3
<1>3. ASSUME NEW i \in D, NEW j \in Ahead(s, less, i)
      PROVE  rank[j] < rank[i]
  <2>1. j \in D /\ Ahead(s, less, j) \subseteq Ahead(s, less, i) /\ j \notin Ahead(s, less, j)
    BY AheadOrders DEF Ahead
  <2>2. /\ Cardinality(Ahead(s, less, j)) <= Cardinality(Ahead(s, less, i))
        /\ Cardinality(Ahead(s, less, j)) # Cardinality(Ahead(s, less, i))
    BY <1>2, <2>1, FS_Subset
  <2>3. Cardinality(Ahead(s, less, j)) \in Nat /\ Cardinality(Ahead(s, less, i)) \in Nat
    BY <1>2, <2>1, FS_CardinalityType
  <2> QED BY <2>1, <2>2, <2>3
<1>4. \A i, j \in D : rank[i] = rank[j] => i = j
  <2> SUFFICES ASSUME NEW i \in D, NEW j \in D, i # j PROVE rank[i] # rank[j]
    OBVIOUS
  <2>1. rank[i] \in Int /\ rank[j] \in Int
    BY <1>1, <1>2
  <2>2. j \in Ahead(s, less, i) \/ i \in Ahead(s, less, j)
    BY AheadOrders
  <2>3. rank[j] < rank[i] \/ rank[i] < rank[j]
    BY <1>3, <2>2
  <2> HIDE DEF rank
  <2> QED BY <2>1, <2>3
<1>5. rank \in Injection(D, D)
  BY <1>2, <1>4 DEF Injection, IsInjective
<1>6. rank \in Surjection(D, D)
  BY <1>1, <1>5, FS_Injection
<1> DEFINE p == [k \in D |-> CHOOSE i \in D : Cardinality(Ahead(s, less, i)) = k - 1]
<1>7. Sorted(s, less) = [k \in D |-> s[p[k]]]
  BY DEF Sorted
<1>8. ASSUME NEW k \in D PROVE p[k] \in D /\ rank[p[k]] = k
  <2>1. PICK i \in D : rank[i] = k
    BY <1>6 DEF Surjection
  <2>2. \A j \in D : Cardinality(Ahead(s, less, j)) \in Nat
    BY <1>2, FS_CardinalityType
  <2>3. k \in Nat /\ Cardinality(Ahead(s, less, i)) = k - 1
    BY <1>1, <2>1, <2>2
  <2>4. p[k] \in D /\ Cardinality(Ahead(s, less, p[k])) = k - 1
    BY <2>3
  <2> QED BY <2>3, <2>4
<1> HIDE DEF rank, p
<1>10. p \in Bijection(D, D)
  <2>1. p \in [D -> D]
    BY <1>8 DEF p
  <2>2. \A k, l \in D : p[k] = p[l] => k = l
    BY <1>8
  <2>3. \A i \in D : \E k \in D : p[k] = i
    BY <1>2, <1>4, <1>8
  <2> QED BY <2>1, <2>2, <2>3 DEF Bijection, Injection, Surjection, IsInjective
<1>11. ASSUME NEW k \in D, NEW l \in D, k < l
       PROVE  p[k] \in Ahead(s, less, p[l])
  <2>1. p[k] # p[l] /\ rank[p[k]] = k /\ rank[p[l]] = l /\ p[k] \in D /\ p[l] \in D
    BY <1>1, <1>8, <1>11
  <2>2. p[l] \notin Ahead(s, less, p[k])
    BY <1>1, <1>3, <1>11, <2>1
  <2> QED BY <2>1, <2>2, AheadOrders
<1> QED BY <1>7, <1>10, <1>11

\* Where an element is.
Places(s, x) == {i \in DOMAIN s : s[i] = x}

\* Sorting moves elements, and neither adds nor removes one.
LEMMA SortedCounts ==
    ASSUME NEW T, NEW s \in Seq(T), NEW less, WeakOrder(less, T)
    PROVE  /\ Sorted(s, less) \in Seq(T)
           /\ Len(Sorted(s, less)) = Len(s)
           /\ \A x : Cardinality(Places(Sorted(s, less), x)) = Cardinality(Places(s, x))
<1> DEFINE D == DOMAIN s
           t == Sorted(s, less)
<1>1. PICK p \in Bijection(D, D) : t = [k \in D |-> s[p[k]]]
  BY SortedPlaces
<1>2. /\ p \in [D -> D] /\ \A k, l \in D : p[k] = p[l] => k = l
      /\ \A i \in D : \E k \in D : p[k] = i
  BY <1>1, Fun_BijectionProperties
<1>3. D = 1..Len(s) /\ Len(s) \in Nat /\ IsFiniteSet(D) /\ \A i \in D : s[i] \in T
  BY ElementOfSeq, FS_Interval
<1> HIDE DEF t
<1>4. DOMAIN t = D /\ \A k \in D : t[k] = s[p[k]] /\ t[k] \in T
  BY <1>1, <1>2, <1>3
<1>5. t \in Seq(T) /\ Len(t) = Len(s)
  <2>1. t \in [1..Len(s) -> T]
    BY <1>1, <1>3, <1>4
  <2> QED BY <1>3, <2>1
<1>6. ASSUME NEW x
      PROVE  Cardinality(Places(t, x)) = Cardinality(Places(s, x))
  <2> DEFINE A == Places(t, x)
             B == Places(s, x)
             q == [k \in A |-> p[k]]
  <2>1. A \subseteq D /\ B \subseteq D /\ IsFiniteSet(A)
    BY <1>3, <1>4, FS_Subset DEF Places
  <2>2. q \in [A -> B]
    BY <1>2, <1>4 DEF Places
  <2>3. \A k, l \in A : q[k] = q[l] => k = l
    BY <1>2, <2>1
  <2>4. \A i \in B : \E k \in A : q[k] = i
    BY <1>2, <1>4 DEF Places
  <2> HIDE DEF A, B, q
  <2>5. q \in Bijection(A, B)
    BY <2>2, <2>3, <2>4, Fun_IsBij
  <2>6. Cardinality(B) = Cardinality(A)
    BY <2>1, <2>5, FS_Bijection, Fun_ExistsBij
  <2> QED BY <2>6 DEF A, B
<1> QED BY <1>5, <1>6 DEF t

\* A sequence without steps down.
NoStepDown(s) == \A k, l \in DOMAIN s : k < l => s[k] <= s[l]

\* Two sequences have each element of a set equally often.
SameCounts(s, t, T) == \A x \in T : Cardinality(Places(s, x)) = Cardinality(Places(t, x))

\* q takes each place of s to another of t that has the same element.
Embeds(q, s, t) == q \in Injection(DOMAIN s, DOMAIN t) /\ \A i \in DOMAIN s : t[q[i]] = s[i]

\* What a sequence has as often as another can be found there, place by place.
LEMMA CountsEmbed ==
    ASSUME NEW T, NEW s \in Seq(T), NEW t \in Seq(T), SameCounts(s, t, T)
    PROVE  \E q : Embeds(q, s, t)
<1> DEFINE to == [x \in T |-> CHOOSE g : g \in Bijection(Places(s, x), Places(t, x))]
           q == [i \in DOMAIN s |-> to[s[i]][i]]
<1>1. ASSUME NEW x \in T
      PROVE  to[x] \in Bijection(Places(s, x), Places(t, x))
  <2>1. IsFiniteSet(Places(s, x)) /\ IsFiniteSet(Places(t, x))
    <3>1. IsFiniteSet(DOMAIN s) /\ IsFiniteSet(DOMAIN t)
      BY FS_Interval
    <3> QED BY <3>1, FS_Subset DEF Places
  <2>2. Bijection(Places(s, x), Places(t, x)) # {}
    BY <2>1, FS_SameCardinalityBij, Fun_ExistsBij DEF SameCounts
  <2> QED BY <2>2
<1> HIDE DEF to
<1>2. ASSUME NEW i \in DOMAIN s
      PROVE  q[i] \in DOMAIN t /\ t[q[i]] = s[i]
  <2>1. s[i] \in T /\ i \in Places(s, s[i])
    BY ElementOfSeq DEF Places
  <2>2. to[s[i]][i] \in Places(t, s[i])
    BY <1>1, <2>1, Fun_BijectionProperties
  <2> QED BY <2>2 DEF Places
<1>3. ASSUME NEW i \in DOMAIN s, NEW j \in DOMAIN s, q[i] = q[j]
      PROVE  i = j
  <2>1. s[i] = s[j]
    BY <1>2, <1>3
  <2>2. s[i] \in T /\ i \in Places(s, s[i]) /\ j \in Places(s, s[i])
    BY <2>1, ElementOfSeq DEF Places
  <2>3. to[s[i]][i] = to[s[i]][j]
    BY <1>3, <2>1
  <2> QED BY <1>1, <2>2, <2>3, Fun_BijectionProperties
<1>4. q \in [DOMAIN s -> DOMAIN t]
  BY <1>2
<1> HIDE DEF q
<1>5. q \in Injection(DOMAIN s, DOMAIN t)
  BY <1>3, <1>4, Fun_IsInj
<1> QED BY <1>2, <1>5 DEF Embeds

\* Of two sorted sequences, the one whose elements are all in the other is not
\* smaller at any place.
LEMMA NotSmaller ==
    ASSUME NEW s \in Seq(Int), NEW t \in Seq(Int), NoStepDown(s), NoStepDown(t),
           NEW q, Embeds(q, s, t), NEW k \in DOMAIN s, k \in DOMAIN t
    PROVE  ~ s[k] < t[k]
<1>1. SUFFICES ASSUME s[k] < t[k] PROVE FALSE
  OBVIOUS
<1>2. /\ DOMAIN s = 1..Len(s) /\ DOMAIN t = 1..Len(t) /\ Len(s) \in Nat /\ Len(t) \in Nat
      /\ \A i \in DOMAIN s : s[i] \in Int
      /\ \A i \in DOMAIN t : t[i] \in Int
  BY ElementOfSeq
<1>3. /\ q \in [DOMAIN s -> DOMAIN t] /\ \A i, j \in DOMAIN s : q[i] = q[j] => i = j
      /\ \A i \in DOMAIN s : t[q[i]] = s[i]
  BY Fun_InjectionProperties DEF Embeds
<1>4. ASSUME NEW j \in 1..k PROVE q[j] \in 1..k - 1
  <2>1. j \in DOMAIN s /\ q[j] \in DOMAIN t /\ t[q[j]] = s[j]
    BY <1>2, <1>3
  <2>2. s[j] <= s[k]
    <3>1. j < k => s[j] <= s[k]
      BY <2>1 DEF NoStepDown
    <3>2. j \in Nat /\ k \in Nat /\ j <= k /\ s[k] \in Int
      BY <1>2
    <3> QED BY <3>1, <3>2
  <2>3. t[q[j]] < t[k]
    BY <1>1, <1>2, <2>1, <2>2
  <2>4. ~ (k < q[j])
    <3>1. k < q[j] => t[k] <= t[q[j]]
      BY <2>1 DEF NoStepDown
    <3>2. t[k] \in Int /\ t[q[j]] \in Int
      BY <1>2, <2>1
    <3> QED BY <2>3, <3>1, <3>2
  <2>5. k # q[j]
    BY <1>2, <2>1, <2>3
  <2>6. PICK m \in Nat : m = q[j] /\ m > 0
    BY <1>2, <2>1
  <2>7. k \in Nat
    BY <1>2
  <2>8. m \in 1..k - 1
    BY <2>4, <2>5, <2>6, <2>7
  <2> QED BY <2>6, <2>8
<1> DEFINE r == [j \in 1..k |-> q[j]]
<1>5. k \in Nat /\ k > 0 /\ 1..k \subseteq DOMAIN s
  BY <1>2
<1>6. r \in [1..k -> 1..k - 1] /\ \A i, j \in 1..k : r[i] = r[j] => i = j
  BY <1>3, <1>4, <1>5
<1>7. /\ IsFiniteSet(1..k) /\ IsFiniteSet(1..k - 1)
      /\ Cardinality(1..k - 1) < Cardinality(1..k)
  <2>1. k - 1 \in Nat
    BY <1>5
  <2>2. /\ IsFiniteSet(1..k) /\ Cardinality(1..k) = k
        /\ IsFiniteSet(1..k - 1) /\ Cardinality(1..k - 1) = k - 1
    BY <1>5, <2>1, UpToFinite
  <2> QED BY <1>5, <2>2
<1> HIDE DEF r
<1>8. ASSUME NEW S, NEW T, S = 1..k, T = 1..k - 1
      PROVE  \E i, j \in S : i # j /\ r[i] = r[j]
  <2>1. IsFiniteSet(S) /\ IsFiniteSet(T) /\ Cardinality(T) < Cardinality(S) /\ r \in [S -> T]
    BY <1>6, <1>7, <1>8
  <2> QED BY <2>1, FS_PigeonHole
<1> QED BY <1>6, <1>8

\* A sorted sequence is determined by how often it has each element.
LEMMA CountsDetermine ==
    ASSUME NEW s \in Seq(Int), NEW t \in Seq(Int), NoStepDown(s), NoStepDown(t),
           SameCounts(s, t, Int)
    PROVE  s = t
<1>1. PICK q : Embeds(q, s, t)
  BY CountsEmbed
<1>2. PICK r : Embeds(r, t, s)
  <2>1. SameCounts(t, s, Int)
    BY DEF SameCounts
  <2> QED BY <2>1, CountsEmbed
<1>3. PICK n \in Nat : DOMAIN s = 1..n /\ Len(s) = n /\ \A i \in 1..n : s[i] \in Int
  BY ElementOfSeq
<1>4. PICK m \in Nat : DOMAIN t = 1..m /\ Len(t) = m /\ \A i \in 1..m : t[i] \in Int
  BY ElementOfSeq
<1>5. n = m
  <2>1. \A k \in Nat : IsFiniteSet(1..k) /\ Cardinality(1..k) = k
    BY UpToFinite
  <2>2. n <= m
    <3>1. q \in Injection(1..n, 1..m)
      BY <1>1, <1>3, <1>4 DEF Embeds
    <3>2. Cardinality(1..n) <= Cardinality(1..m)
      BY <2>1, <1>3, <1>4, <3>1, FS_Injection
    <3> QED BY <1>3, <1>4, <2>1, <3>2
  <2>3. m <= n
    <3>1. r \in Injection(1..m, 1..n)
      BY <1>2, <1>3, <1>4 DEF Embeds
    <3>2. Cardinality(1..m) <= Cardinality(1..n)
      BY <2>1, <1>3, <1>4, <3>1, FS_Injection
    <3> QED BY <1>3, <1>4, <2>1, <3>2
  <2> QED BY <1>3, <1>4, <2>2, <2>3
<1>6. ASSUME NEW k \in DOMAIN s PROVE s[k] = t[k]
  <2>1. k \in DOMAIN t
    BY <1>3, <1>4, <1>5
  <2>2. ~ s[k] < t[k] /\ ~ t[k] < s[k]
    BY <1>1, <1>2, <2>1, NotSmaller
  <2>3. s[k] \in Int /\ t[k] \in Int
    BY <1>3, <1>4, <2>1
  <2> QED BY <2>2, <2>3
<1> QED BY <1>3, <1>4, <1>5, <1>6
-----------------------------------------------------------------------------
(* What FlattenSeq returns. *)

\* f is the recursive function of FlattenSeq on the first m sequences.
IsFlat(seqs, m, f) == f = [i \in 1..m |-> IF i = 1 THEN seqs[i] ELSE f[i - 1] \o seqs[i]]

\* There is such a function.
LEMMA FlatExists ==
    ASSUME NEW seqs, NEW len \in Nat
    PROVE  \E f : IsFlat(seqs, len, f)
<1> DEFINE good == {m \in 0..len : \E f : IsFlat(seqs, m, f)}
<1>1. 0 \in good
  <2>1. IsFlat(seqs, 0, [i \in 1..0 |-> <<>>])
    BY DEF IsFlat
  <2> QED BY <2>1
<1>2. ASSUME NEW m \in 1..len, m - 1 \in good PROVE m \in good
  <2>1. PICK f : IsFlat(seqs, m - 1, f)
    BY <1>2
  <2> DEFINE g == [i \in 1..m |-> IF i < m THEN f[i]
                                  ELSE IF m = 1 THEN seqs[m] ELSE f[m - 1] \o seqs[m]]
  <2>2. \A i \in 1..m : g[i] = IF i = 1 THEN seqs[i] ELSE g[i - 1] \o seqs[i]
    <3> TAKE i \in 1..m
    <3>1. CASE i < m
      <4>1. i \in 1..m - 1
        BY <3>1
      <4>2. f[i] = IF i = 1 THEN seqs[i] ELSE f[i - 1] \o seqs[i]
        BY <2>1, <4>1 DEF IsFlat
      <4> QED BY <3>1, <4>1, <4>2
    <3>2. CASE i = m
      <4>1. m # 1 => m - 1 \in 1..m /\ m - 1 < m
        OBVIOUS
      <4> QED BY <3>2, <4>1
    <3> QED BY <3>1, <3>2
  <2>3. IsFlat(seqs, m, g)
    BY <2>2, Zenon DEF IsFlat
  <2> QED BY <2>3
<1> HIDE DEF good
<1>3. len \in good
  <2>1. 0..len \subseteq good
    BY <1>1, <1>2, CountUp
  <2> QED BY <2>1
<1> QED BY <1>3 DEF good

\* f is what is flattened of the first sequences.
FlatUpTo(f, seqs, T) ==
    /\ f[1] = seqs[1]
    /\ \A i \in 2..Len(seqs) : f[i] = f[i - 1] \o seqs[i]
    /\ \A i \in 1..Len(seqs) : f[i] \in Seq(T)

\* FlattenSeq takes one sequence after the other.
LEMMA FlattenSteps ==
    ASSUME NEW T, NEW seqs, NEW n \in Nat \ {0}, Len(seqs) = n, \A i \in 1..n : seqs[i] \in Seq(T)
    PROVE  \E f : FlattenSeq(seqs) = f[n] /\ FlatUpTo(f, seqs, T)
<1> DEFINE f == CHOOSE f : IsFlat(seqs, n, f)
<1>1. IsFlat(seqs, n, f)
  BY FlatExists
<1>2. FlattenSeq(seqs) = f[n]
  <2>1. Len(seqs) # 0
    OBVIOUS
  <2> QED BY <2>1 DEF FlattenSeq, IsFlat
<1> HIDE DEF f
<1>3. f[1] = seqs[1] /\ \A i \in 2..n : f[i] = f[i - 1] \o seqs[i]
  <2>1. \A i \in 1..n : f[i] = IF i = 1 THEN seqs[i] ELSE f[i - 1] \o seqs[i]
    BY <1>1, Zenon DEF IsFlat
  <2>2. 1 \in 1..n /\ \A i \in 2..n : i \in 1..n /\ i # 1
    OBVIOUS
  <2> QED BY <2>1, <2>2
<1> DEFINE good == {i \in 0..n : i = 0 \/ f[i] \in Seq(T)}
<1>4. ASSUME NEW i \in 1..n, i - 1 \in good PROVE i \in good
  <2>1. CASE i = 1
    BY <1>3, <2>1
  <2>2. CASE i # 1
    <3>0. i \in 2..n /\ i - 1 # 0
      BY <2>2
    <3>1. f[i - 1] \in Seq(T) /\ seqs[i] \in Seq(T) /\ f[i] = f[i - 1] \o seqs[i]
      BY <1>3, <1>4, <3>0
    <3>2. f[i] \in Seq(T)
      BY <3>1, ConcatProperties
    <3> QED BY <3>2
  <2> QED BY <2>1, <2>2
<1>5. 0 \in good
  OBVIOUS
<1>6. 0..n \subseteq good
  <2> HIDE DEF good
  <2> QED BY <1>4, <1>5, CountUp
<1>7. \A i \in 1..n : f[i] \in Seq(T)
  BY <1>6
<1> QED BY <1>2, <1>3, <1>7 DEF FlatUpTo

\* It has the elements of each.
LEMMA FlattenHas ==
    ASSUME NEW T, NEW seqs, NEW n \in Nat \ {0}, Len(seqs) = n, \A i \in 1..n : seqs[i] \in Seq(T),
           NEW k \in 1..n
    PROVE  Range(seqs[k]) \subseteq Range(FlattenSeq(seqs))
<1>1. PICK f : FlattenSeq(seqs) = f[n] /\ FlatUpTo(f, seqs, T)
  BY FlattenSteps
<1>2. /\ f[1] = seqs[1]
      /\ \A i \in 2..n : f[i] = f[i - 1] \o seqs[i]
      /\ \A i \in 1..n : f[i] \in Seq(T)
  BY <1>1 DEF FlatUpTo
<1> DEFINE good == {i \in 0..n : k <= i => Range(seqs[k]) \subseteq Range(f[i])}
<1>3. ASSUME NEW i \in 1..n, i - 1 \in good PROVE i \in good
  <2> SUFFICES ASSUME k <= i PROVE Range(seqs[k]) \subseteq Range(f[i])
    OBVIOUS
  <2>1. CASE i = 1
    BY <1>2, <2>1
  <2>2. CASE i # 1
    <3>0. i \in 2..n /\ i - 1 \in 1..n
      BY <2>2
    <3>1. f[i - 1] \in Seq(T) /\ seqs[i] \in Seq(T) /\ f[i] = f[i - 1] \o seqs[i]
      BY <1>2, <3>0
    <3>2. Range(f[i]) = Range(f[i - 1]) \cup Range(seqs[i])
      BY <3>1, RangeConcatenation
    <3>3. k # i => Range(seqs[k]) \subseteq Range(f[i - 1])
      BY <1>3
    <3> QED BY <3>2, <3>3
  <2> QED BY <2>1, <2>2
<1>4. 0 \in good
  OBVIOUS
<1>5. n \in good
  <2>1. 0..n \subseteq good
    <3> HIDE DEF good
    <3> QED BY <1>3, <1>4, CountUp
  <2> QED BY <2>1
<1> QED BY <1>1, <1>5

-----------------------------------------------------------------------------
(* A set that a counter bounds. *)

\* A finite set of at most so many elements.
AtMost(S, n) == IsFiniteSet(S) /\ n \in Nat /\ Cardinality(S) <= n

\* A smaller set, or a larger bound.
LEMMA BoundStays ==
    ASSUME NEW S, NEW T, NEW n, NEW k \in Nat, AtMost(T, n), S \subseteq T, n <= k
    PROVE  AtMost(S, k)
<1>1. IsFiniteSet(T) /\ Cardinality(T) \in Nat /\ n \in Nat /\ Cardinality(T) <= n
  BY FS_CardinalityType DEF AtMost
<1>2. IsFiniteSet(S) /\ Cardinality(S) <= Cardinality(T) /\ Cardinality(S) \in Nat
  BY <1>1, FS_Subset, FS_CardinalityType
<1> QED BY <1>1, <1>2 DEF AtMost

\* One element more, and one more is allowed.
LEMMA BoundGrows ==
    ASSUME NEW S, NEW T, NEW x, NEW n, AtMost(T, n), S \subseteq T \cup {x}
    PROVE  AtMost(S, n + 1)
<1>1. IsFiniteSet(T) /\ Cardinality(T) \in Nat /\ n \in Nat /\ Cardinality(T) <= n
  BY FS_CardinalityType DEF AtMost
<1>2. /\ IsFiniteSet(T \cup {x})
      /\ Cardinality(T \cup {x}) = Cardinality(T) \/ Cardinality(T \cup {x}) = Cardinality(T) + 1
  BY <1>1, FS_AddElement
<1>3. AtMost(T \cup {x}, n + 1)
  BY <1>1, <1>2 DEF AtMost
<1> QED BY <1>1, <1>3, BoundStays

\* One element in place of another.
LEMMA BoundExchanged ==
    ASSUME NEW S, NEW T, NEW x, NEW y \in T, NEW n, AtMost(T, n),
           S \subseteq (T \ {y}) \cup {x}
    PROVE  AtMost(S, n)
<1>1. IsFiniteSet(T) /\ Cardinality(T) \in Nat /\ n \in Nat /\ Cardinality(T) <= n
  BY FS_CardinalityType DEF AtMost
<1>2. IsFiniteSet(T \ {y}) /\ Cardinality(T \ {y}) = Cardinality(T) - 1
  BY <1>1, FS_RemoveElement
<1>3. AtMost(T \ {y}, n - 1)
  <2>1. Cardinality(T \ {y}) \in Nat
    BY <1>2, FS_CardinalityType
  <2> QED BY <1>1, <1>2, <2>1 DEF AtMost
<1>4. AtMost(S, n - 1 + 1)
  BY <1>3, BoundGrows
<1> QED BY <1>1, <1>4

\* What is in a set that is bounded.
LEMMA BoundOfPart ==
    ASSUME NEW S, NEW T, NEW n, AtMost(T, n), S \subseteq T
    PROVE  Cardinality(S) <= n
BY BoundStays DEF AtMost
=============================================================================
