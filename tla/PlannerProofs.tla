--------------------------- MODULE PlannerProofs ---------------------------
(***************************************************************************)
(* What the planner's runs check of their own descriptors, proved for      *)
(* every descriptor the C ABI can be handed.                               *)
(***************************************************************************)
EXTENDS ConvPlanner, SequenceTheorems, WellFoundedInduction, TLAPS

-----------------------------------------------------------------------------
(* Numbers.                                                                *)

(* A nonempty set of naturals has a least member: the only induction there is here. *)
LEMMA Least ==
  ASSUME NEW T \in SUBSET Nat, T # {}
  PROVE  \E n \in T : \A m \in T : n <= m
<1> DEFINE Less == OpToRel(<, Nat)
<1>1. PICK n \in T : \A m \in T : <<m, n>> \notin Less
  <2>1. IsWellFoundedOn(Less, Nat)
    BY NatLessThanWellFounded
  <2> HIDE DEF Less
  <2> QED  BY <2>1, WFMin
<1>2. ASSUME NEW m \in T PROVE n <= m
  <2>1. n \in Nat /\ m \in Nat /\ <<m, n>> \notin Less
    BY <1>1
  <2>2. m < n => <<m, n>> \in Less
    BY <2>1 DEF OpToRel
  <2> HIDE DEF Less
  <2> QED  BY <2>1, <2>2
<1> QED  BY <1>2

(* Induction over the naturals, for a set.                                 *)
LEMMA Induction ==
  ASSUME NEW T, 0 \in T, \A n \in Nat : n \in T => n + 1 \in T
  PROVE  Nat \subseteq T
<1>1. SUFFICES ASSUME Nat \ T # {} PROVE FALSE
  OBVIOUS
<1>2. PICK n \in Nat \ T : \A m \in Nat \ T : n <= m
  <2>1. Nat \ T \in SUBSET Nat
    OBVIOUS
  <2> QED  BY <1>1, <2>1, Least
<1>3. n # 0 /\ n - 1 \in Nat /\ (n - 1) + 1 = n
  BY <1>2
<1> QED  BY <1>2, <1>3

(* A bounded set of numbers has a greatest element.                        *)
LEMMA Greatest ==
  ASSUME NEW k \in Nat, NEW T \in SUBSET (0..k), T # {}
  PROVE  \E n \in T : \A m \in T : m <= n
<1> DEFINE Above == {k - m : m \in T}
<1>1. Above \in SUBSET Nat /\ Above # {}
  <2>1. \A m \in T : m \in 0..k /\ k - m \in Nat
    OBVIOUS
  <2> QED  BY <2>1
<1>2. PICK a \in Above : \A b \in Above : a <= b
  <2> HIDE DEF Above
  <2> QED  BY <1>1, Least
<1>3. PICK n \in T : a = k - n
  BY <1>2
<1>4. ASSUME NEW m \in T PROVE m <= n
  <2>1. a <= k - m
    BY <1>2
  <2> QED  BY <2>1, <1>3
<1> QED  BY <1>4

(* Division by a positive number.                                          *)
LEMMA Quotient ==
  ASSUME NEW a \in Nat, NEW b \in Nat, b # 0
  PROVE  /\ a \div b \in Nat /\ a % b \in 0..(b - 1)
         /\ b * (a \div b) <= a /\ a < b * (a \div b) + b
OBVIOUS

(* A quotient and a remainder are read off any decomposition a = q * b + r. *)
LEMMA QuotientIs ==
  ASSUME NEW a \in Nat, NEW b \in Nat, NEW q \in Nat, NEW r \in Nat, r < b, a = q * b + r
  PROVE  a \div b = q /\ a % b = r
OBVIOUS

(* The division of usize values, a = (a / b) * b + a % b. *)
LEMMA Remainder ==
  ASSUME NEW a \in Nat, NEW b \in Nat, b # 0
  PROVE  a = (a \div b) * b + (a % b)
<1> DEFINE q == a \div b
           r == a - b * q
<1>1. q \in Nat /\ b * q <= a /\ a < b * q + b
  BY Quotient
<1>2. r \in Nat /\ r < b /\ a = q * b + r
  <2> HIDE DEF q
  <2>1. b * q = q * b
    BY <1>1
  <2> QED  BY <1>1, <2>1
<1>3. a % b = r
  <2> HIDE DEF q, r
  <2> QED  BY <1>1, <1>2, QuotientIs
<1>4. a = q * b + (a % b)
  <2> HIDE DEF q, r
  <2> QED  BY <1>2, <1>3
<1> QED  BY <1>4

(* div_ceil rounds up, by less than one divisor. *)
LEMMA Ceiling ==
  ASSUME NEW a \in Nat, NEW b \in Nat, b # 0
  PROVE  /\ div_ceil(a, b) \in Nat /\ a <= div_ceil(a, b) * b
         /\ div_ceil(a, b) * b < a + b /\ (a # 0 => div_ceil(a, b) # 0)
BY DEF div_ceil

(* div_ceil is monotone in the dividend. *)
LEMMA CeilingMonotone ==
  ASSUME NEW a \in Nat, NEW c \in Nat, NEW b \in Nat, b # 0, a <= c
  PROVE  div_ceil(a, b) <= div_ceil(c, b)
BY DEF div_ceil

(* A product of naturals is monotone in its first factor. *)
LEMMA ProductMonotone ==
  ASSUME NEW a \in Nat, NEW b \in Nat, NEW c \in Nat, a <= b
  PROVE  a * c \in Nat /\ b * c \in Nat /\ a * c <= b * c
OBVIOUS
-----------------------------------------------------------------------------
(* Recursions.                                                             *)

(* F takes step i of n from a value to the next one, and f iterates it.    *)
IsStep(F, n, V) == F \in [(1..n) \X V -> V]
Iterated(f, n, V, v0, F) ==
  f \in [0..n -> V] /\ f[0] = v0 /\ \A i \in 1..n : f[i] = F[<<i, f[i - 1]>>]

(* Every step function can be iterated.                                    *)
LEMMA Iterates ==
  ASSUME NEW n \in Nat, NEW V, NEW v0 \in V, NEW F, IsStep(F, n, V)
  PROVE  \E f : Iterated(f, n, V, v0, F)
<1> USE DEF IsStep
<1> DEFINE Upto(k, f) == /\ f \in [0..k -> V] /\ f[0] = v0
                         /\ \A i \in 1..k : f[i] = F[<<i, f[i - 1]>>]
           T == {k \in Nat : k <= n => \E f : Upto(k, f)}
<1>1. 0 \in T
  <2>1. Upto(0, [i \in 0..0 |-> v0])
    OBVIOUS
  <2> QED  BY <2>1
<1>2. ASSUME NEW k \in Nat, k \in T PROVE k + 1 \in T
  <2>1. SUFFICES ASSUME k + 1 <= n PROVE \E f : Upto(k + 1, f)
    OBVIOUS
  <2>2. PICK f : Upto(k, f)
    BY <1>2, <2>1
  <2> DEFINE v == F[<<k + 1, f[k]>>]
             h == [i \in 0..(k + 1) |-> IF i <= k THEN f[i] ELSE v]
  <2>3. f[k] \in V /\ k + 1 \in 1..n /\ f[0] \in V
    BY <2>1, <2>2
  <2>4. v \in V
    BY <2>3
  <2>5. h \in [0..(k + 1) -> V] /\ h[0] = v0
    <3> HIDE DEF v
    <3> QED  BY <2>2, <2>4
  <2>6. ASSUME NEW i \in 1..(k + 1) PROVE h[i] = F[<<i, h[i - 1]>>]
    <3>1. CASE i <= k
      <4>1. h[i] = f[i] /\ h[i - 1] = f[i - 1] /\ i \in 1..k
        BY <3>1
      <4> QED  BY <4>1, <2>2
    <3>2. CASE i = k + 1
      BY <3>2
    <3> QED  BY <3>1, <3>2
  <2>7. Upto(k + 1, h)
    BY <2>5, <2>6
  <2> QED  BY <2>7
<1>3. Nat \subseteq T
  <2> HIDE DEF T
  <2> QED  BY <1>1, <1>2, Induction
<1>4. n \in T
  <2> HIDE DEF T
  <2> QED  BY <1>3
<1>5. \E f : Upto(n, f)
  BY <1>4
<1> QED  BY <1>5 DEF Iterated

(* PartialSums adds one entry at a time.                                   *)
LEMMA Sums ==
  ASSUME NEW v \in Seq(Nat)
  PROVE  /\ PartialSums(v) \in [0..Len(v) -> Nat] /\ PartialSums(v)[0] = 0
         /\ \A i \in 1..Len(v) : PartialSums(v)[i] = PartialSums(v)[i - 1] + v[i]
<1> DEFINE n == Len(v)
           F == [x \in (1..n) \X Nat |-> x[2] + v[x[1]]]
           P(f) == f = [i \in 0..n |-> IF i = 0 THEN 0 ELSE f[i - 1] + v[i]]
           g == CHOOSE f : P(f)
<1>1. n \in Nat /\ \A i \in 1..n : v[i] \in Nat
  OBVIOUS
<1>2. IsStep(F, n, Nat)
  BY <1>1 DEF IsStep
<1>3. PICK f : Iterated(f, n, Nat, 0, F)
  <2>1. 0 \in Nat /\ n \in Nat
    BY <1>1
  <2> HIDE DEF F, n
  <2> QED  BY <2>1, <1>2, Iterates
<1>4. ASSUME NEW i \in 1..n PROVE f[i] = f[i - 1] + v[i]
  <2>1. i - 1 \in 0..n
    BY <1>1
  <2>2. f[i - 1] \in Nat
    BY <1>3, <2>1 DEF Iterated
  <2> QED  BY <1>3, <2>2 DEF Iterated
<1>5. P(f)
  BY <1>3, <1>4 DEF Iterated
<1>6. P(g)
  <2> HIDE DEF P
  <2> QED  BY <1>5
<1>7. PartialSums(v) = g
  BY DEF PartialSums
<1> HIDE DEF g
<1> DEFINE T == {i \in Nat : i <= n => g[i] \in Nat}
<1>8. 0 \in T
  BY <1>1, <1>6
<1>9. ASSUME NEW i \in Nat, i \in T PROVE i + 1 \in T
  <2>1. SUFFICES ASSUME i + 1 <= n PROVE g[i + 1] \in Nat
    OBVIOUS
  <2>2. g[i] \in Nat /\ i + 1 \in 1..n /\ v[i + 1] \in Nat /\ (i + 1) - 1 = i
    BY <1>1, <1>9, <2>1
  <2>3. g[i + 1] = g[i] + v[i + 1]
    BY <1>6, <2>2
  <2> QED  BY <2>2, <2>3
<1>10. Nat \subseteq T
  <2> HIDE DEF T
  <2> QED  BY <1>8, <1>9, Induction
<1>11. g \in [0..n -> Nat]
  <2>1. \A i \in 0..n : g[i] \in Nat
    BY <1>1, <1>10
  <2>2. g = [i \in 0..n |-> g[i]]
    BY <1>6
  <2> QED  BY <2>1, <2>2
<1>12. g[0] = 0 /\ \A i \in 1..n : g[i] = g[i - 1] + v[i]
  BY <1>1, <1>6
<1> QED  BY <1>7, <1>11, <1>12

(* The sum of a sequence, and of two laid end to end.                      *)
SumOf(v) == PartialSums(v)[Len(v)]

(* The rows of two bands of tiles add up. *)
LEMMA SumConcat ==
  ASSUME NEW a \in Seq(Nat), NEW b \in Seq(Nat)
  PROVE  SumOf(a \o b) = SumOf(a) + SumOf(b)
<1> DEFINE v == a \o b
           m == Len(a)
           n == Len(b)
<1>1. /\ v \in Seq(Nat) /\ m \in Nat /\ n \in Nat /\ Len(v) = m + n
      /\ \A i \in 1..m : v[i] = a[i]
      /\ \A i \in 1..n : v[m + i] = b[i]
  BY ConcatProperties
<1>2. /\ PartialSums(a) \in [0..m -> Nat] /\ PartialSums(a)[0] = 0
      /\ \A i \in 1..m : PartialSums(a)[i] = PartialSums(a)[i - 1] + a[i]
  BY Sums
<1>3. /\ PartialSums(b) \in [0..n -> Nat] /\ PartialSums(b)[0] = 0
      /\ \A i \in 1..n : PartialSums(b)[i] = PartialSums(b)[i - 1] + b[i]
  BY Sums
<1>4. /\ PartialSums(v) \in [0..(m + n) -> Nat] /\ PartialSums(v)[0] = 0
      /\ \A i \in 1..(m + n) : PartialSums(v)[i] = PartialSums(v)[i - 1] + v[i]
  <2> HIDE DEF v, m, n
  <2> QED  BY <1>1, Sums
<1> HIDE DEF v, m, n
<1> DEFINE T == {i \in Nat : i <= m => PartialSums(v)[i] = PartialSums(a)[i]}
           U == {i \in Nat : i <= n => PartialSums(v)[m + i] = PartialSums(a)[m] + PartialSums(b)[i]}
<1>5. 0 \in T
  BY <1>2, <1>4
<1>6. ASSUME NEW i \in Nat, i \in T PROVE i + 1 \in T
  <2>1. SUFFICES ASSUME i + 1 <= m PROVE PartialSums(v)[i + 1] = PartialSums(a)[i + 1]
    OBVIOUS
  <2>2. i <= m /\ i + 1 \in 1..m /\ i + 1 \in 1..(m + n) /\ (i + 1) - 1 = i
    BY <1>1, <2>1
  <2>3. PartialSums(v)[i] = PartialSums(a)[i] /\ v[i + 1] = a[i + 1]
    BY <1>1, <1>6, <2>2
  <2> QED  BY <1>2, <1>4, <2>2, <2>3
<1>7. Nat \subseteq T
  <2> HIDE DEF T
  <2> QED  BY <1>5, <1>6, Induction
<1>8. PartialSums(v)[m] = PartialSums(a)[m] /\ PartialSums(a)[m] \in Nat
  BY <1>1, <1>2, <1>7
<1>9. 0 \in U
  BY <1>1, <1>3, <1>8
<1>10. ASSUME NEW i \in Nat, i \in U PROVE i + 1 \in U
  <2>1. SUFFICES ASSUME i + 1 <= n
                 PROVE  PartialSums(v)[m + (i + 1)] = PartialSums(a)[m] + PartialSums(b)[i + 1]
    OBVIOUS
  <2>2. i + 1 \in 1..n /\ m + (i + 1) \in 1..(m + n) /\ (i + 1) - 1 = i
        /\ (m + (i + 1)) - 1 = m + i /\ i \in 0..n /\ i + 1 \in 0..n /\ m + i \in 0..(m + n)
    BY <1>1, <2>1
  <2>3. /\ PartialSums(v)[m + i] = PartialSums(a)[m] + PartialSums(b)[i]
        /\ v[m + (i + 1)] = b[i + 1]
    BY <1>1, <1>10, <2>1, <2>2
  <2>4. /\ PartialSums(v)[m + (i + 1)] = PartialSums(v)[m + i] + v[m + (i + 1)]
        /\ PartialSums(b)[i + 1] = PartialSums(b)[i] + b[i + 1]
    BY <1>3, <1>4, <2>2
  <2>5. PartialSums(b)[i] \in Nat /\ PartialSums(b)[i + 1] \in Nat /\ PartialSums(v)[m + i] \in Nat
    BY <1>3, <1>4, <2>2
  <2>6. PartialSums(v)[m + (i + 1)] = (PartialSums(a)[m] + PartialSums(b)[i]) + b[i + 1]
    BY <2>3, <2>4
  <2>7. b[i + 1] \in Nat
    BY <2>2 DEF n
  <2> QED  BY <2>4, <2>5, <2>6, <2>7, <1>8
<1>11. Nat \subseteq U
  <2> HIDE DEF U
  <2> QED  BY <1>9, <1>10, Induction
<1>12. PartialSums(v)[m + n] = PartialSums(a)[m] + PartialSums(b)[n]
  BY <1>1, <1>11
<1> QED  BY <1>1, <1>12 DEF SumOf, v, m, n

(* A sum of numbers all multiplied by the same one.                        *)
LEMMA SumScaled ==
  ASSUME NEW v \in Seq(Nat), NEW c \in Nat
  PROVE  SumOf([i \in 1..Len(v) |-> v[i] * c]) = SumOf(v) * c
<1> DEFINE n == Len(v)
           w == [i \in 1..n |-> v[i] * c]
<1>1. n \in Nat /\ \A i \in 1..n : v[i] \in Nat
  OBVIOUS
<1>2. w \in Seq(Nat) /\ Len(w) = n /\ \A i \in 1..n : w[i] = v[i] * c
  <2>1. \A i \in 1..n : v[i] * c \in Nat
    BY <1>1
  <2> HIDE DEF n
  <2> QED  BY <1>1, <2>1
<1>3. /\ PartialSums(v) \in [0..n -> Nat] /\ PartialSums(v)[0] = 0
      /\ \A i \in 1..n : PartialSums(v)[i] = PartialSums(v)[i - 1] + v[i]
  BY Sums
<1>4. /\ PartialSums(w) \in [0..n -> Nat] /\ PartialSums(w)[0] = 0
      /\ \A i \in 1..n : PartialSums(w)[i] = PartialSums(w)[i - 1] + w[i]
  <2> HIDE DEF w, n
  <2> QED  BY <1>2, Sums
<1> HIDE DEF w, n
<1> DEFINE T == {i \in Nat : i <= n => PartialSums(w)[i] = PartialSums(v)[i] * c}
<1>5. 0 \in T
  BY <1>3, <1>4
<1>6. ASSUME NEW i \in Nat, i \in T PROVE i + 1 \in T
  <2>1. SUFFICES ASSUME i + 1 <= n PROVE PartialSums(w)[i + 1] = PartialSums(v)[i + 1] * c
    OBVIOUS
  <2>2. i + 1 \in 1..n /\ (i + 1) - 1 = i /\ i \in 0..n
        /\ PartialSums(w)[i] = PartialSums(v)[i] * c /\ w[i + 1] = v[i + 1] * c
    BY <1>1, <1>2, <1>6, <2>1
  <2>3. PartialSums(w)[i + 1] = PartialSums(v)[i] * c + v[i + 1] * c
    BY <1>4, <2>2
  <2>4. PartialSums(v)[i + 1] = PartialSums(v)[i] + v[i + 1]
    BY <1>3, <2>2
  <2>5. PartialSums(v)[i] \in Nat /\ v[i + 1] \in Nat
    BY <1>1, <1>3, <2>2
  <2>6. \A x \in Nat, y \in Nat : (x + y) * c = x * c + y * c
    OBVIOUS
  <2> QED  BY <2>3, <2>4, <2>5, <2>6
<1>7. Nat \subseteq T
  <2> HIDE DEF T
  <2> QED  BY <1>5, <1>6, Induction
<1> QED  BY <1>1, <1>2, <1>7 DEF SumOf, n, w

(* What FlattenSeq computes, one part at a time.                           *)
Flattens(f, parts, T) ==
  /\ f \in [0..Len(parts) -> Seq(T)] /\ f[0] = <<>>
  /\ \A i \in 1..Len(parts) : f[i] = f[i - 1] \o parts[i]
  /\ FlattenSeq(parts) = f[Len(parts)]

(* A sequence of nonempty parts has its concatenation: GridOf, the tiles of all
   columns in one list, is one. *)
LEMMA Flatten ==
  ASSUME NEW T, NEW parts \in Seq(Seq(T)), Len(parts) # 0
  PROVE  \E f : Flattens(f, parts, T)
<1> DEFINE n == Len(parts)
           F == [x \in (1..n) \X Seq(T) |-> x[2] \o parts[x[1]]]
           P(f) == f = [i \in 1..n |-> IF i = 1 THEN parts[i] ELSE f[i - 1] \o parts[i]]
           g == CHOOSE f : P(f)
<1>1. n \in Nat /\ n # 0 /\ \A i \in 1..n : parts[i] \in Seq(T)
  OBVIOUS
<1>2. IsStep(F, n, Seq(T))
  <2>1. ASSUME NEW i \in 1..n, NEW a \in Seq(T) PROVE a \o parts[i] \in Seq(T)
    BY <1>1, ConcatProperties
  <2> HIDE DEF n
  <2> QED  BY <2>1 DEF IsStep
<1>3. <<>> \in Seq(T)
  OBVIOUS
<1>4. PICK f : Iterated(f, n, Seq(T), <<>>, F)
  <2> HIDE DEF F, n
  <2> QED  BY <1>1, <1>2, <1>3, Iterates
<1> HIDE DEF n
<1>5. ASSUME NEW i \in 1..n PROVE f[i - 1] \in Seq(T) /\ f[i] = f[i - 1] \o parts[i]
  <2>1. i - 1 \in 0..n
    BY <1>1
  <2>2. f[i - 1] \in Seq(T)
    BY <1>4, <2>1 DEF Iterated
  <2> QED  BY <1>4, <2>2 DEF Iterated
<1> DEFINE h == [i \in 1..n |-> f[i]]
<1>6. P(h)
  <2>1. f[0] = <<>> /\ 1 \in 1..n /\ 1 - 1 = 0
    BY <1>1, <1>4 DEF Iterated
  <2>2. f[1] = <<>> \o parts[1] /\ parts[1] \in Seq(T)
    BY <1>1, <1>5, <2>1
  <2>3. f[1] = parts[1]
    BY <2>2, ConcatEmptySeq
  <2>4. ASSUME NEW i \in 1..n, i # 1 PROVE h[i] = h[i - 1] \o parts[i]
    <3>1. i - 1 \in 1..n
      BY <1>1, <2>4
    <3> QED  BY <1>5, <3>1
  <2> QED  BY <2>3, <2>4
<1>7. P(g)
  <2> HIDE DEF P, h
  <2> QED  BY <1>6
<1>8. FlattenSeq(parts) = g[n]
  BY <1>1 DEF FlattenSeq, n
<1> HIDE DEF g
<1> DEFINE e == [i \in 0..n |-> IF i = 0 THEN <<>> ELSE g[i]]
<1>9. ASSUME NEW i \in 1..n PROVE e[i] = e[i - 1] \o parts[i]
  <2>1. CASE i = 1
    <3>1. e[1] = parts[1] /\ e[0] = <<>>
      BY <1>1, <1>7
    <3> QED  BY <2>1, <3>1, <1>1, ConcatEmptySeq
  <2>2. CASE i # 1
    <3>1. i - 1 \in 1..n /\ i - 1 # 0 /\ i # 0 /\ i - 1 \in 0..n /\ i \in 0..n
      BY <1>1, <2>2
    <3>2. g[i] = g[i - 1] \o parts[i]
      BY <1>7, <2>2
    <3>3. e[i] = g[i] /\ e[i - 1] = g[i - 1]
      BY <3>1
    <3> HIDE DEF e
    <3> QED  BY <3>2, <3>3
  <2> QED  BY <2>1, <2>2
<1> DEFINE Q == {i \in Nat : i <= n => e[i] \in Seq(T)}
<1>10. 0 \in Q
  BY <1>1, <1>3
<1>11. ASSUME NEW i \in Nat, i \in Q PROVE i + 1 \in Q
  <2>1. SUFFICES ASSUME i + 1 <= n PROVE e[i + 1] \in Seq(T)
    OBVIOUS
  <2>2. i + 1 \in 1..n /\ (i + 1) - 1 = i /\ e[i] \in Seq(T)
    BY <1>1, <1>11, <2>1
  <2> HIDE DEF e
  <2>3. e[i + 1] = e[i] \o parts[i + 1]
    BY <1>9, <2>2
  <2> QED  BY <1>1, <2>2, <2>3, ConcatProperties
<1>12. Nat \subseteq Q
  <2> HIDE DEF Q
  <2> QED  BY <1>10, <1>11, Induction
<1>13. e \in [0..n -> Seq(T)]
  <2>1. \A i \in 0..n : e[i] \in Seq(T)
    <3> HIDE DEF e
    <3>1. \A i \in 0..n : i \in Nat /\ i <= n
      BY <1>1
    <3> QED  BY <3>1, <1>12
  <2>2. e = [i \in 0..n |-> e[i]]
    OBVIOUS
  <2> HIDE DEF e
  <2> QED  BY <2>1, <2>2
<1>14. e[0] = <<>> /\ FlattenSeq(parts) = e[n]
  BY <1>1, <1>8
<1>15. Flattens(e, parts, T)
  <2> HIDE DEF e
  <2> QED  BY <1>9, <1>13, <1>14 DEF Flattens, n
<1> QED  BY <1>15
-----------------------------------------------------------------------------
(* Boundaries.                                                             *)

(* The boundaries that cut `total` rows, or columns, into parts of at      *)
(* least one each.                                                         *)
Cuts(total) ==
  {b \in Seq(0..total) : /\ Len(b) >= 2 /\ b[1] = 0 /\ b[Len(b)] = total
                         /\ \A j \in 1..(Len(b) - 1) : b[j] < b[j + 1]}

(* What a list of boundaries from split, split_greedy_to_capacity or
   realign_dense_row_tiles offers: from 0 to the extent, strictly growing. *)
LEMMA CutFacts ==
  ASSUME NEW total \in Nat, NEW b \in Cuts(total)
  PROVE  /\ Len(b) \in Nat /\ Len(b) >= 2 /\ b[1] = 0 /\ b[Len(b)] = total
         /\ b = [i \in 1..Len(b) |-> b[i]] /\ b # <<>>
         /\ \A j \in 1..Len(b) : b[j] \in Nat /\ b[j] <= total
         /\ \A j \in 1..(Len(b) - 1) : j \in 1..Len(b) /\ j + 1 \in 1..Len(b) /\ b[j] < b[j + 1]
<1>1. /\ b \in Seq(0..total) /\ Len(b) >= 2 /\ b[1] = 0 /\ b[Len(b)] = total
      /\ \A j \in 1..(Len(b) - 1) : b[j] < b[j + 1]
  BY DEF Cuts
<1>2. Len(b) \in Nat /\ \A j \in 1..Len(b) : b[j] \in 0..total
  BY <1>1
<1>3. b = [i \in 1..Len(b) |-> b[i]] /\ b # <<>>
  BY <1>1
<1>4. \A j \in 1..(Len(b) - 1) : j \in 1..Len(b) /\ j + 1 \in 1..Len(b)
  BY <1>2
<1>5. \A j \in 1..Len(b) : b[j] \in Nat /\ b[j] <= total
  BY <1>2
<1> QED  BY <1>1, <1>2, <1>3, <1>4, <1>5

(* How a list of boundaries is shown to cut an extent. *)
LEMMA IsCut ==
  ASSUME NEW total \in Nat, NEW n \in Nat, NEW b, n >= 2, b = [i \in 1..n |-> b[i]],
         \A j \in 1..n : b[j] \in 0..total,
         b[1] = 0, b[n] = total, \A j \in 1..(n - 1) : b[j] < b[j + 1]
  PROVE  b \in Cuts(total) /\ Len(b) = n
<1>1. b \in Seq(0..total) /\ Len(b) = n
  OBVIOUS
<1> QED  BY <1>1 DEF Cuts

(* A later boundary is a larger one, adjacent or not. *)
LEMMA CutGrows ==
  ASSUME NEW total \in Nat, NEW b \in Cuts(total), NEW i \in 1..Len(b), NEW j \in 1..Len(b), i < j
  PROVE  b[i] < b[j]
<1> DEFINE T == {k \in Nat : i + 1 + k <= Len(b) => b[i] < b[i + 1 + k]}
<1>1. i \in Nat /\ j \in Nat /\ Len(b) \in Nat /\ i >= 1 /\ j <= Len(b)
  BY CutFacts
<1>2. 0 \in T
  <2>1. i + 1 + 0 <= Len(b) => i \in 1..(Len(b) - 1) /\ i + 1 + 0 = i + 1
    BY <1>1
  <2> QED  BY <2>1, CutFacts
<1>3. ASSUME NEW k \in Nat, k \in T PROVE k + 1 \in T
  <2>1. SUFFICES ASSUME i + 1 + (k + 1) <= Len(b) PROVE b[i] < b[i + 1 + (k + 1)]
    OBVIOUS
  <2>2. /\ i + 1 + k \in 1..(Len(b) - 1) /\ i + 1 + (k + 1) = (i + 1 + k) + 1
        /\ i + 1 + k <= Len(b) /\ i + 1 + k \in 1..Len(b) /\ (i + 1 + k) + 1 \in 1..Len(b)
    BY <1>1, <2>1
  <2>3. b[i] < b[i + 1 + k]
    BY <1>3, <2>2
  <2>4. b[i + 1 + k] < b[(i + 1 + k) + 1] /\ b[i + 1 + k] \in Nat
        /\ b[(i + 1 + k) + 1] \in Nat /\ b[i] \in Nat
    BY <2>2, CutFacts
  <2> QED  BY <2>2, <2>3, <2>4
<1>4. Nat \subseteq T
  <2> HIDE DEF T
  <2> QED  BY <1>2, <1>3, Induction
<1>5. j - (i + 1) \in Nat /\ i + 1 + (j - (i + 1)) = j
  BY <1>1
<1>6. j - (i + 1) \in T
  <2> HIDE DEF T
  <2> QED  BY <1>4, <1>5
<1> QED  BY <1>1, <1>5, <1>6

(* Tile::split and balanced_column_widths.                                 *)
Balanced(total, n) == [i \in 1..(n + 1) |-> BalancedBoundary(total, n, i - 1)]

(* Tile::split: n balanced parts of an extent of at least n rows leave none empty. *)
LEMMA BalancedCut ==
  ASSUME NEW total \in Nat, NEW n \in Nat, n # 0, n <= total
  PROVE  Balanced(total, n) \in Cuts(total) /\ Len(Balanced(total, n)) = n + 1
<1> DEFINE q == total \div n
           r == total % n
           b == Balanced(total, n)
<1>1. q \in Nat /\ r \in Nat /\ r < n /\ total = q * n + r
  <2>1. q \in Nat /\ r \in 0..(n - 1)
    BY Quotient
  <2>2. total = q * n + r
    BY Remainder
  <2> HIDE DEF q, r
  <2> QED  BY <2>1, <2>2
<1>2. \A i \in 1..(n + 1) : b[i] = (i - 1) * q + Min2(i - 1, r)
  BY DEF Balanced, BalancedBoundary
<1>3. b = [i \in 1..(n + 1) |-> b[i]]
  BY DEF Balanced
<1> HIDE DEF q, r, b
<1>4. q # 0
  <2>1. q = 0 => q * n = 0
    OBVIOUS
  <2> QED  BY <1>1, <2>1
<1>5. ASSUME NEW i \in 1..(n + 1) PROVE b[i] \in 0..total
  <2>1. i - 1 \in Nat /\ i - 1 <= n /\ Min2(i - 1, r) \in Nat /\ Min2(i - 1, r) <= r
    BY <1>1 DEF Min2
  <2>2. (i - 1) * q \in Nat /\ (i - 1) * q <= n * q
    BY <1>1, <2>1, ProductMonotone
  <2>3. n * q = q * n
    BY <1>1
  <2>4. b[i] = (i - 1) * q + Min2(i - 1, r)
    BY <1>2
  <2>5. q * n \in Nat
    BY <1>1
  <2> QED  BY <1>1, <2>1, <2>2, <2>3, <2>4, <2>5
<1>6. b[1] = 0
  <2>1. b[1] = (1 - 1) * q + Min2(1 - 1, r)
    BY <1>2
  <2> QED  BY <2>1, <1>1 DEF Min2
<1>7. b[n + 1] = total
  <2>1. b[n + 1] = ((n + 1) - 1) * q + Min2((n + 1) - 1, r)
    BY <1>2
  <2>2. (n + 1) - 1 = n /\ Min2(n, r) = r /\ n * q = q * n
    BY <1>1 DEF Min2
  <2> QED  BY <1>1, <2>1, <2>2
<1>8. ASSUME NEW j \in 1..n PROVE b[j] < b[j + 1]
  <2>1. j \in Nat /\ j - 1 \in Nat /\ (j + 1) - 1 = j
    OBVIOUS
  <2>2. b[j] = (j - 1) * q + Min2(j - 1, r) /\ b[j + 1] = j * q + Min2(j, r)
    BY <1>2, <2>1
  <2>3. j * q = (j - 1) * q + q /\ (j - 1) * q \in Nat
    BY <1>1, <2>1
  <2>4. Min2(j - 1, r) \in Nat /\ Min2(j, r) \in Nat /\ Min2(j - 1, r) <= Min2(j, r)
    BY <1>1, <2>1 DEF Min2
  <2> QED  BY <1>1, <1>4, <2>2, <2>3, <2>4
<1>9. n + 1 \in Nat /\ n + 1 >= 2 /\ (n + 1) - 1 = n
  OBVIOUS
<1>10. b \in Cuts(total) /\ Len(b) = n + 1
  <2>1. \A j \in 1..(n + 1) : b[j] \in 0..total
    BY <1>5
  <2>2. \A j \in 1..((n + 1) - 1) : b[j] < b[j + 1]
    BY <1>8, <1>9
  <2> DEFINE k == n + 1
  <2>3. k \in Nat /\ k >= 2 /\ b = [i \in 1..k |-> b[i]] /\ b[k] = total
    BY <1>3, <1>7, <1>9
  <2>4. (\A j \in 1..k : b[j] \in 0..total) /\ \A j \in 1..(k - 1) : b[j] < b[j + 1]
    BY <2>1, <2>2
  <2> HIDE DEF k
  <2>5. b \in Cuts(total) /\ Len(b) = k
    BY <2>3, <2>4, <1>6, IsCut
  <2> QED  BY <2>5 DEF k
<1> QED  BY <1>10 DEF b

(* GrainRows bounds what split_greedy_to_capacity puts in a tile.          *)
LEMMA GreedyRows ==
  ASSUME NEW s, NEW ks, NEW m, NEW oh \in Nat, oh = output_height(s, ks), NEW f \in 0..oh
  PROVE  LET r == greedy_rows(s, ks, m, f)
         IN  /\ r \in 0..(oh - f)
             /\ r # 0 => GrainRows(s, ks, f, r) <= m
<1> DEFINE fitting == {r \in 1..(oh - f) : GrainRows(s, ks, f, r) <= m}
           best == CHOOSE r \in fitting : \A q \in fitting : q <= r
<1>1. greedy_rows(s, ks, m, f) = IF fitting = {} THEN 0 ELSE best
  BY DEF greedy_rows
<1>2. CASE fitting = {}
  BY <1>1, <1>2
<1>3. CASE fitting # {}
  <2>1. oh - f \in Nat /\ fitting \in SUBSET (0..(oh - f))
    <3>1. \A r \in 1..(oh - f) : r \in 0..(oh - f)
      OBVIOUS
    <3> QED  BY <3>1
  <2>2. \E r \in fitting : \A q \in fitting : q <= r
    <3> HIDE DEF fitting
    <3> QED  BY <1>3, <2>1, Greatest
  <2>3. best \in fitting
    <3> HIDE DEF fitting
    <3> QED  BY <2>2
  <2> HIDE DEF best
  <2>4. best \in 1..(oh - f) /\ GrainRows(s, ks, f, best) <= m
    BY <2>3
  <2>5. best \in 0..(oh - f)
    BY <2>1, <2>4
  <2> HIDE DEF fitting
  <2> QED  BY <1>1, <1>3, <2>4, <2>5
<1> QED  BY <1>2, <1>3

(* The first rows of split_greedy_to_capacity are defined by their recurrence. *)
LEMMA GreedyStarts ==
  ASSUME NEW s, NEW ks, NEW m, NEW oh \in Nat, oh = output_height(s, ks)
  PROVE  LET start == greedy_starts(s, ks, m)
         IN  /\ start \in [0..oh -> 0..oh] /\ start[0] = 0
             /\ \A i \in 1..oh :
                  start[i] = start[i - 1] + greedy_rows(s, ks, m, start[i - 1])
<1> DEFINE V == 0..oh
           R(f) == greedy_rows(s, ks, m, f)
           F == [x \in (1..oh) \X V |-> x[2] + R(x[2])]
           P(f) == f = [i \in 0..oh |-> IF i = 0 THEN 0 ELSE f[i - 1] + R(f[i - 1])]
           g == CHOOSE f : P(f)
<1>1. \A f \in V : f + R(f) \in V
  <2>1. ASSUME NEW f \in V PROVE f + R(f) \in V
    <3>1. R(f) \in 0..(oh - f)
      BY GreedyRows
    <3> HIDE DEF R
    <3> QED  BY <3>1
  <2> QED  BY <2>1
<1> HIDE DEF R
<1>2. IsStep(F, oh, V)
  <2> HIDE DEF V
  <2> QED  BY <1>1 DEF IsStep
<1>3. 0 \in V
  OBVIOUS
<1>4. PICK f : Iterated(f, oh, V, 0, F)
  <2> HIDE DEF F, V
  <2> QED  BY <1>2, <1>3, Iterates
<1>5. ASSUME NEW i \in 1..oh PROVE f[i] = f[i - 1] + R(f[i - 1])
  <2>1. i - 1 \in 0..oh
    OBVIOUS
  <2> HIDE DEF V
  <2>2. f[i - 1] \in V
    BY <1>4, <2>1 DEF Iterated
  <2> QED  BY <1>4, <2>2 DEF Iterated
<1>6. P(f)
  <2> HIDE DEF V
  <2>1. f = [i \in 0..oh |-> f[i]] /\ f[0] = 0
    BY <1>4 DEF Iterated
  <2>2. \A i \in 0..oh : i # 0 => i \in 1..oh
    OBVIOUS
  <2>3. \A i \in 0..oh : f[i] = IF i = 0 THEN 0 ELSE f[i - 1] + R(f[i - 1])
    BY <1>5, <2>1, <2>2
  <2> QED  BY <2>1, <2>3
<1>7. P(g)
  <2> HIDE DEF P
  <2> QED  BY <1>6
<1>8. greedy_starts(s, ks, m) = g
  BY DEF greedy_starts, R
<1> HIDE DEF g
<1> DEFINE T == {i \in Nat : i <= oh => g[i] \in V}
<1>9. 0 \in T
  BY <1>7
<1>10. ASSUME NEW i \in Nat, i \in T PROVE i + 1 \in T
  <2>1. SUFFICES ASSUME i + 1 <= oh PROVE g[i + 1] \in V
    OBVIOUS
  <2>2. i + 1 \in 0..oh /\ i + 1 # 0 /\ (i + 1) - 1 = i /\ i <= oh
    BY <2>1
  <2>3. g[i] \in V
    BY <1>10, <2>2
  <2> HIDE DEF V
  <2>4. g[i + 1] = g[i] + R(g[i])
    BY <1>7, <2>2
  <2> QED  BY <1>1, <2>3, <2>4
<1>11. Nat \subseteq T
  <2> HIDE DEF T
  <2> QED  BY <1>9, <1>10, Induction
<1>12. g \in [0..oh -> V]
  <2> HIDE DEF V
  <2>1. \A i \in 0..oh : g[i] \in V
    <3>1. \A i \in 0..oh : i \in Nat /\ i <= oh
      OBVIOUS
    <3> QED  BY <3>1, <1>11
  <2>2. g = [i \in 0..oh |-> g[i]]
    BY <1>7
  <2> QED  BY <2>1, <2>2
<1>13. g[0] = 0 /\ \A i \in 1..oh : g[i] = g[i - 1] + R(g[i - 1])
  <2>1. 0 \in 0..oh /\ \A i \in 1..oh : i \in 0..oh /\ i # 0
    OBVIOUS
  <2> QED  BY <1>7, <2>1
<1> QED  BY <1>8, <1>12, <1>13 DEF R

(* Tile::whole is the cut into one part. *)
LEMMA WholeCut ==
  ASSUME NEW total \in Nat, total # 0
  PROVE  <<0, total>> \in Cuts(total) /\ Len(<<0, total>>) = 2
<1> DEFINE b == <<0, total>>
<1>1. b = [i \in 1..2 |-> b[i]] /\ b[1] = 0 /\ b[2] = total
  OBVIOUS
<1>2. (\A j \in 1..2 : b[j] \in 0..total) /\ \A j \in 1..(2 - 1) : b[j] < b[j + 1]
  OBVIOUS
<1> HIDE DEF b
<1>3. b \in Cuts(total) /\ Len(b) = 2
  <2> DEFINE k == 2
  <2>1. k \in Nat /\ k >= 2 /\ b = [i \in 1..k |-> b[i]] /\ b[1] = 0 /\ b[k] = total
    BY <1>1
  <2>2. (\A j \in 1..k : b[j] \in 0..total) /\ \A j \in 1..(k - 1) : b[j] < b[j + 1]
    BY <1>2
  <2> HIDE DEF k
  <2>3. b \in Cuts(total) /\ Len(b) = k
    BY <2>1, <2>2, IsCut
  <2> QED  BY <2>3 DEF k
<1> QED  BY <1>3 DEF b

(* A tile of the greedy split is the whole image, or its grain fits.       *)
GreedyFits(s, ks, m, oh, b) ==
  \/ b = <<0, oh>> /\ whole_rows(s, ks).in_rows <= m
  \/ \A j \in 1..(Len(b) - 1) : GrainRows(s, ks, b[j], b[j + 1] - b[j]) <= m

(* split_greedy_to_capacity, where it succeeds, returns a cut of the output whose
   every tile reads no more rows than it was allowed. *)
LEMMA GreedyCut ==
  ASSUME NEW s, NEW ks, NEW m, NEW oh \in Nat, oh # 0, oh = output_height(s, ks),
         split_greedy_to_capacity(s, ks, m) # NONE
  PROVE  /\ split_greedy_to_capacity(s, ks, m) \in Cuts(oh)
         /\ GreedyFits(s, ks, m, oh, split_greedy_to_capacity(s, ks, m))
<1> DEFINE start == greedy_starts(s, ks, m)
           Ends(k) == start[k] = oh /\ start[k - 1] < oh
           n == CHOOSE k \in 1..oh : Ends(k)
           b == [i \in 1..(n + 1) |-> start[i - 1]]
           R(f) == greedy_rows(s, ks, m, f)
<1>1. split_greedy_to_capacity(s, ks, m)
        = IF whole_rows(s, ks).in_rows <= m THEN <<0, oh>>
          ELSE IF start[oh] # oh THEN NONE ELSE b
  BY DEF split_greedy_to_capacity
<1>2. /\ start \in [0..oh -> 0..oh] /\ start[0] = 0
      /\ \A i \in 1..oh : start[i] = start[i - 1] + R(start[i - 1])
  BY GreedyStarts
<1>3. \A f \in 0..oh : R(f) \in 0..(oh - f) /\ (R(f) # 0 => GrainRows(s, ks, f, R(f)) <= m)
  BY GreedyRows
<1>4. CASE whole_rows(s, ks).in_rows <= m
  <2>1. split_greedy_to_capacity(s, ks, m) = <<0, oh>>
    BY <1>1, <1>4
  <2> QED  BY <1>4, <2>1, WholeCut DEF GreedyFits
<1>5. CASE ~(whole_rows(s, ks).in_rows <= m)
  <2>1. start[oh] = oh /\ split_greedy_to_capacity(s, ks, m) = b
    <3> HIDE DEF start, b
    <3> QED  BY <1>1, <1>5
  <2> HIDE DEF start, R
  <2>2. \E k \in 1..oh : Ends(k)
    <3> DEFINE T == {k \in 0..oh : start[k] = oh}
    <3>1. T \in SUBSET Nat /\ T # {}
      <4>1. oh \in 0..oh
        OBVIOUS
      <4> QED  BY <2>1, <4>1
    <3>2. PICK k \in T : \A l \in T : k <= l
      <4> HIDE DEF T
      <4> QED  BY <3>1, Least
    <3>3. k \in 1..oh /\ k - 1 \in 0..oh /\ ~(k <= k - 1)
      BY <1>2, <3>2
    <3>4. start[k - 1] # oh
      BY <3>2, <3>3
    <3>5. start[k - 1] \in 0..oh
      BY <1>2, <3>3
    <3> QED  BY <3>2, <3>3, <3>4, <3>5
  <2>3. n \in 1..oh /\ Ends(n)
    BY <2>2
  <2> HIDE DEF n
  <2>4. ASSUME NEW j \in 1..n PROVE R(start[j - 1]) # 0
    <3>1. SUFFICES ASSUME R(start[j - 1]) = 0 PROVE FALSE
      OBVIOUS
    <3> DEFINE T == {k \in Nat : j - 1 + k <= oh => start[j - 1 + k] = start[j - 1]}
    <3>2. j - 1 \in Nat /\ j - 1 + 0 = j - 1
      BY <2>3
    <3>3. 0 \in T
      BY <3>2
    <3>4. ASSUME NEW k \in Nat, k \in T PROVE k + 1 \in T
      <4>1. SUFFICES ASSUME j - 1 + (k + 1) <= oh PROVE start[j - 1 + (k + 1)] = start[j - 1]
        OBVIOUS
      <4>2. j - 1 + k <= oh /\ j - 1 + (k + 1) \in 1..oh /\ (j - 1 + (k + 1)) - 1 = j - 1 + k
            /\ j - 1 \in 0..oh
        BY <3>2, <4>1
      <4>3. start[j - 1 + k] = start[j - 1] /\ start[j - 1] \in 0..oh
        BY <1>2, <3>4, <4>2
      <4>4. start[j - 1 + (k + 1)] = start[j - 1] + 0
        BY <1>2, <3>1, <4>2, <4>3
      <4> QED  BY <4>3, <4>4
    <3>5. Nat \subseteq T
      <4> HIDE DEF T
      <4> QED  BY <3>3, <3>4, Induction
    <3>6. n - j \in Nat /\ j - 1 + (n - j) = n - 1 /\ n - 1 <= oh
          /\ (n - j) + 1 \in Nat /\ j - 1 + ((n - j) + 1) = n /\ n <= oh
      BY <2>3, <3>2
    <3>7. n - j \in T /\ (n - j) + 1 \in T
      <4> HIDE DEF T
      <4> QED  BY <3>5, <3>6
    <3>8. start[n - 1] = start[j - 1] /\ start[n] = start[j - 1]
      BY <3>6, <3>7
    <3>9. start[n - 1] < start[n]
      BY <2>3
    <3>10. start[j - 1] \in 0..oh
      BY <1>2, <2>3, <3>2
    <3> QED  BY <3>8, <3>9, <3>10
  <2>5. ASSUME NEW j \in 1..n
        PROVE  /\ start[j - 1] \in 0..oh /\ start[j] \in 0..oh /\ start[j - 1] < start[j]
               /\ GrainRows(s, ks, start[j - 1], start[j] - start[j - 1]) <= m
    <3>1. j \in 1..oh /\ j - 1 \in 0..oh /\ j \in 0..oh
      BY <2>3
    <3>2. start[j - 1] \in 0..oh /\ start[j] \in 0..oh /\ start[j] = start[j - 1] + R(start[j - 1])
      BY <1>2, <3>1
    <3>3. R(start[j - 1]) \in Nat /\ R(start[j - 1]) # 0
          /\ GrainRows(s, ks, start[j - 1], R(start[j - 1])) <= m
      BY <1>3, <2>4, <3>2
    <3>4. start[j] - start[j - 1] = R(start[j - 1])
      BY <3>2, <3>3
    <3> QED  BY <3>2, <3>3, <3>4
  <2> DEFINE k == n + 1
  <2>6. k \in Nat /\ k >= 2 /\ b = [i \in 1..k |-> b[i]] /\ k - 1 = n
        /\ b[1] = start[0] /\ b[k] = start[n]
    BY <2>3
  <2>7. ASSUME NEW i \in 1..k PROVE b[i] = start[i - 1] /\ b[i] \in 0..oh
    <3>1. i - 1 \in 0..oh
      BY <2>3
    <3> QED  BY <1>2, <3>1
  <2>8. ASSUME NEW j \in 1..(k - 1) PROVE b[j] = start[j - 1] /\ b[j + 1] = start[j] /\ j \in 1..n
    <3>1. j \in 1..n /\ j \in 1..k /\ j + 1 \in 1..k /\ (j + 1) - 1 = j
      BY <2>3
    <3>2. b[j] = start[j - 1] /\ b[j + 1] = start[(j + 1) - 1]
      BY <2>7, <3>1
    <3> QED  BY <3>1, <3>2
  <2> HIDE DEF b, k
  <2>9. \A j \in 1..(k - 1) : b[j] < b[j + 1]
    BY <2>5, <2>8
  <2>10. b[1] = 0 /\ b[k] = oh /\ \A i \in 1..k : b[i] \in 0..oh
    BY <1>2, <2>3, <2>6, <2>7
  <2>11. b \in Cuts(oh) /\ Len(b) = k
    BY <2>6, <2>9, <2>10, IsCut
  <2>12. \A j \in 1..(k - 1) : GrainRows(s, ks, b[j], b[j + 1] - b[j]) <= m
    BY <2>5, <2>8
  <2> QED  BY <2>1, <2>11, <2>12 DEF GreedyFits
<1> QED  BY <1>4, <1>5

(* Nearest picks one of the candidates.                                    *)
LEMMA NearestIsOne ==
  ASSUME NEW C \in SUBSET Nat, C # {}, NEW current \in Nat
  PROVE  Nearest(current, C) \in C
<1> DEFINE Gaps == {Distance(c, current) : c \in C}
<1>1. Gaps \in SUBSET Nat /\ Gaps # {}
  <2>1. \A c \in C : Distance(c, current) \in Nat
    BY DEF Distance
  <2> QED  BY <2>1
<1>2. PICK g \in Gaps : \A h \in Gaps : g <= h
  <2> HIDE DEF Gaps
  <2> QED  BY <1>1, Least
<1> DEFINE Closest == {c \in C : Distance(c, current) = g}
<1>3. Closest \in SUBSET Nat /\ Closest # {}
  BY <1>2
<1>4. PICK c \in Closest : \A d \in Closest : c <= d
  <2> HIDE DEF Closest
  <2> QED  BY <1>3, Least
<1>5. ASSUME NEW d \in C
      PROVE  \/ Distance(c, current) < Distance(d, current)
             \/ Distance(c, current) = Distance(d, current) /\ c <= d
  <2>1. g <= Distance(d, current) /\ Distance(c, current) = g
    BY <1>2, <1>4
  <2>2. g \in Nat /\ Distance(d, current) \in Nat
    BY <1>1, <1>2
  <2>3. Distance(d, current) = g => c <= d
    BY <1>4
  <2> QED  BY <2>1, <2>2, <2>3
<1>6. c \in C
  BY <1>4
<1> HIDE DEF Gaps, Closest
<1> QED  BY <1>5, <1>6 DEF Nearest

(* Moving an inner boundary between its neighbours leaves a cut.           *)
LEMMA MovedCut ==
  ASSUME NEW total \in Nat, NEW b \in Cuts(total), NEW i \in 1..(Len(b) - 2), NEW v \in Nat,
         b[i] < v, v < b[i + 2]
  PROVE  [b EXCEPT ![i + 1] = v] \in Cuts(total) /\ Len([b EXCEPT ![i + 1] = v]) = Len(b)
<1> DEFINE n == Len(b)
           c == [b EXCEPT ![i + 1] = v]
<1>1. /\ n \in Nat /\ n >= 2 /\ b[1] = 0 /\ b[n] = total /\ b = [j \in 1..n |-> b[j]]
      /\ \A j \in 1..n : b[j] \in Nat /\ b[j] <= total
      /\ \A j \in 1..(n - 1) : b[j] < b[j + 1]
  BY CutFacts
<1> HIDE DEF n
<1>2. i \in Nat /\ i >= 1 /\ i + 2 <= n /\ i + 1 \in 1..n /\ i + 2 \in 1..n /\ i + 1 # 1 /\ i + 1 # n
      /\ i \in 1..n
  BY <1>1 DEF n
<1>3. \A j \in 1..n : c[j] = IF j = i + 1 THEN v ELSE b[j]
  BY <1>1
<1>4. c = [j \in 1..n |-> c[j]]
  BY <1>1
<1> HIDE DEF c
<1>5. c[1] = 0 /\ c[n] = total
  <2>1. 1 \in 1..n /\ n \in 1..n
    BY <1>1
  <2> QED  BY <1>1, <1>2, <1>3, <2>1
<1>6. \A j \in 1..n : c[j] \in 0..total
  BY <1>1, <1>2, <1>3
<1>7. ASSUME NEW j \in 1..(n - 1) PROVE c[j] < c[j + 1]
  <2>1. j \in Nat /\ j \in 1..n /\ j + 1 \in 1..n /\ b[j] < b[j + 1]
    <3>1. j \in Nat /\ j \in 1..n /\ j + 1 \in 1..n
      BY <1>1
    <3> QED  BY <1>1, <3>1
  <2>2. CASE j = i + 1
    <3>1. c[j] = v /\ c[j + 1] = b[i + 2]
      BY <1>2, <1>3, <2>1, <2>2
    <3> QED  BY <3>1
  <2>3. CASE j = i
    <3>1. c[j] = b[i] /\ c[j + 1] = v
      BY <1>2, <1>3, <2>1, <2>3
    <3> QED  BY <3>1
  <2>4. CASE j # i /\ j # i + 1
    <3>1. j + 1 # i + 1
      BY <1>2, <2>1, <2>4
    <3>2. c[j] = b[j] /\ c[j + 1] = b[j + 1]
      BY <1>3, <2>1, <2>4, <3>1
    <3> QED  BY <2>1, <3>2
  <2> QED  BY <2>2, <2>3, <2>4
<1>8. c \in Cuts(total) /\ Len(c) = n
  BY <1>1, <1>4, <1>5, <1>6, <1>7, IsCut
<1> QED  BY <1>8 DEF c, n

(* One turn of the loop of realign_dense_row_tiles.                        *)
Candidates(s, ks, b, i) ==
  {c \in (b[i] + 1)..(b[i + 2] - 1) : dense_feature_offset_safe(s, tile_in_first(s, ks, c))}
MoveOne(s, ks, b, i) ==
  IF b = NONE \/ Candidates(s, ks, b, i) = {} THEN NONE
  ELSE [b EXCEPT ![i + 1] = Nearest(@, Candidates(s, ks, b, i))]

(* One boundary of realign_dense_row_tiles moved to an aligned row keeps a cut. *)
LEMMA MoveOneCut ==
  ASSUME NEW s, NEW ks, NEW total \in Nat, NEW b \in Cuts(total) \cup {NONE}, NEW n \in Nat,
         b # NONE => Len(b) = n, NEW i \in 1..(n - 2), MoveOne(s, ks, b, i) # NONE
  PROVE  MoveOne(s, ks, b, i) \in Cuts(total) /\ Len(MoveOne(s, ks, b, i)) = n
<1> DEFINE C == Candidates(s, ks, b, i)
           v == Nearest(b[i + 1], C)
<1>1. /\ b \in Cuts(total) /\ Len(b) = n /\ C # {}
      /\ MoveOne(s, ks, b, i) = [b EXCEPT ![i + 1] = v]
  BY DEF MoveOne
<1>2. i \in 1..(Len(b) - 2) /\ i \in 1..Len(b) /\ i + 1 \in 1..Len(b) /\ i + 2 \in 1..Len(b)
  BY <1>1
<1>3. b[i] \in Nat /\ b[i + 1] \in Nat /\ b[i + 2] \in Nat
  BY <1>1, <1>2, CutFacts
<1>4. C \in SUBSET ((b[i] + 1)..(b[i + 2] - 1))
  BY DEF Candidates
<1> HIDE DEF C
<1>5. C \in SUBSET Nat
  BY <1>3, <1>4
<1>6. v \in C
  BY <1>1, <1>3, <1>5, NearestIsOne
<1> HIDE DEF v
<1>7. v \in Nat /\ b[i] < v /\ v < b[i + 2]
  BY <1>3, <1>4, <1>6
<1>8. [b EXCEPT ![i + 1] = v] \in Cuts(total) /\ Len([b EXCEPT ![i + 1] = v]) = Len(b)
  BY <1>1, <1>2, <1>7, MovedCut
<1> QED  BY <1>1, <1>8

(* The loop ends with nothing or with a cut.                               *)
LEMMA MovedBoundaries ==
  ASSUME NEW s, NEW ks, NEW total \in Nat, NEW b \in Cuts(total)
  PROVE  \/ moved_boundaries(s, ks, b)[Len(b) - 2] = NONE
         \/ moved_boundaries(s, ks, b)[Len(b) - 2] \in Cuts(total)
<1> DEFINE n == Len(b)
           k == n - 2
           V == {c \in Cuts(total) : Len(c) = n} \cup {NONE}
           F == [x \in (1..k) \X V |-> MoveOne(s, ks, x[2], x[1])]
           P(f) == f = [i \in 0..k |-> IF i = 0 THEN b ELSE MoveOne(s, ks, f[i - 1], i)]
           g == CHOOSE f : P(f)
<1>1. n \in Nat /\ n >= 2 /\ k \in Nat
  BY CutFacts
<1>2. b \in V
  OBVIOUS
<1>3. ASSUME NEW c \in V, NEW i \in 1..k PROVE MoveOne(s, ks, c, i) \in V
  <2>1. c \in Cuts(total) \cup {NONE} /\ (c # NONE => Len(c) = n)
    OBVIOUS
  <2> HIDE DEF n
  <2>2. MoveOne(s, ks, c, i) # NONE =>
          MoveOne(s, ks, c, i) \in Cuts(total) /\ Len(MoveOne(s, ks, c, i)) = n
    BY <1>1, <2>1, MoveOneCut
  <2> QED  BY <2>2
<1> HIDE DEF V, k, n
<1>4. IsStep(F, k, V)
  BY <1>3 DEF IsStep
<1>5. PICK f : Iterated(f, k, V, b, F)
  <2> HIDE DEF F
  <2> QED  BY <1>1, <1>2, <1>4, Iterates
<1>6. ASSUME NEW i \in 1..k PROVE f[i] = MoveOne(s, ks, f[i - 1], i)
  <2>1. i - 1 \in 0..k
    BY <1>1
  <2>2. f[i - 1] \in V
    BY <1>5, <2>1 DEF Iterated
  <2> QED  BY <1>5, <2>2 DEF Iterated
<1>7. P(f)
  <2>1. f = [i \in 0..k |-> f[i]] /\ f[0] = b
    BY <1>5 DEF Iterated
  <2>2. \A i \in 0..k : i # 0 => i \in 1..k
    BY <1>1
  <2>3. \A i \in 0..k : f[i] = IF i = 0 THEN b ELSE MoveOne(s, ks, f[i - 1], i)
    BY <1>6, <2>1, <2>2
  <2> QED  BY <2>1, <2>3
<1>8. P(g)
  <2> HIDE DEF P
  <2> QED  BY <1>7
<1>9. moved_boundaries(s, ks, b) = g
  BY DEF moved_boundaries, MoveOne, Candidates, k, n
<1> HIDE DEF g
<1> DEFINE T == {i \in Nat : i <= k => g[i] \in V}
<1>10. 0 \in T
  BY <1>1, <1>2, <1>8
<1>11. ASSUME NEW i \in Nat, i \in T PROVE i + 1 \in T
  <2>1. SUFFICES ASSUME i + 1 <= k PROVE g[i + 1] \in V
    OBVIOUS
  <2>2. i + 1 \in 0..k /\ i + 1 \in 1..k /\ i + 1 # 0 /\ (i + 1) - 1 = i /\ i <= k
    BY <1>1, <2>1
  <2>3. g[i] \in V
    BY <1>11, <2>2
  <2>4. g[i + 1] = MoveOne(s, ks, g[i], i + 1)
    BY <1>8, <2>2
  <2> QED  BY <1>3, <2>2, <2>3, <2>4
<1>12. Nat \subseteq T
  <2> HIDE DEF T
  <2> QED  BY <1>10, <1>11, Induction
<1>13. g[k] \in V
  BY <1>1, <1>12
<1> QED  BY <1>9, <1>13 DEF V, k, n

(* What is left of a cut after realignment is a cut, and its tiles fit if  *)
(* the tiles of the cut did.                                               *)
LEMMA RealignedCut ==
  ASSUME NEW s, NEW ks, NEW total \in Nat, NEW b \in Cuts(total), NEW m,
         realign_dense_row_tiles(s, ks, b, m) # NONE
  PROVE  /\ realign_dense_row_tiles(s, ks, b, m) \in Cuts(total)
         /\ AllFit(s, ks, b, m) => AllFit(s, ks, realign_dense_row_tiles(s, ks, b, m), m)
<1> DEFINE r == moved_boundaries(s, ks, b)[Len(b) - 2]
<1>1. r = NONE \/ r \in Cuts(total)
  BY MovedBoundaries
<1>2. realign_dense_row_tiles(s, ks, b, m)
        = IF layout(s) # "Dense" \/ Len(b) <= 2 THEN b
          ELSE IF r # NONE /\ AllFit(s, ks, r, m) THEN r ELSE NONE
  BY DEF realign_dense_row_tiles
<1> HIDE DEF r
<1> QED  BY <1>1, <1>2
-----------------------------------------------------------------------------
(* One axis of a tile.                                                     *)

(* An axis of `extent` samples under a kernel, a padding and a stride, and *)
(* `count` outputs from out_first on.                                      *)
Axis(extent, kernel, pad, stride, out_first, count) ==
  /\ {extent, kernel, pad, stride, out_first, count} \subseteq Nat
  /\ extent # 0 /\ kernel # 0 /\ stride # 0 /\ count # 0
  /\ pad < kernel /\ kernel <= extent + 2 * pad
  /\ out_first + count <= (extent + 2 * pad - kernel) \div stride + 1

(* The projections of the first and of the last output.                    *)
LEMMA Projections ==
  ASSUME NEW E, NEW K, NEW P, NEW st, NEW f, NEW c, Axis(E, K, P, st, f, c)
  PROVE  /\ f * st \in Nat /\ (f + c - 1) * st \in Nat /\ c * st \in Nat
         /\ f * st <= (f + c - 1) * st /\ (f + c - 1) * st + K <= E + 2 * P
<1>1. /\ E \in Nat /\ K \in Nat /\ P \in Nat /\ st \in Nat /\ f \in Nat /\ c \in Nat
      /\ st # 0 /\ c # 0 /\ K <= E + 2 * P /\ f + c <= (E + 2 * P - K) \div st + 1
  BY DEF Axis
<1> DEFINE room == E + 2 * P - K
           l == f + c - 1
<1>2. room \in Nat /\ l \in Nat /\ f <= l
  BY <1>1
<1>3. room \div st \in Nat /\ st * (room \div st) <= room /\ l <= room \div st
  <2> HIDE DEF room
  <2>1. room \div st \in Nat /\ st * (room \div st) <= room
    BY <1>1, <1>2, Quotient
  <2>2. f + c <= room \div st + 1
    BY <1>1 DEF room
  <2> QED  BY <1>1, <2>1, <2>2
<1>4. l * st \in Nat /\ l * st <= room
  <2> HIDE DEF room, l
  <2>1. l * st <= (room \div st) * st /\ (room \div st) * st = st * (room \div st) /\ l * st \in Nat
    BY <1>1, <1>2, <1>3, ProductMonotone
  <2>2. st * (room \div st) \in Nat
    BY <1>1, <1>3
  <2> QED  BY <1>2, <1>3, <2>1, <2>2
<1>5. f * st \in Nat /\ f * st <= l * st /\ c * st \in Nat
  <2> HIDE DEF room, l
  <2> QED  BY <1>1, <1>2, ProductMonotone
<1>6. l * st + K <= E + 2 * P
  <2>1. room = E + 2 * P - K
    OBVIOUS
  <2> HIDE DEF room, l
  <2> QED  BY <1>1, <1>4, <2>1
<1> QED  BY <1>4, <1>5, <1>6

(* The window from_bounds and from_output_range compute on an axis.        *)
FirstIn(P, st, f) == saturating_sub(f * st, P)
LastTap(K, st, f, c) == (f + c - 1) * st + K - 1
Exact(E, K, P, st, f, c) ==
  Min2(saturating_sub(LastTap(K, st, f, c), P), E - 1) - FirstIn(P, st, f) + 1

(* It starts inside the axis, holds a sample at least and ends inside.     *)
LEMMA Window ==
  ASSUME NEW E, NEW K, NEW P, NEW st, NEW f, NEW c, Axis(E, K, P, st, f, c)
  PROVE  /\ FirstIn(P, st, f) \in Nat /\ FirstIn(P, st, f) < E
         /\ Exact(E, K, P, st, f, c) \in Nat /\ Exact(E, K, P, st, f, c) # 0
         /\ FirstIn(P, st, f) + Exact(E, K, P, st, f, c) <= E
         /\ saturating_sub(P, f * st) \in Nat
<1>1. /\ E \in Nat /\ K \in Nat /\ P \in Nat /\ E # 0 /\ K # 0 /\ P < K
  BY DEF Axis
<1> DEFINE a == f * st
           l == (f + c - 1) * st
<1>2. a \in Nat /\ l \in Nat /\ a <= l /\ l + K <= E + 2 * P
  BY Projections
<1>3. FirstIn(P, st, f) = saturating_sub(a, P) /\ LastTap(K, st, f, c) = l + K - 1
  BY DEF FirstIn, LastTap
<1> HIDE DEF a, l
<1>4. saturating_sub(a, P) \in Nat /\ saturating_sub(a, P) < E
      /\ saturating_sub(P, a) \in Nat
      /\ saturating_sub(l + K - 1, P) \in Nat /\ saturating_sub(a, P) <= saturating_sub(l + K - 1, P)
  BY <1>1, <1>2 DEF saturating_sub
<1>5. \A x \in Nat, y \in Nat : x < E /\ x <= y =>
         /\ Min2(y, E - 1) - x + 1 \in Nat /\ Min2(y, E - 1) - x + 1 # 0
         /\ x + (Min2(y, E - 1) - x + 1) <= E
  BY <1>1 DEF Min2
<1>6. Exact(E, K, P, st, f, c)
        = Min2(saturating_sub(l + K - 1, P), E - 1) - saturating_sub(a, P) + 1
  BY <1>3 DEF Exact
<1> QED  BY <1>3, <1>4, <1>5, <1>6 DEF a

(* A window at least as long as the exact one, or one to the end of the    *)
(* axis, holds every tap inside the image.                                 *)
LEMMA Resident ==
  ASSUME NEW E, NEW K, NEW P, NEW st, NEW f, NEW c, Axis(E, K, P, st, f, c),
         NEW n \in Nat, n >= Exact(E, K, P, st, f, c)
  PROVE  TapsResident(f, c, FirstIn(P, st, f), n, saturating_sub(P, f * st), E, K, P, st)
<1>1. /\ E \in Nat /\ K \in Nat /\ P \in Nat /\ E # 0 /\ K # 0 /\ P < K
      /\ st \in Nat /\ f \in Nat /\ c \in Nat /\ c # 0
  BY DEF Axis
<1> DEFINE a == f * st
           l == (f + c - 1) * st
<1>2. a \in Nat /\ l \in Nat /\ a <= l /\ l + K <= E + 2 * P
  BY Projections
<1>3. /\ FirstIn(P, st, f) = saturating_sub(a, P)
      /\ n >= Min2(saturating_sub(l + K - 1, P), E - 1) - saturating_sub(a, P) + 1
  BY DEF FirstIn, LastTap, Exact
<1>4. SUFFICES ASSUME NEW o \in {f, f + c - 1}, NEW tap \in 0..(K - 1)
               PROVE  LET at == o * st + tap - P
                          first == saturating_sub(a, P)
                      IN  /\ first + (o - f) * st + tap - saturating_sub(P, a) = at
                          /\ at \in 0..(E - 1) => at \in first..(first + n - 1)
  BY <1>3 DEF TapsResident
<1>5. /\ o * st \in Nat /\ o * st >= a /\ o * st <= l /\ (o - f) * st = o * st - a
  <2>1. CASE o = f
    <3>1. (o - f) * st = 0
      BY <1>1, <2>1
    <3> QED  BY <1>2, <2>1, <3>1
  <2>2. CASE o = f + c - 1
    <3>1. ((f + c - 1) - f) * st = (f + c - 1) * st - f * st
      BY <1>1
    <3> QED  BY <1>2, <2>2, <3>1
  <2> QED  BY <2>1, <2>2
<1> DEFINE x == o * st
           d == (o - f) * st
<1>6. x \in Nat /\ x >= a /\ x <= l /\ d = x - a
  BY <1>5
<1> HIDE DEF a, l, x, d
<1>7. saturating_sub(a, P) + d + tap - saturating_sub(P, a) = x + tap - P
  BY <1>1, <1>2, <1>6 DEF saturating_sub
<1>8. x + tap - P \in 0..(E - 1) =>
        x + tap - P \in saturating_sub(a, P)..(saturating_sub(a, P) + n - 1)
  <2>1. ASSUME x + tap - P \in 0..(E - 1)
        PROVE  /\ x + tap - P >= saturating_sub(a, P)
               /\ x + tap - P <= Min2(saturating_sub(l + K - 1, P), E - 1)
    BY <1>1, <1>2, <1>6, <2>1 DEF saturating_sub, Min2
  <2>2. saturating_sub(a, P) \in Nat /\ saturating_sub(l + K - 1, P) \in Nat
    BY <1>1, <1>2 DEF saturating_sub
  <2>3. Min2(saturating_sub(l + K - 1, P), E - 1) \in Nat
    BY <1>1, <2>2 DEF Min2
  <2> QED  BY <1>1, <1>3, <2>1, <2>2, <2>3
<1> QED  BY <1>7, <1>8 DEF x, d
-----------------------------------------------------------------------------
(* Tiles.                                                                  *)

(* What the checks of a descriptor leave.                                  *)
Valid(s, ks) ==
  LET k == KernelOf(s, ks)
  IN  /\ {s.width, s.height, s.stride, s.in_channels, s.out_channels} \subseteq Nat \ {0}
      /\ s.in_channels <= MAX_CHANNELS
      /\ s.precision \in Precisions /\ s.depthwise \in BOOLEAN
      /\ s.precision = "int4" => s.in_channels % 32 = 0
      /\ s.depthwise => element_bits(s.precision) \in {8, 16}
      /\ ks = <<k.height, k.width>> /\ k.height \in 1..11 /\ k.width \in 1..11
      /\ k.pad_top \in Nat /\ k.pad_top < k.height /\ k.pad_left \in Nat /\ k.pad_left < k.width
      /\ k.height <= s.height + 2 * k.pad_top /\ k.width <= s.width + 2 * k.pad_left

(* A validated shape has output: check_extents_against refused the others. *)
LEMMA Extents ==
  ASSUME NEW s, NEW ks, Valid(s, ks)
  PROVE  /\ output_height(s, ks) \in Nat /\ output_height(s, ks) # 0
         /\ output_width(s, ks) \in Nat /\ output_width(s, ks) # 0
<1> DEFINE k == KernelOf(s, ks)
<1>1. /\ s.width \in Nat /\ s.height \in Nat /\ s.stride \in Nat /\ s.stride # 0
      /\ k.height \in Nat /\ k.width \in Nat /\ k.pad_top \in Nat /\ k.pad_left \in Nat
      /\ k.height <= s.height + 2 * k.pad_top /\ k.width <= s.width + 2 * k.pad_left
  BY DEF Valid
<1> HIDE DEF k
<1>2. s.height + 2 * k.pad_top - k.height \in Nat /\ s.width + 2 * k.pad_left - k.width \in Nat
  BY <1>1
<1>3. /\ (s.height + 2 * k.pad_top - k.height) \div s.stride \in Nat
      /\ (s.width + 2 * k.pad_left - k.width) \div s.stride \in Nat
  BY <1>1, <1>2, Quotient
<1> QED  BY <1>3 DEF output_height, output_width, k

RowSet ==
  [out_first : Nat, out_rows : Nat \ {0}, in_first : Nat, in_rows : Nat \ {0}, pad_top : Nat]
ColumnSet ==
  [out_first : Nat, out_cols : Nat \ {0}, in_first : Nat, in_cols : Nat \ {0}, pad_left : Nat]
TileSet == [rows : RowSet, columns : ColumnSet]

(* A range of output rows inside the image, with the input it needs.       *)
GoodRows(s, ks, r) ==
  /\ r \in RowSet
  /\ r.out_first + r.out_rows <= output_height(s, ks) /\ r.in_first + r.in_rows <= s.height
  /\ TapsResident(r.out_first, r.out_rows, r.in_first, r.in_rows, r.pad_top,
                  s.height, KernelOf(s, ks).height, KernelOf(s, ks).pad_top, s.stride)
GoodColumns(s, ks, c) ==
  /\ c \in ColumnSet
  /\ c.out_first + c.out_cols <= output_width(s, ks) /\ c.in_first + c.in_cols <= s.width
  /\ TapsResident(c.out_first, c.out_cols, c.in_first, c.in_cols, c.pad_left,
                  s.width, KernelOf(s, ks).width, KernelOf(s, ks).pad_left, s.stride)

(* Tile::from_bounds, and what split_greedy_to_capacity charges for it.    *)
LEMMA FromBounds ==
  ASSUME NEW s, NEW ks, Valid(s, ks), NEW f \in Nat, NEW c \in Nat \ {0},
         f + c <= output_height(s, ks)
  PROVE  /\ GoodRows(s, ks, from_bounds(s, ks, f, c))
         /\ from_bounds(s, ks, f, c).out_first = f /\ from_bounds(s, ks, f, c).out_rows = c
         /\ from_bounds(s, ks, f, c).in_rows <= GrainRows(s, ks, f, c)
         /\ GrainRows(s, ks, f, c) \in Nat
<1> DEFINE k == KernelOf(s, ks)
           E == s.height
           K == k.height
           P == k.pad_top
           st == s.stride
           x == Exact(E, K, P, st, f, c)
           first == FirstIn(P, st, f)
           r == from_bounds(s, ks, f, c)
           n == Min2(Max2(x, c * st), E - first)
<1>1. /\ E \in Nat /\ st \in Nat /\ K \in Nat /\ P \in Nat /\ E # 0 /\ st # 0 /\ K # 0
      /\ P < K /\ K <= E + 2 * P
  BY DEF Valid
<1>2. Axis(E, K, P, st, f, c)
  <2>1. f + c <= (E + 2 * P - K) \div st + 1
    BY DEF output_height
  <2> HIDE DEF k, E, K, P, st
  <2> QED  BY <1>1, <2>1 DEF Axis
<1>3. /\ r.out_first = f /\ r.out_rows = c /\ r.in_first = first /\ r.in_rows = n
      /\ r.pad_top = saturating_sub(P, f * st)
      /\ r = [out_first |-> f, out_rows |-> c, in_first |-> first, in_rows |-> n,
              pad_top |-> saturating_sub(P, f * st)]
  BY DEF from_bounds, tile_in_first, FirstIn, Exact, LastTap
<1>4. GrainRows(s, ks, f, c) = Max2(saturating_sub(LastTap(K, st, f, c), P) - first + 1, c * st)
  BY DEF GrainRows, tile_in_first, FirstIn, LastTap
<1> HIDE DEF k, E, K, P, st, r
<1>5. /\ first \in Nat /\ first < E /\ x \in Nat /\ x # 0 /\ first + x <= E
      /\ saturating_sub(P, f * st) \in Nat
  BY <1>2, Window
<1>6. c * st \in Nat /\ LastTap(K, st, f, c) \in Nat
  <2>1. c * st \in Nat /\ (f + c - 1) * st \in Nat
    BY <1>2, Projections
  <2> QED  BY <1>1, <2>1 DEF LastTap
<1>7. saturating_sub(LastTap(K, st, f, c), P) \in Nat
  BY <1>1, <1>6 DEF saturating_sub
<1>8. x = Min2(saturating_sub(LastTap(K, st, f, c), P), E - 1) - first + 1
  BY DEF Exact
<1> HIDE DEF x, first
<1>9. n \in Nat /\ n # 0 /\ n >= x /\ first + n <= E
  BY <1>1, <1>5, <1>6 DEF Min2, Max2
<1>10. /\ n <= Max2(saturating_sub(LastTap(K, st, f, c), P) - first + 1, c * st)
       /\ Max2(saturating_sub(LastTap(K, st, f, c), P) - first + 1, c * st) \in Nat
  BY <1>1, <1>5, <1>6, <1>7, <1>8 DEF Min2, Max2
<1> HIDE DEF n
<1>11. TapsResident(f, c, first, n, saturating_sub(P, f * st), E, K, P, st)
  BY <1>2, <1>9, Resident DEF x, first
<1>12. r \in RowSet
  BY <1>3, <1>5, <1>9 DEF RowSet
<1> QED  BY <1>3, <1>4, <1>9, <1>10, <1>11, <1>12 DEF GoodRows, k, E, K, P, st, r

(* ColumnTile::from_output_range.                                          *)
LEMMA FromOutputRange ==
  ASSUME NEW s, NEW ks, Valid(s, ks), NEW f \in Nat, NEW c \in Nat \ {0},
         f + c <= output_width(s, ks)
  PROVE  /\ GoodColumns(s, ks, from_output_range(s, ks, f, c))
         /\ from_output_range(s, ks, f, c).out_first = f /\ from_output_range(s, ks, f, c).out_cols = c
<1> DEFINE k == KernelOf(s, ks)
           E == s.width
           K == k.width
           P == k.pad_left
           st == s.stride
           x == Exact(E, K, P, st, f, c)
           first == FirstIn(P, st, f)
           r == from_output_range(s, ks, f, c)
           n == IF f = 0 /\ c = output_width(s, ks) THEN E - first
                ELSE Min2(Max2(x, c * st), E - first)
<1>1. /\ E \in Nat /\ st \in Nat /\ K \in Nat /\ P \in Nat /\ E # 0 /\ st # 0 /\ K # 0
      /\ P < K /\ K <= E + 2 * P
  BY DEF Valid
<1>2. Axis(E, K, P, st, f, c)
  <2>1. f + c <= (E + 2 * P - K) \div st + 1
    BY DEF output_width
  <2> HIDE DEF k, E, K, P, st
  <2> QED  BY <1>1, <2>1 DEF Axis
<1>3. /\ r.out_first = f /\ r.out_cols = c /\ r.in_first = first /\ r.in_cols = n
      /\ r.pad_left = saturating_sub(P, f * st)
      /\ r = [out_first |-> f, out_cols |-> c, in_first |-> first, in_cols |-> n,
              pad_left |-> saturating_sub(P, f * st)]
  BY DEF from_output_range, FirstIn, Exact, LastTap
<1> HIDE DEF k, E, K, P, st, r
<1>4. /\ first \in Nat /\ first < E /\ x \in Nat /\ x # 0 /\ first + x <= E
      /\ saturating_sub(P, f * st) \in Nat
  BY <1>2, Window
<1>5. c * st \in Nat
  BY <1>2, Projections
<1> HIDE DEF x, first
<1>6. n \in Nat /\ n # 0 /\ n >= x /\ first + n <= E
  BY <1>1, <1>4, <1>5 DEF Min2, Max2
<1> HIDE DEF n
<1>7. TapsResident(f, c, first, n, saturating_sub(P, f * st), E, K, P, st)
  BY <1>2, <1>6, Resident DEF x, first
<1>8. r \in ColumnSet
  BY <1>3, <1>4, <1>6 DEF ColumnSet
<1> QED  BY <1>3, <1>6, <1>7, <1>8 DEF GoodColumns, k, E, K, P, st, r

(* A tile between two boundaries.                                          *)
LEMMA CutRow ==
  ASSUME NEW s, NEW ks, Valid(s, ks), NEW b \in Cuts(output_height(s, ks)),
         NEW j \in 1..(Len(b) - 1)
  PROVE  /\ GoodRows(s, ks, RowTile(s, ks, b, j))
         /\ RowTile(s, ks, b, j).out_first = b[j]
         /\ RowTile(s, ks, b, j).out_rows = b[j + 1] - b[j]
         /\ RowTile(s, ks, b, j).in_rows <= GrainRows(s, ks, b[j], b[j + 1] - b[j])
         /\ GrainRows(s, ks, b[j], b[j + 1] - b[j]) \in Nat
<1>1. output_height(s, ks) \in Nat
  BY Extents
<1>2. j \in 1..Len(b) /\ j + 1 \in 1..Len(b) /\ b[j] < b[j + 1]
  BY <1>1, CutFacts
<1>3. b[j] \in Nat /\ b[j + 1] \in Nat /\ b[j + 1] <= output_height(s, ks)
  BY <1>1, <1>2, CutFacts
<1>4. b[j + 1] - b[j] \in Nat \ {0} /\ b[j] + (b[j + 1] - b[j]) <= output_height(s, ks)
  BY <1>1, <1>2, <1>3
<1> QED  BY <1>3, <1>4, FromBounds DEF RowTile

(* What the greedy split returns passes the test plan_grid makes of a row split. *)
LEMMA GreedyAllFit ==
  ASSUME NEW s, NEW ks, Valid(s, ks), NEW m \in Nat, split_greedy_to_capacity(s, ks, m) # NONE
  PROVE  /\ split_greedy_to_capacity(s, ks, m) \in Cuts(output_height(s, ks))
         /\ AllFit(s, ks, split_greedy_to_capacity(s, ks, m), m)
<1> DEFINE oh == output_height(s, ks)
           b == split_greedy_to_capacity(s, ks, m)
<1>1. oh \in Nat /\ oh # 0
  BY Extents
<1>2. b \in Cuts(oh) /\ GreedyFits(s, ks, m, oh, b)
  BY <1>1, GreedyCut
<1> HIDE DEF b
<1>3. ASSUME NEW j \in 1..(Len(b) - 1) PROVE RowTile(s, ks, b, j).in_rows <= m
  <2>1. CASE b = <<0, oh>> /\ whole_rows(s, ks).in_rows <= m
    <3>1. j = 1 /\ b[j] = 0 /\ b[j + 1] = oh /\ oh - 0 = oh
      BY <1>1, <2>1
    <3>2. RowTile(s, ks, b, j) = from_bounds(s, ks, 0, oh)
      BY <3>1 DEF RowTile
    <3> QED  BY <2>1, <3>2 DEF whole_rows
  <2>2. CASE \A i \in 1..(Len(b) - 1) : GrainRows(s, ks, b[i], b[i + 1] - b[i]) <= m
    <3>1. /\ GoodRows(s, ks, RowTile(s, ks, b, j))
          /\ RowTile(s, ks, b, j).in_rows <= GrainRows(s, ks, b[j], b[j + 1] - b[j])
          /\ GrainRows(s, ks, b[j], b[j + 1] - b[j]) \in Nat
      BY <1>2, CutRow
    <3>2. RowTile(s, ks, b, j).in_rows \in Nat
      BY <3>1 DEF GoodRows, RowSet
    <3>3. GrainRows(s, ks, b[j], b[j + 1] - b[j]) <= m
      BY <2>2
    <3> DEFINE g == GrainRows(s, ks, b[j], b[j + 1] - b[j])
               r == RowTile(s, ks, b, j).in_rows
    <3>4. r \in Nat /\ g \in Nat /\ r <= g /\ g <= m
      BY <3>1, <3>2, <3>3
    <3> HIDE DEF g, r
    <3>5. r <= m
      BY <3>4
    <3> QED  BY <3>5 DEF r
  <2> QED  BY <1>2, <2>1, <2>2 DEF GreedyFits
<1> QED  BY <1>2, <1>3 DEF AllFit, b

(* The rows plan_grid finds for a column.                                  *)
LEMMA RowTilesFit ==
  ASSUME NEW s, NEW ks, Valid(s, ks), NEW m \in Nat, row_tiles(s, ks, m) # NONE
  PROVE  row_tiles(s, ks, m) \in Cuts(output_height(s, ks)) /\ AllFit(s, ks, row_tiles(s, ks, m), m)
<1> DEFINE oh == output_height(s, ks)
           greedy == split_greedy_to_capacity(s, ks, m)
           R(b) == realign_dense_row_tiles(s, ks, b, m)
           counts == {n \in 1..oh : AllFit(s, ks, split(s, ks, n), m) /\ R(split(s, ks, n)) # NONE}
           n == CHOOSE i \in counts : \A j \in counts : i <= j
<1>1. oh \in Nat /\ oh # 0
  BY Extents
<1>2. row_tiles(s, ks, m)
        = CASE greedy = NONE -> NONE
            [] greedy # NONE /\ R(greedy) # NONE -> R(greedy)
            [] greedy # NONE /\ R(greedy) = NONE /\ counts = {} -> NONE
            [] OTHER -> R(split(s, ks, n))
  BY DEF row_tiles
<1> HIDE DEF R
<1>3. CASE greedy # NONE /\ R(greedy) # NONE
  <2>1. row_tiles(s, ks, m) = R(greedy)
    <3> HIDE DEF greedy, counts
    <3> QED  BY <1>2, <1>3
  <2>2. greedy \in Cuts(oh) /\ AllFit(s, ks, greedy, m)
    BY <1>3, GreedyAllFit
  <2> HIDE DEF greedy
  <2> QED  BY <1>1, <1>3, <2>1, <2>2, RealignedCut DEF R
<1>4. CASE ~(greedy # NONE /\ R(greedy) # NONE)
  <2>1. greedy # NONE /\ R(greedy) = NONE /\ counts # {} /\ row_tiles(s, ks, m) = R(split(s, ks, n))
    <3> HIDE DEF greedy, counts
    <3> QED  BY <1>2, <1>4
  <2>2. counts \in SUBSET Nat
    BY <1>1
  <2>3. n \in counts
    <3>1. \E i \in counts : \A j \in counts : i <= j
      <4> HIDE DEF counts
      <4> QED  BY <2>1, <2>2, Least
    <3> HIDE DEF counts
    <3> QED  BY <3>1
  <2> HIDE DEF n
  <2>4. n \in 1..oh /\ AllFit(s, ks, split(s, ks, n), m) /\ R(split(s, ks, n)) # NONE
    BY <2>3
  <2>5. n \in Nat /\ n # 0 /\ n <= oh
    BY <1>1, <2>4
  <2>6. split(s, ks, n) = Balanced(oh, n)
    BY DEF split, Balanced
  <2>7. split(s, ks, n) \in Cuts(oh)
    BY <1>1, <2>5, <2>6, BalancedCut
  <2> QED  BY <1>1, <2>1, <2>4, <2>7, RealignedCut DEF R
<1> QED  BY <1>3, <1>4
-----------------------------------------------------------------------------
(* Sizes.                                                                  *)

(* The four precisions' element sizes, and that an atom is 16 bytes of each. *)
LEMMA PrecisionFacts ==
  ASSUME NEW p \in Precisions
  PROVE  /\ element_bits(p) \in {4, 8, 16, 32} /\ (element_bits(p) = 4 <=> p = "int4")
         /\ channels_per_atom(p) = 128 \div element_bits(p)
         /\ channels_per_atom(p) \in {4, 8, 16, 32}
BY DEF Precisions, element_bits, channels_per_atom, FEATURE_ATOM_BYTES

(* A shape's channels take at least one 16-byte atom, and the CBUF rounds them
   upwards only. *)
LEMMA AtomFacts ==
  ASSUME NEW s, NEW ks, Valid(s, ks)
  PROVE  /\ feature_atoms(s) \in Nat /\ feature_atoms(s) # 0
         /\ cbuf_atoms(s) \in Nat /\ feature_atoms(s) <= cbuf_atoms(s)
         /\ div_ceil(cbuf_atoms(s), 4) = div_ceil(feature_atoms(s), 4)
<1>1. s.in_channels \in Nat /\ s.in_channels # 0 /\ s.precision \in Precisions
  BY DEF Valid
<1>2. channels_per_atom(s.precision) \in Nat /\ channels_per_atom(s.precision) # 0
  BY <1>1, PrecisionFacts
<1>3. div_ceil(s.in_channels, channels_per_atom(s.precision)) \in Nat
  BY <1>1, <1>2, Ceiling
<1>4. feature_atoms(s) \in Nat /\ feature_atoms(s) # 0
  BY <1>3 DEF feature_atoms, Max2
<1>5. \A a \in Nat : /\ quad_atoms(a) \in Nat /\ a <= quad_atoms(a)
                     /\ div_ceil(quad_atoms(a), 4) = div_ceil(a, 4)
  BY DEF quad_atoms, div_ceil
<1> QED  BY <1>4, <1>5 DEF cbuf_atoms

(* What a tile of so many input rows and columns occupies, against the     *)
(* data banks, and where the last slab of one of its rows starts.          *)
Fits(s, data_banks, t) ==
  LET rows == t.rows.in_rows
      cols == t.columns.in_cols
  IN  IF layout(s) = "Dense"
      THEN rows * cbuf_input_width(s, cols) * dense_cbuf_pixel_bytes(s) <= data_banks * 8192
      ELSE /\ rows * div_ceil(cols * feature_atoms(s), 4) * 64 <= data_banks * CBUF_BANK_BYTES
           /\ (div_ceil(feature_atoms(s), 4) - 1) * cols <= MAX_ENTRY_SLAB_BASE

(* The width in atoms that the CBUF charges for a row is not zero. *)
LEMMA Charged ==
  ASSUME NEW s, NEW ks, Valid(s, ks), NEW w \in Nat \ {0}
  PROVE  cbuf_input_width(s, w) \in Nat \ {0}
<1>1. s.precision \in Precisions
  BY DEF Valid
<1>2. channels_per_atom(s.precision) \in Nat \ {0}
  BY <1>1, PrecisionFacts
<1>3. ASSUME NEW a \in Nat \ {0} PROVE next_multiple_of(w, a) \in Nat \ {0}
  <2>1. div_ceil(w, a) \in Nat \ {0}
    BY Ceiling
  <2>2. \A x \in Nat \ {0} : x * a \in Nat \ {0}
    OBVIOUS
  <2> QED  BY <2>1, <2>2 DEF next_multiple_of
<1>4. next_multiple_of(w, channels_per_atom(s.precision)) \in Nat \ {0}
  BY <1>2, <1>3
<1> QED  BY <1>4 DEF cbuf_input_width

(* A pixel of the dense CBUF layout takes bytes. *)
LEMMA DensePixel ==
  ASSUME NEW s, NEW ks, Valid(s, ks), layout(s) = "Dense"
  PROVE  dense_cbuf_pixel_bytes(s) \in Nat \ {0}
<1>1. s.in_channels \in 1..4 /\ s.precision \in Precisions /\ s.precision # "int4"
  <2>1. s.in_channels \in Nat /\ s.in_channels # 0 /\ s.in_channels <= 4
    BY DEF Valid, layout, MAX_DENSE_CHANNELS
  <2>2. s.in_channels \in 1..4 /\ s.in_channels % 32 = s.in_channels
    BY <2>1
  <2> QED  BY <2>2 DEF Valid
<1>2. element_bits(s.precision) \in {8, 16, 32}
  BY <1>1, PrecisionFacts
<1>3. \A c \in 1..4, b \in {8, 16, 32} : (c * b) \div 8 \in Nat \ {0}
  OBVIOUS
<1>4. (IF s.in_channels = 3 THEN 4 ELSE s.in_channels) \in 1..4
  BY <1>1
<1> QED  BY <1>2, <1>3, <1>4 DEF dense_cbuf_pixel_bytes, bytes_for

(* max_tile_input_rows_for_width_and_data_banks divides by no zero. *)
LEMMA RowCapacity ==
  ASSUME NEW s, NEW ks, Valid(s, ks), NEW cols \in Nat \ {0}, NEW d \in Nat
  PROVE  max_tile_input_rows_for_width_and_data_banks(s, cols, d) \in Nat
<1> DEFINE charged == cbuf_input_width(s, cols)
           entries == div_ceil(cols * cbuf_atoms(s), CBUF_ATOMS_PER_ENTRY)
<1>1. charged \in Nat \ {0}
  BY Charged
<1>2. entries \in Nat \ {0}
  <2>1. cbuf_atoms(s) \in Nat \ {0}
    BY AtomFacts
  <2>2. cols * cbuf_atoms(s) \in Nat \ {0}
    BY <2>1
  <2> DEFINE u == cols * cbuf_atoms(s)
  <2>3. u \in Nat /\ u # 0
    BY <2>2
  <2> HIDE DEF u
  <2>4. div_ceil(u, 4) \in Nat /\ div_ceil(u, 4) # 0
    BY <2>3, Ceiling
  <2> QED  BY <2>4 DEF CBUF_ATOMS_PER_ENTRY, u
<1> DEFINE capacity == IF layout(s) = "Dense"
                       THEN (d * (CBUF_BANK_BYTES \div 4)) \div (charged * dense_cbuf_pixel_bytes(s))
                       ELSE (d * CBUF_BANK_BYTES)
                              \div (entries * CBUF_ATOMS_PER_ENTRY * FEATURE_ATOM_BYTES)
<1>3. capacity \in Nat
  <2>1. CASE layout(s) = "Dense"
    <3>1. dense_cbuf_pixel_bytes(s) \in Nat \ {0}
      BY <2>1, DensePixel
    <3> HIDE DEF charged
    <3>2. charged * dense_cbuf_pixel_bytes(s) \in Nat \ {0}
      BY <1>1, <3>1
    <3>3. d * (CBUF_BANK_BYTES \div 4) \in Nat
      BY DEF CBUF_BANK_BYTES
    <3> QED  BY <2>1, <3>2, <3>3, Quotient
  <2>2. CASE layout(s) # "Dense"
    <3> HIDE DEF entries
    <3>1. entries * CBUF_ATOMS_PER_ENTRY * FEATURE_ATOM_BYTES \in Nat \ {0}
      BY <1>2 DEF CBUF_ATOMS_PER_ENTRY, FEATURE_ATOM_BYTES
    <3>2. d * CBUF_BANK_BYTES \in Nat
      BY DEF CBUF_BANK_BYTES
    <3> QED  BY <2>2, <3>1, <3>2, Quotient
  <2> QED  BY <2>1, <2>2
<1>4. MAX_DATA_ENTRIES \div charged \in Nat
  <2> HIDE DEF charged
  <2> QED  BY <1>1, Quotient DEF MAX_DATA_ENTRIES
<1>5. max_tile_input_rows_for_width_and_data_banks(s, cols, d)
        = Min2(capacity, MAX_DATA_ENTRIES \div charged)
  BY DEF max_tile_input_rows_for_width_and_data_banks
<1> HIDE DEF capacity, charged
<1> QED  BY <1>3, <1>4, <1>5 DEF Min2

(* The rows a tile may read, max_tile_input_rows, never exceed what the banks hold. *)
LEMMA MaxRows ==
  ASSUME NEW s, NEW ks, Valid(s, ks), NEW cols \in Nat \ {0}, NEW d \in Nat
  PROVE  /\ max_rows(s, ks, cols, d) \in Nat
         /\ max_rows(s, ks, cols, d) <= max_tile_input_rows_for_width_and_data_banks(s, cols, d)
<1>1. max_tile_input_rows_for_width_and_data_banks(s, cols, d) \in Nat
  BY RowCapacity
<1>2. KernelOf(s, ks).height \in Nat /\ KernelOf(s, ks).pad_top \in Nat
  BY DEF Valid
<1>3. \A h \in Nat, p \in Nat : Max2(1, saturating_sub(MAX_FEATURE_GRAINS, h + p)) \in Nat
  BY DEF Max2, saturating_sub, MAX_FEATURE_GRAINS
<1>4. max_feature_grain_input_rows(s, ks) \in Nat
  BY <1>2, <1>3 DEF max_feature_grain_input_rows
<1> QED  BY <1>1, <1>4 DEF max_rows, Min2

(* A tile within the row capacity of its width, itself within the largest  *)
(* width, stays inside the data banks.                                     *)
LEMMA CapacityFits ==
  ASSUME NEW s, NEW ks, Valid(s, ks), NEW d \in Nat, NEW t \in TileSet,
         t.rows.in_rows <= max_tile_input_rows_for_width_and_data_banks(s, t.columns.in_cols, d),
         t.columns.in_cols <= max_tile_input_width(s)
  PROVE  Fits(s, d, t)
<1> DEFINE rows == t.rows.in_rows
           cols == t.columns.in_cols
           charged == cbuf_input_width(s, cols)
<1>1. rows \in Nat /\ cols \in Nat \ {0}
  BY DEF TileSet, RowSet, ColumnSet
<1>2. charged \in Nat \ {0}
  BY <1>1, Charged
<1>3. \A x \in Nat, y \in Nat : rows <= Min2(x, y) => rows <= x
  BY <1>1 DEF Min2
<1>4. MAX_DATA_ENTRIES \div charged \in Nat
  <2> HIDE DEF charged
  <2> QED  BY <1>2, Quotient DEF MAX_DATA_ENTRIES
<1>5. \A x \in Nat, y \in Nat \ {0} : rows <= x \div y => rows * y <= x
  <2>1. SUFFICES ASSUME NEW x \in Nat, NEW y \in Nat \ {0}, rows <= x \div y PROVE rows * y <= x
    OBVIOUS
  <2>2. x \div y \in Nat /\ y * (x \div y) <= x
    BY Quotient
  <2> DEFINE q == x \div y
  <2>3. q \in Nat /\ rows <= q /\ y * q <= x
    BY <2>1, <2>2
  <2> HIDE DEF q, rows
  <2>4. rows * y \in Nat /\ rows * y <= q * y /\ q * y = y * q
    BY <1>1, <2>3, ProductMonotone
  <2>5. y * q \in Nat
    BY <2>3
  <2> QED  BY <2>3, <2>4, <2>5
<1>6. CASE layout(s) = "Dense"
  <2> DEFINE px == dense_cbuf_pixel_bytes(s)
             area == charged * px
             capacity == (d * (CBUF_BANK_BYTES \div 4)) \div area
  <2>1. px \in Nat \ {0}
    BY <1>6, DensePixel
  <2>2. max_tile_input_rows_for_width_and_data_banks(s, cols, d)
          = Min2(capacity, MAX_DATA_ENTRIES \div charged)
    BY <1>6 DEF max_tile_input_rows_for_width_and_data_banks
  <2>3. area \in Nat \ {0}
    <3> HIDE DEF charged, px
    <3> QED  BY <1>2, <2>1
  <2>4. d * (CBUF_BANK_BYTES \div 4) = d * 8192 /\ d * 8192 \in Nat
    BY DEF CBUF_BANK_BYTES
  <2> HIDE DEF area
  <2>5. capacity \in Nat
    <3> DEFINE u == d * (CBUF_BANK_BYTES \div 4)
    <3>1. u \in Nat /\ area \in Nat /\ area # 0
      BY <2>3, <2>4
    <3> HIDE DEF u
    <3>2. u \div area \in Nat
      BY <3>1, Quotient
    <3> QED  BY <3>2 DEF u
  <2> HIDE DEF charged
  <2>6. rows <= capacity
    <3> HIDE DEF capacity
    <3> QED  BY <1>3, <1>4, <2>2, <2>5
  <2> HIDE DEF rows
  <2>7. rows * area <= d * 8192
    BY <1>5, <2>3, <2>4, <2>6
  <2>8. rows * charged * px = rows * (charged * px)
    <3> HIDE DEF px
    <3> QED  BY <1>1, <1>2, <2>1
  <2> QED  BY <1>6, <2>7, <2>8 DEF Fits, rows, charged, area
<1>7. CASE layout(s) # "Dense"
  <2> DEFINE a == cbuf_atoms(s)
             f == feature_atoms(s)
             entries == div_ceil(cols * a, CBUF_ATOMS_PER_ENTRY)
             bytes == entries * CBUF_ATOMS_PER_ENTRY * FEATURE_ATOM_BYTES
             capacity == (d * CBUF_BANK_BYTES) \div bytes
             extra == div_ceil(f, 4) - 1
  <2>1. f \in Nat /\ f # 0 /\ a \in Nat /\ f <= a /\ div_ceil(a, 4) = div_ceil(f, 4)
    BY AtomFacts
  <2>2. max_tile_input_rows_for_width_and_data_banks(s, cols, d)
          = Min2(capacity, MAX_DATA_ENTRIES \div charged)
    BY <1>7 DEF max_tile_input_rows_for_width_and_data_banks
  <2> HIDE DEF a, f, rows
  <2>3. cols * a \in Nat \ {0} /\ cols * f \in Nat /\ cols * f <= cols * a
    <3> HIDE DEF cols
    <3>1. \A x \in Nat, y \in Nat : x <= y => cols * x <= cols * y
      <4>1. ASSUME NEW x \in Nat, NEW y \in Nat, x <= y PROVE cols * x <= cols * y
        <5>1. x * cols <= y * cols /\ x * cols = cols * x /\ y * cols = cols * y
          BY <1>1, <4>1, ProductMonotone
        <5> QED  BY <5>1
      <4> QED  BY <4>1
    <3> QED  BY <1>1, <2>1, <3>1
  <2>4. entries \in Nat \ {0} /\ div_ceil(cols * f, 4) <= entries /\ div_ceil(cols * f, 4) \in Nat
    <3> HIDE DEF cols
    <3>1. entries \in Nat \ {0}
      BY <2>3, Ceiling DEF CBUF_ATOMS_PER_ENTRY
    <3>2. div_ceil(cols * f, 4) <= div_ceil(cols * a, 4) /\ div_ceil(cols * f, 4) \in Nat
      <4> DEFINE u == cols * f
                 v == cols * a
      <4>1. u \in Nat /\ v \in Nat /\ u <= v
        BY <2>3
      <4> HIDE DEF u, v
      <4>2. div_ceil(u, 4) <= div_ceil(v, 4) /\ div_ceil(u, 4) \in Nat
        BY <4>1, CeilingMonotone, Ceiling
      <4> QED  BY <4>2 DEF u, v
    <3> QED  BY <3>1, <3>2 DEF CBUF_ATOMS_PER_ENTRY
  <2> HIDE DEF entries
  <2>5. bytes = entries * 64 /\ bytes \in Nat \ {0} /\ d * CBUF_BANK_BYTES \in Nat
    BY <2>4 DEF CBUF_ATOMS_PER_ENTRY, FEATURE_ATOM_BYTES, CBUF_BANK_BYTES
  <2> HIDE DEF bytes
  <2>6. capacity \in Nat
    BY <2>5, Quotient
  <2> HIDE DEF charged
  <2>7. rows <= capacity
    <3> HIDE DEF capacity
    <3> QED  BY <1>3, <1>4, <2>2, <2>6 DEF rows
  <2>8. rows * bytes <= d * CBUF_BANK_BYTES
    BY <1>5, <2>5, <2>7 DEF rows
  <2>9. rows * div_ceil(cols * f, 4) * 64 <= d * CBUF_BANK_BYTES
    <3> DEFINE u == div_ceil(cols * f, 4)
               v == d * CBUF_BANK_BYTES
    <3>1. u \in Nat /\ u <= entries /\ v \in Nat /\ rows \in Nat /\ rows * (entries * 64) <= v
      BY <1>1, <2>4, <2>5, <2>8 DEF rows
    <3> HIDE DEF u, v
    <3>2. u * rows <= entries * rows /\ u * rows \in Nat /\ entries * rows \in Nat
      BY <2>4, <3>1, ProductMonotone
    <3>3. rows * u * 64 = (u * rows) * 64 /\ rows * (entries * 64) = (entries * rows) * 64
      BY <2>4, <3>1
    <3> QED  BY <3>1, <3>2, <3>3 DEF u, v
  <2>10. extra * cols <= MAX_ENTRY_SLAB_BASE
    <3>1. extra \in Nat
      <4>1. div_ceil(f, 4) \in Nat \ {0}
        BY <2>1, Ceiling
      <4> QED  BY <4>1
    <3>2. max_tile_input_width(s)
            = IF extra = 0 THEN s.width ELSE Min2(MAX_ENTRY_SLAB_BASE \div extra, s.width)
      <4>1. div_ceil(cbuf_atoms(s), CBUF_ATOMS_PER_ENTRY) - 1 = extra
        BY <2>1 DEF a, CBUF_ATOMS_PER_ENTRY
      <4> HIDE DEF extra
      <4> QED  BY <1>7, <4>1 DEF max_tile_input_width
    <3> HIDE DEF extra
    <3>3. CASE extra = 0
      BY <1>1, <3>3 DEF MAX_ENTRY_SLAB_BASE
    <3>4. CASE extra # 0
      <4> DEFINE q == MAX_ENTRY_SLAB_BASE \div extra
      <4>1. q \in Nat /\ extra * q <= MAX_ENTRY_SLAB_BASE
        BY <3>1, <3>4, Quotient DEF MAX_ENTRY_SLAB_BASE
      <4>2. s.width \in Nat /\ cols <= Min2(q, s.width)
        BY <3>2, <3>4 DEF Valid
      <4> HIDE DEF q, cols
      <4>3. cols <= q
        BY <1>1, <4>1, <4>2 DEF Min2
      <4>4. cols * extra <= q * extra /\ cols * extra = extra * cols /\ q * extra = extra * q
            /\ cols * extra \in Nat
        BY <1>1, <3>1, <4>1, <4>3, ProductMonotone
      <4>5. extra * q \in Nat
        BY <3>1, <4>1
      <4>6. cols * extra <= MAX_ENTRY_SLAB_BASE
        BY <4>1, <4>4, <4>5 DEF MAX_ENTRY_SLAB_BASE
      <4> QED  BY <4>4, <4>6
    <3> QED  BY <3>3, <3>4
  <2> QED  BY <1>7, <2>9, <2>10 DEF Fits, rows, f
<1> QED  BY <1>6, <1>7
-----------------------------------------------------------------------------
(* Grids.                                                                  *)

(* The heights between the boundaries of a cut add up to its total.        *)
Heights(b) == [j \in 1..(Len(b) - 1) |-> b[j + 1] - b[j]]

(* The rows of the tiles between successive boundaries add up to the extent. *)
LEMMA Telescopes ==
  ASSUME NEW total \in Nat, NEW b \in Cuts(total)
  PROVE  /\ Heights(b) \in Seq(Nat) /\ Len(Heights(b)) = Len(b) - 1
         /\ SumOf(Heights(b)) = total
<1> DEFINE h == Heights(b)
           n == Len(b) - 1
<1>1. /\ n \in Nat /\ n + 1 = Len(b) /\ b[1] = 0 /\ b[n + 1] = total
      /\ \A j \in 1..n : b[j] \in Nat /\ b[j + 1] \in Nat /\ b[j] < b[j + 1]
  <2>1. /\ Len(b) \in Nat /\ Len(b) >= 2 /\ b[1] = 0 /\ b[Len(b)] = total
        /\ \A j \in 1..Len(b) : b[j] \in Nat
        /\ \A j \in 1..n : j \in 1..Len(b) /\ j + 1 \in 1..Len(b) /\ b[j] < b[j + 1]
    BY CutFacts
  <2>2. n \in Nat /\ n + 1 = Len(b)
    BY <2>1
  <2> QED  BY <2>1, <2>2
<1>2. h = [j \in 1..n |-> b[j + 1] - b[j]]
  BY DEF Heights
<1> HIDE DEF h, n
<1>3. h \in Seq(Nat) /\ Len(h) = n /\ \A j \in 1..n : h[j] = b[j + 1] - b[j]
  <2>1. \A j \in 1..n : b[j + 1] - b[j] \in Nat
    BY <1>1
  <2> QED  BY <1>1, <1>2, <2>1
<1>4. /\ PartialSums(h) \in [0..n -> Nat] /\ PartialSums(h)[0] = 0
      /\ \A i \in 1..n : PartialSums(h)[i] = PartialSums(h)[i - 1] + h[i]
  BY <1>3, Sums
<1> DEFINE T == {i \in Nat : i <= n => PartialSums(h)[i] = b[i + 1]}
<1>5. 0 \in T
  BY <1>1, <1>4
<1>6. ASSUME NEW i \in Nat, i \in T PROVE i + 1 \in T
  <2>1. SUFFICES ASSUME i + 1 <= n PROVE PartialSums(h)[i + 1] = b[(i + 1) + 1]
    OBVIOUS
  <2>2. i + 1 \in 1..n /\ (i + 1) - 1 = i /\ i <= n
    BY <1>1, <2>1
  <2>3. PartialSums(h)[i + 1] = b[i + 1] + (b[(i + 1) + 1] - b[i + 1])
    BY <1>3, <1>4, <1>6, <2>2
  <2>4. b[i + 1] \in Nat /\ b[(i + 1) + 1] \in Nat
    BY <1>1, <2>2
  <2> QED  BY <2>3, <2>4
<1>7. Nat \subseteq T
  <2> HIDE DEF T
  <2> QED  BY <1>5, <1>6, Induction
<1>8. PartialSums(h)[n] = total
  BY <1>1, <1>7
<1> QED  BY <1>3, <1>8 DEF SumOf, h, n

(* Column widths, each at least one, that add up to the output width.      *)
Widths(total) == {w \in Seq(Nat \ {0}) : SumOf(w) = total}

(* What a column partition offers: positive widths whose running sums reach the
   output's width. *)
LEMMA WidthFacts ==
  ASSUME NEW total \in Nat, NEW w \in Widths(total)
  PROVE  /\ Len(w) \in Nat /\ PartialSums(w) \in [0..Len(w) -> Nat] /\ PartialSums(w)[0] = 0
         /\ PartialSums(w)[Len(w)] = total
         /\ \A i \in 1..Len(w) : /\ w[i] \in Nat \ {0} /\ PartialSums(w)[i - 1] \in Nat
                                 /\ PartialSums(w)[i] = PartialSums(w)[i - 1] + w[i]
                                 /\ PartialSums(w)[i] <= total
<1> DEFINE n == Len(w)
           e == PartialSums(w)
<1>1. w \in Seq(Nat \ {0}) /\ e[n] = total
  BY DEF Widths, SumOf
<1>2. n \in Nat /\ w \in Seq(Nat) /\ \A i \in 1..n : w[i] \in Nat \ {0}
  BY <1>1
<1>3. e \in [0..n -> Nat] /\ e[0] = 0 /\ \A i \in 1..n : e[i] = e[i - 1] + w[i]
  BY <1>2, Sums
<1> HIDE DEF n, e
<1> DEFINE T == {k \in Nat : k <= n => e[n - k] <= total}
<1>4. 0 \in T
  BY <1>1, <1>2
<1>5. ASSUME NEW k \in Nat, k \in T PROVE k + 1 \in T
  <2>1. SUFFICES ASSUME k + 1 <= n PROVE e[n - (k + 1)] <= total
    OBVIOUS
  <2>2. n - k \in 1..n /\ (n - k) - 1 = n - (k + 1) /\ n - (k + 1) \in 0..n /\ n - k \in 0..n
    BY <1>2, <2>1
  <2>3. e[n - k] = e[n - (k + 1)] + w[n - k] /\ w[n - k] \in Nat /\ e[n - (k + 1)] \in Nat
        /\ e[n - k] \in Nat /\ e[n - k] <= total
    BY <1>2, <1>3, <1>5, <2>1, <2>2
  <2> QED  BY <2>3
<1>6. Nat \subseteq T
  <2> HIDE DEF T
  <2> QED  BY <1>4, <1>5, Induction
<1>7. ASSUME NEW i \in 1..n PROVE e[i] <= total /\ e[i - 1] \in Nat
  <2>1. n - i \in Nat /\ n - i <= n /\ n - (n - i) = i /\ i - 1 \in 0..n
    BY <1>2
  <2> QED  BY <1>3, <1>6, <2>1
<1> QED  BY <1>1, <1>2, <1>3, <1>7 DEF n, e

(* One column of the full width is a column partition. *)
LEMMA FullWidths ==
  ASSUME NEW total \in Nat, total # 0
  PROVE  <<total>> \in Widths(total)
<1>1. <<total>> \in Seq(Nat \ {0}) /\ <<total>> \in Seq(Nat) /\ Len(<<total>>) = 1 /\ <<total>>[1] = total
  OBVIOUS
<1>2. PartialSums(<<total>>)[0] = 0 /\ PartialSums(<<total>>)[1] = PartialSums(<<total>>)[1 - 1] + total
  <2> DEFINE v == <<total>>
  <2>1. v \in Seq(Nat) /\ Len(v) = 1 /\ v[1] = total
    BY <1>1
  <2> HIDE DEF v
  <2>2. PartialSums(v)[0] = 0 /\ \A i \in 1..Len(v) : PartialSums(v)[i] = PartialSums(v)[i - 1] + v[i]
    BY <2>1, Sums
  <2>3. 1 \in 1..Len(v)
    BY <2>1
  <2>4. PartialSums(v)[0] = 0 /\ PartialSums(v)[1] = PartialSums(v)[1 - 1] + total
    BY <2>1, <2>2, <2>3
  <2> QED  BY <2>4 DEF v
<1>3. SumOf(<<total>>) = total
  BY <1>1, <1>2 DEF SumOf
<1> QED  BY <1>1, <1>3 DEF Widths

(* balanced_column_widths splits a width of at least n columns into n nonempty ones. *)
LEMMA BalancedWidths ==
  ASSUME NEW total \in Nat, NEW n \in Nat, n # 0, n <= total
  PROVE  balanced_column_widths(total, n) \in Widths(total)
<1> DEFINE b == Balanced(total, n)
           w == balanced_column_widths(total, n)
<1>1. b \in Cuts(total) /\ Len(b) = n + 1
  BY BalancedCut
<1>2. w = Heights(b)
  <2>1. \A i \in 1..n : i \in 1..(n + 1) /\ i + 1 \in 1..(n + 1) /\ (i + 1) - 1 = i
    OBVIOUS
  <2>2. \A i \in 1..n : b[i + 1] = BalancedBoundary(total, n, i)
                        /\ b[i] = BalancedBoundary(total, n, i - 1)
    BY <2>1 DEF Balanced
  <2>3. Len(b) - 1 = n
    BY <1>1
  <2> HIDE DEF b
  <2> QED  BY <2>2, <2>3 DEF Heights, balanced_column_widths
<1> HIDE DEF b, w
<1>3. w \in Seq(Nat) /\ Len(w) = n /\ SumOf(w) = total
  <2>1. (n + 1) - 1 = n
    OBVIOUS
  <2> QED  BY <1>1, <1>2, <2>1, Telescopes
<1>4. \A i \in 1..n : w[i] # 0
  <2>1. \A i \in 1..n : w[i] = b[i + 1] - b[i]
    BY <1>1, <1>2 DEF Heights
  <2>2. \A i \in 1..n : b[i] < b[i + 1] /\ b[i] \in Nat /\ b[i + 1] \in Nat
    <3>1. \A i \in 1..n : i \in 1..(Len(b) - 1) /\ i \in 1..Len(b) /\ i + 1 \in 1..Len(b)
      BY <1>1
    <3> QED  BY <1>1, <3>1, CutFacts
  <2> QED  BY <2>1, <2>2
<1>5. w \in Seq(Nat \ {0})
  <2>1. w = [i \in 1..n |-> w[i]] /\ \A i \in 1..n : w[i] \in Nat \ {0}
    BY <1>3, <1>4
  <2> QED  BY <2>1
<1> QED  BY <1>3, <1>5 DEF Widths, w

(* What the tiles of the first columns cover: the rows times `edge`, each  *)
(* pixel at most once.                                                     *)
Area(t) == t.rows.out_rows * t.columns.out_cols
Areas(x) == [i \in 1..Len(x) |-> Area(x[i])]
Beside(t, u) ==
  \/ t.rows.out_first + t.rows.out_rows <= u.rows.out_first
  \/ u.rows.out_first + u.rows.out_rows <= t.rows.out_first
  \/ t.columns.out_first + t.columns.out_cols <= u.columns.out_first
  \/ u.columns.out_first + u.columns.out_cols <= t.columns.out_first
Covers(x, oh, edge) ==
  /\ x \in Seq(TileSet)
  /\ SumOf(Areas(x)) = edge * oh
  /\ \A i \in 1..Len(x) : x[i].columns.out_first + x[i].columns.out_cols <= edge
  /\ \A i \in 1..Len(x), j \in 1..Len(x) : i < j => Beside(x[i], x[j])

(* The tiles of a column are found again in the concatenation of the columns. *)
LEMMA ConcatParts ==
  ASSUME NEW S, NEW a \in Seq(S), NEW b \in Seq(S)
  PROVE  /\ a \o b \in Seq(S) /\ Len(a \o b) = Len(a) + Len(b)
         /\ \A i \in 1..Len(a) : (a \o b)[i] = a[i]
         /\ \A i \in 1..Len(b) : (a \o b)[Len(a) + i] = b[i]
<1>1. /\ a \o b \in Seq(S) /\ Len(a \o b) = Len(a) + Len(b) /\ Len(a) \in Nat /\ Len(b) \in Nat
      /\ \A i \in 1..(Len(a) + Len(b)) :
           (a \o b)[i] = IF i <= Len(a) THEN a[i] ELSE b[i - Len(a)]
  BY ConcatProperties
<1> DEFINE c == a \o b
           m == Len(a)
           n == Len(b)
<1>2. \A i \in 1..(m + n) : c[i] = IF i <= m THEN a[i] ELSE b[i - m]
  BY <1>1
<1>3. m \in Nat /\ n \in Nat
  BY <1>1
<1> HIDE DEF c, m, n
<1>4. ASSUME NEW i \in 1..n PROVE c[m + i] = b[i]
  <2>1. m + i \in 1..(m + n) /\ ~(m + i <= m) /\ (m + i) - m = i
    BY <1>3
  <2> QED  BY <1>2, <2>1
<1>5. \A i \in 1..m : c[i] = a[i]
  <2>1. \A i \in 1..m : i \in 1..(m + n) /\ i <= m
    BY <1>3
  <2> QED  BY <1>2, <2>1
<1> QED  BY <1>1, <1>4, <1>5 DEF c, m, n

(* The areas of two lists of tiles are the two lists of their areas. *)
LEMMA AreaFacts ==
  ASSUME NEW x \in Seq(TileSet), NEW y \in Seq(TileSet)
  PROVE  /\ Areas(x) \in Seq(Nat) /\ Len(Areas(x)) = Len(x)
         /\ Areas(x \o y) = Areas(x) \o Areas(y)
<1>1. ASSUME NEW z \in Seq(TileSet)
      PROVE  Areas(z) \in Seq(Nat) /\ Len(Areas(z)) = Len(z)
             /\ \A i \in 1..Len(z) : Areas(z)[i] = Area(z[i])
  <2>1. Len(z) \in Nat /\ \A i \in 1..Len(z) : z[i] \in TileSet
    OBVIOUS
  <2>2. \A t \in TileSet : Area(t) \in Nat
    <3>1. \A a \in Nat, b \in Nat : a * b \in Nat
      OBVIOUS
    <3>2. \A t \in TileSet : t.rows.out_rows \in Nat /\ t.columns.out_cols \in Nat
      BY DEF TileSet, RowSet, ColumnSet
    <3> QED  BY <3>1, <3>2 DEF Area
  <2>3. \A i \in 1..Len(z) : Area(z[i]) \in Nat
    BY <2>1, <2>2
  <2> QED  BY <2>1, <2>3 DEF Areas
<1> DEFINE z == x \o y
           m == Len(x)
           n == Len(y)
           a == Areas(x) \o Areas(y)
<1>2. z \in Seq(TileSet) /\ m \in Nat /\ n \in Nat /\ Len(z) = m + n
      /\ (\A i \in 1..m : z[i] = x[i]) /\ \A i \in 1..n : z[m + i] = y[i]
  BY ConcatProperties
<1>3. a \in Seq(Nat) /\ Len(a) = m + n
      /\ (\A i \in 1..m : a[i] = Area(x[i])) /\ \A i \in 1..n : a[m + i] = Area(y[i])
  <2> DEFINE u == Areas(x)
             v == Areas(y)
  <2>1. u \in Seq(Nat) /\ Len(u) = m /\ \A i \in 1..m : u[i] = Area(x[i])
    BY <1>1
  <2>2. v \in Seq(Nat) /\ Len(v) = n /\ \A i \in 1..n : v[i] = Area(y[i])
    BY <1>1
  <2> HIDE DEF u, v, m, n
  <2>3. /\ u \o v \in Seq(Nat) /\ Len(u \o v) = m + n
        /\ (\A i \in 1..m : (u \o v)[i] = u[i]) /\ \A i \in 1..n : (u \o v)[m + i] = v[i]
    <3>1. u \in Seq(Nat) /\ v \in Seq(Nat)
      BY <2>1, <2>2
    <3>2. /\ u \o v \in Seq(Nat) /\ Len(u \o v) = Len(u) + Len(v)
          /\ \A i \in 1..Len(u) : (u \o v)[i] = u[i]
          /\ \A i \in 1..Len(v) : (u \o v)[Len(u) + i] = v[i]
      BY <3>1, ConcatParts
    <3> QED  BY <2>1, <2>2, <3>2
  <2> QED  BY <2>1, <2>2, <2>3 DEF u, v
<1>4. Areas(z) \in Seq(Nat) /\ Len(Areas(z)) = m + n /\ \A i \in 1..(m + n) : Areas(z)[i] = Area(z[i])
  <2> HIDE DEF z, m, n
  <2> QED  BY <1>1, <1>2
<1> HIDE DEF z, m, n, a
<1>5. ASSUME NEW i \in 1..(m + n) PROVE Areas(z)[i] = a[i]
  <2>1. CASE i \in 1..m
    BY <1>2, <1>3, <1>4, <2>1
  <2>2. CASE i \notin 1..m
    <3>1. i - m \in 1..n /\ m + (i - m) = i
      BY <1>2, <2>2
    <3> QED  BY <1>2, <1>3, <1>4, <3>1
  <2> QED  BY <2>1, <2>2
<1>6. Areas(z) = a
  BY <1>3, <1>4, <1>5, SeqEqual
<1> QED  BY <1>1, <1>6 DEF z, a

(* The tiles of one column.                                                *)
LEMMA ColumnFacts ==
  ASSUME NEW s, NEW ks, Valid(s, ks), NEW b \in Cuts(output_height(s, ks)),
         NEW c \in ColumnSet
  PROVE  LET p == ColumnOf(s, ks, c, b)
         IN  /\ p \in Seq(TileSet) /\ Len(p) = Len(b) - 1 /\ Len(p) \in Nat
             /\ \A j \in 1..Len(p) : p[j].columns = c /\ p[j].rows = RowTile(s, ks, b, j)
             /\ SumOf(Areas(p)) = output_height(s, ks) * c.out_cols
             /\ \A i \in 1..Len(p), j \in 1..Len(p) : i < j => Beside(p[i], p[j])
<1> DEFINE p == ColumnOf(s, ks, c, b)
           oh == output_height(s, ks)
           n == Len(b) - 1
           w == c.out_cols
<1>1. oh \in Nat
  BY Extents
<1>2. /\ n \in Nat /\ n + 1 = Len(b) /\ w \in Nat
      /\ \A j \in 1..n : j \in 1..Len(b) /\ j + 1 \in 1..Len(b)
      /\ \A j \in 1..Len(b) : b[j] \in Nat
  <2>1. /\ Len(b) \in Nat /\ Len(b) >= 2
        /\ \A j \in 1..Len(b) : b[j] \in Nat
        /\ \A j \in 1..n : j \in 1..Len(b) /\ j + 1 \in 1..Len(b) /\ b[j] < b[j + 1]
    BY <1>1, CutFacts
  <2>2. n \in Nat /\ n + 1 = Len(b)
    BY <2>1
  <2>3. w \in Nat
    BY DEF ColumnSet
  <2> QED  BY <2>1, <2>2, <2>3
<1>3. \A j \in 1..n : /\ RowTile(s, ks, b, j) \in RowSet
                      /\ RowTile(s, ks, b, j).out_first = b[j]
                      /\ RowTile(s, ks, b, j).out_rows = b[j + 1] - b[j]
  BY CutRow DEF GoodRows
<1>4. p = [j \in 1..n |-> [rows |-> RowTile(s, ks, b, j), columns |-> c]]
  BY DEF ColumnOf
<1>5. /\ p \in Seq(TileSet) /\ Len(p) = n
      /\ \A j \in 1..n : p[j].columns = c /\ p[j].rows = RowTile(s, ks, b, j)
  <2>1. \A j \in 1..n : [rows |-> RowTile(s, ks, b, j), columns |-> c] \in TileSet
    BY <1>3 DEF TileSet
  <2> HIDE DEF n, p
  <2> QED  BY <1>2, <1>4, <2>1
<1> DEFINE h == Heights(b)
<1>6. h \in Seq(Nat) /\ Len(h) = n /\ SumOf(h) = oh /\ \A j \in 1..n : h[j] = b[j + 1] - b[j]
  <2>1. \A j \in 1..n : h[j] = b[j + 1] - b[j]
    BY DEF Heights
  <2> HIDE DEF h
  <2> QED  BY <1>1, <2>1, Telescopes DEF h
<1> HIDE DEF p, n, h, w
<1>7. Areas(p) = [j \in 1..Len(h) |-> h[j] * w]
  <2>1. \A j \in 1..n : Area(p[j]) = h[j] * w
    BY <1>3, <1>5, <1>6 DEF Area, w
  <2> QED  BY <1>5, <1>6, <2>1 DEF Areas
<1>8. SumOf(Areas(p)) = oh * w
  BY <1>2, <1>6, <1>7, SumScaled
<1>9. ASSUME NEW i \in 1..n, NEW j \in 1..n, i < j PROVE Beside(p[i], p[j])
  <2>1. /\ p[i].rows.out_first = b[i] /\ p[i].rows.out_rows = b[i + 1] - b[i]
        /\ p[j].rows.out_first = b[j]
    BY <1>3, <1>5
  <2>2. b[i + 1] <= b[j]
    <3>1. CASE i + 1 = j
      <4>1. b[j] \in Nat
        BY <1>2
      <4> QED  BY <3>1, <4>1
    <3>2. CASE i + 1 # j
      <4>1. i + 1 < j /\ i + 1 \in 1..Len(b) /\ j \in 1..Len(b)
        BY <1>2, <1>9, <3>2
      <4>2. b[i + 1] < b[j]
        BY <1>1, <4>1, CutGrows
      <4>3. b[i + 1] \in Nat /\ b[j] \in Nat
        BY <1>2, <4>1
      <4> QED  BY <4>2, <4>3
    <3> QED  BY <3>1, <3>2
  <2>3. b[i] \in Nat /\ b[i + 1] \in Nat /\ b[j] \in Nat
    BY <1>2
  <2>4. p[i].rows.out_first + p[i].rows.out_rows <= p[j].rows.out_first
    BY <2>1, <2>2, <2>3
  <2> QED  BY <2>4 DEF Beside
<1> QED  BY <1>2, <1>5, <1>8, <1>9 DEF p, n, w

(* A column next to what is covered already.                               *)
LEMMA CoversMore ==
  ASSUME NEW oh \in Nat, NEW e \in Nat, NEW w \in Nat, NEW x, Covers(x, oh, e),
         NEW p \in Seq(TileSet), SumOf(Areas(p)) = oh * w,
         \A j \in 1..Len(p) : p[j].columns.out_first = e /\ p[j].columns.out_cols = w,
         \A i \in 1..Len(p), j \in 1..Len(p) : i < j => Beside(p[i], p[j])
  PROVE  Covers(x \o p, oh, e + w)
<1> DEFINE z == x \o p
           m == Len(x)
           n == Len(p)
<1>1. /\ x \in Seq(TileSet) /\ SumOf(Areas(x)) = e * oh
      /\ \A i \in 1..Len(x) : x[i].columns.out_first + x[i].columns.out_cols <= e
      /\ \A i \in 1..Len(x), j \in 1..Len(x) : i < j => Beside(x[i], x[j])
  BY DEF Covers
<1>2. /\ z \in Seq(TileSet) /\ m \in Nat /\ n \in Nat /\ Len(z) = m + n
      /\ (\A i \in 1..m : z[i] = x[i]) /\ \A i \in 1..n : z[m + i] = p[i]
  BY <1>1, ConcatProperties
<1>3. SumOf(Areas(z)) = (e + w) * oh
  <2> DEFINE u == Areas(x)
             v == Areas(p)
  <2>1. u \in Seq(Nat) /\ v \in Seq(Nat) /\ Areas(z) = u \o v
    BY <1>1, AreaFacts
  <2>2. SumOf(u) = e * oh /\ SumOf(v) = oh * w
    BY <1>1
  <2> HIDE DEF u, v, z
  <2>3. SumOf(Areas(z)) = e * oh + oh * w
    BY <2>1, <2>2, SumConcat
  <2>4. e * oh + oh * w = (e + w) * oh
    OBVIOUS
  <2> QED  BY <2>3, <2>4
<1>4. \A i \in 1..m : /\ x[i].columns.out_first \in Nat /\ x[i].columns.out_cols \in Nat
  <2>1. \A i \in 1..m : x[i] \in TileSet
    BY <1>1
  <2> QED  BY <2>1 DEF TileSet, ColumnSet
<1> HIDE DEF z, m, n
<1>5. \A i \in 1..(m + n) : \/ i \in 1..m /\ z[i] = x[i]
                            \/ i - m \in 1..n /\ z[i] = p[i - m]
  <2>1. \A i \in 1..(m + n) : i \in 1..m \/ (i - m \in 1..n /\ m + (i - m) = i)
    BY <1>2
  <2> QED  BY <1>2, <2>1
<1>6. \A i \in 1..(m + n) : z[i].columns.out_first + z[i].columns.out_cols <= e + w
  <2> TAKE i \in 1..(m + n)
  <2>1. CASE i \in 1..m /\ z[i] = x[i]
    <3>1. x[i].columns.out_first + x[i].columns.out_cols <= e
      BY <1>1, <2>1 DEF m
    <3>2. x[i].columns.out_first \in Nat /\ x[i].columns.out_cols \in Nat
      BY <1>4, <2>1
    <3>3. x[i].columns.out_first + x[i].columns.out_cols <= e + w
      BY <3>1, <3>2
    <3> QED  BY <2>1, <3>3
  <2>2. CASE i - m \in 1..n /\ z[i] = p[i - m]
    BY <2>2 DEF n
  <2> QED  BY <1>5, <2>1, <2>2
<1>7. ASSUME NEW i \in 1..(m + n), NEW j \in 1..(m + n), i < j PROVE Beside(z[i], z[j])
  <2>1. CASE i \in 1..m /\ z[i] = x[i] /\ j \in 1..m /\ z[j] = x[j]
    BY <1>1, <1>7, <2>1 DEF m
  <2>2. CASE i \in 1..m /\ z[i] = x[i] /\ j - m \in 1..n /\ z[j] = p[j - m]
    <3>1. z[i].columns.out_first + z[i].columns.out_cols <= z[j].columns.out_first
      BY <1>1, <2>2 DEF m, n
    <3> QED  BY <3>1 DEF Beside
  <2>3. CASE i - m \in 1..n /\ z[i] = p[i - m] /\ j - m \in 1..n /\ z[j] = p[j - m]
    <3>1. i - m < j - m
      BY <1>2, <1>7
    <3> QED  BY <2>3, <3>1 DEF n
  <2>4. ~(i - m \in 1..n /\ j \in 1..m)
    BY <1>2, <1>7
  <2> QED  BY <1>5, <2>1, <2>2, <2>3, <2>4
<1> QED  BY <1>2, <1>3, <1>6, <1>7 DEF Covers, z

(* The columns of a grid.                                                  *)
LEMMA ColumnTilesAre ==
  ASSUME NEW s, NEW ks, Valid(s, ks), NEW w \in Widths(output_width(s, ks))
  PROVE  LET strips == ColumnTiles(s, ks, w)
         IN  /\ Len(strips) = Len(w) /\ DOMAIN strips = 1..Len(w)
             /\ \A i \in 1..Len(w) :
                  /\ GoodColumns(s, ks, strips[i])
                  /\ strips[i].out_first = PartialSums(w)[i - 1] /\ strips[i].out_cols = w[i]
<1> DEFINE ow == output_width(s, ks)
           e == PartialSums(w)
           n == Len(w)
           strips == ColumnTiles(s, ks, w)
<1>1. ow \in Nat
  BY Extents
<1>2. /\ n \in Nat
      /\ \A i \in 1..n : /\ w[i] \in Nat \ {0} /\ e[i - 1] \in Nat /\ e[i - 1] + w[i] <= ow
  <2>1. /\ n \in Nat
        /\ \A i \in 1..n : /\ w[i] \in Nat \ {0} /\ e[i - 1] \in Nat
                           /\ e[i] = e[i - 1] + w[i] /\ e[i] <= ow
    BY <1>1, WidthFacts
  <2> QED  BY <2>1
<1>3. strips = [i \in 1..n |-> from_output_range(s, ks, e[i - 1], w[i])]
  BY DEF ColumnTiles
<1> HIDE DEF strips, e, n
<1>4. Len(strips) = n /\ DOMAIN strips = 1..n
      /\ \A i \in 1..n : strips[i] = from_output_range(s, ks, e[i - 1], w[i])
  BY <1>2, <1>3
<1> QED  BY <1>2, <1>4, FromOutputRange DEF strips, e, n

(* A grid of columns of such widths, their rows cut at such boundaries,    *)
(* covers the output; T is what is known of each tile.                     *)
LEMMA GridCovers ==
  ASSUME NEW s, NEW ks, Valid(s, ks), NEW w \in Widths(output_width(s, ks)), NEW bounds,
         \A i \in 1..Len(w) : bounds[i] \in Cuts(output_height(s, ks)),
         NEW T \in SUBSET TileSet,
         \A i \in 1..Len(w) : \A j \in 1..(Len(bounds[i]) - 1) :
           [rows |-> RowTile(s, ks, bounds[i], j), columns |-> ColumnTiles(s, ks, w)[i]] \in T
  PROVE  /\ GridOf(s, ks, ColumnTiles(s, ks, w), bounds) \in Seq(T)
         /\ Covers(GridOf(s, ks, ColumnTiles(s, ks, w), bounds),
                   output_height(s, ks), output_width(s, ks))
<1> DEFINE ow == output_width(s, ks)
           oh == output_height(s, ks)
           e == PartialSums(w)
           n == Len(w)
           strips == ColumnTiles(s, ks, w)
           p(i) == ColumnOf(s, ks, strips[i], bounds[i])
           parts == [i \in 1..n |-> p(i)]
<1>1. ow \in Nat /\ ow # 0 /\ oh \in Nat
  BY Extents
<1>2. /\ n \in Nat /\ e \in [0..n -> Nat] /\ e[0] = 0 /\ e[n] = ow
      /\ \A i \in 1..n : w[i] \in Nat /\ e[i - 1] \in Nat /\ e[i] = e[i - 1] + w[i]
  BY <1>1, WidthFacts
<1>3. n # 0
  BY <1>1, <1>2
<1>4. /\ Len(strips) = n
      /\ \A i \in 1..n : strips[i] \in ColumnSet /\ strips[i].out_first = e[i - 1]
                         /\ strips[i].out_cols = w[i]
  BY ColumnTilesAre DEF GoodColumns
<1> HIDE DEF e, strips
<1>5. ASSUME NEW i \in 1..n
      PROVE  /\ p(i) \in Seq(TileSet) /\ p(i) \in Seq(T)
             /\ \A j \in 1..Len(p(i)) : p(i)[j].columns = strips[i]
             /\ SumOf(Areas(p(i))) = oh * w[i]
             /\ \A j \in 1..Len(p(i)), k \in 1..Len(p(i)) : j < k => Beside(p(i)[j], p(i)[k])
  <2>1. /\ p(i) \in Seq(TileSet) /\ Len(p(i)) = Len(bounds[i]) - 1 /\ Len(p(i)) \in Nat
        /\ \A j \in 1..Len(p(i)) : p(i)[j].columns = strips[i]
        /\ SumOf(Areas(p(i))) = oh * strips[i].out_cols
        /\ \A j \in 1..Len(p(i)), k \in 1..Len(p(i)) : j < k => Beside(p(i)[j], p(i)[k])
    BY <1>4, ColumnFacts
  <2>2. p(i) = [j \in 1..(Len(bounds[i]) - 1) |->
                  [rows |-> RowTile(s, ks, bounds[i], j), columns |-> strips[i]]]
    BY DEF ColumnOf
  <2>3. \A j \in 1..(Len(bounds[i]) - 1) :
          [rows |-> RowTile(s, ks, bounds[i], j), columns |-> strips[i]] \in T
    BY DEF strips
  <2>4. p(i) \in Seq(T)
    <3> DEFINE k == Len(bounds[i]) - 1
               q == p(i)
               r(j) == [rows |-> RowTile(s, ks, bounds[i], j), columns |-> strips[i]]
    <3>1. k \in Nat /\ q = [j \in 1..k |-> r(j)] /\ \A j \in 1..k : r(j) \in T
      BY <2>1, <2>2, <2>3
    <3> HIDE DEF k, q, r
    <3>2. q \in Seq(T)
      BY <3>1
    <3> QED  BY <3>2 DEF q
  <2> HIDE DEF p
  <2> QED  BY <1>4, <2>1, <2>4
<1> HIDE DEF p
<1>6. parts \in Seq(Seq(T)) /\ Len(parts) = n /\ \A i \in 1..n : parts[i] = p(i)
  BY <1>2, <1>5
<1>7. GridOf(s, ks, strips, bounds) = FlattenSeq(parts)
  BY <1>4 DEF GridOf, p
<1> HIDE DEF parts
<1>8. PICK f : Flattens(f, parts, T)
  BY <1>3, <1>6, Flatten
<1>9. /\ f \in [0..n -> Seq(T)] /\ f[0] = <<>> /\ FlattenSeq(parts) = f[n]
      /\ \A i \in 1..n : f[i] = f[i - 1] \o p(i)
  BY <1>6, <1>8 DEF Flattens
<1> HIDE DEF n
<1> DEFINE Q == {i \in Nat : i <= n => Covers(f[i], oh, e[i])}
<1>10. 0 \in Q
  <2>1. <<>> \in Seq(TileSet) /\ Len(<<>>) = 0
    OBVIOUS
  <2>2. Areas(<<>>) \in Seq(Nat) /\ Len(Areas(<<>>)) = 0
    BY <2>1, AreaFacts
  <2>3. SumOf(Areas(<<>>)) = 0
    BY <2>2, Sums DEF SumOf
  <2>4. 0 * oh = 0 /\ \A i \in 1..0 : FALSE
    BY <1>1
  <2>5. Covers(<<>>, oh, 0)
    BY <2>1, <2>3, <2>4 DEF Covers
  <2> QED  BY <1>2, <1>9, <2>5
<1>11. ASSUME NEW i \in Nat, i \in Q PROVE i + 1 \in Q
  <2>1. SUFFICES ASSUME i + 1 <= n PROVE Covers(f[i + 1], oh, e[i + 1])
    OBVIOUS
  <2>2. i + 1 \in 1..n /\ (i + 1) - 1 = i /\ i <= n
    BY <1>2, <2>1
  <2>3. /\ Covers(f[i], oh, e[i]) /\ f[i + 1] = f[i] \o p(i + 1) /\ e[i + 1] = e[i] + w[i + 1]
        /\ e[i] \in Nat /\ w[i + 1] \in Nat
    BY <1>2, <1>9, <1>11, <2>2
  <2>4. /\ p(i + 1) \in Seq(TileSet) /\ SumOf(Areas(p(i + 1))) = oh * w[i + 1]
        /\ \A j \in 1..Len(p(i + 1)) : p(i + 1)[j].columns = strips[i + 1]
        /\ \A j \in 1..Len(p(i + 1)), k \in 1..Len(p(i + 1)) :
             j < k => Beside(p(i + 1)[j], p(i + 1)[k])
    BY <1>5, <2>2
  <2>5. strips[i + 1].out_first = e[i] /\ strips[i + 1].out_cols = w[i + 1]
    BY <1>4, <2>2 DEF n
  <2>6. \A j \in 1..Len(p(i + 1)) : /\ p(i + 1)[j].columns.out_first = e[i]
                                    /\ p(i + 1)[j].columns.out_cols = w[i + 1]
    BY <2>4, <2>5
  <2>7. Covers(f[i] \o p(i + 1), oh, e[i] + w[i + 1])
    BY <1>1, <2>3, <2>4, <2>6, CoversMore
  <2> QED  BY <2>3, <2>7
<1>12. Nat \subseteq Q
  <2> HIDE DEF Q
  <2> QED  BY <1>10, <1>11, Induction
<1>13. Covers(f[n], oh, ow) /\ f[n] \in Seq(T)
  BY <1>2, <1>9, <1>12
<1> QED  BY <1>7, <1>9, <1>13 DEF strips

(* A tile list that computes every output pixel once and stays inside the  *)
(* data banks.                                                             *)
GoodTiles(s, ks, d, ts) ==
  /\ Covers(ts, output_height(s, ks), output_width(s, ks))
  /\ \A i \in 1..Len(ts) :
       GoodRows(s, ks, ts[i].rows) /\ GoodColumns(s, ks, ts[i].columns) /\ Fits(s, d, ts[i])

(* The loop of plan_grid over the columns: a grid it returns covers the output once,
   reads inside the input, and fits the data banks. *)
LEMMA PlanGridGood ==
  ASSUME NEW s, NEW ks, Valid(s, ks), NEW w \in Widths(output_width(s, ks)), NEW d \in Nat,
         plan_grid(s, ks, w, d) # NONE
  PROVE  GoodTiles(s, ks, d, plan_grid(s, ks, w, d))
<1> DEFINE strips == ColumnTiles(s, ks, w)
           m(i) == max_rows(s, ks, strips[i].in_cols, d)
           bounds == [i \in 1..Len(strips) |-> row_tiles(s, ks, m(i))]
           T == {t \in TileSet : GoodRows(s, ks, t.rows) /\ GoodColumns(s, ks, t.columns)
                                 /\ Fits(s, d, t)}
<1>1. Len(strips) = Len(w) /\ \A i \in 1..Len(w) : GoodColumns(s, ks, strips[i])
  BY ColumnTilesAre
<1>2. plan_grid(s, ks, w, d)
        = IF \E i \in 1..Len(strips) :
               strips[i].in_cols > max_tile_input_width(s) \/ bounds[i] = NONE
          THEN NONE ELSE GridOf(s, ks, strips, bounds)
  BY DEF plan_grid, UsableGrid
<1> HIDE DEF strips
<1>3. /\ plan_grid(s, ks, w, d) = GridOf(s, ks, strips, bounds)
      /\ \A i \in 1..Len(w) : ~(strips[i].in_cols > max_tile_input_width(s)) /\ bounds[i] # NONE
  <2> HIDE DEF bounds
  <2> QED  BY <1>1, <1>2
<1>4. ASSUME NEW i \in 1..Len(w)
      PROVE  /\ bounds[i] \in Cuts(output_height(s, ks)) /\ AllFit(s, ks, bounds[i], m(i))
             /\ strips[i] \in ColumnSet /\ strips[i].in_cols <= max_tile_input_width(s)
             /\ m(i) \in Nat
             /\ m(i) <= max_tile_input_rows_for_width_and_data_banks(s, strips[i].in_cols, d)
  <2>1. strips[i] \in ColumnSet /\ strips[i].in_cols \in Nat \ {0}
    BY <1>1 DEF GoodColumns, ColumnSet
  <2>2. /\ m(i) \in Nat
        /\ m(i) <= max_tile_input_rows_for_width_and_data_banks(s, strips[i].in_cols, d)
    BY <2>1, MaxRows
  <2>3. bounds[i] = row_tiles(s, ks, m(i)) /\ bounds[i] # NONE
    BY <1>1, <1>3
  <2> HIDE DEF m
  <2>4. bounds[i] \in Cuts(output_height(s, ks)) /\ AllFit(s, ks, bounds[i], m(i))
    <3> HIDE DEF bounds
    <3> QED  BY <2>2, <2>3, RowTilesFit
  <2>5. max_tile_input_width(s) \in Int
    <3>1. s.width \in Nat
      BY DEF Valid
    <3>2. feature_atoms(s) \in Nat /\ feature_atoms(s) # 0
          /\ div_ceil(cbuf_atoms(s), 4) = div_ceil(feature_atoms(s), 4)
      BY AtomFacts
    <3>3. div_ceil(cbuf_atoms(s), 4) \in Nat /\ div_ceil(cbuf_atoms(s), 4) # 0
      <4> DEFINE a == feature_atoms(s)
      <4>1. a \in Nat /\ a # 0
        BY <3>2
      <4> HIDE DEF a
      <4>2. div_ceil(a, 4) \in Nat /\ div_ceil(a, 4) # 0
        BY <4>1, Ceiling
      <4> QED  BY <3>2, <4>2 DEF a
    <3>4. ASSUME NEW x \in Nat \ {0} PROVE MAX_ENTRY_SLAB_BASE \div x \in Nat
      <4>1. MAX_ENTRY_SLAB_BASE \in Nat
        BY DEF MAX_ENTRY_SLAB_BASE
      <4> QED  BY <4>1, Quotient
    <3> DEFINE extra == IF layout(s) = "Dense" THEN 0
                        ELSE div_ceil(cbuf_atoms(s), CBUF_ATOMS_PER_ENTRY) - 1
    <3>5. extra \in Nat
      BY <3>3 DEF CBUF_ATOMS_PER_ENTRY
    <3>6. max_tile_input_width(s)
            = IF extra = 0 THEN s.width ELSE Min2(MAX_ENTRY_SLAB_BASE \div extra, s.width)
      BY DEF max_tile_input_width
    <3> HIDE DEF extra
    <3>7. extra # 0 => MAX_ENTRY_SLAB_BASE \div extra \in Nat
      BY <3>4, <3>5
    <3> QED  BY <3>1, <3>6, <3>7 DEF Min2
  <2>6. strips[i].in_cols <= max_tile_input_width(s)
    <3> DEFINE x == strips[i].in_cols
               y == max_tile_input_width(s)
    <3>1. ~(x > y)
      BY <1>3
    <3>2. x \in Nat /\ y \in Int
      BY <2>1, <2>5
    <3> HIDE DEF x, y
    <3>3. x <= y
      BY <3>1, <3>2
    <3> QED  BY <3>3 DEF x, y
  <2> QED  BY <2>1, <2>2, <2>4, <2>6
<1> HIDE DEF bounds
<1>5. ASSUME NEW i \in 1..Len(w), NEW j \in 1..(Len(bounds[i]) - 1)
      PROVE  [rows |-> RowTile(s, ks, bounds[i], j), columns |-> strips[i]] \in T
  <2> DEFINE r == RowTile(s, ks, bounds[i], j)
             t == [rows |-> r, columns |-> strips[i]]
             cap == max_tile_input_rows_for_width_and_data_banks(s, strips[i].in_cols, d)
  <2>1. GoodRows(s, ks, r) /\ r \in RowSet
    BY <1>4, CutRow DEF GoodRows
  <2>2. r.in_rows <= m(i) /\ m(i) \in Nat /\ m(i) <= cap
    BY <1>4 DEF AllFit
  <2>3. cap \in Nat
    BY <1>4, RowCapacity DEF ColumnSet
  <2>4. r.in_rows \in Nat
    BY <2>1 DEF RowSet
  <2> HIDE DEF r, m, cap
  <2>5. r.in_rows <= cap
    BY <2>2, <2>3, <2>4
  <2>6. t \in TileSet /\ t.rows = r /\ t.columns = strips[i]
    BY <1>4, <2>1 DEF TileSet
  <2> HIDE DEF t
  <2>7. Fits(s, d, t)
    BY <1>4, <2>5, <2>6, CapacityFits DEF cap
  <2>8. t \in T
    BY <1>1, <2>1, <2>6, <2>7
  <2> QED  BY <2>8 DEF t, r
<1>6. T \in SUBSET TileSet
  OBVIOUS
<1> HIDE DEF T
<1>7. /\ GridOf(s, ks, strips, bounds) \in Seq(T)
      /\ Covers(GridOf(s, ks, strips, bounds), output_height(s, ks), output_width(s, ks))
  BY <1>4, <1>5, <1>6, GridCovers DEF strips
<1> DEFINE g == GridOf(s, ks, strips, bounds)
<1>8. \A i \in 1..Len(g) : g[i] \in T
  <2>1. g \in Seq(T)
    BY <1>7
  <2> HIDE DEF g
  <2> QED  BY <2>1
<1>9. \A i \in 1..Len(g) : GoodRows(s, ks, g[i].rows) /\ GoodColumns(s, ks, g[i].columns)
                           /\ Fits(s, d, g[i])
  <2> HIDE DEF g
  <2> QED  BY <1>8 DEF T
<1> QED  BY <1>3, <1>7, <1>9 DEF GoodTiles

(* Tile2D::grid cuts every column, into one row each at the least.         *)
LEMMA MinTiles ==
  ASSUME NEW s, NEW ks, Valid(s, ks), NEW cols \in Nat \ {0}, NEW d \in Nat
  PROVE  min_tiles_for_width_and_data_banks(s, ks, cols, d) \in 1..output_height(s, ks)
<1> DEFINE k == KernelOf(s, ks)
           rows == Max2(1, saturating_sub(max_rows(s, ks, cols, d), k.height - 1))
           per == Max2(1, div_ceil(rows, s.stride))
           oh == output_height(s, ks)
<1>1. max_rows(s, ks, cols, d) \in Nat /\ k.height \in Nat /\ k.height # 0
      /\ s.stride \in Nat /\ s.stride # 0 /\ oh \in Nat /\ oh # 0
  <2>1. max_rows(s, ks, cols, d) \in Nat
    BY MaxRows
  <2>2. oh \in Nat /\ oh # 0
    BY Extents
  <2>3. k.height \in Nat /\ k.height # 0 /\ s.stride \in Nat /\ s.stride # 0
    BY DEF Valid
  <2> QED  BY <2>1, <2>2, <2>3
<1>2. rows \in Nat
  <2> HIDE DEF k
  <2> QED  BY <1>1 DEF Max2, saturating_sub
<1> HIDE DEF rows
<1>3. div_ceil(rows, s.stride) \in Nat
  BY <1>1, <1>2, Ceiling
<1>4. per \in Nat /\ per # 0
  BY <1>3 DEF Max2
<1>5. min_tiles_for_width_and_data_banks(s, ks, cols, d) = div_ceil(oh, per)
  BY DEF min_tiles_for_width_and_data_banks, rows
<1> HIDE DEF per, oh
<1>6. div_ceil(oh, per) \in Nat /\ div_ceil(oh, per) # 0 /\ div_ceil(oh, per) * per < oh + per
  BY <1>1, <1>4, Ceiling
<1>7. div_ceil(oh, per) <= oh
  <2> DEFINE q == div_ceil(oh, per)
  <2>1. q \in Nat /\ q * per < oh + per
    BY <1>6
  <2> HIDE DEF q
  <2>2. SUFFICES ASSUME ~(q <= oh) PROVE FALSE
    BY DEF q
  <2>3. oh + 1 <= q
    BY <1>1, <2>1, <2>2
  <2>4. (oh + 1) * per <= q * per /\ (oh + 1) * per = oh * per + per /\ oh * per \in Nat
        /\ q * per \in Nat
    BY <1>1, <1>4, <2>1, <2>3, ProductMonotone
  <2>5. 1 * oh <= per * oh /\ per * oh = oh * per
    <3>1. 1 <= per
      BY <1>4
    <3> QED  BY <1>1, <1>4, <3>1, ProductMonotone
  <2> QED  BY <1>1, <1>4, <2>1, <2>4, <2>5
<1>8. div_ceil(oh, per) \in 1..oh
  BY <1>1, <1>6, <1>7
<1> QED  BY <1>5, <1>8 DEF oh

(* The captured column partitions bypass plan_grid, and Tile2D::grid cuts their rows:
   a grid that passes grid_fits is as good. *)
LEMMA CapturedGridGood ==
  ASSUME NEW s, NEW ks, Valid(s, ks), NEW w \in Widths(output_width(s, ks)), NEW d \in Nat,
         grid_fits(s, ks, grid(s, ks, w, d), d)
  PROVE  GoodTiles(s, ks, d, grid(s, ks, w, d))
<1> DEFINE strips == ColumnTiles(s, ks, w)
           n(i) == min_tiles_for_width_and_data_banks(s, ks, strips[i].in_cols, d)
           bounds == [i \in 1..Len(strips) |-> split(s, ks, n(i))]
           oh == output_height(s, ks)
           T == {t \in TileSet : GoodRows(s, ks, t.rows) /\ GoodColumns(s, ks, t.columns)}
           g == grid(s, ks, w, d)
<1>1. Len(strips) = Len(w) /\ \A i \in 1..Len(w) : GoodColumns(s, ks, strips[i])
  BY ColumnTilesAre
<1>2. g = GridOf(s, ks, strips, bounds)
  BY DEF grid
<1>3. oh \in Nat
  BY Extents
<1> HIDE DEF strips
<1>4. ASSUME NEW i \in 1..Len(w) PROVE bounds[i] \in Cuts(oh) /\ strips[i] \in ColumnSet
  <2>1. strips[i] \in ColumnSet /\ strips[i].in_cols \in Nat \ {0}
    BY <1>1 DEF GoodColumns, ColumnSet
  <2>2. n(i) \in 1..oh
    BY <2>1, MinTiles
  <2>3. bounds[i] = split(s, ks, n(i))
    BY <1>1
  <2> HIDE DEF n, oh, bounds
  <2>4. n(i) \in Nat /\ n(i) # 0 /\ n(i) <= oh
    BY <1>3, <2>2
  <2>5. split(s, ks, n(i)) = Balanced(oh, n(i))
    BY DEF split, Balanced, oh
  <2>6. Balanced(oh, n(i)) \in Cuts(oh)
    BY <1>3, <2>4, BalancedCut
  <2> QED  BY <2>1, <2>3, <2>5, <2>6
<1> HIDE DEF bounds
<1>5. ASSUME NEW i \in 1..Len(w), NEW j \in 1..(Len(bounds[i]) - 1)
      PROVE  [rows |-> RowTile(s, ks, bounds[i], j), columns |-> strips[i]] \in T
  <2> DEFINE r == RowTile(s, ks, bounds[i], j)
             t == [rows |-> r, columns |-> strips[i]]
  <2>1. GoodRows(s, ks, r) /\ r \in RowSet
    BY <1>4, CutRow DEF GoodRows
  <2> HIDE DEF r
  <2>2. t \in TileSet /\ t.rows = r /\ t.columns = strips[i]
    BY <1>4, <2>1 DEF TileSet
  <2> QED  BY <1>1, <2>1, <2>2 DEF r
<1>6. T \in SUBSET TileSet
  OBVIOUS
<1> HIDE DEF T
<1>7. g \in Seq(T) /\ Covers(g, oh, output_width(s, ks))
  BY <1>2, <1>4, <1>5, <1>6, GridCovers DEF strips
<1> HIDE DEF g
<1>8. \A i \in 1..Len(g) : g[i] \in TileSet /\ GoodRows(s, ks, g[i].rows)
                           /\ GoodColumns(s, ks, g[i].columns)
  <2>1. \A i \in 1..Len(g) : g[i] \in T
    BY <1>7
  <2> QED  BY <2>1 DEF T
<1>9. \A i \in 1..Len(g) : Fits(s, d, g[i])
  <2> TAKE i \in 1..Len(g)
  <2>1. /\ g[i].columns.in_cols <= max_tile_input_width(s)
        /\ g[i].rows.in_rows <= max_tile_input_rows_for_width_and_data_banks(
                                  s, g[i].columns.in_cols, d)
    BY DEF grid_fits, g
  <2> QED  BY <1>8, <2>1, CapacityFits
<1>10. GoodTiles(s, ks, d, g)
  BY <1>7, <1>8, <1>9 DEF GoodTiles
<1> QED  BY <1>10 DEF g

(* The captured columns add up to their row.                               *)
LEMMA SumOfTwo ==
  ASSUME NEW a \in Nat, NEW b \in Nat
  PROVE  SumOf(<<a, b>>) = a + b
<1> DEFINE v == <<a, b>>
<1>1. v \in Seq(Nat) /\ Len(v) = 2 /\ v[1] = a /\ v[2] = b
  OBVIOUS
<1> HIDE DEF v
<1>2. PartialSums(v)[0] = 0 /\ \A i \in 1..2 : PartialSums(v)[i] = PartialSums(v)[i - 1] + v[i]
  BY <1>1, Sums
<1>3. PartialSums(v)[1] = PartialSums(v)[1 - 1] + v[1]
      /\ PartialSums(v)[2] = PartialSums(v)[2 - 1] + v[2]
  BY <1>2
<1> QED  BY <1>1, <1>2, <1>3 DEF SumOf, v

(* Each captured_column_partition spans the output of the one shape it is for. *)
LEMMA CapturedWidths ==
  ASSUME NEW s, NEW ks, captured_column_partition(s, ks) # NONE
  PROVE  captured_column_partition(s, ks) \in Widths(output_width(s, ks))
<1> DEFINE c == captured_column_partition(s, ks)
<1>1. /\ s.width = 256 /\ s.stride = 1 /\ s.padding = <<>>
      /\ \/ ks = <<9, 9>> /\ c = <<135, 121>>
         \/ ks = <<11, 11>> /\ c = <<137, 119>>
         \/ ks = <<11, 11>> /\ c = <<59, 54, 54, 54, 35>>
  BY DEF captured_column_partition, NONE
<1>2. output_width(s, ks) = 256
  <2>1. KernelOf(s, ks).width = ks[2] /\ KernelOf(s, ks).pad_left = ks[2] \div 2
    BY <1>1 DEF KernelOf, kernel_programming
  <2>2. ks[2] = 9 \/ ks[2] = 11
    BY <1>1
  <2> QED  BY <1>1, <2>1, <2>2 DEF output_width
<1> HIDE DEF c
<1>3. c \in Seq(Nat \ {0})
  <2>1. <<135, 121>> \in Seq(Nat \ {0}) /\ <<137, 119>> \in Seq(Nat \ {0})
    OBVIOUS
  <2>2. <<59, 54, 54, 54, 35>> \in Seq(Nat \ {0})
    OBVIOUS
  <2> QED  BY <1>1, <2>1, <2>2
<1>4. SumOf(c) = 256
  <2>1. CASE c = <<135, 121>> \/ c = <<137, 119>>
    BY <2>1, SumOfTwo
  <2>2. CASE c = <<59, 54, 54, 54, 35>>
    <3>1. c \in Seq(Nat) /\ Len(c) = 5 /\ c[1] = 59 /\ c[2] = 54 /\ c[3] = 54 /\ c[4] = 54 /\ c[5] = 35
      BY <2>2
    <3>2. PartialSums(c)[0] = 0 /\ \A i \in 1..5 : PartialSums(c)[i] = PartialSums(c)[i - 1] + c[i]
      BY <3>1, Sums
    <3>3. /\ PartialSums(c)[1] = PartialSums(c)[1 - 1] + c[1]
          /\ PartialSums(c)[2] = PartialSums(c)[2 - 1] + c[2]
          /\ PartialSums(c)[3] = PartialSums(c)[3 - 1] + c[3]
          /\ PartialSums(c)[4] = PartialSums(c)[4 - 1] + c[4]
          /\ PartialSums(c)[5] = PartialSums(c)[5 - 1] + c[5]
      BY <3>2
    <3>4. PartialSums(c)[5] = 256
      BY <3>1, <3>2, <3>3
    <3> QED  BY <3>1, <3>4 DEF SumOf
  <2> QED  BY <1>1, <2>1, <2>2
<1> QED  BY <1>2, <1>3, <1>4 DEF Widths, c
-----------------------------------------------------------------------------
(* Banks.                                                                  *)

(* The kernel's taps and channels are counted in naturals. *)
LEMMA ChannelFacts ==
  ASSUME NEW s, NEW ks, Valid(s, ks)
  PROVE  /\ Taps(ks) \in Nat \ {0} /\ weight_channels(s) \in Nat /\ WeightBytesPerTap(s) \in Nat
<1>1. /\ s.precision \in Precisions /\ s.out_channels \in Nat /\ s.out_channels # 0
      /\ ks[1] \in 1..11 /\ ks[2] \in 1..11
  BY DEF Valid
<1>2. /\ element_bits(s.precision) \in {4, 8, 16, 32}
      /\ channels_per_atom(s.precision) \in Nat
  BY <1>1, PrecisionFacts
<1>3. Taps(ks) \in Nat \ {0}
  <2>1. \A x \in 1..11, y \in 1..11 : x * y \in Nat \ {0}
    OBVIOUS
  <2> QED  BY <1>1, <2>1 DEF Taps
<1>4. feature_atoms(s) \in Nat /\ cbuf_atoms(s) \in Nat
  BY AtomFacts
<1>5. \A x \in Nat, y \in Nat : x * y \in Nat
  OBVIOUS
<1>6. weight_channels(s) \in Nat
  <2>1. quad_atoms(feature_atoms(s)) \in Nat
    BY <1>4 DEF cbuf_atoms
  <2> QED  BY <1>2, <1>4, <1>5, <2>1 DEF weight_channels, padded_channels
<1>7. programmed_kernels(s) \in Nat
  <2>1. next_multiple_of(s.out_channels, 2) \in Nat
    <3>1. \A x \in Nat : div_ceil(x, 2) \in Nat
      BY DEF div_ceil
    <3>2. div_ceil(s.out_channels, 2) \in Nat
      BY <1>1, <3>1
    <3> QED  BY <3>2 DEF next_multiple_of
  <2> QED  BY <1>1, <2>1 DEF programmed_kernels
<1>8. WeightBytesPerTap(s) \in Nat
  <2> DEFINE e == IF s.depthwise THEN depthwise_padded_channels(s)
                  ELSE weight_channels(s) * programmed_kernels(s)
  <2>1. e \in Nat
    BY <1>2, <1>4, <1>5, <1>6, <1>7 DEF depthwise_padded_channels
  <2> HIDE DEF e
  <2>2. e * element_bits(s.precision) \in Nat
    BY <1>2, <2>1
  <2>3. (e * element_bits(s.precision)) \div 8 \in Nat
    BY <2>2
  <2> QED  BY <2>3 DEF WeightBytesPerTap, bytes_for, e
<1> QED  BY <1>3, <1>6, <1>8

(* Both bank demands of try_demand_based_cbuf_partition are at least one bank. *)
LEMMA Demands ==
  ASSUME NEW s, NEW ks, Valid(s, ks)
  PROVE  weight_bank_demand(s, ks) \in Nat \ {0} /\ data_bank_demand(s) \in Nat \ {0}
<1> DEFINE t == Taps(ks)
           b == WeightBytesPerTap(s)
<1>1. t \in Nat /\ b \in Nat
  BY ChannelFacts
<1>2. weight_bank_demand(s, ks)
        = Max2(1, (b \div CBUF_BANK_BYTES) * t
                    + div_ceil((b % CBUF_BANK_BYTES) * t, CBUF_BANK_BYTES))
  BY DEF weight_bank_demand
<1> HIDE DEF t, b
<1>3. weight_bank_demand(s, ks) \in Nat \ {0}
  <2>1. b \div 32768 \in Nat /\ b % 32768 \in Nat
    BY <1>1
  <2>2. (b \div 32768) * t \in Nat /\ (b % 32768) * t \in Nat
    BY <1>1, <2>1
  <2>3. div_ceil((b % 32768) * t, 32768) \in Nat
    BY <2>2, Ceiling
  <2> QED  BY <1>2, <2>2, <2>3 DEF Max2, CBUF_BANK_BYTES
<1>4. \A x \in Int : Max2(1, x) \in Nat \ {0}
  BY DEF Max2
<1>5. s.width \in Nat \ {0} /\ s.height \in Nat /\ cbuf_atoms(s) \in Nat
  BY AtomFacts DEF Valid
<1>6. CASE layout(s) = "Dense"
  <2> DEFINE w == cbuf_input_width(s, s.width)
             px == dense_cbuf_pixel_bytes(s)
  <2>1. w \in Nat /\ px \in Nat
    BY <1>5, <1>6, Charged, DensePixel
  <2>2. data_bank_demand(s) = Max2(1, div_ceil(w * s.height * px, 8 * PIXELS_PER_BANK_STEP))
    BY <1>6 DEF data_bank_demand
  <2> HIDE DEF w, px
  <2>3. w * s.height * px \in Nat
    BY <1>5, <2>1
  <2>4. div_ceil(w * s.height * px, 8192) \in Nat
    BY <2>3, Ceiling
  <2>5. div_ceil(w * s.height * px, 8 * PIXELS_PER_BANK_STEP) \in Int
    BY <2>4 DEF PIXELS_PER_BANK_STEP
  <2> QED  BY <1>3, <1>4, <2>2, <2>5
<1>7. CASE layout(s) # "Dense"
  <2> DEFINE p == s.width * s.height
             low == (p % 2048) * cbuf_atoms(s)
             q == (p \div 2048) * cbuf_atoms(s) + (low \div 2048)
  <2>1. p \in Nat
    BY <1>5
  <2>2. data_bank_demand(s) = Max2(1, (q % (2 ^ 21)) + (IF low % 2048 > 0 THEN 1 ELSE 0))
    BY <1>7 DEF data_bank_demand
  <2> HIDE DEF p
  <2>3. low \in Nat
    BY <1>5, <2>1
  <2> HIDE DEF low
  <2>4. q \in Nat
    BY <1>5, <2>1, <2>3
  <2> HIDE DEF q
  <2>5. q % (2 ^ 21) \in Nat
    BY <2>4
  <2>6. (q % (2 ^ 21)) + (IF low % 2048 > 0 THEN 1 ELSE 0) \in Int
    BY <2>5
  <2> QED  BY <1>3, <1>4, <2>2, <2>6
<1> QED  BY <1>6, <1>7

(* The banks of coefficients one pass streams; half of a kernel's streams  *)
(* at a time when all of it needs more than ten.                           *)
StreamLimit == 655360

(* streamed_weight_bank_preference_for_group: below the stream limit two groups of
   kernels need at most 11 banks. *)
LEMMA GroupPreference ==
  ASSUME NEW c \in Nat, NEW ks, Taps(ks) \in Nat, NEW g \in {1, 2}, NEW bits \in {4, 8, 16, 32}
  PROVE  LET p == streamed_weight_bank_preference_for_group(c, ks, g, bits)
         IN  /\ p \in Nat \ {0}
             /\ Taps(ks) * c * 64 * Max2(bits \div 16, 1) <= StreamLimit /\ g = 2 => p <= 11
<1> DEFINE x == Taps(ks) * c * 64 * Max2(bits \div 16, 1)
           set == x \div g
           entries == div_ceil(set, CBUF_ENTRY_BYTES)
           n == Max2(1, div_ceil(entries, CBUF_ENTRIES_PER_BANK))
           r == entries % CBUF_ENTRIES_PER_BANK
           Uneven == r # 0 /\ CBUF_ENTRIES_PER_BANK % r # 0
           p == streamed_weight_bank_preference_for_group(c, ks, g, bits)
<1>1. p = CASE g = 1 -> n [] g > 1 /\ n < 2 -> 2
            [] g > 1 /\ n >= 2 -> IF Uneven THEN n + 1 ELSE n
  BY DEF streamed_weight_bank_preference_for_group
<1>2. x \in Nat
  <2>1. Max2(bits \div 16, 1) \in {1, 2}
    BY DEF Max2
  <2>2. \A t \in Nat, f \in {1, 2} : t * c * 64 * f \in Nat
    OBVIOUS
  <2> QED  BY <2>1, <2>2
<1> HIDE DEF x
<1>3. set \in Nat /\ (x <= StreamLimit /\ g = 2 => set <= 327680)
  BY <1>2, SMT DEF StreamLimit
<1> HIDE DEF set
<1>4. entries \in Nat /\ (set <= 327680 => entries <= 2560)
  BY <1>3, SMT DEF div_ceil, CBUF_ENTRY_BYTES
<1> HIDE DEF entries, Uneven
<1>5. n \in Nat \ {0} /\ (entries <= 2560 => n <= 10)
  BY <1>4 DEF div_ceil, Max2, CBUF_ENTRIES_PER_BANK, CBUF_BANK_BYTES, CBUF_ENTRY_BYTES
<1> HIDE DEF n, p
<1>6. p \in Nat \ {0} /\ (x <= StreamLimit /\ g = 2 => p <= 11)
  <2>1. CASE g = 1
    <3>1. p = n
      BY <1>1, <2>1
    <3> QED  BY <1>5, <2>1, <3>1
  <2>2. CASE g = 2
    <3>1. p = 2 \/ p = n \/ p = n + 1
      BY <1>1, <1>5, <2>2
    <3> QED  BY <1>3, <1>4, <1>5, <2>2, <3>1, SMT
  <2> QED  BY <2>1, <2>2
<1> QED  BY <1>6 DEF x, p

(* streamed_weight_bank_preference: one group or two, and 11 banks suffice below the
   limit. *)
LEMMA Preference ==
  ASSUME NEW c \in Nat, NEW ks, Taps(ks) \in Nat, NEW bits \in {4, 8, 16, 32}
  PROVE  LET p == streamed_weight_bank_preference(c, ks, bits)
         IN  /\ p \in Nat \ {0}
             /\ Taps(ks) * c * 64 * Max2(bits \div 16, 1) <= StreamLimit => p <= 11
<1> DEFINE u == streamed_weight_bank_preference_for_group(c, ks, 1, bits)
           h == streamed_weight_bank_preference_for_group(c, ks, 2, bits)
           Small == Taps(ks) * c * 64 * Max2(bits \div 16, 1) <= StreamLimit
<1>1. u \in Nat \ {0} /\ h \in Nat \ {0} /\ (Small => h <= 11)
  <2>1. u \in Nat \ {0}
    BY GroupPreference
  <2>2. h \in Nat \ {0} /\ (Small => h <= 11)
    <3> DEFINE g == 2
               k == streamed_weight_bank_preference_for_group(c, ks, g, bits)
    <3>1. g \in {1, 2} /\ g = 2
      OBVIOUS
    <3> HIDE DEF g
    <3>2. k \in Nat \ {0} /\ (Small /\ g = 2 => k <= 11)
      BY <3>1, GroupPreference
    <3> QED  BY <3>1, <3>2
  <2> QED  BY <2>1, <2>2
<1>2. streamed_weight_bank_preference(c, ks, bits) = IF u <= 10 THEN u ELSE h
  BY DEF streamed_weight_bank_preference, MAX_UNDIVIDED_WEIGHT_BANKS, CBUF_BANKS
<1> HIDE DEF u, h, Small
<1>3. LET p == streamed_weight_bank_preference(c, ks, bits) IN p \in Nat \ {0} /\ (Small => p <= 11)
  BY <1>1, <1>2
<1> QED  BY <1>3 DEF Small

(* A validated shape's weight stream prefers at least one bank. *)
LEMMA Streamed ==
  ASSUME NEW s, NEW ks, Valid(s, ks)
  PROVE  StreamedPreference(s, ks) \in Nat \ {0}
<1>1. streamed_contraction_channels(s) \in Nat
  BY ChannelFacts DEF streamed_contraction_channels
<1>2. element_bits(s.precision) \in {4, 8, 16, 32}
  <2>1. s.precision \in Precisions
    BY DEF Valid
  <2> QED  BY <2>1, PrecisionFacts
<1>3. Taps(ks) \in Nat
  BY ChannelFacts
<1> QED  BY <1>1, <1>2, <1>3, Preference DEF StreamedPreference

(* What a policy leaves the coefficients.                                  *)
Enough(s, ks, p) ==
  /\ p[1] \in 1..11 /\ p[1] + p[2] = CBUF_BANKS
  /\ \/ p[2] >= Min2(weight_bank_demand(s, ks), StreamedPreference(s, ks))
     \/ /\ s.precision = "int4" /\ ks = <<7, 7>> /\ s.in_channels = 224
        /\ p[2] = CBUF_BANKS - 1

(* A split that try_demand_based_cbuf_partition grants feeds the weight stream. *)
LEMMA DemandBased ==
  ASSUME NEW s, NEW ks, Valid(s, ks), try_demand_based_cbuf_partition(s, ks) # NONE
  PROVE  Enough(s, ks, try_demand_based_cbuf_partition(s, ks))
<1> DEFINE D == data_bank_demand(s)
           W == weight_bank_demand(s, ks)
           granted == IF D <= W THEN D ELSE Min2(D, saturating_sub(CBUF_BANKS, W))
           db == Min2(Max2(granted, 1), CBUF_BANKS - 1)
           wb == CBUF_BANKS - db
           P == StreamedPreference(s, ks)
           floor == Max2(weight_banks_floor(weight_channels(s)), P)
           floored == Min2(floor, CBUF_BANKS - 1)
           whole == Min2(D, CBUF_BANKS - 1)
           WholeFits(n) == whole_rows(s, ks).in_rows
                             <= max_tile_input_rows_for_width_and_data_banks(s, s.width, n)
           Moved == whole > db /\ CBUF_BANKS - whole >= floor /\ ~WholeFits(db) /\ WholeFits(whole)
           Starved == \/ db = 1 /\ wb > P /\ W > P
                      \/ wb < floor /\ W > wb
           r == try_demand_based_cbuf_partition(s, ks)
<1>1. D \in Nat \ {0} /\ W \in Nat \ {0} /\ P \in Nat \ {0} /\ weight_channels(s) \in Nat
  BY Demands, Streamed, ChannelFacts
<1>2. r = CASE P >= CBUF_BANKS -> NONE
            [] P < CBUF_BANKS /\ Starved -> <<CBUF_BANKS - floored, floored>>
            [] OTHER -> IF Moved THEN <<whole, CBUF_BANKS - whole>> ELSE <<db, wb>>
  BY DEF try_demand_based_cbuf_partition
<1>3. floor \in Int /\ floor >= P
  <2>1. \A x \in Nat : weight_banks_floor(x) \in Int
    BY DEF weight_banks_floor, Min2
  <2>2. weight_banks_floor(weight_channels(s)) \in Int
    BY <1>1, <2>1
  <2> HIDE DEF P
  <2> QED  BY <1>1, <2>2 DEF Max2
<1> HIDE DEF D, W, P, floor
<1>4. db \in 1..11 /\ whole \in 1..11 /\ wb = 12 - db
  BY <1>1 DEF Min2, Max2, saturating_sub, CBUF_BANKS
<1>5. floored \in Int /\ (P < 12 => floored \in 1..11 /\ floored >= P)
  BY <1>1, <1>3 DEF Min2, CBUF_BANKS
<1> HIDE DEF db, whole, floored, WholeFits
<1>6. P < 12
  BY <1>1, <1>2 DEF CBUF_BANKS
<1>7. CASE Starved
  <2>1. r = <<12 - floored, floored>>
    <3> HIDE DEF Starved
    <3> QED  BY <1>1, <1>2, <1>6, <1>7 DEF CBUF_BANKS
  <2>2. r[1] = 12 - floored /\ r[2] = floored
    BY <2>1
  <2> HIDE DEF r
  <2>3. r[1] \in 1..11 /\ r[1] + r[2] = 12 /\ r[2] >= P
    BY <1>5, <1>6, <2>2
  <2>4. r[2] >= Min2(W, P)
    BY <1>1, <1>5, <1>6, <2>2, <2>3 DEF Min2
  <2> QED  BY <2>3, <2>4 DEF Enough, CBUF_BANKS, r, W, P
<1>8. CASE ~Starved
  <2>1. r = IF Moved THEN <<whole, 12 - whole>> ELSE <<db, wb>>
    <3> HIDE DEF Starved, Moved
    <3> QED  BY <1>1, <1>2, <1>6, <1>8 DEF CBUF_BANKS
  <2>2. CASE Moved
    <3>1. r[1] = whole /\ r[2] = 12 - whole /\ 12 - whole >= floor
      BY <2>1, <2>2 DEF CBUF_BANKS
    <3> HIDE DEF r
    <3>2. r[2] >= Min2(W, P) /\ r[1] \in 1..11 /\ r[1] + r[2] = 12
      BY <1>1, <1>3, <1>4, <3>1 DEF Min2
    <3> QED  BY <3>2 DEF Enough, CBUF_BANKS, r, W, P
  <2>3. CASE ~Moved
    <3>1. r[1] = db /\ r[2] = wb
      <4> HIDE DEF Moved
      <4> QED  BY <2>1, <2>3
    <3>2. wb >= floor \/ W <= wb
      BY <1>1, <1>3, <1>4, <1>8
    <3> HIDE DEF r, wb
    <3>3. r[2] >= Min2(W, P) /\ r[1] \in 1..11 /\ r[1] + r[2] = 12
      BY <1>1, <1>3, <1>4, <3>1, <3>2 DEF Min2
    <3> QED  BY <3>3 DEF Enough, CBUF_BANKS, r, W, P
  <2> QED  BY <2>2, <2>3
<1> QED  BY <1>7, <1>8

(* The kernels whose ceilings keep their stream within eleven banks.       *)
LEMMA LargeKernelStream ==
  ASSUME NEW s, NEW ks, Valid(s, ks), NEW k \in {7, 9, 11}, ks = <<k, k>>,
         s.in_channels <= large_kernel_max_in_channels(s.precision, k),
         k # 7 => s.precision = "fp16"
  PROVE  \/ StreamedPreference(s, ks) <= 11
         \/ s.precision = "int4" /\ ks = <<7, 7>> /\ s.in_channels = 224
<1> DEFINE n == s.in_channels
           cpa == channels_per_atom(s.precision)
           a == feature_atoms(s)
           bits == element_bits(s.precision)
           c == streamed_contraction_channels(s)
           f == Max2(bits \div 16, 1)
<1>1. /\ n \in Nat /\ n # 0 /\ s.precision \in Precisions /\ s.depthwise \in BOOLEAN
      /\ (s.precision = "int4" => n % 32 = 0) /\ (s.depthwise => bits \in {8, 16})
  BY DEF Valid
<1>2. /\ bits \in {4, 8, 16, 32} /\ (bits = 4 <=> s.precision = "int4") /\ cpa = 128 \div bits
      /\ (s.precision = "fp16" => bits = 16) /\ (bits = 32 <=> s.precision = "tf32")
  BY <1>1, PrecisionFacts DEF Precisions, element_bits
<1>3. /\ bits = 4 => cpa = 32 /\ f = 1
      /\ bits = 8 => cpa = 16 /\ f = 1
      /\ bits = 16 => cpa = 8 /\ f = 1
      /\ bits = 32 => cpa = 4 /\ f = 2
  BY <1>2 DEF Max2
<1>4. Taps(ks) = k * k
  BY DEF Taps
<1>5. c \in Nat
  BY ChannelFacts DEF streamed_contraction_channels
<1>6. /\ n <= (IF k = 9 THEN 128 ELSE IF k = 11 THEN 64
               ELSE IF bits = 32 THEN 96 ELSE IF bits = 4 THEN 224 ELSE 208)
      /\ k # 7 => bits = 16
  BY <1>1, <1>2 DEF large_kernel_max_in_channels
<1>7. a = Max2(1, div_ceil(n, cpa))
  BY DEF feature_atoms
<1>8. ~s.depthwise => c = (IF bits = 16 THEN quad_atoms(a) ELSE a) * cpa
  BY DEF streamed_contraction_channels, weight_channels, padded_channels, shares_fp16_layout
<1>9. s.depthwise => c = 1
  BY DEF streamed_contraction_channels
<1>10. StreamedPreference(s, ks) = streamed_weight_bank_preference(c, ks, bits)
  BY DEF StreamedPreference
<1> DEFINE p == streamed_weight_bank_preference(c, ks, bits)
<1>11. Taps(ks) * c * 64 * f <= StreamLimit => p <= 11
  <2>1. Taps(ks) \in Nat
    BY <1>4
  <2> QED  BY <1>2, <1>5, <2>1, Preference
<1> HIDE DEF n, cpa, a, bits, c, f, p
<1>12. CASE s.depthwise
  <2>1. c = 1 /\ f = 1
    BY <1>1, <1>3, <1>9, <1>12
  <2>2. Taps(ks) * c * 64 * f <= StreamLimit
    BY <1>4, <2>1, SMT DEF StreamLimit
  <2> QED  BY <1>10, <1>11, <2>2 DEF p
<1>13. CASE ~s.depthwise /\ k = 7
  <2>1. Taps(ks) = 49
    BY <1>4, <1>13
  <2>2. CASE bits = 16
    <3>1. a \in Nat /\ a <= 26 /\ c = quad_atoms(a) * 8
      BY <1>1, <1>3, <1>6, <1>7, <1>8, <1>13, <2>2 DEF Max2, div_ceil
    <3>2. c <= 208 /\ f = 1
      BY <1>3, <2>2, <3>1 DEF quad_atoms
    <3>3. Taps(ks) * c * 64 * f <= StreamLimit
      BY <1>5, <2>1, <3>2, SMT DEF StreamLimit
    <3> QED  BY <1>10, <1>11, <3>3 DEF p
  <2>3. CASE bits = 8
    <3>1. a \in Nat /\ a <= 13 /\ c = a * 16
      BY <1>1, <1>3, <1>6, <1>7, <1>8, <1>13, <2>3 DEF Max2, div_ceil
    <3>2. c <= 208 /\ f = 1
      BY <1>3, <2>3, <3>1
    <3>3. Taps(ks) * c * 64 * f <= StreamLimit
      BY <1>5, <2>1, <3>2, SMT DEF StreamLimit
    <3> QED  BY <1>10, <1>11, <3>3 DEF p
  <2>4. CASE bits = 32
    <3>1. a \in Nat /\ a <= 24 /\ c = a * 4
      BY <1>1, <1>3, <1>6, <1>7, <1>8, <1>13, <2>4 DEF Max2, div_ceil
    <3>2. c <= 96 /\ f = 2
      BY <1>3, <2>4, <3>1
    <3>3. Taps(ks) * c * 64 * f <= StreamLimit
      BY <1>5, <2>1, <3>2, SMT DEF StreamLimit
    <3> QED  BY <1>10, <1>11, <3>3 DEF p
  <2>5. CASE bits = 4
    <3>1. n % 32 = 0 /\ n <= 224 /\ s.precision = "int4"
      BY <1>1, <1>2, <1>6, <1>13, <2>5
    <3>2. CASE n = 224
      BY <1>13, <3>1, <3>2 DEF n
    <3>3. CASE n # 224
      <4>1. n <= 192
        BY <1>1, <3>1, <3>3
      <4>2. a \in Nat /\ a <= 6 /\ c = a * 32
        BY <1>1, <1>3, <1>7, <1>8, <1>13, <2>5, <4>1 DEF Max2, div_ceil
      <4>3. c <= 192 /\ f = 1
        BY <1>3, <2>5, <4>2
      <4>4. Taps(ks) * c * 64 * f <= StreamLimit
        BY <1>5, <2>1, <4>3, SMT DEF StreamLimit
      <4> QED  BY <1>10, <1>11, <4>4 DEF p
    <3> QED  BY <3>2, <3>3
  <2> QED  BY <1>2, <2>2, <2>3, <2>4, <2>5
<1>14. CASE ~s.depthwise /\ k = 9
  <2>1. Taps(ks) = 81 /\ bits = 16 /\ f = 1 /\ cpa = 8
    BY <1>3, <1>4, <1>6, <1>14
  <2>2. a \in Nat /\ a <= 16 /\ c = quad_atoms(a) * 8
    BY <1>1, <1>6, <1>7, <1>8, <1>14, <2>1 DEF Max2, div_ceil
  <2>3. c <= 112 \/ c = 128
    BY <2>2 DEF quad_atoms
  <2>4. CASE c <= 112
    <3>1. Taps(ks) * c * 64 * f <= StreamLimit
      BY <1>5, <2>1, <2>4, SMT DEF StreamLimit
    <3> QED  BY <1>10, <1>11, <3>1 DEF p
  <2>5. CASE c = 128
    <3>1. p = streamed_weight_bank_preference(128, ks, 16)
      BY <2>1, <2>5 DEF p
    <3>2. streamed_weight_bank_preference_for_group(128, ks, 2, 16) = 11
      BY <2>1, SMT DEF streamed_weight_bank_preference_for_group, Max2, div_ceil,
                       CBUF_ENTRIES_PER_BANK, CBUF_BANK_BYTES, CBUF_ENTRY_BYTES
    <3>3. streamed_weight_bank_preference(128, ks, 16) <= 11
      <4> DEFINE u == streamed_weight_bank_preference_for_group(128, ks, 1, 16)
      <4>1. u \in Nat
        <5> DEFINE x == 128
                   g == 1
                   bits_ == 16
        <5>1. /\ x \in Nat /\ g \in {1, 2} /\ bits_ \in {4, 8, 16, 32} /\ Taps(ks) \in Nat
              /\ u = streamed_weight_bank_preference_for_group(x, ks, g, bits_)
          BY <2>1
        <5> HIDE DEF x, g, bits_, u
        <5> QED  BY <5>1, GroupPreference
      <4> HIDE DEF u
      <4>2. streamed_weight_bank_preference(128, ks, 16) = IF u <= 10 THEN u ELSE 11
        BY <3>2 DEF u, streamed_weight_bank_preference, MAX_UNDIVIDED_WEIGHT_BANKS, CBUF_BANKS
      <4> QED  BY <4>1, <4>2
    <3> QED  BY <1>10, <3>1, <3>3 DEF p
  <2> QED  BY <2>3, <2>4, <2>5
<1>15. CASE ~s.depthwise /\ k = 11
  <2>1. Taps(ks) = 121 /\ bits = 16 /\ f = 1 /\ cpa = 8
    BY <1>3, <1>4, <1>6, <1>15
  <2>2. a \in Nat /\ a <= 8 /\ c = quad_atoms(a) * 8
    BY <1>1, <1>6, <1>7, <1>8, <1>15, <2>1 DEF Max2, div_ceil
  <2>3. c <= 64
    BY <2>2 DEF quad_atoms
  <2>4. Taps(ks) * c * 64 * f <= StreamLimit
    BY <1>5, <2>1, <2>3, SMT DEF StreamLimit
  <2> QED  BY <1>10, <1>11, <2>4 DEF p
<1> QED  BY <1>1, <1>12, <1>13, <1>14, <1>15

(* unstarved_large_kernel_partition: a 7x7, 9x9 or 11x11 kernel within the channel
   limit keeps the captured split, or gets 11 weight banks, and either is enough. *)
LEMMA Unstarved ==
  ASSUME NEW s, NEW ks, Valid(s, ks), NEW k \in {7, 9, 11}, ks = <<k, k>>,
         s.in_channels <= large_kernel_max_in_channels(s.precision, k),
         k # 7 => s.precision = "fp16",
         NEW captured, captured[2] \in 1..11
  PROVE  Enough(s, ks, unstarved_large_kernel_partition(s, ks, captured))
<1> DEFINE P == StreamedPreference(s, ks)
           W == weight_bank_demand(s, ks)
           wb == Min2(Max2(captured[2], P), CBUF_BANKS - 1)
           r == unstarved_large_kernel_partition(s, ks, captured)
<1>1. P \in Nat /\ W \in Nat
  BY Streamed, Demands
<1>2. \/ P <= 11
      \/ s.precision = "int4" /\ ks = <<7, 7>> /\ s.in_channels = 224
  BY LargeKernelStream
<1>3. r = <<CBUF_BANKS - wb, wb>>
  BY DEF unstarved_large_kernel_partition
<1> HIDE DEF P, W
<1>4. wb \in 1..11 /\ (P <= 11 => wb >= P) /\ (~(P <= 11) => wb = 11)
  BY <1>1 DEF Min2, Max2, CBUF_BANKS
<1> HIDE DEF wb
<1>5. r[1] = 12 - wb /\ r[2] = wb
  BY <1>3 DEF CBUF_BANKS
<1> HIDE DEF r
<1>6. r[1] \in 1..11 /\ r[1] + r[2] = 12 /\ (P <= 11 => r[2] >= Min2(W, P))
      /\ (~(P <= 11) => r[2] = 11)
  BY <1>1, <1>4, <1>5 DEF Min2
<1> QED  BY <1>2, <1>6 DEF Enough, CBUF_BANKS, P, W, r

(* Every policy gives the coefficients enough.                             *)
LEMMA Policy ==
  ASSUME NEW s, NEW ks, Valid(s, ks), cbuf_partition(s, ks) # NONE
  PROVE  Enough(s, ks, cbuf_partition(s, ks))
<1> DEFINE demand == try_demand_based_cbuf_partition(s, ks)
           r == cbuf_partition(s, ks)
           W == weight_bank_demand(s, ks)
           Case(k, neutral) == check_large_kernel_plan_case(s, k, neutral)
           Unst(c) == unstarved_large_kernel_partition(s, ks, c)
<1>1. ks[1] \in 1..11 /\ ks[2] \in 1..11 /\ ks = <<ks[1], ks[2]>>
  BY DEF Valid
<1>2. demand # NONE => Enough(s, ks, demand)
  BY DemandBased
<1>3. CASE ks[1] # ks[2]
  <2>1. r = non_square_cbuf_partition(s, ks)
    BY <1>3 DEF cbuf_partition
  <2>2. r = demand \/ r = NONE
    BY <2>1 DEF non_square_cbuf_partition
  <2> QED  BY <1>2, <2>2
<1>4. CASE ks[1] = ks[2] /\ ks[1] \in {1, 3}
  <2>1. r = demand
    <3>1. CASE ks[1] = 1
      BY <1>4, <3>1 DEF cbuf_partition
    <3>2. CASE ks[1] = 3
      BY <1>4, <3>2 DEF cbuf_partition
    <3> QED  BY <1>4, <3>1, <3>2
  <2> QED  BY <1>2, <2>1
<1>5. CASE ks[1] = ks[2] /\ ks[1] \in {2, 4, 6, 8, 10}
  <2>1. r = even_square_cbuf_partition(s, ks)
    <3>1. CASE ks[1] = 2
      BY <1>5, <3>1 DEF cbuf_partition
    <3>2. CASE ks[1] = 4
      BY <1>5, <3>2 DEF cbuf_partition
    <3>3. CASE ks[1] = 6
      BY <1>5, <3>3 DEF cbuf_partition
    <3>4. CASE ks[1] = 8
      BY <1>5, <3>4 DEF cbuf_partition
    <3>5. CASE ks[1] = 10
      BY <1>5, <3>5 DEF cbuf_partition
    <3> QED  BY <1>5, <3>1, <3>2, <3>3, <3>4, <3>5
  <2>2. r = demand \/ r = NONE
    BY <2>1 DEF even_square_cbuf_partition
  <2> QED  BY <1>2, <2>2
<1>6. CASE ks[1] = ks[2] /\ ks[1] = 5
  <2>1. r = IF Case(5, TRUE) THEN demand ELSE NONE
    BY <1>6 DEF cbuf_partition
  <2> HIDE DEF Case
  <2>2. r = demand \/ r = NONE
    BY <2>1
  <2> QED  BY <1>2, <2>2
<1>7. CASE ks[1] = ks[2] /\ ks[1] = 7
  <2>1. r = IF Case(7, TRUE) THEN (IF W <= 7 THEN demand ELSE Unst(<<8, 4>>)) ELSE NONE
    BY <1>7 DEF cbuf_partition
  <2>2. Case(7, TRUE) => s.in_channels <= large_kernel_max_in_channels(s.precision, 7)
    BY DEF check_large_kernel_plan_case
  <2>3. Case(7, TRUE) => Enough(s, ks, Unst(<<8, 4>>))
    <3>1. SUFFICES ASSUME Case(7, TRUE) PROVE Enough(s, ks, Unst(<<8, 4>>))
      OBVIOUS
    <3> DEFINE c == <<8, 4>>
               k == 7
    <3>2. c[2] \in 1..11 /\ k \in {7, 9, 11} /\ ks = <<k, k>> /\ (k # 7 => s.precision = "fp16")
          /\ s.in_channels <= large_kernel_max_in_channels(s.precision, k)
      BY <1>1, <1>7, <2>2, <3>1
    <3> HIDE DEF c, k
    <3>3. Enough(s, ks, Unst(c))
      BY <3>2, Unstarved
    <3> QED  BY <3>3 DEF c
  <2> HIDE DEF Case, Unst
  <2>4. r = demand \/ r = NONE \/ (Case(7, TRUE) /\ r = Unst(<<8, 4>>))
    BY <2>1
  <2> QED  BY <1>2, <2>3, <2>4
<1>8. CASE ks[1] = ks[2] /\ ks[1] = 9
  <2> DEFINE c == IF s.in_channels \in 33..48 THEN <<7, 5>> ELSE <<6, 6>>
             k == 9
  <2>1. r = IF Case(9, FALSE) THEN Unst(c) ELSE NONE
    BY <1>8 DEF cbuf_partition
  <2>2. Case(9, FALSE)
    <3> HIDE DEF Case, Unst, c
    <3> QED  BY <2>1
  <2>3. s.in_channels <= large_kernel_max_in_channels(s.precision, 9) /\ s.precision = "fp16"
    BY <2>2 DEF check_large_kernel_plan_case
  <2>4. c[2] \in 1..11 /\ k \in {7, 9, 11} /\ ks = <<k, k>> /\ (k # 7 => s.precision = "fp16")
        /\ s.in_channels <= large_kernel_max_in_channels(s.precision, k)
    BY <1>1, <1>8, <2>3
  <2> HIDE DEF c, k
  <2>5. Enough(s, ks, Unst(c))
    BY <2>4, Unstarved
  <2> HIDE DEF Case, Unst
  <2>6. r = Unst(c)
    BY <2>1, <2>2
  <2> QED  BY <2>5, <2>6
<1>9. CASE ks[1] = ks[2] /\ ks[1] = 11
  <2> DEFINE c == IF s.in_channels <= 32 THEN <<7, 5>>
                  ELSE IF s.in_channels <= 48 THEN <<5, 7>> ELSE <<3, 9>>
             k == 11
  <2>1. r = IF Case(11, FALSE) THEN Unst(c) ELSE NONE
    BY <1>9 DEF cbuf_partition
  <2>2. Case(11, FALSE)
    <3> HIDE DEF Case, Unst, c
    <3> QED  BY <2>1
  <2>3. s.in_channels <= large_kernel_max_in_channels(s.precision, 11) /\ s.precision = "fp16"
    BY <2>2 DEF check_large_kernel_plan_case
  <2>4. c[2] \in 1..11 /\ k \in {7, 9, 11} /\ ks = <<k, k>> /\ (k # 7 => s.precision = "fp16")
        /\ s.in_channels <= large_kernel_max_in_channels(s.precision, k)
    BY <1>1, <1>9, <2>3
  <2> HIDE DEF c, k
  <2>5. Enough(s, ks, Unst(c))
    BY <2>4, Unstarved
  <2> HIDE DEF Case, Unst
  <2>6. r = Unst(c)
    BY <2>1, <2>2
  <2> QED  BY <2>5, <2>6
<1> QED  BY <1>1, <1>3, <1>4, <1>5, <1>6, <1>7, <1>8, <1>9
-----------------------------------------------------------------------------
(* Chains.                                                                 *)

(* Address a of a packed cube, the byte of its pixel and the dense byte    *)
(* that pack puts there.                                                   *)
Packed(S, N, B, a) ==
  /\ {S, N, B, a} \subseteq Nat /\ S # 0 /\ B # 0 /\ B % 16 = 0
  /\ a <= S * div_ceil(B, 16) * 16 - 1 /\ (a \div 16) % S < N
PackedByte(S, a) == ((a \div 16) \div S) * 16 + (a % 16)
PackedIndex(S, B, a) == ((a \div 16) % S) * B + PackedByte(S, a)

(* What pack puts at address a of a cube comes out of compact at a again,  *)
(* unless a lies in the gap between the pixels and the surface's end.      *)
LEMMA PackCompact ==
  ASSUME NEW S, NEW N, NEW B, NEW a, Packed(S, N, B, a)
  PROVE  /\ PackedByte(S, a) < B /\ PackedIndex(S, B, a) \in 0..(N * B - 1)
         /\ SourceByte(S, 16, PackedIndex(S, B, a) \div B, PackedIndex(S, B, a) % B) = a
<1>0. /\ S \in Nat /\ S # 0 /\ N \in Nat /\ B \in Nat /\ B # 0 /\ B % 16 = 0 /\ a \in Nat
      /\ a <= S * div_ceil(B, 16) * 16 - 1 /\ (a \div 16) % S < N
  BY DEF Packed
<1> USE <1>0
<1> DEFINE atom == a \div 16
           rest == a % 16
           block == atom \div S
           pixel == atom % S
           byte == block * 16 + rest
           d == pixel * B + byte
           n == div_ceil(B, 16)
<1>1. atom \in Nat /\ rest \in Nat /\ rest < 16 /\ a = 16 * atom + rest
  OBVIOUS
<1>2. n \in Nat /\ B = 16 * n
  BY DEF div_ceil
<1> HIDE DEF atom, rest, n
<1>3. block \in Nat /\ pixel \in Nat /\ pixel < S /\ atom = block * S + pixel
  <2>1. block \in Nat /\ pixel \in 0..(S - 1)
    BY <1>1, Quotient
  <2>2. atom = block * S + pixel
    BY <1>1, Remainder
  <2> HIDE DEF block, pixel
  <2> QED  BY <2>1, <2>2
<1>4. pixel < N
  BY DEF atom
<1> HIDE DEF block, pixel
<1>5. block < n
  <2>1. S * n \in Nat /\ S * n * 16 = (S * n) * 16
    BY <1>2
  <2> DEFINE t == S * n
  <2>2. a <= t * 16 - 1 /\ t \in Nat
    BY <2>1 DEF n
  <2> HIDE DEF t
  <2>3. atom < t
    BY <1>1, <2>2
  <2>4. SUFFICES ASSUME ~(block < n) PROVE FALSE
    OBVIOUS
  <2>5. n * S <= block * S /\ n * S = S * n /\ block * S \in Nat
    <3>1. n <= block
      BY <1>2, <1>3, <2>4
    <3> QED  BY <1>2, <1>3, <3>1, ProductMonotone
  <2> QED  BY <1>3, <2>2, <2>3, <2>5 DEF t
<1>6. byte \in Nat /\ byte < B
  BY <1>1, <1>2, <1>3, <1>5
<1>7. byte \div 16 = block /\ byte % 16 = rest
  BY <1>1, <1>3
<1> HIDE DEF byte
<1>8. d \in Nat /\ d \div B = pixel /\ d % B = byte
  <2>1. pixel * B \in Nat
    BY <1>3
  <2>2. d \in Nat
    BY <1>6, <2>1
  <2> HIDE DEF d
  <2>3. d = pixel * B + byte
    BY DEF d
  <2> QED  BY <1>3, <1>6, <2>2, <2>3, QuotientIs
<1>9. d <= N * B - 1
  <2>1. (pixel + 1) * B <= N * B /\ (pixel + 1) * B = pixel * B + B /\ pixel * B \in Nat
        /\ N * B \in Nat
    <3>1. pixel + 1 <= N
      BY <1>3, <1>4
    <3> QED  BY <1>3, <3>1, ProductMonotone
  <2> QED  BY <1>6, <2>1
<1>10. SourceByte(S, 16, d \div B, d % B) = a
  <2> HIDE DEF d
  <2>1. SourceByte(S, 16, pixel, byte) = (block * S + pixel) * 16 + rest
    BY <1>7 DEF SourceByte
  <2>2. (block * S + pixel) * 16 = 16 * atom
    BY <1>1, <1>3
  <2>3. SourceByte(S, 16, pixel, byte) = a
    BY <1>1, <2>1, <2>2
  <2> QED  BY <1>8, <2>3
<1>11. d \in 0..(N * B - 1)
  <2>1. N * B \in Nat
    OBVIOUS
  <2> HIDE DEF d
  <2> QED  BY <1>8, <1>9, <2>1
<1>12. byte = PackedByte(S, a) /\ d = PackedIndex(S, B, a)
  BY DEF d, byte, block, pixel, rest, atom, PackedByte, PackedIndex
<1> HIDE <1>0
<1> QED  BY <1>6, <1>10, <1>11, <1>12

(* A cube that cube_of does not refuse has pixels, and counts them in naturals. *)
LEMMA CubeFacts ==
  ASSUME NEW c \in CubeDescriptors, ~Refused(c)
  PROVE  /\ CubeOf(c).surface_pixel_count \in Nat /\ CubeOf(c).surface_pixel_count # 0
         /\ CubeOf(c).pixel_count \in Nat /\ CubeOf(c).bytes_per_pixel \in Nat
<1>1. /\ c.element_bytes \in Nat /\ c.width \in Nat /\ c.height \in Nat /\ c.channels \in Nat
      /\ c.width # 0 /\ c.height # 0
  BY DEF CubeDescriptors, Refused, CubeRefused
<1> DEFINE n == c.width * c.height
<1>2. n \in Nat /\ n # 0 /\ c.channels * c.element_bytes \in Nat
  BY <1>1
<1>3. /\ CubeOf(c).pixel_count = n /\ CubeOf(c).bytes_per_pixel = c.channels * c.element_bytes
      /\ CubeOf(c).surface_pixel_count = IF is_ppu(c.kind) THEN next_multiple_of(n, 4) ELSE n
  BY DEF CubeOf, cube_geometry
<1> HIDE DEF n
<1>4. next_multiple_of(n, 4) \in Nat /\ next_multiple_of(n, 4) # 0
  <2>1. div_ceil(n, 4) \in Nat /\ div_ceil(n, 4) # 0
    BY <1>2, Ceiling
  <2> QED  BY <2>1 DEF next_multiple_of
<1> QED  BY <1>2, <1>3, <1>4

(* A chain that is allowed is the identity.                                *)
LEMMA ChainFacts ==
  ASSUME NEW p \in CubeDescriptors, NEW c \in CubeDescriptors, ~Refused(p), ~Refused(c),
         chain_identity(CubeOf(p), CubeOf(c))
  PROVE  LET producer == CubeOf(p)
             consumer == CubeOf(c)
             dense == compact_atomic_output(producer.surface_pixel_count, producer.pixel_count,
                                            producer.bytes_per_pixel, FEATURE_ATOM_BYTES)
             cube == pack_nhwc_to_nc1hwc2_padded(consumer.surface_pixel_count,
                                                 consumer.bytes_per_pixel,
                                                 consumer.packed_bytes_per_pixel)
             Gap(a) == (a \div FEATURE_ATOM_BYTES) % consumer.surface_pixel_count
                         >= consumer.pixel_count
         IN  \A a \in DOMAIN cube : Gap(a) \/ (cube[a] \in DOMAIN dense /\ dense[cube[a]] = a)
<1> DEFINE S == CubeOf(c).surface_pixel_count
           N == CubeOf(c).pixel_count
           B == CubeOf(c).bytes_per_pixel
           dense == compact_atomic_output(S, N, B, 16)
           cube == pack_nhwc_to_nc1hwc2_padded(S, B, B)
<1>1. /\ CubeOf(p).surface_pixel_count = S /\ CubeOf(p).pixel_count = N
      /\ CubeOf(p).bytes_per_pixel = B /\ CubeOf(c).packed_bytes_per_pixel = B
      /\ B # 0 /\ B % 16 = 0
  BY DEF chain_identity, can_chain, is_whole_atom, FEATURE_ATOM_BYTES
<1>2. S \in Nat /\ S # 0 /\ N \in Nat /\ B \in Nat
  BY CubeFacts
<1> HIDE DEF S, N, B
<1> DEFINE size == S * div_ceil(B, 16) * 16
<1>3. /\ dense = [d \in 0..(N * B - 1) |-> SourceByte(S, 16, d \div B, d % B)]
      /\ cube = [a \in 0..(size - 1) |->
                    IF PackedByte(S, a) < B THEN PackedIndex(S, B, a) ELSE ZERO]
  BY DEF PackedByte, PackedIndex, compact_atomic_output, pack_nhwc_to_nc1hwc2_padded, nc1hwc2_storage_size, FEATURE_ATOM_BYTES
<1> HIDE DEF dense, cube
<1>4. size \in Nat
  <2>1. div_ceil(B, 16) \in Nat
    BY <1>2, Ceiling
  <2> QED  BY <1>2, <2>1
<1>5. ASSUME NEW a \in DOMAIN cube, ~((a \div 16) % S >= N)
      PROVE  cube[a] \in DOMAIN dense /\ dense[cube[a]] = a
  <2>1. a \in 0..(size - 1) /\ a \in Nat /\ a <= size - 1
    BY <1>3, <1>4
  <2>2. (a \div 16) % S < N
    <3>1. a \div 16 \in Nat
      BY <2>1
    <3> DEFINE x == a \div 16
    <3> HIDE DEF x
    <3>2. x \in Nat
      BY <3>1 DEF x
    <3>3. (x % S) \in 0..(S - 1)
      BY <1>2, <3>2, Quotient
    <3>4. (x % S) \in Nat
      BY <1>2, <3>3
    <3>5. ~((x % S) >= N)
      BY <1>5 DEF x
    <3>6. (x % S) < N
      BY <1>2, <3>4, <3>5
    <3> QED  BY <3>6 DEF x
  <2>3. Packed(S, N, B, a)
    <3>1. S \in Nat /\ S # 0 /\ N \in Nat /\ B \in Nat /\ B # 0 /\ B % 16 = 0 /\ a \in Nat
      BY <1>1, <1>2, <2>1
    <3> HIDE DEF size
    <3>2. a <= S * div_ceil(B, 16) * 16 - 1
      BY <2>1 DEF size
    <3> QED  BY <3>1, <3>2, <2>2, Zenon DEF Packed
  <2>4. /\ PackedByte(S, a) < B /\ PackedIndex(S, B, a) \in 0..(N * B - 1)
        /\ SourceByte(S, 16, PackedIndex(S, B, a) \div B, PackedIndex(S, B, a) % B) = a
    BY <2>3, PackCompact
  <2>5. cube[a] = PackedIndex(S, B, a)
    BY <1>3, <2>1, <2>4
  <2> QED  BY <1>3, <2>4, <2>5
<1>6. \A a \in DOMAIN cube : (a \div 16) % S >= N \/ (cube[a] \in DOMAIN dense /\ dense[cube[a]] = a)
  BY <1>5
<1> QED  BY <1>1, <1>6 DEF S, N, B, dense, cube, FEATURE_ATOM_BYTES
-----------------------------------------------------------------------------
(* The scratch of staged tiles.                                            *)

(* accumulator_output_layout: the tiles' scratch ranges end where the scratch does. *)
LEMMA StagedFills ==
  ASSUME NEW s, NEW ks, Valid(s, ks), NEW d, NEW ts, GoodTiles(s, ks, d, ts)
  PROVE  ScratchEnd(accumulator_output_layout(s, ks, ts)) = output_scratch_bytes(s, ks)
<1> DEFINE oh == output_height(s, ks)
           ow == output_width(s, ks)
           blocks == output_blocks_per_pixel(s)
           atom == output_atom_bytes(s)
           px == blocks * atom
           n == Len(ts)
           bytes == [i \in 1..n |-> ts[i].rows.out_rows * ts[i].columns.out_cols * px]
           entries == accumulator_output_layout(s, ks, ts)
<1>1. oh \in Nat /\ oh # 0 /\ ow \in Nat /\ ow # 0
  BY Extents
<1>2. blocks \in Nat /\ atom \in Nat
  <2>1. /\ s.precision \in Precisions /\ s.out_channels \in Nat /\ s.depthwise \in BOOLEAN
        /\ precision_out_channel_granule(s.precision) \in Nat \ {0}
    <3>1. s.precision \in Precisions /\ s.out_channels \in Nat /\ s.depthwise \in BOOLEAN
      BY DEF Valid
    <3>2. channels_per_atom(s.precision) \in Nat \ {0}
      BY <3>1, PrecisionFacts
    <3> QED  BY <3>1, <3>2 DEF precision_out_channel_granule
  <2>2. output_element_bytes(s.precision) \in Nat \ {0}
    BY <2>1 DEF output_element_bytes, Precisions
  <2>3. output_channel_block_bytes(s) \in Nat \ {0}
    BY <2>1, <2>2 DEF output_channel_block_bytes, FEATURE_ATOM_BYTES
  <2>4. atom \in Nat \ {0}
    BY <2>3 DEF output_atom_bytes
  <2> HIDE DEF atom
  <2>5. out_channel_granule(s) \in Nat \ {0}
    BY <2>1 DEF out_channel_granule
  <2>6. padded_out_channels(s) \in Nat
    <3> DEFINE g == out_channel_granule(s)
    <3> HIDE DEF g
    <3>1. g \in Nat /\ g # 0
      BY <2>5 DEF g
    <3>2. div_ceil(s.out_channels, g) \in Nat
      BY <2>1, <3>1, Ceiling
    <3>3. next_multiple_of(s.out_channels, g) \in Nat
      BY <3>1, <3>2 DEF next_multiple_of
    <3> QED  BY <3>1, <3>3 DEF padded_out_channels, Max2, g
  <2>7. blocks \in Nat
    <3> DEFINE bits == padded_out_channels(s) * output_element_bytes(s.precision)
    <3>1. bits \in Nat
      BY <2>2, <2>6
    <3>2. blocks = div_ceil(bits, atom)
      BY DEF output_blocks_per_pixel, atom
    <3> HIDE DEF bits, blocks
    <3> QED  BY <2>4, <3>1, <3>2, Ceiling
  <2> QED  BY <2>4, <2>7
<1>3. output_scratch_bytes(s, ks) = ow * oh * blocks * atom
  BY DEF output_scratch_bytes
<1> HIDE DEF blocks, atom
<1>4. px \in Nat
  BY <1>2
<1>5. /\ ts \in Seq(TileSet) /\ n \in Nat /\ SumOf(Areas(ts)) = ow * oh
      /\ Areas(ts) \in Seq(Nat) /\ Len(Areas(ts)) = n
  <2>1. ts \in Seq(TileSet) /\ SumOf(Areas(ts)) = ow * oh
    BY DEF GoodTiles, Covers
  <2>2. Areas(ts) \in Seq(Nat) /\ Len(Areas(ts)) = n
    BY <2>1, AreaFacts
  <2>3. n \in Nat
    BY <2>1
  <2> QED  BY <2>1, <2>2, <2>3
<1>6. /\ entries = ScratchRanges(ts, px)
      /\ entries = [i \in 1..n |->
             [scratch_offset |-> PartialSums(bytes)[i - 1], scratch_bytes |-> bytes[i],
              output_row |-> ts[i].rows.out_first, output_column |-> ts[i].columns.out_first,
              output_rows |-> ts[i].rows.out_rows, output_columns |-> ts[i].columns.out_cols]]
  BY DEF accumulator_output_layout, ScratchRanges, blocks, atom
<1> HIDE DEF px, oh, ow, n
<1>7. bytes = [i \in 1..n |-> Areas(ts)[i] * px]
  <2>1. \A i \in 1..n : Areas(ts)[i] = ts[i].rows.out_rows * ts[i].columns.out_cols
    BY DEF Areas, Area, n
  <2> QED  BY <2>1
<1>8. bytes \in Seq(Nat) /\ Len(bytes) = n
  <2> DEFINE v == Areas(ts)
  <2>1. v \in Seq(Nat) /\ Len(v) = n
    BY <1>5
  <2> HIDE DEF v
  <2>2. \A i \in 1..n : v[i] \in Nat
    BY <2>1
  <2>3. \A i \in 1..n : v[i] * px \in Nat
    BY <1>4, <2>2
  <2>4. bytes = [i \in 1..n |-> v[i] * px]
    BY <1>7 DEF v
  <2> QED  BY <1>5, <2>3, <2>4
<1> HIDE DEF bytes
<1>9. SumOf(bytes) = ow * oh * px
  <2>1. bytes = [i \in 1..Len(Areas(ts)) |-> Areas(ts)[i] * px]
    BY <1>5, <1>7
  <2>2. SumOf(bytes) = SumOf(Areas(ts)) * px
    BY <1>4, <1>5, <2>1, SumScaled
  <2> QED  BY <1>5, <2>2
<1>10. /\ PartialSums(bytes)[0] = 0
       /\ \A i \in 1..n : PartialSums(bytes)[i] = PartialSums(bytes)[i - 1] + bytes[i]
  BY <1>8, Sums
<1>11. n # 0
  <2>1. SUFFICES ASSUME n = 0 PROVE FALSE
    OBVIOUS
  <2>2. PartialSums(Areas(ts))[0] = 0
    BY <1>5, Sums
  <2>3. ow * oh = 0
    BY <1>5, <2>1, <2>2 DEF SumOf
  <2> QED  BY <1>1, <2>3
<1>12. DOMAIN entries = 1..n /\ Len(entries) = n
  BY <1>5, <1>6
<1>13. ScratchEnd(entries) = PartialSums(bytes)[n - 1] + bytes[n]
  <2>1. n \in 1..n
    BY <1>5, <1>11
  <2>2. /\ entries[n].scratch_offset = PartialSums(bytes)[n - 1]
        /\ entries[n].scratch_bytes = bytes[n]
    BY <1>6, <2>1
  <2> HIDE DEF entries
  <2> QED  BY <1>12, <2>2 DEF ScratchEnd
<1>14. ScratchEnd(entries) = SumOf(bytes)
  <2>1. n \in 1..n
    BY <1>5, <1>11
  <2> QED  BY <1>8, <1>10, <1>13, <2>1 DEF SumOf
<1>15. ow * oh * px = ow * oh * blocks * atom
  <2>1. ow * oh * (blocks * atom) = ow * oh * blocks * atom
    <3> DEFINE m == ow * oh
    <3>1. m \in Nat
      BY <1>1
    <3> HIDE DEF m
    <3>2. m * (blocks * atom) = m * blocks * atom
      BY <1>2, <3>1
    <3> QED  BY <3>2 DEF m
  <2> QED  BY <2>1 DEF px
<1> QED  BY <1>3, <1>9, <1>14, <1>15
-----------------------------------------------------------------------------
(* The states of the planner.                                              *)

(* A call whose descriptor passed every check.                             *)
Served ==
  /\ call \in Calls /\ call.entry \in Plans
  /\ shape = Described /\ DescribeCode = "ok" /\ CheckCode = "ok"

(* The split granted to it.                                                *)
Granted ==
  /\ banks[1] \in 1..11 /\ banks[1] + banks[2] = CBUF_BANKS
  /\ call.entry # "banks" =>
       \/ banks[2] >= Min2(weight_bank_demand(shape, kernels), StreamedPreference(shape, kernels))
       \/ OverStreamed /\ banks[2] = CBUF_BANKS - 1

(* A chain that was allowed.                                               *)
Allowed ==
  /\ call \in Calls /\ ~Refused(call.producer) /\ ~Refused(call.consumer)
  /\ chain_identity(CubeOf(call.producer), CubeOf(call.consumer))

Captured == captured_column_partition(shape, kernels) # NONE

(* What each stage has established.                                        *)
StagesAre ==
  /\ stage = "called" => call \in Calls
  /\ stage = "described" =>
       call \in Calls /\ call.entry # "chain" /\ shape = Described /\ DescribeCode = "ok"
  /\ stage \in {"checked", "partitioned", "columns", "planned", "programs"} => Served
  /\ stage \in {"idle", "called", "described", "checked"} => banks = NONE
  /\ stage \in {"idle", "called", "described", "checked", "partitioned", "columns"} => tiles = NONE
  /\ stage \in {"partitioned", "columns", "planned", "programs"} => banks # NONE
  /\ stage \in {"planned", "programs"} => tiles # NONE
  /\ columns \in Nat \ {0}

(* Its results, which stay until the call returns.                         *)
ResultsAre ==
  /\ banks # NONE => Served /\ Granted
  /\ tiles # NONE => banks # NONE /\ GoodTiles(shape, kernels, banks[1], tiles)

(* Its answers.                                                            *)
AnswersAre ==
  /\ stage # "returned" => status = "none"
  /\ status = "ok" /\ call.entry = "chain" => Allowed
  /\ status = "Internal" => Captured

PlannerInv == StagesAre /\ ResultsAre /\ AnswersAre

(* What check_extents_against let through is valid for every later stage. *)
LEMMA ServedValid == Served => Valid(shape, kernels)
<1>1. SUFFICES ASSUME Served PROVE Valid(shape, kernels)
  OBVIOUS
<1> DEFINE s == shape
           k == KernelOf(s, kernels)
<1>2. /\ call.entry \in {"conv", "matmul", "banks"}
      /\ {call.width, call.height, call.stride, call.in_channels, call.out_channels} \subseteq Nat
      /\ call.precision \in Precisions /\ call.depthwise \in BOOLEAN
      /\ kernels \in Nat \X Nat /\ call.pad \in Int \X Int
      /\ call.entry = "matmul" => kernels = <<1, 1>>
  BY <1>1, CallsAssumption DEF Served, Plans, kernels
<1>3. s = Described
  BY <1>1 DEF Served
<1>4. /\ try_with_precision(s, call.zero_point) = "ok"
      /\ s.padding # <<>> => ~(\E i \in 1..2 : s.padding[i] < 0)
      /\ s.depthwise => try_with_depthwise(s) = "ok"
  <2>1. DescribeCode = "ok"
    BY <1>1 DEF Served
  <2> HIDE DEF s
  <2> QED  BY <1>3, <2>1 DEF DescribeCode
<1>5. /\ s.width \in Nat /\ s.height \in Nat /\ s.stride \in Nat /\ s.in_channels \in Nat
      /\ s.out_channels \in Nat /\ s.precision \in Precisions /\ s.depthwise \in BOOLEAN
      /\ s.padding = <<>> \/ (s.padding \in Int \X Int /\ s.padding # <<>>)
  <2>1. CASE call.entry = "matmul"
    <3>1. s = as_conv_shape(call.width, call.in_channels, call.out_channels, call.precision,
                            call.activation)
      BY <1>3, <2>1 DEF Described
    <3> QED  BY <1>2, <3>1 DEF as_conv_shape
  <2>2. CASE call.entry \in {"conv", "banks"}
    <3>1. /\ s.width = call.width /\ s.height = call.height /\ s.stride = call.stride
          /\ s.in_channels = call.in_channels /\ s.out_channels = call.out_channels
          /\ s.precision = call.precision /\ s.depthwise = call.depthwise
          /\ s.padding = IF call.pad = <<-1, -1>> THEN <<>> ELSE call.pad
      BY <1>3, <2>2 DEF Described
    <3> HIDE DEF s
    <3>2. call.pad # <<>>
      <4> DEFINE q == call.pad
      <4>1. q \in Int \X Int
        BY <1>2
      <4> HIDE DEF q
      <4>2. q = <<q[1], q[2]>>
        BY <4>1
      <4>3. Len(q) = 2 /\ Len(<<>>) = 0
        BY <4>2
      <4>4. q # <<>>
        BY <4>3
      <4> QED  BY <4>4 DEF q
    <3> QED  BY <1>2, <3>1, <3>2
  <2> QED  BY <1>2, <2>1, <2>2
<1>6. /\ try_kernel_programming(kernels, s.padding) = "ok"
      /\ check_extents_against(s, k) = "ok"
  <2>1. CheckCode = "ok"
    BY <1>1 DEF Served
  <2> QED  BY <2>1 DEF CheckCode
<1> HIDE DEF s
<1>7. /\ s.width # 0 /\ s.height # 0 /\ s.stride # 0 /\ s.in_channels # 0 /\ s.out_channels # 0
      /\ s.in_channels <= MAX_CHANNELS
      /\ s.precision = "int4" => s.in_channels % 32 = 0
  BY <1>4, <1>5 DEF try_with_precision, max_in_channels, FEATURE_ATOM_BYTES, MAX_CHANNELS
<1>8. s.depthwise => element_bits(s.precision) \in {8, 16}
  BY <1>4 DEF try_with_depthwise
<1>9. /\ k.height = kernels[1] /\ k.width = kernels[2]
      /\ k.pad_top = IF s.padding = <<>> THEN kernels[1] \div 2 ELSE s.padding[1]
      /\ k.pad_left = IF s.padding = <<>> THEN kernels[2] \div 2 ELSE s.padding[2]
  BY DEF KernelOf, kernel_programming
<1>10. k = kernel_programming(kernels, s.padding)
  BY DEF KernelOf
<1> HIDE DEF k
<1>11. /\ k.height \in 1..11 /\ k.width \in 1..11
       /\ ~(k.pad_top >= k.height) /\ ~(k.pad_left >= k.width)
  BY <1>6, <1>10 DEF try_kernel_programming
<1>12. k.pad_top \in Nat /\ k.pad_left \in Nat
  <2>1. CASE s.padding = <<>>
    <3>1. kernels[1] \in Nat /\ kernels[2] \in Nat
      BY <1>2
    <3> QED  BY <1>9, <2>1, <3>1
  <2>2. CASE s.padding # <<>>
    <3>1. s.padding[1] \in Int /\ s.padding[2] \in Int
      BY <1>5, <2>2
    <3>2. ~(s.padding[1] < 0) /\ ~(s.padding[2] < 0)
      BY <1>4, <2>2
    <3> QED  BY <1>9, <2>2, <3>1, <3>2
  <2> QED  BY <2>1, <2>2
<1>13. ~(k.width > s.width + 2 * k.pad_left) /\ ~(k.height > s.height + 2 * k.pad_top)
  BY <1>6 DEF check_extents_against
<1>14. kernels = <<k.height, k.width>>
  BY <1>2, <1>9
<1>15. /\ k.pad_top < k.height /\ k.pad_left < k.width
       /\ k.height <= s.height + 2 * k.pad_top /\ k.width <= s.width + 2 * k.pad_left
  <2> DEFINE h == k.height
             w == k.width
             top == k.pad_top
             left == k.pad_left
             H == s.height
             W == s.width
  <2>1. h \in Nat /\ w \in Nat /\ top \in Nat /\ left \in Nat /\ H \in Nat /\ W \in Nat
    BY <1>5, <1>11, <1>12
  <2>2. ~(top >= h) /\ ~(left >= w)
    BY <1>11
  <2>3. ~(w > W + 2 * left) /\ ~(h > H + 2 * top)
    BY <1>13
  <2> HIDE DEF h, w, top, left, H, W
  <2>4. top < h /\ left < w /\ h <= H + 2 * top /\ w <= W + 2 * left
    BY <2>1, <2>2, <2>3
  <2> QED  BY <2>4 DEF h, w, top, left, H, W
<1>16. Valid(s, kernels)
  BY <1>5, <1>7, <1>8, <1>11, <1>12, <1>14, <1>15 DEF Valid, k
<1> QED  BY <1>16 DEF s

(* The refusals of the checks.                                             *)
LEMMA Codes ==
  /\ DescribeCode # "Internal" /\ CheckCode # "Internal"
  /\ PackCode(shape, kernels) # "Internal"
  /\ call.entry = "banks" /\ CheckCode = "ok" =>
       call.banks[1] # 0 /\ call.banks[2] # 0 /\ call.banks[1] + call.banks[2] = CBUF_BANKS
<1> DEFINE s == Described
           k == KernelOf(shape, kernels)
<1>1. try_with_precision(s, call.zero_point) # "Internal"
  BY DEF try_with_precision
<1>2. try_with_padding(s.padding) # "Internal"
  BY DEF try_with_padding
<1>3. try_with_activation(s.precision, s.activation) # "Internal"
  BY DEF try_with_activation
<1>4. try_with_depthwise(s) # "Internal"
  BY DEF try_with_depthwise
<1>5. try_kernel_programming(kernels, shape.padding) # "Internal"
  BY DEF try_kernel_programming
<1>6. check_extents_against(shape, k) # "Internal"
  BY DEF check_extents_against
<1>7. try_weight_bytes(shape, kernels) # "Internal"
  BY DEF try_weight_bytes
<1>8. DescribeCode # "Internal"
  <2> HIDE DEF s
  <2> QED  BY <1>1, <1>2, <1>3, <1>4 DEF DescribeCode, s
<1>9. CheckCode # "Internal"
  BY <1>5, <1>6, <1>7 DEF CheckCode
<1>10. PackCode(shape, kernels) # "Internal"
  BY <1>5, <1>7 DEF PackCode
<1>11. call.entry = "banks" /\ CheckCode = "ok" =>
         call.banks[1] # 0 /\ call.banks[2] # 0 /\ call.banks[1] + call.banks[2] = CBUF_BANKS
  BY DEF CheckCode
<1> QED  BY <1>8, <1>9, <1>10, <1>11

(* What a step leaves alone.                                               *)
LEMMA SameCall ==
  ASSUME call' = call
  PROVE  Described' = Described /\ DescribeCode' = DescribeCode /\ kernels' = kernels /\ Allowed' = Allowed
<1>1. Described' = Described
  BY DEF Described
<1>2. DescribeCode' = DescribeCode
  BY <1>1 DEF DescribeCode
<1>3. kernels' = kernels
  BY DEF kernels
<1>4. Allowed' = Allowed
  BY DEF Allowed
<1> QED  BY <1>1, <1>2, <1>3, <1>4

(* Frame of the steps after the checks: the shape stays. *)
LEMMA SameShape ==
  ASSUME call' = call, shape' = shape
  PROVE  CheckCode' = CheckCode /\ Served' = Served /\ Captured' = Captured
<1>1. kernels' = kernels
  BY SameCall
<1>2. CheckCode' = CheckCode
  BY <1>1 DEF CheckCode
<1>3. Served' = Served
  BY <1>2, SameCall DEF Served
<1>4. Captured' = Captured
  BY <1>1 DEF Captured
<1> QED  BY <1>2, <1>3, <1>4

(* Frame of the steps after the partition: shape and banks stay. *)
LEMMA SameBanks ==
  ASSUME call' = call, shape' = shape, banks' = banks
  PROVE  /\ (Served /\ Granted)' = (Served /\ Granted)
         /\ \A ts : (GoodTiles(shape, kernels, banks[1], ts))' = GoodTiles(shape, kernels, banks[1], ts)
<1>1. kernels' = kernels
  BY SameCall
<1>2. OverStreamed' = OverStreamed
  BY <1>1 DEF OverStreamed
<1>3. Granted' = Granted
  BY <1>1, <1>2 DEF Granted
<1> QED  BY <1>1, <1>3, SameShape
-----------------------------------------------------------------------------
(* The steps of the planner.                                               *)

(* Returning a code: ok on the chain entry only for an identity chain, Internal only
   for a captured column partition. *)
LEMMA FinishKeeps ==
  ASSUME PlannerInv, NEW code, Finish(code),
         code = "ok" /\ call.entry = "chain" => Allowed,
         code = "Internal" => Captured
  PROVE  PlannerInv'
<1>1. /\ stage' = "returned" /\ status' = code /\ call' = call /\ shape' = shape
      /\ banks' = banks /\ columns' = columns /\ tiles' = tiles
  BY DEF Finish
<1>2. StagesAre'
  BY <1>1 DEF PlannerInv, StagesAre
<1>3. ResultsAre'
  BY <1>1, SameBanks DEF PlannerInv, ResultsAre
<1>4. AnswersAre'
  BY <1>1, SameCall, SameShape DEF PlannerInv, AnswersAre
<1> QED  BY <1>2, <1>3, <1>4 DEF PlannerInv

(* Entering a call of the C interface. *)
LEMMA CallKeeps ==
  ASSUME PlannerInv, NEW c \in Calls, Call(c)
  PROVE  PlannerInv'
<1>1. /\ stage = "idle" /\ stage' = "called" /\ call' = c /\ shape' = shape /\ status' = status
      /\ banks' = banks /\ columns' = columns /\ tiles' = tiles
  BY DEF Call
<1>2. banks = NONE /\ tiles = NONE /\ status = "none"
  BY <1>1 DEF PlannerInv, StagesAre, AnswersAre
<1>3. StagesAre'
  BY <1>1, <1>2 DEF PlannerInv, StagesAre
<1>4. ResultsAre'
  BY <1>1, <1>2 DEF ResultsAre
<1>5. AnswersAre'
  BY <1>1, <1>2 DEF AnswersAre
<1> QED  BY <1>3, <1>4, <1>5 DEF PlannerInv

(* The shape entries of the C interface. *)
LEMMA DescribeKeeps ==
  ASSUME PlannerInv, Describe
  PROVE  PlannerInv'
<1>1. stage = "called" /\ call.entry # "chain" /\ call \in Calls /\ banks = NONE /\ tiles = NONE
      /\ status = "none"
  BY DEF Describe, PlannerInv, StagesAre, AnswersAre
<1>2. CASE DescribeCode = "ok"
  <2>1. /\ shape' = Described /\ stage' = "described" /\ call' = call /\ status' = status
        /\ banks' = banks /\ columns' = columns /\ tiles' = tiles
    BY <1>2 DEF Describe
  <2>2. Described' = Described /\ DescribeCode' = DescribeCode
    BY <2>1, SameCall
  <2>3. StagesAre'
    BY <1>1, <1>2, <2>1, <2>2 DEF PlannerInv, StagesAre
  <2>4. ResultsAre'
    BY <1>1, <2>1 DEF ResultsAre
  <2>5. AnswersAre'
    BY <1>1, <2>1 DEF AnswersAre
  <2> QED  BY <2>3, <2>4, <2>5 DEF PlannerInv
<1>3. CASE DescribeCode # "ok"
  <2>1. Finish(DescribeCode)
    BY <1>3 DEF Describe
  <2> QED  BY <1>1, <2>1, Codes, FinishKeeps
<1> QED  BY <1>2, <1>3

(* rocket_pack_filters and its fp16 twin. *)
LEMMA PackKeeps ==
  ASSUME PlannerInv, Pack
  PROVE  PlannerInv'
<1>1. Finish(PackCode(shape, kernels)) /\ call.entry # "chain"
  BY DEF Pack
<1> QED  BY <1>1, Codes, FinishKeeps

(* rocket_cube_chain_is_identity compares two cubes. *)
LEMMA ChainKeeps ==
  ASSUME PlannerInv, Chain
  PROVE  PlannerInv'
<1> DEFINE code == IF Refused(call.producer) \/ Refused(call.consumer) THEN "InvalidShape"
                   ELSE IF chain_identity(CubeOf(call.producer), CubeOf(call.consumer)) THEN "ok"
                   ELSE "LayoutMismatch"
<1>1. stage = "called" /\ call \in Calls /\ Finish(code)
  BY DEF Chain, PlannerInv, StagesAre
<1>2. code # "Internal" /\ (code = "ok" => Allowed)
  BY <1>1 DEF Allowed
<1> HIDE DEF code
<1> QED  BY <1>1, <1>2, FinishKeeps

(* ConvPlan's validation of the descriptor. *)
LEMMA CheckKeeps ==
  ASSUME PlannerInv, Check
  PROVE  PlannerInv'
<1>1. /\ stage = "described" /\ call.entry \in Plans /\ call.entry # "chain" /\ call \in Calls
      /\ shape = Described /\ DescribeCode = "ok" /\ banks = NONE /\ tiles = NONE /\ status = "none"
  BY DEF Check, Plans, PlannerInv, StagesAre, AnswersAre
<1>2. CASE CheckCode = "ok"
  <2>1. /\ stage' = "checked" /\ call' = call /\ shape' = shape /\ status' = status
        /\ banks' = banks /\ columns' = columns /\ tiles' = tiles
    BY <1>2 DEF Check
  <2>2. Served'
    BY <1>1, <1>2, <2>1, SameShape DEF Served
  <2>3. StagesAre'
    BY <1>1, <2>1, <2>2 DEF PlannerInv, StagesAre
  <2>4. ResultsAre'
    BY <1>1, <2>1 DEF ResultsAre
  <2>5. AnswersAre'
    BY <1>1, <2>1 DEF AnswersAre
  <2> QED  BY <2>3, <2>4, <2>5 DEF PlannerInv
<1>3. CASE CheckCode # "ok"
  <2>1. Finish(CheckCode)
    BY <1>3 DEF Check
  <2> QED  BY <1>1, <2>1, Codes, FinishKeeps
<1> QED  BY <1>2, <1>3

(* cbuf_partition, or the caller's explicit split, is one of the splits Policy speaks of. *)
LEMMA PartitionKeeps ==
  ASSUME PlannerInv, Partition
  PROVE  PlannerInv'
<1> DEFINE split_banks == IF call.entry = "banks" THEN call.banks ELSE cbuf_partition(shape, kernels)
<1>1. /\ stage = "checked" /\ Served /\ tiles = NONE /\ status = "none" /\ call.entry # "chain"
  BY DEF Partition, Plans, Served, PlannerInv, StagesAre, AnswersAre
<1>2. CASE split_banks = NONE
  <2>1. Finish("UnvalidatedConfiguration")
    BY <1>2 DEF Partition
  <2> QED  BY <1>1, <2>1, FinishKeeps
<1>3. CASE split_banks # NONE
  <2>1. /\ stage' = "partitioned" /\ call' = call /\ shape' = shape /\ status' = status
        /\ banks' = split_banks /\ columns' = columns /\ tiles' = tiles
    BY <1>3 DEF Partition
  <2>2. banks' # NONE
    BY <1>3, <2>1
  <2>3. Served' /\ kernels' = kernels /\ OverStreamed' = OverStreamed
    <3>1. kernels' = kernels /\ Served'
      BY <1>1, <2>1, SameCall, SameShape
    <3> QED  BY <2>1, <3>1 DEF OverStreamed
  <2>4. Granted'
    <3>1. CASE call.entry = "banks"
      <4> DEFINE b == call.banks
      <4>1. b \in Nat \X Nat /\ b[1] # 0 /\ b[2] # 0 /\ b[1] + b[2] = CBUF_BANKS
        BY <1>1, <3>1, Codes, CallsAssumption DEF Served
      <4>2. banks' = b /\ call'.entry = "banks"
        BY <2>1, <3>1
      <4> HIDE DEF b
      <4>3. b[1] \in 1..11
        BY <4>1 DEF CBUF_BANKS
      <4> QED  BY <4>1, <4>2, <4>3 DEF Granted
    <3>2. CASE call.entry # "banks"
      <4>1. banks' = cbuf_partition(shape, kernels) /\ cbuf_partition(shape, kernels) # NONE
        BY <1>3, <2>1, <3>2
      <4>2. Enough(shape, kernels, banks')
        BY <1>1, <4>1, ServedValid, Policy
      <4> QED  BY <2>1, <2>3, <4>2 DEF Granted, Enough, OverStreamed
    <3> QED  BY <3>1, <3>2
  <2>5. StagesAre'
    BY <1>1, <2>1, <2>2, <2>3 DEF PlannerInv, StagesAre
  <2>6. ResultsAre'
    BY <1>1, <2>1, <2>3, <2>4 DEF ResultsAre
  <2>7. AnswersAre'
    BY <1>1, <2>1 DEF AnswersAre
  <2> QED  BY <2>5, <2>6, <2>7 DEF PlannerInv
<1> QED  BY <1>2, <1>3

(* Good tiles cover the image, so that there is one.                       *)
LEMMA GoodIsSome ==
  ASSUME NEW s, NEW ks, Valid(s, ks), NEW d, NEW ts, GoodTiles(s, ks, d, ts)
  PROVE  ts # NONE
<1> DEFINE oh == output_height(s, ks)
           ow == output_width(s, ks)
<1>1. oh \in Nat /\ oh # 0 /\ ow \in Nat /\ ow # 0
  BY Extents
<1>2. SumOf(Areas(ts)) = ow * oh
  BY DEF GoodTiles, Covers
<1> HIDE DEF oh, ow
<1>3. SUFFICES ASSUME ts = NONE PROVE FALSE
  OBVIOUS
<1>4. Areas(ts) = <<>>
  BY <1>3 DEF Areas, NONE
<1>5. SumOf(Areas(ts)) = 0
  <2>1. <<>> \in Seq(Nat) /\ Len(<<>>) = 0
    OBVIOUS
  <2> QED  BY <1>4, <2>1, Sums DEF SumOf
<1> QED  BY <1>1, <1>2, <1>5

(* A plan of good tiles.                                                   *)
LEMMA PlanKeeps ==
  ASSUME PlannerInv, stage \in {"partitioned", "columns"}, NEW ts, Plan(ts), ts # NONE,
         GoodTiles(shape, kernels, banks[1], ts)
  PROVE  PlannerInv'
<1>1. Served /\ banks # NONE /\ Granted /\ status = "none"
  BY DEF PlannerInv, StagesAre, ResultsAre, AnswersAre
<1>2. /\ stage' = "planned" /\ call' = call /\ shape' = shape /\ status' = status
      /\ banks' = banks /\ columns' = columns /\ tiles' = ts
  BY DEF Plan
<1>3. Served' /\ Granted' /\ kernels' = kernels
  BY <1>1, <1>2, SameBanks, SameCall
<1>4. StagesAre'
  BY <1>1, <1>2, <1>3 DEF PlannerInv, StagesAre
<1>5. ResultsAre'
  BY <1>1, <1>2, <1>3 DEF ResultsAre
<1>6. AnswersAre'
  BY <1>1, <1>2 DEF AnswersAre
<1> QED  BY <1>4, <1>5, <1>6 DEF PlannerInv

(* A search that goes on.                                                  *)
LEMMA SearchKeeps ==
  ASSUME PlannerInv, stage \in {"partitioned", "columns"}, stage' = "columns",
         columns' \in Nat \ {0}, UNCHANGED <<call, status, shape, banks, tiles>>
  PROVE  PlannerInv'
<1>1. Served /\ banks # NONE /\ Granted /\ status = "none" /\ tiles = NONE
  BY DEF PlannerInv, StagesAre, ResultsAre, AnswersAre
<1>2. Served' /\ Granted'
  BY <1>1, SameBanks
<1>3. StagesAre'
  BY <1>1, <1>2 DEF PlannerInv, StagesAre
<1>4. ResultsAre'
  BY <1>1, <1>2 DEF ResultsAre
<1>5. AnswersAre'
  BY <1>1 DEF AnswersAre
<1> QED  BY <1>3, <1>4, <1>5 DEF PlannerInv

(* The first attempt of ConvPlan::try_new: the captured columns, or the full width. *)
LEMMA FullWidthKeeps ==
  ASSUME PlannerInv, FullWidth
  PROVE  PlannerInv'
<1> DEFINE d == banks[1]
           ow == output_width(shape, kernels)
           full == plan_grid(shape, kernels, <<ow>>, d)
           captured == captured_column_partition(shape, kernels)
           cut == grid(shape, kernels, captured, d)
<1>1. /\ stage = "partitioned" /\ Served /\ banks # NONE /\ Granted /\ call.entry # "chain"
      /\ d \in Nat
  BY DEF FullWidth, Granted, Plans, Served, PlannerInv, StagesAre, ResultsAre
<1>2. Valid(shape, kernels)
  BY <1>1, ServedValid
<1>3. ow \in Nat /\ ow # 0
  BY <1>2, Extents
<1>4. CASE full # NONE
  <2>1. Plan(full)
    BY <1>4 DEF FullWidth
  <2>2. <<ow>> \in Widths(ow)
    BY <1>3, FullWidths
  <2>3. GoodTiles(shape, kernels, d, full)
    <3> HIDE DEF d
    <3> QED  BY <1>1, <1>2, <1>4, <2>2, PlanGridGood
  <2> HIDE DEF full
  <2> QED  BY <1>1, <1>4, <2>1, <2>3, PlanKeeps
<1>5. CASE full = NONE /\ layout(shape) = "Dense"
  <2>1. Finish("UnvalidatedConfiguration")
    BY <1>5 DEF FullWidth
  <2> QED  BY <1>1, <2>1, FinishKeeps
<1>6. CASE full = NONE /\ layout(shape) # "Dense" /\ captured # NONE
  <2>1. CASE grid_fits(shape, kernels, cut, d)
    <3>1. Plan(cut)
      BY <1>6, <2>1 DEF FullWidth
    <3>2. captured \in Widths(ow)
      BY <1>6, CapturedWidths
    <3>3. GoodTiles(shape, kernels, d, cut)
      <4> HIDE DEF d, captured
      <4> QED  BY <1>1, <1>2, <2>1, <3>2, CapturedGridGood
    <3>4. cut # NONE
      <4> HIDE DEF cut
      <4> QED  BY <1>2, <3>3, GoodIsSome
    <3> HIDE DEF cut
    <3> QED  BY <1>1, <3>1, <3>3, <3>4, PlanKeeps
  <2>2. CASE ~grid_fits(shape, kernels, cut, d)
    <3>1. Finish("Internal")
      BY <1>6, <2>2 DEF FullWidth
    <3>2. Captured
      BY <1>6 DEF Captured
    <3> QED  BY <3>1, <3>2, FinishKeeps
  <2> QED  BY <2>1, <2>2
<1>7. CASE full = NONE /\ layout(shape) # "Dense" /\ captured = NONE
  <2>1. /\ columns' = 2 /\ stage' = "columns"
        /\ UNCHANGED <<call, status, admitted, shape, banks, tiles, staged, next, program>>
    BY <1>7 DEF FullWidth
  <2> QED  BY <1>1, <2>1, SearchKeeps
<1> QED  BY <1>4, <1>5, <1>6, <1>7

(* The search over column counts. *)
LEMMA TryColumnsKeeps ==
  ASSUME PlannerInv, TryColumns
  PROVE  PlannerInv'
<1> DEFINE d == banks[1]
           ow == output_width(shape, kernels)
           widths == balanced_column_widths(ow, columns)
           cut == plan_grid(shape, kernels, widths, d)
<1>1. /\ stage = "columns" /\ Served /\ banks # NONE /\ Granted /\ call.entry # "chain"
      /\ d \in Nat /\ columns \in Nat /\ columns # 0
  BY DEF TryColumns, Granted, Plans, Served, PlannerInv, StagesAre, ResultsAre
<1>2. Valid(shape, kernels)
  BY <1>1, ServedValid
<1>3. ow \in Nat /\ ow # 0
  BY <1>2, Extents
<1>4. CASE columns > ow
  <2>1. Finish("CapacityExceeded")
    BY <1>4 DEF TryColumns
  <2> QED  BY <1>1, <2>1, FinishKeeps
<1>5. CASE ~(columns > ow) /\ cut # NONE
  <2>1. Plan(cut)
    BY <1>5 DEF TryColumns
  <2>2. widths \in Widths(ow)
    <3> HIDE DEF ow
    <3>1. columns <= ow
      BY <1>1, <1>3, <1>5
    <3> QED  BY <1>1, <1>3, <3>1, BalancedWidths
  <2>3. GoodTiles(shape, kernels, d, cut)
    <3> HIDE DEF d, widths
    <3> QED  BY <1>1, <1>2, <1>5, <2>2, PlanGridGood
  <2> HIDE DEF cut
  <2> QED  BY <1>1, <1>5, <2>1, <2>3, PlanKeeps
<1>6. CASE ~(columns > ow) /\ cut = NONE
  <2>1. /\ columns' = columns + 1
        /\ UNCHANGED <<call, stage, status, admitted, shape, banks, tiles, staged, next, program>>
    BY <1>6 DEF TryColumns
  <2>2. columns' \in Nat \ {0} /\ stage' = "columns"
    BY <1>1, <2>1
  <2> QED  BY <1>1, <2>1, <2>2, SearchKeeps
<1> QED  BY <1>4, <1>5, <1>6

(* A step from a planned stage to the next one.                            *)
LEMMA AdvanceKeeps ==
  ASSUME PlannerInv, stage \in {"planned", "programs"}, stage' = "programs",
         UNCHANGED <<call, status, shape, banks, columns, tiles>>
  PROVE  PlannerInv'
<1>1. /\ Served /\ banks # NONE /\ Granted /\ status = "none" /\ tiles # NONE
      /\ GoodTiles(shape, kernels, banks[1], tiles)
  BY DEF PlannerInv, StagesAre, ResultsAre, AnswersAre
<1>2. Served' /\ Granted' /\ kernels' = kernels
  BY <1>1, SameBanks, SameCall
<1>3. StagesAre'
  BY <1>1, <1>2 DEF PlannerInv, StagesAre
<1>4. ResultsAre'
  BY <1>1, <1>2 DEF ResultsAre
<1>5. AnswersAre'
  BY <1>1 DEF AnswersAre
<1> QED  BY <1>3, <1>4, <1>5 DEF PlannerInv

(* accumulator_output_layout of a staged result. *)
LEMMA StageKeeps ==
  ASSUME PlannerInv, Stage
  PROVE  PlannerInv'
<1> DEFINE entries == IF writes_accumulators(shape.precision)
                      THEN accumulator_output_layout(shape, kernels, tiles) ELSE NONE
<1>1. stage = "planned" /\ Served /\ GoodTiles(shape, kernels, banks[1], tiles)
  BY DEF Stage, PlannerInv, StagesAre, ResultsAre
<1>2. ~(entries # NONE /\ ScratchEnd(entries) # output_scratch_bytes(shape, kernels))
  <2>1. ScratchEnd(accumulator_output_layout(shape, kernels, tiles))
          = output_scratch_bytes(shape, kernels)
    BY <1>1, ServedValid, StagedFills
  <2> QED  BY <2>1
<1>3. stage' = "programs" /\ UNCHANGED <<call, status, shape, banks, columns, tiles>>
  BY <1>2 DEF Stage
<1> QED  BY <1>1, <1>3, AdvanceKeeps

(* One tile's register program. *)
LEMMA EmitTileKeeps ==
  ASSUME PlannerInv, EmitTile
  PROVE  PlannerInv'
<1>1. stage = "programs"
  BY DEF EmitTile
<1>2. \/ stage' = stage /\ UNCHANGED <<call, status, shape, banks, columns, tiles>>
      \/ Finish("panic")
  BY DEF EmitTile
<1>3. Finish("panic") => PlannerInv'
  BY FinishKeeps
<1>4. stage' = stage /\ UNCHANGED <<call, status, shape, banks, columns, tiles>> => PlannerInv'
  BY <1>1, AdvanceKeeps
<1> QED  BY <1>2, <1>3, <1>4

(* The last tile is programmed. *)
LEMMA EmitDoneKeeps ==
  ASSUME PlannerInv, EmitDone
  PROVE  PlannerInv'
<1>1. Served /\ Finish("ok")
  BY DEF EmitDone, PlannerInv, StagesAre
<1>2. call.entry # "chain"
  BY <1>1 DEF Served, Plans
<1> QED  BY <1>1, <1>2, FinishKeeps

(* The caller takes the result. *)
LEMMA ReturnKeeps ==
  ASSUME PlannerInv, Return
  PROVE  PlannerInv'
<1>1. stage' = "idle" /\ status' = "none" /\ banks' = NONE /\ tiles' = NONE /\ columns' = 1
  BY DEF Return
<1> QED  BY <1>1 DEF PlannerInv, StagesAre, ResultsAre, AnswersAre

(* Nothing happens. *)
LEMMA StutterKeeps ==
  ASSUME PlannerInv, UNCHANGED vars
  PROVE  PlannerInv'
<1>1. UNCHANGED <<call, stage, status, shape, banks, columns, tiles>>
  BY DEF vars
<1>2. StagesAre'
  BY <1>1, SameCall, SameShape DEF PlannerInv, StagesAre
<1>3. ResultsAre'
  BY <1>1, SameBanks DEF PlannerInv, ResultsAre
<1>4. AnswersAre'
  BY <1>1, SameCall, SameShape DEF PlannerInv, AnswersAre
<1> QED  BY <1>2, <1>3, <1>4 DEF PlannerInv
-----------------------------------------------------------------------------
(* The theorems.                                                           *)

(* The planner before any call. *)
LEMMA PlannerInit == Init => PlannerInv
BY DEF Init, PlannerInv, StagesAre, ResultsAre, AnswersAre

(* The invariant is inductive: one lemma above for each action. *)
LEMMA PlannerStep == PlannerInv /\ [Next]_vars => PlannerInv'
<1>1. SUFFICES ASSUME PlannerInv, [Next]_vars PROVE PlannerInv'
  OBVIOUS
<1>2. CASE UNCHANGED vars
  BY <1>1, <1>2, StutterKeeps
<1>3. CASE Next
  <2>1. CASE \E c \in Calls : Call(c)
    BY <1>1, <2>1, CallKeeps
  <2>2. CASE Describe
    BY <1>1, <2>2, DescribeKeeps
  <2>3. CASE Pack
    BY <1>1, <2>3, PackKeeps
  <2>4. CASE Chain
    BY <1>1, <2>4, ChainKeeps
  <2>5. CASE Check
    BY <1>1, <2>5, CheckKeeps
  <2>6. CASE Partition
    BY <1>1, <2>6, PartitionKeeps
  <2>7. CASE FullWidth
    BY <1>1, <2>7, FullWidthKeeps
  <2>8. CASE TryColumns
    BY <1>1, <2>8, TryColumnsKeeps
  <2>9. CASE Stage
    BY <1>1, <2>9, StageKeeps
  <2>10. CASE EmitTile
    BY <1>1, <2>10, EmitTileKeeps
  <2>11. CASE EmitDone
    BY <1>1, <2>11, EmitDoneKeeps
  <2>12. CASE Return
    BY <1>1, <2>12, ReturnKeeps
  <2> QED  BY <1>3, <2>1, <2>2, <2>3, <2>4, <2>5, <2>6, <2>7, <2>8, <2>9, <2>10, <2>11, <2>12
           DEF Next
<1> QED  BY <1>1, <1>2, <1>3

(* Every state of the planner, for every descriptor: what a stage has      *)
(* established of its call holds, and the plan it carries is a good one.   *)
THEOREM PlannerInvariant == Spec => []PlannerInv
<1>1. Init => PlannerInv
  BY PlannerInit
<1>2. PlannerInv /\ [Next]_vars => PlannerInv'
  BY PlannerStep
<1> QED  BY <1>1, <1>2, PTL DEF Spec

(* Whatever the descriptor, the tiles of a plan compute every output pixel *)
(* exactly once from the pixels it takes (ConvPlan::try_new and            *)
(* try_with_cbuf_banks, through Tile2D::grid and plan_grid).               *)
THEOREM TilesComputeAlways == Spec => []TilesCompute
<1>1. PlannerInv => TilesCompute
  <2>1. SUFFICES ASSUME PlannerInv, Planned PROVE TilesCompute
    BY DEF TilesCompute
  <2> DEFINE k == KernelOf(shape, kernels)
             ow == output_width(shape, kernels)
             oh == output_height(shape, kernels)
             n == Len(tiles)
             areas == [i \in 1..n |-> tiles[i].rows.out_rows * tiles[i].columns.out_cols]
             Apart(first, count, first_, count_) ==
               first + count <= first_ \/ first_ + count_ <= first
  <2>2. GoodTiles(shape, kernels, banks[1], tiles)
    BY <2>1 DEF Planned, PlannerInv, ResultsAre
  <2>3. PartialSums(areas)[n] = ow * oh
    <3>1. SumOf(Areas(tiles)) = ow * oh /\ tiles \in Seq(TileSet)
      BY <2>2 DEF GoodTiles, Covers
    <3>2. areas = Areas(tiles)
      BY DEF Areas, Area
    <3>3. Len(Areas(tiles)) = n
      BY <3>1, AreaFacts
    <3> HIDE DEF areas, ow, oh
    <3> QED  BY <3>1, <3>2, <3>3 DEF SumOf
  <2>4. ASSUME NEW i \in 1..n
        PROVE  LET r == tiles[i].rows
                   c == tiles[i].columns
               IN  /\ r.out_first + r.out_rows <= oh /\ c.out_first + c.out_cols <= ow
                   /\ \A j \in (i + 1)..n :
                        LET r_ == tiles[j].rows
                            c_ == tiles[j].columns
                        IN  \/ Apart(r.out_first, r.out_rows, r_.out_first, r_.out_rows)
                            \/ Apart(c.out_first, c.out_cols, c_.out_first, c_.out_cols)
                   /\ TapsResident(r.out_first, r.out_rows, r.in_first, r.in_rows, r.pad_top,
                                   shape.height, k.height, k.pad_top, shape.stride)
                   /\ TapsResident(c.out_first, c.out_cols, c.in_first, c.in_cols, c.pad_left,
                                   shape.width, k.width, k.pad_left, shape.stride)
    <3> DEFINE r == tiles[i].rows
               c == tiles[i].columns
    <3>1. GoodRows(shape, kernels, r) /\ GoodColumns(shape, kernels, c)
      BY <2>2 DEF GoodTiles
    <3>2. r.out_first + r.out_rows <= oh /\ c.out_first + c.out_cols <= ow
      BY <3>1 DEF GoodRows, GoodColumns
    <3>3. /\ TapsResident(r.out_first, r.out_rows, r.in_first, r.in_rows, r.pad_top,
                          shape.height, k.height, k.pad_top, shape.stride)
          /\ TapsResident(c.out_first, c.out_cols, c.in_first, c.in_cols, c.pad_left,
                          shape.width, k.width, k.pad_left, shape.stride)
      BY <3>1 DEF GoodRows, GoodColumns
    <3>4. ASSUME NEW j \in (i + 1)..n PROVE Beside(tiles[i], tiles[j])
      <4>1. n \in Nat
        BY <2>2 DEF GoodTiles, Covers
      <4>2. j \in 1..n /\ i < j
        BY <4>1
      <4> QED  BY <2>2, <4>2 DEF GoodTiles, Covers
    <3>5. \A j \in (i + 1)..n :
            \/ Apart(r.out_first, r.out_rows, tiles[j].rows.out_first, tiles[j].rows.out_rows)
            \/ Apart(c.out_first, c.out_cols, tiles[j].columns.out_first, tiles[j].columns.out_cols)
      BY <3>4 DEF Beside
    <3> HIDE DEF oh, ow, k, n
    <3> QED  BY <3>2, <3>3, <3>5
  <2> QED  BY <2>3, <2>4 DEF TilesCompute
<1> QED  BY <1>1, PlannerInvariant, PTL

(* Whatever the descriptor, both sides of a plan get the banks they need,  *)
(* and no tile loads past the banks of its side (cbuf_partition, the two   *)
(* partition policies and max_tile_input_rows_for_width_and_data_banks).   *)
THEOREM BanksSufficeAlways == Spec => []BanksSuffice
<1>1. PlannerInv => BanksSuffice
  <2>1. SUFFICES ASSUME PlannerInv PROVE BanksSuffice
    OBVIOUS
  <2>2. banks # NONE => Granted
    BY <2>1 DEF PlannerInv, ResultsAre
  <2>3. ASSUME Planned, NEW i \in 1..Len(tiles) PROVE Fits(shape, banks[1], tiles[i])
    BY <2>1, <2>3 DEF Planned, PlannerInv, ResultsAre, GoodTiles
  <2> QED  BY <2>2, <2>3 DEF BanksSuffice, Granted, Fits
<1> QED  BY <1>1, PlannerInvariant, PTL

(* Whatever the two cubes, a consumer allowed to read a producer's cube in *)
(* place finds there what it would have packed (rocket_plan_chain_identity *)
(* and chain_identity).                                                    *)
THEOREM ChainIsIdentityAlways == Spec => []ChainIsIdentity
<1>1. PlannerInv => ChainIsIdentity
  <2>1. SUFFICES ASSUME PlannerInv, call.entry = "chain", status = "ok" PROVE ChainIsIdentity
    BY DEF ChainIsIdentity
  <2>2. Allowed
    BY <2>1 DEF PlannerInv, AnswersAre
  <2>3. call.producer \in CubeDescriptors /\ call.consumer \in CubeDescriptors
    BY <2>1, <2>2, CallsAssumption DEF Allowed
  <2> QED  BY <2>2, <2>3, ChainFacts DEF Allowed, ChainIsIdentity
<1> QED  BY <1>1, PlannerInvariant, PTL
=============================================================================
