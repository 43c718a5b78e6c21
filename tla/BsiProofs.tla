------------------------------ MODULE BsiProofs ------------------------------
(* Proofs about bit-sliced indexes, for values and columns of any number of *)
(* bits and indexes of any width.                                          *)
EXTENDS Bsi, FiniteSetTheorems, WellFoundedInduction, TLAPS

(***************************************************************************)
(* Numbers and finite sets.                                                *)
(***************************************************************************)

\* A nonempty set of naturals has a least element.
LEMMA Least ==
  ASSUME NEW T, T \subseteq Nat, T # {}
  PROVE  \E n \in T : \A m \in T : n <= m
<1> DEFINE less == OpToRel(<, Nat)
<1>1. PICK x \in T : \A y \in T : ~ (<<y, x>> \in less)
  <2>1. IsWellFoundedOn(less, Nat)
    BY NatLessThanWellFounded
  <2> HIDE DEF less
  <2>2. QED BY <2>1, WFMin
<1>2. \A a, c \in Nat : <<c, a>> \in less <=> c < a
  BY DEF OpToRel
<1> HIDE DEF less
<1>3. \A y \in T : x \in Nat /\ y \in Nat /\ ~ (y < x)
  BY <1>1, <1>2, Zenon
<1>4. QED BY <1>1, <1>3

\* Induction over the numbers up to n, S being those that have the property.
LEMMA UpTo ==
  ASSUME NEW n \in Nat, NEW S, 0 \in S,
         \A m \in 0 .. n : m # n /\ m \in S => m + 1 \in S
  PROVE  \A m \in 0 .. n : m \in S
<1> DEFINE Bad == {m \in Nat : m \in 0 .. n /\ m \notin S}
<1>1. ASSUME Bad # {} PROVE FALSE
  <2>1. PICK m \in Bad : \A k \in Bad : m <= k
    BY <1>1, Least
  <2>2. m \in 0 .. n /\ m \notin S /\ m # 0 /\ m \in Nat
    OBVIOUS
  <2>3. m - 1 \in Nat /\ m - 1 \in 0 .. n /\ m - 1 # n /\ ~ (m <= m - 1) /\ (m - 1) + 1 = m
    BY <2>2
  <2>4. m - 1 \in S
    BY <2>1, <2>3
  <2>5. QED BY <2>2, <2>3, <2>4
<1>2. QED BY <1>1

\* Induction over the subsets of a finite set, G being those that have the
\* property.
LEMMA AllSubsets ==
  ASSUME NEW S, IsFiniteSet(S), NEW G,
         \A T \in SUBSET S : (\A x \in T : T \ {x} \in G) => T \in G
  PROVE  S \in G
<1> DEFINE Sizes == {Cardinality(T) : T \in (SUBSET S) \ G}
<1>1. \A T \in SUBSET S : IsFiniteSet(T) /\ Cardinality(T) \in Nat
  BY FS_Subset, FS_CardinalityType
<1>2. SUFFICES ASSUME S \notin G PROVE FALSE
  OBVIOUS
<1>3. Sizes \subseteq Nat /\ Sizes # {}
  BY <1>1, <1>2
<1>4. PICK n \in Sizes : \A m \in Sizes : n <= m
  <2> HIDE DEF Sizes
  <2>1. QED BY <1>3, Least
<1>5. PICK T \in (SUBSET S) \ G : n = Cardinality(T)
  OBVIOUS
<1>6. ASSUME NEW x \in T PROVE T \ {x} \in G
  <2> DEFINE U == T \ {x}
  <2>1. U \in SUBSET S /\ Cardinality(U) = n - 1 /\ n \in Nat
    BY <1>1, <1>5, FS_RemoveElement
  <2>2. SUFFICES ASSUME U \notin G PROVE FALSE
    OBVIOUS
  <2>3. n - 1 \in Sizes
    BY <2>1, <2>2
  <2> HIDE DEF Sizes, U
  <2>4. n <= n - 1
    BY <1>4, <2>3
  <2>5. QED BY <2>1, <2>4
<1>7. QED BY <1>5, <1>6

\* The powers of two, from the number of subsets of a set.
LEMMA PowerStep ==
  ASSUME NEW n \in Nat
  PROVE  2^n \in Nat /\ 2^n >= 1 /\ 2^(n + 1) = 2^n + 2^n
<1> DEFINE S == 1 .. n
           P == SUBSET S
           Q == {A \cup {n + 1} : A \in P}
           R == SUBSET (1 .. n + 1)
<1>1. /\ IsFiniteSet(S) /\ Cardinality(S) = n
      /\ IsFiniteSet(1 .. n + 1) /\ Cardinality(1 .. n + 1) = n + 1
  BY FS_Interval
<1>2. /\ IsFiniteSet(P) /\ Cardinality(P) = 2^n
      /\ IsFiniteSet(R) /\ Cardinality(R) = 2^(n + 1)
  BY <1>1, FS_SUBSET
<1>3. IsFiniteSet(Q) /\ Cardinality(Q) = Cardinality(P)
  <2> DEFINE f == [A \in P |-> A \cup {n + 1}]
  <2>1. n + 1 \notin S
    OBVIOUS
  <2>2. f \in Bijection(P, Q)
    <3>1. f \in [P -> Q] /\ \A B \in Q : \E A \in P : f[A] = B
      OBVIOUS
    <3>2. ASSUME NEW A \in P, NEW B \in P, f[A] = f[B] PROVE A = B
      <4>1. A \cup {n + 1} = B \cup {n + 1} /\ n + 1 \notin A /\ n + 1 \notin B
        BY <2>1, <3>2
      <4>2. QED BY ONLY <4>1
    <3> HIDE DEF f, P, Q
    <3>3. QED BY <3>1, <3>2 DEF Bijection, Injection, Surjection, IsInjective
  <2>3. ExistsBijection(P, Q)
    BY <2>2 DEF ExistsBijection
  <2> HIDE DEF P, Q
  <2>4. QED BY <1>2, <2>3, FS_Bijection
<1>4. R = P \cup Q /\ P \cap Q = {}
  <2>1. n + 1 \notin S /\ 1 .. n + 1 = S \cup {n + 1}
    OBVIOUS
  <2>2. ASSUME NEW A \in R PROVE A \in P \cup Q
    <3>1. CASE n + 1 \in A
      <4>1. A \ {n + 1} \in P /\ A = (A \ {n + 1}) \cup {n + 1}
        BY <2>1, <3>1
      <4>2. QED BY <4>1
    <3>2. CASE n + 1 \notin A
      BY <2>1, <3>2
    <3>3. QED BY <3>1, <3>2
  <2>3. \A A \in P \cup Q : A \in R
    BY <2>1
  <2>4. \A A \in P : n + 1 \notin A
    BY <2>1
  <2>5. \A A \in Q : n + 1 \in A
    OBVIOUS
  <2> HIDE DEF P, Q, R
  <2>6. QED BY <2>2, <2>3, <2>4, <2>5
<1>5. Cardinality(P \cup Q) = Cardinality(P) + Cardinality(Q) - Cardinality(P \cap Q)
  BY <1>2, <1>3, FS_Union
<1>6. Cardinality(P \cap Q) = 0 /\ Cardinality(P) \in Nat
  BY <1>2, <1>4, FS_EmptySet, FS_CardinalityType
<1>7. Cardinality(P) # 0
  BY <1>2, FS_EmptySet
<1> HIDE DEF P, Q, R
<1>8. QED BY <1>2, <1>3, <1>4, <1>5, <1>6, <1>7

LEMMA PowerZero == 2^0 = 1
OBVIOUS

LEMMA PowerOrder ==
  ASSUME NEW j \in Nat, NEW k \in Nat, j < k
  PROVE  2^j + 2^j <= 2^k /\ 2^j < 2^k
<1> DEFINE S == {m \in Nat : 2^(j + 1) <= 2^((j + 1) + m)}
           n == k - (j + 1)
<1>1. n \in Nat /\ (j + 1) + n = k /\ j + 1 \in Nat
  OBVIOUS
<1>2. 0 \in S
  <2>1. (j + 1) + 0 = j + 1 /\ 2^(j + 1) \in Nat
    BY <1>1, PowerStep
  <2>2. QED BY <2>1
<1>3. \A m \in 0 .. n : m # n /\ m \in S => m + 1 \in S
  <2>1. SUFFICES ASSUME NEW m \in Nat, m \in S PROVE m + 1 \in S
    OBVIOUS
  <2> DEFINE i == (j + 1) + m
  <2>2. i \in Nat /\ (j + 1) + (m + 1) = i + 1
    BY <1>1
  <2>3. 2^i \in Nat /\ 2^(i + 1) = 2^i + 2^i /\ 2^(j + 1) \in Nat
    BY <1>1, <2>2, PowerStep
  <2>4. 2^(j + 1) <= 2^i
    BY <2>1
  <2>5. 2^(j + 1) <= 2^(i + 1)
    BY <2>3, <2>4
  <2>6. QED BY <2>2, <2>5
<1> HIDE DEF S
<1>4. \A m \in 0 .. n : m \in S
  BY <1>1, <1>2, <1>3, UpTo
<1>5. n \in S
  BY <1>1, <1>4
<1>6. 2^(j + 1) <= 2^k
  BY <1>1, <1>5 DEF S
<1>7. 2^j \in Nat /\ 2^j >= 1 /\ 2^(j + 1) = 2^j + 2^j /\ 2^k \in Nat
  BY PowerStep
<1>8. QED BY <1>6, <1>7

(***************************************************************************)
(* Sums over finite sets.                                                  *)
(***************************************************************************)

Pick(s) == CHOOSE x \in s : TRUE

\* g is the function by which MapThenSumSet adds up F over the subsets of S.
Adds(g, F, S) ==
  g = [s \in SUBSET S |-> IF s = {} THEN 0 ELSE F[Pick(s)] + g[s \ {Pick(s)}]]

Total(F, S) == (CHOOSE g : Adds(g, F, S))[S]

Integral(F, S) == \A x \in S : F[x] \in Int

LEMMA AddsAt ==
  ASSUME NEW S, NEW F, NEW g, Adds(g, F, S), NEW T \in SUBSET S
  PROVE  g[T] = IF T = {} THEN 0 ELSE F[Pick(T)] + g[T \ {Pick(T)}]
BY DEF Adds

\* There is such a function.
LEMMA AddsExists ==
  ASSUME NEW S, IsFiniteSet(S), NEW F
  PROVE  \E g : Adds(g, F, S)
<1> DEFINE Step(g, s) == IF s = {} THEN 0 ELSE F[Pick(s)] + g[s \ {Pick(s)}]
           Sub(n) == {s \in SUBSET S : Cardinality(s) <= n}
           Good == {n \in Nat : \E g : g = [s \in Sub(n) |-> Step(g, s)]}
<1>1. \A s \in SUBSET S : IsFiniteSet(s) /\ Cardinality(s) \in Nat
  BY FS_Subset, FS_CardinalityType
<1>2. 0 \in Good
  <2>1. \A s \in Sub(0) : s = {}
    BY <1>1, FS_EmptySet
  <2>2. [s \in Sub(0) |-> 0] = [s \in Sub(0) |-> Step([t \in Sub(0) |-> 0], s)]
    BY <2>1
  <2>3. QED BY <2>2
<1>3. ASSUME NEW n \in Nat, n \in Good PROVE n + 1 \in Good
  <2>1. PICK g : g = [s \in Sub(n) |-> Step(g, s)]
    BY <1>3
  <2> DEFINE h == [s \in Sub(n + 1) |-> Step(g, s)]
  <2>2. ASSUME NEW s \in Sub(n + 1), s # {}
        PROVE  h[s \ {Pick(s)}] = g[s \ {Pick(s)}]
    <3>0. Pick(s) \in s
      BY <2>2 DEF Pick
    <3>1. s \ {Pick(s)} \in Sub(n) /\ s \ {Pick(s)} \in Sub(n + 1)
      BY <1>1, <3>0, FS_RemoveElement
    <3>2. g[s \ {Pick(s)}] = Step(g, s \ {Pick(s)})
      BY <2>1, <3>1, Zenon
    <3>3. QED BY <3>1, <3>2
  <2>3. \A s \in Sub(n + 1) : Step(g, s) = Step(h, s)
    BY <2>2
  <2>4. h = [s \in Sub(n + 1) |-> Step(h, s)]
    BY <2>3
  <2>5. \E f : f = [s \in Sub(n + 1) |-> Step(f, s)]
    <3> HIDE DEF h, Step, Sub
    <3>1. QED BY <2>4
  <2>6. n + 1 \in Nat
    OBVIOUS
  <2> HIDE DEF Step, Sub
  <2>7. QED BY <2>5, <2>6
<1>4. Cardinality(S) \in Good
  <2> DEFINE n == Cardinality(S)
  <2>1. n \in Nat
    BY <1>1
  <2> HIDE DEF Good, n
  <2>2. \A m \in 0 .. n : m # n /\ m \in Good => m + 1 \in Good
    BY <1>3
  <2>3. \A m \in 0 .. n : m \in Good
    BY <1>2, <2>1, <2>2, UpTo
  <2>4. QED BY <2>1, <2>3 DEF n
<1>5. Sub(Cardinality(S)) = SUBSET S
  BY FS_Subset, FS_CardinalityType
<1>6. PICK g : g = [s \in SUBSET S |-> Step(g, s)]
  BY <1>4, <1>5
<1>7. QED BY <1>6 DEF Adds

LEMMA AddsInt ==
  ASSUME NEW S, IsFiniteSet(S), NEW F, Integral(F, S), NEW g, Adds(g, F, S),
         NEW T \in SUBSET S
  PROVE  g[T] \in Int
<1> DEFINE G == {U \in SUBSET S : g[U] \in Int}
<1>1. ASSUME NEW U \in SUBSET T, \A x \in U : U \ {x} \in G PROVE U \in G
  <2>1. CASE U = {}
    <3>1. g[U] = 0 /\ U \in SUBSET S
      BY <2>1, AddsAt
    <3>2. QED BY <3>1
  <2>2. CASE U # {}
    <3>1. Pick(U) \in U
      BY <2>2 DEF Pick
    <3>2. g[U] = F[Pick(U)] + g[U \ {Pick(U)}] /\ U \in SUBSET S
      BY <2>2, AddsAt
    <3>3. F[Pick(U)] \in Int /\ g[U \ {Pick(U)}] \in Int
      BY <1>1, <3>1 DEF Integral
    <3>4. QED BY <3>2, <3>3
  <2>3. QED BY <2>1, <2>2
<1> HIDE DEF G
<1>2. IsFiniteSet(T)
  BY FS_Subset
<1>3. T \in G
  BY <1>1, <1>2, AllSubsets
<1>4. QED BY <1>3 DEF G

\* The order of adding makes no difference.
LEMMA AddsAny ==
  ASSUME NEW S, IsFiniteSet(S), NEW F, Integral(F, S), NEW g, Adds(g, F, S),
         NEW T \in SUBSET S
  PROVE  g[T] \in Int /\ \A w \in T : g[T] = F[w] + g[T \ {w}]
<1> DEFINE Ok(U) == g[U] \in Int /\ \A w \in U : g[U] = F[w] + g[U \ {w}]
           G == {U \in SUBSET S : Ok(U)}
<1>1. ASSUME NEW U \in SUBSET S, \A x \in U : U \ {x} \in G PROVE U \in G
  <2>1. CASE U = {}
    <3>1. g[U] = 0
      BY <2>1, AddsAt
    <3>2. QED BY <2>1, <3>1
  <2>2. CASE U # {}
    <3> DEFINE p == Pick(U)
    <3>1. p \in U
      BY <2>2 DEF Pick
    <3> HIDE DEF p
    <3>2. g[U] = F[p] + g[U \ {p}]
      BY <2>2, AddsAt DEF p
    <3>3. F[p] \in Int /\ g[U \ {p}] \in Int
      BY <1>1, <3>1 DEF Integral
    <3>4. ASSUME NEW w \in U, w # p PROVE g[U] = F[w] + g[U \ {w}]
      <4>1. g[U \ {p}] = F[w] + g[(U \ {p}) \ {w}]
        <5>1. Ok(U \ {p}) /\ w \in U \ {p}
          BY <1>1, <3>1, <3>4
        <5>2. QED BY <5>1
      <4>2. g[U \ {w}] = F[p] + g[(U \ {w}) \ {p}]
        <5>1. Ok(U \ {w}) /\ p \in U \ {w}
          BY <1>1, <3>1, <3>4
        <5>2. QED BY <5>1
      <4>3. (U \ {p}) \ {w} = (U \ {w}) \ {p}
        OBVIOUS
      <4>4. F[w] \in Int
        BY DEF Integral
      <4>5. g[(U \ {w}) \ {p}] \in Int
        <5>1. (U \ {w}) \ {p} \in SUBSET S
          OBVIOUS
        <5>2. QED BY <5>1, AddsInt
      <4>6. g[(U \ {w}) \ {p}] = g[(U \ {p}) \ {w}]
        BY ONLY <4>3
      <4>7. QED BY ONLY <3>2, <3>3, <4>1, <4>2, <4>4, <4>5, <4>6
    <3>5. \A w \in U : g[U] = F[w] + g[U \ {w}]
      BY <3>2, <3>4
    <3>6. g[U] \in Int
      BY <3>2, <3>3
    <3>7. QED BY <3>5, <3>6
  <2>3. QED BY <2>1, <2>2
<1> HIDE DEF G
<1>2. IsFiniteSet(T)
  BY FS_Subset
<1>3. \A U \in SUBSET T : (\A x \in U : U \ {x} \in G) => U \in G
  BY <1>1
<1>4. T \in G
  BY <1>2, <1>3, AllSubsets
<1>5. QED BY <1>4 DEF G
\* Two of them agree where the summands do.
LEMMA AddsSame ==
  ASSUME NEW S, NEW F, NEW g, Adds(g, F, S), NEW R, NEW H, NEW h, Adds(h, H, R),
         NEW T, T \subseteq S, T \subseteq R, IsFiniteSet(T),
         \A x \in T : F[x] = H[x]
  PROVE  g[T] = h[T]
<1> DEFINE G == {U \in SUBSET T : g[U] = h[U]}
<1>1. ASSUME NEW U \in SUBSET T, \A x \in U : U \ {x} \in G PROVE U \in G
  <2>1. /\ g[U] = IF U = {} THEN 0 ELSE F[Pick(U)] + g[U \ {Pick(U)}]
        /\ h[U] = IF U = {} THEN 0 ELSE H[Pick(U)] + h[U \ {Pick(U)}]
    BY AddsAt
  <2>2. U # {} => Pick(U) \in U
    BY DEF Pick
  <2>3. U # {} => F[Pick(U)] = H[Pick(U)] /\ g[U \ {Pick(U)}] = h[U \ {Pick(U)}]
    BY <1>1, <2>2
  <2>4. g[U] = h[U]
    BY <2>1, <2>3
  <2>5. QED BY <2>4
<1> HIDE DEF G
<1>2. T \in G
  BY <1>1, AllSubsets
<1>3. QED BY <1>2 DEF G

LEMMA TotalAdds ==
  ASSUME NEW S, IsFiniteSet(S), NEW F
  PROVE  \E g : Adds(g, F, S) /\ \A T \in SUBSET S : Total(F, T) = g[T]
<1>1. PICK g : Adds(g, F, S)
  BY AddsExists
<1>2. ASSUME NEW T \in SUBSET S PROVE Total(F, T) = g[T]
  <2> DEFINE h == CHOOSE f : Adds(f, F, T)
  <2>1. IsFiniteSet(T) /\ T \subseteq T
    BY FS_Subset
  <2>2. Adds(h, F, T)
    <3>1. \E f : Adds(f, F, T)
      BY <2>1, AddsExists
    <3>2. QED BY <3>1
  <2>3. Total(F, T) = h[T]
    BY DEF Total
  <2> HIDE DEF h
  <2>4. h[T] = g[T]
    BY <1>1, <2>1, <2>2, AddsSame
  <2>5. QED BY <2>3, <2>4
<1>3. QED BY <1>1, <1>2

LEMMA TotalEmpty == ASSUME NEW F PROVE Total(F, {}) = 0
<1>1. IsFiniteSet({}) /\ {} \in SUBSET {}
  BY FS_EmptySet
<1>2. PICK g : Adds(g, F, {}) /\ Total(F, {}) = g[{}]
  BY <1>1, TotalAdds
<1>3. QED BY <1>1, <1>2, AddsAt

\* A sum is any one of its summands and the sum of the others.
LEMMA TotalSplit ==
  ASSUME NEW S, IsFiniteSet(S), NEW F, Integral(F, S)
  PROVE  /\ Total(F, S) \in Int
         /\ \A w \in S : Total(F, S) = F[w] + Total(F, S \ {w})
<1>1. PICK g : Adds(g, F, S) /\ \A T \in SUBSET S : Total(F, T) = g[T]
  BY TotalAdds
<1>2. S \in SUBSET S /\ \A w \in S : S \ {w} \in SUBSET S
  OBVIOUS
<1>3. g[S] \in Int /\ \A w \in S : g[S] = F[w] + g[S \ {w}]
  BY <1>1, <1>2, AddsAny
<1>4. Total(F, S) = g[S] /\ \A w \in S : Total(F, S \ {w}) = g[S \ {w}]
  BY <1>1, <1>2
<1>5. QED BY <1>3, <1>4

LEMMA TotalSame ==
  ASSUME NEW S, IsFiniteSet(S), NEW F, NEW H, \A x \in S : F[x] = H[x]
  PROVE  Total(F, S) = Total(H, S)
<1>1. S \in SUBSET S /\ S \subseteq S
  OBVIOUS
<1>2. PICK g : Adds(g, F, S) /\ Total(F, S) = g[S]
  BY <1>1, TotalAdds
<1>3. PICK h : Adds(h, H, S) /\ Total(H, S) = h[S]
  BY <1>1, TotalAdds
<1>4. g[S] = h[S]
  BY <1>1, <1>2, <1>3, AddsSame
<1>5. QED BY <1>2, <1>3, <1>4

LEMMA TotalAdd ==
  ASSUME NEW S, IsFiniteSet(S), NEW F, NEW w, w \notin S, Integral(F, S), F[w] \in Int
  PROVE  Total(F, S \cup {w}) = F[w] + Total(F, S)
<1>1. IsFiniteSet(S \cup {w})
  BY FS_AddElement
<1>2. Integral(F, S \cup {w}) /\ w \in S \cup {w}
  BY DEF Integral
<1>3. Total(F, S \cup {w}) = F[w] + Total(F, (S \cup {w}) \ {w})
  BY <1>1, <1>2, TotalSplit
<1>4. (S \cup {w}) \ {w} = S
  OBVIOUS
<1>5. QED BY ONLY <1>3, <1>4

\* The sum of two sets that have no element in common.
LEMMA TotalUnion ==
  ASSUME NEW S, IsFiniteSet(S), NEW R, IsFiniteSet(R), S \cap R = {}, NEW F,
         Integral(F, S), Integral(F, R)
  PROVE  Total(F, S \cup R) = Total(F, S) + Total(F, R)
<1> DEFINE G == {U \in SUBSET R : Total(F, S \cup U) = Total(F, S) + Total(F, U)}
<1>1. ASSUME NEW U \in SUBSET R, \A x \in U : U \ {x} \in G PROVE U \in G
  <2>0. Total(F, S) \in Int
    BY TotalSplit
  <2>1. CASE U = {}
    <3>1. S \cup {} = S /\ Total(F, {}) = 0
      BY TotalEmpty
    <3>2. Total(F, S \cup U) = Total(F, S) + Total(F, U)
      BY <2>0, <2>1, <3>1
    <3>3. QED BY <3>2
  <2>2. CASE U # {}
    <3>1. PICK x \in U : TRUE
      BY <2>2
    <3>2. IsFiniteSet(U) /\ IsFiniteSet(S \cup U)
      BY FS_Subset, FS_Union
    <3>3. Integral(F, U) /\ Integral(F, S \cup U) /\ x \in S \cup U
      BY <3>1 DEF Integral
    <3>4. Total(F, U) \in Int /\ Total(F, U) = F[x] + Total(F, U \ {x})
      BY <3>1, <3>2, <3>3, TotalSplit
    <3>5. Total(F, S \cup U) = F[x] + Total(F, (S \cup U) \ {x})
      BY <3>2, <3>3, TotalSplit
    <3>6. (S \cup U) \ {x} = S \cup (U \ {x})
      BY <3>1
    <3>7. Total(F, S \cup (U \ {x})) = Total(F, S) + Total(F, U \ {x})
      BY <1>1, <3>1
    <3>8. F[x] \in Int /\ IsFiniteSet(U \ {x}) /\ Integral(F, U \ {x})
      BY <3>1, <3>2, FS_RemoveElement DEF Integral
    <3>9. Total(F, U \ {x}) \in Int
      BY <3>8, TotalSplit
    <3>10. Total(F, (S \cup U) \ {x}) = Total(F, S \cup (U \ {x}))
      BY ONLY <3>6
    <3>11. Total(F, S \cup U) = Total(F, S) + Total(F, U)
      <4> HIDE DEF G
      <4>1. QED BY ONLY <2>0, <3>4, <3>5, <3>7, <3>8, <3>9, <3>10
    <3>12. QED BY <3>11
  <2>3. QED BY <2>1, <2>2
<1> HIDE DEF G
<1>2. R \in G
  BY <1>1, AllSubsets
<1>3. QED BY <1>2 DEF G
\* The sum of a set is that of the numbers themselves.
Itself == [n \in Int |-> n]

LEMMA SumIsTotal ==
  ASSUME NEW P, P \subseteq Int, IsFiniteSet(P)
  PROVE  SumSet(P) = Total(Itself, P)
<1> DEFINE A(g) == g = [s \in SUBSET P |->
                          IF s = {} THEN 0
                          ELSE (CHOOSE x \in s : TRUE) + g[s \ {CHOOSE x \in s : TRUE}]]
           f == CHOOSE g : A(g)
<1>1. SumSet(P) = f[P]
  BY DEF SumSet, FoldSet, MapThenFoldSet
<1>2. ASSUME NEW g PROVE A(g) <=> Adds(g, Itself, P)
  <2> DEFINE L(s) == IF s = {} THEN 0
                     ELSE (CHOOSE x \in s : TRUE) + g[s \ {CHOOSE x \in s : TRUE}]
             R(s) == IF s = {} THEN 0 ELSE Itself[Pick(s)] + g[s \ {Pick(s)}]
  <2>1. ASSUME NEW s \in SUBSET P PROVE L(s) = R(s)
    <3>1. s # {} => Pick(s) \in Int
      BY DEF Pick
    <3>2. s # {} => Itself[Pick(s)] = Pick(s)
      BY <3>1 DEF Itself
    <3>3. QED BY <3>2 DEF Pick
  <2>2. A(g) <=> g = [s \in SUBSET P |-> L(s)]
    OBVIOUS
  <2>3. Adds(g, Itself, P) <=> g = [s \in SUBSET P |-> R(s)]
    BY DEF Adds
  <2> HIDE DEF L, R
  <2>4. [s \in SUBSET P |-> L(s)] = [s \in SUBSET P |-> R(s)]
    BY <2>1
  <2>5. QED BY <2>2, <2>3, <2>4
<1> HIDE DEF A
<1>3. \E g : A(g)
  BY <1>2, AddsExists
<1>4. Adds(f, Itself, P)
  BY <1>2, <1>3
<1> HIDE DEF f
<1>5. Total(Itself, P) = f[P]
  <2>2. P \subseteq P /\ P \in SUBSET P
    OBVIOUS
  <2>1. PICK g : Adds(g, Itself, P) /\ Total(Itself, P) = g[P]
    BY <2>2, TotalAdds
  <2>3. f[P] = g[P]
    BY <1>4, <2>1, <2>2, AddsSame
  <2>4. QED BY <2>1, <2>2, <2>3
<1>6. QED BY <1>1, <1>5

\* The sum of the values of a function that takes none twice.
LEMMA TotalImage ==
  ASSUME NEW K, IsFiniteSet(K), NEW F, Integral(F, K),
         \A i, j \in K : F[i] = F[j] => i = j
  PROVE  /\ IsFiniteSet({F[j] : j \in K}) /\ {F[j] : j \in K} \subseteq Int
         /\ Total(Itself, {F[j] : j \in K}) = Total(F, K)
<1> DEFINE Image(U) == {F[j] : j \in U}
           Ok(U) == IsFiniteSet(Image(U)) /\ Total(Itself, Image(U)) = Total(F, U)
           G == {U \in SUBSET K : Ok(U)}
<1>1. ASSUME NEW U \in SUBSET K, \A x \in U : U \ {x} \in G PROVE U \in G
  <2>1. CASE U = {}
    <3>1. Image(U) = {}
      BY <2>1
    <3> HIDE DEF Image
    <3>2. IsFiniteSet({}) /\ Total(Itself, {}) = 0 /\ Total(F, {}) = 0
      BY FS_EmptySet, TotalEmpty
    <3>3. Ok(U)
      BY <2>1, <3>1, <3>2
    <3>4. QED BY <3>3
  <2>2. CASE U # {}
    <3>1. PICK x \in U : TRUE
      BY <2>2
    <3> DEFINE T == U \ {x}
    <3>2. Ok(T)
      BY <1>1
    <3>3. IsFiniteSet(U) /\ Integral(F, U) /\ F[x] \in Int
      BY <3>1, FS_Subset DEF Integral
    <3>4. Image(U) = Image(T) \cup {F[x]} /\ F[x] \notin Image(T)
      <4>1. U = T \cup {x}
        BY <3>1
      <4>2. Image(U) = Image(T) \cup {F[x]}
        BY <3>1
      <4>3. F[x] \notin Image(T)
        BY <3>1
      <4>4. QED BY <4>2, <4>3
    <3>5. Integral(Itself, Image(T)) /\ Itself[F[x]] = F[x]
      BY <3>3 DEF Integral, Itself
    <3> HIDE DEF Image
    <3>6. Total(Itself, Image(T) \cup {F[x]}) = Itself[F[x]] + Total(Itself, Image(T))
      BY <3>2, <3>3, <3>4, <3>5, TotalAdd
    <3>7. Total(F, U) = F[x] + Total(F, T)
      BY <3>1, <3>3, TotalSplit
    <3>8. IsFiniteSet(Image(T) \cup {F[x]})
      BY <3>2, FS_AddElement
    <3>9. Ok(U)
      BY <3>2, <3>4, <3>5, <3>6, <3>7, <3>8
    <3> HIDE DEF Ok
    <3>10. QED BY <3>9
  <2>3. QED BY <2>1, <2>2
<1> HIDE DEF Ok
<1>2. K \in G
  <2> HIDE DEF G
  <2>1. QED BY <1>1, AllSubsets
<1>3. Ok(K)
  BY <1>2
<1>4. {F[j] : j \in K} \subseteq Int
  BY DEF Integral
<1>5. QED BY <1>3, <1>4 DEF Ok

(***************************************************************************)
(* The number that a set of places spells.                                 *)
(***************************************************************************)

Power == [j \in Nat |-> 2^j]
Worth(K) == Total(Power, K)
Finite(K) == K \subseteq Nat /\ IsFiniteSet(K)

LEMMA PowerAt ==
  ASSUME NEW K, K \subseteq Nat
  PROVE  Integral(Power, K) /\ \A j \in K : Power[j] = 2^j /\ 2^j \in Nat /\ 2^j >= 1
<1>1. \A j \in Nat : 2^j \in Nat /\ 2^j >= 1
  BY PowerStep
<1>2. QED BY <1>1 DEF Integral, Power

LEMMA SumPowers ==
  ASSUME NEW K, Finite(K)
  PROVE  SumSet({2^j : j \in K}) = Worth(K)
<1>1. K \subseteq Nat /\ IsFiniteSet(K)
  BY DEF Finite
<1>2. Integral(Power, K) /\ \A j \in K : Power[j] = 2^j
  BY <1>1, PowerAt
<1>3. ASSUME NEW i \in K, NEW j \in K, Power[i] = Power[j] PROVE i = j
  <2>1. i \in Nat /\ j \in Nat /\ 2^i = 2^j /\ 2^i \in Nat
    BY <1>1, <1>2, <1>3, PowerStep
  <2>2. ~ (i < j) /\ ~ (j < i)
    BY <2>1, PowerOrder
  <2>3. QED BY <2>1, <2>2
<1> DEFINE P == {Power[j] : j \in K}
<1>4. IsFiniteSet(P) /\ P \subseteq Int /\ Total(Itself, P) = Total(Power, K)
  BY <1>1, <1>2, <1>3, TotalImage
<1>5. {2^j : j \in K} = P
  BY <1>2
<1> HIDE DEF P
<1>6. SumSet(P) = Total(Itself, P)
  BY <1>4, SumIsTotal
<1>7. QED BY <1>4, <1>5, <1>6 DEF Worth

LEMMA WorthEmpty == Worth({}) = 0
BY TotalEmpty DEF Worth

LEMMA WorthUnion ==
  ASSUME NEW K, Finite(K), NEW L, Finite(L), K \cap L = {}
  PROVE  Finite(K \cup L) /\ Worth(K \cup L) = Worth(K) + Worth(L)
<1>1. IsFiniteSet(K \cup L)
  BY FS_Union DEF Finite
<1>2. QED BY <1>1, PowerAt, TotalUnion DEF Finite, Worth

LEMMA WorthOne ==
  ASSUME NEW j \in Nat
  PROVE  Finite({j}) /\ Worth({j}) = 2^j
<1>1. IsFiniteSet({}) /\ IsFiniteSet({j}) /\ j \notin {} /\ {} \cup {j} = {j}
  BY FS_EmptySet, FS_Singleton
<1>2. Integral(Power, {}) /\ Power[j] = 2^j /\ Power[j] \in Int
  BY PowerAt, PowerStep DEF Power, Integral
<1>3. Total(Power, {} \cup {j}) = Power[j] + Total(Power, {})
  BY <1>1, <1>2, TotalAdd
<1>4. 2^j \in Int
  BY <1>2
<1>5. QED BY <1>1, <1>2, <1>3, <1>4, TotalEmpty DEF Worth, Finite

LEMMA WorthInt ==
  ASSUME NEW K, Finite(K)
  PROVE  Worth(K) \in Nat
<1> DEFINE G == {U \in SUBSET K : Worth(U) \in Nat}
<1>1. ASSUME NEW U \in SUBSET K, \A x \in U : U \ {x} \in G PROVE U \in G
  <2>1. CASE U = {}
    BY <2>1, WorthEmpty
  <2>2. CASE U # {}
    <3>1. PICK x \in U : TRUE
      BY <2>2
    <3>2. U \subseteq Nat /\ IsFiniteSet(U) /\ Integral(Power, U) /\ Power[x] \in Nat
      BY <3>1, FS_Subset, PowerAt DEF Finite
    <3>3. Worth(U) = Power[x] + Worth(U \ {x})
      BY <3>1, <3>2, TotalSplit DEF Worth
    <3>4. Worth(U \ {x}) \in Nat
      BY <1>1
    <3>5. QED BY <3>2, <3>3, <3>4
  <2>3. QED BY <2>1, <2>2
<1> HIDE DEF G
<1>2. K \in G
  BY <1>1, AllSubsets DEF Finite
<1>3. QED BY <1>2 DEF G
\* The places below n spell numbers below 2^n.
LEMMA WorthBelow ==
  ASSUME NEW n \in Nat, NEW K, K \subseteq 0 .. n - 1
  PROVE  Finite(K) /\ Worth(K) \in Nat /\ Worth(K) < 2^n /\ 2^n \in Nat
<1> DEFINE S == {m \in Nat : \A L \in SUBSET (0 .. m - 1) : Worth(L) < 2^m}
<1>1. ASSUME NEW m \in Nat, NEW L \in SUBSET (0 .. m - 1) PROVE Finite(L)
  <2>1. IsFiniteSet(0 .. m - 1) /\ 0 .. m - 1 \subseteq Nat
    BY FS_Interval
  <2>2. IsFiniteSet(L) /\ L \subseteq Nat
    BY <2>1, FS_Subset
  <2>3. QED BY <2>2 DEF Finite
<1>2. 0 \in S
  <2>1. \A L \in SUBSET (0 .. 0 - 1) : L = {}
    OBVIOUS
  <2>2. Worth({}) < 2^0
    BY WorthEmpty, PowerZero
  <2>3. QED BY <2>1, <2>2
<1>3. ASSUME NEW m \in Nat, m \in S PROVE m + 1 \in S
  <2>1. ASSUME NEW L \in SUBSET (0 .. (m + 1) - 1) PROVE Worth(L) < 2^(m + 1)
    <3> DEFINE R == L \ {m}
    <3>1. R \in SUBSET (0 .. m - 1)
      OBVIOUS
    <3>2. Finite(R) /\ Worth(R) \in Nat /\ Worth(R) < 2^m
      BY <1>1, <1>3, <3>1, WorthInt
    <3>3. 2^m \in Nat /\ 2^(m + 1) = 2^m + 2^m
      BY PowerStep
    <3>4. CASE m \notin L
      <4>1. R = L
        BY <3>4
      <4> HIDE DEF R
      <4>2. QED BY <3>2, <3>3, <4>1
    <3>5. CASE m \in L
      <4>1. L = R \cup {m} /\ R \cap {m} = {}
        BY <3>5
      <4> HIDE DEF R
      <4>2. Worth(R \cup {m}) = Worth(R) + Worth({m}) /\ Worth({m}) = 2^m
        BY <3>2, <4>1, WorthOne, WorthUnion
      <4>3. QED BY <3>2, <3>3, <4>1, <4>2
    <3>6. QED BY <3>4, <3>5
  <2>2. QED BY <2>1
<1> HIDE DEF S
<1>4. \A m \in 0 .. n : m \in S
  <2>1. \A m \in 0 .. n : m # n /\ m \in S => m + 1 \in S
    BY <1>3
  <2>2. QED BY <1>2, <2>1, UpTo
<1>5. Worth(K) < 2^n
  BY <1>4 DEF S
<1>6. Finite(K) /\ Worth(K) \in Nat /\ 2^n \in Nat
  <2>1. K \in SUBSET (0 .. n - 1)
    OBVIOUS
  <2>2. Finite(K)
    BY <1>1, <2>1
  <2>3. QED BY <2>2, WorthInt, PowerStep
<1>7. QED BY <1>5, <1>6

LEMMA WorthSubset ==
  ASSUME NEW K, Finite(K), NEW L, L \subseteq K
  PROVE  Finite(L) /\ Finite(K \ L) /\ Worth(K) = Worth(L) + Worth(K \ L)
<1>1. Finite(L) /\ Finite(K \ L)
  BY FS_Subset DEF Finite
<1>2. L \cap (K \ L) = {} /\ K = L \cup (K \ L)
  OBVIOUS
<1>3. Worth(L \cup (K \ L)) = Worth(L) + Worth(K \ L)
  BY <1>1, <1>2, WorthUnion
<1>4. QED BY <1>1, <1>2, <1>3

\* The highest place that only one of two sets has says which spells more.
LEMMA WorthLess ==
  ASSUME NEW n \in Nat, NEW K, K \subseteq 0 .. n - 1, NEW L, L \subseteq 0 .. n - 1,
         NEW j \in L, j \notin K, \A i \in 0 .. n - 1 : i > j => (i \in K <=> i \in L)
  PROVE  Worth(K) < Worth(L)
<1> DEFINE H == {i \in K : i > j}
           A == K \ H
           B == L \ H
<1>0. \A i \in 0 .. n - 1 : i \in Nat
  OBVIOUS
<1>1. H \subseteq K /\ H \subseteq L /\ j \in Nat
  <2>1. j \in Nat
    BY <1>0
  <2>2. ASSUME NEW i \in H PROVE i \in L
    <3>1. i \in K /\ i > j /\ i \in 0 .. n - 1
      OBVIOUS
    <3>2. QED BY <3>1
  <2>3. H \subseteq K
    OBVIOUS
  <2> HIDE DEF H
  <2>4. QED BY <2>1, <2>2, <2>3
<1>2. A \subseteq 0 .. j - 1
  <2>1. ASSUME NEW i \in A PROVE i \in 0 .. j - 1
    <3>1. i \in Nat /\ ~ (i > j) /\ i # j
      BY <1>0
    <3>2. QED BY <1>1, <3>1
  <2>2. QED BY <2>1
<1>3. {j} \subseteq B
  OBVIOUS
<1>4. Finite(K) /\ Finite(L)
  BY WorthBelow
<1> HIDE DEF H
<1>5. Finite(H) /\ Finite(A) /\ Finite(B)
      /\ Worth(K) = Worth(H) + Worth(A) /\ Worth(L) = Worth(H) + Worth(B)
  BY <1>1, <1>4, WorthSubset
<1> HIDE DEF A, B
<1>6. Worth(A) \in Nat /\ Worth(A) < 2^j /\ 2^j \in Nat
  BY <1>1, <1>2, WorthBelow, PowerStep
<1>7. Worth(B) = Worth({j}) + Worth(B \ {j}) /\ Finite(B \ {j}) /\ Worth({j}) = 2^j
  BY <1>1, <1>3, <1>5, WorthSubset, WorthOne
<1>8. Worth(B \ {j}) \in Nat /\ Worth(H) \in Nat
  BY <1>5, <1>7, WorthInt
<1>9. QED BY <1>5, <1>6, <1>7, <1>8

LEMMA MaxOf ==
  ASSUME NEW n \in Nat, NEW S, S \subseteq -1 .. n - 1, S # {}
  PROVE  Max(S) \in S /\ \A y \in S : Max(S) >= y
<1> DEFINE R == {n - y : y \in S}
<1>1. R \subseteq Nat /\ R # {}
  OBVIOUS
<1>2. PICK m \in R : \A k \in R : m <= k
  <2> HIDE DEF R
  <2>1. QED BY <1>1, Least
<1>3. PICK x \in S : m = n - x
  OBVIOUS
<1>4. \A y \in S : x >= y
  <2>1. ASSUME NEW y \in S PROVE x >= y
    <3>1. n - y \in R /\ y \in Int /\ x \in Int
      OBVIOUS
    <3> HIDE DEF R
    <3>2. n - x <= n - y
      BY <1>2, <1>3, <3>1
    <3>3. QED BY <3>1, <3>2
  <2>2. QED BY <2>1
<1>5. QED BY <1>4 DEF Max

\* The place Differs looks for, or -1.
TopDiff(K, L, n) == Max({-1} \cup {j \in 0 .. n - 1 : (j \in L) # (j \in K)})

\* What the place d of the first difference says of two numbers k and l.
Orders(d, inSecond, k, l) ==
  /\ d = -1 => k = l
  /\ d # -1 /\ inSecond => k < l
  /\ d # -1 /\ ~ inSecond => l < k

LEMMA WorthOrder ==
  ASSUME NEW n \in Nat, NEW K, K \subseteq 0 .. n - 1, NEW L, L \subseteq 0 .. n - 1
  PROVE  /\ TopDiff(K, L, n) \in -1 .. n - 1
         /\ Orders(TopDiff(K, L, n), TopDiff(K, L, n) \in L, Worth(K), Worth(L))
<1> DEFINE d == TopDiff(K, L, n)
<1> DEFINE D == {-1} \cup {j \in 0 .. n - 1 : (j \in L) # (j \in K)}
<1>1. D \subseteq -1 .. n - 1 /\ D # {}
  OBVIOUS
<1>2. d \in D /\ \A y \in D : d >= y
  <2> HIDE DEF D
  <2>1. Max(D) \in D /\ \A y \in D : Max(D) >= y
    BY <1>1, MaxOf
  <2>2. d = Max(D)
    BY DEF TopDiff, D
  <2>3. QED BY <2>1, <2>2
<1> HIDE DEF d
<1>3. d \in -1 .. n - 1 /\ \A i \in 0 .. n - 1 : i > d => (i \in K <=> i \in L)
  <2>1. d \in -1 .. n - 1
    BY <1>1, <1>2
  <2>2. ASSUME NEW i \in 0 .. n - 1, i > d, (i \in K) # (i \in L) PROVE FALSE
    <3>1. i \in D
      BY <2>2
    <3> HIDE DEF D
    <3>2. d >= i
      BY <1>2, <3>1
    <3>3. QED BY <2>1, <2>2, <3>2
  <2>3. QED BY <2>1, <2>2
<1>4. Worth(K) \in Nat /\ Worth(L) \in Nat
  BY WorthBelow
<1>5. ASSUME d = -1 PROVE Orders(d, d \in L, Worth(K), Worth(L))
  <2>1. K = L
    <3>1. \A i \in 0 .. n - 1 : i > d
      BY <1>5
    <3>2. \A i \in 0 .. n - 1 : i \in K <=> i \in L
      BY <1>3, <3>1
    <3>3. QED BY <3>2
  <2>2. QED BY <1>4, <1>5, <2>1 DEF Orders
<1>6. ASSUME d # -1 PROVE Orders(d, d \in L, Worth(K), Worth(L))
  <2>1. d \in 0 .. n - 1 /\ (d \in L) # (d \in K)
    BY <1>2, <1>6
  <2>2. CASE d \in L
    <3>1. Worth(K) < Worth(L)
      BY <1>3, <2>1, <2>2, WorthLess
    <3>2. QED BY <1>4, <1>6, <2>2, <3>1 DEF Orders
  <2>3. CASE d \notin L
    <3>1. Worth(L) < Worth(K)
      <4>1. d \in K
        BY <2>1, <2>3
      <4>2. \A i \in 0 .. n - 1 : i > d => (i \in L <=> i \in K)
        BY <1>3
      <4>3. QED BY <2>3, <4>1, <4>2, WorthLess
    <3>2. QED BY <1>4, <1>6, <2>3, <3>1 DEF Orders
  <2>4. QED BY <2>2, <2>3
<1>7. Orders(d, d \in L, Worth(K), Worth(L))
  BY <1>5, <1>6
<1>8. QED BY <1>3, <1>7 DEF d

LEMMA WorthEqual ==
  ASSUME NEW n \in Nat, NEW K, K \subseteq 0 .. n - 1, NEW L, L \subseteq 0 .. n - 1,
         Worth(K) = Worth(L)
  PROVE  K = L
<1> DEFINE d == TopDiff(K, L, n)
<1>1. d = TopDiff(K, L, n)
  OBVIOUS
<1> HIDE DEF d
<1>2. d = -1
  <2>1. Orders(d, d \in L, Worth(K), Worth(L))
    BY WorthOrder DEF d
  <2>2. Worth(K) \in Nat /\ Worth(L) \in Nat
    BY WorthBelow
  <2>3. QED BY <2>1, <2>2 DEF Orders
<1> DEFINE D == {-1} \cup {j \in 0 .. n - 1 : (j \in L) # (j \in K)}
<1>3. D \subseteq -1 .. n - 1 /\ D # {} /\ d = Max(D)
  BY <1>1 DEF TopDiff
<1>4. \A y \in D : d >= y
  <2> HIDE DEF D
  <2>1. QED BY <1>3, MaxOf
<1>5. ASSUME NEW j \in 0 .. n - 1, (j \in L) # (j \in K) PROVE FALSE
  <2>1. j \in D
    BY <1>5
  <2> HIDE DEF D
  <2>2. d >= j
    BY <1>4, <2>1
  <2>3. QED BY <1>2, <2>2
<1>6. QED BY <1>5

(***************************************************************************)
(* Values and their bits.                                                  *)
(***************************************************************************)

Bits(v, n) == {j \in 0 .. n - 1 : (v \div (2^j)) % 2 = 1}

LEMMA Division ==
  ASSUME NEW m \in Nat, m >= 1, NEW q \in Int, NEW r \in Int, 0 <= r, r < m
  PROVE  (m * q + r) % m = r /\ (m * q + r) \div m = q
OBVIOUS

LEMMA Over ==
  ASSUME NEW m \in Nat, m >= 1, NEW r \in Int, 0 <= r, r < m
  PROVE  r % m = r /\ (m + r) % m = r
<1>1. \A q \in Int : (m * q + r) % m = r
  BY Division
<1>2. m * 0 + r = r /\ m * 1 + r = m + r
  OBVIOUS
<1>3. (m * 0 + r) % m = r
  BY <1>1
<1>4. ASSUME NEW q \in Int, q = 1 PROVE (m + r) % m = r
  <2>1. m * q + r = m + r
    BY <1>4
  <2>2. (m * q + r) % m = r
    BY <1>1
  <2>3. QED BY <2>1, <2>2
<1>5. QED BY <1>2, <1>3, <1>4

\* A number below a power p of two, and the bit above it.
LEMMA NextBit ==
  ASSUME NEW v \in Int, NEW p \in Nat, p >= 1
  PROVE  v % (p + p) = (v % p) + (IF (v \div p) % 2 = 1 THEN p ELSE 0)
<1> DEFINE q == v \div p
           r == v % p
           h == q \div 2
<1>1. q \in Int /\ r \in Int /\ 0 <= r /\ r < p /\ v = p * q + r
  OBVIOUS
<1> HIDE DEF q, r
<1>2. h \in Int /\ q % 2 \in {0, 1} /\ q = 2 * h + (q % 2)
  BY <1>1
<1> HIDE DEF h
<1>3. CASE q % 2 = 1
  <2>1. v = (p + p) * h + (p + r) /\ 0 <= p + r /\ p + r < p + p
    BY <1>1, <1>2, <1>3
  <2>2. v % (p + p) = p + r
    <3>1. p + p \in Nat /\ p + p >= 1 /\ p + r \in Int
      BY <1>1
    <3>2. ((p + p) * h + (p + r)) % (p + p) = p + r
      BY <1>2, <2>1, <3>1, Division
    <3>3. QED BY <2>1, <3>2
  <2>3. QED BY <1>1, <1>3, <2>2 DEF q, r
<1>4. CASE q % 2 = 0
  <2>1. v = (p + p) * h + r /\ 0 <= r /\ r < p + p
    BY <1>1, <1>2, <1>4
  <2>2. v % (p + p) = r
    <3>1. p + p \in Nat /\ p + p >= 1
      OBVIOUS
    <3>2. ((p + p) * h + r) % (p + p) = r
      BY <1>1, <1>2, <2>1, <3>1, Division
    <3>3. QED BY <2>1, <3>2
  <2>3. QED BY <1>1, <1>4, <2>2 DEF q, r
<1>5. QED BY <1>2, <1>3, <1>4

LEMMA ModOne == ASSUME NEW v \in Int PROVE v % 1 = 0
OBVIOUS

\* The first n bits of v spell v modulo 2^n.
LEMMA BitsWorth ==
  ASSUME NEW v \in Int, NEW n \in Nat
  PROVE  Worth(Bits(v, n)) = v % (2^n)
<1> DEFINE S == {m \in Nat : Worth(Bits(v, m)) = v % (2^m)}
<1>1. 0 \in S
  <2>1. Bits(v, 0) = {}
    BY DEF Bits
  <2>2. v % (2^0) = 0
    BY PowerZero, ModOne
  <2>3. QED BY <2>1, <2>2, WorthEmpty
<1>2. ASSUME NEW m \in Nat, m \in S PROVE m + 1 \in S
  <2>1. Worth(Bits(v, m)) = v % (2^m)
    BY <1>2
  <2>2. 2^m \in Nat /\ 2^m >= 1 /\ 2^(m + 1) = 2^m + 2^m
    BY PowerStep
  <2>3. Bits(v, m) \subseteq 0 .. m - 1 /\ m \notin Bits(v, m)
    BY DEF Bits
  <2>4. Finite(Bits(v, m)) /\ Worth(Bits(v, m)) \in Nat
    BY <2>3, WorthBelow
  <2>5. v % (2^m + 2^m) = (v % (2^m)) + (IF (v \div (2^m)) % 2 = 1 THEN 2^m ELSE 0)
    BY <2>2, NextBit
  <2> DEFINE HasBit(j) == (v \div (2^j)) % 2 = 1
  <2>9. /\ Bits(v, m) = {j \in 0 .. m - 1 : HasBit(j)}
        /\ Bits(v, m + 1) = {j \in 0 .. (m + 1) - 1 : HasBit(j)}
    BY DEF Bits
  <2>10. HasBit(m) <=> (v \div (2^m)) % 2 = 1
    OBVIOUS
  <2> HIDE DEF HasBit
  <2>6. CASE (v \div (2^m)) % 2 = 1
    <3>1. Bits(v, m + 1) = Bits(v, m) \cup {m} /\ Bits(v, m) \cap {m} = {}
      BY <2>3, <2>6, <2>9, <2>10
    <3>2. Worth(Bits(v, m) \cup {m}) = Worth(Bits(v, m)) + Worth({m})
          /\ Worth({m}) = 2^m
      BY <2>4, <3>1, WorthOne, WorthUnion
    <3>3. Worth(Bits(v, m + 1)) = v % (2^(m + 1))
      BY <2>1, <2>2, <2>4, <2>5, <2>6, <3>1, <3>2
    <3>4. QED BY <3>3
  <2>7. CASE (v \div (2^m)) % 2 # 1
    <3>1. Bits(v, m + 1) = Bits(v, m)
      BY <2>7, <2>9, <2>10
    <3>2. Worth(Bits(v, m + 1)) = v % (2^(m + 1))
      BY <2>1, <2>2, <2>4, <2>5, <2>7, <3>1
    <3>3. QED BY <3>2
  <2>8. QED BY <2>6, <2>7
<1> HIDE DEF S
<1>3. \A m \in 0 .. n : m \in S
  <2>1. \A m \in 0 .. n : m # n /\ m \in S => m + 1 \in S
    BY <1>2
  <2>2. QED BY <1>1, <2>1, UpTo
<1>4. QED BY <1>3 DEF S

\* The weight of the sign, and the number of values.
Half == 2^(W - 1)

LEMMA Halves == Half \in Nat /\ Half >= 1 /\ 2^W = Half + Half /\ W - 1 \in Nat /\ W \in Nat
<1>1. W - 1 \in Nat /\ (W - 1) + 1 = W /\ W \in Nat
  BY WidthAssumption
<1>2. 2^(W - 1) \in Nat /\ 2^(W - 1) >= 1 /\ 2^((W - 1) + 1) = 2^(W - 1) + 2^(W - 1)
  BY <1>1, PowerStep
<1>3. QED BY <1>1, <1>2 DEF Half

LEMMA ValueIs == \A v : v \in Value <=> v \in Int /\ -Half <= v /\ v < Half
BY Halves DEF Value, Half

LEMMA WrapIs == ASSUME NEW n \in Int PROVE Wrap(n) = ((n + Half) % (Half + Half)) - Half
BY Halves DEF Wrap, Half

\* Remainders of the numbers that values are read as.
LEMMA Remainders ==
  ASSUME NEW h \in Nat, h >= 1, NEW v \in Int, -h <= v, v < h
  PROVE  /\ v % h = (IF v < 0 THEN v + h ELSE v)
         /\ v % (h + h) = (IF v < 0 THEN v + (h + h) ELSE v)
         /\ (v \div h) % 2 = 1 <=> v < 0
<1>1. CASE v < 0
  <2>1. v = h * (-1) + (v + h) /\ 0 <= v + h /\ v + h < h
        /\ v = (h + h) * (-1) + (v + (h + h)) /\ 0 <= v + (h + h) /\ v + (h + h) < h + h
    BY <1>1
  <2>2. v % h = v + h /\ v \div h = -1 /\ v % (h + h) = v + (h + h)
    BY <2>1
  <2>3. ASSUME NEW q \in Int, q = -1 PROVE q % 2 = 1
    <3>1. 2 * q + 1 = q
      BY <2>3
    <3>2. (2 * q + 1) % 2 = 1
      BY Division
    <3>3. QED BY <3>1, <3>2
  <2> DEFINE q == v \div h
  <2>5. q \in Int /\ q = -1
    BY <2>2
  <2> HIDE DEF q
  <2>6. q % 2 = 1
    BY <2>3, <2>5
  <2>7. (v \div h) % 2 = 1
    BY <2>6 DEF q
  <2>4. QED BY <1>1, <2>2, <2>7
<1>2. CASE ~ (v < 0)
  <2>1. v = h * 0 + v /\ 0 <= v /\ v < h /\ v = (h + h) * 0 + v /\ v < h + h
    BY <1>2
  <2>2. v % h = v /\ v \div h = 0 /\ v % (h + h) = v
    BY <2>1
  <2>3. 0 % 2 = 0
    OBVIOUS
  <2>4. QED BY <1>2, <2>2, <2>3
<1>3. QED BY <1>1, <1>2

\* The number of bits of a value.
LEMMA LenIs ==
  ASSUME NEW v \in Int
  PROVE  /\ Len64(v) \in 0 .. W /\ v % (2^W) \in Nat /\ v % (2^W) < 2^Len64(v)
         /\ \A k \in 0 .. Len64(v) - 1 : v % (2^W) >= 2^k
<1> DEFINE u == v % (2^W)
           T == {n \in 0 .. W : u < 2^n}
<1>1. u \in Nat /\ u < 2^W /\ W \in Nat
  <2>1. 2^W \in Nat /\ 2^W >= 1 /\ W \in Nat
    BY Halves
  <2>2. QED BY <2>1
<1> HIDE DEF u
<1>2. T \subseteq Nat /\ T # {}
  BY <1>1
<1>3. PICK n \in T : \A m \in T : n <= m
  <2> HIDE DEF T
  <2>1. QED BY <1>2, Least
<1>4. n \in 0 .. W /\ u < 2^n /\ \A k \in 0 .. n - 1 : u >= 2^k
  <2>1. n \in 0 .. W /\ u < 2^n
    OBVIOUS
  <2>2. ASSUME NEW k \in 0 .. n - 1 PROVE u >= 2^k
    <3>1. k \in Nat /\ k \in 0 .. W /\ ~ (n <= k)
      BY <1>1, <2>1
    <3>2. k \notin T
      <4> HIDE DEF T
      <4>1. QED BY <1>3, <3>1
    <3>3. ~ (u < 2^k) /\ 2^k \in Nat
      BY <3>1, <3>2, PowerStep
    <3>4. QED BY <1>1, <3>3
  <2>3. QED BY <2>1, <2>2
<1>5. Len64(v) = CHOOSE m \in 0 .. W : u < 2^m /\ \A k \in 0 .. m - 1 : u >= 2^k
  BY DEF Len64, u
<1>6. Len64(v) \in 0 .. W /\ u < 2^Len64(v) /\ \A k \in 0 .. Len64(v) - 1 : u >= 2^k
  BY <1>4, <1>5
<1>7. QED BY <1>1, <1>6 DEF u

ValueBits(v, n) == {j \in 0 .. n - 1 : Bit(v, j)}

LEMMA ValueBitsAre ==
  ASSUME NEW v \in Int, NEW n \in Nat, n <= W
  PROVE  ValueBits(v, n) = Bits(v, n)
<1>1. \A j \in 0 .. n - 1 : j \in 0 .. W - 1
  BY Halves
<1>2. QED BY <1>1 DEF ValueBits, Bits, Bit

\* The places below the sign of a width.
PlaceCount(x) == IF x = W THEN W - 1 ELSE x

LEMMA PlacesAre ==
  ASSUME NEW x \in Nat, x <= W
  PROVE  Places(x) = 0 .. PlaceCount(x) - 1 /\ PlaceCount(x) \in Nat /\ PlaceCount(x) <= W - 1
<1>1. W - 1 \in Nat /\ (W - 1) - 1 = W - 2
  BY Halves
<1>2. CASE x = W
  BY <1>1, <1>2 DEF Places, PlaceCount
<1>3. CASE x # W
  <2>1. Places(x) = 0 .. x - 1 /\ PlaceCount(x) = x
    BY <1>3 DEF Places, PlaceCount
  <2>2. x <= W - 1
    BY <1>1, <1>3, Halves
  <2>3. QED BY <2>1, <2>2
<1>4. QED BY <1>2, <1>3

LEMMA SignBit == ASSUME NEW v \in Value PROVE Bit(v, W - 1) <=> v < 0
<1>1. v \in Int /\ -Half <= v /\ v < Half /\ Half \in Nat /\ Half >= 1 /\ W - 1 \in 0 .. W - 1
  BY ValueIs, Halves
<1>2. (v \div Half) % 2 = 1 <=> v < 0
  BY <1>1, Remainders
<1>3. QED BY <1>1, <1>2 DEF Bit, Half

\* A value is what its bits spell below a width that holds it, less the
\* weight of the sign.
LEMMA ReadValue ==
  ASSUME NEW v \in Value, NEW x \in Nat, Len64(v) <= x, x <= W
  PROVE  /\ ValueBits(v, PlaceCount(x)) \subseteq 0 .. PlaceCount(x) - 1
         /\ Worth(ValueBits(v, PlaceCount(x))) =
              IF NegativeAt(x, v) THEN v + Half ELSE v
         /\ NegativeAt(x, v) <=> v < 0
<1> DEFINE p == PlaceCount(x)
<1>1. v \in Int /\ -Half <= v /\ v < Half /\ Half \in Nat /\ Half >= 1 /\ 2^W = Half + Half
  BY ValueIs, Halves
<1>2. p \in Nat /\ p <= W /\ p <= W - 1 /\ W - 1 \in Nat /\ W \in Nat
  BY PlacesAre, Halves
<1>3. Worth(ValueBits(v, p)) = v % (2^p)
  BY <1>1, <1>2, ValueBitsAre, BitsWorth
<1>4. v % Half = (IF v < 0 THEN v + Half ELSE v)
      /\ v % (Half + Half) = (IF v < 0 THEN v + (Half + Half) ELSE v)
  BY <1>1, Remainders
<1>5. Bit(v, W - 1) <=> v < 0
  BY SignBit
<1>6. v % (2^p) = IF NegativeAt(x, v) THEN v + Half ELSE v
  <2>1. CASE x = W
    BY <1>4, <1>5, <2>1 DEF NegativeAt, PlaceCount, Half
  <2>2. CASE x # W
    <3>1. p = x /\ x <= W - 1
      BY <1>2, <2>2 DEF PlaceCount
    <3>2. v % (2^W) < 2^Len64(v) /\ Len64(v) \in Nat
      BY <1>1, LenIs, Halves
    <3>3. 2^Len64(v) <= 2^x /\ 2^x <= Half /\ 2^x \in Nat /\ 2^Len64(v) \in Nat /\ 2^x >= 1
      <4>1. 2^Len64(v) \in Nat /\ 2^x \in Nat /\ 2^x >= 1
        BY <3>2, PowerStep
      <4>2. Len64(v) < x => 2^Len64(v) < 2^x
        BY <3>2, PowerOrder
      <4>3. x < W - 1 => 2^x < 2^(W - 1)
        BY <1>2, PowerOrder
      <4>4. Len64(v) = x => 2^Len64(v) = 2^x
        OBVIOUS
      <4>5. x = W - 1 => 2^x = 2^(W - 1)
        OBVIOUS
      <4>6. Len64(v) < x \/ Len64(v) = x
        BY <3>2
      <4>7. x < W - 1 \/ x = W - 1
        BY <1>2, <3>1
      <4>8. QED BY <1>1, <4>1, <4>2, <4>3, <4>4, <4>5, <4>6, <4>7 DEF Half
    <3>4. ~ (v < 0)
      BY <1>1, <1>4, <3>2, <3>3
    <3>5. 0 <= v /\ v < 2^x
      BY <1>1, <1>4, <3>2, <3>3, <3>4
    <3>6. v % (2^x) = v
      BY <1>1, <3>3, <3>5, Over
    <3>7. QED BY <2>2, <3>1, <3>6 DEF NegativeAt
  <2>3. QED BY <2>1, <2>2
<1>7. NegativeAt(x, v) <=> v < 0
  <2>1. CASE x = W
    BY <1>5, <2>1 DEF NegativeAt
  <2>2. CASE x # W
    <3>1. ~ NegativeAt(x, v)
      BY <2>2 DEF NegativeAt
    <3>2. v % (2^p) = v /\ 2^p \in Nat /\ 2^p >= 1
      BY <1>2, <1>6, <3>1, PowerStep
    <3>3. v >= 0
      <4>1. \A m \in Nat : m >= 1 /\ v % m = v => v >= 0
        BY <1>1
      <4>2. QED BY <3>2, <4>1
    <3>4. QED BY <1>1, <3>1, <3>3
  <2>3. QED BY <2>1, <2>2
<1>8. ValueBits(v, p) \subseteq 0 .. p - 1
  BY DEF ValueBits
<1>9. QED BY <1>3, <1>6, <1>7, <1>8

(***************************************************************************)
(* The values of an index.                                                 *)
(***************************************************************************)

Shaped(b) == BitCount(b) \in Nat /\ DOMAIN b.bA = 0 .. BitCount(b) - 1

LEMMA ShapedIs ==
  ASSUME NEW b, NEW n \in Nat, DOMAIN b.bA = 0 .. n - 1
  PROVE  BitCount(b) = n /\ Shaped(b)
<1>1. Cardinality(0 .. n - 1) = n
  BY FS_Interval
<1>2. BitCount(b) = n
  BY <1>1 DEF BitCount
<1>3. QED BY <1>2 DEF Shaped

\* The places below n where column c has a bit.
Held(b, c, n) == {j \in 0 .. n - 1 : c \in Slice(b, j)}

LEMMA HeldAbove ==
  ASSUME NEW b, Shaped(b), NEW c, NEW n \in Nat, BitCount(b) <= n, NEW m \in Nat, n <= m
  PROVE  Held(b, c, m) = Held(b, c, n)
<1>1. \A j \in 0 .. m - 1 : c \in Slice(b, j) => j \in 0 .. n - 1
  BY DEF Shaped, Slice
<1>2. QED BY <1>1 DEF Held

LEMMA GetIs ==
  ASSUME NEW b, Shaped(b), NEW c
  PROVE  GetValue(b, c) = Wrap(Worth(Held(b, c, W)))
<1> DEFINE K == {k \in DOMAIN b.bA : k < W /\ c \in b.bA[k]}
<1>1. K = Held(b, c, W)
  BY Halves DEF Shaped, Held, Slice
<1>2. Finite(K)
  <2>1. Held(b, c, W) \subseteq 0 .. W - 1
    BY DEF Held
  <2>2. Finite(Held(b, c, W))
    BY <2>1, WorthBelow, Halves
  <2> HIDE DEF K
  <2>3. QED BY <1>1, <2>2
<1>3. GetValue(b, c) = Wrap(SumSet({2^j : j \in K}))
  BY DEF GetValue, Spelled
<1> HIDE DEF K
<1>4. SumSet({2^j : j \in K}) = Worth(K)
  BY <1>2, SumPowers
<1>5. QED BY <1>1, <1>3, <1>4

\* What places below W spell when the highest is the sign.
LEMMA SignedWorth ==
  ASSUME NEW K, K \subseteq 0 .. W - 1
  PROVE  /\ Worth(K \ {W - 1}) \in Nat /\ Worth(K \ {W - 1}) < Half
         /\ Wrap(Worth(K)) = IF W - 1 \in K THEN Worth(K \ {W - 1}) - Half
                             ELSE Worth(K \ {W - 1})
<1> DEFINE L == K \ {W - 1}
<1>1. W - 1 \in Nat /\ W \in Nat /\ Half \in Nat /\ Half >= 1
  BY Halves
<1>2. L \subseteq 0 .. (W - 1) - 1
  BY <1>1
<1>3. K = IF W - 1 \in K THEN L \cup {W - 1} ELSE L
  OBVIOUS
<1>4. L \cap {W - 1} = {}
  OBVIOUS
<1> HIDE DEF L
<1>5. Finite(L) /\ Worth(L) \in Nat /\ Worth(L) < Half
  BY <1>1, <1>2, WorthBelow DEF Half
<1>6. Worth(K) = IF W - 1 \in K THEN Worth(L) + Half ELSE Worth(L)
  <2>1. CASE W - 1 \notin K
    BY <1>3, <2>1
  <2>2. CASE W - 1 \in K
    <3>1. Worth(L \cup {W - 1}) = Worth(L) + Worth({W - 1})
      BY <1>1, <1>4, <1>5, WorthOne, WorthUnion
    <3>2. Worth({W - 1}) = Half
      BY <1>1, WorthOne DEF Half
    <3>3. QED BY <1>3, <2>2, <3>1, <3>2
  <2>3. QED BY <2>1, <2>2
<1>7. Worth(K) \in Int
  BY <1>1, <1>5, <1>6
<1>8. Wrap(Worth(K)) = ((Worth(K) + Half) % (Half + Half)) - Half
  BY <1>7, WrapIs
<1>9. CASE W - 1 \in K
  <2>1. Worth(K) + Half = (Half + Half) + Worth(L)
    BY <1>1, <1>5, <1>6, <1>9
  <2>2. ((Half + Half) + Worth(L)) % (Half + Half) = Worth(L)
    <3>1. Half + Half \in Nat /\ Half + Half >= 1 /\ Worth(L) < Half + Half
      BY <1>1, <1>5
    <3>2. QED BY <1>5, <3>1, Over
  <2>3. QED BY <1>5, <1>8, <1>9, <2>1, <2>2 DEF L
<1>10. CASE W - 1 \notin K
  <2>1. Worth(K) + Half = Worth(L) + Half
    BY <1>1, <1>5, <1>6, <1>10
  <2>2. (Worth(L) + Half) % (Half + Half) = Worth(L) + Half
    <3>1. Half + Half \in Nat /\ Half + Half >= 1 /\ Worth(L) + Half < Half + Half
      BY <1>1, <1>5
    <3>2. QED BY <1>1, <1>5, <3>1, Over
  <2>3. (Worth(L) + Half) - Half = Worth(L)
    BY <1>1, <1>5
  <2>4. QED BY <1>5, <1>8, <1>10, <2>1, <2>2, <2>3 DEF L
<1>11. QED BY <1>9, <1>10

SignAt(b, c, x) == x = W /\ c \in Slice(b, W - 1)

LEMMA ReadColumn ==
  ASSUME NEW b, Shaped(b), NEW c, NEW x \in Nat, BitCount(b) <= x, x <= W
  PROVE  /\ Held(b, c, PlaceCount(x)) \subseteq 0 .. PlaceCount(x) - 1
         /\ Worth(Held(b, c, PlaceCount(x))) \in Nat
         /\ Worth(Held(b, c, PlaceCount(x))) < Half
         /\ GetValue(b, c) = IF SignAt(b, c, x)
                             THEN Worth(Held(b, c, PlaceCount(x))) - Half
                             ELSE Worth(Held(b, c, PlaceCount(x)))
<1> DEFINE K == Held(b, c, W)
           p == PlaceCount(x)
<1>1. K \subseteq 0 .. W - 1 /\ Held(b, c, p) \subseteq 0 .. p - 1
  BY DEF Held
<1>2. W - 1 \in Nat /\ W \in Nat /\ Half \in Nat
  BY Halves
<1>3. GetValue(b, c) = Wrap(Worth(K))
  BY GetIs
<1>4. K \ {W - 1} = Held(b, c, p) /\ (W - 1 \in K <=> SignAt(b, c, x))
  <2>1. CASE x = W
    <3>1. p = W - 1
      BY <2>1 DEF PlaceCount
    <3>2. \A j : j \in 0 .. W - 1 /\ j # W - 1 <=> j \in 0 .. (W - 1) - 1
      BY <1>2
    <3>3. W - 1 \in 0 .. W - 1
      BY <1>2
    <3>4. QED BY <2>1, <3>1, <3>2, <3>3 DEF Held, SignAt
  <2>2. CASE x # W
    <3>1. p = x
      BY <2>2 DEF PlaceCount
    <3>2. K = Held(b, c, x)
      BY <1>2, HeldAbove
    <3>3. W - 1 \notin Held(b, c, x)
      BY <1>2, <2>2 DEF Held
    <3>4. QED BY <2>2, <3>1, <3>2, <3>3 DEF SignAt
  <2>3. QED BY <2>1, <2>2
<1> HIDE DEF K, p
<1>5. /\ Worth(K \ {W - 1}) \in Nat /\ Worth(K \ {W - 1}) < Half
      /\ Wrap(Worth(K)) = IF W - 1 \in K THEN Worth(K \ {W - 1}) - Half
                          ELSE Worth(K \ {W - 1})
  BY <1>1, SignedWorth
<1>6. Worth(K \ {W - 1}) = Worth(Held(b, c, p))
  BY <1>4
<1>7. QED BY <1>1, <1>3, <1>4, <1>5, <1>6 DEF p

(***************************************************************************)
(* Comparisons.                                                            *)
(***************************************************************************)

LEMMA DiffersIs ==
  ASSUME NEW b, NEW c, NEW v, NEW x \in Nat, x <= W
  PROVE  Differs(b, c, v, x) =
           TopDiff(Held(b, c, PlaceCount(x)), ValueBits(v, PlaceCount(x)), PlaceCount(x))
<1> DEFINE p == PlaceCount(x)
           M == {j \in 0 .. p - 1 : Bit(v, j) # (c \in Slice(b, j))}
           R == {j \in 0 .. p - 1 : (j \in ValueBits(v, p)) # (j \in Held(b, c, p))}
<1>1. Places(x) = 0 .. p - 1
  BY PlacesAre
<1>2. \A j \in 0 .. p - 1 : /\ j \in ValueBits(v, p) <=> Bit(v, j)
                            /\ j \in Held(b, c, p) <=> c \in Slice(b, j)
  BY DEF ValueBits, Held
<1> HIDE DEF p
<1>3. M = R
  <2>1. ASSUME NEW j \in 0 .. p - 1
        PROVE  (Bit(v, j) # (c \in Slice(b, j))) <=>
                 ((j \in ValueBits(v, p)) # (j \in Held(b, c, p)))
    <3>1. Bit(v, j) \in BOOLEAN
      BY DEF Bit
    <3>2. QED BY <1>2, <3>1
  <2>2. QED BY <2>1
<1>4. Differs(b, c, v, x) = Max({-1} \cup M)
  BY <1>1 DEF Differs
<1>5. TopDiff(Held(b, c, p), ValueBits(v, p), p) = Max({-1} \cup R)
  BY DEF TopDiff
<1> HIDE DEF M, R
<1>6. QED BY <1>3, <1>4, <1>5 DEF p

\* A width that an index and a value are both read to.
Reads(x, b, v) == x \in Nat /\ BitCount(b) <= x /\ Len64(v) <= x /\ x <= W

\* Where the signs agree, the first difference orders the values.
LEMMA SameSign ==
  ASSUME NEW b, Shaped(b), NEW c, NEW v \in Value, NEW x, Reads(x, b, v),
         SignAt(b, c, x) <=> NegativeAt(x, v)
  PROVE  /\ GetValue(b, c) \in Int
         /\ Differs(b, c, v, x) \in Int
         /\ Orders(Differs(b, c, v, x), Bit(v, Differs(b, c, v, x)), GetValue(b, c), v)
<1> DEFINE p == PlaceCount(x)
           K == Held(b, c, p)
           L == ValueBits(v, p)
           d == TopDiff(K, L, p)
           g == GetValue(b, c)
<1>1. x \in Nat /\ BitCount(b) <= x /\ Len64(v) <= x /\ x <= W
  BY DEF Reads
<1>2. p \in Nat
  BY <1>1, PlacesAre
<1>3. /\ K \subseteq 0 .. p - 1 /\ Worth(K) \in Nat
      /\ g = IF SignAt(b, c, x) THEN Worth(K) - Half ELSE Worth(K)
  BY <1>1, ReadColumn
<1>4. /\ L \subseteq 0 .. p - 1
      /\ Worth(L) = IF NegativeAt(x, v) THEN v + Half ELSE v
  BY <1>1, ReadValue
<1>5. Differs(b, c, v, x) = d
  BY <1>1, DiffersIs
<1>6. d # -1 => (d \in L <=> Bit(v, d))
  <2>1. d \in -1 .. p - 1
    <3> HIDE DEF K, L, p
    <3>1. TopDiff(K, L, p) \in -1 .. p - 1
      BY <1>2, <1>3, <1>4, WorthOrder
    <3>2. QED BY <3>1
  <2> HIDE DEF d
  <2>2. d # -1 => d \in 0 .. p - 1
    BY <1>2, <2>1
  <2>3. QED BY <2>2 DEF ValueBits
<1> HIDE DEF p, K, L, g
<1>7. d \in -1 .. p - 1 /\ Orders(d, d \in L, Worth(K), Worth(L))
  BY <1>2, <1>3, <1>4, WorthOrder
<1> HIDE DEF d
<1>8. v \in Int /\ Half \in Nat
  BY ValueIs, Halves
<1>9. g \in Int
  BY <1>3, <1>8
<1>10. Orders(d, Bit(v, d), g, v)
  <2>1. /\ d = -1 => Worth(K) = Worth(L)
        /\ d # -1 /\ d \in L => Worth(K) < Worth(L)
        /\ d # -1 /\ ~ (d \in L) => Worth(L) < Worth(K)
    BY <1>7 DEF Orders
  <2>2. /\ Worth(K) = Worth(L) => g = v
        /\ Worth(K) < Worth(L) => g < v
        /\ Worth(L) < Worth(K) => v < g
    BY <1>3, <1>4, <1>8
  <2>3. QED BY <1>6, <2>1, <2>2 DEF Orders
<1>11. d \in Int
  BY <1>2, <1>7
<1>12. QED BY <1>5, <1>9, <1>10, <1>11 DEF g

\* Where they do not, the negative value is the smaller one.
LEMMA OtherSign ==
  ASSUME NEW b, Shaped(b), NEW c, NEW v \in Value, NEW x, Reads(x, b, v)
  PROVE  /\ GetValue(b, c) \in Int /\ v \in Int
         /\ NegativeAt(x, v) <=> v < 0
         /\ SignAt(b, c, x) <=> GetValue(b, c) < 0
<1>1. x \in Nat /\ BitCount(b) <= x /\ Len64(v) <= x /\ x <= W
  BY DEF Reads
<1> DEFINE w == Worth(Held(b, c, PlaceCount(x)))
<1>2. w \in Nat /\ w < Half /\ GetValue(b, c) = IF SignAt(b, c, x) THEN w - Half ELSE w
  BY <1>1, ReadColumn
<1>3. NegativeAt(x, v) <=> v < 0
  BY <1>1, ReadValue
<1> HIDE DEF w
<1>4. QED BY <1>2, <1>3, ValueIs, Halves

LEMMA ReadsWidth ==
  ASSUME NEW b, Shaped(b), BitCount(b) <= W, NEW v \in Value
  PROVE  Reads(Width(b, v), b, v)
<1>1. Len64(v) \in 0 .. W /\ W \in Nat
  BY ValueIs, LenIs, Halves
<1>2. QED BY <1>1 DEF Reads, Width, Larger, Shaped

\* The choices of Compare for one column.
Eq(d) == d = -1
Lt(d, bit, start, neg) ==
  ~ Eq(d) /\ IF bit THEN ~ start \/ neg ELSE neg /\ ~ start
Gt(d, bit, start, neg) ==
  ~ Eq(d) /\ IF bit THEN start /\ ~ neg ELSE start \/ ~ neg
Chosen(op, d, bit, start, neg) ==
  CASE op = "LT" -> Lt(d, bit, start, neg)
    [] op = "LE" -> Lt(d, bit, start, neg) \/ (Eq(d) /\ (~ start \/ neg))
    [] op = "EQ" -> Eq(d)
    [] op = "GE" -> Gt(d, bit, start, neg) \/ (Eq(d) /\ (start \/ ~ neg))
    [] op = "GT" -> Gt(d, bit, start, neg)

LEMMA CompareIs ==
  ASSUME NEW b, NEW op, NEW v, NEW S, NEW c \in S, NEW x, x = Width(b, v),
         NEW comp, comp = CompValue(b, c, v, x),
         NEW d, d = Differs(b, c, comp, x)
  PROVE  c \in Compare(b, op, v, S) <=>
           Chosen(op, d, Bit(comp, d), NegativeAt(x, v), SignAt(b, c, x))
BY DEF Compare, Chosen, Lt, Gt, Eq, SignAt

LEMMA ChosenIs ==
  ASSUME NEW d, NEW bit, NEW start, NEW neg
  PROVE  /\ Chosen("LT", d, bit, start, neg) <=> Lt(d, bit, start, neg)
         /\ Chosen("LE", d, bit, start, neg) <=>
              (Lt(d, bit, start, neg) \/ (Eq(d) /\ (~ start \/ neg)))
         /\ Chosen("EQ", d, bit, start, neg) <=> Eq(d)
         /\ Chosen("GE", d, bit, start, neg) <=>
              (Gt(d, bit, start, neg) \/ (Eq(d) /\ (start \/ ~ neg)))
         /\ Chosen("GT", d, bit, start, neg) <=> Gt(d, bit, start, neg)
BY DEF Chosen

\* Values are negated only where the signs differ.
LEMMA CompValueIs ==
  ASSUME NEW b, NEW c, NEW v, NEW x, SignAt(b, c, x) <=> NegativeAt(x, v)
  PROVE  CompValue(b, c, v, x) = v
<1>1. (x = W /\ c \in Slice(b, W - 1)) <=> NegativeAt(x, v)
  BY DEF SignAt
<1>2. NegativeAt(x, v) \in BOOLEAN
  BY DEF NegativeAt
<1>3. ~ ((x = W /\ c \in Slice(b, W - 1)) # NegativeAt(x, v))
  BY <1>1, <1>2
<1>4. QED BY <1>3 DEF CompValue

\* LE and GE, of any signs.
LEMMA SignedExact ==
  ASSUME NEW b, Shaped(b), BitCount(b) <= W, NEW v \in Value, NEW S, NEW c \in S
  PROVE  /\ c \in Compare(b, "LE", v, S) <=> GetValue(b, c) <= v
         /\ c \in Compare(b, "GE", v, S) <=> GetValue(b, c) >= v
<1> DEFINE x == Width(b, v)
           comp == CompValue(b, c, v, x)
           d == Differs(b, c, comp, x)
           g == GetValue(b, c)
           start == NegativeAt(x, v)
           neg == SignAt(b, c, x)
           bit == Bit(comp, d)
           lt == Lt(d, bit, start, neg)
           gt == Gt(d, bit, start, neg)
<1>1. Reads(x, b, v)
  BY ReadsWidth
<1>2. /\ c \in Compare(b, "LE", v, S) <=> Chosen("LE", d, bit, start, neg)
      /\ c \in Compare(b, "GE", v, S) <=> Chosen("GE", d, bit, start, neg)
  BY CompareIs
<1>3. g \in Int /\ v \in Int /\ (start <=> v < 0) /\ (neg <=> g < 0)
  BY <1>1, OtherSign
<1>4. /\ Chosen("LE", d, bit, start, neg) <=> lt \/ (Eq(d) /\ (~ start \/ neg))
      /\ Chosen("GE", d, bit, start, neg) <=> gt \/ (Eq(d) /\ (start \/ ~ neg))
  BY ChosenIs
<1>5. ASSUME neg <=> start PROVE Orders(d, bit, g, v)
  <2>1. comp = v
    BY <1>5, CompValueIs
  <2>2. Orders(Differs(b, c, v, x), Bit(v, Differs(b, c, v, x)), GetValue(b, c), v)
    <3> HIDE DEF x
    <3>1. QED BY <1>1, <1>5, SameSign
  <2>3. QED BY <2>1, <2>2
<1> HIDE DEF x, comp, d, g, start, neg, bit, lt, gt
<1>6. /\ lt \/ (Eq(d) /\ (~ start \/ neg)) <=> g <= v
      /\ gt \/ (Eq(d) /\ (start \/ ~ neg)) <=> g >= v
  <2>1. /\ lt <=> ~ Eq(d) /\ IF bit THEN ~ start \/ neg ELSE neg /\ ~ start
        /\ gt <=> ~ Eq(d) /\ IF bit THEN start /\ ~ neg ELSE start \/ ~ neg
    BY DEF lt, gt, Lt, Gt
  <2>2. CASE neg <=> start
    <3>1. /\ Eq(d) => g = v
          /\ ~ Eq(d) /\ bit => g < v
          /\ ~ Eq(d) /\ ~ bit => v < g
      BY <1>5, <2>2 DEF Orders, Eq
    <3>2. QED BY <1>3, <2>1, <2>2, <3>1
  <2>3. CASE ~ (neg <=> start)
    BY <1>3, <2>1, <2>3
  <2>4. QED BY <2>2, <2>3
<1>7. QED BY <1>2, <1>4, <1>6 DEF g

\* The others, where neither is negative.
LEMMA PlainExact ==
  ASSUME NEW b, Shaped(b), BitCount(b) <= W, NEW v \in Value, v >= 0, NEW S, NEW c \in S,
         GetValue(b, c) >= 0
  PROVE  /\ c \in Compare(b, "LT", v, S) <=> GetValue(b, c) < v
         /\ c \in Compare(b, "EQ", v, S) <=> GetValue(b, c) = v
         /\ c \in Compare(b, "GT", v, S) <=> GetValue(b, c) > v
<1> DEFINE x == Width(b, v)
           comp == CompValue(b, c, v, x)
           d == Differs(b, c, comp, x)
           g == GetValue(b, c)
           start == NegativeAt(x, v)
           neg == SignAt(b, c, x)
           bit == Bit(comp, d)
<1>1. Reads(x, b, v)
  BY ReadsWidth
<1>2. /\ c \in Compare(b, "LT", v, S) <=> Chosen("LT", d, bit, start, neg)
      /\ c \in Compare(b, "EQ", v, S) <=> Chosen("EQ", d, bit, start, neg)
      /\ c \in Compare(b, "GT", v, S) <=> Chosen("GT", d, bit, start, neg)
  BY CompareIs
<1>3. g \in Int /\ v \in Int /\ (start <=> v < 0) /\ (neg <=> g < 0)
  BY <1>1, OtherSign
<1>4. ~ start /\ ~ neg
  BY <1>3
<1>5. Orders(d, bit, g, v)
  <2>1. comp = v
    BY <1>4, CompValueIs
  <2>2. Orders(Differs(b, c, v, x), Bit(v, Differs(b, c, v, x)), GetValue(b, c), v)
    <3> HIDE DEF x
    <3>1. QED BY <1>1, <1>4, SameSign
  <2>3. QED BY <2>1, <2>2
<1>6. /\ Chosen("LT", d, bit, start, neg) <=> Lt(d, bit, start, neg)
      /\ Chosen("EQ", d, bit, start, neg) <=> Eq(d)
      /\ Chosen("GT", d, bit, start, neg) <=> Gt(d, bit, start, neg)
  BY ChosenIs
<1> HIDE DEF x, comp, d, g, start, neg, bit
<1>7. /\ Lt(d, bit, start, neg) <=> ~ Eq(d) /\ bit
      /\ Gt(d, bit, start, neg) <=> ~ Eq(d) /\ ~ bit
  BY <1>4 DEF Lt, Gt
<1>8. /\ Eq(d) => g = v
      /\ ~ Eq(d) /\ bit => g < v
      /\ ~ Eq(d) /\ ~ bit => v < g
  BY <1>5 DEF Orders, Eq
<1>9. /\ Lt(d, bit, start, neg) <=> g < v
      /\ Eq(d) <=> g = v
      /\ Gt(d, bit, start, neg) <=> g > v
  BY <1>3, <1>7, <1>8
<1>10. QED BY <1>2, <1>6, <1>9 DEF g

\* RANGE for one column, in the terms of CompareRange.
InRangeAt(d1, bit1, start, d2, bit2, end, neg) ==
  LET endBreaks == ~ bit2 \/ (start /\ ~ end)
      eq1 == d1 = -1 \/ (d2 > d1 /\ endBreaks)
      eq2 == d2 = -1 \/ (d1 >= d2 /\ bit1)
      gt1 == ~ eq1 /\ IF bit1 THEN start /\ ~ neg ELSE start \/ ~ neg
      lt2 == ~ eq2 /\ IF bit2 THEN ~ end \/ neg ELSE neg /\ ~ end
  IN (eq1 \/ gt1) /\ (eq2 \/ lt2)

LEMMA CompareRangeIs ==
  ASSUME NEW b, NEW u, NEW v, NEW S, NEW c \in S, NEW x, x = Width(b, v),
         NEW comp1, comp1 = CompValue(b, c, u, x), NEW d1, d1 = Differs(b, c, comp1, x),
         NEW comp2, comp2 = CompValue(b, c, v, x), NEW d2, d2 = Differs(b, c, comp2, x)
  PROVE  c \in CompareRange(b, u, v, S) <=>
           InRangeAt(d1, Bit(comp1, d1), NegativeAt(x, u), d2, Bit(comp2, d2),
                     NegativeAt(x, v), SignAt(b, c, x))
BY DEF CompareRange, InRangeAt, SignAt

LEMMA LenOrder ==
  ASSUME NEW u \in Value, NEW v \in Value, 0 <= u, u <= v
  PROVE  Len64(u) <= Len64(v)
<1>1. u \in Int /\ v \in Int /\ v < Half /\ Half \in Nat /\ 2^W = Half + Half
  BY ValueIs, Halves
<1>2. u % (2^W) = u /\ v % (2^W) = v
  BY <1>1, Over
<1>3. /\ Len64(u) \in Nat /\ Len64(v) \in Nat /\ v < 2^Len64(v)
      /\ \A k \in 0 .. Len64(u) - 1 : u >= 2^k
  <2>1. /\ Len64(u) \in 0 .. W /\ Len64(v) \in 0 .. W /\ v % (2^W) < 2^Len64(v)
        /\ \A k \in 0 .. Len64(u) - 1 : u % (2^W) >= 2^k
    BY <1>1, LenIs
  <2>2. QED BY <1>2, <2>1, Halves
<1>4. ASSUME Len64(v) < Len64(u) PROVE FALSE
  <2>1. u >= 2^Len64(v) /\ 2^Len64(v) \in Nat
    BY <1>3, <1>4, PowerStep
  <2>2. QED BY <1>1, <1>3, <2>1
<1>5. QED BY <1>3, <1>4

LEMMA RangeExact ==
  ASSUME NEW b, Shaped(b), BitCount(b) <= W, NEW u \in Value, NEW v \in Value,
         0 <= u, u <= v, NEW S, NEW c \in S, GetValue(b, c) >= 0
  PROVE  c \in CompareRange(b, u, v, S) <=> u <= GetValue(b, c) /\ GetValue(b, c) <= v
<1> DEFINE x == Width(b, v)
           comp1 == CompValue(b, c, u, x)
           comp2 == CompValue(b, c, v, x)
           d1 == Differs(b, c, comp1, x)
           d2 == Differs(b, c, comp2, x)
           g == GetValue(b, c)
           start == NegativeAt(x, u)
           end == NegativeAt(x, v)
           neg == SignAt(b, c, x)
           bit1 == Bit(comp1, d1)
           bit2 == Bit(comp2, d2)
<1>1. Reads(x, b, v)
  BY ReadsWidth
<1>2. Reads(x, b, u)
  <2>1. Len64(u) <= Len64(v) /\ Len64(u) \in Int /\ Len64(v) \in Int
    BY LenOrder, LenIs, ValueIs, Halves
  <2> HIDE DEF x
  <2>2. QED BY <1>1, <2>1 DEF Reads
<1>3. c \in CompareRange(b, u, v, S) <=> InRangeAt(d1, bit1, start, d2, bit2, end, neg)
  BY CompareRangeIs
<1>4. /\ g \in Int /\ u \in Int /\ v \in Int
      /\ (start <=> u < 0) /\ (end <=> v < 0) /\ (neg <=> g < 0)
  BY <1>1, <1>2, OtherSign
<1>5. ~ start /\ ~ end /\ ~ neg
  BY <1>4
<1>6. comp1 = u /\ comp2 = v
  BY <1>5, CompValueIs
<1>7. d1 \in Int /\ Orders(d1, bit1, g, u)
  <2>1. /\ Differs(b, c, u, x) \in Int
        /\ Orders(Differs(b, c, u, x), Bit(u, Differs(b, c, u, x)), GetValue(b, c), u)
    <3> HIDE DEF x
    <3>1. QED BY <1>2, <1>5, SameSign
  <2>2. QED BY <1>6, <2>1
<1>8. d2 \in Int /\ Orders(d2, bit2, g, v)
  <2>1. /\ Differs(b, c, v, x) \in Int
        /\ Orders(Differs(b, c, v, x), Bit(v, Differs(b, c, v, x)), GetValue(b, c), v)
    <3> HIDE DEF x
    <3>1. QED BY <1>1, <1>5, SameSign
  <2>2. QED BY <1>6, <2>1
<1> HIDE DEF x, comp1, comp2, d1, d2, g, start, end, neg, bit1, bit2
<1>9. /\ d1 = -1 => g = u
      /\ d1 # -1 /\ bit1 => g < u
      /\ d1 # -1 /\ ~ bit1 => u < g
      /\ d2 = -1 => g = v
      /\ d2 # -1 /\ bit2 => g < v
      /\ d2 # -1 /\ ~ bit2 => v < g
  BY <1>7, <1>8 DEF Orders
<1>10. InRangeAt(d1, bit1, start, d2, bit2, end, neg) <=>
         LET eq1 == d1 = -1 \/ (d2 > d1 /\ ~ bit2)
             eq2 == d2 = -1 \/ (d1 >= d2 /\ bit1)
         IN (eq1 \/ ~ bit1) /\ (eq2 \/ bit2)
  BY <1>5 DEF InRangeAt
<1>11. InRangeAt(d1, bit1, start, d2, bit2, end, neg) <=> u <= g /\ g <= v
  BY <1>4, <1>7, <1>8, <1>9, <1>10
<1>12. QED BY <1>3, <1>11 DEF g

(***************************************************************************)
(* Indexes and their updates.                                              *)
(***************************************************************************)

Slices == UNION {[0 .. n - 1 -> SUBSET Column] : n \in Nat}
Index == [bA : Slices, eBM : SUBSET Column, max : Value, min : Value,
          runOptimized : BOOLEAN]

\* Columns without a value have no bits.
Clean(b) == \A j \in Nat : Slice(b, j) \subseteq b.eBM
\* An index with a range is as wide as the range.
Wide(b) == \/ b.max = 0 /\ b.min = 0
           \/ Len64(b.max) <= BitCount(b) /\ Len64(b.min) <= BitCount(b)
Good(b) == b \in Index /\ Clean(b) /\ Wide(b)

\* What r is: the slices f of width n, and the columns e.
Made(r, n, f, e) ==
  /\ r.bA = f /\ r.eBM = e /\ BitCount(r) = n /\ Shaped(r)
  /\ \A j \in 0 .. n - 1 : Slice(r, j) = f[j]
  /\ \A j : j \notin 0 .. n - 1 => Slice(r, j) = {}

LEMMA IndexIs ==
  ASSUME NEW b \in Index
  PROVE  /\ Shaped(b) /\ Made(b, BitCount(b), b.bA, b.eBM)
         /\ BitCount(b) \in Nat /\ b.bA \in [0 .. BitCount(b) - 1 -> SUBSET Column]
         /\ b.eBM \in SUBSET Column
         /\ \A j : Slice(b, j) \in SUBSET Column
<1>1. PICK n \in Nat : b.bA \in [0 .. n - 1 -> SUBSET Column]
  BY DEF Index, Slices
<1>2. DOMAIN b.bA = 0 .. n - 1
  BY <1>1
<1>3. BitCount(b) = n /\ Shaped(b)
  BY <1>2, ShapedIs
<1>4. \A j : Slice(b, j) = IF j \in 0 .. n - 1 THEN b.bA[j] ELSE {}
  BY <1>2 DEF Slice
<1>5. b.eBM \in SUBSET Column
  BY DEF Index
<1>6. QED BY <1>1, <1>3, <1>4, <1>5 DEF Made

Updated(b, f, e) == [b EXCEPT !.bA = f, !.eBM = e]

LEMMA MadeIs ==
  ASSUME NEW n \in Nat, NEW f \in [0 .. n - 1 -> SUBSET Column], NEW e \in SUBSET Column,
         NEW b \in Index, NEW r, r = Updated(b, f, e)
  PROVE  /\ r \in Index /\ Made(r, n, f, e)
         /\ r.max = b.max /\ r.min = b.min /\ r.runOptimized = b.runOptimized
<1>1. f \in Slices
  BY DEF Slices
<1>2. /\ r \in Index /\ r.bA = f /\ r.eBM = e
      /\ r.max = b.max /\ r.min = b.min /\ r.runOptimized = b.runOptimized
  BY <1>1 DEF Index, Updated
<1>3. DOMAIN r.bA = 0 .. n - 1
  BY <1>2
<1>4. BitCount(r) = n /\ Shaped(r)
  BY <1>3, ShapedIs
<1>5. \A j : Slice(r, j) = IF j \in 0 .. n - 1 THEN f[j] ELSE {}
  BY <1>2, <1>3 DEF Slice
<1>6. QED BY <1>2, <1>4, <1>5 DEF Made

\* An update that is as wide and gives bits to columns with a value only.
LEMMA MadeGood ==
  ASSUME NEW n \in Nat, NEW f \in [0 .. n - 1 -> SUBSET Column], NEW e \in SUBSET Column,
         NEW b, Good(b), BitCount(b) <= n, \A j \in 0 .. n - 1 : f[j] \subseteq e,
         NEW r, r = Updated(b, f, e)
  PROVE  Good(r) /\ Made(r, n, f, e) /\ r.max = b.max /\ r.min = b.min
<1>1. b \in Index /\ Wide(b)
  BY DEF Good
<1>2. /\ r \in Index /\ Made(r, n, f, e)
      /\ r.max = b.max /\ r.min = b.min /\ r.runOptimized = b.runOptimized
  BY <1>1, MadeIs, ZenonT(40)
<1>3. Clean(r)
  <2>1. ASSUME NEW j \in Nat PROVE Slice(r, j) \subseteq e
    <3>1. CASE j \in 0 .. n - 1
      <4>1. Slice(r, j) = f[j]
        BY <1>2, <3>1 DEF Made
      <4>2. QED BY <3>1, <4>1
    <3>2. CASE j \notin 0 .. n - 1
      <4>1. Slice(r, j) = {}
        BY <1>2, <3>2 DEF Made
      <4>2. QED BY <4>1
    <3>3. QED BY <3>1, <3>2
  <2>2. r.eBM = e
    BY <1>2 DEF Made
  <2>3. QED BY <2>1, <2>2 DEF Clean
<1>4. Wide(r)
  <2>1. BitCount(r) = n /\ BitCount(b) \in Nat
    BY <1>1, <1>2, IndexIs DEF Made
  <2>2. Len64(b.max) \in Int /\ Len64(b.min) \in Int
    <3>1. b.max \in Value /\ b.min \in Value
      BY <1>1 DEF Index
    <3>2. Len64(b.max) \in 0 .. W /\ Len64(b.min) \in 0 .. W
      BY <3>1, ValueIs, LenIs
    <3>3. QED BY <3>2
  <2>3. QED BY <1>1, <1>2, <2>1, <2>2 DEF Wide
<1>5. QED BY <1>2, <1>3, <1>4 DEF Good

\* Two indexes have the same bits in column c, and so the same value.
SameBits(r, b, c) == \A j \in Nat : c \in Slice(r, j) <=> c \in Slice(b, j)

LEMMA SameValue ==
  ASSUME NEW b, Shaped(b), NEW r, Shaped(r), NEW c, SameBits(r, b, c)
  PROVE  GetValue(r, c) = GetValue(b, c)
<1>1. Held(r, c, W) = Held(b, c, W)
  BY DEF Held, SameBits
<1>2. QED BY <1>1, GetIs

LEMMA WrapIn == ASSUME NEW n \in Int PROVE Wrap(n) \in Value /\ Wrap(n) \in Int
<1>1. Half \in Nat /\ Half >= 1
  BY Halves
<1>2. Wrap(n) = ((n + Half) % (Half + Half)) - Half
  BY WrapIs
<1>3. (n + Half) % (Half + Half) \in 0 .. Half + Half - 1
  BY <1>1
<1>4. QED BY <1>1, <1>2, <1>3, ValueIs

LEMMA GetIn ==
  ASSUME NEW b, Shaped(b), NEW c PROVE GetValue(b, c) \in Value /\ GetValue(b, c) \in Int
<1>1. Held(b, c, W) \subseteq 0 .. W - 1
  BY DEF Held
<1>2. Worth(Held(b, c, W)) \in Int
  BY <1>1, WorthBelow, Halves
<1>3. QED BY <1>2, GetIs, WrapIn

\* Multiples of 2^W wrap out.
LEMMA WrapMore ==
  ASSUME NEW n \in Int, NEW q \in Int
  PROVE  Wrap(n + (Half + Half) * q) = Wrap(n)
<1> DEFINE m == Half + Half
           a == n + Half
           s == a \div m
           t == a % m
<1>1. m \in Nat /\ m >= 1 /\ Half \in Nat
  BY Halves
<1>2. s \in Int /\ t \in Int /\ 0 <= t /\ t < m /\ a = m * s + t /\ a \in Int
  BY <1>1
<1>3. (n + m * q) + Half = m * (s + q) + t /\ n + m * q \in Int
  <2> HIDE DEF m, s, t
  <2>1. m * (s + q) = m * s + m * q /\ m * s \in Int /\ m * q \in Int
    BY <1>1, <1>2
  <2>2. a = n + Half
    OBVIOUS
  <2> HIDE DEF a
  <2>3. QED BY <1>1, <1>2, <2>1, <2>2
<1> HIDE DEF m, s, t
<1>4. (m * (s + q) + t) % m = t
  BY <1>1, <1>2, Division
<1>5. Wrap(n + m * q) = (((n + m * q) + Half) % m) - Half
  BY <1>3, WrapIs DEF m
<1>6. Wrap(n) = (a % m) - Half
  BY WrapIs DEF m
<1>7. a % m = t
  BY DEF t
<1>8. QED BY <1>3, <1>4, <1>5, <1>6, <1>7 DEF m

\* A wrapped number differs from the number by such a multiple.
LEMMA WrapDiffers ==
  ASSUME NEW n \in Int
  PROVE  \E q \in Int : n = Wrap(n) + (Half + Half) * q
<1> DEFINE m == Half + Half
           a == n + Half
<1>1. m \in Nat /\ m >= 1 /\ Half \in Nat
  BY Halves
<1>2. a \div m \in Int /\ a % m \in Int /\ a = m * (a \div m) + (a % m)
  <2>1. a \in Int
    BY <1>1
  <2> HIDE DEF a, m
  <2>2. QED BY <1>1, <2>1
<1>3. Wrap(n) = (a % m) - Half
  BY WrapIs
<1> DEFINE q == a \div m
<1>4. m * q \in Int
  BY <1>1, <1>2
<1>5. n = Wrap(n) + m * q
  <2>1. a = n + Half
    OBVIOUS
  <2> HIDE DEF m, a
  <2>2. QED BY <1>1, <1>2, <1>3, <1>4, <2>1
<1>6. QED BY <1>2, <1>5

LEMMA WrapValue == ASSUME NEW v \in Value PROVE Wrap(v) = v
<1>1. v \in Int /\ -Half <= v /\ v < Half /\ Half \in Nat
  BY ValueIs, Halves
<1>2. (v + Half) % (Half + Half) = v + Half
  <2>1. Half + Half \in Nat /\ Half + Half >= 1 /\ v + Half \in Int /\ 0 <= v + Half
        /\ v + Half < Half + Half
    BY <1>1, Halves
  <2>2. QED BY <2>1, Over
<1>3. QED BY <1>1, <1>2, WrapIs

\* Wrapping the terms of a sum makes no difference.
LEMMA WrapSum ==
  ASSUME NEW n \in Int, NEW m \in Int
  PROVE  /\ Wrap(Wrap(n) + m) = Wrap(n + m)
         /\ Wrap(Wrap(n) + Wrap(m)) = Wrap(n + m)
<1>1. ASSUME NEW k \in Int PROVE Wrap(Wrap(n) + k) = Wrap(n + k)
  <2>1. PICK q \in Int : n = Wrap(n) + (Half + Half) * q
    BY WrapDiffers
  <2>2. Wrap(n) + k \in Int /\ Wrap(n) \in Int
    BY WrapIn
  <2>3. Wrap((Wrap(n) + k) + (Half + Half) * q) = Wrap(Wrap(n) + k)
    BY <2>2, WrapMore
  <2>4. (Wrap(n) + k) + (Half + Half) * q = n + k
    <3>1. (Half + Half) * q \in Int
      BY Halves
    <3>2. QED BY <2>1, <2>2, <3>1
  <2>5. QED BY <2>3, <2>4
<1>2. Wrap(n) \in Int /\ Wrap(m) \in Int
  BY WrapIn
<1>3. Wrap(Wrap(n) + Wrap(m)) = Wrap(n + Wrap(m))
  BY <1>1, <1>2
<1>4. Wrap(Wrap(m) + n) = Wrap(m + n)
  <2>1. PICK q \in Int : m = Wrap(m) + (Half + Half) * q
    BY WrapDiffers
  <2>2. Wrap((Wrap(m) + n) + (Half + Half) * q) = Wrap(Wrap(m) + n)
    BY <1>2, WrapMore
  <2>3. (Wrap(m) + n) + (Half + Half) * q = m + n
    <3> DEFINE z == (Half + Half) * q
    <3>1. z \in Int
      BY Halves
    <3>2. m = Wrap(m) + z
      BY <2>1
    <3> DEFINE w == Wrap(m)
    <3>3. m = w + z /\ w \in Int
      BY <1>2, <3>2
    <3> HIDE DEF w, z
    <3>4. (w + n) + z = m + n
      BY <3>1, <3>3
    <3>5. QED BY <3>4 DEF w, z
  <2>4. QED BY <2>2, <2>3
<1>5. n + Wrap(m) = Wrap(m) + n /\ m + n = n + m
  BY <1>2
<1>6. Wrap(n + Wrap(m)) = Wrap(n + m)
  BY <1>4, <1>5
<1>7. QED BY <1>1, <1>3, <1>6

\* A value has no bits past its length.
LEMMA BitBelow ==
  ASSUME NEW v \in Int, NEW j, Bit(v, j)
  PROVE  j \in Nat /\ j < Len64(v)
<1>1. j \in 0 .. W - 1 /\ W \in Nat /\ j \in Nat
  BY Halves DEF Bit
<1>2. j \in Bits(v, W)
  BY <1>1 DEF Bit, Bits
<1>3. Bits(v, W) \subseteq 0 .. W - 1
  BY DEF Bits
<1>4. Finite(Bits(v, W))
  BY <1>1, <1>3, WorthBelow
<1>5. /\ Finite(Bits(v, W) \ {j})
      /\ Worth(Bits(v, W)) = Worth({j}) + Worth(Bits(v, W) \ {j})
  <2>1. {j} \subseteq Bits(v, W)
    BY <1>2
  <2>2. QED BY <1>4, <2>1, WorthSubset
<1>6. Worth({j}) = 2^j /\ 2^j \in Nat /\ Worth(Bits(v, W) \ {j}) \in Nat
  BY <1>1, <1>5, WorthOne, WorthInt, PowerStep
<1>7. Worth(Bits(v, W)) = v % (2^W)
  BY <1>1, BitsWorth
<1>8. Len64(v) \in 0 .. W /\ v % (2^W) < 2^Len64(v)
  BY LenIs
<1>9. Len64(v) \in Nat /\ 2^Len64(v) \in Nat
  BY <1>1, <1>8, PowerStep
<1>10. 2^j < 2^Len64(v)
  BY <1>5, <1>6, <1>7, <1>8, <1>9
<1>11. ASSUME Len64(v) <= j PROVE FALSE
  <2>1. Len64(v) < j => 2^Len64(v) < 2^j
    BY <1>1, <1>9, PowerOrder
  <2>2. Len64(v) = j => 2^Len64(v) = 2^j
    OBVIOUS
  <2>3. Len64(v) < j \/ Len64(v) = j
    BY <1>1, <1>9, <1>11
  <2>4. QED BY <1>6, <1>9, <1>10, <2>1, <2>2, <2>3
<1>12. QED BY <1>1, <1>9, <1>11

\* A column with the bits of v has the value v, wrapped.
LEMMA BitsValue ==
  ASSUME NEW r, Shaped(r), NEW v \in Int, Len64(v) <= BitCount(r), NEW c,
         \A j \in 0 .. BitCount(r) - 1 : c \in Slice(r, j) <=> Bit(v, j)
  PROVE  GetValue(r, c) = Wrap(v)
<1>1. W \in Nat /\ BitCount(r) \in Nat /\ Len64(v) \in Nat
  <2>1. Len64(v) \in 0 .. W
    BY LenIs
  <2>2. QED BY <2>1, Halves DEF Shaped
<1>2. ASSUME NEW j \in 0 .. W - 1 PROVE c \in Slice(r, j) <=> Bit(v, j)
  <2>1. CASE j < BitCount(r)
    <3>1. j \in 0 .. BitCount(r) - 1
      BY <1>1, <2>1
    <3>2. QED BY <3>1
  <2>2. CASE ~ (j < BitCount(r))
    <3>1. c \notin Slice(r, j)
      BY <1>1, <2>2 DEF Shaped, Slice
    <3>2. ~ Bit(v, j)
      <4>1. ASSUME Bit(v, j) PROVE FALSE
        <5>1. j < Len64(v) /\ j \in Nat
          BY <4>1, BitBelow
        <5>2. QED BY <1>1, <2>2, <5>1
      <4>2. QED BY <4>1
    <3>3. QED BY <3>1, <3>2
  <2>3. QED BY <2>1, <2>2
<1>3. Held(r, c, W) = ValueBits(v, W)
  BY <1>2 DEF Held, ValueBits
<1>4. Worth(ValueBits(v, W)) = v % (2^W)
  BY <1>1, ValueBitsAre, BitsWorth
<1>5. Wrap(v % (2^W)) = Wrap(v)
  <2> DEFINE m == 2^W
             u == v % m
             q == v \div m
  <2>1. m = Half + Half /\ m \in Nat /\ m >= 1
    BY Halves
  <2> HIDE DEF m
  <2>2. u \in Int /\ q \in Int /\ v = m * q + u
    BY <2>1
  <2>3. m * q \in Int
    BY <2>1, <2>2
  <2> HIDE DEF u, q
  <2>4. v = u + m * q
    BY <2>2, <2>3
  <2>5. Wrap(u + m * q) = Wrap(u)
    BY <2>1, <2>2, WrapMore
  <2>6. QED BY <2>4, <2>5 DEF u, m
<1>6. QED BY <1>3, <1>4, <1>5, GetIs

LEMMA LenNegative == ASSUME NEW v \in Value, v < 0 PROVE Len64(v) = W
<1>1. v \in Int /\ -Half <= v /\ Half \in Nat /\ 2^W = Half + Half /\ W \in Nat /\ W - 1 \in Nat
      /\ v < Half /\ Half >= 1
  BY ValueIs, Halves
<1>2. v % (2^W) = v + (Half + Half)
  BY <1>1, Remainders
<1>3. Len64(v) \in 0 .. W /\ v % (2^W) < 2^Len64(v)
  BY <1>1, LenIs
<1>4. ASSUME Len64(v) # W PROVE FALSE
  <2>1. Len64(v) \in Nat /\ Len64(v) <= W - 1
    BY <1>1, <1>3, <1>4
  <2>2. 2^Len64(v) <= Half /\ 2^Len64(v) \in Nat
    <3>1. Len64(v) < W - 1 => 2^Len64(v) < 2^(W - 1)
      BY <1>1, <2>1, PowerOrder
    <3>2. Len64(v) = W - 1 => 2^Len64(v) = 2^(W - 1)
      OBVIOUS
    <3>3. Len64(v) < W - 1 \/ Len64(v) = W - 1
      BY <1>1, <2>1
    <3>4. 2^Len64(v) \in Nat
      BY <2>1, PowerStep
    <3>5. QED BY <1>1, <3>1, <3>2, <3>3, <3>4 DEF Half
  <2>3. QED BY <1>1, <1>2, <1>3, <2>2
<1>5. QED BY <1>4

\* A range is as wide as the values in it.
LEMMA LenRange ==
  ASSUME NEW v \in Value, NEW l \in Value, NEW h \in Value, v \in l .. h
  PROVE  Len64(v) <= Len64(h) \/ Len64(v) <= Len64(l)
<1>1. v \in Int /\ l \in Int /\ h \in Int /\ l <= v /\ v <= h
  BY ValueIs
<1>2. Len64(v) \in 0 .. W
  BY <1>1, LenIs
<1>3. CASE v < 0
  <2>1. l < 0
    BY <1>1, <1>3
  <2>2. Len64(l) = W
    BY <2>1, LenNegative
  <2>3. QED BY <1>2, <2>2, Halves
<1>4. CASE ~ (v < 0)
  <2>1. 0 <= v
    BY <1>1, <1>4
  <2>2. QED BY <1>1, <2>1, LenOrder
<1>5. QED BY <1>3, <1>4

\* The value fits the index, or the index grows.
Fitting(b, v) == (b.max = 0 /\ b.min = 0) \/ (v \in Value /\ v \in b.min .. b.max)

\* An index that only differs by empty slices.
Widened(g, b) ==
  /\ Good(g) /\ BitCount(b) <= BitCount(g)
  /\ \A j \in Nat : Slice(g, j) = Slice(b, j)
  /\ g.eBM = b.eBM /\ g.max = b.max /\ g.min = b.min

LEMMA LargerIs ==
  ASSUME NEW m \in Int, NEW n \in Int
  PROVE  Larger(m, n) \in {m, n} /\ m <= Larger(m, n) /\ n <= Larger(m, n)
BY DEF Larger

LEMMA OnlySlices ==
  ASSUME NEW b \in Index, NEW f
  PROVE  [b EXCEPT !.bA = f] = Updated(b, f, b.eBM)
BY DEF Index, Updated

LEMMA GrownIs ==
  ASSUME NEW b, Good(b), NEW v \in Int, Fitting(b, v)
  PROVE  Widened(Grown(b, v), b) /\ Len64(v) <= BitCount(Grown(b, v))
<1>1. b \in Index /\ Clean(b) /\ Wide(b)
  BY DEF Good
<1>2. /\ BitCount(b) \in Nat /\ b.eBM \in SUBSET Column
      /\ \A j : Slice(b, j) \in SUBSET Column
  BY <1>1, IndexIs
<1>3. Made(b, BitCount(b), b.bA, b.eBM)
  BY <1>1, IndexIs
<1>4. Len64(v) \in 0 .. W /\ Len64(v) \in Nat
  BY LenIs, Halves
<1>5. CASE b.max = 0 /\ b.min = 0
  <2> DEFINE n == Larger(BitCount(b), Len64(v))
             f == [j \in 0 .. n - 1 |-> Slice(b, j)]
             r == Updated(b, f, b.eBM)
  <2>1. n \in Nat /\ BitCount(b) <= n /\ Len64(v) <= n
    BY <1>2, <1>4, LargerIs
  <2>2. Grown(b, v) = r
    BY <1>1, <1>5, OnlySlices DEF Grown
  <2>3. f \in [0 .. n - 1 -> SUBSET Column] /\ \A j \in 0 .. n - 1 : f[j] \subseteq b.eBM
    <3>1. \A j \in 0 .. n - 1 : j \in Nat
      OBVIOUS
    <3>2. \A j \in 0 .. n - 1 : f[j] = Slice(b, j)
      OBVIOUS
    <3>3. QED BY <1>1, <1>2, <3>1, <3>2 DEF Clean
  <2>4. \A j \in 0 .. n - 1 : f[j] = Slice(b, j)
    OBVIOUS
  <2> HIDE DEF n, f
  <2>5. Good(r) /\ Made(r, n, f, b.eBM) /\ r.max = b.max /\ r.min = b.min
    BY <1>2, <2>1, <2>3, MadeGood
  <2> HIDE DEF r
  <2>6. \A j \in Nat : Slice(r, j) = Slice(b, j)
    <3>1. ASSUME NEW j \in Nat PROVE Slice(r, j) = Slice(b, j)
      <4>1. CASE j \in 0 .. n - 1
        BY <2>4, <2>5, <4>1 DEF Made
      <4>2. CASE j \notin 0 .. n - 1
        <5>1. j \notin 0 .. BitCount(b) - 1
          BY <1>2, <2>1, <4>2
        <5>2. Slice(b, j) = {}
          BY <1>3, <5>1 DEF Made
        <5>3. Slice(r, j) = {}
          BY <2>5, <4>2 DEF Made
        <5>4. QED BY <5>2, <5>3
      <4>3. QED BY <4>1, <4>2
    <3>2. QED BY <3>1
  <2>7. BitCount(r) = n /\ r.eBM = b.eBM
    BY <2>5 DEF Made
  <2>8. QED BY <2>1, <2>2, <2>5, <2>6, <2>7 DEF Widened
<1>6. CASE ~ (b.max = 0 /\ b.min = 0)
  <2>1. Grown(b, v) = b
    BY <1>6 DEF Grown
  <2>2. v \in Value /\ v \in b.min .. b.max /\ b.max \in Value /\ b.min \in Value
    BY <1>1, <1>6 DEF Fitting, Index
  <2>3. Len64(v) <= Len64(b.max) \/ Len64(v) <= Len64(b.min)
    BY <2>2, LenRange
  <2>4. Len64(b.max) <= BitCount(b) /\ Len64(b.min) <= BitCount(b)
    BY <1>1, <1>6 DEF Wide
  <2>5. Len64(b.max) \in Int /\ Len64(b.min) \in Int
    <3>1. Len64(b.max) \in 0 .. W /\ Len64(b.min) \in 0 .. W
      BY <2>2, ValueIs, LenIs
    <3>2. QED BY <3>1
  <2>6. Len64(v) <= BitCount(b)
    BY <1>2, <1>4, <2>3, <2>4, <2>5
  <2>7. Widened(b, b)
    BY <1>2 DEF Widened
  <2>8. QED BY <2>1, <2>6, <2>7
<1>7. QED BY <1>5, <1>6

\* What an update does to one column.
Keeps(r, b, c) == (c \in r.eBM <=> c \in b.eBM) /\ GetValue(r, c) = GetValue(b, c)
Gives(r, c, v) == c \in r.eBM /\ GetValue(r, c) = v
Loses(r, c) == c \notin r.eBM

LEMMA KeepsBits ==
  ASSUME NEW b \in Index, NEW r \in Index, NEW c, SameBits(r, b, c),
         c \in r.eBM <=> c \in b.eBM
  PROVE  Keeps(r, b, c)
<1>1. Shaped(b) /\ Shaped(r)
  BY IndexIs
<1>2. GetValue(r, c) = GetValue(b, c)
  BY <1>1, SameValue
<1>3. QED BY <1>2 DEF Keeps

\* The columns of S get the bits of v, and no others change.
Sets(f, n, g, S, v) ==
  \A j \in 0 .. n - 1 : \A c :
    c \in f[j] <=> IF c \in S THEN Bit(v, j) ELSE c \in Slice(g, j)

LEMMA SetTo ==
  ASSUME NEW b, Good(b), NEW v \in Int, Fitting(b, v), NEW S \in SUBSET Column,
         NEW g, g = Grown(b, v), NEW f, f \in [DOMAIN g.bA -> SUBSET Column],
         Sets(f, BitCount(g), g, S, v),
         NEW r, r = Updated(g, f, g.eBM \cup S)
  PROVE  /\ Good(r)
         /\ \A c \in S : Gives(r, c, Wrap(v))
         /\ \A c : c \notin S => Keeps(r, b, c)
<1> DEFINE n == BitCount(g)
           e == g.eBM \cup S
<1>1. Widened(g, b) /\ Len64(v) <= n
  BY GrownIs
<1>2. Good(g) /\ g \in Index /\ Clean(g)
  BY <1>1 DEF Widened, Good
<1>3. n \in Nat /\ DOMAIN g.bA = 0 .. n - 1 /\ Made(g, n, g.bA, g.eBM)
      /\ g.eBM \in SUBSET Column /\ Shaped(g)
  BY <1>2, IndexIs DEF Shaped
<1> HIDE DEF n
<1>4. f \in [0 .. n - 1 -> SUBSET Column]
  BY <1>3
<1>5. \A j \in 0 .. n - 1 : \A c :
        c \in f[j] <=> IF c \in S THEN Bit(v, j) ELSE c \in Slice(g, j)
  BY DEF Sets, n
<1>6. \A j \in 0 .. n - 1 : f[j] \subseteq e
  <2>1. ASSUME NEW j \in 0 .. n - 1, NEW c \in f[j], c \notin S PROVE c \in g.eBM
    <3>1. c \in Slice(g, j) /\ j \in Nat
      BY <1>5, <2>1
    <3>2. QED BY <1>2, <3>1 DEF Clean
  <2>2. QED BY <2>1
<1>7. e \in SUBSET Column
  BY <1>3
<1>8. n <= n /\ BitCount(g) <= n
  BY <1>3 DEF n
<1> HIDE DEF e
<1>9. r = Updated(g, f, e)
  BY DEF e
<1>10. Good(r) /\ Made(r, n, f, e)
  BY <1>2, <1>3, <1>4, <1>6, <1>7, <1>8, <1>9, MadeGood
<1>11. BitCount(r) = n /\ Shaped(r) /\ r.eBM = e /\ r \in Index
       /\ \A j \in 0 .. n - 1 : Slice(r, j) = f[j]
  BY <1>10 DEF Made, Good
<1>12. ASSUME NEW c \in S PROVE Gives(r, c, Wrap(v))
  <2>1. \A j \in 0 .. BitCount(r) - 1 : c \in Slice(r, j) <=> Bit(v, j)
    BY <1>5, <1>11, <1>12
  <2>2. GetValue(r, c) = Wrap(v)
    BY <1>1, <1>11, <2>1, BitsValue
  <2>3. c \in r.eBM
    BY <1>11, <1>12 DEF e
  <2>4. QED BY <2>2, <2>3 DEF Gives
<1>13. ASSUME NEW c, c \notin S PROVE Keeps(r, b, c)
  <2>1. ASSUME NEW j \in Nat PROVE c \in Slice(r, j) <=> c \in Slice(b, j)
    <3>1. Slice(g, j) = Slice(b, j)
      BY <1>1 DEF Widened
    <3>2. CASE j \in 0 .. n - 1
      BY <1>5, <1>11, <1>13, <3>1, <3>2
    <3>3. CASE j \notin 0 .. n - 1
      <4>1. Slice(r, j) = {} /\ Slice(g, j) = {}
        BY <1>3, <1>10, <3>3 DEF Made
      <4>2. QED BY <3>1, <4>1
    <3>4. QED BY <3>2, <3>3
  <2>2. c \in r.eBM <=> c \in b.eBM
    BY <1>1, <1>11, <1>13 DEF e, Widened
  <2>3. b \in Index /\ SameBits(r, b, c)
    BY <2>1 DEF Good, SameBits
  <2>4. QED BY <1>11, <2>2, <2>3, KeepsBits
<1>14. QED BY <1>10, <1>12, <1>13

SetsTo(r, b, S, v) ==
  /\ Good(r)
  /\ \A c \in S : Gives(r, c, Wrap(v))
  /\ \A c : c \notin S => Keeps(r, b, c)

LEMMA SetValueIs ==
  ASSUME NEW b, Good(b), NEW v \in Int, Fitting(b, v), NEW c \in Column
  PROVE  SetsTo(SetValue(b, c, v), b, {c}, v)
<1> DEFINE g == Grown(b, v)
           f == [j \in DOMAIN g.bA |->
                   IF Bit(v, j) THEN g.bA[j] \cup {c}
                   ELSE IF c \in g.eBM THEN g.bA[j] \ {c} ELSE g.bA[j]]
<1>1. Widened(g, b)
  BY GrownIs
<1>2. Good(g) /\ g \in Index /\ Clean(g)
  BY <1>1 DEF Widened, Good
<1>3. SetValue(b, c, v) = Updated(g, f, g.eBM \cup {c})
  BY <1>2 DEF SetValue, Updated, Index
<1>4. BitCount(g) \in Nat /\ DOMAIN g.bA = 0 .. BitCount(g) - 1
      /\ g.bA \in [0 .. BitCount(g) - 1 -> SUBSET Column]
      /\ Made(g, BitCount(g), g.bA, g.eBM)
  BY <1>2, IndexIs DEF Shaped
<1> HIDE DEF g
<1>5. f \in [DOMAIN g.bA -> SUBSET Column]
  BY <1>4
<1>6. Sets(f, BitCount(g), g, {c}, v)
  <2>1. ASSUME NEW j \in 0 .. BitCount(g) - 1, NEW d
        PROVE  d \in f[j] <=> IF d \in {c} THEN Bit(v, j) ELSE d \in Slice(g, j)
    <3>1. Slice(g, j) = g.bA[j] /\ j \in Nat
      BY <1>4, <2>1 DEF Made
    <3>2. c \notin g.eBM => c \notin g.bA[j]
      BY <1>2, <3>1 DEF Clean
    <3>3. f[j] = IF Bit(v, j) THEN g.bA[j] \cup {c}
                 ELSE IF c \in g.eBM THEN g.bA[j] \ {c} ELSE g.bA[j]
      BY <1>4, <2>1
    <3> HIDE DEF f
    <3>4. QED BY <3>1, <3>2, <3>3
  <2> HIDE DEF f
  <2>2. QED BY <2>1 DEF Sets
<1> HIDE DEF f
<1>7. {c} \in SUBSET Column /\ g = Grown(b, v)
  BY DEF g
<1> DEFINE r == Updated(g, f, g.eBM \cup {c})
<1> HIDE DEF r
<1>8. r = Updated(g, f, g.eBM \cup {c})
  BY DEF r
<1>9. /\ Good(r)
      /\ \A d \in {c} : Gives(r, d, Wrap(v))
      /\ \A d : d \notin {c} => Keeps(r, b, d)
  BY <1>5, <1>6, <1>7, <1>8, SetTo, Zenon
<1>10. SetsTo(r, b, {c}, v)
  BY ONLY <1>9, Zenon DEF SetsTo
<1>11. QED BY <1>3, <1>8, <1>10

LEMMA SetManyIs ==
  ASSUME NEW b, Good(b), NEW v \in Int, Fitting(b, v), NEW S \in SUBSET Column
  PROVE  SetsTo(SetMany(b, S, v), b, S, v)
<1> DEFINE g == Grown(b, v)
           f == [j \in DOMAIN g.bA |->
                   IF Bit(v, j) THEN g.bA[j] \cup S ELSE g.bA[j] \ S]
<1>1. Widened(g, b)
  BY GrownIs
<1>2. Good(g) /\ g \in Index /\ Clean(g)
  BY <1>1 DEF Widened, Good
<1>3. SetMany(b, S, v) = Updated(g, f, g.eBM \cup S)
  BY <1>2 DEF SetMany, Updated, Index
<1>4. BitCount(g) \in Nat /\ DOMAIN g.bA = 0 .. BitCount(g) - 1
      /\ g.bA \in [0 .. BitCount(g) - 1 -> SUBSET Column]
      /\ Made(g, BitCount(g), g.bA, g.eBM)
  BY <1>2, IndexIs DEF Shaped
<1> HIDE DEF g
<1>5. f \in [DOMAIN g.bA -> SUBSET Column]
  BY <1>4
<1>6. Sets(f, BitCount(g), g, S, v)
  <2>1. ASSUME NEW j \in 0 .. BitCount(g) - 1, NEW d
        PROVE  d \in f[j] <=> IF d \in S THEN Bit(v, j) ELSE d \in Slice(g, j)
    <3>1. Slice(g, j) = g.bA[j]
      BY <1>4, <2>1 DEF Made
    <3>2. f[j] = IF Bit(v, j) THEN g.bA[j] \cup S ELSE g.bA[j] \ S
      BY <1>4, <2>1
    <3> HIDE DEF f
    <3>3. QED BY <3>1, <3>2
  <2> HIDE DEF f
  <2>2. QED BY <2>1 DEF Sets
<1> HIDE DEF f
<1>7. g = Grown(b, v)
  BY DEF g
<1> DEFINE r == Updated(g, f, g.eBM \cup S)
<1> HIDE DEF r
<1>8. r = Updated(g, f, g.eBM \cup S)
  BY DEF r
<1>9. /\ Good(r)
      /\ \A d \in S : Gives(r, d, Wrap(v))
      /\ \A d : d \notin S => Keeps(r, b, d)
  BY <1>5, <1>6, <1>7, <1>8, SetTo, Zenon
<1>10. SetsTo(r, b, S, v)
  BY ONLY <1>9, Zenon DEF SetsTo
<1>11. QED BY <1>3, <1>8, <1>10

\* r has the values of b in the columns of T, and no others.
Restricts(r, b, T) ==
  /\ Good(r)
  /\ \A c : IF c \in T THEN Keeps(r, b, c) ELSE Loses(r, c)

LEMMA RestrictTo ==
  ASSUME NEW b, Good(b), NEW T, NEW r, r \in Index, Wide(r), BitCount(r) = BitCount(b),
         \A j \in Nat : \A c : c \in Slice(r, j) <=> c \in Slice(b, j) /\ c \in T,
         \A c : c \in r.eBM <=> c \in b.eBM /\ c \in T
  PROVE  Restricts(r, b, T)
<1>1. b \in Index /\ Clean(b)
  BY DEF Good
<1>2. Clean(r)
  BY <1>1 DEF Clean
<1>3. Good(r)
  BY <1>2 DEF Good
<1>4. ASSUME NEW c \in T PROVE Keeps(r, b, c)
  <2>1. SameBits(r, b, c) /\ (c \in r.eBM <=> c \in b.eBM)
    BY <1>4 DEF SameBits
  <2>2. QED BY <1>1, <2>1, KeepsBits
<1>5. ASSUME NEW c, c \notin T PROVE Loses(r, c)
  BY <1>5 DEF Loses
<1>6. QED BY <1>3, <1>4, <1>5 DEF Restricts

LEMMA ClearIs ==
  ASSUME NEW b, Good(b), NEW S \in SUBSET Column
  PROVE  Restricts(ClearValues(b, S), b, Column \ S)
<1> DEFINE n == BitCount(b)
           f == [j \in DOMAIN b.bA |-> b.bA[j] \ S]
           e == b.eBM \ S
           r == Updated(b, f, e)
<1>1. b \in Index /\ Wide(b)
  BY DEF Good
<1>2. ClearValues(b, S) = r
  BY <1>1 DEF ClearValues, Updated, Index
<1>3. n \in Nat /\ DOMAIN b.bA = 0 .. n - 1 /\ Made(b, n, b.bA, b.eBM)
      /\ b.bA \in [0 .. n - 1 -> SUBSET Column] /\ b.eBM \in SUBSET Column
      /\ \A j : Slice(b, j) \in SUBSET Column
  BY <1>1, IndexIs DEF Shaped
<1>4. f \in [0 .. n - 1 -> SUBSET Column] /\ e \in SUBSET Column
  BY <1>3
<1>5. \A j \in 0 .. n - 1 : f[j] = Slice(b, j) \ S
  BY <1>3 DEF Made
<1> HIDE DEF n, f
<1>6. r \in Index /\ Made(r, n, f, e) /\ r.max = b.max /\ r.min = b.min
  <2> HIDE DEF e, r
  <2>1. r = Updated(b, f, e)
    BY DEF r
  <2>2. /\ r \in Index /\ Made(r, n, f, e)
        /\ r.max = b.max /\ r.min = b.min /\ r.runOptimized = b.runOptimized
    BY <1>1, <1>3, <1>4, <2>1, MadeIs
  <2>3. QED BY <2>2
<1> HIDE DEF r
<1>7. BitCount(r) = n /\ r.eBM = e
  BY <1>6 DEF Made
<1>8. ASSUME NEW j \in Nat, NEW c
      PROVE  c \in Slice(r, j) <=> c \in Slice(b, j) /\ c \in Column \ S
  <2>1. CASE j \in 0 .. n - 1
    BY <1>3, <1>5, <1>6, <2>1 DEF Made
  <2>2. CASE j \notin 0 .. n - 1
    BY <1>3, <1>6, <2>2 DEF Made
  <2>3. QED BY <2>1, <2>2
<1>9. \A c : c \in r.eBM <=> c \in b.eBM /\ c \in Column \ S
  BY <1>3, <1>7
<1>10. Wide(r) /\ BitCount(r) = BitCount(b)
  BY <1>1, <1>6, <1>7 DEF Wide, n
<1>11. Restricts(r, b, Column \ S)
  BY <1>6, <1>8, <1>9, <1>10, RestrictTo
<1>12. QED BY <1>2, <1>11

LEMMA NewIs ==
  ASSUME NEW h \in Value, NEW l \in Value
  PROVE  /\ Good(NewBSI(h, l)) /\ NewBSI(h, l).eBM = {}
         /\ NewBSI(h, l).max = h /\ NewBSI(h, l).min = l
         /\ BitCount(NewBSI(h, l)) = Larger(Len64(h), Len64(l))
<1> DEFINE n == Larger(Len64(h), Len64(l))
           f == [j \in 0 .. n - 1 |-> {}]
           r == NewBSI(h, l)
<1>1. Len64(h) \in Nat /\ Len64(l) \in Nat
  <2>1. Len64(h) \in 0 .. W /\ Len64(l) \in 0 .. W
    BY ValueIs, LenIs
  <2>2. QED BY <2>1
<1>2. n \in Nat /\ Len64(h) <= n /\ Len64(l) <= n
  BY <1>1, LargerIs
<1>3. /\ r.bA = f /\ r.eBM = {} /\ r.max = h /\ r.min = l
      /\ r = [bA |-> f, eBM |-> {}, max |-> h, min |-> l, runOptimized |-> FALSE]
  BY DEF NewBSI
<1>4. f \in [0 .. n - 1 -> SUBSET Column] /\ DOMAIN f = 0 .. n - 1
  OBVIOUS
<1> HIDE DEF n, f, r
<1>5. f \in Slices
  BY <1>2, <1>4 DEF Slices
<1>6. r \in Index
  BY <1>3, <1>5 DEF Index
<1>7. BitCount(r) = n
  BY <1>2, <1>3, <1>4, ShapedIs
<1>8. Clean(r)
  <2>1. \A j : Slice(r, j) = {}
    BY <1>3, <1>4 DEF Slice, f
  <2>2. QED BY <2>1 DEF Clean
<1>9. Wide(r)
  BY <1>2, <1>3, <1>7 DEF Wide
<1>10. QED BY <1>3, <1>6, <1>7, <1>8, <1>9 DEF Good, r, n

LEMMA ZeroValue == 0 \in Value /\ Len64(0) = 0
<1>1. 0 \in Value /\ 2^W \in Nat /\ 2^W >= 1
  BY ValueIs, Halves
<1>2. 0 % (2^W) = 0
  BY <1>1, Over
<1>3. Len64(0) \in 0 .. W /\ \A k \in 0 .. Len64(0) - 1 : 0 % (2^W) >= 2^k
  BY LenIs
<1>4. ASSUME Len64(0) # 0 PROVE FALSE
  <2>1. 0 \in 0 .. Len64(0) - 1
    BY <1>3, <1>4, Halves
  <2>2. 0 >= 2^0
    BY <1>2, <1>3, <2>1
  <2>3. QED BY <2>2, PowerZero
<1>5. QED BY <1>1, <1>4

LEMMA DefaultIs ==
  /\ Good(NewDefaultBSI) /\ NewDefaultBSI.eBM = {} /\ BitCount(NewDefaultBSI) = 0
  /\ NewDefaultBSI.max = 0 /\ NewDefaultBSI.min = 0
<1>1. NewDefaultBSI = NewBSI(0, 0) /\ Larger(Len64(0), Len64(0)) = 0
  BY ZeroValue DEF NewDefaultBSI, Larger
<1>2. QED BY <1>1, ZeroValue, NewIs

\* An index with the slices of b in the columns of T, and a range as narrow.
LEMMA CopyIs ==
  ASSUME NEW b, Good(b), NEW T, NEW a, Good(a),
         (a.max = 0 /\ a.min = 0) \/ (a.max = b.max /\ a.min = b.min),
         NEW f, f \in [0 .. BitCount(b) - 1 -> SUBSET Column],
         \A j \in 0 .. BitCount(b) - 1 : f[j] = Slice(b, j) \cap T,
         NEW r, r = Updated(a, f, b.eBM \cap T)
  PROVE  Restricts(r, b, T)
<1> DEFINE n == BitCount(b)
           e == b.eBM \cap T
<1>1. b \in Index /\ a \in Index /\ Wide(b)
  BY DEF Good
<1>2. n \in Nat /\ Made(b, n, b.bA, b.eBM) /\ e \in SUBSET Column
  BY <1>1, IndexIs
<1>3. \A j \in 0 .. n - 1 : f[j] = Slice(b, j) \cap T
  OBVIOUS
<1>4. r = Updated(a, f, e) /\ f \in [0 .. n - 1 -> SUBSET Column]
  OBVIOUS
<1>5. \A c : c \in e <=> c \in b.eBM /\ c \in T
  OBVIOUS
<1> HIDE DEF n, e
<1>6. /\ r \in Index /\ Made(r, n, f, e)
      /\ r.max = a.max /\ r.min = a.min /\ r.runOptimized = a.runOptimized
  BY <1>1, <1>2, <1>4, MadeIs
<1>7. BitCount(r) = n /\ r.eBM = e
  BY <1>6 DEF Made
<1>8. ASSUME NEW j \in Nat, NEW c
      PROVE  c \in Slice(r, j) <=> c \in Slice(b, j) /\ c \in T
  <2>1. CASE j \in 0 .. n - 1
    <3>1. Slice(r, j) = f[j] /\ f[j] = Slice(b, j) \cap T
      BY <1>3, <1>6, <2>1 DEF Made
    <3>2. QED BY <3>1
  <2>2. CASE j \notin 0 .. n - 1
    <3>1. Slice(r, j) = {} /\ Slice(b, j) = {}
      BY <1>2, <1>6, <2>2 DEF Made
    <3>2. QED BY <3>1
  <2>3. QED BY <2>1, <2>2
<1>9. \A c : c \in r.eBM <=> c \in b.eBM /\ c \in T
  BY <1>5, <1>7
<1>10. Wide(r) /\ BitCount(r) = BitCount(b)
  BY <1>1, <1>6, <1>7 DEF Wide, n
<1>11. QED BY <1>6, <1>8, <1>9, <1>10, RestrictTo

LEMMA RetainIs ==
  ASSUME NEW b, Good(b), NEW S \in SUBSET Column
  PROVE  Restricts(NewBSIRetainSet(b, S), b, S)
<1> DEFINE a == NewBSI(b.max, b.min)
           f == [j \in DOMAIN b.bA |-> b.bA[j] \cap S]
           r == Updated(a, f, b.eBM \cap S)
<1>1. b \in Index /\ b.max \in Value /\ b.min \in Value
  BY DEF Good, Index
<1>2. Good(a) /\ a.max = b.max /\ a.min = b.min
  BY <1>1, NewIs
<1>3. NewBSIRetainSet(b, S) = r
  <2>1. a \in Index
    BY <1>2 DEF Good
  <2> HIDE DEF a
  <2>2. [a EXCEPT !.bA = f, !.eBM = b.eBM \cap S] = r
    BY <2>1 DEF Updated
  <2>3. NewBSIRetainSet(b, S) = [a EXCEPT !.bA = f, !.eBM = b.eBM \cap S]
    BY DEF NewBSIRetainSet, a
  <2>4. QED BY <2>2, <2>3
<1>4. DOMAIN b.bA = 0 .. BitCount(b) - 1 /\ Made(b, BitCount(b), b.bA, b.eBM)
      /\ b.bA \in [0 .. BitCount(b) - 1 -> SUBSET Column]
  BY <1>1, IndexIs DEF Shaped
<1>5. f \in [0 .. BitCount(b) - 1 -> SUBSET Column]
      /\ \A j \in 0 .. BitCount(b) - 1 : f[j] = Slice(b, j) \cap S
  BY <1>4 DEF Made
<1> HIDE DEF a, f
<1>6. r = Updated(a, f, b.eBM \cap S)
  OBVIOUS
<1> HIDE DEF r
<1>7. Restricts(r, b, S)
  BY <1>2, <1>5, <1>6, CopyIs
<1>8. QED BY <1>3, <1>7

LEMMA LoadIs ==
  ASSUME NEW b, Good(b)
  PROVE  Restricts(UnmarshalBinary(NewDefaultBSI, b), b, Column)
<1> DEFINE a == NewDefaultBSI
           n == BitCount(b)
           g == [j \in 0 .. Larger(BitCount(a), n) - 1 |->
                   IF j < n THEN b.bA[j] ELSE a.bA[j]]
           r == Updated(a, g, b.eBM)
<1>1. b \in Index
  BY DEF Good
<1>2. Good(a) /\ a.max = 0 /\ a.min = 0 /\ BitCount(a) = 0 /\ a \in Index
  BY DefaultIs DEF Good
<1>3. UnmarshalBinary(a, b) = r
  <2> HIDE DEF a
  <2>1. QED BY <1>2 DEF UnmarshalBinary, Updated
<1>4. n \in Nat /\ Made(b, n, b.bA, b.eBM) /\ b.eBM \in SUBSET Column
      /\ b.bA \in [0 .. n - 1 -> SUBSET Column]
      /\ \A j : Slice(b, j) \in SUBSET Column
  BY <1>1, IndexIs
<1>5. Larger(BitCount(a), n) = n
  BY <1>2, <1>4 DEF Larger
<1>6. g \in [0 .. n - 1 -> SUBSET Column] /\ \A j \in 0 .. n - 1 : g[j] = Slice(b, j) \cap Column
  <2>1. g = [j \in 0 .. n - 1 |-> IF j < n THEN b.bA[j] ELSE a.bA[j]]
    BY <1>5
  <2>2. ASSUME NEW j \in 0 .. n - 1 PROVE g[j] = b.bA[j] /\ b.bA[j] \in SUBSET Column
                                         /\ Slice(b, j) = b.bA[j]
    <3>1. j < n
      BY <1>4
    <3>2. g[j] = b.bA[j]
      <4> HIDE DEF g
      <4>1. g[j] = IF j < n THEN b.bA[j] ELSE a.bA[j]
        BY <2>1, Zenon
      <4>2. QED BY <3>1, <4>1
    <3>3. b.bA[j] \in SUBSET Column
      BY <1>4, Zenon
    <3>4. Slice(b, j) = b.bA[j]
      <4>1. \A k \in 0 .. n - 1 : Slice(b, k) = b.bA[k]
        BY <1>4 DEF Made
      <4>2. QED BY <4>1
    <3>5. QED BY <3>2, <3>3, <3>4
  <2> HIDE DEF g
  <2>3. \A j \in 0 .. n - 1 : g[j] \in SUBSET Column /\ g[j] = Slice(b, j) \cap Column
    BY <2>2
  <2>4. DOMAIN g = 0 .. n - 1 /\ g = [j \in 0 .. n - 1 |-> g[j]]
    BY <2>1
  <2>5. QED BY <2>3, <2>4
<1>7. b.eBM = b.eBM \cap Column
  BY <1>4
<1> HIDE DEF a, g
<1>8. r = Updated(a, g, b.eBM \cap Column)
  BY <1>7
<1> HIDE DEF r
<1>9. Restricts(r, b, Column)
  BY <1>2, <1>6, <1>8, CopyIs
<1>10. QED BY <1>3, <1>9 DEF a

LEMMA OptimizeIs ==
  ASSUME NEW b, Good(b)
  PROVE  Restricts([b EXCEPT !.runOptimized = TRUE], b, Column)
<1> DEFINE r == [b EXCEPT !.runOptimized = TRUE]
<1>1. b \in Index /\ Wide(b)
  BY DEF Good
<1>2. r \in Index /\ r.bA = b.bA /\ r.eBM = b.eBM /\ r.max = b.max /\ r.min = b.min
  BY <1>1 DEF Index
<1>3. \A j : Slice(b, j) \in SUBSET Column
  BY <1>1, IndexIs
<1>4. b.eBM \in SUBSET Column
  BY <1>1, IndexIs
<1> HIDE DEF r
<1>5. BitCount(r) = BitCount(b) /\ \A j : Slice(r, j) = Slice(b, j)
  BY <1>2 DEF BitCount, Slice
<1>6. Wide(r)
  BY <1>1, <1>2, <1>5 DEF Wide
<1>7. /\ \A j \in Nat : \A c : c \in Slice(r, j) <=> c \in Slice(b, j) /\ c \in Column
      /\ \A c : c \in r.eBM <=> c \in b.eBM /\ c \in Column
  BY <1>2, <1>3, <1>4, <1>5
<1>8. Restricts(r, b, Column)
  BY <1>2, <1>5, <1>6, <1>7, RestrictTo
<1>9. QED BY <1>8 DEF r

(***************************************************************************)
(* Additions.                                                              *)
(***************************************************************************)

\* What places of W and more spell wraps out.
Multiple(n) == \E q \in Int : n = (Half + Half) * q

LEMMA MultipleSum ==
  ASSUME NEW m \in Int, NEW n \in Int, Multiple(m), Multiple(n)
  PROVE  Multiple(m + n)
<1>1. PICK p \in Int : m = (Half + Half) * p
  BY DEF Multiple
<1>2. PICK q \in Int : n = (Half + Half) * q
  BY DEF Multiple
<1> DEFINE h == Half + Half
<1>3. h \in Int
  BY Halves
<1> HIDE DEF h
<1>4. h * p + h * q = h * (p + q)
  BY <1>3
<1>5. m + n = h * (p + q)
  BY <1>1, <1>2, <1>4 DEF h
<1>6. QED BY <1>5 DEF h, Multiple

LEMMA PowerMultiple ==
  ASSUME NEW j \in Nat, j >= W
  PROVE  Multiple(2^j)
<1> DEFINE S == {k \in Nat : Multiple(2^(W + k))}
           n == j - W
<1>1. W \in Nat /\ n \in Nat /\ W + n = j
  BY Halves
<1>2. 0 \in S
  <2>1. 2^W = (Half + Half) * 1 /\ W + 0 = W
    BY Halves
  <2>2. Multiple(2^W)
    BY <2>1 DEF Multiple
  <2>3. QED BY <2>1, <2>2
<1>3. ASSUME NEW k \in Nat, k \in S PROVE k + 1 \in S
  <2>1. W + k \in Nat /\ W + (k + 1) = (W + k) + 1
    BY <1>1
  <2>2. 2^(W + k) \in Nat /\ 2^((W + k) + 1) = 2^(W + k) + 2^(W + k)
    BY <2>1, PowerStep
  <2>3. Multiple(2^(W + k) + 2^(W + k))
    BY <1>3, <2>2, MultipleSum
  <2>4. QED BY <2>1, <2>2, <2>3
<1> HIDE DEF S
<1>4. \A k \in 0 .. n : k \in S
  BY <1>1, <1>2, <1>3, UpTo
<1>5. QED BY <1>1, <1>4 DEF S

LEMMA HighMultiple ==
  ASSUME NEW K, Finite(K), \A j \in K : j >= W
  PROVE  Multiple(Worth(K))
<1> DEFINE G == {U \in SUBSET K : Multiple(Worth(U))}
<1>1. ASSUME NEW U \in SUBSET K, \A x \in U : U \ {x} \in G PROVE U \in G
  <2>1. CASE U = {}
    <3>1. Worth({}) = (Half + Half) * 0
      BY WorthEmpty, Halves
    <3>2. QED BY <2>1, <3>1 DEF Multiple
  <2>2. CASE U # {}
    <3>1. PICK x \in U : TRUE
      BY <2>2
    <3>2. x \in Nat /\ x >= W /\ Finite(U)
      BY <3>1, FS_Subset DEF Finite
    <3>3. {x} \subseteq U
      BY <3>1
    <3>4. Finite(U \ {x}) /\ Worth(U) = Worth({x}) + Worth(U \ {x})
      BY <3>2, <3>3, WorthSubset
    <3>5. Worth({x}) = 2^x /\ 2^x \in Nat /\ Worth(U \ {x}) \in Nat
      BY <3>2, <3>4, WorthOne, WorthInt, PowerStep
    <3>6. Multiple(2^x) /\ Multiple(Worth(U \ {x}))
      BY <1>1, <3>1, <3>2, PowerMultiple
    <3>7. Multiple(2^x + Worth(U \ {x}))
      BY <3>5, <3>6, MultipleSum
    <3>8. Multiple(Worth(U))
      BY <3>4, <3>5, <3>7
    <3>9. QED BY <3>8
  <2>3. QED BY <2>1, <2>2
<1> HIDE DEF G
<1>2. K \in G
  BY <1>1, AllSubsets DEF Finite
<1>3. QED BY <1>2 DEF G

Num(b, c, n) == Worth(Held(b, c, n))

LEMMA NumIs ==
  ASSUME NEW b, Shaped(b), NEW c, NEW n \in Nat, BitCount(b) <= n
  PROVE  Num(b, c, n) \in Nat /\ GetValue(b, c) = Wrap(Num(b, c, n))
<1> DEFINE K == Held(b, c, n)
           L == Held(b, c, W)
           H == {j \in K : j >= W}
<1>1. K \subseteq 0 .. n - 1 /\ L \subseteq 0 .. W - 1 /\ W \in Nat /\ BitCount(b) \in Nat
  BY Halves DEF Held, Shaped
<1>2. Finite(K) /\ Worth(K) \in Nat /\ Finite(L) /\ Worth(L) \in Nat
  BY <1>1, WorthBelow
<1>3. GetValue(b, c) = Wrap(Worth(L))
  BY GetIs
<1>4. CASE n <= W
  <2>1. L = K
    BY <1>1, <1>4, HeldAbove
  <2> HIDE DEF K, L
  <2>2. QED BY <1>2, <1>3, <2>1 DEF Num, K
<1>5. CASE ~ (n <= W)
  <2>1. L \subseteq K
    BY <1>1, <1>5 DEF Held
  <2>2. K \ L = H
    BY <1>1, <1>5 DEF Held
  <2> HIDE DEF K, L
  <2>3. Finite(K \ L) /\ Worth(K) = Worth(L) + Worth(K \ L)
    BY <1>2, <2>1, WorthSubset
  <2>4. Multiple(Worth(K \ L))
    <3>1. \A j \in K \ L : j >= W
      BY <2>2
    <3>2. QED BY <2>3, <3>1, HighMultiple
  <2>5. PICK q \in Int : Worth(K \ L) = (Half + Half) * q
    BY <2>4 DEF Multiple
  <2>6. Wrap(Worth(L) + (Half + Half) * q) = Wrap(Worth(L))
    BY <1>2, WrapMore
  <2>7. QED BY <1>2, <1>3, <2>3, <2>5, <2>6 DEF Num, K
<1>6. QED BY <1>1, <1>4, <1>5

\* A run of places.
LEMMA RunWorth ==
  ASSUME NEW i \in Nat, NEW t \in Nat, i <= t
  PROVE  /\ Finite(i .. t - 1)
         /\ Worth(i .. t - 1) + 2^i = 2^t
<1> DEFINE S == {k \in Nat : Worth(i .. (i + k) - 1) + 2^i = 2^(i + k)}
           n == t - i
<1>1. n \in Nat /\ i + n = t
  OBVIOUS
<1>2. 0 \in S
  <2>1. i .. (i + 0) - 1 = {} /\ i + 0 = i
    OBVIOUS
  <2>2. 2^i \in Nat
    BY PowerStep
  <2>3. Worth({}) + 2^i = 2^i
    BY <2>2, WorthEmpty
  <2>4. QED BY <2>1, <2>3
<1>3. ASSUME NEW k \in Nat, k \in S PROVE k + 1 \in S
  <2> DEFINE m == i + k
             A == i .. m - 1
             B == i .. (i + (k + 1)) - 1
  <2>1. m \in Nat /\ i + (k + 1) = m + 1
    OBVIOUS
  <2>2. A \subseteq 0 .. m - 1 /\ m \notin A /\ B = A \cup {m}
    BY <2>1
  <2>3. Worth(A) + 2^i = 2^m
    BY <1>3
  <2> HIDE DEF m, A, B
  <2>4. Finite(A) /\ Worth(A) \in Nat
    BY <2>1, <2>2, WorthBelow
  <2>5. Worth(A \cup {m}) = Worth(A) + Worth({m}) /\ Worth({m}) = 2^m
    <3>1. A \cap {m} = {}
      BY <2>2
    <3>2. QED BY <2>1, <2>4, <3>1, WorthOne, WorthUnion
  <2>6. 2^m \in Nat /\ 2^i \in Nat /\ 2^(m + 1) = 2^m + 2^m
    BY <2>1, PowerStep
  <2>7. Worth(B) + 2^i = 2^(i + (k + 1))
    BY <2>1, <2>2, <2>3, <2>4, <2>5, <2>6
  <2>8. QED BY <2>7 DEF B
<1> HIDE DEF S
<1>4. \A k \in 0 .. n : k \in S
  BY <1>1, <1>2, <1>3, UpTo
<1>5. Worth(i .. t - 1) + 2^i = 2^t
  <2>1. n \in 0 .. n
    BY <1>1
  <2>2. n \in S
    BY <1>4, <2>1
  <2>3. Worth(i .. (i + n) - 1) + 2^i = 2^(i + n)
    BY <2>2 DEF S
  <2>4. QED BY <1>1, <2>3, Zenon
<1>6. i .. t - 1 \subseteq 0 .. t - 1
  OBVIOUS
<1>7. QED BY <1>5, <1>6, WorthBelow

\* Adding at place i turns the run of ones from i on into zeros and the zero
\* at its end, at t, into a one.
LEMMA Ripple ==
  ASSUME NEW K, Finite(K), NEW i \in Nat, NEW t \in Nat, i <= t, t \notin K,
         i .. t - 1 \subseteq K, NEW L, L = (K \ (i .. t - 1)) \cup {t}
  PROVE  Worth(L) = Worth(K) + 2^i
<1> DEFINE A == i .. t - 1
           B == K \ A
<1>1. Worth(A) + 2^i = 2^t
  BY RunWorth
<1>2. A \subseteq K /\ L = B \cup {t} /\ B \cap {t} = {}
  OBVIOUS
<1> HIDE DEF A
<1>3. Finite(A) /\ Finite(B) /\ Worth(K) = Worth(A) + Worth(B)
  BY <1>2, WorthSubset
<1> HIDE DEF B
<1>4. Worth(B \cup {t}) = Worth(B) + Worth({t}) /\ Worth({t}) = 2^t
  BY <1>2, <1>3, WorthOne, WorthUnion
<1>5. Worth(A) \in Nat /\ Worth(B) \in Nat /\ 2^i \in Nat /\ 2^t \in Nat
  BY <1>3, WorthInt, PowerStep
<1>6. Worth(L) = Worth(B) + 2^t
  BY <1>2, <1>4
<1>7. QED BY ONLY <1>1, <1>3, <1>5, <1>6

LEMMA CarryIs ==
  ASSUME NEW b, NEW S, NEW i \in Nat, NEW j \in Nat, NEW c
  PROVE  c \in Carry(b, S, i, j) <=> c \in S /\ \A k \in i .. j - 1 : c \in Slice(b, k)
BY DEF Carry

\* The bits of c after the columns of S have been added at place i.
Added(r, b, S, i, c) ==
  \A j \in Nat : c \in Slice(r, j) <=>
    IF j < i THEN c \in Slice(b, j)
    ELSE ~ (c \in Slice(b, j) <=> c \in Carry(b, S, i, j))

\* Elsewhere there is no change.
LEMMA AddedOut ==
  ASSUME NEW b, NEW r, NEW S, NEW i \in Nat, NEW c, c \notin S, Added(r, b, S, i, c)
  PROVE  SameBits(r, b, c)
<1>1. \A j \in Nat : c \notin Carry(b, S, i, j)
  BY DEF Carry
<1>2. QED BY <1>1 DEF Added, SameBits

\* For a column of S the first place that it lacks is set, and the places
\* from i up to it are cleared.
LEMMA AddedIn ==
  ASSUME NEW b \in Index, NEW r, NEW S, NEW i \in Nat, NEW c \in S, Added(r, b, S, i, c),
         NEW n \in Nat, \A j \in Nat : j >= n => c \notin Slice(r, j)
  PROVE  Num(r, c, n) = Num(b, c, n) + 2^i
<1> DEFINE T == {k \in Nat : k >= i /\ c \notin Slice(b, k)}
           K == Held(b, c, n)
           L == Held(r, c, n)
<1>1. BitCount(b) \in Nat /\ Made(b, BitCount(b), b.bA, b.eBM)
  BY IndexIs
<1>2. T # {} /\ T \subseteq Nat
  <2>1. i + BitCount(b) \in Nat /\ i + BitCount(b) >= i
        /\ i + BitCount(b) \notin 0 .. BitCount(b) - 1
    BY <1>1
  <2>2. c \notin Slice(b, i + BitCount(b))
    BY <1>1, <2>1 DEF Made
  <2>3. QED BY <2>1, <2>2
<1>3. PICK t \in T : \A k \in T : t <= k
  <2> HIDE DEF T
  <2>1. QED BY <1>2, Least
<1>4. t \in Nat /\ i <= t /\ c \notin Slice(b, t)
  OBVIOUS
<1>5. \A k \in i .. t - 1 : c \in Slice(b, k)
  <2>1. ASSUME NEW k \in i .. t - 1, c \notin Slice(b, k) PROVE FALSE
    <3>1. k \in Nat /\ k >= i /\ ~ (t <= k)
      BY <1>4
    <3>2. k \in T
      BY <2>1, <3>1
    <3> HIDE DEF T
    <3>3. QED BY <1>3, <3>1, <3>2
  <2>2. QED BY <2>1
<1> HIDE DEF T
<1>6. ASSUME NEW j \in Nat, j >= i PROVE c \in Carry(b, S, i, j) <=> j <= t
  <2>1. CASE j <= t
    <3>1. \A k \in i .. j - 1 : k \in i .. t - 1
      BY <1>4, <2>1
    <3>2. c \in Carry(b, S, i, j)
      BY <1>5, <3>1, CarryIs
    <3>3. QED BY <2>1, <3>2
  <2>2. CASE ~ (j <= t)
    <3>1. t \in i .. j - 1
      BY <1>4, <2>2
    <3>2. c \notin Carry(b, S, i, j)
      BY <1>4, <3>1, CarryIs
    <3>3. QED BY <2>2, <3>2
  <2>3. QED BY <2>1, <2>2
<1>7. ASSUME NEW j \in Nat
      PROVE  c \in Slice(r, j) <=> (c \in Slice(b, j) /\ j \notin i .. t - 1) \/ j = t
  <2>1. CASE j < i
    <3>1. c \in Slice(r, j) <=> c \in Slice(b, j)
      BY <2>1 DEF Added
    <3>2. j \notin i .. t - 1 /\ j # t
      BY <1>4, <2>1
    <3>3. QED BY <3>1, <3>2
  <2>2. CASE ~ (j < i)
    <3>1. c \in Slice(r, j) <=> ~ (c \in Slice(b, j) <=> c \in Carry(b, S, i, j))
      BY <2>2 DEF Added
    <3>2. c \in Carry(b, S, i, j) <=> j <= t
      BY <1>6, <2>2
    <3>3. j \in i .. t - 1 <=> j < t
      BY <1>4, <2>2
    <3>4. j \in i .. t - 1 => c \in Slice(b, j)
      BY <1>5
    <3>5. j = t => c \notin Slice(b, j)
      BY <1>4
    <3>6. j <= t <=> j < t \/ j = t
      BY <1>4
    <3>7. QED BY <3>1, <3>2, <3>3, <3>4, <3>5, <3>6
  <2>3. QED BY <2>1, <2>2
<1>8. t < n
  <2>1. c \in Slice(r, t)
    BY <1>4, <1>7
  <2>2. QED BY <1>4, <2>1
<1>9. Finite(K)
  <2>1. K \subseteq 0 .. n - 1
    BY DEF Held
  <2> HIDE DEF K
  <2>2. QED BY <2>1, WorthBelow
<1>10. t \notin K /\ i .. t - 1 \subseteq K
  <2>1. \A k \in i .. t - 1 : k \in 0 .. n - 1
    BY <1>4, <1>8
  <2>2. QED BY <1>4, <1>5, <2>1 DEF Held
<1>11. L = (K \ (i .. t - 1)) \cup {t}
  <2>1. ASSUME NEW j PROVE j \in L <=> (j \in K /\ j \notin i .. t - 1) \/ j = t
    <3>1. CASE j \in 0 .. n - 1
      <4>1. j \in Nat
        BY <3>1
      <4>2. (j \in L <=> c \in Slice(r, j)) /\ (j \in K <=> c \in Slice(b, j))
        BY <3>1 DEF Held
      <4> HIDE DEF K, L
      <4>3. QED BY <1>7, <4>1, <4>2
    <3>2. CASE j \notin 0 .. n - 1
      <4>1. j \notin L /\ j \notin K /\ j # t
        BY <1>4, <1>8, <3>2 DEF Held
      <4>2. QED BY <4>1
    <3>3. QED BY <3>1, <3>2
  <2> HIDE DEF K, L
  <2>2. QED BY <2>1
<1> HIDE DEF K, L
<1>12. Worth(L) = Worth(K) + 2^i
  BY <1>4, <1>9, <1>10, <1>11, Ripple
<1>13. QED BY <1>12 DEF K, L, Num

\* Adding keeps an index good, and adds 2^i to the columns of S.
DigitMade(r, b, S, i) ==
  /\ Good(r) /\ r.eBM = b.eBM /\ BitCount(b) <= BitCount(r)
  /\ \A c : Added(r, b, S, i, c)

LEMMA DigitIs ==
  ASSUME NEW b, Good(b), NEW S, S \subseteq b.eBM, NEW i \in Nat
  PROVE  DigitMade(addDigit(b, S, i), b, S, i)
<1> DEFINE top == Larger(BitCount(b), i + 1)
           width == IF Carry(b, S, i, top) = {} THEN top ELSE top + 1
           f == [j \in 0 .. width - 1 |->
                   IF j < i THEN Slice(b, j) ELSE SymDiff(Slice(b, j), Carry(b, S, i, j))]
           r == Updated(b, f, b.eBM)
<1>1. b \in Index /\ Clean(b)
  BY DEF Good
<1>2. BitCount(b) \in Nat /\ Made(b, BitCount(b), b.bA, b.eBM) /\ b.eBM \in SUBSET Column
      /\ \A j : Slice(b, j) \in SUBSET Column
  BY <1>1, IndexIs
<1>3. addDigit(b, S, i) = r
  <2>1. addDigit(b, S, i) = [b EXCEPT !.bA = f]
    BY DEF addDigit
  <2> HIDE DEF f
  <2>2. QED BY <1>1, <2>1, OnlySlices
<1>4. top \in Nat /\ BitCount(b) <= top /\ i + 1 <= top
  BY <1>2, LargerIs
<1>5. width \in Nat /\ top <= width /\ width <= top + 1
  BY <1>4
<1>6. \A j \in Nat : j >= BitCount(b) => Slice(b, j) = {}
  BY <1>2 DEF Made
<1>7. ASSUME NEW j \in Nat, j >= width PROVE Carry(b, S, i, j) = {} /\ Slice(b, j) = {}
  <2>1. Slice(b, j) = {}
    BY <1>2, <1>4, <1>5, <1>6, <1>7
  <2>2. CASE Carry(b, S, i, top) = {}
    <3>1. \A k \in i .. top - 1 : k \in i .. j - 1
      BY <1>4, <1>5, <1>7
    <3>2. \A c \in Carry(b, S, i, j) : c \in Carry(b, S, i, top)
      BY <1>4, <3>1, CarryIs
    <3>3. QED BY <2>1, <2>2, <3>2
  <2>3. CASE Carry(b, S, i, top) # {}
    <3>1. width = top + 1
      BY <2>3
    <3>2. top \in i .. j - 1 /\ Slice(b, top) = {}
      BY <1>2, <1>4, <1>6, <1>7, <3>1
    <3>3. \A c \in Carry(b, S, i, j) : c \in Slice(b, top)
      BY <3>2, CarryIs
    <3>4. QED BY <2>1, <3>2, <3>3
  <2>4. QED BY <2>2, <2>3
<1>8. \A j \in Nat : Carry(b, S, i, j) \subseteq b.eBM
  BY DEF Carry
<1>9. \A j \in 0 .. width - 1 :
        /\ j \in Nat
        /\ f[j] = IF j < i THEN Slice(b, j) ELSE SymDiff(Slice(b, j), Carry(b, S, i, j))
  BY <1>5
<1> HIDE DEF width, top
<1>10. \A j \in 0 .. width - 1 : f[j] \subseteq b.eBM
  <2> HIDE DEF f
  <2>1. QED BY <1>1, <1>8, <1>9 DEF Clean, SymDiff
<1>11. f \in [0 .. width - 1 -> SUBSET Column]
  <2>1. DOMAIN f = 0 .. width - 1 /\ f = [j \in 0 .. width - 1 |-> f[j]]
    OBVIOUS
  <2> HIDE DEF f
  <2>2. \A j \in 0 .. width - 1 : f[j] \in SUBSET Column
    BY <1>2, <1>10
  <2>3. QED BY <2>1, <2>2
<1> HIDE DEF f
<1>12. BitCount(b) <= width
  BY <1>2, <1>4, <1>5
<1>13. Good(r) /\ Made(r, width, f, b.eBM) /\ r.max = b.max /\ r.min = b.min
  BY <1>2, <1>5, <1>10, <1>11, <1>12, MadeGood
<1> HIDE DEF r
<1>14. BitCount(r) = width /\ r.eBM = b.eBM
  BY <1>13 DEF Made
<1>15. ASSUME NEW c, NEW j \in Nat
       PROVE  c \in Slice(r, j) <=>
                IF j < i THEN c \in Slice(b, j)
                ELSE ~ (c \in Slice(b, j) <=> c \in Carry(b, S, i, j))
  <2>1. CASE j \in 0 .. width - 1
    <3>1. Slice(r, j) = f[j]
      BY <1>13, <2>1 DEF Made
    <3>2. QED BY <1>9, <2>1, <3>1 DEF SymDiff
  <2>2. CASE j \notin 0 .. width - 1
    <3>1. Slice(r, j) = {}
      BY <1>13, <2>2 DEF Made
    <3>2. j >= width
      BY <1>5, <2>2
    <3>3. Carry(b, S, i, j) = {} /\ Slice(b, j) = {}
      BY <1>7, <3>2
    <3>4. QED BY <3>1, <3>3
  <2>3. QED BY <2>1, <2>2
<1>16. DigitMade(r, b, S, i)
  BY <1>12, <1>13, <1>14, <1>15 DEF DigitMade, Added
<1>17. QED BY <1>3, <1>16

(***************************************************************************)
(* Folds.                                                                  *)
(***************************************************************************)

\* h folds the step st over the subsets of D, from base, by the choices ch.
Folding(h, D, base, st, ch) ==
  \A s \in D : h[s] = IF s = {} THEN base ELSE st[<<ch[s], h[s \ {ch[s]}]>>]

Chooses(ch, D) == \A s \in SUBSET D : s # {} => ch[s] \in s

LEMMA FoldExists ==
  ASSUME NEW D, IsFiniteSet(D), NEW T, NEW base \in T, NEW st \in [D \X T -> T],
         NEW ch, Chooses(ch, D)
  PROVE  \E h \in [SUBSET D -> T] : Folding(h, SUBSET D, base, st, ch)
<1> DEFINE Sub(n) == {s \in SUBSET D : Cardinality(s) <= n}
           Step(h, s) == IF s = {} THEN base ELSE st[<<ch[s], h[s \ {ch[s]}]>>]
           Ok == {n \in Nat : \E h \in [Sub(n) -> T] : Folding(h, Sub(n), base, st, ch)}
<1>1. \A s \in SUBSET D : IsFiniteSet(s) /\ Cardinality(s) \in Nat
  BY FS_Subset, FS_CardinalityType
<1>2. 0 \in Ok
  <2> DEFINE h == [s \in Sub(0) |-> base]
  <2>1. \A s \in Sub(0) : s = {}
    BY <1>1, FS_EmptySet
  <2>2. h \in [Sub(0) -> T] /\ \A s \in Sub(0) : h[s] = base
    OBVIOUS
  <2>3. Folding(h, Sub(0), base, st, ch)
    <3> HIDE DEF h, Sub
    <3>1. QED BY <2>1, <2>2 DEF Folding
  <2> HIDE DEF h, Sub
  <2>4. QED BY <2>2, <2>3
<1>3. ASSUME NEW n \in Nat, n \in Ok PROVE n + 1 \in Ok
  <2>1. PICK h \in [Sub(n) -> T] : Folding(h, Sub(n), base, st, ch)
    BY <1>3
  <2> DEFINE g == [s \in Sub(n + 1) |-> Step(h, s)]
  <2>2. ASSUME NEW s \in Sub(n + 1), s # {}
        PROVE  /\ s \ {ch[s]} \in Sub(n) /\ s \ {ch[s]} \in Sub(n + 1)
               /\ ch[s] \in D
    <3>1. ch[s] \in s
      BY <2>2 DEF Chooses
    <3>2. QED BY <1>1, <3>1, FS_RemoveElement
  <2>3. ASSUME NEW s \in Sub(n) PROVE h[s] = Step(h, s)
    BY <2>1, <2>3 DEF Folding
  <2>4. ASSUME NEW s \in Sub(n + 1), s # {} PROVE g[s \ {ch[s]}] = h[s \ {ch[s]}]
    <3> DEFINE u == s \ {ch[s]}
    <3>1. u \in Sub(n) /\ u \in Sub(n + 1)
      BY <2>2, <2>4
    <3> HIDE DEF u, Step, Sub
    <3>2. g[u] = Step(h, u) /\ h[u] = Step(h, u)
      BY <2>3, <3>1
    <3>3. QED BY <3>2 DEF u
  <2>5. \A s \in Sub(n + 1) : g[s] = Step(h, s) /\ Step(h, s) = Step(g, s)
    <3>1. \A s \in Sub(n + 1) : g[s] = Step(h, s)
      OBVIOUS
    <3> HIDE DEF g
    <3>2. QED BY <2>4, <3>1
  <2>6. \A s \in Sub(n + 1) : Step(h, s) \in T
    <3>1. ASSUME NEW s \in Sub(n + 1), s # {} PROVE st[<<ch[s], h[s \ {ch[s]}]>>] \in T
      <4>1. h[s \ {ch[s]}] \in T /\ ch[s] \in D
        BY <2>2, <3>1
      <4>2. <<ch[s], h[s \ {ch[s]}]>> \in D \X T
        BY <4>1
      <4>3. QED BY <4>2
    <3>2. QED BY <3>1
  <2>7. g \in [Sub(n + 1) -> T]
    <3> HIDE DEF Step, Sub
    <3>1. QED BY <2>6
  <2>8. Folding(g, Sub(n + 1), base, st, ch)
    <3> HIDE DEF g, Sub
    <3>1. \A s \in Sub(n + 1) : g[s] = Step(g, s)
      BY <2>5
    <3>2. QED BY <3>1 DEF Folding
  <2>9. n + 1 \in Nat
    OBVIOUS
  <2> HIDE DEF g, Sub
  <2>10. QED BY <2>7, <2>8, <2>9
<1>4. Cardinality(D) \in Ok
  <2> DEFINE n == Cardinality(D)
  <2>1. n \in Nat
    BY <1>1
  <2> HIDE DEF Ok, n
  <2>2. \A m \in 0 .. n : m # n /\ m \in Ok => m + 1 \in Ok
    BY <1>3
  <2>3. \A m \in 0 .. n : m \in Ok
    BY <1>2, <2>1, <2>2, UpTo
  <2>4. QED BY <2>1, <2>3 DEF n
<1>5. Sub(Cardinality(D)) = SUBSET D
  BY FS_Subset, FS_CardinalityType
<1>6. \E h \in [Sub(Cardinality(D)) -> T] : Folding(h, Sub(Cardinality(D)), base, st, ch)
  <2> HIDE DEF Sub
  <2>1. QED BY <1>4
<1> HIDE DEF Sub
<1>7. QED BY <1>5, <1>6

\* Choosing the greatest.
LEMMA MaxChosen ==
  ASSUME NEW n \in Nat, NEW m \in 1 .. n
  PROVE  Max(1 .. m) = m /\ (1 .. m) \ {Max(1 .. m)} = 1 .. m - 1
<1>1. 1 .. m \subseteq -1 .. n /\ n + 1 \in Nat /\ (n + 1) - 1 = n /\ m \in 1 .. m
  OBVIOUS
<1>2. Max(1 .. m) \in 1 .. m /\ \A y \in 1 .. m : Max(1 .. m) >= y
  BY <1>1, MaxOf
<1>3. Max(1 .. m) = m
  BY <1>1, <1>2
<1>4. (1 .. m) \ {m} = 1 .. m - 1
  OBVIOUS
<1>5. QED BY <1>3, <1>4

LEMMA MaxChooses ==
  ASSUME NEW n \in Nat, NEW ch, ch = [s \in SUBSET (1 .. n) |-> Max(s)]
  PROVE  Chooses(ch, 1 .. n)
<1>1. ASSUME NEW s \in SUBSET (1 .. n), s # {} PROVE Max(s) \in s
  <2>1. s \subseteq -1 .. (n + 1) - 1 /\ n + 1 \in Nat
    OBVIOUS
  <2>2. QED BY <1>1, <2>1, MaxOf
<1>2. QED BY <1>1 DEF Chooses

WithColumns(b, S) == [b EXCEPT !.eBM = @ \cup S]

LEMMA WithColumnsIs ==
  ASSUME NEW b, Good(b), NEW S \in SUBSET Column
  PROVE  /\ Good(WithColumns(b, S)) /\ WithColumns(b, S).eBM = b.eBM \cup S
         /\ BitCount(WithColumns(b, S)) = BitCount(b)
         /\ \A j : Slice(WithColumns(b, S), j) = Slice(b, j)
<1> DEFINE r == WithColumns(b, S)
<1>1. b \in Index /\ Clean(b) /\ Wide(b)
  BY DEF Good
<1>2. b.eBM \in SUBSET Column
  BY <1>1, IndexIs
<1>3. r \in Index /\ r.bA = b.bA /\ r.eBM = b.eBM \cup S /\ r.max = b.max /\ r.min = b.min
  BY <1>1, <1>2 DEF Index, WithColumns
<1> HIDE DEF r
<1>4. BitCount(r) = BitCount(b) /\ \A j : Slice(r, j) = Slice(b, j)
  BY <1>3 DEF BitCount, Slice
<1>5. Clean(r) /\ Wide(r)
  BY <1>1, <1>3, <1>4 DEF Clean, Wide
<1>6. QED BY <1>3, <1>4, <1>5 DEF Good, r

\* A column without a value reads as 0.
LEMMA EmptyValue ==
  ASSUME NEW b, Good(b), NEW c, c \notin b.eBM
  PROVE  GetValue(b, c) = 0 /\ \A n \in Nat : Held(b, c, n) = {}
<1>1. b \in Index /\ Clean(b)
  BY DEF Good
<1>2. \A n \in Nat : Held(b, c, n) = {}
  <2>1. \A j \in Nat : c \notin Slice(b, j)
    BY <1>1 DEF Clean
  <2>2. \A n \in Nat : \A j \in 0 .. n - 1 : j \in Nat
    OBVIOUS
  <2>3. QED BY <2>1, <2>2 DEF Held
<1>3. Held(b, c, W) = {} /\ Shaped(b)
  BY <1>1, <1>2, IndexIs, Halves
<1>4. GetValue(b, c) = Wrap(0)
  BY <1>3, GetIs, WorthEmpty
<1>5. QED BY <1>2, <1>4, WrapValue, ZeroValue

\* The number in a column, whatever its width.
Whole(b, c) == Num(b, c, BitCount(b))

LEMMA WholeIs ==
  ASSUME NEW b \in Index, NEW c
  PROVE  /\ Whole(b, c) \in Nat /\ GetValue(b, c) = Wrap(Whole(b, c))
         /\ \A n \in Nat : BitCount(b) <= n => Num(b, c, n) = Whole(b, c)
<1>1. BitCount(b) \in Nat /\ Shaped(b)
  BY IndexIs
<1>2. Whole(b, c) \in Nat /\ GetValue(b, c) = Wrap(Whole(b, c))
  BY <1>1, NumIs DEF Whole
<1>3. ASSUME NEW n \in Nat, BitCount(b) <= n PROVE Num(b, c, n) = Whole(b, c)
  BY <1>1, <1>3, HeldAbove DEF Num, Whole
<1>4. QED BY <1>2, <1>3

\* Adding at a place, in numbers.
LEMMA DigitAdds ==
  ASSUME NEW b, Good(b), NEW S, NEW i \in Nat, NEW r, DigitMade(r, b, S, i), NEW c
  PROVE  Whole(r, c) = Whole(b, c) + (IF c \in S THEN 2^i ELSE 0)
<1> DEFINE n == BitCount(r)
<1>1. b \in Index /\ r \in Index /\ Added(r, b, S, i, c) /\ BitCount(b) <= n
  BY DEF DigitMade, Good
<1>2. n \in Nat /\ Made(r, n, r.bA, r.eBM)
  BY <1>1, IndexIs
<1> HIDE DEF n
<1>3. Num(r, c, n) = Whole(r, c) /\ Num(b, c, n) = Whole(b, c) /\ Whole(b, c) \in Nat
  BY <1>1, <1>2, WholeIs DEF Whole, n
<1>4. CASE c \in S
  <2>1. \A j \in Nat : j >= n => c \notin Slice(r, j)
    BY <1>2 DEF Made
  <2>2. Num(r, c, n) = Num(b, c, n) + 2^i
    BY <1>1, <1>2, <1>4, <2>1, AddedIn
  <2>3. QED BY <1>3, <1>4, <2>2
<1>5. CASE c \notin S
  <2>1. SameBits(r, b, c)
    BY <1>1, <1>5, AddedOut
  <2>2. Held(r, c, n) = Held(b, c, n)
    BY <2>1 DEF SameBits, Held
  <2>3. QED BY <1>3, <1>5, <2>2 DEF Num
<1>6. QED BY <1>4, <1>5

\* Some columns have grown by one.
Increments(r, b, S) ==
  /\ Good(r)
  /\ \A c \in S : Gives(r, c, Wrap(GetValue(b, c) + 1))
  /\ \A c : c \notin S => Keeps(r, b, c)

LEMMA IncrementIs ==
  ASSUME NEW b, Good(b), NEW S \in SUBSET Column
  PROVE  Increments(Increment(b, S), b, S)
<1> DEFINE a == WithColumns(b, S)
           r == addDigit(a, S, 0)
<1>1. /\ Good(a) /\ a.eBM = b.eBM \cup S /\ BitCount(a) = BitCount(b)
      /\ \A j : Slice(a, j) = Slice(b, j)
  BY WithColumnsIs
<1>2. Increment(b, S) = r
  <2> DEFINE top(x) == Larger(BitCount(x), 0 + 1)
             width(x) == IF Carry(x, S, 0, top(x)) = {} THEN top(x) ELSE top(x) + 1
             f(x) == [j \in 0 .. width(x) - 1 |->
                        IF j < 0 THEN Slice(x, j)
                        ELSE SymDiff(Slice(x, j), Carry(x, S, 0, j))]
  <2>1. top(a) = top(b) /\ \A j : Carry(a, S, 0, j) = Carry(b, S, 0, j)
    BY <1>1 DEF Carry
  <2>2. width(a) = width(b)
    <3> HIDE DEF top
    <3>1. QED BY <2>1
  <2>3. f(a) = f(b)
    <3> HIDE DEF width
    <3>1. QED BY <1>1, <2>1, <2>2
  <2>4. addDigit(a, S, 0) = [a EXCEPT !.bA = f(a)] /\ addDigit(b, S, 0) = [b EXCEPT !.bA = f(b)]
    BY DEF addDigit
  <2>5. b \in Index
    BY DEF Good
  <2> HIDE DEF f
  <2>6. r = [a EXCEPT !.bA = f(b)]
    BY <2>3, <2>4
  <2>7. Increment(b, S) = [[b EXCEPT !.bA = f(b)] EXCEPT !.eBM = @ \cup S]
    BY <2>4 DEF Increment
  <2>8. [[b EXCEPT !.eBM = @ \cup S] EXCEPT !.bA = f(b)] =
          [[b EXCEPT !.bA = f(b)] EXCEPT !.eBM = @ \cup S]
    BY <2>5 DEF Index
  <2> HIDE DEF r
  <2>9. QED BY <2>6, <2>7, <2>8 DEF WithColumns
<1>3. a \in Index /\ b \in Index
  BY <1>1 DEF Good
<1> HIDE DEF a
<1>4. DigitMade(r, a, S, 0)
  <2>1. S \subseteq a.eBM
    BY <1>1
  <2>2. QED BY <1>1, <2>1, DigitIs
<1> HIDE DEF r
<1>5. Good(r) /\ r.eBM = b.eBM \cup S /\ r \in Index
  BY <1>1, <1>4 DEF DigitMade, Good
<1>6. ASSUME NEW c \in S PROVE Gives(r, c, Wrap(GetValue(b, c) + 1))
  <2>1. Whole(r, c) = Whole(a, c) + 1
    <3>1. ASSUME NEW i \in Nat, i = 0 PROVE Whole(r, c) = Whole(a, c) + 2^i
      <4>1. DigitMade(r, a, S, i)
        BY <1>4, <3>1
      <4>2. Whole(r, c) = Whole(a, c) + (IF c \in S THEN 2^i ELSE 0)
        BY <1>1, <4>1, DigitAdds
      <4>3. QED BY <4>2
    <3>2. \A i \in Nat : i = 0 => 2^i = 1
      BY PowerZero
    <3>3. QED BY <3>1, <3>2
  <2>2. Held(a, c, BitCount(b)) = Held(b, c, BitCount(b))
    BY <1>1 DEF Held
  <2>3. Whole(a, c) = Whole(b, c)
    BY <1>1, <2>2 DEF Whole, Num
  <2>4. Whole(b, c) \in Nat /\ GetValue(b, c) = Wrap(Whole(b, c))
        /\ GetValue(r, c) = Wrap(Whole(r, c))
    BY <1>3, <1>5, WholeIs
  <2>5. Wrap(Wrap(Whole(b, c)) + 1) = Wrap(Whole(b, c) + 1)
    BY <2>4, WrapSum
  <2>6. GetValue(r, c) = Wrap(GetValue(b, c) + 1)
    BY <2>1, <2>3, <2>4, <2>5
  <2>7. c \in r.eBM
    BY <1>5
  <2>8. QED BY <2>6, <2>7 DEF Gives
<1>7. ASSUME NEW c, c \notin S PROVE Keeps(r, b, c)
  <2>1. SameBits(r, a, c)
    BY <1>4, <1>7, AddedOut DEF DigitMade
  <2>2. SameBits(r, b, c)
    BY <1>1, <2>1 DEF SameBits
  <2>3. c \in r.eBM <=> c \in b.eBM
    BY <1>5, <1>7
  <2>4. QED BY <1>3, <1>5, <2>2, <2>3, KeepsBits
<1>8. Increments(r, b, S)
  BY <1>5, <1>6, <1>7 DEF Increments
<1>9. QED BY <1>2, <1>8

\* The loop over the slices of o.
AddLoop(h, b, o) ==
  /\ h[0] = WithColumns(b, o.eBM)
  /\ \A m \in 1 .. BitCount(o) : h[m] = addDigit(h[m - 1], o.bA[m - 1], m - 1)

LEMMA AddUnfolds ==
  ASSUME NEW b, Good(b), NEW o, Good(o)
  PROVE  \E h : AddLoop(h, b, o) /\ Add(b, o) = h[BitCount(o)]
<1> DEFINE n == BitCount(o)
           D == 1 .. n
           base == WithColumns(b, o.eBM)
           seq == [m \in 1 .. n |-> m - 1]
           T == {x \in Index : Good(x) /\ o.eBM \subseteq x.eBM}
           P(g) == g = [s \in SUBSET D |->
                          IF s = {} THEN base
                          ELSE addDigit(g[s \ {Max(s)}], o.bA[seq[Max(s)]], seq[Max(s)])]
           f == CHOOSE g : P(g)
           ch == [s \in SUBSET D |-> Max(s)]
           st == [p \in D \X T |-> addDigit(p[2], o.bA[seq[p[1]]], seq[p[1]])]
<1>1. o \in Index /\ Clean(o) /\ n \in Nat /\ o.eBM \in SUBSET Column
      /\ Made(o, n, o.bA, o.eBM)
  BY IndexIs DEF Good
<1>2. Good(base) /\ base.eBM = b.eBM \cup o.eBM
  BY <1>1, WithColumnsIs
<1>3. base \in T
  BY <1>2 DEF Good
<1>4. IsFiniteSet(D) /\ DOMAIN seq = D
  BY <1>1, FS_Interval
<1>5. ASSUME NEW x \in T, NEW m \in D PROVE addDigit(x, o.bA[seq[m]], seq[m]) \in T
  <2>1. seq[m] = m - 1 /\ m - 1 \in Nat /\ m - 1 \in 0 .. n - 1
    BY <1>1
  <2>2. o.bA[m - 1] = Slice(o, m - 1) /\ Slice(o, m - 1) \subseteq o.eBM
    BY <1>1, <2>1 DEF Made, Clean
  <2>3. Good(x) /\ o.eBM \subseteq x.eBM
    OBVIOUS
  <2>4. o.bA[m - 1] \subseteq x.eBM
    BY <2>2, <2>3
  <2>5. DigitMade(addDigit(x, o.bA[m - 1], m - 1), x, o.bA[m - 1], m - 1)
    BY <2>1, <2>3, <2>4, DigitIs
  <2> HIDE DEF seq
  <2>6. QED BY <2>1, <2>3, <2>5 DEF DigitMade, Good
<1>6. Chooses(ch, D)
  BY <1>1, MaxChooses
<1> HIDE DEF seq
<1>7. st \in [D \X T -> T]
  <2>1. ASSUME NEW p \in D \X T PROVE addDigit(p[2], o.bA[seq[p[1]]], seq[p[1]]) \in T
    <3>1. p[1] \in D /\ p[2] \in T
      OBVIOUS
    <3> HIDE DEF D, T
    <3>2. QED BY <1>5, <3>1
  <2> HIDE DEF D, T
  <2>2. QED BY <2>1
<1> HIDE DEF st
<1>8. PICK h \in [SUBSET D -> T] : Folding(h, SUBSET D, base, st, ch)
  <2> HIDE DEF T, base, ch, D
  <2>1. QED BY <1>3, <1>4, <1>6, <1>7, FoldExists
<1>9. P(h)
  <2>1. ASSUME NEW s \in SUBSET D, s # {}
        PROVE  h[s] = addDigit(h[s \ {Max(s)}], o.bA[seq[Max(s)]], seq[Max(s)])
    <3>1. ch[s] = Max(s) /\ Max(s) \in D
      <4>1. ch[s] = Max(s)
        OBVIOUS
      <4> HIDE DEF ch, D
      <4>2. ch[s] \in s
        BY <1>6, <2>1 DEF Chooses
      <4>3. QED BY <4>1, <4>2
    <3>2. s \ {Max(s)} \in SUBSET D
      OBVIOUS
    <3> HIDE DEF ch, D, T
    <3>3. h[s \ {Max(s)}] \in T
      BY <3>2
    <3>4. h[s] = st[<<Max(s), h[s \ {Max(s)}]>>]
      BY <1>8, <2>1, <3>1 DEF Folding
    <3>5. <<Max(s), h[s \ {Max(s)}]>> \in D \X T
      BY <3>1, <3>3
    <3>6. QED BY <3>4, <3>5 DEF st
  <2>2. h[{}] = base
    <3>1. {} \in SUBSET D
      OBVIOUS
    <3>2. QED BY <1>8, <3>1 DEF Folding
  <2> HIDE DEF base, T, D
  <2>3. \A s \in SUBSET D :
          h[s] = IF s = {} THEN base
                 ELSE addDigit(h[s \ {Max(s)}], o.bA[seq[Max(s)]], seq[Max(s)])
    BY <2>1, <2>2
  <2>4. h = [s \in SUBSET D |-> h[s]]
    OBVIOUS
  <2>5. QED BY <2>3, <2>4
<1>10. Add(b, o) = f[D]
  <2>1. DOMAIN seq = D
    BY <1>4
  <2>2. seq = [m \in 1 .. BitCount(o) |-> m - 1]
    BY DEF seq
  <2>3. Add(b, o) = FoldLeft(LAMBDA sum, j : addDigit(sum, o.bA[j], j), base, seq)
    BY <2>2 DEF Add, WithColumns
  <2> HIDE DEF base, D
  <2>4. QED BY <2>1, <2>3 DEF FoldLeft, MapThenFoldSet
<1>11. P(f)
  <2> HIDE DEF P
  <2>1. QED BY <1>9
<1> HIDE DEF f
<1> DEFINE k == [m \in 0 .. n |-> f[1 .. m]]
<1>12. AddLoop(k, b, o)
  <2>1. k[0] = base
    <3>1. 1 .. 0 = {} /\ 0 \in 0 .. n /\ {} \in SUBSET D
      BY <1>1
    <3>2. f[{}] = base
      <4> HIDE DEF D, base
      <4>1. QED BY <1>11, <3>1
    <3>3. QED BY <3>1, <3>2
  <2>2. ASSUME NEW m \in 1 .. n PROVE k[m] = addDigit(k[m - 1], o.bA[m - 1], m - 1)
    <3>1. 1 .. m \in SUBSET D /\ 1 .. m # {} /\ m \in 0 .. n /\ m - 1 \in 0 .. n
      BY <1>1
    <3>2. Max(1 .. m) = m /\ (1 .. m) \ {Max(1 .. m)} = 1 .. m - 1
      BY <1>1, MaxChosen
    <3>3. seq[m] = m - 1
      BY DEF seq
    <3>4. f[1 .. m] = addDigit(f[(1 .. m) \ {Max(1 .. m)}], o.bA[seq[Max(1 .. m)]],
                               seq[Max(1 .. m)])
      <4> DEFINE s == 1 .. m
      <4>1. s \in SUBSET D /\ s # {}
        BY <3>1
      <4> HIDE DEF s, D, base
      <4>2. f[s] = addDigit(f[s \ {Max(s)}], o.bA[seq[Max(s)]], seq[Max(s)])
        BY <1>11, <4>1
      <4>3. QED BY <4>2 DEF s
    <3>5. f[1 .. m] = addDigit(f[1 .. m - 1], o.bA[m - 1], m - 1)
      BY ONLY <3>2, <3>3, <3>4
    <3>6. k[m] = f[1 .. m] /\ k[m - 1] = f[1 .. m - 1]
      BY <3>1
    <3>7. QED BY ONLY <3>5, <3>6
  <2> HIDE DEF k
  <2>3. QED BY <2>1, <2>2 DEF AddLoop
<1>13. k[n] = f[D]
  BY <1>1
<1> HIDE DEF k
<1>14. Add(b, o) = k[BitCount(o)]
  BY <1>10, <1>13
<1>15. QED BY <1>12, <1>14

\* What the loop has made after m slices.
LEMMA AddIs ==
  ASSUME NEW b, Good(b), NEW o, Good(o)
  PROVE  /\ Good(Add(b, o)) /\ Add(b, o).eBM = b.eBM \cup o.eBM
         /\ \A c : Whole(Add(b, o), c) = Whole(b, c) + Whole(o, c)
<1> DEFINE n == BitCount(o)
           e == b.eBM \cup o.eBM
<1>1. o \in Index /\ Clean(o) /\ n \in Nat /\ o.eBM \in SUBSET Column
      /\ Made(o, n, o.bA, o.eBM) /\ b \in Index
  BY IndexIs DEF Good
<1>2. PICK h : AddLoop(h, b, o) /\ Add(b, o) = h[n]
  BY AddUnfolds
<1> DEFINE Ok(m) == /\ Good(h[m]) /\ h[m].eBM = e
                    /\ \A c : Whole(h[m], c) = Whole(b, c) + Worth(Held(o, c, m))
           S == {m \in Nat : m <= n => Ok(m)}
<1>3. 0 \in S
  <2> DEFINE a == WithColumns(b, o.eBM)
  <2>1. h[0] = a
    BY <1>2 DEF AddLoop
  <2>2. /\ Good(a) /\ a.eBM = e /\ BitCount(a) = BitCount(b)
        /\ \A j : Slice(a, j) = Slice(b, j)
    BY <1>1, WithColumnsIs
  <2>3. ASSUME NEW c PROVE Whole(a, c) = Whole(b, c) + Worth(Held(o, c, 0))
    <3>1. Held(a, c, BitCount(b)) = Held(b, c, BitCount(b))
      BY <2>2 DEF Held
    <3>2. Whole(a, c) = Whole(b, c)
      BY <2>2, <3>1 DEF Whole, Num
    <3>3. Held(o, c, 0) = {}
      BY DEF Held
    <3>4. Worth(Held(o, c, 0)) = 0 /\ Whole(b, c) \in Nat
      BY <1>1, <3>3, WorthEmpty, WholeIs
    <3>5. QED BY <3>2, <3>4
  <2> HIDE DEF a, e
  <2>4. Ok(0)
    BY <2>1, <2>2, <2>3
  <2>5. QED BY <2>4
<1>4. ASSUME NEW m \in Nat, m \in S, m # n, m <= n PROVE m + 1 \in S
  <2>1. Ok(m)
    BY <1>4
  <2>2. m + 1 \in 1 .. n /\ (m + 1) - 1 = m /\ m \in 0 .. n - 1
    BY <1>1, <1>4
  <2> DEFINE D == o.bA[m]
             x == h[m]
             y == h[m + 1]
  <2>3. D = Slice(o, m) /\ D \subseteq o.eBM
    BY <1>1, <2>2 DEF Made, Clean
  <2>4. y = addDigit(x, D, m)
    BY <1>2, <2>2 DEF AddLoop
  <2>5. DigitMade(y, x, D, m)
    <3>1. D \subseteq x.eBM
      BY <2>1, <2>3
    <3> HIDE DEF D, x, y
    <3>2. Good(x)
      BY <2>1 DEF x
    <3>3. QED BY <2>4, <3>1, <3>2, DigitIs
  <2>6. Good(y) /\ y.eBM = e
    BY <2>1, <2>5 DEF DigitMade
  <2>7. ASSUME NEW c PROVE Whole(y, c) = Whole(b, c) + Worth(Held(o, c, m + 1))
    <3> DEFINE K == Held(o, c, m)
               L == Held(o, c, m + 1)
    <3>1. Whole(y, c) = Whole(x, c) + (IF c \in D THEN 2^m ELSE 0)
      <4>1. Good(x)
        BY <2>1
      <4> HIDE DEF x, y, D
      <4>2. QED BY <2>5, <4>1, DigitAdds
    <3>2. Whole(x, c) = Whole(b, c) + Worth(K)
      BY <2>1
    <3>3. L = (IF c \in D THEN K \cup {m} ELSE K) /\ K \cap {m} = {} /\ K \subseteq 0 .. m - 1
      BY <2>3 DEF Held
    <3> HIDE DEF K, L, D, x, y
    <3>4. Finite(K) /\ Worth(K) \in Nat
      BY <3>3, WorthBelow
    <3>5. Worth(K \cup {m}) = Worth(K) + Worth({m}) /\ Worth({m}) = 2^m /\ 2^m \in Nat
      BY <3>3, <3>4, WorthOne, WorthUnion, PowerStep
    <3>6. Whole(b, c) \in Nat
      BY <1>1, WholeIs
    <3>7. CASE c \in D
      <4>1. Worth(L) = Worth(K) + 2^m
        BY <3>3, <3>5, <3>7
      <4>2. Whole(y, c) = Whole(x, c) + 2^m
        BY <3>1, <3>7
      <4>3. Whole(y, c) = Whole(b, c) + Worth(L)
        BY ONLY <3>2, <3>4, <3>5, <3>6, <4>1, <4>2
      <4>4. QED BY <4>3 DEF L
    <3>8. CASE c \notin D
      <4>1. Whole(y, c) = Whole(b, c) + Worth(L)
        BY <3>1, <3>2, <3>3, <3>4, <3>6, <3>8
      <4>2. QED BY <4>1 DEF L
    <3>9. QED BY <3>7, <3>8
  <2>8. Ok(m + 1)
    BY <2>6, <2>7
  <2> HIDE DEF Ok
  <2>9. QED BY <2>8
<1> HIDE DEF S
<1>5. \A m \in 0 .. n : m \in S
  <2>1. \A m \in 0 .. n : m # n /\ m \in S => m + 1 \in S
    BY <1>4
  <2>2. QED BY <1>1, <1>3, <2>1, UpTo
<1>6. Ok(n)
  <2>1. n \in 0 .. n /\ n <= n
    BY <1>1
  <2>2. n \in S
    BY <1>5, <2>1
  <2> HIDE DEF Ok, n
  <2>3. QED BY <2>1, <2>2 DEF S
<1>7. \A c : Worth(Held(o, c, n)) = Whole(o, c)
  BY DEF Whole, Num
<1>8. QED BY <1>2, <1>6, <1>7

\* A sum of two indexes, in values.
AddsTo(r, b, o) ==
  /\ Good(r)
  /\ \A c : c \in r.eBM <=> c \in b.eBM \/ c \in o.eBM
  /\ \A c : GetValue(r, c) = Wrap(GetValue(b, c) + GetValue(o, c))

LEMMA AddValues ==
  ASSUME NEW b, Good(b), NEW o, Good(o)
  PROVE  AddsTo(Add(b, o), b, o)
<1> DEFINE r == Add(b, o)
<1>1. /\ Good(r) /\ r.eBM = b.eBM \cup o.eBM
      /\ \A c : Whole(r, c) = Whole(b, c) + Whole(o, c)
  BY AddIs
<1>2. r \in Index /\ b \in Index /\ o \in Index
  BY <1>1 DEF Good
<1> HIDE DEF r
<1>3. ASSUME NEW c PROVE GetValue(r, c) = Wrap(GetValue(b, c) + GetValue(o, c))
  <2>1. /\ GetValue(r, c) = Wrap(Whole(r, c))
        /\ GetValue(b, c) = Wrap(Whole(b, c)) /\ Whole(b, c) \in Nat
        /\ GetValue(o, c) = Wrap(Whole(o, c)) /\ Whole(o, c) \in Nat
    BY <1>2, WholeIs
  <2>2. Wrap(Wrap(Whole(b, c)) + Wrap(Whole(o, c))) = Wrap(Whole(b, c) + Whole(o, c))
    BY <2>1, WrapSum
  <2>3. QED BY <1>1, <2>1, <2>2
<1>4. QED BY <1>1, <1>3 DEF AddsTo, r

(***************************************************************************)
(* Concatenating with one other index.                                     *)
(***************************************************************************)

LEMMA OnlyOne ==
  /\ Max({1}) = 1 /\ {1} \ {Max({1})} = {} /\ \A s \in SUBSET {1} : s = {} \/ s = {1}
  /\ {} \in SUBSET {1} /\ {1} \in SUBSET {1}
<1>1. 1 .. 1 = {1} /\ 1 \in 1 .. 1 /\ 1 \in Nat
  OBVIOUS
<1>2. Max(1 .. 1) = 1
  BY <1>1, MaxChosen
<1>3. QED BY <1>1, <1>2

\* The width of the result.
LEMMA WidthFolds ==
  ASSUME NEW b, NEW o
  PROVE  FoldLeft(LAMBDA w, x : Larger(w, BitCount(x)), BitCount(b), <<o>>) =
           Larger(BitCount(b), BitCount(o))
<1> DEFINE D == {1}
           base == BitCount(b)
           seq == <<o>>
           P(g) == g = [s \in SUBSET D |->
                          IF s = {} THEN base
                          ELSE Larger(g[s \ {Max(s)}], BitCount(seq[Max(s)]))]
           f == CHOOSE g : P(g)
           made == Larger(base, BitCount(o))
           h == [s \in SUBSET D |-> IF s = {} THEN base ELSE made]
<1>1. seq[1] = o /\ DOMAIN seq = D
  OBVIOUS
<1> HIDE DEF seq
<1>2. h[{}] = base /\ h[D] = made
  BY OnlyOne
<1>3. P(h)
  <2>1. ASSUME NEW s \in SUBSET D
        PROVE  h[s] = IF s = {} THEN base ELSE Larger(h[s \ {Max(s)}], BitCount(seq[Max(s)]))
    <3>1. s = {} \/ s = D
      BY OnlyOne
    <3>2. D # {} /\ D \ {Max(D)} = {} /\ Max(D) = 1
      BY OnlyOne
    <3> HIDE DEF h, D, base
    <3>3. Larger(h[D \ {Max(D)}], BitCount(seq[Max(D)])) = made
      BY <1>1, <1>2, <3>2
    <3>4. QED BY <1>2, <3>1, <3>2, <3>3
  <2>2. h = [s \in SUBSET D |-> h[s]]
    OBVIOUS
  <2> HIDE DEF h, D, base
  <2>3. QED BY <2>1, <2>2
<1>4. P(f)
  <2> HIDE DEF P
  <2>1. QED BY <1>3
<1>5. f[D] = made
  <2> HIDE DEF f
  <2>1. f[{}] = base
    BY <1>4, OnlyOne
  <2>2. f[D] = Larger(f[D \ {Max(D)}], BitCount(seq[Max(D)]))
    <3>1. D \in SUBSET D /\ D # {}
      OBVIOUS
    <3> HIDE DEF D, base
    <3>2. QED BY <1>4, <3>1
  <2>3. D \ {Max(D)} = {} /\ Max(D) = 1
    BY OnlyOne
  <2> HIDE DEF D, base
  <2>4. QED BY <1>1, <2>1, <2>2, <2>3
<1>6. FoldLeft(LAMBDA w, x : Larger(w, BitCount(x)), base, seq) = f[D]
  <2> HIDE DEF base, D
  <2>1. QED BY <1>1 DEF FoldLeft, MapThenFoldSet
<1>7. QED BY <1>5, <1>6 DEF seq

\* The slice that the other gives.
LEMMA GivenFolds ==
  ASSUME NEW o, Shaped(o), NEW j \in Nat
  PROVE  FoldLeft(LAMBDA a, x : IF BitCount(x) > j THEN a \cup x.bA[j] ELSE {}, {}, <<o>>) =
           Slice(o, j)
<1> DEFINE D == {1}
           seq == <<o>>
           Next2(a, x) == IF BitCount(x) > j THEN a \cup x.bA[j] ELSE {}
           P(g) == g = [s \in SUBSET D |->
                          IF s = {} THEN {} ELSE Next2(g[s \ {Max(s)}], seq[Max(s)])]
           f == CHOOSE g : P(g)
           made == Next2({}, o)
           h == [s \in SUBSET D |-> IF s = {} THEN {} ELSE made]
<1>1. seq[1] = o /\ DOMAIN seq = D
  OBVIOUS
<1> HIDE DEF seq
<1>2. h[{}] = {} /\ h[D] = made
  BY OnlyOne
<1>3. P(h)
  <2> HIDE DEF Next2
  <2>1. ASSUME NEW s \in SUBSET D
        PROVE  h[s] = IF s = {} THEN {} ELSE Next2(h[s \ {Max(s)}], seq[Max(s)])
    <3>1. s = {} \/ s = D
      BY OnlyOne
    <3>2. D # {} /\ D \ {Max(D)} = {} /\ Max(D) = 1
      BY OnlyOne
    <3> HIDE DEF h, D
    <3>3. Next2(h[D \ {Max(D)}], seq[Max(D)]) = made
      BY <1>1, <1>2, <3>2
    <3>4. QED BY <1>2, <3>1, <3>2, <3>3
  <2>2. h = [s \in SUBSET D |-> h[s]]
    OBVIOUS
  <2> HIDE DEF h, D
  <2>3. QED BY <2>1, <2>2
<1>4. P(f)
  <2> HIDE DEF P
  <2>1. QED BY <1>3
<1>5. f[D] = made
  <2> HIDE DEF f
  <2> HIDE DEF Next2
  <2>1. f[{}] = {}
    BY <1>4, OnlyOne
  <2>2. f[D] = Next2(f[D \ {Max(D)}], seq[Max(D)])
    <3>1. D \in SUBSET D /\ D # {}
      OBVIOUS
    <3> HIDE DEF D
    <3>2. QED BY <1>4, <3>1
  <2>3. D \ {Max(D)} = {} /\ Max(D) = 1
    BY OnlyOne
  <2> HIDE DEF D
  <2>4. QED BY <1>1, <2>1, <2>2, <2>3
<1>6. FoldLeft(LAMBDA a, x : IF BitCount(x) > j THEN a \cup x.bA[j] ELSE {}, {}, seq) = f[D]
  <2> HIDE DEF D
  <2>1. QED BY <1>1 DEF FoldLeft, MapThenFoldSet
<1>7. made = Slice(o, j)
  BY DEF Slice, Shaped
<1>8. QED BY <1>5, <1>6, <1>7 DEF seq

\* Numbers of W bits that wrap to the same value are the same.
LEMMA WrapOnce ==
  ASSUME NEW m \in Nat, m < Half + Half, NEW n \in Nat, n < Half + Half, Wrap(m) = Wrap(n)
  PROVE  m = n
<1>1. Half \in Nat /\ Half >= 1
  BY Halves
<1>2. ASSUME NEW u \in Nat, u < Half + Half
      PROVE  Wrap(u) = IF u < Half THEN u ELSE u - (Half + Half)
  <2>1. CASE u < Half
    <3>1. u \in Value
      BY <1>1, <2>1, ValueIs
    <3>2. QED BY <2>1, <3>1, WrapValue
  <2>2. CASE ~ (u < Half)
    <3> DEFINE v == u - (Half + Half)
    <3>1. v \in Int /\ -Half <= v /\ v < Half
      BY <1>1, <1>2, <2>2
    <3>2. v \in Value
      BY <3>1, ValueIs
    <3>3. \A q \in Int : Wrap(v + (Half + Half) * q) = Wrap(v)
      BY <3>1, WrapMore
    <3>4. \A q \in Int : q = 1 => v + (Half + Half) * q = u
      BY <1>1, <3>1
    <3> HIDE DEF v
    <3>5. \A q \in Int : q = 1 => Wrap(u) = Wrap(v)
      BY <3>3, <3>4
    <3>6. Wrap(u) = v
      BY <3>2, <3>5, WrapValue
    <3>7. QED BY <2>2, <3>6 DEF v
  <2>3. QED BY <2>1, <2>2
<1>3. /\ Wrap(m) = IF m < Half THEN m ELSE m - (Half + Half)
      /\ Wrap(n) = IF n < Half THEN n ELSE n - (Half + Half)
  BY <1>2
<1>4. QED BY ONLY <1>1, <1>3, m \in Nat, m < Half + Half, n \in Nat, n < Half + Half,
             Wrap(m) = Wrap(n)

\* A value stands in the same places wherever it stands.
LEMMA SameHeld ==
  ASSUME NEW b, Shaped(b), NEW o, Shaped(o), NEW c, GetValue(b, c) = GetValue(o, c)
  PROVE  Held(b, c, W) = Held(o, c, W)
<1> DEFINE K == Held(b, c, W)
           L == Held(o, c, W)
<1>1. K \subseteq 0 .. W - 1 /\ L \subseteq 0 .. W - 1
  BY DEF Held
<1>2. Wrap(Worth(K)) = Wrap(Worth(L))
  BY GetIs
<1> HIDE DEF K, L
<1>3. W \in Nat /\ 2^W = Half + Half
  BY Halves
<1>4. /\ Worth(K) \in Nat /\ Worth(K) < Half + Half
      /\ Worth(L) \in Nat /\ Worth(L) < Half + Half
  BY <1>1, <1>3, WorthBelow
<1>5. Worth(K) = Worth(L)
  BY <1>2, <1>4, WrapOnce
<1>6. K = L
  BY <1>1, <1>3, <1>5, WorthEqual
<1>7. QED BY <1>6 DEF K, L

\* The columns of o have the values of o, and the others those of b.
Concatenates(r, b, o) ==
  /\ Good(r)
  /\ \A c : IF c \in o.eBM THEN Gives(r, c, GetValue(o, c)) ELSE Keeps(r, b, c)

Agreeing(b, o) == \A c \in b.eBM \cap o.eBM : GetValue(b, c) = GetValue(o, c)

LEMMA ParOrIs ==
  ASSUME NEW b, Good(b), NEW o, Good(o), Agreeing(b, o)
  PROVE  Concatenates(ParOr(b, <<o>>), b, o)
<1> DEFINE n == Larger(BitCount(b), BitCount(o))
           f == [j \in 0 .. n - 1 |-> Slice(b, j) \cup Slice(o, j)]
           e == b.eBM \cup o.eBM
           r == Updated(b, f, e)
<1>1. /\ b \in Index /\ o \in Index /\ Clean(b) /\ Clean(o)
      /\ BitCount(b) \in Nat /\ BitCount(o) \in Nat
      /\ Made(b, BitCount(b), b.bA, b.eBM) /\ Made(o, BitCount(o), o.bA, o.eBM)
      /\ Shaped(b) /\ Shaped(o)
      /\ b.eBM \in SUBSET Column /\ o.eBM \in SUBSET Column
      /\ \A j : Slice(b, j) \in SUBSET Column
      /\ \A j : Slice(o, j) \in SUBSET Column
  BY IndexIs DEF Good
<1>2. n \in Nat /\ BitCount(b) <= n /\ BitCount(o) <= n
  BY <1>1, LargerIs
<1>3. ParOr(b, <<o>>) = r
  <2> DEFINE bsis == <<o>>
             width == FoldLeft(LAMBDA w, x : Larger(w, BitCount(x)), BitCount(b), bsis)
             Given(j) == FoldLeft(LAMBDA a, x : IF BitCount(x) > j THEN a \cup x.bA[j] ELSE {},
                                  {}, bsis)
             g == [j \in 0 .. width - 1 |-> Slice(b, j) \cup Given(j)]
  <2>1. width = n
    BY WidthFolds
  <2>2. ASSUME NEW j \in 0 .. n - 1 PROVE Given(j) = Slice(o, j)
    <3>1. j \in Nat
      BY <1>2
    <3>2. QED BY <1>1, <3>1, GivenFolds
  <2>3. UNION {bsis[m].eBM : m \in DOMAIN bsis} = o.eBM
    <3>1. DOMAIN bsis = {1} /\ bsis[1] = o
      OBVIOUS
    <3> HIDE DEF bsis
    <3>2. QED BY <3>1
  <2>4. ParOr(b, bsis) =
          [b EXCEPT !.bA = g, !.eBM = @ \cup UNION {bsis[m].eBM : m \in DOMAIN bsis}]
    BY DEF ParOr
  <2>5. g = f
    <3> HIDE DEF width, Given, n
    <3>1. QED BY <2>1, <2>2
  <2> HIDE DEF g, f, bsis
  <2>6. QED BY <1>1, <2>3, <2>4, <2>5 DEF Updated, bsis, Index
<1>4. \A j \in 0 .. n - 1 : f[j] = Slice(b, j) \cup Slice(o, j) /\ j \in Nat
  OBVIOUS
<1>5. f \in [0 .. n - 1 -> SUBSET Column] /\ e \in SUBSET Column
  BY <1>1
<1>6. \A j \in 0 .. n - 1 : f[j] \subseteq e
  BY <1>1, <1>4 DEF Clean
<1>7. r = Updated(b, f, e)
  OBVIOUS
<1> HIDE DEF n, f, r
<1>8. Good(r) /\ Made(r, n, f, e)
  <2> HIDE DEF e
  <2>1. Good(r) /\ Made(r, n, f, e) /\ r.max = b.max /\ r.min = b.min
    BY <1>2, <1>5, <1>6, <1>7, MadeGood
  <2>2. QED BY <2>1
<1>9. r.eBM = e /\ r \in Index /\ Shaped(r)
  BY <1>8 DEF Made, Good
<1>10. ASSUME NEW j \in Nat PROVE Slice(r, j) = Slice(b, j) \cup Slice(o, j)
  <2>1. CASE j \in 0 .. n - 1
    BY <1>4, <1>8, <2>1 DEF Made
  <2>2. CASE j \notin 0 .. n - 1
    <3>1. j \notin 0 .. BitCount(b) - 1 /\ j \notin 0 .. BitCount(o) - 1
      BY <1>1, <1>2, <2>2
    <3>2. Slice(r, j) = {} /\ Slice(b, j) = {} /\ Slice(o, j) = {}
      BY <1>1, <1>8, <2>2, <3>1 DEF Made
    <3>3. QED BY <3>2
  <2>3. QED BY <2>1, <2>2
<1>11. ASSUME NEW c, c \notin o.eBM PROVE Keeps(r, b, c)
  <2>1. SameBits(r, b, c)
    BY <1>1, <1>10, <1>11 DEF SameBits, Clean
  <2>2. c \in r.eBM <=> c \in b.eBM
    BY <1>9, <1>11
  <2>3. QED BY <1>1, <1>9, <2>1, <2>2, KeepsBits
<1>12. ASSUME NEW c \in o.eBM PROVE Gives(r, c, GetValue(o, c))
  <2>1. c \in r.eBM
    BY <1>9
  <2>2. Held(r, c, W) = Held(o, c, W)
    <3>1. CASE c \in b.eBM
      <4>1. Held(b, c, W) = Held(o, c, W)
        BY <1>1, <1>12, <3>1, SameHeld DEF Agreeing
      <4>2. \A j \in 0 .. W - 1 : c \in Slice(r, j) <=> c \in Slice(b, j) \/ c \in Slice(o, j)
        BY <1>10
      <4>3. QED BY <4>1, <4>2 DEF Held
    <3>2. CASE c \notin b.eBM
      <4>1. \A j \in 0 .. W - 1 : c \in Slice(r, j) <=> c \in Slice(o, j)
        BY <1>1, <1>10, <3>2 DEF Clean
      <4>2. QED BY <4>1 DEF Held
    <3>3. QED BY <3>1, <3>2
  <2>3. GetValue(r, c) = GetValue(o, c)
    BY <1>1, <1>9, <2>2, GetIs
  <2>4. QED BY <2>1, <2>3 DEF Gives
<1>13. Concatenates(r, b, o)
  BY <1>8, <1>11, <1>12 DEF Concatenates
<1>14. QED BY <1>3, <1>13

(***************************************************************************)
(* Counting the columns that hold each value.                              *)
(***************************************************************************)

\* The columns of S that hold a value with the number k.
Holders(b, S, k) == {c \in S \cap b.eBM : GetValue(b, c) % (2^C) = k}

\* What r counts.
Tally(r, b, S) ==
  /\ Good(r)
  /\ \A k : k \in r.eBM <=> Holders(b, S, k) # {}
  /\ \A k : GetValue(r, k) = Wrap(Cardinality(Holders(b, S, k)))

\* An index without a range, as the counts are.
Rangeless(r) == Good(r) /\ r.max = 0 /\ r.min = 0

LEMMA HoldersFinite ==
  ASSUME NEW S, IsFiniteSet(S), NEW b, NEW k
  PROVE  IsFiniteSet(Holders(b, S, k)) /\ Cardinality(Holders(b, S, k)) \in Nat
<1>1. Holders(b, S, k) \subseteq S
  BY DEF Holders
<1>2. QED BY <1>1, FS_Subset, FS_CardinalityType

LEMMA NumberIn ==
  ASSUME NEW b, Good(b), NEW c
  PROVE  GetValue(b, c) % (2^C) \in Column
<1>1. 2^C \in Nat /\ 2^C >= 1
  BY WidthAssumption, PowerStep
<1>2. GetValue(b, c) \in Int
  <2>1. Shaped(b)
    BY IndexIs DEF Good
  <2>2. QED BY <2>1, GetIn
<1>3. QED BY <1>1, <1>2 DEF Column

LEMMA SetValueRange ==
  ASSUME NEW r, Rangeless(r), NEW v \in Int, NEW k \in Column
  PROVE  /\ Rangeless(SetValue(r, k, v)) /\ SetsTo(SetValue(r, k, v), r, {k}, v)
<1> DEFINE g == Grown(r, v)
<1>1. Good(r) /\ Fitting(r, v)
  BY DEF Rangeless, Fitting
<1>2. SetsTo(SetValue(r, k, v), r, {k}, v)
  BY <1>1, SetValueIs
<1>3. Widened(g, r)
  BY <1>1, GrownIs
<1>4. g.max = 0 /\ g.min = 0 /\ g \in Index
  BY <1>3 DEF Widened, Rangeless, Good
<1>5. SetValue(r, k, v).max = g.max /\ SetValue(r, k, v).min = g.min
  <2>1. SetValue(r, k, v) =
          [g EXCEPT !.bA = [j \in DOMAIN g.bA |->
                              IF Bit(v, j) THEN g.bA[j] \cup {k}
                              ELSE IF k \in g.eBM THEN g.bA[j] \ {k} ELSE g.bA[j]],
                    !.eBM = @ \cup {k}]
    BY DEF SetValue
  <2> HIDE DEF g
  <2>2. QED BY <1>4, <2>1 DEF Index
<1>6. QED BY <1>2, <1>4, <1>5 DEF Rangeless, SetsTo

LEMMA TallyOne ==
  ASSUME NEW b, Good(b), NEW S, IsFiniteSet(S), NEW r, Tally(r, b, S), Rangeless(r),
         NEW c \in b.eBM, c \notin S
  PROVE  Tally(Counted(b, c, r), b, S \cup {c}) /\ Rangeless(Counted(b, c, r))
<1> DEFINE k == GetValue(b, c) % (2^C)
           v == IF k \in r.eBM THEN GetValue(r, k) + 1 ELSE 1
           a == Counted(b, c, r)
<1>1. k \in Column
  BY NumberIn
<1>2. a = SetValue(r, k, v)
  BY DEF Counted
<1>3. Shaped(r)
  BY IndexIs DEF Tally, Good
<1> HIDE DEF k
<1>4. GetValue(r, k) \in Int /\ v \in Int /\ Wrap(v) = Wrap(GetValue(r, k) + 1)
  <2>1. GetValue(r, k) \in Int
    BY <1>3, GetIn
  <2>2. k \notin r.eBM => GetValue(r, k) = 0
    BY EmptyValue DEF Tally
  <2>3. QED BY <2>1, <2>2
<1> HIDE DEF v, a
<1>5. Rangeless(a) /\ SetsTo(a, r, {k}, v)
  BY <1>1, <1>2, <1>4, SetValueRange
<1>6. ASSUME NEW m, m # k
      PROVE  /\ m \in a.eBM <=> Holders(b, S \cup {c}, m) # {}
             /\ GetValue(a, m) = Wrap(Cardinality(Holders(b, S \cup {c}, m)))
  <2>1. Holders(b, S \cup {c}, m) = Holders(b, S, m)
    BY <1>6 DEF Holders, k
  <2>2. Keeps(a, r, m)
    BY <1>5, <1>6 DEF SetsTo
  <2>3. QED BY <2>1, <2>2 DEF Keeps, Tally
<1>7. /\ k \in a.eBM <=> Holders(b, S \cup {c}, k) # {}
      /\ GetValue(a, k) = Wrap(Cardinality(Holders(b, S \cup {c}, k)))
  <2> DEFINE H == Holders(b, S, k)
  <2>1. Holders(b, S \cup {c}, k) = H \cup {c} /\ c \notin H
    BY DEF Holders, k
  <2>2. IsFiniteSet(H) /\ Cardinality(H) \in Nat
    BY HoldersFinite
  <2>3. GetValue(r, k) = Wrap(Cardinality(H))
    BY DEF Tally
  <2> HIDE DEF H
  <2>4. Cardinality(H \cup {c}) = Cardinality(H) + 1
    BY <2>1, <2>2, FS_AddElement
  <2>5. Wrap(Wrap(Cardinality(H)) + 1) = Wrap(Cardinality(H) + 1)
    BY <2>2, WrapSum
  <2>6. Gives(a, k, Wrap(v))
    BY <1>5 DEF SetsTo
  <2>7. GetValue(a, k) = Wrap(Cardinality(H \cup {c}))
    BY <1>4, <2>3, <2>4, <2>5, <2>6 DEF Gives
  <2>8. k \in a.eBM
    BY <2>6 DEF Gives
  <2>9. QED BY <2>1, <2>7, <2>8
<1>8. Tally(a, b, S \cup {c})
  <2>1. Good(a)
    BY <1>5 DEF Rangeless
  <2>2. ASSUME NEW m
        PROVE  /\ m \in a.eBM <=> Holders(b, S \cup {c}, m) # {}
               /\ GetValue(a, m) = Wrap(Cardinality(Holders(b, S \cup {c}, m)))
    BY <1>6, <1>7
  <2>3. QED BY <2>1, <2>2 DEF Tally
<1>9. QED BY <1>5, <1>8 DEF a

\* One batch.
LEMMA BatchTally ==
  ASSUME NEW b, Good(b), NEW B, IsFiniteSet(B)
  PROVE  Tally(transposeWithCounts(b, B), b, B)
<1> DEFINE base == NewDefaultBSI
           Step(c, r) == IF c \in b.eBM THEN Counted(b, c, r) ELSE r
           T == {r \in Index : Rangeless(r)}
           P(g) == g = [s \in SUBSET B |->
                          IF s = {} THEN base
                          ELSE Step(CHOOSE x \in s : TRUE, g[s \ {CHOOSE x \in s : TRUE}])]
           f == CHOOSE g : P(g)
           ch == [s \in SUBSET B |-> Pick(s)]
           st == [p \in B \X T |-> Step(p[1], p[2])]
<1>1. base \in T
  BY DefaultIs DEF Rangeless, Good
<1>2. ASSUME NEW r \in T, NEW c \in B PROVE Step(c, r) \in T
  <2>1. CASE c \in b.eBM
    <3> DEFINE k == GetValue(b, c) % (2^C)
               v == IF k \in r.eBM THEN GetValue(r, k) + 1 ELSE 1
    <3>1. k \in Column
      BY NumberIn
    <3>2. Shaped(r) /\ Rangeless(r)
      BY IndexIs
    <3>3. v \in Int
      BY <3>2, GetIn
    <3>4. Counted(b, c, r) = SetValue(r, k, v)
      BY DEF Counted
    <3> HIDE DEF k, v
    <3>5. Rangeless(Counted(b, c, r))
      BY <3>1, <3>2, <3>3, <3>4, SetValueRange
    <3>6. Step(c, r) = Counted(b, c, r)
      BY <2>1
    <3> HIDE DEF Step
    <3>7. QED BY <3>5, <3>6 DEF Rangeless, Good
  <2>2. CASE c \notin b.eBM
    BY <2>2
  <2>3. QED BY <2>1, <2>2
<1>3. Chooses(ch, B)
  BY DEF Chooses, Pick
<1> HIDE DEF Step
<1>4. st \in [B \X T -> T]
  <2>1. ASSUME NEW p \in B \X T PROVE Step(p[1], p[2]) \in T
    <3>1. p[1] \in B /\ p[2] \in T
      OBVIOUS
    <3> HIDE DEF T
    <3>2. QED BY <1>2, <3>1
  <2> HIDE DEF T
  <2>2. QED BY <2>1
<1> HIDE DEF st
<1>5. PICK h \in [SUBSET B -> T] : Folding(h, SUBSET B, base, st, ch)
  <2> HIDE DEF T, base, ch
  <2>1. QED BY <1>1, <1>3, <1>4, FoldExists
<1>6. P(h)
  <2>1. ASSUME NEW s \in SUBSET B, s # {} PROVE h[s] = Step(Pick(s), h[s \ {Pick(s)}])
    <3>1. ch[s] = Pick(s) /\ Pick(s) \in B
      BY <2>1 DEF Pick
    <3>2. s \ {Pick(s)} \in SUBSET B
      OBVIOUS
    <3> HIDE DEF ch, T
    <3>3. h[s \ {Pick(s)}] \in T
      BY <3>2
    <3>4. h[s] = st[<<Pick(s), h[s \ {Pick(s)}]>>]
      BY <1>5, <2>1, <3>1 DEF Folding
    <3>5. <<Pick(s), h[s \ {Pick(s)}]>> \in B \X T
      BY <3>1, <3>3
    <3>6. QED BY <3>4, <3>5 DEF st
  <2>2. h[{}] = base
    <3>1. {} \in SUBSET B
      OBVIOUS
    <3>2. QED BY <1>5, <3>1 DEF Folding
  <2> HIDE DEF base, T
  <2>3. \A s \in SUBSET B :
          h[s] = IF s = {} THEN base
                 ELSE Step(CHOOSE x \in s : TRUE, h[s \ {CHOOSE x \in s : TRUE}])
    BY <2>1, <2>2 DEF Pick
  <2>4. h = [s \in SUBSET B |-> h[s]]
    OBVIOUS
  <2>5. QED BY <2>3, <2>4
<1>7. transposeWithCounts(b, B) = f[B]
  BY DEF transposeWithCounts, FoldSet, MapThenFoldSet, Step
<1>8. P(f)
  <2> HIDE DEF P
  <2>1. QED BY <1>6
<1> HIDE DEF f
<1> DEFINE G == {s \in SUBSET B : Tally(f[s], b, s) /\ Rangeless(f[s])}
<1>9. ASSUME NEW s \in SUBSET B, \A x \in s : s \ {x} \in G PROVE s \in G
  <2>1. CASE s = {}
    <3>1. f[s] = base
      BY <1>8, <2>1
    <3>2. Tally(base, b, {})
      <4>1. Good(base) /\ base.eBM = {}
        BY DefaultIs
      <4> HIDE DEF base
      <4>2. \A k : GetValue(base, k) = 0
        BY <4>1, EmptyValue
      <4>3. \A k : Holders(b, {}, k) = {}
        BY DEF Holders
      <4>4. Wrap(0) = 0 /\ Cardinality({}) = 0
        BY ZeroValue, WrapValue, FS_EmptySet
      <4>5. QED BY <4>1, <4>2, <4>3, <4>4 DEF Tally
    <3>3. Rangeless(base)
      BY <1>1
    <3> HIDE DEF base
    <3>4. QED BY <2>1, <3>1, <3>2, <3>3
  <2>2. CASE s # {}
    <3> DEFINE c == Pick(s)
               u == s \ {c}
               r == f[u]
    <3>1. c \in s
      BY <2>2 DEF Pick
    <3>2. f[s] = Step(c, r)
      BY <1>8, <2>2 DEF Pick
    <3>3. Tally(r, b, u) /\ Rangeless(r)
      BY <1>9, <3>1
    <3>4. IsFiniteSet(u) /\ c \notin u /\ u \cup {c} = s
      BY <3>1, FS_Subset
    <3> HIDE DEF c, u, r, base
    <3>5. CASE c \in b.eBM
      <4>1. Tally(Counted(b, c, r), b, u \cup {c}) /\ Rangeless(Counted(b, c, r))
        BY <3>3, <3>4, <3>5, TallyOne
      <4>2. f[s] = Counted(b, c, r)
        BY <3>2, <3>5 DEF Step
      <4>3. QED BY <3>4, <4>1, <4>2
    <3>6. CASE c \notin b.eBM
      <4>1. f[s] = r
        BY <3>2, <3>6 DEF Step
      <4>2. \A k : Holders(b, s, k) = Holders(b, u, k)
        BY <3>4, <3>6 DEF Holders
      <4>3. Tally(r, b, s)
        BY <3>3, <4>2 DEF Tally
      <4>4. QED BY <3>3, <4>1, <4>3
    <3>7. QED BY <3>5, <3>6
  <2>3. QED BY <2>1, <2>2
<1> HIDE DEF G
<1>10. B \in G
  BY <1>9, AllSubsets
<1>11. QED BY <1>7, <1>10 DEF G

\* Counts of different columns add up.
LEMMA TallySum ==
  ASSUME NEW b, NEW S, IsFiniteSet(S), NEW R, IsFiniteSet(R), S \cap R = {},
         NEW x, Tally(x, b, S), NEW y, Tally(y, b, R)
  PROVE  Tally(Add(x, y), b, S \cup R)
<1> DEFINE r == Add(x, y)
<1>1. AddsTo(r, x, y)
  BY AddValues DEF Tally
<1> HIDE DEF r
<1>2. ASSUME NEW k
      PROVE  /\ k \in r.eBM <=> Holders(b, S \cup R, k) # {}
             /\ GetValue(r, k) = Wrap(Cardinality(Holders(b, S \cup R, k)))
  <2> DEFINE H == Holders(b, S, k)
             I == Holders(b, R, k)
             m == Cardinality(H)
             n == Cardinality(I)
  <2>1. Holders(b, S \cup R, k) = H \cup I /\ H \cap I = {}
    BY DEF Holders
  <2>2. IsFiniteSet(H) /\ IsFiniteSet(I) /\ m \in Nat /\ n \in Nat
    BY HoldersFinite
  <2>3. /\ k \in x.eBM <=> H # {}
        /\ k \in y.eBM <=> I # {}
        /\ GetValue(x, k) = Wrap(m) /\ GetValue(y, k) = Wrap(n)
    BY DEF Tally
  <2> HIDE DEF H, I
  <2>4. Cardinality(H \cup I) = m + n
    <3>1. Cardinality(H \cup I) = m + n - Cardinality(H \cap I)
      BY <2>2, FS_Union
    <3>2. Cardinality(H \cap I) = 0
      BY <2>1, FS_EmptySet
    <3> HIDE DEF m, n
    <3>3. QED BY <2>2, <3>1, <3>2
  <2> HIDE DEF m, n
  <2>5. Wrap(Wrap(m) + Wrap(n)) = Wrap(m + n)
    BY <2>2, WrapSum
  <2>6. GetValue(r, k) = Wrap(m + n)
    BY <1>1, <2>3, <2>5 DEF AddsTo
  <2>7. k \in r.eBM <=> (H # {} \/ I # {})
    BY <1>1, <2>3 DEF AddsTo
  <2>8. QED BY <2>1, <2>4, <2>6, <2>7
<1>3. Good(r)
  BY <1>1 DEF AddsTo
<1>4. Tally(r, b, S \cup R)
  BY <1>2, <1>3 DEF Tally
<1>5. QED BY <1>4 DEF r

\* The loop that adds the counts of n batches.
CountLoop(h, n, parts) ==
  /\ h[0] = NewDefaultBSI
  /\ \A m \in 1 .. n : h[m] = Add(h[m - 1], parts[m])

LEMMA CountUnfolds ==
  ASSUME NEW n \in Nat, NEW parts, DOMAIN parts = 1 .. n, \A m \in 1 .. n : Good(parts[m])
  PROVE  \E h : CountLoop(h, n, parts) /\ FoldLeft(Add, NewDefaultBSI, parts) = h[n]
<1> DEFINE D == 1 .. n
           base == NewDefaultBSI
           T == {x \in Index : Good(x)}
           P(g) == g = [s \in SUBSET D |->
                          IF s = {} THEN base ELSE Add(g[s \ {Max(s)}], parts[Max(s)])]
           f == CHOOSE g : P(g)
           ch == [s \in SUBSET D |-> Max(s)]
           st == [p \in D \X T |-> Add(p[2], parts[p[1]])]
<1>1. base \in T
  BY DefaultIs DEF Good
<1>2. IsFiniteSet(D)
  BY FS_Interval
<1>3. ASSUME NEW x \in T, NEW m \in D PROVE Add(x, parts[m]) \in T
  BY AddIs DEF Good
<1>4. Chooses(ch, D)
  BY MaxChooses
<1>5. st \in [D \X T -> T]
  <2>1. ASSUME NEW p \in D \X T PROVE Add(p[2], parts[p[1]]) \in T
    <3>1. p[1] \in D /\ p[2] \in T
      OBVIOUS
    <3> HIDE DEF D, T
    <3>2. QED BY <1>3, <3>1
  <2> HIDE DEF D, T
  <2>2. QED BY <2>1
<1> HIDE DEF st
<1>6. PICK h \in [SUBSET D -> T] : Folding(h, SUBSET D, base, st, ch)
  <2> HIDE DEF T, base, ch, D
  <2>1. QED BY <1>1, <1>2, <1>4, <1>5, FoldExists
<1>7. P(h)
  <2>1. ASSUME NEW s \in SUBSET D, s # {}
        PROVE  h[s] = Add(h[s \ {Max(s)}], parts[Max(s)])
    <3>1. ch[s] = Max(s) /\ Max(s) \in D
      <4>1. ch[s] = Max(s)
        OBVIOUS
      <4> HIDE DEF ch, D
      <4>2. ch[s] \in s
        BY <1>4, <2>1 DEF Chooses
      <4>3. QED BY <4>1, <4>2
    <3>2. s \ {Max(s)} \in SUBSET D
      OBVIOUS
    <3> HIDE DEF ch, D, T
    <3>3. h[s \ {Max(s)}] \in T
      BY <3>2
    <3>4. h[s] = st[<<Max(s), h[s \ {Max(s)}]>>]
      BY <1>6, <2>1, <3>1 DEF Folding
    <3>5. <<Max(s), h[s \ {Max(s)}]>> \in D \X T
      BY <3>1, <3>3
    <3>6. QED BY <3>4, <3>5 DEF st
  <2>2. h[{}] = base
    <3>1. {} \in SUBSET D
      OBVIOUS
    <3>2. QED BY <1>6, <3>1 DEF Folding
  <2> HIDE DEF base, T, D
  <2>3. \A s \in SUBSET D :
          h[s] = IF s = {} THEN base ELSE Add(h[s \ {Max(s)}], parts[Max(s)])
    BY <2>1, <2>2
  <2>4. h = [s \in SUBSET D |-> h[s]]
    OBVIOUS
  <2>5. QED BY <2>3, <2>4
<1>8. FoldLeft(Add, base, parts) = f[D]
  <2>1. DOMAIN parts = D
    OBVIOUS
  <2> HIDE DEF base, D
  <2>2. QED BY <2>1 DEF FoldLeft, MapThenFoldSet
<1>9. P(f)
  <2> HIDE DEF P
  <2>1. QED BY <1>7
<1> HIDE DEF f
<1> DEFINE k == [m \in 0 .. n |-> f[1 .. m]]
<1>10. CountLoop(k, n, parts)
  <2>1. k[0] = base
    <3>1. 1 .. 0 = {} /\ 0 \in 0 .. n /\ {} \in SUBSET D
      OBVIOUS
    <3>2. f[{}] = base
      <4> HIDE DEF D, base
      <4>1. QED BY <1>9, <3>1
    <3>3. QED BY <3>1, <3>2
  <2>2. ASSUME NEW m \in 1 .. n PROVE k[m] = Add(k[m - 1], parts[m])
    <3>1. 1 .. m \in SUBSET D /\ 1 .. m # {} /\ m \in 0 .. n /\ m - 1 \in 0 .. n
      OBVIOUS
    <3>2. Max(1 .. m) = m /\ (1 .. m) \ {Max(1 .. m)} = 1 .. m - 1
      BY MaxChosen
    <3>3. f[1 .. m] = Add(f[(1 .. m) \ {Max(1 .. m)}], parts[Max(1 .. m)])
      <4> DEFINE s == 1 .. m
      <4>1. s \in SUBSET D /\ s # {}
        BY <3>1
      <4> HIDE DEF s, D, base
      <4>2. f[s] = Add(f[s \ {Max(s)}], parts[Max(s)])
        BY <1>9, <4>1
      <4>3. QED BY <4>2 DEF s
    <3>4. f[1 .. m] = Add(f[1 .. m - 1], parts[m])
      BY ONLY <3>2, <3>3
    <3>5. k[m] = f[1 .. m] /\ k[m - 1] = f[1 .. m - 1]
      BY <3>1
    <3>6. QED BY ONLY <3>4, <3>5
  <2> HIDE DEF k
  <2>3. QED BY <2>1, <2>2 DEF CountLoop
<1>11. k[n] = f[D]
  OBVIOUS
<1> HIDE DEF k
<1>12. FoldLeft(Add, NewDefaultBSI, parts) = k[n]
  BY <1>8, <1>11
<1>13. QED BY <1>10, <1>12

\* The batches up to one are the columns of the lowest ranks.
Share(S, n) == Cardinality(S) \div n
RankIn(S, c) == Cardinality({d \in S : d < c})
Prefix(S, n, m) == {c \in S : m = n \/ RankIn(S, c) < m * Share(S, n)}

LEMMA PrefixIs ==
  ASSUME NEW S, IsFiniteSet(S), NEW n \in Nat \ {0}
  PROVE  /\ Prefix(S, n, 0) = {} /\ Prefix(S, n, n) = S
         /\ \A m \in 0 .. n - 1 :
              /\ Prefix(S, n, m + 1) = Prefix(S, n, m) \cup Batches(S, n)[m + 1]
              /\ Prefix(S, n, m) \cap Batches(S, n)[m + 1] = {}
<1> DEFINE x == Share(S, n)
<1>1. x \in Nat
  <2> DEFINE a == Cardinality(S)
  <2>1. a \in Nat
    BY FS_CardinalityType
  <2> HIDE DEF a
  <2>2. a \div n \in Nat
    BY <2>1
  <2>3. QED BY <2>2 DEF Share, a
<1>2. ASSUME NEW c \in S PROVE RankIn(S, c) \in Nat
  <2>1. {d \in S : d < c} \subseteq S
    OBVIOUS
  <2>2. QED BY <2>1, FS_Subset, FS_CardinalityType DEF RankIn
<1>3. ASSUME NEW m \in 1 .. n
      PROVE  Batches(S, n)[m] = {c \in S : /\ (m - 1) * x <= RankIn(S, c)
                                           /\ (m = n \/ RankIn(S, c) < m * x)}
  BY DEF Batches, RankIn, Share
<1>4. \A m : Prefix(S, n, m) = {c \in S : m = n \/ RankIn(S, c) < m * x}
  BY DEF Prefix
<1> HIDE DEF x
<1>5. Prefix(S, n, 0) = {}
  <2>1. 0 * x = 0
    BY <1>1
  <2>2. QED BY <1>2, <1>4, <2>1
<1>6. Prefix(S, n, n) = S
  BY <1>4
<1>7. ASSUME NEW m \in 0 .. n - 1
      PROVE  /\ Prefix(S, n, m + 1) = Prefix(S, n, m) \cup Batches(S, n)[m + 1]
             /\ Prefix(S, n, m) \cap Batches(S, n)[m + 1] = {}
  <2> DEFINE y == m * x
             z == (m + 1) * x
             B == Batches(S, n)[m + 1]
  <2>1. y \in Nat /\ z = y + x
    BY <1>1
  <2>2. m # n /\ m + 1 \in 1 .. n /\ (m + 1) - 1 = m
    OBVIOUS
  <2>3. \A c : c \in B <=> c \in S /\ y <= RankIn(S, c) /\ (m + 1 = n \/ RankIn(S, c) < z)
    <3> DEFINE i == m + 1
    <3>1. Batches(S, n)[i] = {c \in S : /\ (i - 1) * x <= RankIn(S, c)
                                        /\ (i = n \/ RankIn(S, c) < i * x)}
      BY <1>3, <2>2
    <3>2. i - 1 = m
      BY <2>2
    <3>3. QED BY <3>1, <3>2
  <2>4. /\ \A c : c \in Prefix(S, n, m) <=> c \in S /\ RankIn(S, c) < y
        /\ \A c : c \in Prefix(S, n, m + 1) <=> c \in S /\ (m + 1 = n \/ RankIn(S, c) < z)
    BY <1>4, <2>2
  <2> HIDE DEF y, z, B
  <2>5. \A c \in S : /\ RankIn(S, c) < y <=> ~ (y <= RankIn(S, c))
                     /\ RankIn(S, c) < y => RankIn(S, c) < z
    BY <1>1, <1>2, <2>1
  <2>6. QED BY <2>3, <2>4, <2>5, Zenon DEF B
<1>8. QED BY <1>5, <1>6, <1>7

\* All batches.
LEMMA CountsAre ==
  ASSUME NEW b, Good(b), NEW S \in SUBSET Column, NEW n \in Nat \ {0}
  PROVE  Tally(TransposeWithCounts(b, Batches(S, n)), b, S)
<1> DEFINE batches == Batches(S, n)
           parts == [m \in DOMAIN batches |-> transposeWithCounts(b, batches[m])]
<1>1. IsFiniteSet(S)
  <2>1. 2^C - 1 \in Int
    BY WidthAssumption, PowerStep
  <2>2. IsFiniteSet(Column)
    BY <2>1, FS_Interval DEF Column
  <2>3. QED BY <2>2, FS_Subset
<1>2. DOMAIN batches = 1 .. n /\ \A m \in 1 .. n : batches[m] \in SUBSET S
  BY DEF Batches
<1> HIDE DEF batches
<1>3. DOMAIN parts = 1 .. n /\ \A m \in 1 .. n : Tally(parts[m], b, batches[m])
  <2>1. ASSUME NEW m \in 1 .. n PROVE Tally(parts[m], b, batches[m])
    <3>1. IsFiniteSet(batches[m])
      BY <1>1, <1>2, FS_Subset
    <3>2. parts[m] = transposeWithCounts(b, batches[m])
      BY <1>2
    <3> HIDE DEF parts
    <3>3. QED BY <3>1, <3>2, BatchTally
  <2>2. QED BY <1>2, <2>1
<1>4. TransposeWithCounts(b, batches) = FoldLeft(Add, NewDefaultBSI, parts)
  BY DEF TransposeWithCounts
<1> HIDE DEF parts
<1>5. PICK h : CountLoop(h, n, parts) /\ FoldLeft(Add, NewDefaultBSI, parts) = h[n]
  <2>1. \A m \in 1 .. n : Good(parts[m])
    BY <1>3 DEF Tally
  <2>2. QED BY <1>3, <2>1, CountUnfolds
<1> DEFINE G == {m \in Nat : Tally(h[m], b, Prefix(S, n, m))}
<1>6. 0 \in G
  <2> DEFINE base == NewDefaultBSI
  <2>1. Good(base) /\ base.eBM = {}
    BY DefaultIs
  <2>2. h[0] = base
    BY <1>5 DEF CountLoop
  <2> HIDE DEF base
  <2>3. \A k : GetValue(base, k) = 0
    BY <2>1, EmptyValue
  <2>4. \A k : Holders(b, {}, k) = {}
    BY DEF Holders
  <2>5. Wrap(0) = 0 /\ Cardinality({}) = 0
    BY ZeroValue, WrapValue, FS_EmptySet
  <2>6. Tally(base, b, {})
    BY <2>1, <2>3, <2>4, <2>5 DEF Tally
  <2>7. Prefix(S, n, 0) = {}
    BY <1>1, PrefixIs
  <2>8. QED BY <2>2, <2>6, <2>7
<1>7. \A m \in 0 .. n : m # n /\ m \in G => m + 1 \in G
  <2>1. ASSUME NEW m \in 0 .. n, m # n, m \in G PROVE m + 1 \in G
    <3> DEFINE U == Prefix(S, n, m)
               V == batches[m + 1]
               i == m + 1
    <3>1. m \in 0 .. n - 1 /\ i \in 1 .. n /\ i - 1 = m
      BY <2>1
    <3>2. Prefix(S, n, m + 1) = U \cup V /\ U \cap V = {}
      BY <1>1, <3>1, PrefixIs DEF batches
    <3>3. IsFiniteSet(U) /\ IsFiniteSet(V)
      <4>1. U \subseteq S
        BY DEF Prefix
      <4>2. V \subseteq S
        BY <1>2, <3>1
      <4>3. QED BY <1>1, <4>1, <4>2, FS_Subset
    <3>4. Tally(h[m], b, U)
      BY <2>1
    <3>5. Tally(parts[i], b, V)
      BY <1>3, <3>1
    <3> HIDE DEF U, V
    <3>6. Tally(Add(h[m], parts[i]), b, U \cup V)
      BY <3>2, <3>3, <3>4, <3>5, TallySum
    <3>7. h[i] = Add(h[m], parts[i])
      <4>1. h[i] = Add(h[i - 1], parts[i])
        BY <1>5, <3>1 DEF CountLoop
      <4>2. QED BY ONLY <3>1, <4>1
    <3>8. QED BY <3>2, <3>6, <3>7
  <2> HIDE DEF G
  <2>2. QED BY <2>1
<1> HIDE DEF G
<1>8. \A m \in 0 .. n : m \in G
  <2>1. n \in Nat
    OBVIOUS
  <2>2. QED BY <1>6, <1>7, <2>1, UpTo
<1>9. Tally(h[n], b, Prefix(S, n, n))
  BY <1>8 DEF G
<1>10. Prefix(S, n, n) = S
  BY <1>1, PrefixIs
<1>11. QED BY <1>4, <1>5, <1>9, <1>10 DEF batches

(***************************************************************************)
(* Sums over columns and sums over slices.                                 *)
(***************************************************************************)

\* Functions that are equal where it matters have the same sum function.
LEMMA AddsTotal ==
  ASSUME NEW S, IsFiniteSet(S), NEW F, NEW f, Adds(f, F, S)
  PROVE  f[S] = Total(F, S)
<1>1. S \subseteq S /\ S \in SUBSET S
  OBVIOUS
<1>2. PICK g : Adds(g, F, S) /\ Total(F, S) = g[S]
  BY <1>1, TotalAdds
<1>3. f[S] = g[S]
  BY <1>1, <1>2, AddsSame
<1>4. QED BY <1>2, <1>3

\* The sum of the values of some columns.
LEMMA ValuesTotal ==
  ASSUME NEW b, NEW S, IsFiniteSet(S), NEW F, F = [c \in S |-> GetValue(b, c)]
  PROVE  MapThenSumSet(LAMBDA c : GetValue(b, c), S) = Total(F, S)
<1> DEFINE Val(c) == GetValue(b, c)
           A(g) == g = [s \in SUBSET S |->
                          IF s = {} THEN 0
                          ELSE Val(CHOOSE x \in s : TRUE) + g[s \ {CHOOSE x \in s : TRUE}]]
           f == CHOOSE g : A(g)
<1>1. MapThenSumSet(Val, S) = f[S]
  <2> HIDE DEF Val
  <2>1. QED BY DEF MapThenSumSet, MapThenFoldSet
<1>2. ASSUME NEW g PROVE A(g) <=> Adds(g, F, S)
  <2> DEFINE L(s) == IF s = {} THEN 0
                     ELSE Val(CHOOSE x \in s : TRUE) + g[s \ {CHOOSE x \in s : TRUE}]
             R(s) == IF s = {} THEN 0 ELSE F[Pick(s)] + g[s \ {Pick(s)}]
  <2>1. ASSUME NEW s \in SUBSET S PROVE L(s) = R(s)
    <3>1. s # {} => Pick(s) \in S
      BY DEF Pick
    <3>2. s # {} => F[Pick(s)] = Val(Pick(s))
      BY <3>1
    <3> HIDE DEF Val
    <3>3. QED BY <3>2 DEF Pick
  <2>2. A(g) <=> g = [s \in SUBSET S |-> L(s)]
    OBVIOUS
  <2>3. Adds(g, F, S) <=> g = [s \in SUBSET S |-> R(s)]
    BY DEF Adds
  <2> HIDE DEF L, R
  <2>4. [s \in SUBSET S |-> L(s)] = [s \in SUBSET S |-> R(s)]
    BY <2>1
  <2>5. QED BY <2>2, <2>3, <2>4
<1> HIDE DEF A
<1>3. \E g : A(g)
  BY <1>2, AddsExists
<1>4. Adds(f, F, S)
  BY <1>2, <1>3
<1> HIDE DEF f
<1>5. QED BY <1>1, <1>4, AddsTotal

\* The weight of the columns of S in slice j.
WeightOf(b, S, j) == Cardinality(S \cap b.bA[j]) * 2^j
Below(b) == {j \in DOMAIN b.bA : j < W}
Weights(b, S) == [j \in Below(b) |-> WeightOf(b, S, j)]

LEMMA WeightsTotal ==
  ASSUME NEW b, IsFiniteSet(Below(b)), NEW S
  PROVE  Sum(b, S) = Wrap(Total(Weights(b, S), Below(b)))
<1> DEFINE J == Below(b)
           F == Weights(b, S)
           Wt(j) == WeightOf(b, S, j)
           A(g) == g = [s \in SUBSET J |->
                          IF s = {} THEN 0
                          ELSE Wt(CHOOSE x \in s : TRUE) + g[s \ {CHOOSE x \in s : TRUE}]]
           f == CHOOSE g : A(g)
<1>1. Sum(b, S) = Wrap(MapThenSumSet(Wt, J))
  BY DEF Sum, WeightOf, Below
<1>2. MapThenSumSet(Wt, J) = f[J]
  <2> HIDE DEF Wt, J
  <2>1. QED BY DEF MapThenSumSet, MapThenFoldSet
<1>3. \A j \in J : F[j] = Wt(j)
  BY DEF Weights
<1> HIDE DEF F, J, Wt
<1>4. ASSUME NEW g PROVE A(g) <=> Adds(g, F, J)
  <2> DEFINE L(s) == IF s = {} THEN 0
                     ELSE Wt(CHOOSE x \in s : TRUE) + g[s \ {CHOOSE x \in s : TRUE}]
             R(s) == IF s = {} THEN 0 ELSE F[Pick(s)] + g[s \ {Pick(s)}]
  <2>1. ASSUME NEW s \in SUBSET J PROVE L(s) = R(s)
    <3>1. s # {} => Pick(s) \in J
      BY DEF Pick
    <3>2. s # {} => F[Pick(s)] = Wt(Pick(s))
      BY <1>3, <3>1
    <3>3. QED BY <3>2 DEF Pick
  <2>2. A(g) <=> g = [s \in SUBSET J |-> L(s)]
    OBVIOUS
  <2>3. Adds(g, F, J) <=> g = [s \in SUBSET J |-> R(s)]
    BY DEF Adds
  <2> HIDE DEF L, R
  <2>4. [s \in SUBSET J |-> L(s)] = [s \in SUBSET J |-> R(s)]
    BY <2>1
  <2>5. QED BY <2>2, <2>3, <2>4
<1> HIDE DEF A
<1>5. IsFiniteSet(J)
  BY DEF J
<1>6. \E g : A(g)
  BY <1>4, <1>5, AddsExists
<1>7. Adds(f, F, J)
  BY <1>4, <1>6
<1> HIDE DEF f
<1>8. f[J] = Total(F, J)
  BY <1>5, <1>7, AddsTotal
<1>9. QED BY <1>1, <1>2, <1>8 DEF F, J

LEMMA TotalZero ==
  ASSUME NEW S, IsFiniteSet(S), NEW F, \A x \in S : F[x] = 0
  PROVE  Total(F, S) = 0
<1> DEFINE G == {U \in SUBSET S : Total(F, U) = 0}
<1>1. ASSUME NEW U \in SUBSET S, \A x \in U : U \ {x} \in G PROVE U \in G
  <2>1. CASE U = {}
    BY <2>1, TotalEmpty
  <2>2. CASE U # {}
    <3>1. PICK w \in U : TRUE
      BY <2>2
    <3>2. IsFiniteSet(U) /\ Integral(F, U)
      BY FS_Subset DEF Integral
    <3>3. Total(F, U) = F[w] + Total(F, U \ {w})
      BY <3>2, TotalSplit
    <3>4. Total(F, U \ {w}) = 0 /\ F[w] = 0
      BY <1>1
    <3>5. QED BY <3>3, <3>4
  <2>3. QED BY <2>1, <2>2
<1> HIDE DEF G
<1>2. S \in G
  BY <1>1, AllSubsets
<1>3. QED BY <1>2 DEF G

LEMMA TotalPlus ==
  ASSUME NEW S, IsFiniteSet(S), NEW F, Integral(F, S), NEW H, Integral(H, S),
         NEW P, \A x \in S : P[x] = F[x] + H[x]
  PROVE  Total(P, S) = Total(F, S) + Total(H, S)
<1> DEFINE G == {U \in SUBSET S : Total(P, U) = Total(F, U) + Total(H, U)}
<1>1. ASSUME NEW U \in SUBSET S, \A x \in U : U \ {x} \in G PROVE U \in G
  <2>1. CASE U = {}
    <3>1. Total(P, {}) = 0 /\ Total(F, {}) = 0 /\ Total(H, {}) = 0
      BY TotalEmpty
    <3>2. QED BY <2>1, <3>1
  <2>2. CASE U # {}
    <3>1. PICK w \in U : TRUE
      BY <2>2
    <3> DEFINE V == U \ {w}
    <3>2. /\ IsFiniteSet(U) /\ Integral(F, U) /\ Integral(H, U) /\ Integral(P, U)
          /\ IsFiniteSet(V) /\ Integral(F, V) /\ Integral(H, V)
      BY FS_Subset DEF Integral
    <3>3. /\ Total(P, U) = P[w] + Total(P, V)
          /\ Total(F, U) = F[w] + Total(F, V)
          /\ Total(H, U) = H[w] + Total(H, V)
          /\ Total(F, V) \in Int /\ Total(H, V) \in Int
      BY <3>2, TotalSplit
    <3>4. Total(P, V) = Total(F, V) + Total(H, V)
      BY <1>1
    <3>5. P[w] = F[w] + H[w] /\ F[w] \in Int /\ H[w] \in Int
      BY DEF Integral
    <3> HIDE DEF V
    <3>6. Total(P, U) = Total(F, U) + Total(H, U)
      BY ONLY <3>3, <3>4, <3>5
    <3>7. QED BY <3>6
  <2>3. QED BY <2>1, <2>2
<1> HIDE DEF G
<1>2. S \in G
  BY <1>1, AllSubsets
<1>3. QED BY <1>2 DEF G

\* The sum of the slices is the sum of the columns.
Worths(b, S) == [c \in S |-> Worth(Held(b, c, W))]

LEMMA SumExchanged ==
  ASSUME NEW b \in Index, NEW S \in SUBSET Column
  PROVE  /\ IsFiniteSet(S) /\ IsFiniteSet(Below(b)) /\ Integral(Worths(b, S), S)
         /\ Total(Weights(b, S), Below(b)) = Total(Worths(b, S), S)
<1> DEFINE J == Below(b)
           E(c) == Held(b, c, W)
           X == Worths(b, S)
           Ok(U) == Total(Weights(b, U), J) = Total(X, U)
           G == {U \in SUBSET S : Ok(U)}
<1>1. IsFiniteSet(S)
  <2>1. 2^C - 1 \in Int
    BY WidthAssumption, PowerStep
  <2>2. IsFiniteSet(Column)
    BY <2>1, FS_Interval DEF Column
  <2>3. QED BY <2>2, FS_Subset
<1>2. BitCount(b) \in Nat /\ DOMAIN b.bA = 0 .. BitCount(b) - 1
      /\ b.bA \in [0 .. BitCount(b) - 1 -> SUBSET Column] /\ Made(b, BitCount(b), b.bA, b.eBM)
  BY IndexIs DEF Shaped
<1>3. IsFiniteSet(J) /\ J \subseteq Nat /\ J \subseteq DOMAIN b.bA
  <2>1. J \subseteq 0 .. BitCount(b) - 1
    BY <1>2 DEF Below
  <2>2. 0 .. BitCount(b) - 1 \subseteq Nat /\ BitCount(b) - 1 \in Int
    BY <1>2
  <2> HIDE DEF J
  <2>3. IsFiniteSet(0 .. BitCount(b) - 1)
    BY <2>2, FS_Interval
  <2>4. IsFiniteSet(J)
    BY <2>1, <2>3, FS_Subset
  <2>5. J \subseteq Nat
    BY <2>1, <2>2
  <2>6. J \subseteq DOMAIN b.bA
    BY <1>2, <2>1
  <2>7. QED BY <2>4, <2>5, <2>6
<1>4. ASSUME NEW c PROVE /\ E(c) = {j \in J : c \in b.bA[j]}
                         /\ Finite(E(c)) /\ Worth(E(c)) \in Nat
  <2>1. E(c) \subseteq 0 .. W - 1
    BY DEF Held
  <2>2. Finite(E(c)) /\ Worth(E(c)) \in Nat
    BY <2>1, WorthBelow, Halves
  <2>3. \A j : j \in E(c) <=> j \in J /\ c \in b.bA[j]
    <3>1. W \in Nat
      BY Halves
    <3>2. QED BY <1>2, <3>1 DEF Held, Below, Slice
  <2>4. QED BY <2>2, <2>3
<1>5. \A c \in S : X[c] = Worth(E(c)) /\ X[c] \in Int
  BY <1>4 DEF Worths
<1>6. ASSUME NEW U \in SUBSET S
      PROVE  /\ Integral(Weights(b, U), J) /\ IsFiniteSet(U)
             /\ \A j \in J : Weights(b, U)[j] = Cardinality(U \cap b.bA[j]) * 2^j
             /\ \A j \in J : Cardinality(U \cap b.bA[j]) \in Nat /\ 2^j \in Nat
  <2>1. IsFiniteSet(U)
    BY <1>1, FS_Subset
  <2>2. \A j \in J : Cardinality(U \cap b.bA[j]) \in Nat
    <3>1. ASSUME NEW j \in J PROVE Cardinality(U \cap b.bA[j]) \in Nat
      <4>1. U \cap b.bA[j] \subseteq U
        OBVIOUS
      <4>2. QED BY <2>1, <4>1, FS_Subset, FS_CardinalityType
    <3>2. QED BY <3>1
  <2>3. \A j \in J : 2^j \in Nat
    BY <1>3, PowerStep
  <2>4. \A j \in J : Weights(b, U)[j] = Cardinality(U \cap b.bA[j]) * 2^j
    BY DEF Weights, WeightOf
  <2>5. \A m \in Nat : \A n \in Nat : m * n \in Int
    OBVIOUS
  <2> HIDE DEF J
  <2>6. Integral(Weights(b, U), J)
    BY <2>2, <2>3, <2>4, <2>5 DEF Integral
  <2>7. QED BY <2>1, <2>2, <2>3, <2>4, <2>6
<1> HIDE DEF J, E, X
<1>7. ASSUME NEW U \in SUBSET S, \A x \in U : U \ {x} \in G PROVE U \in G
  <2>1. CASE U = {}
    <3>1. \A j \in J : U \cap b.bA[j] = {}
      BY <2>1
    <3>2. \A j \in J : Weights(b, U)[j] = 0
      <4>1. ASSUME NEW j \in J PROVE Weights(b, U)[j] = 0
        <5>1. Cardinality(U \cap b.bA[j]) = 0
          BY <3>1, FS_EmptySet
        <5>2. Weights(b, U)[j] = Cardinality(U \cap b.bA[j]) * 2^j /\ 2^j \in Nat
          BY <1>6
        <5>3. \A n \in Nat : \A m : m = 0 => m * n = 0
          OBVIOUS
        <5>4. QED BY <5>1, <5>2, <5>3
      <4>2. QED BY <4>1
    <3>3. Total(Weights(b, U), J) = 0
      BY <1>3, <3>2, TotalZero
    <3>4. Total(X, U) = 0
      BY <2>1, TotalEmpty
    <3>5. QED BY <3>3, <3>4
  <2>2. CASE U # {}
    <3>1. PICK c \in U : TRUE
      BY <2>2
    <3> DEFINE V == U \ {c}
               H == [j \in J |-> IF j \in E(c) THEN 2^j ELSE 0]
    <3>2. V \in SUBSET S /\ V \cup {c} = U /\ c \notin V
      BY <3>1
    <3>3. Ok(V)
      BY <1>7, <3>1
    <3>4. ASSUME NEW j \in J PROVE Weights(b, U)[j] = Weights(b, V)[j] + H[j]
      <4> DEFINE A == V \cap b.bA[j]
                 B == U \cap b.bA[j]
                 p == 2^j
                 m == Cardinality(A)
      <4>1. Weights(b, U)[j] = Cardinality(B) * p /\ Weights(b, V)[j] = m * p
            /\ m \in Nat /\ p \in Nat
        BY <1>6, <3>2
      <4>2. H[j] = IF j \in E(c) THEN p ELSE 0
        OBVIOUS
      <4>3. j \in E(c) <=> c \in b.bA[j]
        BY <1>4
      <4>4. CASE c \in b.bA[j]
        <5>1. B = A \cup {c} /\ c \notin A /\ IsFiniteSet(A)
          <6>1. IsFiniteSet(V) /\ A \subseteq V
            BY <1>6, <3>2
          <6>2. IsFiniteSet(A)
            BY <6>1, FS_Subset
          <6>3. QED BY <3>2, <4>4, <6>2
        <5> HIDE DEF A, B, H
        <5>2. Cardinality(B) = m + 1
          BY <5>1, FS_AddElement
        <5>3. H[j] = p
          BY <4>2, <4>3, <4>4
        <5> HIDE DEF m, p
        <5>4. (m + 1) * p = m * p + p
          BY <4>1
        <5>5. QED BY ONLY <4>1, <5>2, <5>3, <5>4
      <4>5. CASE c \notin b.bA[j]
        <5>1. B = A
          BY <3>2, <4>5
        <5> HIDE DEF A, B, H
        <5>2. H[j] = 0 /\ Cardinality(B) = m
          BY <4>2, <4>3, <4>5, <5>1
        <5> HIDE DEF m, p
        <5>3. m * p \in Int
          BY <4>1
        <5>4. QED BY ONLY <4>1, <5>2, <5>3
      <4>6. QED BY <4>4, <4>5
    <3>5. Integral(Weights(b, V), J) /\ IsFiniteSet(V) /\ IsFiniteSet(U)
      BY <1>6, <3>2
    <3>6. \A j \in J : H[j] \in Int
      BY <1>3, PowerStep
    <3>7. Total(H, J) = Worth(E(c))
      <4> DEFINE K == E(c)
                 R == J \ K
      <4>1. K \subseteq J /\ J = K \cup R /\ K \cap R = {} /\ Finite(K)
        BY <1>4
      <4>2. IsFiniteSet(K) /\ IsFiniteSet(R)
        BY <1>3, <4>1, FS_Subset DEF Finite
      <4>3. Integral(H, K) /\ Integral(H, R)
        BY <3>6, <4>1 DEF Integral
      <4>4. \A j \in R : H[j] = 0
        BY <4>1
      <4>5. \A j \in K : H[j] = Power[j]
        <5>1. \A j \in K : H[j] = 2^j /\ j \in Nat
          BY <1>3, <4>1
        <5> HIDE DEF H, K
        <5>2. QED BY <5>1 DEF Power
      <4> HIDE DEF K, R, H
      <4>6. Total(H, K \cup R) = Total(H, K) + Total(H, R)
        BY <4>1, <4>2, <4>3, TotalUnion
      <4>7. Total(H, R) = 0
        BY <4>2, <4>4, TotalZero
      <4>8. Total(H, K) = Total(Power, K)
        BY <4>2, <4>5, TotalSame
      <4>9. Total(H, K) \in Int
        BY <4>2, <4>3, TotalSplit
      <4>10. Total(H, J) = Total(Power, K)
        BY <4>1, <4>6, <4>7, <4>8, <4>9
      <4>11. QED BY <4>10 DEF Worth, K
    <3>8. Total(Weights(b, U), J) = Total(Weights(b, V), J) + Total(H, J)
      <4>1. Integral(H, J)
        BY <3>6 DEF Integral
      <4> HIDE DEF H, V
      <4>2. QED BY <1>3, <3>4, <3>5, <4>1, TotalPlus
    <3>9. Total(X, U) = X[c] + Total(X, V) /\ Total(X, V) \in Int
      <4>1. Integral(X, U) /\ Integral(X, V)
        BY <1>5 DEF Integral
      <4>2. QED BY <3>1, <3>5, <4>1, TotalSplit
    <3> HIDE DEF V, H
    <3>10. X[c] = Worth(E(c)) /\ X[c] \in Int
      BY <1>5, <3>1
    <3>11. Ok(U)
      BY <3>3, <3>7, <3>8, <3>9, <3>10
    <3>12. QED BY <3>11
  <2>3. QED BY <2>1, <2>2
<1> HIDE DEF Ok
<1>8. S \in G
  <2> HIDE DEF G
  <2>1. QED BY <1>1, <1>7, AllSubsets
<1>9. Ok(S)
  BY <1>8
<1>10. Integral(X, S)
  BY <1>5 DEF Integral
<1>11. QED BY <1>1, <1>3, <1>9, <1>10 DEF Ok, J, X

\* Sums of numbers that wrap alike wrap alike.
LEMMA WrapTotal ==
  ASSUME NEW S, IsFiniteSet(S), NEW F, Integral(F, S), NEW H, Integral(H, S),
         \A x \in S : Wrap(F[x]) = Wrap(H[x])
  PROVE  Wrap(Total(F, S)) = Wrap(Total(H, S))
<1> DEFINE G == {U \in SUBSET S : Wrap(Total(F, U)) = Wrap(Total(H, U))}
<1>1. ASSUME NEW U \in SUBSET S, \A x \in U : U \ {x} \in G PROVE U \in G
  <2>1. CASE U = {}
    <3>1. Total(F, {}) = Total(H, {})
      BY TotalEmpty
    <3>2. QED BY <2>1, <3>1
  <2>2. CASE U # {}
    <3>1. PICK w \in U : TRUE
      BY <2>2
    <3> DEFINE V == U \ {w}
               f == Total(F, V)
               h == Total(H, V)
    <3>2. IsFiniteSet(U) /\ Integral(F, U) /\ Integral(H, U)
          /\ IsFiniteSet(V) /\ Integral(F, V) /\ Integral(H, V)
      BY FS_Subset DEF Integral
    <3>3. /\ Total(F, U) = F[w] + f /\ Total(H, U) = H[w] + h
          /\ f \in Int /\ h \in Int
      BY <3>2, TotalSplit
    <3>4. Wrap(f) = Wrap(h)
      BY <1>1
    <3>5. F[w] \in Int /\ H[w] \in Int /\ Wrap(F[w]) = Wrap(H[w])
      BY DEF Integral
    <3> HIDE DEF V, f, h
    <3>6. Wrap(F[w] + f) = Wrap(Wrap(F[w]) + Wrap(f))
      BY <3>3, <3>5, WrapSum
    <3>7. Wrap(H[w] + h) = Wrap(Wrap(H[w]) + Wrap(h))
      BY <3>3, <3>5, WrapSum
    <3>8. Wrap(Total(F, U)) = Wrap(Total(H, U))
      BY ONLY <3>3, <3>4, <3>5, <3>6, <3>7
    <3>9. QED BY <3>8
  <2>3. QED BY <2>1, <2>2
<1> HIDE DEF G
<1>2. S \in G
  BY <1>1, AllSubsets
<1>3. QED BY <1>2 DEF G

Values(b, S) == [c \in S |-> GetValue(b, c)]

\* Adding up slices adds up values.
LEMMA SumIs ==
  ASSUME NEW b \in Index, NEW S \in SUBSET Column
  PROVE  /\ Sum(b, S) = Wrap(Total(Values(b, S), S))
         /\ IsFiniteSet(S) /\ Integral(Values(b, S), S)
<1> DEFINE F == Worths(b, S)
           H == Values(b, S)
<1>1. /\ IsFiniteSet(S) /\ IsFiniteSet(Below(b)) /\ Integral(F, S)
      /\ Total(Weights(b, S), Below(b)) = Total(F, S)
  BY SumExchanged
<1>2. Sum(b, S) = Wrap(Total(F, S))
  BY <1>1, WeightsTotal
<1>3. Shaped(b)
  BY IndexIs
<1>4. \A c \in S : H[c] = GetValue(b, c) /\ F[c] = Worth(Held(b, c, W))
  BY DEF Values, Worths
<1> HIDE DEF F, H
<1>5. ASSUME NEW c \in S PROVE H[c] \in Int /\ Wrap(F[c]) = Wrap(H[c])
  <2>1. H[c] = GetValue(b, c) /\ H[c] = Wrap(F[c])
    BY <1>3, <1>4, GetIs
  <2>2. H[c] \in Value /\ H[c] \in Int
    BY <1>3, <2>1, GetIn
  <2>3. Wrap(H[c]) = H[c]
    BY <2>2, WrapValue
  <2>4. QED BY <2>1, <2>2, <2>3
<1>6. Integral(H, S)
  BY <1>5 DEF Integral
<1>7. Wrap(Total(F, S)) = Wrap(Total(H, S))
  BY <1>1, <1>5, <1>6, WrapTotal
<1>8. QED BY <1>1, <1>2, <1>6, <1>7 DEF H

\* The counts add up to the number of columns counted.
LEMMA CountsTotal ==
  ASSUME NEW b, NEW S, IsFiniteSet(S), NEW K, IsFiniteSet(K),
         NEW H, \A k \in K : H[k] = Cardinality(Holders(b, S, k))
  PROVE  Total(H, K) = Cardinality({c \in S \cap b.eBM : GetValue(b, c) % (2^C) \in K})
<1> DEFINE In(U) == {c \in S \cap b.eBM : GetValue(b, c) % (2^C) \in U}
           G == {U \in SUBSET K : Total(H, U) = Cardinality(In(U))}
<1>1. ASSUME NEW U \in SUBSET K, \A k \in U : U \ {k} \in G PROVE U \in G
  <2>1. CASE U = {}
    <3>1. In(U) = {}
      BY <2>1
    <3>2. Total(H, U) = 0 /\ Cardinality(In(U)) = 0
      BY <2>1, <3>1, TotalEmpty, FS_EmptySet
    <3>3. QED BY <3>2
  <2>2. CASE U # {}
    <3>1. PICK k \in U : TRUE
      BY <2>2
    <3> DEFINE V == U \ {k}
               A == Holders(b, S, k)
               B == In(V)
    <3>2. IsFiniteSet(U) /\ Integral(H, U)
      BY FS_Subset, HoldersFinite DEF Integral
    <3>3. Total(H, U) = H[k] + Total(H, V)
      BY <3>2, TotalSplit
    <3>4. Total(H, V) = Cardinality(B) /\ H[k] = Cardinality(A)
      BY <1>1
    <3>5. In(U) = A \cup B /\ A \cap B = {}
      BY DEF Holders
    <3>6. IsFiniteSet(A) /\ IsFiniteSet(B) /\ Cardinality(A) \in Nat /\ Cardinality(B) \in Nat
      <4>1. B \subseteq S
        OBVIOUS
      <4>2. QED BY <4>1, HoldersFinite, FS_Subset, FS_CardinalityType
    <3> HIDE DEF A, B, In, V
    <3>7. Cardinality(A \cup B) = Cardinality(A) + Cardinality(B)
      <4>1. Cardinality(A \cup B) = Cardinality(A) + Cardinality(B) - Cardinality(A \cap B)
        BY <3>6, FS_Union
      <4>2. Cardinality(A \cap B) = 0
        BY <3>5, FS_EmptySet
      <4>3. QED BY <3>6, <4>1, <4>2
    <3>8. Total(H, U) = Cardinality(In(U))
      BY <3>3, <3>4, <3>5, <3>7
    <3>9. QED BY <3>8
  <2>3. QED BY <2>1, <2>2
<1> HIDE DEF In
<1>2. K \in G
  <2> HIDE DEF G
  <2>1. QED BY <1>1, AllSubsets
<1>3. QED BY <1>2 DEF In

\* What a tally says of itself.
LEMMA TallySays ==
  ASSUME NEW b, Good(b), NEW S, IsFiniteSet(S), NEW r, Tally(r, b, S)
  PROVE  /\ r.eBM = IntersectAndTranspose(b, S)
         /\ Sum(r, r.eBM) = Wrap(Cardinality(S \cap b.eBM))
<1> DEFINE K == r.eBM
           F == Values(r, K)
           H == [k \in K |-> Cardinality(Holders(b, S, k))]
<1>1. Good(r) /\ r \in Index /\ K \in SUBSET Column
  <2>1. Good(r)
    BY DEF Tally
  <2>2. QED BY <2>1, IndexIs DEF Good
<1>2. \A k : k \in K <=> \E c \in S \cap b.eBM : GetValue(b, c) % (2^C) = k
  BY DEF Tally, Holders
<1>3. K = IntersectAndTranspose(b, S)
  BY <1>2 DEF IntersectAndTranspose
<1>4. {c \in S \cap b.eBM : GetValue(b, c) % (2^C) \in K} = S \cap b.eBM
  BY <1>2
<1>5. \A k \in K : F[k] = Wrap(Cardinality(Holders(b, S, k)))
  BY DEF Tally, Values
<1>6. \A k \in K : H[k] = Cardinality(Holders(b, S, k))
  OBVIOUS
<1> HIDE DEF K, H
<1>7. Sum(r, K) = Wrap(Total(F, K)) /\ IsFiniteSet(K) /\ Integral(F, K)
  BY <1>1, SumIs
<1> HIDE DEF F
<1>8. ASSUME NEW k \in K PROVE H[k] \in Int /\ Wrap(F[k]) = Wrap(H[k])
  <2>1. H[k] \in Int /\ F[k] = Wrap(H[k])
    BY <1>5, <1>6, HoldersFinite
  <2>2. Wrap(H[k]) \in Value
    BY <2>1, WrapIn
  <2>3. Wrap(F[k]) = F[k]
    BY <2>1, <2>2, WrapValue
  <2>4. QED BY <2>1, <2>3
<1>9. Wrap(Total(F, K)) = Wrap(Total(H, K))
  <2>1. Integral(H, K)
    BY <1>8 DEF Integral
  <2>2. QED BY <1>7, <1>8, <2>1, WrapTotal
<1>10. Total(H, K) = Cardinality(S \cap b.eBM)
  <2>1. Total(H, K) = Cardinality({c \in S \cap b.eBM : GetValue(b, c) % (2^C) \in K})
    BY <1>6, <1>7, CountsTotal
  <2>2. QED BY <1>4, <2>1
<1>11. QED BY <1>3, <1>7, <1>9, <1>10 DEF K

(***************************************************************************)
(* The indexes in use.                                                     *)
(***************************************************************************)

\* Every index is well-formed: no slice has bits of a column without a value,
\* and an index with a range is as wide as the range.
WellFormed ==
  /\ bsi = [x \in Name |-> bsi[x]]
  /\ \A x \in Name : Good(bsi[x])
  /\ panicked \in BOOLEAN

LEMMA ColumnZero == 0 \in Column
<1>1. 2^C \in Nat /\ 2^C >= 1
  BY WidthAssumption, PowerStep
<1>2. QED BY <1>1 DEF Column

LEMMA RangeValues ==
  ASSUME NEW r \in Ranges
  PROVE  r[1] \in Value /\ r[2] \in Value
BY BsiAssumption

\* One index becomes r, and the others stay.
Becomes(x, r) ==
  /\ bsi'[x] = r
  /\ \A y \in Name \ {x} : bsi'[y] = bsi[y]
  /\ bsi' = [y \in Name |-> bsi'[y]]
  /\ panicked' = panicked

LEMMA BecomeIs ==
  ASSUME WellFormed, NEW x \in Name, NEW r, Become(x, r)
  PROVE  Becomes(x, r)
<1>1. bsi = [y \in Name |-> bsi[y]]
  BY DEF WellFormed
<1>2. bsi' = [bsi EXCEPT ![x] = r] /\ panicked' = panicked
  BY DEF Become
<1>3. bsi' = [y \in Name |-> IF y = x THEN r ELSE bsi[y]]
  BY <1>1, <1>2
<1>4. bsi'[x] = r
  BY <1>3
<1>5. \A y \in Name \ {x} : bsi'[y] = bsi[y]
  BY <1>3
<1>6. bsi' = [y \in Name |-> bsi'[y]]
  BY <1>3
<1>7. QED BY <1>2, <1>4, <1>5, <1>6 DEF Becomes

LEMMA BecomeGood ==
  ASSUME WellFormed, NEW x \in Name, NEW r, Become(x, r), Good(r)
  PROVE  WellFormed' /\ Becomes(x, r)
<1>1. Becomes(x, r)
  BY BecomeIs
<1>2. \A y \in Name : Good(bsi'[y])
  <2>1. ASSUME NEW y \in Name PROVE Good(bsi'[y])
    <3>1. CASE y = x
      <4>1. bsi'[y] = r
        BY <1>1, <3>1 DEF Becomes
      <4>2. QED BY <4>1
    <3>2. CASE y # x
      <4>1. bsi'[y] = bsi[y] /\ Good(bsi[y])
        BY <1>1, <3>2 DEF Becomes, WellFormed
      <4>2. QED BY <4>1
    <3>3. QED BY <3>1, <3>2
  <2>2. QED BY <2>1
<1>3. WellFormed'
  <2>1. bsi' = [y \in Name |-> bsi'[y]] /\ panicked' \in BOOLEAN
    BY <1>1 DEF Becomes, WellFormed
  <2>2. /\ bsi' = [y \in Name |-> bsi'[y]]
        /\ \A y \in Name : Good(bsi'[y])
        /\ panicked' \in BOOLEAN
    BY <1>2, <2>1
  <2>3. WellFormed' <=> /\ bsi' = [y \in Name |-> bsi'[y]]
                        /\ \A y \in Name : (Good(bsi[y]))'
                        /\ panicked' \in BOOLEAN
    BY DEF WellFormed
  <2>4. \A y \in Name : (Good(bsi[y]))' <=> Good(bsi'[y])
    BY DEF Good, Index, Slices, Clean, Wide, BitCount, Slice, Len64
  <2>5. QED BY <2>2, <2>3, <2>4
<1>4. QED BY <1>1, <1>3

LEMMA InitFormed == ASSUME Init PROVE WellFormed
<1>1. bsi \in [Name -> {NewBSI(r[1], r[2]) : r \in Ranges}] /\ panicked = FALSE
  BY DEF Init
<1>2. \A x \in Name : Good(bsi[x])
  <2>1. ASSUME NEW x \in Name PROVE Good(bsi[x])
    <3>1. PICK r \in Ranges : bsi[x] = NewBSI(r[1], r[2])
      BY <1>1
    <3>2. Good(NewBSI(r[1], r[2]))
      BY RangeValues, NewIs
    <3>3. QED BY <3>1, <3>2
  <2>2. QED BY <2>1
<1>3. bsi = [x \in Name |-> bsi[x]]
  BY <1>1
<1>4. QED BY <1>1, <1>2, <1>3 DEF WellFormed


\* What a call makes of an index, in terms of columns.
Effect(x, r) ==
  \/ \E S \in SUBSET Column, v \in Value : SetsTo(r, bsi[x], S, v)
  \/ \E y \in Name : \E S \in SUBSET Column : Restricts(r, bsi[y], S)
  \/ \E S \in SUBSET Column : Increments(r, bsi[x], S)
  \/ \E y \in Name \ {x} : AddsTo(r, bsi[x], bsi[y])
  \/ \E y \in Name \ {x} : Agreeing(bsi[x], bsi[y]) /\ Concatenates(r, bsi[x], bsi[y])
  \/ \E y \in Name : \E S \in SUBSET Column : Tally(r, bsi[y], S)
  \/ Good(r) /\ r.eBM = {}

LEMMA EffectGood == ASSUME NEW x, NEW r, Effect(x, r) PROVE Good(r)
BY DEF Effect, SetsTo, Restricts, Increments, AddsTo, Concatenates, Tally

\* A call has had its effect on one index, or has panicked.
Called == \E x \in Name : \E r : Become(x, r) /\ Effect(x, r)

LEMMA SetCalls ==
  ASSUME WellFormed, NEW x \in Name, NEW S \in SUBSET Column, NEW v \in Value, Set(x, S, v)
  PROVE  Called \/ Panic
<1> DEFINE b == bsi[x]
<1>1. Good(b) /\ b \in Index
  BY DEF WellFormed, Good
<1>2. v \in Int /\ Wrap(v) = v
  BY ValueIs, WrapValue
<1>3. Fitting(b, v)
  BY DEF Set, InRange, Fitting
<1>4. ASSUME ~ Panic
      PROVE  \/ \E c \in S : S = {c} /\ Become(x, SetValue(b, c, v))
             \/ Become(x, SetMany(b, S, v))
  BY <1>4 DEF Set
<1> HIDE DEF b
<1>5. ASSUME NEW c \in S, S = {c}, Become(x, SetValue(b, c, v)) PROVE Called
  <2> DEFINE r == SetValue(b, c, v)
  <2>1. c \in Column
    OBVIOUS
  <2>2. SetsTo(r, b, {c}, v)
    BY <1>1, <1>2, <1>3, <2>1, SetValueIs
  <2>3. Become(x, r)
    BY <1>5
  <2> HIDE DEF r
  <2>4. SetsTo(r, bsi[x], S, v)
    BY <1>5, <2>2 DEF b
  <2>5. Effect(x, r)
    BY <2>4 DEF Effect
  <2>6. QED BY <2>3, <2>5 DEF Called
<1>6. ASSUME Become(x, SetMany(b, S, v)) PROVE Called
  <2> DEFINE r == SetMany(b, S, v)
  <2>1. SetsTo(r, b, S, v)
    BY <1>1, <1>2, <1>3, SetManyIs
  <2>2. Become(x, r)
    BY <1>6
  <2> HIDE DEF r
  <2>3. Effect(x, r)
    BY <2>1 DEF Effect, b
  <2>4. QED BY <2>2, <2>3 DEF Called
<1>7. QED BY <1>4, <1>5, <1>6

LEMMA AddCalls ==
  ASSUME WellFormed, NEW x \in Name, NEW y \in Name \ {x}, AddFrom(x, y)
  PROVE  Called
<1> DEFINE r == Add(bsi[x], bsi[y])
<1>1. Good(bsi[x]) /\ Good(bsi[y])
  BY DEF WellFormed
<1>2. AddsTo(r, bsi[x], bsi[y])
  BY <1>1, AddValues
<1>3. Become(x, r)
  BY DEF AddFrom
<1> HIDE DEF r
<1>4. Effect(x, r)
  BY <1>2 DEF Effect
<1>5. QED BY <1>3, <1>4 DEF Called

LEMMA ParOrCalls ==
  ASSUME WellFormed, NEW x \in Name, NEW y \in Name \ {x}, ParOrFrom(x, y)
  PROVE  Called
<1> DEFINE r == ParOr(bsi[x], <<bsi[y]>>)
<1>1. Good(bsi[x]) /\ Good(bsi[y])
  BY DEF WellFormed
<1>2. Agreeing(bsi[x], bsi[y]) /\ Become(x, r)
  BY DEF ParOrFrom, Agreeing
<1>3. Concatenates(r, bsi[x], bsi[y])
  BY <1>1, <1>2, ParOrIs
<1> HIDE DEF r
<1>4. Effect(x, r)
  BY <1>2, <1>3 DEF Effect
<1>5. QED BY <1>2, <1>4 DEF Called

LEMMA IncrementCalls ==
  ASSUME WellFormed, NEW x \in Name, NEW S \in SUBSET Column, IncrementMany(x, S)
  PROVE  Called
<1> DEFINE r == Increment(bsi[x], S)
<1>1. Good(bsi[x])
  BY DEF WellFormed
<1>2. Increments(r, bsi[x], S)
  BY <1>1, IncrementIs
<1>3. Become(x, r)
  BY DEF IncrementMany
<1> HIDE DEF r
<1>4. Effect(x, r)
  BY <1>2 DEF Effect
<1>5. QED BY <1>3, <1>4 DEF Called

LEMMA CountCalls ==
  ASSUME WellFormed, NEW x \in Name, NEW y \in Name, NEW S \in SUBSET Column,
         CountFrom(x, y, S)
  PROVE  Called \/ Panic
<1>1. Good(bsi[y])
  BY DEF WellFormed
<1>2. ASSUME ~ Panic
      PROVE  \E n \in Parallel : Become(x, TransposeWithCounts(bsi[y], Batches(S, n)))
  BY <1>2 DEF CountFrom
<1>3. ASSUME NEW n \in Parallel, Become(x, TransposeWithCounts(bsi[y], Batches(S, n)))
      PROVE  Called
  <2> DEFINE r == TransposeWithCounts(bsi[y], Batches(S, n))
  <2>1. n \in Nat \ {0}
    BY BsiAssumption
  <2>2. Tally(r, bsi[y], S)
    BY <1>1, <2>1, CountsAre
  <2>3. Become(x, r)
    BY <1>3
  <2> HIDE DEF r
  <2>4. Effect(x, r)
    BY <2>2 DEF Effect
  <2>5. QED BY <2>3, <2>4 DEF Called
<1>4. QED BY <1>2, <1>3

\* The calls that keep some columns of an index.
LEMMA RestrictCalls ==
  ASSUME WellFormed, NEW x \in Name, NEW y \in Name, NEW S \in SUBSET Column, NEW r,
         Restricts(r, bsi[y], S), Become(x, r)
  PROVE  Called
<1>1. Effect(x, r)
  BY DEF Effect
<1>2. QED BY <1>1 DEF Called

LEMMA ClearCalls ==
  ASSUME WellFormed, NEW x \in Name, NEW S \in SUBSET Column, Clear(x, S)
  PROVE  Called
<1> DEFINE r == ClearValues(bsi[x], S)
           T == Column \ S
<1>1. Good(bsi[x])
  BY DEF WellFormed
<1>2. Restricts(r, bsi[x], T) /\ T \in SUBSET Column
  BY <1>1, ClearIs
<1>3. Become(x, r)
  BY DEF Clear
<1> HIDE DEF r, T
<1>4. QED BY <1>2, <1>3, RestrictCalls

LEMMA RetainCalls ==
  ASSUME WellFormed, NEW x \in Name, NEW y \in Name, NEW S \in SUBSET Column,
         RetainFrom(x, y, S)
  PROVE  Called
<1> DEFINE r == NewBSIRetainSet(bsi[y], S)
<1>1. Good(bsi[y])
  BY DEF WellFormed
<1>2. Restricts(r, bsi[y], S)
  BY <1>1, RetainIs
<1>3. Become(x, r)
  BY DEF RetainFrom
<1> HIDE DEF r
<1>4. QED BY <1>2, <1>3, RestrictCalls

LEMMA LoadCalls ==
  ASSUME WellFormed, NEW x \in Name, NEW y \in Name, Load(x, y)
  PROVE  Called
<1> DEFINE r == UnmarshalBinary(NewDefaultBSI, bsi[y])
<1>1. Good(bsi[y])
  BY DEF WellFormed
<1>2. Restricts(r, bsi[y], Column) /\ Column \in SUBSET Column
  BY <1>1, LoadIs
<1>3. Become(x, r)
  BY DEF Load
<1> HIDE DEF r
<1>4. QED BY <1>2, <1>3, RestrictCalls

LEMMA OptimizeCalls ==
  ASSUME WellFormed, NEW x \in Name, RunOptimize(x)
  PROVE  Called
<1> DEFINE r == [bsi[x] EXCEPT !.runOptimized = TRUE]
<1>1. Good(bsi[x])
  BY DEF WellFormed
<1>2. Restricts(r, bsi[x], Column) /\ Column \in SUBSET Column
  BY <1>1, OptimizeIs
<1>3. Become(x, r)
  BY DEF RunOptimize
<1> HIDE DEF r
<1>4. QED BY <1>2, <1>3, RestrictCalls

LEMMA NewCalls ==
  ASSUME WellFormed, NEW x \in Name, New(x)
  PROVE  Called
<1>1. PICK q \in Ranges : Become(x, NewBSI(q[1], q[2]))
  BY DEF New
<1> DEFINE r == NewBSI(q[1], q[2])
<1>2. Good(r) /\ r.eBM = {}
  BY RangeValues, NewIs
<1>3. Become(x, r)
  BY <1>1
<1> HIDE DEF r
<1>4. Effect(x, r)
  BY <1>2 DEF Effect
<1>5. QED BY <1>3, <1>4 DEF Called

\* Every step is a call or a panic.
LEMMA StepCalls ==
  ASSUME WellFormed, Next
  PROVE  Called \/ Panic
<1>1. ASSUME NEW x \in Name \ Operand, NEW S \in SUBSET Column,
             Clear(x, S) \/ IncrementMany(x, S) \/ \E v \in Value : Set(x, S, v)
      PROVE  Called \/ Panic
  BY <1>1, ClearCalls, IncrementCalls, SetCalls
<1>2. ASSUME NEW x \in Name \ Operand, NEW y \in Name \ {x}, AddFrom(x, y) \/ ParOrFrom(x, y)
      PROVE  Called
  BY <1>2, AddCalls, ParOrCalls
<1>3. ASSUME NEW x \in Name \ Operand, NEW y \in Name,
             Load(x, y) \/ \E S \in SUBSET Column : RetainFrom(x, y, S) \/ CountFrom(x, y, S)
      PROVE  Called \/ Panic
  BY <1>3, LoadCalls, RetainCalls, CountCalls
<1>4. ASSUME NEW x \in Name \ Operand, RunOptimize(x) PROVE Called
  BY <1>4, OptimizeCalls
<1>5. ASSUME NEW x \in Operand, NEW v \in Value, Set(x, {0}, v) PROVE Called \/ Panic
  <2>1. x \in Name /\ {0} \in SUBSET Column
    BY BsiAssumption, ColumnZero
  <2>2. QED BY <1>5, <2>1, SetCalls
<1>6. ASSUME NEW x \in Name, New(x) PROVE Called
  BY <1>6, NewCalls
<1>7. QED BY <1>1, <1>2, <1>3, <1>4, <1>5, <1>6 DEF Next

LEMMA PanicKeeps ==
  ASSUME WellFormed, bsi' = bsi, panicked' \in BOOLEAN
  PROVE  WellFormed'
<1>1. \A y \in Name : (Good(bsi[y]))' <=> Good(bsi'[y])
  BY DEF Good, Index, Slices, Clean, Wide, BitCount, Slice, Len64
<1>2. QED BY <1>1 DEF WellFormed

LEMMA StepFormed ==
  ASSUME WellFormed, [Next]_vars
  PROVE  WellFormed'
<1>1. CASE Next
  <2>1. CASE Called
    <3>1. PICK x \in Name : \E r : Become(x, r) /\ Effect(x, r)
      BY <2>1 DEF Called
    <3>2. PICK r : Become(x, r) /\ Effect(x, r)
      BY <3>1
    <3>3. Good(r)
      BY <3>2, EffectGood
    <3>4. QED BY <3>2, <3>3, BecomeGood
  <2>2. CASE Panic
    <3>1. bsi' = bsi /\ panicked' \in BOOLEAN
      BY <2>2 DEF Panic
    <3>2. QED BY <3>1, PanicKeeps
  <2>3. QED BY <1>1, <2>1, <2>2, StepCalls
<1>2. CASE UNCHANGED vars
  <2>1. bsi' = bsi /\ panicked' \in BOOLEAN
    BY <1>2 DEF vars, WellFormed
  <2>2. QED BY <2>1, PanicKeeps
<1>3. QED BY <1>1, <1>2

\* No calls on indexes, in any order, leave one whose slices have bits of a
\* column without a value, or one that is narrower than its range: what every
\* query and every update of bsi.go takes for granted.
THEOREM IndexesFormed == Spec => []WellFormed
<1>1. Init => WellFormed
  BY InitFormed
<1>2. WellFormed /\ [Next]_vars => WellFormed'
  BY StepFormed
<1>3. QED BY <1>1, <1>2, PTL DEF Spec

LEMMA HoldsIs ==
  /\ \A m, n : Holds("LT", m, n) <=> m < n
  /\ \A m, n : Holds("LE", m, n) <=> m <= n
  /\ \A m, n : Holds("EQ", m, n) <=> m = n
  /\ \A m, n : Holds("GE", m, n) <=> m >= n
  /\ \A m, n : Holds("GT", m, n) <=> m > n
<1>1. ASSUME NEW m, NEW n PROVE Holds("LT", m, n) <=> m < n
  BY DEF Holds
<1>2. ASSUME NEW m, NEW n PROVE Holds("LE", m, n) <=> m <= n
  BY DEF Holds
<1>3. ASSUME NEW m, NEW n PROVE Holds("EQ", m, n) <=> m = n
  BY DEF Holds
<1>4. ASSUME NEW m, NEW n PROVE Holds("GE", m, n) <=> m >= n
  BY DEF Holds
<1>5. ASSUME NEW m, NEW n PROVE Holds("GT", m, n) <=> m > n
  BY DEF Holds
<1>6. QED BY <1>1, <1>2, <1>3, <1>4, <1>5

LEMMA ExactIs ==
  ASSUME NEW b, NEW op, NEW v,
         \A c \in b.eBM : c \in Compare(b, op, v, b.eBM) <=> Holds(op, GetValue(b, c), v)
  PROVE  Exact(b, op, v)
<1>1. Compare(b, op, v, b.eBM) \subseteq b.eBM
  BY DEF Compare
<1>2. QED BY <1>1 DEF Exact

LEMMA FormedCompares ==
  ASSUME WellFormed
  PROVE  ComparisonsExact
<1> SUFFICES ASSUME NEW x \in Name, BitCount(bsi[x]) <= W
             PROVE  /\ \A v \in Value : Exact(bsi[x], "LE", v) /\ Exact(bsi[x], "GE", v)
                    /\ (\A c \in bsi[x].eBM : GetValue(bsi[x], c) >= 0) =>
                         \A v \in Value \cap Nat :
                           /\ \A op \in {"LT", "EQ", "GT"} : Exact(bsi[x], op, v)
                           /\ \A w \in {w \in Value : v <= w} :
                                CompareRange(bsi[x], v, w, bsi[x].eBM) =
                                  {c \in bsi[x].eBM : GetValue(bsi[x], c) \in v .. w}
  BY DEF ComparisonsExact
<1> DEFINE b == bsi[x]
<1>1. Shaped(b) /\ BitCount(b) <= W
  BY IndexIs DEF WellFormed, Good
<1> HIDE DEF b
<1>2. ASSUME NEW c PROVE GetValue(b, c) \in Int
  BY <1>1, GetIn
<1>3. ASSUME NEW v \in Value PROVE Exact(b, "LE", v) /\ Exact(b, "GE", v)
  <2>1. ASSUME NEW c \in b.eBM
        PROVE  /\ c \in Compare(b, "LE", v, b.eBM) <=> Holds("LE", GetValue(b, c), v)
               /\ c \in Compare(b, "GE", v, b.eBM) <=> Holds("GE", GetValue(b, c), v)
    <3>1. /\ c \in Compare(b, "LE", v, b.eBM) <=> GetValue(b, c) <= v
          /\ c \in Compare(b, "GE", v, b.eBM) <=> GetValue(b, c) >= v
      BY <1>1, SignedExact
    <3>2. QED BY <3>1, HoldsIs
  <2>2. QED BY <2>1, ExactIs
<1>4. ASSUME \A c \in b.eBM : GetValue(b, c) >= 0, NEW v \in Value \cap Nat
      PROVE  /\ \A op \in {"LT", "EQ", "GT"} : Exact(b, op, v)
             /\ \A w \in {w \in Value : v <= w} :
                  CompareRange(b, v, w, b.eBM) = {c \in b.eBM : GetValue(b, c) \in v .. w}
  <2>1. v \in Value /\ v >= 0 /\ v \in Int /\ 0 <= v
    OBVIOUS
  <2>2. ASSUME NEW c \in b.eBM
        PROVE  /\ c \in Compare(b, "LT", v, b.eBM) <=> Holds("LT", GetValue(b, c), v)
               /\ c \in Compare(b, "EQ", v, b.eBM) <=> Holds("EQ", GetValue(b, c), v)
               /\ c \in Compare(b, "GT", v, b.eBM) <=> Holds("GT", GetValue(b, c), v)
    <3>1. GetValue(b, c) >= 0
      BY <1>4
    <3>2. /\ c \in Compare(b, "LT", v, b.eBM) <=> GetValue(b, c) < v
          /\ c \in Compare(b, "EQ", v, b.eBM) <=> GetValue(b, c) = v
          /\ c \in Compare(b, "GT", v, b.eBM) <=> GetValue(b, c) > v
      BY <1>1, <2>1, <3>1, PlainExact
    <3>3. QED BY <3>2, HoldsIs
  <2>3. Exact(b, "LT", v) /\ Exact(b, "EQ", v) /\ Exact(b, "GT", v)
    BY <2>2, ExactIs
  <2>4. ASSUME NEW w \in Value, v <= w
        PROVE  CompareRange(b, v, w, b.eBM) = {c \in b.eBM : GetValue(b, c) \in v .. w}
    <3>1. CompareRange(b, v, w, b.eBM) \subseteq b.eBM
      BY DEF CompareRange
    <3>2. ASSUME NEW c \in b.eBM
          PROVE  c \in CompareRange(b, v, w, b.eBM) <=> GetValue(b, c) \in v .. w
      <4>1. GetValue(b, c) >= 0 /\ GetValue(b, c) \in Int
        BY <1>2, <1>4
      <4>2. c \in CompareRange(b, v, w, b.eBM) <=> v <= GetValue(b, c) /\ GetValue(b, c) <= w
        BY <1>1, <2>1, <2>4, <4>1, RangeExact
      <4>3. w \in Int
        BY ValueIs
      <4>4. QED BY <2>1, <4>1, <4>2, <4>3
    <3>3. QED BY <3>1, <3>2
  <2>5. QED BY <2>3, <2>4
<1>5. QED BY <1>3, <1>4 DEF b

\* Whatever calls made an index, the comparisons of bsi.go find the columns that
\* decoding every value finds: LE and GE for values of any sign, the others and
\* the range among values that are not negative.
THEOREM ComparisonsRight == Spec => []ComparisonsExact
<1>1. WellFormed => ComparisonsExact
  BY FormedCompares
<1>2. QED BY <1>1, IndexesFormed, PTL

LEMMA FormedAgrees ==
  ASSUME WellFormed
  PROVE  QueriesAgree
<1>1. ASSUME NEW x \in Name, BitCount(bsi[x]) <= W, NEW v \in Value
      PROVE  BatchEqual(bsi[x], {v}) = Compare(bsi[x], "LE", v, bsi[x].eBM)
                                       \cap Compare(bsi[x], "GE", v, bsi[x].eBM)
  <2> DEFINE b == bsi[x]
  <2>1. Shaped(b) /\ BitCount(b) <= W
    BY <1>1, IndexIs DEF WellFormed, Good
  <2> HIDE DEF b
  <2>2. /\ Compare(b, "LE", v, b.eBM) \subseteq b.eBM
        /\ Compare(b, "GE", v, b.eBM) \subseteq b.eBM
    BY DEF Compare
  <2>3. ASSUME NEW c \in b.eBM
        PROVE  c \in BatchEqual(b, {v}) <=>
                 c \in Compare(b, "LE", v, b.eBM) /\ c \in Compare(b, "GE", v, b.eBM)
    <3>1. /\ c \in Compare(b, "LE", v, b.eBM) <=> GetValue(b, c) <= v
          /\ c \in Compare(b, "GE", v, b.eBM) <=> GetValue(b, c) >= v
      BY <2>1, SignedExact
    <3>2. GetValue(b, c) \in Int /\ v \in Int
      BY <2>1, GetIn, ValueIs
    <3>3. c \in BatchEqual(b, {v}) <=> GetValue(b, c) = v
      BY DEF BatchEqual
    <3>4. QED BY <3>1, <3>2, <3>3
  <2>4. BatchEqual(b, {v}) \subseteq b.eBM
    BY DEF BatchEqual
  <2>5. BatchEqual(b, {v}) = Compare(b, "LE", v, b.eBM) \cap Compare(b, "GE", v, b.eBM)
    BY <2>2, <2>3, <2>4
  <2>6. QED BY <2>5 DEF b
<1>2. ASSUME NEW x \in Name, NEW S \in SUBSET bsi[x].eBM
      PROVE  Sum(bsi[x], S) = Wrap(MapThenSumSet(LAMBDA c : GetValue(bsi[x], c), S))
  <2> DEFINE b == bsi[x]
  <2>1. b \in Index /\ S \in SUBSET Column
    <3>1. b \in Index
      BY DEF WellFormed, Good
    <3>2. b.eBM \in SUBSET Column
      BY <3>1, IndexIs
    <3>3. QED BY <3>1, <3>2
  <2> HIDE DEF b
  <2>2. Sum(b, S) = Wrap(Total(Values(b, S), S)) /\ IsFiniteSet(S)
    BY <2>1, SumIs
  <2>3. MapThenSumSet(LAMBDA c : GetValue(b, c), S) = Total(Values(b, S), S)
    BY <2>2, ValuesTotal DEF Values
  <2>4. QED BY <2>2, <2>3 DEF b
<1>3. ASSUME NEW x \in Name, NEW n \in Parallel, NEW S \in SUBSET Column,
             NEW counts, counts = TransposeWithCounts(bsi[x], Batches(S, n))
      PROVE  /\ counts.eBM = IntersectAndTranspose(bsi[x], S)
             /\ Sum(counts, counts.eBM) = Wrap(Cardinality(S \cap bsi[x].eBM))
  <2>1. Good(bsi[x]) /\ n \in Nat \ {0}
    BY BsiAssumption DEF WellFormed
  <2>2. Tally(counts, bsi[x], S)
    BY <1>3, <2>1, CountsAre
  <2>3. IsFiniteSet(S)
    <3>1. bsi[x] \in Index
      BY <2>1 DEF Good
    <3>2. QED BY <3>1, SumExchanged
  <2>4. /\ counts.eBM = IntersectAndTranspose(bsi[x], S)
        /\ Sum(counts, counts.eBM) = Wrap(Cardinality(S \cap bsi[x].eBM))
    <3> DEFINE b == bsi[x]
    <3>1. Good(b) /\ Tally(counts, b, S)
      BY <2>1, <2>2
    <3> HIDE DEF b
    <3>2. /\ counts.eBM = IntersectAndTranspose(b, S)
          /\ Sum(counts, counts.eBM) = Wrap(Cardinality(S \cap b.eBM))
      BY ONLY <2>3, <3>1, TallySays, ZenonT(40)
    <3>3. QED BY <3>2 DEF b
  <2>5. QED BY <2>4
<1>4. QED BY <1>1, <1>2, <1>3 DEF QueriesAgree

\* Whatever calls made an index, queries of bsi.go that answer the same question
\* agree: what is compared, what is summed slice by slice, and what is counted
\* in however many batches, with what the columns hold.
THEOREM AnswersOfIndexes == Spec => []QueriesAgree
<1>1. WellFormed => QueriesAgree
  BY FormedAgrees
<1>2. QED BY <1>1, IndexesFormed, PTL

(***************************************************************************)
(* Indexes as maps from columns to values.                                 *)
(***************************************************************************)

\* The map that an index is, and the maps of all.
Decoded(b) == [c \in Column |-> IF Has(b, c) THEN GetValue(b, c) ELSE None]
Maps == [x \in Name |-> Decoded(bsi[x])]

LEMMA ColumnsAre ==
  /\ Columns!Column = Column /\ Columns!Value = Value
  /\ \A n : Columns!Wrap(n) = Wrap(n)
BY DEF Columns!Column, Columns!Value, Columns!Wrap, Column, Value, Wrap

LEMMA SizesAre == \A S : Columns!Cardinality(S) = Cardinality(S)
BY DEF Columns!Cardinality, Cardinality

LEMMA DecodedIs ==
  ASSUME NEW b, Good(b), NEW c \in Column
  PROVE  /\ Decoded(b)[c] = IF c \in b.eBM THEN GetValue(b, c) ELSE None
         /\ GetValue(b, c) \in Value /\ GetValue(b, c) \in Int /\ GetValue(b, c) # None
         /\ c \in b.eBM <=> Decoded(b)[c] # None
         /\ Columns!Number(Decoded(b)[c]) = GetValue(b, c)
<1>1. Shaped(b)
  BY IndexIs DEF Good
<1>2. GetValue(b, c) \in Value /\ GetValue(b, c) \in Int
  BY <1>1, GetIn
<1>3. GetValue(b, c) # None
  BY <1>2, BsiAssumption
<1>4. Decoded(b)[c] = IF c \in b.eBM THEN GetValue(b, c) ELSE None
  BY DEF Decoded, Has
<1>5. c \in b.eBM <=> Decoded(b)[c] # None
  BY <1>3, <1>4
<1>6. Columns!Number(Decoded(b)[c]) = GetValue(b, c)
  <2>1. Columns!Number(Decoded(b)[c]) = IF Decoded(b)[c] = None THEN 0 ELSE Decoded(b)[c]
    BY DEF Columns!Number
  <2>2. c \notin b.eBM => GetValue(b, c) = 0
    BY EmptyValue
  <2>3. QED BY <1>3, <1>4, <2>1, <2>2
<1>7. QED BY <1>2, <1>3, <1>4, <1>5, <1>6

LEMMA KeptIs ==
  ASSUME NEW b, NEW r, NEW c \in Column, Keeps(r, b, c)
  PROVE  Decoded(r)[c] = Decoded(b)[c]
BY DEF Decoded, Has, Keeps

LEMMA GivenIs ==
  ASSUME NEW r, NEW c \in Column, NEW v, Gives(r, c, v)
  PROVE  Decoded(r)[c] = v
BY DEF Decoded, Has, Gives

LEMMA SetMaps ==
  ASSUME NEW b, NEW S, NEW v \in Value, NEW r, SetsTo(r, b, S, v)
  PROVE  Columns!Set(Decoded(b), Decoded(r))
<1>1. Wrap(v) = v
  BY WrapValue
<1>2. ASSUME NEW c \in Column PROVE Decoded(r)[c] \in {Decoded(b)[c], v}
  <2>1. CASE c \in S
    <3>1. Gives(r, c, v)
      BY <1>1, <2>1 DEF SetsTo
    <3>2. QED BY <3>1, GivenIs
  <2>2. CASE c \notin S
    <3>1. Keeps(r, b, c)
      BY <2>2 DEF SetsTo
    <3>2. QED BY <3>1, KeptIs
  <2>3. QED BY <2>1, <2>2
<1>3. QED BY <1>2, ColumnsAre DEF Columns!Set

LEMMA RestrictMaps ==
  ASSUME NEW b, NEW S, NEW r, Restricts(r, b, S)
  PROVE  Columns!Clear(Decoded(b), Decoded(r))
<1>1. ASSUME NEW c \in Column PROVE Decoded(r)[c] \in {Decoded(b)[c], None}
  <2>1. CASE c \in S
    <3>1. Keeps(r, b, c)
      BY <2>1 DEF Restricts
    <3>2. QED BY <3>1, KeptIs
  <2>2. CASE c \notin S
    <3>1. Loses(r, c)
      BY <2>2 DEF Restricts
    <3>2. Decoded(r)[c] = None
      BY <3>1 DEF Loses, Decoded, Has
    <3>3. QED BY <3>2
  <2>3. QED BY <2>1, <2>2
<1>2. QED BY <1>1, ColumnsAre DEF Columns!Clear

LEMMA IncrementMaps ==
  ASSUME NEW b, Good(b), NEW S, NEW r, Increments(r, b, S)
  PROVE  Columns!Increment(Decoded(b), Decoded(r))
<1>1. ASSUME NEW c \in Column
      PROVE  Decoded(r)[c] \in {Decoded(b)[c], Wrap(Columns!Number(Decoded(b)[c]) + 1)}
  <2>1. CASE c \in S
    <3>1. Gives(r, c, Wrap(GetValue(b, c) + 1))
      BY <2>1 DEF Increments
    <3>2. Decoded(r)[c] = Wrap(GetValue(b, c) + 1)
      BY <3>1, GivenIs
    <3>3. Columns!Number(Decoded(b)[c]) = GetValue(b, c)
      BY DecodedIs
    <3>4. QED BY <3>2, <3>3
  <2>2. CASE c \notin S
    <3>1. Keeps(r, b, c)
      BY <2>2 DEF Increments
    <3>2. QED BY <3>1, KeptIs
  <2>3. QED BY <2>1, <2>2
<1>2. QED BY <1>1, ColumnsAre DEF Columns!Increment

LEMMA AddMaps ==
  ASSUME NEW b, Good(b), NEW o, Good(o), NEW r, AddsTo(r, b, o)
  PROVE  Columns!Add(Decoded(b), Decoded(o), Decoded(r))
<1>1. ASSUME NEW c \in Column
      PROVE  Decoded(r)[c] =
               IF Decoded(o)[c] = None THEN Decoded(b)[c]
               ELSE Wrap(Columns!Number(Decoded(b)[c]) + Decoded(o)[c])
  <2>1. /\ c \in r.eBM <=> c \in b.eBM \/ c \in o.eBM
        /\ GetValue(r, c) = Wrap(GetValue(b, c) + GetValue(o, c))
        /\ Good(r)
    BY DEF AddsTo
  <2>2. /\ Decoded(r)[c] = IF c \in r.eBM THEN GetValue(r, c) ELSE None
        /\ Decoded(b)[c] = IF c \in b.eBM THEN GetValue(b, c) ELSE None
        /\ Decoded(o)[c] = IF c \in o.eBM THEN GetValue(o, c) ELSE None
        /\ c \in o.eBM <=> Decoded(o)[c] # None
        /\ Columns!Number(Decoded(b)[c]) = GetValue(b, c)
        /\ GetValue(b, c) \in Value /\ GetValue(b, c) \in Int
    BY <2>1, DecodedIs
  <2>3. CASE c \in o.eBM
    BY <2>1, <2>2, <2>3
  <2>4. CASE c \notin o.eBM
    <3>1. GetValue(o, c) = 0
      BY <2>4, EmptyValue
    <3>2. GetValue(b, c) + GetValue(o, c) = GetValue(b, c)
      BY <2>2, <3>1
    <3>3. GetValue(r, c) = GetValue(b, c)
      BY <2>1, <2>2, <3>2, WrapValue
    <3>4. QED BY <2>1, <2>2, <2>4, <3>3
  <2>5. QED BY <2>3, <2>4
<1>2. QED BY <1>1, ColumnsAre DEF Columns!Add

LEMMA ConcatenateMaps ==
  ASSUME NEW b, Good(b), NEW o, Good(o), Agreeing(b, o), NEW r, Concatenates(r, b, o)
  PROVE  Columns!Concatenate(Decoded(b), Decoded(o), Decoded(r))
<1>1. ASSUME NEW c \in Column
      PROVE  /\ Decoded(b)[c] = Decoded(o)[c] \/ None \in {Decoded(b)[c], Decoded(o)[c]}
             /\ Decoded(r)[c] = IF Decoded(o)[c] = None THEN Decoded(b)[c] ELSE Decoded(o)[c]
  <2>1. /\ Decoded(b)[c] = IF c \in b.eBM THEN GetValue(b, c) ELSE None
        /\ Decoded(o)[c] = IF c \in o.eBM THEN GetValue(o, c) ELSE None
        /\ c \in o.eBM <=> Decoded(o)[c] # None
    BY DecodedIs
  <2>2. c \in b.eBM /\ c \in o.eBM => GetValue(b, c) = GetValue(o, c)
    BY DEF Agreeing
  <2>3. Decoded(b)[c] = Decoded(o)[c] \/ None \in {Decoded(b)[c], Decoded(o)[c]}
    BY <2>1, <2>2
  <2>4. c \in o.eBM => Decoded(r)[c] = GetValue(o, c)
    BY GivenIs DEF Concatenates
  <2>5. c \notin o.eBM => Decoded(r)[c] = Decoded(b)[c]
    BY KeptIs DEF Concatenates
  <2>6. QED BY <2>1, <2>3, <2>4, <2>5
<1>2. QED BY <1>1, ColumnsAre DEF Columns!Concatenate

LEMMA CountMaps ==
  ASSUME NEW b, Good(b), NEW S \in SUBSET Column, NEW r, Tally(r, b, S)
  PROVE  Columns!Count(Decoded(b), Decoded(r))
<1>1. ASSUME NEW k \in Column, NEW held,
             held = {c \in S : Decoded(b)[c] # None /\ Decoded(b)[c] % (2^C) = k}
      PROVE  Decoded(r)[k] = IF held = {} THEN None ELSE Wrap(Cardinality(held))
  <2>1. ASSUME NEW c \in S
        PROVE  c \in b.eBM /\ GetValue(b, c) % (2^C) = k <=>
                 Decoded(b)[c] # None /\ Decoded(b)[c] % (2^C) = k
    <3>1. /\ Decoded(b)[c] = IF c \in b.eBM THEN GetValue(b, c) ELSE None
          /\ c \in b.eBM <=> Decoded(b)[c] # None
      BY DecodedIs
    <3>2. QED BY <3>1
  <2>2. held = Holders(b, S, k)
    BY <1>1, <2>1 DEF Holders
  <2>3. /\ k \in r.eBM <=> held # {}
        /\ GetValue(r, k) = Wrap(Cardinality(held))
    BY <2>2 DEF Tally
  <2>4. QED BY <2>3 DEF Decoded, Has
<1>2. \A k \in Columns!Column :
        LET held == {c \in S : Decoded(b)[c] # None /\ Decoded(b)[c] % (2^C) = k}
        IN Decoded(r)[k] = IF held = {} THEN None ELSE Columns!Wrap(Columns!Cardinality(held))
  <2>1. \A k \in Column :
          LET held == {c \in S : Decoded(b)[c] # None /\ Decoded(b)[c] % (2^C) = k}
          IN Decoded(r)[k] = IF held = {} THEN None ELSE Wrap(Cardinality(held))
    BY <1>1
  <2>2. QED BY <2>1, ColumnsAre, SizesAre
<1>3. S \in SUBSET Columns!Column
  BY ColumnsAre
<1>4. QED BY ONLY <1>2, <1>3 DEF Columns!Count

LEMMA EmptyMaps ==
  ASSUME NEW r, r.eBM = {}
  PROVE  Decoded(r) = Columns!Empty
BY ColumnsAre DEF Decoded, Has, Columns!Empty

LEMMA MapsAre ==
  /\ Maps = [x \in Name |-> [c \in Column |->
               IF Has(bsi[x], c) THEN GetValue(bsi[x], c) ELSE None]]
  /\ \A x \in Name : Maps[x] = Decoded(bsi[x])
BY DEF Maps, Decoded

\* A call is a call on the map.
LEMMA EffectMaps ==
  ASSUME WellFormed, NEW x \in Name, NEW r, Effect(x, r),
         NEW others, others = {Maps[y] : y \in Name \ {x}}
  PROVE  Columns!Call(Maps[x], Decoded(r), others)
<1> DEFINE m == Decoded(bsi[x])
           m2 == Decoded(r)
<1>1. m = Maps[x] /\ \A y \in Name : Good(bsi[y]) /\ Maps[y] = Decoded(bsi[y])
  BY MapsAre DEF WellFormed
<1>2. \A y \in Name : Decoded(bsi[y]) \in others \cup {m}
  BY <1>1
<1>3. \A y \in Name \ {x} : Decoded(bsi[y]) \in others
  BY <1>1
<1> HIDE DEF m, m2
<1> SUFFICES Columns!Call(m, m2, others)
  BY <1>1 DEF m2
<1>4. ASSUME NEW S \in SUBSET Column, NEW v \in Value, SetsTo(r, bsi[x], S, v)
      PROVE  Columns!Set(m, m2)
  BY <1>4, SetMaps DEF m, m2
<1>5. ASSUME NEW y \in Name, NEW S \in SUBSET Column, Restricts(r, bsi[y], S)
      PROVE  \E n \in others \cup {m} : Columns!Clear(n, m2)
  <2>1. Columns!Clear(Decoded(bsi[y]), m2)
    BY <1>5, RestrictMaps DEF m2
  <2>2. QED BY <1>2, <2>1
<1>6. ASSUME NEW S \in SUBSET Column, Increments(r, bsi[x], S)
      PROVE  Columns!Increment(m, m2)
  BY <1>1, <1>6, IncrementMaps DEF m, m2
<1>7. ASSUME NEW y \in Name \ {x}, AddsTo(r, bsi[x], bsi[y])
      PROVE  \E n \in others : Columns!Add(m, n, m2)
  <2>1. Columns!Add(m, Decoded(bsi[y]), m2)
    BY <1>1, <1>7, AddMaps DEF m, m2
  <2>2. QED BY <1>3, <2>1
<1>8. ASSUME NEW y \in Name \ {x}, Agreeing(bsi[x], bsi[y]),
             Concatenates(r, bsi[x], bsi[y])
      PROVE  \E n \in others : Columns!Concatenate(m, n, m2)
  <2>1. Columns!Concatenate(m, Decoded(bsi[y]), m2)
    BY <1>1, <1>8, ConcatenateMaps DEF m, m2
  <2>2. QED BY <1>3, <2>1
<1>9. ASSUME NEW y \in Name, NEW S \in SUBSET Column, Tally(r, bsi[y], S)
      PROVE  \E n \in others \cup {m} : Columns!Count(n, m2)
  <2>1. Columns!Count(Decoded(bsi[y]), m2)
    BY <1>1, <1>9, CountMaps DEF m2
  <2>2. QED BY <1>2, <2>1
<1>10. ASSUME r.eBM = {} PROVE m2 = Columns!Empty
  BY <1>10, EmptyMaps DEF m2
<1>11. QED BY <1>4, <1>5, <1>6, <1>7, <1>8, <1>9, <1>10 DEF Effect, Columns!Call

LEMMA CallMaps ==
  ASSUME WellFormed, NEW x \in Name, NEW r, Becomes(x, r), Effect(x, r)
  PROVE  Columns!Next
<1> DEFINE others == {Maps[y] : y \in Name \ {x}}
<1>1. Columns!Call(Maps[x], Decoded(r), others)
  BY EffectMaps
<1>2. \A y \in Name : Maps'[y] = Decoded(bsi'[y])
  BY DEF Maps, Decoded, Has, GetValue, Spelled
<1>3. Maps'[x] = Decoded(r)
  BY <1>2 DEF Becomes
<1>4. \A y \in Name \ {x} : Maps'[y] = Maps[y]
  <2>1. ASSUME NEW y \in Name \ {x} PROVE Maps'[y] = Maps[y]
    <3>1. bsi'[y] = bsi[y]
      BY DEF Becomes
    <3>2. Maps'[y] = Decoded(bsi'[y]) /\ Maps[y] = Decoded(bsi[y])
      BY <1>2, MapsAre
    <3>3. QED BY <3>1, <3>2
  <2>2. QED BY <2>1
<1>5. Columns!Call(Maps[x], Maps'[x], {Maps[y] : y \in Name \ {x}})
  BY <1>1, <1>3
<1>6. \E z \in Name :
        /\ \A y \in Name \ {z} : Maps'[y] = Maps[y]
        /\ Columns!Call(Maps[z], Maps'[z], {Maps[y] : y \in Name \ {z}})
  BY <1>4, <1>5
<1>7. Columns!Next <=>
        \E z \in Name :
          /\ \A y \in Name \ {z} : Maps'[y] = Maps[y]
          /\ Columns!Call(Maps[z], Maps'[z], {Maps[y] : y \in Name \ {z}})
  BY DEF Columns!Next, Maps, Decoded
<1>8. QED BY <1>6, <1>7

LEMMA InitMaps == ASSUME Init PROVE Columns!Init
<1>1. ASSUME NEW x \in Name PROVE Decoded(bsi[x]) = Columns!Empty
  <2>1. PICK q \in Ranges : bsi[x] = NewBSI(q[1], q[2])
    BY DEF Init
  <2>2. NewBSI(q[1], q[2]).eBM = {}
    BY RangeValues, NewIs
  <2>3. QED BY <2>1, <2>2, EmptyMaps
<1>2. Maps = [x \in Name |-> Columns!Empty]
  BY <1>1 DEF Maps
<1>3. QED BY <1>2, MapsAre DEF Columns!Init

LEMMA StepMaps ==
  ASSUME WellFormed, [Next]_vars
  PROVE  [Columns!Next]_Maps
<1>1. CASE Called
  <2>1. PICK x \in Name : \E r : Become(x, r) /\ Effect(x, r)
    BY <1>1 DEF Called
  <2>2. PICK r : Become(x, r) /\ Effect(x, r)
    BY <2>1
  <2>3. Becomes(x, r)
    BY <2>2, BecomeIs
  <2>4. QED BY <2>2, <2>3, CallMaps
<1>2. CASE bsi' = bsi
  <2>1. Maps' = Maps
    BY <1>2 DEF Maps, Decoded, Has, GetValue, Spelled
  <2>2. QED BY <2>1
<1>3. Called \/ bsi' = bsi
  BY StepCalls DEF Panic, vars
<1>4. QED BY <1>1, <1>2, <1>3

\* Any calls on the indexes of bsi.go do to the columns of one index what
\* ColumnMaps says: no stale bits when a value is replaced or a column cleared, no
\* lost carries, sums and counts that wrap as integers do.
THEOREM IndexesAreMaps == Spec => ColumnsKept
<1>1. Init => Columns!Init
  BY InitMaps
<1>2. WellFormed /\ [Next]_vars => [Columns!Next]_Maps
  BY StepMaps
<1>3. Spec => []WellFormed
  BY IndexesFormed
<1>4. Maps = [x \in Name |-> [c \in Column |->
                IF Has(bsi[x], c) THEN GetValue(bsi[x], c) ELSE None]]
  BY MapsAre
<1> DEFINE V == [x \in Name |-> [c \in Column |->
                   IF Has(bsi[x], c) THEN GetValue(bsi[x], c) ELSE None]]
<1>5. WellFormed /\ [Next]_vars => [Columns!Next]_V
  <2>1. Maps = V /\ Maps' = V'
    BY DEF Maps, Decoded, Has, GetValue, Spelled
  <2>2. QED BY <1>2, <2>1
<1>6. QED BY <1>1, <1>3, <1>5, PTL DEF Spec, ColumnsKept, Columns!Spec
=============================================================================
