--------------------------- MODULE ListEventsProofs ---------------------------
(* Proofs about the iterators and the page that ListEvents makes of what   *)
(* they return, for any keys, filters, number of indexes and page size.    *)
EXTENDS ListEvents, FiniteSetTheorems, SequenceTheorems, WellFoundedInduction, TLAPS

(***************************************************************************)
(* Finite sets, orders and sequences.  The library's induction theorems    *)
(* take operators, so the proofs look at a smallest counterexample.        *)
(***************************************************************************)

Pick(s) == CHOOSE x \in s : TRUE

\* A nonempty set of naturals has a least element.
LEMMA Least ==
  ASSUME NEW T, T \subseteq Nat, T # {}
  PROVE  \E n \in T : \A m \in T : n <= m
<1> DEFINE less == OpToRel(<, Nat)
<1>1. PICK x \in T : \A y \in T : ~ (<<y, x>> \in less)
  <2>1. IsWellFoundedOn(less, Nat)
    BY NatLessThanWellFounded
  <2> HIDE DEF less
  <2>2. QED BY <2>1, WFMin
<1>2. \A a, c \in Nat : <<c, a>> \in less <=> c < a
  BY DEF OpToRel
<1> HIDE DEF less
<1>3. \A y \in T : x \in Nat /\ y \in Nat /\ ~ (y < x)
  BY <1>1, <1>2, Zenon
<1>4. QED BY <1>1, <1>3

\* A nonempty set of finite sets has one with the fewest elements.
LEMMA Smallest ==
  ASSUME NEW B, B # {}, \A T \in B : IsFiniteSet(T)
  PROVE  \E T \in B : \A U \in B : Cardinality(T) <= Cardinality(U)
<1> DEFINE N == {Cardinality(T) : T \in B}
<1>1. N \subseteq Nat /\ N # {}
  BY FS_CardinalityType
<1>2. PICK n \in N : \A m \in N : n <= m
  BY <1>1, Least
<1>3. PICK T \in B : n = Cardinality(T)
  OBVIOUS
<1>4. \A U \in B : Cardinality(T) <= Cardinality(U)
  BY <1>2, <1>3
<1>5. QED BY <1>4

\* What is left of a finite set without its chosen element is smaller.
LEMMA RestSmaller ==
  ASSUME NEW T, IsFiniteSet(T), T # {}
  PROVE  /\ Pick(T) \in T /\ IsFiniteSet(T \ {Pick(T)})
         /\ Cardinality(T) \in Nat
         /\ Cardinality(T \ {Pick(T)}) = Cardinality(T) - 1
<1>1. Pick(T) \in T
  BY DEF Pick
<1>2. QED BY <1>1, FS_RemoveElement, FS_CardinalityType

\* A relation that compares any two elements of a finite nonempty set, and is
\* transitive there, has a first element.
LEMMA FirstOf ==
  ASSUME NEW S, IsFiniteSet(S), S # {}, NEW R,
         \A x, y \in S : x # y => <<x, y>> \in R \/ <<y, x>> \in R,
         \A x, y, z \in S : <<x, y>> \in R /\ <<y, z>> \in R => <<x, z>> \in R
  PROVE  \E x \in S : \A y \in S \ {x} : <<x, y>> \in R
<1> DEFINE Ok(T) == \E x \in T : \A y \in T \ {x} : <<x, y>> \in R
           Bad == {T \in SUBSET S : T # {} /\ ~ Ok(T)}
<1>1. ASSUME Bad # {} PROVE FALSE
  <2>1. \A T \in Bad : IsFiniteSet(T)
    BY FS_Subset
  <2>2. PICK T \in Bad : \A U \in Bad : Cardinality(T) <= Cardinality(U)
    BY <1>1, <2>1, Smallest
  <2> DEFINE x == Pick(T)
             U == T \ {x}
  <2>3. /\ T \in SUBSET S /\ T # {} /\ ~ Ok(T) /\ x \in T /\ x \in S
        /\ Cardinality(T) \in Nat /\ Cardinality(U) = Cardinality(T) - 1
    BY <2>1, <2>2, RestSmaller
  <2>4. U \notin Bad
    <3>1. ~ (Cardinality(T) <= Cardinality(U))
      BY <2>3
    <3>2. QED BY <2>2, <3>1
  <2> HIDE DEF x
  <2>5. CASE U = {}
    BY <2>3, <2>5
  <2>6. CASE U # {}
    <3>1. PICK m \in U : \A y \in U \ {m} : <<m, y>> \in R
      BY <2>3, <2>4, <2>6
    <3>2. m \in S /\ m # x /\ m \in T
      BY <2>3, <3>1
    <3>3. CASE <<m, x>> \in R
      <4>1. \A y \in T \ {m} : <<m, y>> \in R
        BY <3>1, <3>3
      <4>2. QED BY <2>3, <3>2, <4>1
    <3>4. CASE <<x, m>> \in R
      <4>1. \A y \in T \ {x} : <<x, y>> \in R
        BY <2>3, <3>1, <3>2, <3>4
      <4>2. QED BY <2>3, <4>1
    <3>5. QED BY <2>3, <3>2, <3>3, <3>4
  <2>7. QED BY <2>5, <2>6
<1>2. S \notin Bad
  BY <1>1
<1>3. QED BY <1>2

\* A finite nonempty set of naturals has a greatest element.
LEMMA Greatest ==
  ASSUME NEW S, IsFiniteSet(S), S # {}, S \subseteq Nat
  PROVE  \E x \in S : \A y \in S : x >= y
<1> DEFINE U == S
           R == {p \in S \X S : p[1] > p[2]}
<1>1. \A x, y \in S : <<x, y>> \in R <=> x > y
  OBVIOUS
<1> HIDE DEF R
<1>2. /\ \A x, y \in S : x # y => <<x, y>> \in R \/ <<y, x>> \in R
      /\ \A x, y, z \in S : <<x, y>> \in R /\ <<y, z>> \in R => <<x, z>> \in R
  BY <1>1
<1>3. /\ IsFiniteSet(U) /\ U # {}
      /\ \A x, y \in U : x # y => <<x, y>> \in R \/ <<y, x>> \in R
      /\ \A x, y, z \in U : <<x, y>> \in R /\ <<y, z>> \in R => <<x, z>> \in R
  BY <1>2
<1> HIDE DEF U
<1>4. \E x \in U : \A y \in U \ {x} : <<x, y>> \in R
  BY <1>3, FirstOf
<1> USE DEF U
<1>5. PICK x \in S : \A y \in S \ {x} : <<x, y>> \in R
  BY <1>4
<1>6. ASSUME NEW y \in S PROVE x >= y
  <2>1. x \in Nat /\ y \in Nat
    OBVIOUS
  <2>2. x = y \/ x > y
    BY <1>1, <1>5
  <2>3. QED BY <2>1, <2>2
<1>7. QED BY <1>6

\* A loop over 1 .. n that appends a value at every place but those of Skip.
Loops(g, n, Skip, V) ==
  g = [m \in 0 .. n |-> IF m = 0 THEN <<>>
                        ELSE IF m \in Skip THEN g[m - 1]
                        ELSE Append(g[m - 1], V[m])]

LEMMA LoopsExists ==
  ASSUME NEW n \in Nat, NEW Skip, NEW V
  PROVE  \E g : Loops(g, n, Skip, V)
<1> DEFINE Good(m) == \E g : Loops(g, m, Skip, V)
           Bad == {m \in Nat : ~ Good(m)}
           Grow(g, m) == IF m = 0 THEN <<>>
                         ELSE IF m \in Skip THEN g[m - 1]
                         ELSE Append(g[m - 1], V[m])
<1>1. Good(0)
  <2> DEFINE g == [m \in 0 .. 0 |-> <<>>]
  <2>1. \A m \in 0 .. 0 : Grow(g, m) = <<>>
    OBVIOUS
  <2>2. g = [m \in 0 .. 0 |-> Grow(g, m)]
    BY <2>1
  <2>3. QED BY <2>2 DEF Loops
<1>2. ASSUME NEW m \in Nat, Good(m) PROVE Good(m + 1)
  <2>1. PICK g : g = [k \in 0 .. m |-> Grow(g, k)]
    BY <1>2 DEF Loops
  <2> DEFINE h == [k \in 0 .. m + 1 |-> Grow(g, k)]
  <2>2. \A k \in 0 .. m : g[k] = Grow(g, k)
    BY <2>1, Zenon
  <2>3. \A k \in 0 .. m : h[k] = g[k]
    <3>1. \A k \in 0 .. m : k \in 0 .. m + 1
      OBVIOUS
    <3>2. QED BY <2>2, <3>1, Zenon
  <2>4. \A k \in 0 .. m + 1 : k = 0 \/ k - 1 \in 0 .. m
    OBVIOUS
  <2> HIDE DEF h
  <2>5. \A k \in 0 .. m + 1 : Grow(g, k) = Grow(h, k)
    BY <2>3, <2>4, Zenon
  <2>6. h = [k \in 0 .. m + 1 |-> Grow(h, k)]
    BY <2>5, Zenon DEF h
  <2>7. QED BY <2>6 DEF Loops
<1>3. Bad = {}
  <2>1. SUFFICES ASSUME Bad # {} PROVE FALSE
    OBVIOUS
  <2>2. PICK m \in Bad : \A k \in Bad : m <= k
    BY <2>1, Least
  <2> HIDE DEF Good
  <2>3. m # 0 /\ m \in Nat
    BY <1>1
  <2>4. m - 1 \in Nat /\ m - 1 \notin Bad
    BY <2>2, <2>3
  <2>5. Good((m - 1) + 1)
    BY <1>2, <2>4
  <2>6. QED BY <2>3, <2>5
<1>4. QED BY <1>3

\* The places of sequence s have the values of V at the numbers of J, each of
\* which has one place.
InPlaces(s, J, V) ==
  \E h \in [DOMAIN s -> J] :
    /\ \A x \in DOMAIN s : s[x] = V[h[x]]
    /\ \A x \in DOMAIN s, y \in DOMAIN s : h[x] = h[y] => x = y
    /\ \A j \in J : \E x \in DOMAIN s : h[x] = j

LEMMA PlacesAppend ==
  ASSUME NEW T, NEW s \in Seq(T), NEW m \in Nat, NEW J, NEW V, InPlaces(s, J, V),
         m \notin J, V[m] \in T
  PROVE  InPlaces(Append(s, V[m]), J \cup {m}, V)
<1> DEFINE t == Append(s, V[m])
           n == Len(s)
<1>1. n \in Nat /\ DOMAIN s = 1 .. n
  BY LenProperties
<1>2. DOMAIN t = 1 .. n + 1 /\ t[n + 1] = V[m] /\ \A x \in 1 .. n : t[x] = s[x]
  BY <1>1, AppendProperties
<1> HIDE DEF t, n
<1>3. PICK h \in [DOMAIN s -> J] :
        /\ \A x \in DOMAIN s : s[x] = V[h[x]]
        /\ \A x \in DOMAIN s, y \in DOMAIN s : h[x] = h[y] => x = y
        /\ \A j \in J : \E x \in DOMAIN s : h[x] = j
  BY DEF InPlaces
<1> DEFINE f == [x \in DOMAIN t |-> IF x \in DOMAIN s THEN h[x] ELSE m]
<1>4. \A x \in DOMAIN t : x \in DOMAIN s \/ x = n + 1
  BY <1>1, <1>2
<1>5. n + 1 \in DOMAIN t /\ n + 1 \notin DOMAIN s /\ DOMAIN s \subseteq DOMAIN t
  BY <1>1, <1>2
<1>6. \A x \in DOMAIN s : f[x] = h[x] /\ h[x] \in J /\ h[x] # m
  BY <1>3, <1>5
<1>7. f[n + 1] = m
  BY <1>5
<1>8. f \in [DOMAIN t -> J \cup {m}]
  BY <1>3
<1> HIDE DEF f
<1>9. \A x \in DOMAIN t : t[x] = V[f[x]]
  BY <1>1, <1>2, <1>3, <1>4, <1>6, <1>7
<1>10. \A x \in DOMAIN t, y \in DOMAIN t : f[x] = f[y] => x = y
  BY <1>3, <1>4, <1>6, <1>7
<1>11. \A j \in J \cup {m} : \E x \in DOMAIN t : f[x] = j
  BY <1>3, <1>5, <1>6, <1>7
<1>12. InPlaces(t, J \cup {m}, V)
  BY <1>8, <1>9, <1>10, <1>11 DEF InPlaces
<1>13. QED BY <1>12 DEF t

\* What such a loop makes has the values of V at the numbers that are not
\* skipped, one place for each.
LEMMA LoopsMakes ==
  ASSUME NEW n \in Nat, NEW Skip, NEW V, NEW g, Loops(g, n, Skip, V),
         NEW T, \A m \in (1 .. n) \ Skip : V[m] \in T
  PROVE  /\ g[n] \in Seq(T) /\ Len(g[n]) <= n
         /\ InPlaces(g[n], (1 .. n) \ Skip, V)
<1> DEFINE To(m) == (1 .. m) \ Skip
           Ok(m) == g[m] \in Seq(T) /\ Len(g[m]) <= m /\ InPlaces(g[m], To(m), V)
           Bad == {m \in Nat : m <= n /\ ~ Ok(m)}
<1>1. ASSUME NEW m \in Nat, m <= n
      PROVE  g[m] = IF m = 0 THEN <<>>
                    ELSE IF m \in Skip THEN g[m - 1]
                    ELSE Append(g[m - 1], V[m])
  <2>1. m \in 0 .. n
    BY <1>1
  <2>2. QED BY <2>1, Zenon DEF Loops
<1>2. ASSUME Bad # {} PROVE FALSE
  <2>1. PICK m \in Bad : \A k \in Bad : m <= k
    <3>1. Bad \subseteq Nat
      OBVIOUS
    <3>2. QED BY <1>2, <3>1, Least
  <2>2. m \in Nat /\ m <= n /\ ~ Ok(m)
    OBVIOUS
  <2>3. m # 0
    <3>1. ASSUME m = 0 PROVE FALSE
      <4>1. g[m] = <<>>
        BY <1>1, <2>2, <3>1
      <4>2. <<>> \in Seq(T) /\ Len(<<>>) = 0
        BY EmptySeq
      <4>3. DOMAIN <<>> = {} /\ To(m) = {}
        BY <3>1
      <4>4. InPlaces(<<>>, {}, V)
        <5>1. [x \in {} |-> 0] \in [DOMAIN <<>> -> {}]
          BY <4>3
        <5>2. QED BY <4>3, <5>1 DEF InPlaces
      <4>5. QED BY <2>2, <3>1, <4>1, <4>2, <4>3, <4>4
    <3>2. QED BY <3>1
  <2>4. m - 1 \in Nat /\ m - 1 <= n /\ m \in 1 .. n /\ ~ (m <= m - 1)
    BY <2>2, <2>3
  <2>5. Ok(m - 1)
    <3>1. m - 1 \notin Bad
      BY <2>1, <2>4
    <3>2. QED BY <2>4, <3>1
  <2>6. CASE m \in Skip
    <3>1. g[m] = g[m - 1]
      BY <1>1, <2>2, <2>3, <2>6
    <3>2. Len(g[m - 1]) \in Nat
      BY <2>5, LenProperties
    <3>3. To(m) = To(m - 1)
      BY <2>4, <2>6
    <3> HIDE DEF To
    <3>4. QED BY <2>2, <2>4, <2>5, <3>1, <3>2, <3>3
  <2>7. CASE m \notin Skip
    <3>1. g[m] = Append(g[m - 1], V[m]) /\ V[m] \in T
      BY <1>1, <2>2, <2>3, <2>4, <2>7
    <3>2. g[m] \in Seq(T) /\ Len(g[m]) = Len(g[m - 1]) + 1 /\ Len(g[m - 1]) \in Nat
      BY <2>5, <3>1, AppendProperties, LenProperties
    <3>3. To(m) = To(m - 1) \cup {m} /\ m \notin To(m - 1)
      BY <2>4, <2>7
    <3> HIDE DEF To
    <3>4. InPlaces(g[m], To(m), V)
      <4>1. InPlaces(g[m - 1], To(m - 1), V) /\ g[m - 1] \in Seq(T)
        BY <2>5
      <4>2. InPlaces(Append(g[m - 1], V[m]), To(m - 1) \cup {m}, V)
        BY <2>2, <3>1, <3>3, <4>1, PlacesAppend
      <4>3. QED BY <3>1, <3>3, <4>2
    <3>5. QED BY <2>2, <2>4, <2>5, <3>2, <3>4
  <2>8. QED BY <2>6, <2>7
<1>3. n \notin Bad
  BY <1>2
<1>4. QED BY <1>3

(***************************************************************************)
(* The order of keys.                                                      *)
(***************************************************************************)

\* Before orders keys strictly, and compares any two.
LEMMA BeforeOrder ==
  /\ \A k \in Key : ~ Before(k, k)
  /\ \A k, l \in Key : k # l => Before(k, l) \/ Before(l, k)
  /\ \A k, l \in Key : Before(k, l) => ~ Before(l, k) /\ k # l
  /\ \A k, l, m \in Key : Before(k, l) /\ Before(l, m) => Before(k, m)
<1>1. \A k \in Key : k \in [start : Int, id : Int, ts : Int]
  BY IteratorAssumption
<1>2. QED BY <1>1 DEF Before

\* A key between two versions of an event is a version of it.
LEMMA BetweenSame ==
  ASSUME NEW k \in Key, NEW l \in Key, NEW m \in Key,
         Before(k, l), Before(l, m), SameEvent(k, m)
  PROVE  SameEvent(k, l) /\ SameEvent(l, m) /\ l.ts < k.ts /\ m.ts < l.ts
<1>1. \A n \in Key : n \in [start : Int, id : Int, ts : Int]
  BY IteratorAssumption
<1>2. QED BY <1>1 DEF Before, SameEvent

\* The first key of a set that has any.
LEMMA FirstKey ==
  ASSUME NEW S \in SUBSET Key
  PROVE  IF S = {} THEN First(S) = None
         ELSE First(S) \in S /\ \A l \in S \ {First(S)} : Before(First(S), l)
<1>1. CASE S = {}
  BY <1>1 DEF First
<1>2. CASE S # {}
  <2> DEFINE R == {p \in S \X S : Before(p[1], p[2])}
  <2>1. IsFiniteSet(S)
    BY IteratorAssumption, FS_Subset
  <2>2. \A x, y \in S : <<x, y>> \in R <=> Before(x, y)
    OBVIOUS
  <2> HIDE DEF R
  <2>3. \A x, y \in S : x # y => <<x, y>> \in R \/ <<y, x>> \in R
    BY <2>2, BeforeOrder
  <2>4. \A x, y, z \in S : <<x, y>> \in R /\ <<y, z>> \in R => <<x, z>> \in R
    BY <2>2, BeforeOrder
  <2>5. \E x \in S : \A y \in S \ {x} : <<x, y>> \in R
    BY <1>2, <2>1, <2>3, <2>4, FirstOf
  <2>6. \E x \in S : \A y \in S \ {x} : Before(x, y)
    BY <2>2, <2>5
  <2>7. QED BY <1>2, <2>6 DEF First
<1>3. QED BY <1>1, <1>2

\* The last key of a set that has any.
LEMMA LastKey ==
  ASSUME NEW S \in SUBSET Key, S # {}
  PROVE  \E k \in S : \A l \in S \ {k} : Before(l, k)
<1> DEFINE R == {p \in S \X S : Before(p[2], p[1])}
<1>1. IsFiniteSet(S)
  BY IteratorAssumption, FS_Subset
<1>2. \A x, y \in S : <<x, y>> \in R <=> Before(y, x)
  OBVIOUS
<1> HIDE DEF R
<1>3. \A x, y \in S : x # y => <<x, y>> \in R \/ <<y, x>> \in R
  BY <1>2, BeforeOrder
<1>4. \A x, y, z \in S : <<x, y>> \in R /\ <<y, z>> \in R => <<x, z>> \in R
  BY <1>2, BeforeOrder
<1>5. \E x \in S : \A y \in S \ {x} : <<x, y>> \in R
  BY <1>1, <1>3, <1>4, FirstOf
<1>6. QED BY <1>2, <1>5

\* A sequence that lists the keys of S in order.
Lists(s, S) ==
  /\ s \in Seq(Key) /\ Len(s) = Cardinality(S)
  /\ Range(s) = S
  /\ \A i, j \in 1 .. Len(s) : i < j => Before(s[i], s[j])

\* A sequence without repetitions.
Distinct(s) == \A m, n \in DOMAIN s : m # n => s[m] # s[n]

LEMMA ListsAppend ==
  ASSUME NEW S \in SUBSET Key, NEW s, Lists(s, S), NEW k \in Key \ S,
         \A l \in S : Before(l, k)
  PROVE  Lists(Append(s, k), S \cup {k})
<1> DEFINE t == Append(s, k)
<1>1. /\ t \in Seq(Key) /\ Len(t) = Len(s) + 1 /\ Len(s) \in Nat
      /\ \A i \in 1 .. Len(s) : t[i] = s[i]
      /\ t[Len(s) + 1] = k
      /\ DOMAIN t = 1 .. Len(s) + 1 /\ DOMAIN s = 1 .. Len(s)
  BY AppendProperties, LenProperties DEF Lists
<1> HIDE DEF t
<1>2. Len(t) = Cardinality(S \cup {k})
  <2>1. IsFiniteSet(S)
    BY IteratorAssumption, FS_Subset
  <2>2. Cardinality(S \cup {k}) = Cardinality(S) + 1
    BY <2>1, FS_AddElement
  <2>3. QED BY <1>1, <2>2 DEF Lists
<1>3. \A i \in 1 .. Len(s) : s[i] \in S
  BY <1>1 DEF Lists, Range
<1>4. Range(t) = S \cup {k}
  <2>1. \A l \in S : \E i \in 1 .. Len(s) : s[i] = l
    BY <1>1 DEF Lists, Range
  <2>2. QED BY <1>1, <1>3, <2>1 DEF Range
<1>5. ASSUME NEW i \in 1 .. Len(t), NEW j \in 1 .. Len(t), i < j
      PROVE  Before(t[i], t[j])
  <2>1. i \in 1 .. Len(s)
    BY <1>1, <1>5
  <2>2. CASE j = Len(s) + 1
    BY <1>1, <1>3, <2>1, <2>2
  <2>3. CASE j # Len(s) + 1
    <3>1. j \in 1 .. Len(s)
      BY <1>1, <2>3
    <3>2. QED BY <1>1, <1>5, <2>1, <3>1 DEF Lists
  <2>4. QED BY <2>2, <2>3
<1>6. QED BY <1>1, <1>2, <1>4, <1>5 DEF Lists, t

\* There is one for every set.
LEMMA ListsExists ==
  ASSUME NEW S \in SUBSET Key
  PROVE  \E s : Lists(s, S)
<1> DEFINE Ok(T) == \E s : Lists(s, T)
           Bad == {T \in SUBSET S : ~ Ok(T)}
<1>1. \A T \in Bad : IsFiniteSet(T)
  BY IteratorAssumption, FS_Subset
<1>2. ASSUME Bad # {} PROVE FALSE
  <2>1. PICK T \in Bad : \A U \in Bad : Cardinality(T) <= Cardinality(U)
    BY <1>1, <1>2, Smallest
  <2>2. T \in SUBSET S /\ T \in SUBSET Key /\ ~ Ok(T) /\ IsFiniteSet(T)
    BY <1>1, <2>1
  <2>3. T # {}
    <3>1. Lists(<<>>, {})
      BY EmptySeq, FS_EmptySet DEF Lists, Range
    <3>2. QED BY <2>2, <3>1
  <2>4. PICK k \in T : \A l \in T \ {k} : Before(l, k)
    BY <2>2, <2>3, LastKey
  <2> DEFINE U == T \ {k}
  <2>5. Cardinality(U) = Cardinality(T) - 1 /\ Cardinality(T) \in Nat
    BY <2>2, FS_RemoveElement, FS_CardinalityType
  <2>6. U \notin Bad
    <3>1. ~ (Cardinality(T) <= Cardinality(U))
      BY <2>5
    <3>2. QED BY <2>1, <3>1
  <2>7. PICK s : Lists(s, U)
    BY <2>2, <2>6
  <2>8. Lists(Append(s, k), U \cup {k})
    BY <2>2, <2>4, <2>7, ListsAppend
  <2>9. U \cup {k} = T
    OBVIOUS
  <2>10. QED BY <2>2, <2>8, <2>9
<1>3. QED BY <1>2

\* The key list of a memtable lists its keys.
LEMMA KeyListLists ==
  ASSUME NEW S \in SUBSET Key
  PROVE  Lists(KeyList(S), S)
<1>1. PICK s : Lists(s, S)
  BY ListsExists
<1> DEFINE n == Len(s)
           Rank(k) == Cardinality({l \in S : Before(l, k)})
<1>2. /\ DOMAIN s = 1 .. n /\ n \in Nat /\ n = Cardinality(S)
      /\ \A i \in 1 .. n : s[i] \in S /\ s[i] \in Key
      /\ \A l \in S : \E i \in 1 .. n : s[i] = l
      /\ \A i, j \in 1 .. n : i < j => Before(s[i], s[j])
  BY <1>1, LenProperties DEF Lists, Range
<1> HIDE DEF n
<1>3. \A i, j \in 1 .. n : Before(s[j], s[i]) <=> j < i
  <2>1. ASSUME NEW i \in 1 .. n, NEW j \in 1 .. n, Before(s[j], s[i]), ~ (j < i)
        PROVE  FALSE
    <3>1. i = j \/ i < j
      BY <2>1
    <3>2. QED BY <1>2, <2>1, <3>1, BeforeOrder
  <2>2. QED BY <1>2, <2>1
<1>4. ASSUME NEW i \in 1 .. n PROVE Rank(s[i]) = i - 1
  <2> DEFINE T == {l \in S : Before(l, s[i])}
             f == [j \in 1 .. i - 1 |-> s[j]]
  <2>1. i \in Nat /\ \A j \in 1 .. i - 1 : j \in 1 .. n /\ j < i
    BY <1>2
  <2>2. f \in [1 .. i - 1 -> T]
    BY <1>2, <1>3, <2>1
  <2>3. \A l \in T : \E j \in 1 .. i - 1 : f[j] = l
    <3>1. ASSUME NEW l \in T PROVE \E j \in 1 .. i - 1 : f[j] = l
      <4>1. PICK j \in 1 .. n : s[j] = l
        BY <1>2
      <4>2. j < i
        BY <1>3, <4>1
      <4>3. j \in 1 .. i - 1
        BY <4>2
      <4>4. QED BY <4>1, <4>3
    <3>2. QED BY <3>1
  <2>4. \A j, k \in 1 .. i - 1 : f[j] = f[k] => j = k
    <3>1. ASSUME NEW j \in 1 .. i - 1, NEW k \in 1 .. i - 1, f[j] = f[k], j # k
          PROVE  FALSE
      <4>1. s[j] = s[k] /\ (j < k \/ k < j) /\ j \in 1 .. n /\ k \in 1 .. n
        BY <2>1, <3>1
      <4>2. QED BY <1>2, <4>1, BeforeOrder
    <3>2. QED BY <3>1
  <2> HIDE DEF T, f
  <2>5. f \in Bijection(1 .. i - 1, T)
    BY <2>2, <2>3, <2>4 DEF Bijection, Injection, Surjection, IsInjective
  <2>6. IsFiniteSet(1 .. i - 1) /\ Cardinality(1 .. i - 1) = i - 1
    <3>1. i - 1 \in Int /\ 1 \in Int /\ i - 1 >= 0
      BY <2>1
    <3>2. QED BY <3>1, FS_Interval
  <2>7. Cardinality(T) = i - 1
    BY <2>5, <2>6, FS_Bijection DEF ExistsBijection
  <2>8. QED BY <2>7 DEF T
<1> HIDE DEF Rank
<1>5. ASSUME NEW i \in 1 .. n
      PROVE  (CHOOSE k \in S : Rank(k) = i - 1) = s[i]
  <2>1. \E k \in S : Rank(k) = i - 1
    BY <1>2, <1>4
  <2> DEFINE c == CHOOSE k \in S : Rank(k) = i - 1
  <2>2. c \in S /\ Rank(c) = i - 1
    BY <2>1
  <2> HIDE DEF c
  <2>3. PICK j \in 1 .. n : s[j] = c
    BY <1>2, <2>2
  <2>4. j - 1 = i - 1
    BY <1>4, <2>2, <2>3
  <2>5. i = j
    BY <2>4
  <2>6. QED BY <2>3, <2>5 DEF c
<1>6. KeyList(S) = [i \in 1 .. n |-> s[i]]
  <2>1. KeyList(S) = [i \in 1 .. n |-> CHOOSE k \in S : Rank(k) = i - 1]
    BY <1>2 DEF KeyList, Rank
  <2>2. QED BY <1>5, <2>1
<1>7. KeyList(S) = s
  <2>1. s = [i \in 1 .. n |-> s[i]]
    BY <1>1, <1>2 DEF Lists
  <2>2. QED BY <1>6, <2>1
<1>8. QED BY <1>1, <1>7

(***************************************************************************)
(* The invariant of the iteration.                                         *)
(***************************************************************************)

\* The keys of a source.
Holds(s) == IF s = 0 THEN mt ELSE Range(keys[s])

\* Those that it may return.
Offers(s) ==
  {k \in Holds(s) : k.ts <= ReadTs /\ k \in IF s = 0 THEN filter.match ELSE filter.posting}

\* The variables have their types, and every iterator that is not at its end is
\* at a key that it may return, and knows where it goes next.
Cursors ==
  /\ mt \subseteq Key /\ coming \subseteq Key /\ late \subseteq mt
  /\ keys \in [Index -> Seq(Key)] /\ filter \in Filters
  /\ mit \in [cur : Key \cup {None}, next : Key \cup {None}, end : BOOLEAN]
  /\ iit \in [Index -> [row : Nat, nextIdx : Nat, end : BOOLEAN]]
  /\ pc \in {"init", "next", "end"} /\ emitted \in Seq(Key)
  /\ \A i \in Index : iit[i].nextIdx = Advance(i, iit[i].row)
  /\ pc = "init" =>
       /\ emitted = <<>> /\ mit = [cur |-> None, next |-> None, end |-> FALSE]
       /\ \A i \in Index : iit[i] = NewIndexIterator(i)
  /\ pc # "init" =>
       /\ \A i \in Index : ~ iit[i].end => iit[i].row \in DOMAIN keys[i]
       /\ \A s \in Source : Valid(s) => Value(s) \in Offers(s)
       /\ ~ mit.end /\ mit.next # None => Before(mit.cur, mit.next)
  /\ pc = "end" => \A s \in Source : ~ Valid(s)

\* No key is in two sources, or in one and on its way to the memtable.
Places ==
  /\ \A s, u \in Source : s # u => Holds(s) \cap Holds(u) = {}
  /\ \A s \in Source : Holds(s) \cap coming = {}

\* What was returned is in some source and was offered by it.
Given == \A e \in Range(emitted) : e.ts <= ReadTs /\ \E s \in Source : e \in Holds(s)

\* Of sorted sources keys are returned in order, and every source is at a key
\* after all of them, of another event than those that it holds.
Ordered ==
  Sorted =>
    /\ \A n, m \in DOMAIN emitted : n < m => Before(emitted[n], emitted[m])
    /\ \A s \in Source : Valid(s) =>
         \A e \in Range(emitted) :
           /\ Before(e, Value(s))
           /\ e \in Holds(s) => ~ SameEvent(e, Value(s))

Walk == Cursors /\ Places /\ Given /\ Ordered /\ OnePerSource

(***************************************************************************)
(* Steps of one iterator.                                                  *)
(***************************************************************************)

\* The least of some rows, 0 if there are none.
LEMMA LeastRow ==
  ASSUME NEW T \in SUBSET Nat
  PROVE  (IF T = {} THEN 0 ELSE Min(T)) \in Nat
<1>1. CASE T = {}
  BY <1>1
<1>2. CASE T # {}
  <2>1. \E x \in T : \A y \in T : x <= y
    BY <1>2, Least
  <2>2. QED BY <1>2, <2>1 DEF Min
<1>3. QED BY <1>1, <1>2

\* Where an IndexIterator goes: to the next row that it may return, of another
\* id than the one it is at.
LEMMA AdvanceRow ==
  ASSUME keys \in [Index -> Seq(Key)], NEW i \in Index, NEW r \in Nat
  PROVE  LET a == Advance(i, r)
             may(q) == /\ q > r /\ keys[i][q] \in filter.posting
                       /\ keys[i][q].ts <= ReadTs
                       /\ r > 0 => keys[i][q].id # keys[i][r].id
         IN /\ a \in Nat
            /\ a # 0 => a \in DOMAIN keys[i] /\ may(a)
            /\ \A q \in DOMAIN keys[i] : may(q) => a # 0 /\ a <= q
<1> DEFINE may(q) == /\ q > r /\ keys[i][q] \in filter.posting
                     /\ keys[i][q].ts <= ReadTs
                     /\ r > 0 => keys[i][q].id # keys[i][r].id
           rows == {q \in DOMAIN keys[i] : may(q)}
           a == Advance(i, r)
<1>1. rows \subseteq Nat /\ \A q \in rows : q # 0
  BY LenProperties
<1>2. a = IF rows = {} THEN 0 ELSE Min(rows)
  BY DEF Advance
<1>3. CASE rows = {}
  BY <1>2, <1>3
<1>4. CASE rows # {}
  <2>1. \E x \in rows : \A y \in rows : x <= y
    BY <1>1, <1>4, Least
  <2>2. Min(rows) = CHOOSE x \in rows : \A y \in rows : x <= y
    BY DEF Min
  <2> HIDE DEF rows, a
  <2>3. a \in rows /\ \A y \in rows : a <= y
    BY <1>2, <1>4, <2>1, <2>2
  <2> USE DEF rows, a
  <2>4. QED BY <1>1, <2>3
<1>5. QED BY <1>3, <1>4

LEMMA IndexMoves ==
  ASSUME Cursors, NEW i \in Index
  PROVE  LET n == IndexNext(i)
         IN /\ n \in [row : Nat, nextIdx : Nat, end : BOOLEAN]
            /\ n.nextIdx = Advance(i, n.row)
            /\ ~ n.end =>
                 /\ ~ iit[i].end /\ n.row = iit[i].nextIdx
                 /\ n.row \in DOMAIN keys[i] /\ n.row > iit[i].row
                 /\ keys[i][n.row] \in filter.posting /\ keys[i][n.row].ts <= ReadTs
                 /\ iit[i].row > 0 => keys[i][n.row].id # keys[i][iit[i].row].id
<1> DEFINE r == iit[i].row
           x == iit[i].nextIdx
<1>1. /\ iit[i] \in [row : Nat, nextIdx : Nat, end : BOOLEAN]
      /\ x = Advance(i, r) /\ r \in Nat /\ x \in Nat
      /\ keys \in [Index -> Seq(Key)]
  BY DEF Cursors
<1>2. CASE iit[i].end \/ x = 0
  BY <1>1, <1>2 DEF IndexNext
<1>3. CASE ~ (iit[i].end \/ x = 0)
  <2>1. IndexNext(i) = [row |-> x, nextIdx |-> Advance(i, x), end |-> FALSE]
    BY <1>3 DEF IndexNext
  <2>2. Advance(i, x) \in Nat
    BY <1>1, AdvanceRow
  <2>3. /\ x \in DOMAIN keys[i] /\ x > r
        /\ keys[i][x] \in filter.posting /\ keys[i][x].ts <= ReadTs
        /\ r > 0 => keys[i][x].id # keys[i][r].id
    BY <1>1, <1>3, AdvanceRow
  <2> HIDE DEF x, r
  <2>4. QED BY <1>1, <1>3, <2>1, <2>2, <2>3 DEF x, r
<1>4. QED BY <1>2, <1>3

LEMMA MemMoves ==
  ASSUME Cursors
  PROVE  LET m == MemNext
         IN /\ m \in [cur : Key \cup {None}, next : Key \cup {None}, end : BOOLEAN]
            /\ ~ m.end =>
                 /\ ~ mit.end /\ m.cur \in mt \cap filter.match /\ m.cur.ts <= ReadTs
                 /\ ~ Shadowed(m.cur) /\ m.next = Succ(m.cur)
                 /\ pc # "init" => Before(mit.cur, m.cur)
<1> DEFINE from == IF mit.cur = None /\ mit.next = None THEN First(mt) ELSE mit.next
           S == {k \in mt \cap filter.match :
                   /\ from # None /\ (k = from \/ Before(from, k))
                   /\ k.ts <= ReadTs /\ ~Shadowed(k)}
           hit == First(S)
           m == MemNext
<1>1. /\ mit \in [cur : Key \cup {None}, next : Key \cup {None}, end : BOOLEAN]
      /\ mt \subseteq Key /\ None \notin Key
  BY IteratorAssumption DEF Cursors
<1>2. m = IF mit.end THEN mit
          ELSE IF from = None THEN [mit EXCEPT !.end = TRUE]
          ELSE Found(hit)
  BY DEF MemNext
<1>3. S \in SUBSET Key /\ S \subseteq mt
  BY <1>1
<1>4. IF S = {} THEN hit = None ELSE hit \in S
  BY <1>3, FirstKey
<1>5. CASE mit.end \/ from = None
  <2> HIDE DEF from, m
  <2>1. m \in [cur : Key \cup {None}, next : Key \cup {None}, end : BOOLEAN] /\ m.end
    BY <1>1, <1>2, <1>5
  <2>2. QED BY <2>1 DEF m
<1>6. CASE ~ mit.end /\ from # None
  <2>1. m = [cur |-> hit, next |-> IF hit = None THEN None ELSE Succ(hit),
             end |-> hit = None]
    BY <1>2, <1>6 DEF Found
  <2>2. CASE hit = None
    <3> HIDE DEF hit, m
    <3>1. m = [cur |-> None, next |-> None, end |-> TRUE]
      BY <2>1, <2>2
    <3>2. QED BY <3>1 DEF m
  <2>3. CASE hit # None
    <3>1. hit \in S /\ hit \in Key
      BY <1>3, <1>4, <2>3
    <3>2. Succ(hit) \in Key \cup {None}
      <4>1. {l \in mt : Before(hit, l)} \in SUBSET Key
        BY <1>1
      <4>2. QED BY <4>1, FirstKey DEF Succ
    <3>3. pc # "init" => Before(mit.cur, hit)
      <4>1. ASSUME pc # "init" PROVE Before(mit.cur, hit)
        <5>1. /\ mit.cur \in Key
              /\ mit.next # None => Before(mit.cur, mit.next)
          <6>1. 0 \in Source /\ Valid(0)
            BY <1>6, IteratorAssumption DEF Source, Valid
          <6>2. Value(0) \in Offers(0)
            BY <4>1, <6>1 DEF Cursors
          <6>3. mit.cur \in Key
            BY <1>1, <6>2 DEF Value, Offers, Holds
          <6>4. QED BY <1>6, <4>1, <6>3 DEF Cursors
        <5>2. from = mit.next /\ mit.next \in Key
          BY <1>1, <1>6, <5>1
        <5>3. hit = from \/ Before(from, hit)
          BY <3>1
        <5> HIDE DEF hit, from
        <5>4. QED BY <3>1, <5>1, <5>2, <5>3, <1>6, BeforeOrder
      <4>2. QED BY <4>1
    <3>4. hit \in mt \cap filter.match /\ hit.ts <= ReadTs /\ ~ Shadowed(hit)
      BY <3>1
    <3> HIDE DEF hit, m
    <3>5. m = [cur |-> hit, next |-> Succ(hit), end |-> FALSE]
      BY <2>1, <2>3
    <3>6. QED BY <1>6, <3>1, <3>2, <3>3, <3>4, <3>5 DEF m
  <2>4. QED BY <2>2, <2>3
<1>7. QED BY <1>5, <1>6

\* The key list of a sorted index is in order throughout.
LEMMA SortedPairs ==
  ASSUME keys \in [Index -> Seq(Key)], Sorted, NEW i \in Index,
         NEW q \in DOMAIN keys[i], NEW r \in DOMAIN keys[i], q < r
  PROVE  Before(keys[i][q], keys[i][r])
<1> DEFINE n == Len(keys[i])
           Bad == {t \in Nat : t \in q + 1 .. n /\ ~ Before(keys[i][q], keys[i][t])}
<1>1. /\ DOMAIN keys[i] = 1 .. n /\ n \in Nat /\ q \in Nat
      /\ \A t \in 1 .. n : keys[i][t] \in Key
  BY LenProperties
<1> HIDE DEF n
<1>2. ASSUME Bad # {} PROVE FALSE
  <2>1. PICK t \in Bad : \A u \in Bad : t <= u
    <3>1. Bad \subseteq Nat
      OBVIOUS
    <3>2. QED BY <1>2, <3>1, Least
  <2>2. \A u \in 1 .. n - 1 : Before(keys[i][u], keys[i][u + 1])
    BY DEF Sorted, n
  <2>3. CASE t = q + 1
    <3>1. q \in 1 .. n - 1
      BY <1>1, <2>3
    <3>2. QED BY <2>2, <2>3, <3>1
  <2>4. CASE t # q + 1
    <3>1. /\ t - 1 \in q + 1 .. n /\ t - 1 \in Nat /\ t - 1 \in 1 .. n - 1
          /\ (t - 1) + 1 = t /\ t \in 1 .. n /\ ~ (t <= t - 1)
      BY <1>1, <2>4
    <3>2. Before(keys[i][q], keys[i][t - 1])
      <4>1. t - 1 \notin Bad
        BY <2>1, <3>1
      <4>2. QED BY <3>1, <4>1
    <3>3. Before(keys[i][t - 1], keys[i][t])
      BY <2>2, <3>1
    <3>4. keys[i][q] \in Key /\ keys[i][t - 1] \in Key /\ keys[i][t] \in Key
      BY <1>1, <3>1
    <3>5. Before(keys[i][q], keys[i][t])
      BY <3>2, <3>3, <3>4, BeforeOrder
    <3>6. QED BY <3>5
  <2>5. QED BY <2>3, <2>4
<1>3. r \in q + 1 .. n /\ r \in Nat
  BY <1>1
<1>4. QED BY <1>2, <1>3

\* A step of the iterators of S.  Those that are not at their end keep their
\* key, or go to a later one of another event than what they hold of it.
LEMMA StepMoves ==
  ASSUME Cursors, NEW S \in SUBSET Source, Step(S), pc = "init" => S = Source,
         UNCHANGED <<mt, coming, late, keys, filter>>,
         pc # "end", pc' = "next", emitted' \in Seq(Key)
  PROVE  /\ Cursors'
         /\ \A s \in Source : Valid(s)' =>
              /\ Valid(s)
              /\ s \notin S => Value(s)' = Value(s)
              /\ s \in S /\ pc # "init" /\ (s = 0 \/ Sorted) =>
                   /\ Before(Value(s), Value(s)')
                   /\ Sorted => \A k \in Holds(s) :
                        k.ts <= ReadTs /\ (k = Value(s) \/ Before(k, Value(s)))
                          => ~ SameEvent(k, Value(s)')
<1>1. /\ \A i \in Index : i \in Source /\ i # 0 /\ i \in Int
      /\ 0 \in Source /\ 0 \notin Index /\ Source = {0} \cup Index
  BY IteratorAssumption DEF Index, Source
<1>2. /\ mit' = IF 0 \in S THEN MemNext ELSE mit
      /\ iit' = [i \in Index |-> IF i \in S THEN IndexNext(i) ELSE iit[i]]
  BY DEF Step
<1>3. /\ keys \in [Index -> Seq(Key)] /\ keys' = keys /\ filter' = filter /\ mt' = mt
      /\ mt \subseteq Key
  BY DEF Cursors
<1>5. \A s : Holds(s)' = Holds(s) /\ Offers(s)' = Offers(s)
  BY <1>3 DEF Holds, Offers
<1>6. ASSUME NEW i \in Index
      PROVE  /\ iit'[i] \in [row : Nat, nextIdx : Nat, end : BOOLEAN]
             /\ iit'[i].nextIdx = Advance(i, iit'[i].row)
             /\ ~ iit'[i].end =>
                  /\ ~ iit[i].end /\ iit'[i].row \in DOMAIN keys[i]
                  /\ keys[i][iit'[i].row] \in Offers(i)
                  /\ i \notin S => iit'[i].row = iit[i].row
                  /\ i \in S => /\ iit'[i].row > iit[i].row
                                /\ iit[i].row > 0 =>
                                     keys[i][iit'[i].row].id # keys[i][iit[i].row].id
  <2>1. CASE i \in S
    <3>1. iit'[i] = IndexNext(i)
      BY <1>2, <2>1
    <3>2. \A q \in DOMAIN keys[i] : keys[i][q] \in Holds(i)
      BY <1>1 DEF Holds, Range
    <3>3. QED BY <1>1, <2>1, <3>1, <3>2, IndexMoves DEF Offers
  <2>2. CASE i \notin S
    <3>1. iit'[i] = iit[i] /\ pc # "init"
      BY <1>1, <1>2, <2>2
    <3>2. /\ ~ iit[i].end => Valid(i) /\ Value(i) = keys[i][iit[i].row]
      BY <1>1 DEF Valid, Value
    <3>3. QED BY <1>1, <2>2, <3>1, <3>2 DEF Cursors
  <2>3. QED BY <2>1, <2>2
<1>7. /\ mit' \in [cur : Key \cup {None}, next : Key \cup {None}, end : BOOLEAN]
      /\ ~ mit'.end =>
           /\ ~ mit.end /\ mit'.cur \in Offers(0)
           /\ mit'.next # None => Before(mit'.cur, mit'.next)
           /\ 0 \notin S => mit'.cur = mit.cur
           /\ 0 \in S => /\ ~ Shadowed(mit'.cur)
                         /\ pc # "init" => Before(mit.cur, mit'.cur)
  <2>1. CASE 0 \in S
    <3> DEFINE m == MemNext
    <3>1. mit' = m
      BY <1>2, <2>1
    <3>2. /\ m \in [cur : Key \cup {None}, next : Key \cup {None}, end : BOOLEAN]
          /\ ~ m.end =>
               /\ ~ mit.end /\ m.cur \in mt \cap filter.match /\ m.cur.ts <= ReadTs
               /\ ~ Shadowed(m.cur) /\ m.next = Succ(m.cur)
               /\ pc # "init" => Before(mit.cur, m.cur)
      BY MemMoves
    <3> HIDE DEF m
    <3>3. ~ m.end /\ m.next # None => Before(m.cur, m.next)
      <4>1. ASSUME ~ m.end, m.next # None PROVE Before(m.cur, m.next)
        <5>1. {l \in mt : Before(m.cur, l)} \in SUBSET Key
          BY <1>3
        <5>2. m.next \in {l \in mt : Before(m.cur, l)}
          BY <3>2, <4>1, <5>1, FirstKey DEF Succ
        <5>3. QED BY <5>2
      <4>2. QED BY <4>1
    <3>4. QED BY <2>1, <3>1, <3>2, <3>3 DEF Offers, Holds
  <2>2. CASE 0 \notin S
    <3>1. mit' = mit /\ pc # "init"
      BY <1>1, <1>2, <2>2
    <3>2. ~ mit.end => Valid(0) /\ Value(0) = mit.cur
      BY DEF Valid, Value
    <3>3. QED BY <1>1, <2>2, <3>1, <3>2 DEF Cursors
  <2>3. QED BY <2>1, <2>2
<1>8. Cursors'
  <2>1. \A s \in Source : Valid(s)' => Value(s)' \in Offers(s)
    BY <1>1, <1>3, <1>6, <1>7 DEF Valid, Value
  <2>2. iit' \in [Index -> [row : Nat, nextIdx : Nat, end : BOOLEAN]]
    BY <1>2, <1>6
  <2>3. (\A i \in Index : iit[i].nextIdx = Advance(i, iit[i].row))'
    <3>1. \A i, r : Advance(i, r)' = Advance(i, r)
      BY <1>3 DEF Advance
    <3>2. QED BY <1>6, <3>1
  <2>4. \A i \in Index : ~ iit'[i].end => iit'[i].row \in DOMAIN keys'[i]
    BY <1>3, <1>6
  <2>5. \A s \in Source : Valid(s)' => Value(s)' \in Offers(s)'
    BY <1>5, <2>1
  <2>6. /\ mt' \subseteq Key /\ coming' \subseteq Key /\ late' \subseteq mt'
        /\ keys' \in [Index -> Seq(Key)] /\ filter' \in Filters
        /\ pc' = "next" /\ emitted' \in Seq(Key)
    BY DEF Cursors
  <2>7. QED BY <1>7, <2>2, <2>3, <2>4, <2>5, <2>6 DEF Cursors
<1>9. ASSUME NEW i \in Index, Valid(i)', i \in S, pc # "init", Sorted
      PROVE  /\ Before(Value(i), Value(i)')
             /\ \A k \in Holds(i) : k = Value(i) \/ Before(k, Value(i))
                                      => ~ SameEvent(k, Value(i)')
  <2> DEFINE r == iit[i].row
             x == iit'[i].row
  <2>1. Value(i) = keys[i][r] /\ Value(i)' = keys[i][x] /\ ~ iit'[i].end
    BY <1>1, <1>3, <1>9 DEF Value, Valid
  <2>2. /\ r \in DOMAIN keys[i] /\ x \in DOMAIN keys[i] /\ r < x /\ r > 0
        /\ keys[i][x].id # keys[i][r].id
    <3>1. ~ iit[i].end /\ x \in DOMAIN keys[i] /\ x > r
      BY <1>6, <1>9, <2>1
    <3>2. r \in DOMAIN keys[i] /\ r \in Nat
      BY <1>9, <3>1 DEF Cursors
    <3>3. DOMAIN keys[i] = 1 .. Len(keys[i]) /\ Len(keys[i]) \in Nat
      BY <1>3, LenProperties
    <3> HIDE DEF r, x
    <3>4. r > 0 /\ r < x
      BY <3>1, <3>2, <3>3
    <3> USE DEF r, x
    <3>5. QED BY <1>6, <1>9, <2>1, <3>1, <3>2, <3>4
  <2>3. Before(keys[i][r], keys[i][x])
    BY <1>3, <1>9, <2>2, SortedPairs
  <2>4. /\ keys[i][r] \in Key /\ keys[i][x] \in Key
        /\ \A k \in Holds(i) : k \in Key
    BY <1>1, <1>3, <2>2, LenProperties DEF Holds, Range
  <2> HIDE DEF r, x
  <2>5. ASSUME NEW k \in Holds(i), k = keys[i][r] \/ Before(k, keys[i][r]),
               SameEvent(k, keys[i][x])
        PROVE  FALSE
    <3>1. CASE k = keys[i][r]
      BY <2>2, <2>5, <3>1 DEF SameEvent
    <3>2. CASE Before(k, keys[i][r])
      <4>1. SameEvent(keys[i][r], keys[i][x])
        BY <2>3, <2>4, <2>5, <3>2, BetweenSame
      <4>2. QED BY <2>2, <4>1 DEF SameEvent
    <3>3. QED BY <2>5, <3>1, <3>2
  <2>6. QED BY <2>1, <2>3, <2>5
<1>10. ASSUME Valid(0)', 0 \in S, pc # "init"
       PROVE  /\ Before(Value(0), Value(0)')
              /\ \A k \in Holds(0) :
                   k.ts <= ReadTs /\ (k = Value(0) \/ Before(k, Value(0)))
                     => ~ SameEvent(k, Value(0)')
  <2> DEFINE v == Value(0)
             w == mit'.cur
  <2>1. /\ Value(0)' = w /\ ~ mit'.end /\ v = mit.cur
        /\ w \in Key /\ ~ Shadowed(w) /\ Before(v, w) /\ w \in mt
    BY <1>3, <1>7, <1>10 DEF Value, Valid, Offers, Holds
  <2>2. v \in Key
    <3>1. Valid(0)
      BY <1>7, <2>1 DEF Valid
    <3>2. QED BY <1>1, <1>3, <1>10, <3>1 DEF Cursors, Offers, Holds
  <2> HIDE DEF v, w
  <2>3. ASSUME NEW k \in mt, k.ts <= ReadTs, k = v \/ Before(k, v), SameEvent(k, w)
        PROVE  FALSE
    <3>1. k \in Key /\ Before(k, w)
      BY <1>3, <2>1, <2>2, <2>3, BeforeOrder
    <3> DEFINE T == {l \in mt : Before(l, w)}
    <3>2. T \in SUBSET Key /\ k \in T
      BY <1>3, <3>1
    <3>3. PICK l \in T : \A m \in T \ {l} : Before(m, l)
      BY <3>2, LastKey
    <3>4. l \in mt /\ l \in Key /\ Before(l, w)
      BY <1>3
    <3>5. Succ(l) = w
      <4> DEFINE U == {m \in mt : Before(l, m)}
      <4>1. U \in SUBSET Key /\ w \in U
        BY <1>3, <2>1, <3>4
      <4>2. First(U) \in U /\ \A m \in U \ {First(U)} : Before(First(U), m)
        BY <4>1, FirstKey
      <4>3. ASSUME First(U) # w PROVE FALSE
        <5> DEFINE f == First(U)
        <5>1. Before(f, w) /\ f \in mt /\ f \in Key /\ Before(l, f)
          BY <1>3, <4>1, <4>2, <4>3
        <5> HIDE DEF f
        <5>2. f \in T /\ f # l
          BY <3>4, <5>1, BeforeOrder
        <5>3. Before(f, l)
          BY <3>3, <5>2
        <5>4. QED BY <3>4, <5>1, <5>3, BeforeOrder
      <4>4. QED BY <4>3 DEF Succ
    <3>6. l.id = w.id /\ l.ts <= ReadTs
      <4>1. CASE l = k
        BY <2>3, <4>1 DEF SameEvent
      <4>2. CASE l # k
        <5>1. Before(k, l)
          BY <3>2, <3>3, <4>2
        <5>2. SameEvent(l, w) /\ l.ts < k.ts
          BY <2>1, <2>3, <3>1, <3>4, <5>1, BetweenSame
        <5>3. l.ts \in Int /\ k.ts \in Int /\ ReadTs \in Int
          BY <3>1, <3>4, IteratorAssumption
        <5>4. QED BY <2>3, <5>2, <5>3 DEF SameEvent
      <4>3. QED BY <4>1, <4>2
    <3>7. Shadowed(w)
      BY <3>4, <3>5, <3>6 DEF Shadowed
    <3>8. QED BY <2>1, <3>7
  <2>4. Before(v, Value(0)')
    BY <2>1
  <2>5. \A k \in mt : k.ts <= ReadTs /\ (k = v \/ Before(k, v)) => ~ SameEvent(k, w)
    BY <2>3
  <2>6. QED BY <2>1, <2>4, <2>5 DEF v, Holds
<1>11. ASSUME NEW s \in Source, Valid(s)'
       PROVE  Valid(s) /\ (s \notin S => Value(s)' = Value(s))
  <2>1. CASE s = 0
    BY <1>7, <1>11, <2>1 DEF Valid, Value
  <2>2. CASE s \in Index
    BY <1>1, <1>3, <1>6, <1>11, <2>2 DEF Valid, Value
  <2>3. QED BY <1>1, <2>1, <2>2
<1>12. QED BY <1>1, <1>8, <1>9, <1>10, <1>11

\* minIndex: the first key, of equal ones the earliest source.
LEMMA MinIndexIs ==
  ASSUME Cursors, pc # "init", NEW S \in SUBSET Source, S # {}, \A s \in S : Valid(s)
  PROVE  /\ MinIndex(S) \in S
         /\ \A u \in S \ {MinIndex(S)} :
              \/ Before(Value(MinIndex(S)), Value(u))
              \/ Value(u) = Value(MinIndex(S)) /\ MinIndex(S) < u
<1> DEFINE ahead(s, u) == \/ Before(Value(s), Value(u))
                          \/ ~Before(Value(u), Value(s)) /\ s < u
           R == {p \in S \X S : ahead(p[1], p[2])}
<1>1. /\ IsFiniteSet(S) /\ \A s \in S : s \in Int
      /\ \A s \in S : Value(s) \in Key
  <2>1. IsFiniteSet(Source) /\ \A s \in Source : s \in Int
    BY FS_Interval, IteratorAssumption DEF Source
  <2>2. \A s \in Source : Offers(s) \subseteq Key
    BY LenProperties DEF Offers, Holds, Cursors, Range, Source, Index
  <2>3. QED BY <2>1, <2>2, FS_Subset DEF Cursors
<1>2. \A x, y \in S : <<x, y>> \in R <=> ahead(x, y)
  OBVIOUS
<1>3. \A x, y \in S : x # y => ahead(x, y) \/ ahead(y, x)
  BY <1>1
<1>4. ASSUME NEW x \in S, NEW y \in S, NEW z \in S, ahead(x, y), ahead(y, z)
      PROVE  ahead(x, z)
  <2>1. /\ Before(Value(x), Value(y)) \/ (Value(x) = Value(y) /\ x < y)
        /\ Before(Value(y), Value(z)) \/ (Value(y) = Value(z) /\ y < z)
    BY <1>1, <1>4, BeforeOrder
  <2>2. Before(Value(x), Value(z)) \/ (Value(x) = Value(z) /\ x < z)
    BY <1>1, <2>1, BeforeOrder
  <2>3. QED BY <1>1, <2>2, BeforeOrder
<1> HIDE DEF R
<1>5. \E x \in S : \A y \in S \ {x} : ahead(x, y)
  <2> HIDE DEF ahead
  <2>1. \E x \in S : \A y \in S \ {x} : <<x, y>> \in R
    BY <1>1, <1>2, <1>3, <1>4, FirstOf
  <2>2. QED BY <1>2, <2>1
<1>6. MinIndex(S) = CHOOSE s \in S : \A u \in S \ {s} : ahead(s, u)
  BY DEF MinIndex
<1>7. MinIndex(S) \in S /\ \A u \in S \ {MinIndex(S)} : ahead(MinIndex(S), u)
  <2> HIDE DEF ahead
  <2>1. QED BY <1>5, <1>6
<1>8. QED BY <1>1, <1>7, BeforeOrder

\* What Emit returns, and where it leaves the sources.
LEMMA Emits ==
  ASSUME Cursors, Emit
  PROVE  \E m \in Source :
           /\ Valid(m) /\ Value(m) \in Offers(m) /\ Value(m) \in Key
           /\ emitted' = Append(emitted, Value(m))
           /\ pc = "next" /\ UNCHANGED <<mt, coming, late, keys, filter, pc>>
           /\ Cursors'
           /\ \A u \in Source : Valid(u)' =>
                /\ Valid(u) /\ Value(u) \in Key /\ Value(u)' \in Key
                /\ Value(u) = Value(m) \/ Before(Value(m), Value(u))
                /\ \/ Value(u)' = Value(u) /\ u # m /\ Value(u) # Value(m)
                   \/ /\ u = 0 \/ Sorted => Before(Value(u), Value(u)')
                      /\ Sorted => \A k \in Holds(u) :
                           k.ts <= ReadTs /\ (k = Value(u) \/ Before(k, Value(u)))
                             => ~ SameEvent(k, Value(u)')
<1> DEFINE valid == {s \in Source : Valid(s)}
           m == MinIndex(valid)
           S == {m} \cup {s \in Source : Passed(s)}
<1>1. /\ pc = "next" /\ valid # {} /\ emitted' = Append(emitted, Value(m)) /\ Step(S)
      /\ UNCHANGED <<mt, coming, late, keys, filter, pc>>
  BY DEF Emit
<1>2. \A s \in Source : Offers(s) \subseteq Key
  BY LenProperties DEF Offers, Holds, Cursors, Range, Source, Index
<1>3. /\ m \in valid
      /\ \A u \in valid \ {m} :
           \/ Before(Value(m), Value(u))
           \/ Value(u) = Value(m) /\ m < u
  BY <1>1, MinIndexIs
<1>4. /\ m \in Source /\ Valid(m) /\ S \in SUBSET Source
      /\ Value(m) \in Offers(m) /\ Value(m) \in Key
  BY <1>1, <1>2, <1>3 DEF Cursors
<1>5. emitted' \in Seq(Key)
  BY <1>1, <1>4, AppendProperties DEF Cursors
<1> HIDE DEF m, S, valid
<1>6. /\ Cursors'
      /\ \A s \in Source : Valid(s)' =>
           /\ Valid(s)
           /\ s \notin S => Value(s)' = Value(s)
           /\ s \in S /\ pc # "init" /\ (s = 0 \/ Sorted) =>
                /\ Before(Value(s), Value(s)')
                /\ Sorted => \A k \in Holds(s) :
                     k.ts <= ReadTs /\ (k = Value(s) \/ Before(k, Value(s)))
                       => ~ SameEvent(k, Value(s)')
  BY <1>1, <1>4, <1>5, StepMoves
<1>7. ASSUME NEW u \in Source, Valid(u), u \notin S
      PROVE  u # m /\ Value(u) # Value(m)
  <2>1. u # m /\ ~ Passed(u) /\ u \in valid
    BY <1>7 DEF S, valid
  <2>2. ASSUME Value(u) = Value(m) PROVE FALSE
    <3> DEFINE prior == {x \in Source : x < u /\ Valid(x)}
    <3>1. m < u
      <4>1. ~ Before(Value(m), Value(m))
        BY <1>4, BeforeOrder
      <4>2. QED BY <1>3, <2>1, <2>2, <4>1
    <3>2. m \in prior /\ prior \in SUBSET Source /\ \A s \in prior : Valid(s)
      BY <1>4, <3>1
    <3> DEFINE b == MinIndex(prior)
    <3> HIDE DEF prior
    <3>3. /\ b \in prior
          /\ \A x \in prior \ {b} : Before(Value(b), Value(x)) \/ Value(x) = Value(b)
      BY <1>1, <3>2, MinIndexIs
    <3>4. b \in valid /\ Value(b) \in Key
      <4>1. b \in Source /\ Valid(b)
        BY <3>2, <3>3
      <4>2. QED BY <1>1, <1>2, <4>1 DEF Cursors, valid
    <3>5. Value(b) = Value(m)
      <4>1. b = m \/ Before(Value(m), Value(b)) \/ Value(b) = Value(m)
        BY <1>3, <3>4
      <4>2. b = m \/ Before(Value(b), Value(m)) \/ Value(b) = Value(m)
        BY <3>2, <3>3
      <4>3. QED BY <1>4, <3>4, <4>1, <4>2, BeforeOrder
    <3>6. Passed(u)
      <4>1. Value(m).ts <= Value(m).ts /\ SameEvent(Value(m), Value(m))
        BY <1>4, IteratorAssumption DEF SameEvent
      <4>2. prior # {}
        BY <3>2
      <4>3. QED BY <1>7, <2>2, <3>5, <4>1, <4>2 DEF Passed, prior
    <3>7. QED BY <2>1, <3>6
  <2>3. QED BY <2>1, <2>2
<1>8. ASSUME NEW u \in Source, Valid(u)'
      PROVE  /\ Valid(u) /\ Value(u) \in Key /\ Value(u)' \in Key
             /\ Value(u) = Value(m) \/ Before(Value(m), Value(u))
  <2>1. Valid(u) /\ Value(u) \in Key
    BY <1>1, <1>2, <1>6, <1>8 DEF Cursors
  <2>2. Value(u)' \in Key
    <3>1. (Value(u) \in Offers(u))'
      BY <1>1, <1>6, <1>8 DEF Cursors
    <3>2. Offers(u)' = Offers(u)
      BY <1>1 DEF Offers, Holds
    <3>3. QED BY <1>2, <3>1, <3>2
  <2>3. QED BY <1>3, <2>1, <2>2 DEF valid
<1>9. \A u \in Source : Valid(u)' =>
        /\ Valid(u) /\ Value(u) \in Key /\ Value(u)' \in Key
        /\ Value(u) = Value(m) \/ Before(Value(m), Value(u))
        /\ \/ Value(u)' = Value(u) /\ u # m /\ Value(u) # Value(m)
           \/ /\ u = 0 \/ Sorted => Before(Value(u), Value(u)')
              /\ Sorted => \A k \in Holds(u) :
                   k.ts <= ReadTs /\ (k = Value(u) \/ Before(k, Value(u)))
                     => ~ SameEvent(k, Value(u)')
  BY <1>1, <1>6, <1>7, <1>8
<1>10. QED BY <1>1, <1>4, <1>6, <1>9

(***************************************************************************)
(* Every step keeps the invariant of the iteration.                        *)
(***************************************************************************)

\* The events in a sequence with one more at its end.
LEMMA AppendRange ==
  ASSUME NEW s \in Seq(Key), NEW k \in Key
  PROVE  /\ Range(Append(s, k)) = Range(s) \cup {k}
         /\ DOMAIN Append(s, k) = 1 .. Len(s) + 1 /\ DOMAIN s = 1 .. Len(s)
         /\ Len(s) \in Nat /\ Append(s, k)[Len(s) + 1] = k
         /\ \A n \in 1 .. Len(s) : Append(s, k)[n] = s[n]
         /\ \A n \in 1 .. Len(s) : s[n] \in Range(s)
         /\ Range(s) \subseteq Key
<1> DEFINE t == Append(s, k)
<1>1. /\ DOMAIN t = 1 .. Len(s) + 1 /\ DOMAIN s = 1 .. Len(s)
      /\ Len(s) \in Nat /\ t[Len(s) + 1] = k
      /\ \A n \in 1 .. Len(s) : t[n] = s[n] /\ s[n] \in Key
  BY AppendProperties, LenProperties
<1> HIDE DEF t
<1>2. Range(t) = Range(s) \cup {k}
  <2>1. ASSUME NEW x \in Range(t) PROVE x \in Range(s) \cup {k}
    BY <1>1 DEF Range
  <2>2. ASSUME NEW x \in Range(s) PROVE x \in Range(t)
    <3>1. PICK n \in 1 .. Len(s) : s[n] = x
      BY <1>1 DEF Range
    <3>2. n \in DOMAIN t /\ t[n] = x
      BY <1>1, <3>1
    <3>3. QED BY <3>2 DEF Range
  <2>3. k \in Range(t)
    BY <1>1 DEF Range
  <2>4. QED BY <2>1, <2>2, <2>3
<1>3. Range(s) \subseteq Key /\ \A n \in 1 .. Len(s) : s[n] \in Range(s)
  BY <1>1 DEF Range
<1>4. QED BY <1>1, <1>2, <1>3 DEF t

\* Nothing returned is held by the source that returns it but of other events.
LEMMA EmitStep ==
  ASSUME Walk, Emit
  PROVE  Walk'
<1>1. Cursors /\ Places /\ Given /\ Ordered /\ OnePerSource
  BY DEF Walk
<1>2. PICK m \in Source :
        /\ Valid(m) /\ Value(m) \in Offers(m) /\ Value(m) \in Key
        /\ emitted' = Append(emitted, Value(m))
        /\ pc = "next" /\ UNCHANGED <<mt, coming, late, keys, filter, pc>>
        /\ Cursors'
        /\ \A u \in Source : Valid(u)' =>
             /\ Valid(u) /\ Value(u) \in Key /\ Value(u)' \in Key
             /\ Value(u) = Value(m) \/ Before(Value(m), Value(u))
             /\ \/ Value(u)' = Value(u) /\ u # m /\ Value(u) # Value(m)
                \/ /\ u = 0 \/ Sorted => Before(Value(u), Value(u)')
                   /\ Sorted => \A k \in Holds(u) :
                        k.ts <= ReadTs /\ (k = Value(u) \/ Before(k, Value(u)))
                          => ~ SameEvent(k, Value(u)')
  BY <1>1, Emits
<1> DEFINE v == Value(m)
<1>3. v \in Key /\ v \in Holds(m) /\ v.ts <= ReadTs
  BY <1>2 DEF Offers
<1>4. /\ Range(emitted') = Range(emitted) \cup {v}
      /\ DOMAIN emitted' = 1 .. Len(emitted) + 1 /\ DOMAIN emitted = 1 .. Len(emitted)
      /\ Len(emitted) \in Nat /\ emitted'[Len(emitted) + 1] = v
      /\ \A n \in 1 .. Len(emitted) : emitted'[n] = emitted[n] /\ emitted[n] \in Range(emitted)
      /\ Range(emitted) \subseteq Key
  <2>1. emitted \in Seq(Key)
    BY <1>1 DEF Cursors
  <2>2. QED BY <1>2, <1>3, <2>1, AppendRange
<1>5. /\ \A s : Holds(s)' = Holds(s)
      /\ Sorted' = Sorted /\ coming' = coming
  BY <1>2 DEF Holds, Sorted
<1>6. Places'
  BY <1>1, <1>5 DEF Places
<1>7. Given'
  BY <1>1, <1>3, <1>4, <1>5 DEF Given
<1>8. \A s \in Source : v \in Holds(s) => s = m
  BY <1>1, <1>3 DEF Places
<1>9. ASSUME Sorted
      PROVE  /\ \A e \in Range(emitted) : Before(e, v) /\ (e \in Holds(m) => ~ SameEvent(e, v))
             /\ \A u \in Source : Valid(u)' => \A e \in Range(emitted') :
                  Before(e, Value(u)') /\ (e \in Holds(u) => ~ SameEvent(e, Value(u)'))
  <2>1. \A e \in Range(emitted) : Before(e, v) /\ (e \in Holds(m) => ~ SameEvent(e, v))
    BY <1>1, <1>2, <1>9 DEF Ordered
  <2>2. ASSUME NEW u \in Source, Valid(u)', NEW e \in Range(emitted')
        PROVE  Before(e, Value(u)') /\ (e \in Holds(u) => ~ SameEvent(e, Value(u)'))
    <3>1. /\ Valid(u) /\ Value(u) \in Key /\ Value(u)' \in Key
          /\ Value(u) = v \/ Before(v, Value(u))
          /\ \/ Value(u)' = Value(u) /\ u # m /\ Value(u) # v
             \/ /\ Before(Value(u), Value(u)')
                /\ \A k \in Holds(u) :
                     k.ts <= ReadTs /\ (k = Value(u) \/ Before(k, Value(u)))
                       => ~ SameEvent(k, Value(u)')
      BY <1>2, <1>9, <2>2
    <3>2. e \in Key /\ e.ts <= ReadTs
      BY <1>1, <1>3, <1>4 DEF Given
    <3>3. CASE e \in Range(emitted)
      <4>1. Before(e, Value(u)) /\ (e \in Holds(u) => ~ SameEvent(e, Value(u)))
        BY <1>1, <1>9, <3>1, <3>3 DEF Ordered
      <4>2. QED BY <3>1, <3>2, <4>1, BeforeOrder
    <3>4. CASE e = v
      <4>1. e \in Holds(u) => u = m
        BY <1>8, <3>4
      <4>2. Before(e, Value(u)')
        BY <1>3, <3>1, <3>4, BeforeOrder
      <4>3. QED BY <3>1, <3>2, <3>4, <4>1, <4>2
    <3>5. QED BY <1>4, <3>3, <3>4
  <2>3. QED BY <2>1, <2>2
<1> HIDE DEF v
<1>10. Ordered'
  <2>1. ASSUME Sorted, NEW n \in DOMAIN emitted', NEW k \in DOMAIN emitted', n < k
        PROVE  Before(emitted'[n], emitted'[k])
    <3>1. n \in 1 .. Len(emitted)
      BY <1>4, <2>1
    <3>2. CASE k = Len(emitted) + 1
      BY <1>4, <1>9, <2>1, <3>1, <3>2
    <3>3. CASE k # Len(emitted) + 1
      <4>1. k \in 1 .. Len(emitted)
        BY <1>4, <3>3
      <4>2. QED BY <1>1, <1>4, <2>1, <3>1, <4>1 DEF Ordered
    <3>4. QED BY <3>2, <3>3
  <2>2. QED BY <1>5, <1>9, <2>1 DEF Ordered
<1>11. OnePerSource'
  <2>1. \A k : Holders(k)' = Holders(k) /\ \A s \in Source : s \in Holders(k) <=> k \in Holds(s)
    BY <1>2 DEF Holders, Holds
  <2>2. ASSUME Sorted, NEW e \in Range(emitted), SameEvent(e, v)
        PROVE  Holders(e) \cap Holders(v) = {}
    <3>1. ~ (e \in Holds(m))
      BY <1>9, <2>2
    <3>2. \A s \in Holders(v) : s \in Source /\ s = m
      BY <1>8, <2>1 DEF Holders
    <3>3. QED BY <1>2, <2>1, <3>1, <3>2
  <2>3. ASSUME Sorted, NEW n \in DOMAIN emitted', NEW k \in DOMAIN emitted', n # k,
               SameEvent(emitted'[n], emitted'[k])
        PROVE  Holders(emitted'[n]) \cap Holders(emitted'[k]) = {}
    <3>1. CASE n \in 1 .. Len(emitted) /\ k \in 1 .. Len(emitted)
      BY <1>1, <1>4, <2>3, <3>1 DEF OnePerSource
    <3>2. CASE n = Len(emitted) + 1
      <4>1. k \in 1 .. Len(emitted)
        BY <1>4, <2>3, <3>2
      <4>2. SameEvent(emitted[k], v)
        BY <1>4, <2>3, <3>2, <4>1 DEF SameEvent
      <4>3. QED BY <1>4, <2>2, <2>3, <3>2, <4>1, <4>2
    <3>3. CASE k = Len(emitted) + 1
      <4>1. n \in 1 .. Len(emitted)
        BY <1>4, <2>3, <3>3
      <4>2. QED BY <1>4, <2>2, <2>3, <3>3, <4>1
    <3>4. QED BY <1>4, <3>1, <3>2, <3>3
  <2>4. QED BY <1>5, <2>1, <2>3 DEF OnePerSource
<1>12. QED BY <1>2, <1>6, <1>7, <1>10, <1>11 DEF Walk

\* Start moves every iterator to the first key that it may return.
LEMMA StartStep ==
  ASSUME Walk, Start
  PROVE  Walk' /\ pc' # "init"
<1>1. Cursors /\ Places /\ emitted = <<>> /\ emitted' = <<>>
  BY DEF Walk, Start, Cursors
<1>2. /\ pc = "init" /\ pc' = "next" /\ Step(Source)
      /\ UNCHANGED <<mt, coming, late, keys, filter, emitted>>
  BY DEF Start
<1>3. Cursors'
  <2>1. emitted' \in Seq(Key)
    BY <1>1, EmptySeq
  <2>2. Source \in SUBSET Source
    OBVIOUS
  <2>3. QED BY <1>1, <1>2, <2>1, <2>2, StepMoves
<1>4. Places'
  BY <1>1, <1>2 DEF Places, Holds
<1>5. Range(emitted') = {} /\ DOMAIN emitted' = {}
  BY <1>1 DEF Range
<1>6. Given' /\ Ordered' /\ OnePerSource'
  BY <1>5 DEF Given, Ordered, OnePerSource
<1>7. QED BY <1>2, <1>3, <1>4, <1>6 DEF Walk

LEMMA EndStep ==
  ASSUME Walk, End
  PROVE  Walk' /\ pc' # "init"
<1>1. /\ pc = "next" /\ pc' = "end" /\ \A s \in Source : ~ Valid(s)
      /\ UNCHANGED <<mt, coming, late, keys, filter, mit, iit, emitted>>
  BY DEF End
<1>2. /\ \A s : /\ Holds(s)' = Holds(s) /\ Offers(s)' = Offers(s)
                /\ Valid(s)' = Valid(s) /\ Value(s)' = Value(s)
      /\ \A i, r : Advance(i, r)' = Advance(i, r)
  BY <1>1 DEF Holds, Offers, Valid, Value, Advance
<1>3. Cursors'
  BY <1>1, <1>2 DEF Walk, Cursors
<1>4. Places' /\ Given' /\ Ordered' /\ OnePerSource'
  BY <1>1, <1>2 DEF Walk, Places, Given, Ordered, OnePerSource, Sorted, Holders
<1>5. QED BY <1>1, <1>3, <1>4 DEF Walk

\* An item put is in no source yet, so it was not returned.
LEMMA PutItemStep ==
  ASSUME Walk, PutItem
  PROVE  Walk' /\ pc' # "init"
<1>1. PICK k \in coming :
        /\ mt' = mt \cup {k} /\ late' = late \cup {k} /\ coming' = coming \ {k}
        /\ pc = "next" /\ UNCHANGED <<keys, filter, mit, iit, pc, emitted>>
  BY DEF PutItem
<1>2. Cursors /\ Places /\ Given /\ Ordered /\ OnePerSource
  BY DEF Walk
<1>3. /\ 0 \in Source /\ 0 \notin Index /\ Source = {0} \cup Index
  BY IteratorAssumption DEF Index, Source
<1>4. /\ \A s \in Source : Holds(s)' = IF s = 0 THEN Holds(s) \cup {k} ELSE Holds(s)
      /\ \A s \in Source : Offers(s) \subseteq Offers(s)' /\ Valid(s)' = Valid(s)
      /\ \A s \in Source : Value(s)' = Value(s)
      /\ \A i, r : Advance(i, r)' = Advance(i, r)
      /\ Sorted' = Sorted
  BY <1>1 DEF Holds, Offers, Valid, Value, Advance, Sorted
<1>5. Cursors'
  <2>1. /\ mt' \subseteq Key /\ coming' \subseteq Key /\ late' \subseteq mt'
    BY <1>1, <1>2 DEF Cursors
  <2>2. \A s \in Source : Valid(s)' => (Value(s) \in Offers(s))'
    BY <1>1, <1>2, <1>4 DEF Cursors
  <2>3. (\A i \in Index : iit[i].nextIdx = Advance(i, iit[i].row))'
    BY <1>1, <1>2, <1>4 DEF Cursors
  <2>4. QED BY <1>1, <1>2, <2>1, <2>2, <2>3 DEF Cursors
<1>6. \A s \in Source : k \notin Holds(s)
  BY <1>2 DEF Places
<1>7. Places'
  <2>1. \A s \in Source : Holds(s)' \cap coming' = {}
    BY <1>1, <1>2, <1>4 DEF Places
  <2>2. \A s, u \in Source : s # u => Holds(s)' \cap Holds(u)' = {}
    BY <1>2, <1>4, <1>6 DEF Places
  <2>3. QED BY <2>1, <2>2 DEF Places
<1>8. \A e \in Range(emitted) : e # k
  BY <1>2, <1>6 DEF Given
<1>9. Given'
  BY <1>1, <1>2, <1>4 DEF Given
<1>10. Ordered'
  BY <1>1, <1>2, <1>4, <1>8 DEF Ordered
<1>11. OnePerSource'
  <2>1. \A e : e # k => Holders(e)' = Holders(e)
    BY <1>1 DEF Holders
  <2>2. \A n \in DOMAIN emitted : emitted[n] \in Range(emitted)
    BY DEF Range
  <2>3. QED BY <1>1, <1>2, <1>4, <1>8, <2>1, <2>2 DEF OnePerSource
<1>12. QED BY <1>1, <1>5, <1>7, <1>9, <1>10, <1>11 DEF Walk

(***************************************************************************)
(* The key list of two merged indexes.                                     *)
(***************************************************************************)

\* What mergeTwoIndices appends from rows p[1] of a and p[2] of b on, when g
\* says so of the rows that come after.
MergeStep(g, a, b, p) ==
  LET i == p[1]
      j == p[2]
  IN IF i > Len(a) THEN SubSeq(b, j, Len(b))
     ELSE IF j > Len(b) THEN SubSeq(a, i, Len(a))
     ELSE IF a[i].start < b[j].start \/ (a[i].start = b[j].start /\ a[i].id >= b[j].id)
          THEN <<a[i]>> \o g[<<i + 1, j>>]
          ELSE <<b[j]>> \o g[<<i, j + 1>>]

Rows(a, b) == (1 .. Len(a) + 1) \X (1 .. Len(b) + 1)
Merges(g, a, b) == g = [p \in Rows(a, b) |-> MergeStep(g, a, b, p)]

\* How many keys there are from p on.
Left(a, b, p) == (Len(a) + 1 - p[1]) + (Len(b) + 1 - p[2])

\* The rows of p, and those after it.
LEMMA RowsOf ==
  ASSUME NEW a \in Seq(Key), NEW b \in Seq(Key), NEW p \in Rows(a, b)
  PROVE  /\ p = <<p[1], p[2]>> /\ p[1] \in 1 .. Len(a) + 1 /\ p[2] \in 1 .. Len(b) + 1
         /\ Len(a) \in Nat /\ Len(b) \in Nat /\ Left(a, b, p) \in Nat
         /\ p[1] <= Len(a) => /\ <<p[1] + 1, p[2]>> \in Rows(a, b)
                              /\ Left(a, b, <<p[1] + 1, p[2]>>) = Left(a, b, p) - 1
         /\ p[2] <= Len(b) => /\ <<p[1], p[2] + 1>> \in Rows(a, b)
                              /\ Left(a, b, <<p[1], p[2] + 1>>) = Left(a, b, p) - 1
         /\ Left(a, b, p) = 0 => p[1] > Len(a)
<1>1. Len(a) \in Nat /\ Len(b) \in Nat
  BY LenProperties
<1>2. /\ p = <<p[1], p[2]>> /\ p[1] \in 1 .. Len(a) + 1 /\ p[2] \in 1 .. Len(b) + 1
  BY DEF Rows
<1>3. /\ \A i, j : <<i, j>>[1] = i /\ <<i, j>>[2] = j
      /\ \A i, j : Left(a, b, <<i, j>>) = (Len(a) + 1 - i) + (Len(b) + 1 - j)
  BY DEF Left
<1>4. Left(a, b, p) = (Len(a) + 1 - p[1]) + (Len(b) + 1 - p[2])
  BY DEF Left
<1> DEFINE m == Len(a)
           n == Len(b)
           i == p[1]
           j == p[2]
<1>5. /\ m \in Nat /\ n \in Nat /\ i \in 1 .. m + 1 /\ j \in 1 .. n + 1
      /\ Left(a, b, p) = (m + 1 - i) + (n + 1 - j)
      /\ \A x, y : Left(a, b, <<x, y>>) = (m + 1 - x) + (n + 1 - y)
  BY <1>1, <1>2, <1>3, <1>4
<1> HIDE DEF m, n, i, j
<1>6. /\ Left(a, b, p) \in Nat
      /\ i <= m => i + 1 \in 1 .. m + 1 /\ Left(a, b, <<i + 1, j>>) = Left(a, b, p) - 1
      /\ j <= n => j + 1 \in 1 .. n + 1 /\ Left(a, b, <<i, j + 1>>) = Left(a, b, p) - 1
      /\ Left(a, b, p) = 0 => i > m
  BY <1>5
<1> USE DEF m, n, i, j
<1>7. QED BY <1>1, <1>2, <1>6 DEF Rows

\* The merge is defined for every two lists.
LEMMA MergesExists ==
  ASSUME NEW a \in Seq(Key), NEW b \in Seq(Key)
  PROVE  \E g : Merges(g, a, b)
<1> DEFINE Sub(n) == {p \in Rows(a, b) : Left(a, b, p) <= n}
           Good(n) == \E g : g = [p \in Sub(n) |-> MergeStep(g, a, b, p)]
           Bad == {n \in Nat : ~ Good(n)}
<1>1. Good(0)
  <2>1. ASSUME NEW p \in Sub(0) PROVE p[1] > Len(a)
    <3>1. p \in Rows(a, b) /\ Left(a, b, p) <= 0
      OBVIOUS
    <3>2. Left(a, b, p) \in Nat
      BY <3>1, RowsOf
    <3>3. Left(a, b, p) = 0
      BY <3>1, <3>2
    <3>4. QED BY <3>1, <3>3, RowsOf
  <2> DEFINE g == [p \in Sub(0) |-> SubSeq(b, p[2], Len(b))]
  <2>2. \A p \in Sub(0) : MergeStep(g, a, b, p) = SubSeq(b, p[2], Len(b))
    BY <2>1 DEF MergeStep
  <2>3. g = [p \in Sub(0) |-> MergeStep(g, a, b, p)]
    BY <2>2
  <2>4. QED BY <2>3
<1>2. ASSUME NEW n \in Nat, Good(n) PROVE Good(n + 1)
  <2>1. PICK g : g = [p \in Sub(n) |-> MergeStep(g, a, b, p)]
    BY <1>2
  <2> DEFINE h == [p \in Sub(n + 1) |-> MergeStep(g, a, b, p)]
  <2>2. \A p \in Sub(n) : p \in Sub(n + 1) /\ h[p] = g[p]
    <3>1. ASSUME NEW p \in Sub(n) PROVE p \in Sub(n + 1)
      <4>1. p \in Rows(a, b) /\ Left(a, b, p) <= n
        OBVIOUS
      <4>2. Left(a, b, p) \in Nat
        BY <4>1, RowsOf
      <4>3. Left(a, b, p) <= n + 1
        BY <4>1, <4>2
      <4>4. QED BY <4>1, <4>3
    <3>2. \A p \in Sub(n) : g[p] = MergeStep(g, a, b, p)
      BY <2>1, Zenon
    <3>3. QED BY <3>1, <3>2
  <2>3. ASSUME NEW p \in Sub(n + 1)
        PROVE  /\ p[1] <= Len(a) => <<p[1] + 1, p[2]>> \in Sub(n)
               /\ p[2] <= Len(b) => <<p[1], p[2] + 1>> \in Sub(n)
    BY RowsOf
  <2> HIDE DEF h, Sub
  <2>4. ASSUME NEW p \in Sub(n + 1)
        PROVE  MergeStep(g, a, b, p) = MergeStep(h, a, b, p)
    <3>1. p \in Rows(a, b)
      BY DEF Sub
    <3>2. CASE p[1] <= Len(a) /\ p[2] <= Len(b)
      <4>1. /\ g[<<p[1] + 1, p[2]>>] = h[<<p[1] + 1, p[2]>>]
            /\ g[<<p[1], p[2] + 1>>] = h[<<p[1], p[2] + 1>>]
        BY <2>2, <2>3, <3>2
      <4>2. QED BY <4>1, Zenon DEF MergeStep
    <3>3. CASE ~ (p[1] <= Len(a) /\ p[2] <= Len(b))
      <4>1. p[1] > Len(a) \/ p[2] > Len(b)
        <5>1. /\ Len(a) \in Nat /\ Len(b) \in Nat
              /\ p[1] \in 1 .. Len(a) + 1 /\ p[2] \in 1 .. Len(b) + 1
          BY <3>1, RowsOf
        <5>2. QED BY <3>3, <5>1
      <4>2. QED BY <4>1, Zenon DEF MergeStep
    <3>4. QED BY <3>2, <3>3
  <2>5. h = [p \in Sub(n + 1) |-> MergeStep(h, a, b, p)]
    BY <2>4, Zenon DEF h
  <2>6. QED BY <2>5
<1>3. Bad = {}
  <2>1. SUFFICES ASSUME Bad # {} PROVE FALSE
    OBVIOUS
  <2>2. PICK n \in Bad : \A m \in Bad : n <= m
    BY <2>1, Least
  <2> HIDE DEF Good
  <2>3. n # 0 /\ n \in Nat
    BY <1>1
  <2>4. n - 1 \in Nat /\ n - 1 \notin Bad
    BY <2>2, <2>3
  <2>5. Good((n - 1) + 1)
    BY <1>2, <2>4
  <2>6. QED BY <2>3, <2>5
<1> DEFINE all == Len(a) + Len(b)
<1>4. all \in Nat /\ Sub(all) = Rows(a, b)
  <2>1. ASSUME NEW p \in Rows(a, b) PROVE Left(a, b, p) <= all
    <3> DEFINE m == Len(a)
               n == Len(b)
               i == p[1]
               j == p[2]
    <3>1. /\ m \in Nat /\ n \in Nat /\ i \in 1 .. m + 1 /\ j \in 1 .. n + 1
          /\ Left(a, b, p) = (m + 1 - i) + (n + 1 - j)
      BY RowsOf DEF Left
    <3> HIDE DEF m, n, i, j
    <3>2. Left(a, b, p) <= m + n
      BY <3>1
    <3>3. QED BY <3>2 DEF m, n
  <2>2. QED BY <2>1, LenProperties
<1>5. Good(all)
  BY <1>3, <1>4
<1>6. QED BY <1>4, <1>5 DEF Merges

\* The keys of a part of a sequence.
LEMMA SubRange ==
  ASSUME NEW s \in Seq(Key), NEW i \in 1 .. Len(s) + 1
  PROVE  /\ SubSeq(s, i, Len(s)) \in Seq(Key)
         /\ Range(SubSeq(s, i, Len(s))) = {s[x] : x \in i .. Len(s)}
         /\ Distinct(s) => Distinct(SubSeq(s, i, Len(s)))
<1> DEFINE n == Len(s)
           t == SubSeq(s, i, n)
<1>1. n \in Nat /\ DOMAIN s = 1 .. n /\ \A x \in 1 .. n : s[x] \in Key
  BY LenProperties
<1>2. t = [x \in 1 .. (n - i) + 1 |-> s[i + x - 1]]
  <2>1. t = [x \in 1 .. (n - i + 1) |-> s[i + x - 1]]
    OBVIOUS
  <2>2. QED BY <1>1, <2>1
<1> HIDE DEF n, t
<1>3. n - i + 1 \in Nat /\ i \in Nat /\ i \in 1 .. n + 1
  BY <1>1 DEF n
<1>4. \A x \in 1 .. (n - i) + 1 : i + x - 1 \in i .. n /\ i + x - 1 \in 1 .. n
  BY <1>1, <1>3
<1>5. \A y \in i .. n : y - i + 1 \in 1 .. (n - i) + 1 /\ i + (y - i + 1) - 1 = y
  BY <1>1, <1>3
<1>6. t \in Seq(Key)
  <2>1. t \in [1 .. (n - i) + 1 -> Key]
    BY <1>1, <1>2, <1>4
  <2>2. QED BY <1>3, <2>1, IsASeq
<1>7. Range(t) = {s[x] : x \in i .. n}
  <2>1. \A x \in DOMAIN t : t[x] \in {s[y] : y \in i .. n}
    BY <1>2, <1>4
  <2>2. ASSUME NEW y \in i .. n PROVE s[y] \in Range(t)
    <3>1. t[y - i + 1] = s[y] /\ y - i + 1 \in DOMAIN t
      BY <1>2, <1>5
    <3>2. QED BY <3>1 DEF Range
  <2>3. QED BY <2>1, <2>2 DEF Range
<1>8. Distinct(s) => Distinct(t)
  <2>1. ASSUME Distinct(s), NEW x \in DOMAIN t, NEW y \in DOMAIN t, x # y
        PROVE  t[x] # t[y]
    <3>1. /\ x \in 1 .. (n - i) + 1 /\ y \in 1 .. (n - i) + 1
          /\ t[x] = s[i + x - 1] /\ t[y] = s[i + y - 1]
      BY <1>2, <2>1
    <3>2. i + x - 1 \in DOMAIN s /\ i + y - 1 \in DOMAIN s
      BY <1>1, <1>4, <3>1
    <3>3. i + x - 1 # i + y - 1
      BY <1>3, <2>1, <3>1
    <3>4. QED BY <2>1, <3>1, <3>2, <3>3 DEF Distinct
  <2>2. QED BY <2>1 DEF Distinct
<1>9. QED BY <1>6, <1>7, <1>8 DEF t, n

\* A sequence with one more key at its front.
LEMMA PutFirst ==
  ASSUME NEW k \in Key, NEW s \in Seq(Key)
  PROVE  /\ <<k>> \o s \in Seq(Key) /\ Range(<<k>> \o s) = {k} \cup Range(s)
         /\ Distinct(s) /\ k \notin Range(s) => Distinct(<<k>> \o s)
<1> DEFINE o == <<k>>
           t == o \o s
<1>1. o \in Seq(Key) /\ Len(o) = 1 /\ o[1] = k /\ Len(s) \in Nat /\ DOMAIN s = 1 .. Len(s)
  BY LenProperties
<1> HIDE DEF o
<1>2. /\ t \in Seq(Key) /\ Len(t) = Len(o) + Len(s)
      /\ \A x \in 1 .. Len(o) + Len(s) : t[x] = IF x <= Len(o) THEN o[x] ELSE s[x - Len(o)]
  BY <1>1, ConcatProperties
<1>3. /\ t \in Seq(Key) /\ Len(t) = 1 + Len(s) /\ DOMAIN t = 1 .. 1 + Len(s)
      /\ \A x \in 1 .. 1 + Len(s) : t[x] = IF x <= 1 THEN o[x] ELSE s[x - 1]
  BY <1>1, <1>2, LenProperties
<1> HIDE DEF t
<1>4. \A x \in DOMAIN t : t[x] \in {k} \cup Range(s)
  <2>1. ASSUME NEW x \in DOMAIN t, x # 1 PROVE x - 1 \in DOMAIN s /\ t[x] = s[x - 1]
    BY <1>1, <1>3, <2>1
  <2>2. 1 \in DOMAIN t => t[1] = k
    BY <1>1, <1>3
  <2>3. QED BY <2>1, <2>2 DEF Range
<1>5. k \in Range(t)
  <2>1. 1 \in DOMAIN t /\ t[1] = k
    BY <1>1, <1>3
  <2>2. QED BY <2>1 DEF Range
<1>6. \A x \in DOMAIN s : s[x] \in Range(t)
  <2>1. ASSUME NEW x \in DOMAIN s PROVE x + 1 \in DOMAIN t /\ t[x + 1] = s[x]
    BY <1>1, <1>3
  <2>2. QED BY <2>1 DEF Range
<1>7. Range(t) = {k} \cup Range(s)
  BY <1>4, <1>5, <1>6 DEF Range
<1>8. ASSUME Distinct(s), k \notin Range(s), NEW x \in DOMAIN t, NEW y \in DOMAIN t, x # y
      PROVE  t[x] # t[y]
  <2>1. \A z \in DOMAIN t : z # 1 => z - 1 \in DOMAIN s /\ t[z] = s[z - 1]
    BY <1>1, <1>3
  <2>2. \A z \in DOMAIN t : z # 1 => t[z] \in Range(s)
    BY <2>1 DEF Range
  <2>3. t[1] = k
    BY <1>1, <1>3
  <2>4. CASE x = 1 \/ y = 1
    BY <1>8, <2>2, <2>3, <2>4
  <2>5. CASE x # 1 /\ y # 1
    <3>1. x - 1 # y - 1
      BY <1>3, <1>8
    <3>2. QED BY <1>8, <2>1, <2>5, <3>1 DEF Distinct
  <2>6. QED BY <2>4, <2>5
<1>9. Distinct(s) /\ k \notin Range(s) => Distinct(t)
  BY <1>8 DEF Distinct
<1>10. QED BY <1>3, <1>7, <1>9 DEF t, o

\* mergeTwoIndices makes a list of the keys of both indexes, and loses none; no
\* key is in it twice if it was in one of them, and once.
LEMMA MergedRange ==
  ASSUME NEW a \in Seq(Key), NEW b \in Seq(Key)
  PROVE  /\ Merged(a, b) \in Seq(Key) /\ Range(Merged(a, b)) = Range(a) \cup Range(b)
         /\ Distinct(a) /\ Distinct(b) /\ Range(a) \cap Range(b) = {}
              => Distinct(Merged(a, b))
<1> DEFINE f == CHOOSE g : Merges(g, a, b)
<1>1. Merges(f, a, b)
  <2>1. \E g : Merges(g, a, b)
    BY MergesExists
  <2>2. QED BY <2>1
<1>2. Merged(a, b) = f[<<1, 1>>]
  BY DEF Merged, Merges, MergeStep, Rows
<1> HIDE DEF f
<1> DEFINE m == Len(a)
           n == Len(b)
           Rest(p) == {a[x] : x \in p[1] .. m} \cup {b[y] : y \in p[2] .. n}
           Split == Distinct(a) /\ Distinct(b) /\ Range(a) \cap Range(b) = {}
           Ok(p) == /\ f[p] \in Seq(Key) /\ Range(f[p]) = Rest(p)
                    /\ Split => Distinct(f[p])
           Bad == {p \in Rows(a, b) : ~ Ok(p)}
<1>3. /\ m \in Nat /\ n \in Nat /\ DOMAIN a = 1 .. m /\ DOMAIN b = 1 .. n
      /\ \A x \in 1 .. m : a[x] \in Key
      /\ \A y \in 1 .. n : b[y] \in Key
  BY LenProperties
<1>4. ASSUME Bad # {} PROVE FALSE
  <2> DEFINE Lefts == {Left(a, b, p) : p \in Bad}
  <2>1. \E p \in Bad : \A q \in Bad : Left(a, b, p) <= Left(a, b, q)
    <3>1. Lefts \subseteq Nat /\ Lefts # {}
      <4>1. ASSUME NEW p \in Bad PROVE Left(a, b, p) \in Nat
        <5>1. p \in Rows(a, b)
          OBVIOUS
        <5>2. QED BY <5>1, RowsOf
      <4>2. QED BY <1>4, <4>1
    <3>2. PICK l \in Lefts : \A k \in Lefts : l <= k
      BY <3>1, Least
    <3>3. QED BY <3>2
  <2>2. PICK p \in Bad : \A q \in Bad : Left(a, b, p) <= Left(a, b, q)
    BY <2>1
  <2> DEFINE i == p[1]
             j == p[2]
  <2>3. /\ p \in Rows(a, b) /\ i \in 1 .. m + 1 /\ j \in 1 .. n + 1
        /\ Left(a, b, p) \in Nat /\ ~ Ok(p)
        /\ i <= m => /\ <<i + 1, j>> \in Rows(a, b)
                     /\ Left(a, b, <<i + 1, j>>) = Left(a, b, p) - 1
        /\ j <= n => /\ <<i, j + 1>> \in Rows(a, b)
                     /\ Left(a, b, <<i, j + 1>>) = Left(a, b, p) - 1
    <3>1. p \in Rows(a, b) /\ ~ Ok(p)
      BY <2>2
    <3> HIDE DEF Ok, Bad
    <3>2. QED BY <3>1, RowsOf
  <2>4. /\ i <= m => Ok(<<i + 1, j>>)
        /\ j <= n => Ok(<<i, j + 1>>)
    <3>1. ASSUME NEW q \in Rows(a, b), Left(a, b, q) = Left(a, b, p) - 1
          PROVE  Ok(q)
      <4>1. ~ (Left(a, b, p) <= Left(a, b, q))
        BY <2>3, <3>1
      <4>2. q \notin Bad
        BY <2>2, <4>1
      <4>3. QED BY <3>1, <4>2
    <3> HIDE DEF Ok, Bad, i, j
    <3>2. QED BY <2>3, <3>1
  <2>5. f[p] = MergeStep(f, a, b, p)
    BY <1>1, <2>3, Zenon DEF Merges
  <2>6. CASE i > m
    <3>1. f[p] = SubSeq(b, j, n)
      BY <2>5, <2>6 DEF MergeStep
    <3>2. /\ SubSeq(b, j, n) \in Seq(Key) /\ Range(SubSeq(b, j, n)) = {b[y] : y \in j .. n}
          /\ Distinct(b) => Distinct(SubSeq(b, j, n))
      BY <1>3, <2>3, SubRange
    <3>3. i .. m = {}
      BY <1>3, <2>3, <2>6
    <3>4. QED BY <2>3, <3>1, <3>2, <3>3
  <2>7. CASE ~ (i > m) /\ j > n
    <3>1. f[p] = SubSeq(a, i, m)
      BY <2>5, <2>7 DEF MergeStep
    <3>2. /\ SubSeq(a, i, m) \in Seq(Key) /\ Range(SubSeq(a, i, m)) = {a[x] : x \in i .. m}
          /\ Distinct(a) => Distinct(SubSeq(a, i, m))
      BY <1>3, <2>3, SubRange
    <3>3. j .. n = {}
      BY <1>3, <2>3, <2>7
    <3>4. QED BY <2>3, <3>1, <3>2, <3>3
  <2>8. CASE i <= m /\ j <= n
    <3>1. \/ f[p] = <<a[i]>> \o f[<<i + 1, j>>]
          \/ f[p] = <<b[j]>> \o f[<<i, j + 1>>]
      <4>1. ~ (i > m) /\ ~ (j > n)
        BY <1>3, <2>3, <2>8
      <4>2. QED BY <2>5, <4>1, Zenon DEF MergeStep
    <3>2. /\ i \in 1 .. m /\ j \in 1 .. n
          /\ i .. m = {i} \cup (i + 1 .. m) /\ j .. n = {j} \cup (j + 1 .. n)
      BY <1>3, <2>3, <2>8
    <3>3. /\ <<i + 1, j>>[1] = i + 1 /\ <<i + 1, j>>[2] = j
          /\ <<i, j + 1>>[1] = i /\ <<i, j + 1>>[2] = j + 1
      OBVIOUS
    <3>4. ASSUME f[p] = <<a[i]>> \o f[<<i + 1, j>>] PROVE Ok(p)
      <4>1. /\ f[p] \in Seq(Key) /\ Range(f[p]) = {a[i]} \cup Range(f[<<i + 1, j>>])
            /\ Distinct(f[<<i + 1, j>>]) /\ a[i] \notin Range(f[<<i + 1, j>>]) => Distinct(f[p])
        <5>1. f[<<i + 1, j>>] \in Seq(Key) /\ a[i] \in Key
          BY <1>3, <2>4, <2>8, <3>2
        <5>2. QED BY <3>4, <5>1, PutFirst
      <4>2. Range(f[<<i + 1, j>>]) = {a[x] : x \in i + 1 .. m} \cup {b[y] : y \in j .. n}
        BY <2>4, <2>8, <3>3
      <4>3. {a[x] : x \in i .. m} = {a[i]} \cup {a[x] : x \in i + 1 .. m}
        BY <3>2
      <4>4. Split => a[i] \notin Range(f[<<i + 1, j>>])
        <5>1. \A x \in i + 1 .. m : x \in DOMAIN a /\ i \in DOMAIN a /\ x # i
          BY <1>3, <2>3, <3>2
        <5>2. Split => \A x \in i + 1 .. m : a[x] # a[i]
          BY <5>1 DEF Distinct
        <5>3. a[i] \in Range(a) /\ \A y \in j .. n : b[y] \in Range(b)
          BY <1>3, <2>3, <3>2 DEF Range
        <5> HIDE DEF i, j
        <5>4. Split => a[i] \notin {a[x] : x \in i + 1 .. m}
          BY <5>2, <5>3
        <5>5. Split => a[i] \notin {b[y] : y \in j .. n}
          BY <5>2, <5>3
        <5>6. QED BY <4>2, <5>4, <5>5
      <4>5. QED BY <2>4, <2>8, <4>1, <4>2, <4>3, <4>4
    <3>5. ASSUME f[p] = <<b[j]>> \o f[<<i, j + 1>>] PROVE Ok(p)
      <4>1. /\ f[p] \in Seq(Key) /\ Range(f[p]) = {b[j]} \cup Range(f[<<i, j + 1>>])
            /\ Distinct(f[<<i, j + 1>>]) /\ b[j] \notin Range(f[<<i, j + 1>>]) => Distinct(f[p])
        <5>1. f[<<i, j + 1>>] \in Seq(Key) /\ b[j] \in Key
          BY <1>3, <2>4, <2>8, <3>2
        <5>2. QED BY <3>5, <5>1, PutFirst
      <4>2. Range(f[<<i, j + 1>>]) = {a[x] : x \in i .. m} \cup {b[y] : y \in j + 1 .. n}
        BY <2>4, <2>8, <3>3
      <4>3. {b[y] : y \in j .. n} = {b[j]} \cup {b[y] : y \in j + 1 .. n}
        BY <3>2
      <4>4. Split => b[j] \notin Range(f[<<i, j + 1>>])
        <5>1. \A y \in j + 1 .. n : y \in DOMAIN b /\ j \in DOMAIN b /\ y # j
          BY <1>3, <2>3, <3>2
        <5>2. Split => \A y \in j + 1 .. n : b[y] # b[j]
          BY <5>1 DEF Distinct
        <5>3. b[j] \in Range(b) /\ \A x \in i .. m : a[x] \in Range(a)
          BY <1>3, <2>3, <3>2 DEF Range
        <5> HIDE DEF i, j
        <5>4. Split => b[j] \notin {a[x] : x \in i .. m}
          BY <5>2, <5>3
        <5>5. Split => b[j] \notin {b[y] : y \in j + 1 .. n}
          BY <5>2, <5>3
        <5>6. QED BY <4>2, <5>4, <5>5
      <4>5. QED BY <2>4, <2>8, <4>1, <4>2, <4>3, <4>4
    <3>6. QED BY <2>3, <3>1, <3>4, <3>5
  <2>9. QED BY <1>3, <2>3, <2>6, <2>7, <2>8
<1>5. Ok(<<1, 1>>)
  <2>1. <<1, 1>> \in Rows(a, b)
    BY <1>3 DEF Rows
  <2>2. QED BY <1>4, <2>1
<1>6. Rest(<<1, 1>>) = Range(a) \cup Range(b)
  <2>1. <<1, 1>>[1] = 1 /\ <<1, 1>>[2] = 1
    OBVIOUS
  <2>2. QED BY <1>3, <2>1 DEF Range
<1>7. QED BY <1>2, <1>5, <1>6

(***************************************************************************)
(* No event is passed over.                                                *)
(***************************************************************************)

\* The versions that NewestEmitted asks for.
Due(k) ==
  /\ k \in (Readable \cap Selected) \ late /\ Unmoved(k)
  /\ ~ \E l \in Readable : l.id = k.id /\ l.ts > k.ts

\* Iterator c of an index is at row q, or comes to it.
RowAhead(c, q) == ~ c.end /\ (c.row = q \/ (c.nextIdx # 0 /\ c.nextIdx <= q))

\* Iterator c of the memtable is at key k, or comes to it.
KeyAhead(c, k) ==
  ~ c.end /\ (c.cur = k \/ (c.next # None /\ (c.next = k \/ Before(c.next, k))))

\* Of sorted sources, the iterator of the source that holds a version due is at
\* it, or comes to it, until it is returned.
Covered ==
  pc # "init" /\ Sorted =>
    /\ \A k \in mt : Due(k) => k \in Range(emitted) \/ KeyAhead(mit, k)
    /\ \A i \in Index : \A q \in DOMAIN keys[i] :
         Due(keys[i][q]) => keys[i][q] \in Range(emitted) \/ RowAhead(iit[i], q)

\* Before the iteration the call is still before its loop.
Begun == at = "begin" => pc = "init"

ListIInv == Walk /\ Covered /\ Begun

\* A version due is held and may be returned by its source.
LEMMA DueOffered ==
  ASSUME Cursors, Places, NEW k, Due(k)
  PROVE  /\ k \in Key /\ k.ts <= ReadTs /\ k.ts \in Int /\ k \notin late
         /\ k \in mt => k \in filter.match
         /\ \A i \in Index : k \in Holds(i) => k \in filter.posting /\ k \notin mt
<1>1. k \in Stored /\ k.ts <= ReadTs /\ k \in Selected /\ k \notin late
  BY DEF Due, Readable
<1>2. /\ \A i \in Index : i \in Source /\ i # 0 /\ Holds(i) = Range(keys[i])
      /\ 0 \in Source /\ Holds(0) = mt
  BY IteratorAssumption DEF Index, Source, Holds
<1>3. mt \subseteq Key /\ \A i \in Index : Holds(i) \subseteq Key
  BY <1>2, LenProperties DEF Cursors, Range
<1>4. k \in Key
  BY <1>1, <1>2, <1>3 DEF Stored
<1>5. k.ts \in Int
  BY <1>4, IteratorAssumption
<1>6. \A i \in Index : k \in Holds(i) => k \notin mt
  BY <1>2 DEF Places
<1>7. QED BY <1>1, <1>4, <1>5, <1>6 DEF Selected

\* Another version of an event that is due is not newer, if it may be returned;
\* and it starts at the same time.
LEMMA DueNewest ==
  ASSUME Cursors, Places, NEW k, Due(k),
         NEW s \in Source, NEW l \in Holds(s), l.id = k.id
  PROVE  /\ l \in Key /\ SameEvent(l, k)
         /\ l.ts <= ReadTs => l.ts <= k.ts
         /\ l.ts <= ReadTs => ~ Before(l, k)
<1>1. l \in Stored /\ l \in Key
  <2>1. mt \subseteq Key /\ \A i \in Index : Range(keys[i]) \subseteq Key
    BY LenProperties DEF Cursors, Range
  <2>2. s = 0 \/ s \in Index
    BY IteratorAssumption DEF Source, Index
  <2>3. QED BY <2>1, <2>2 DEF Holds, Stored
<1>2. l.start = k.start
  BY <1>1 DEF Due, Unmoved
<1>3. k \in Key
  BY DueOffered
<1>4. l.ts \in Int /\ k.ts \in Int /\ l.start \in Int /\ l.id \in Int
  BY <1>1, <1>3, IteratorAssumption
<1>5. l.ts <= ReadTs => ~ (l.ts > k.ts)
  BY <1>1 DEF Due, Readable
<1>6. QED BY <1>1, <1>2, <1>4, <1>5 DEF SameEvent, Before

\* The iterator of an index goes no further than to the next version due.
LEMMA IndexKeeps ==
  ASSUME Cursors, Places, Sorted, NEW i \in Index, NEW q \in DOMAIN keys[i],
         Due(keys[i][q]), ~ iit[i].end, iit[i].nextIdx # 0, iit[i].nextIdx <= q
  PROVE  RowAhead(IndexNext(i), q)
<1> DEFINE x == iit[i].nextIdx
           n == IndexNext(i)
           k == keys[i][q]
<1>1. /\ keys \in [Index -> Seq(Key)] /\ iit[i] \in [row : Nat, nextIdx : Nat, end : BOOLEAN]
      /\ x = Advance(i, iit[i].row) /\ i \in Source /\ i # 0
      /\ \A r \in DOMAIN keys[i] : keys[i][r] \in Holds(i)
  <2>1. i \in Source /\ i # 0
    BY IteratorAssumption DEF Source, Index
  <2>2. \A r \in DOMAIN keys[i] : keys[i][r] \in Holds(i)
    BY <2>1 DEF Holds, Range
  <2>3. /\ keys \in [Index -> Seq(Key)] /\ iit[i] \in [row : Nat, nextIdx : Nat, end : BOOLEAN]
        /\ x = Advance(i, iit[i].row)
    BY DEF Cursors
  <2>4. QED BY <2>1, <2>2, <2>3
<1>2. /\ x \in Nat /\ x \in DOMAIN keys[i] /\ keys[i][x].ts <= ReadTs
      /\ keys[i][x] \in filter.posting
  BY <1>1, AdvanceRow
<1>3. n = [row |-> x, nextIdx |-> Advance(i, x), end |-> FALSE]
  BY DEF IndexNext
<1>4. CASE q = x
  <2> HIDE DEF n, x
  <2>1. QED BY <1>3, <1>4 DEF RowAhead, n
<1>5. CASE q # x
  <2>1. x < q /\ q \in Nat /\ x > 0
    <3>1. DOMAIN keys[i] = 1 .. Len(keys[i])
      BY <1>1, LenProperties
    <3> HIDE DEF x
    <3>2. QED BY <1>2, <1>5, <3>1 DEF x
  <2>2. Before(keys[i][x], k)
    BY <1>1, <1>2, <2>1, SortedPairs
  <2>3. keys[i][x].id # k.id
    BY <1>1, <1>2, <2>2, DueNewest
  <2>4. k \in filter.posting /\ k.ts <= ReadTs
    BY <1>1, DueOffered
  <2> HIDE DEF x, n
  <2>5. Advance(i, x) # 0 /\ Advance(i, x) <= q
    BY <1>1, <1>2, <2>1, <2>3, <2>4, AdvanceRow
  <2>6. QED BY <1>3, <2>5 DEF RowAhead, n
<1>6. QED BY <1>4, <1>5

\* So does that of the memtable.
LEMMA MemKeeps ==
  ASSUME Cursors, Places, NEW k \in mt, Due(k), ~ mit.end,
         \/ mit.cur = None /\ mit.next = None
         \/ mit.next # None /\ (mit.next = k \/ Before(mit.next, k))
  PROVE  KeyAhead(MemNext, k)
<1> DEFINE from == IF mit.cur = None /\ mit.next = None THEN First(mt) ELSE mit.next
           S == {l \in mt \cap filter.match :
                   /\ from # None /\ (l = from \/ Before(from, l))
                   /\ l.ts <= ReadTs /\ ~Shadowed(l)}
           hit == First(S)
<1>1. mt \in SUBSET Key /\ None \notin Key /\ 0 \in Source /\ Holds(0) = mt
  BY IteratorAssumption DEF Cursors, Source, Holds
<1>2. from # None /\ (k = from \/ Before(from, k))
  <2>1. CASE mit.cur = None /\ mit.next = None
    <3>1. from = First(mt) /\ First(mt) \in mt
      BY <1>1, <2>1, FirstKey
    <3>2. k = First(mt) \/ Before(First(mt), k)
      BY <1>1, FirstKey
    <3>3. QED BY <1>1, <3>1, <3>2
  <2>2. CASE ~ (mit.cur = None /\ mit.next = None)
    BY <2>2
  <2>3. QED BY <2>1, <2>2
<1>3. ~ Shadowed(k)
  <2>1. ASSUME NEW l \in mt, l.id = k.id, l.ts <= ReadTs, Before(l, k) PROVE FALSE
    BY <1>1, <2>1, DueNewest
  <2>2. QED BY <2>1 DEF Shadowed
<1>4. MemNext = Found(hit)
  <2>1. from # None
    BY <1>2
  <2>2. QED BY <2>1 DEF MemNext
<1>5. S \in SUBSET Key /\ k \in S
  BY <1>1, <1>2, <1>3, DueOffered
<1> HIDE DEF from
<1>6. hit \in S /\ (k = hit \/ Before(hit, k))
  BY <1>5, FirstKey
<1> HIDE DEF hit
<1>7. hit \in mt /\ hit \in Key /\ hit # None
  BY <1>1, <1>6
<1>8. MemNext = [cur |-> hit, next |-> Succ(hit), end |-> FALSE]
  BY <1>4, <1>7 DEF Found
<1>9. CASE k = hit
  BY <1>8, <1>9 DEF KeyAhead
<1>10. CASE Before(hit, k)
  <2> DEFINE T == {l \in mt : Before(hit, l)}
  <2>1. T \in SUBSET Key /\ k \in T
    BY <1>1, <1>10
  <2>2. First(T) \in T /\ (k = First(T) \/ Before(First(T), k))
    BY <2>1, FirstKey
  <2>3. Succ(hit) # None /\ (Succ(hit) = k \/ Before(Succ(hit), k))
    BY <1>1, <2>1, <2>2 DEF Succ
  <2>4. QED BY <1>8, <2>3 DEF KeyAhead
<1>11. QED BY <1>6, <1>9, <1>10

\* A source at a version due does not tie with a source before it.
LEMMA DueNotPassed ==
  ASSUME Cursors, Places, pc # "init", NEW u \in Source, Valid(u), Due(Value(u))
  PROVE  ~ Passed(u)
<1> DEFINE prior == {s \in Source : s < u /\ Valid(s)}
           b == MinIndex(prior)
           k == Value(u)
<1>1. SUFFICES ASSUME prior # {}, SameEvent(k, Value(b)), k.ts <= Value(b).ts
               PROVE  FALSE
  BY DEF Passed
<1>2. prior \in SUBSET Source /\ \A s \in prior : Valid(s) /\ s < u
  OBVIOUS
<1> HIDE DEF prior
<1>3. b \in prior
  BY <1>1, <1>2, MinIndexIs
<1>4. b \in Source /\ Valid(b) /\ b # u
  <2>1. b \in Source /\ Valid(b) /\ b < u
    BY <1>2, <1>3
  <2>2. b \in Int
    BY <2>1, IteratorAssumption DEF Source
  <2>3. QED BY <2>1, <2>2
<1> HIDE DEF b
<1>5. Value(b) \in Holds(b) /\ Value(b).ts <= ReadTs /\ k \in Holds(u)
  BY <1>4 DEF Cursors, Offers
<1>6. /\ Value(b) \in Key /\ Value(b).ts <= k.ts /\ k \in Key
  BY <1>1, <1>4, <1>5, DueNewest, DueOffered DEF SameEvent
<1>7. Value(b) = k
  <2>1. /\ Value(b) \in [start : Int, id : Int, ts : Int]
        /\ k \in [start : Int, id : Int, ts : Int]
    BY <1>6, IteratorAssumption
  <2> HIDE DEF k
  <2>2. QED BY <1>1, <1>6, <2>1 DEF SameEvent
<1>8. QED BY <1>4, <1>5, <1>7 DEF Places

\* What is due depends on what is stored only.
LEMMA DueSame ==
  ASSUME UNCHANGED <<mt, late, keys, filter>>
  PROVE  /\ \A k : Due(k)' = Due(k)
         /\ Sorted' = Sorted
BY DEF Due, Readable, Stored, Selected, Unmoved, Sorted

\* Start brings every iterator to its first key, and no version due is before it.
LEMMA StartCovers ==
  ASSUME Walk, Start
  PROVE  Covered'
<1>1. Cursors /\ Places
  BY DEF Walk
<1>2. /\ pc = "init" /\ Step(Source) /\ UNCHANGED <<mt, late, keys, filter>>
      /\ mit = [cur |-> None, next |-> None, end |-> FALSE]
      /\ \A i \in Index : iit[i] = NewIndexIterator(i)
      /\ keys \in [Index -> Seq(Key)]
  BY <1>1 DEF Start, Cursors
<1>3. /\ mit' = MemNext /\ \A i \in Index : i \in Source /\ iit'[i] = IndexNext(i)
      /\ \A i \in Index : \A q \in DOMAIN keys[i] : keys[i][q] \in Holds(i)
  BY <1>2, IteratorAssumption DEF Step, Source, Index, Holds, Range
<1>4. ASSUME NEW k \in mt, Due(k) PROVE KeyAhead(MemNext, k)
  BY <1>1, <1>2, <1>4, MemKeeps
<1>5. ASSUME Sorted, NEW i \in Index, NEW q \in DOMAIN keys[i], Due(keys[i][q])
      PROVE  RowAhead(IndexNext(i), q)
  <2>1. q > 0 /\ q \in Nat
    <3>1. DOMAIN keys[i] = 1 .. Len(keys[i])
      BY <1>2, LenProperties
    <3>2. QED BY <3>1
  <2>2. keys[i][q] \in filter.posting /\ keys[i][q].ts <= ReadTs
    BY <1>1, <1>3, <1>5, DueOffered
  <2>3. Advance(i, 0) # 0 /\ Advance(i, 0) <= q
    <3>1. 0 \in Nat /\ ~ (0 > 0)
      OBVIOUS
    <3>2. QED BY <1>2, <2>1, <2>2, <3>1, AdvanceRow
  <2>4. ~ iit[i].end /\ iit[i].nextIdx = Advance(i, 0)
    <3>1. iit[i] = NewIndexIterator(i)
      BY <1>2
    <3>2. QED BY <3>1 DEF NewIndexIterator
  <2>5. QED BY <1>1, <1>5, <2>3, <2>4, IndexKeeps
<1>6. QED BY <1>2, <1>3, <1>4, <1>5, DueSame DEF Covered

\* Emit moves past a version due only when it returns it.
LEMMA EmitCovers ==
  ASSUME Walk, Covered, Emit
  PROVE  Covered'
<1> DEFINE valid == {s \in Source : Valid(s)}
           m == MinIndex(valid)
           S == {m} \cup {s \in Source : Passed(s)}
<1>1. Cursors /\ Places
  BY DEF Walk
<1>2. /\ pc = "next" /\ valid # {} /\ emitted' = Append(emitted, Value(m)) /\ Step(S)
      /\ UNCHANGED <<mt, late, keys, filter>>
  BY DEF Emit
<1>3. m \in Source /\ Valid(m)
  <2>1. m \in valid
    BY <1>1, <1>2, MinIndexIs
  <2>2. QED BY <2>1
<1>4. Range(emitted') = Range(emitted) \cup {Value(m)}
  <2>1. Value(m) \in Key
    <3>1. \A s \in Source : Offers(s) \subseteq Key
      BY <1>1, LenProperties DEF Offers, Holds, Cursors, Range, Source, Index
    <3>2. QED BY <1>1, <1>2, <1>3, <3>1 DEF Cursors
  <2>2. emitted \in Seq(Key)
    BY <1>1 DEF Cursors
  <2>3. QED BY <1>2, <2>1, <2>2, AppendRange
<1> HIDE DEF valid, m
<1>5. ASSUME NEW u \in S, u \in Source, Valid(u), Due(Value(u))
      PROVE  Value(u) \in Range(emitted')
  BY <1>1, <1>2, <1>4, <1>5, DueNotPassed
<1>6. /\ mit' = IF 0 \in S THEN MemNext ELSE mit
      /\ \A i \in Index : iit'[i] = IF i \in S THEN IndexNext(i) ELSE iit[i]
      /\ 0 \in Source /\ \A i \in Index : i \in Source /\ i # 0
  BY <1>2, IteratorAssumption DEF Step, Source, Index
<1> HIDE DEF S
<1>7. ASSUME NEW k \in mt, Due(k), KeyAhead(mit, k), k \notin Range(emitted')
      PROVE  KeyAhead(mit', k)
  <2>1. CASE 0 \notin S
    BY <1>6, <1>7, <2>1
  <2>2. CASE 0 \in S /\ mit.cur = k
    <3>1. Valid(0) /\ Value(0) = k
      BY <1>7, <2>2 DEF KeyAhead, Valid, Value
    <3>2. QED BY <1>5, <1>6, <1>7, <2>2, <3>1
  <2>3. CASE 0 \in S /\ mit.cur # k
    <3>1. ~ mit.end /\ mit.next # None /\ (mit.next = k \/ Before(mit.next, k))
      BY <1>7, <2>3 DEF KeyAhead
    <3>2. KeyAhead(MemNext, k)
      BY <1>1, <1>7, <3>1, MemKeeps
    <3>3. QED BY <1>6, <2>3, <3>2
  <2>4. QED BY <2>1, <2>2, <2>3
<1>8. ASSUME Sorted, NEW i \in Index, NEW q \in DOMAIN keys[i], Due(keys[i][q]),
             RowAhead(iit[i], q), keys[i][q] \notin Range(emitted')
      PROVE  RowAhead(iit'[i], q)
  <2>1. CASE i \notin S
    BY <1>6, <1>8, <2>1
  <2>2. CASE i \in S /\ iit[i].row = q
    <3>1. Valid(i) /\ Value(i) = keys[i][q]
      BY <1>6, <1>8, <2>2 DEF RowAhead, Valid, Value
    <3>2. QED BY <1>5, <1>6, <1>8, <2>2, <3>1
  <2>3. CASE i \in S /\ iit[i].row # q
    <3>1. ~ iit[i].end /\ iit[i].nextIdx # 0 /\ iit[i].nextIdx <= q
      BY <1>8, <2>3 DEF RowAhead
    <3>2. RowAhead(IndexNext(i), q)
      BY <1>1, <1>8, <3>1, IndexKeeps
    <3>3. QED BY <1>6, <2>3, <3>2
  <2>4. QED BY <2>1, <2>2, <2>3
<1>9. QED
  <2>1. /\ mt' = mt /\ keys' = keys /\ Sorted' = Sorted /\ \A k : Due(k)' = Due(k)
    BY <1>2, DueSame
  <2>2. ASSUME Sorted, NEW k \in mt, Due(k), k \notin Range(emitted')
        PROVE  KeyAhead(mit', k)
    BY <1>2, <1>4, <1>7, <2>2 DEF Covered
  <2>3. ASSUME Sorted, NEW i \in Index, NEW q \in DOMAIN keys[i], Due(keys[i][q]),
               keys[i][q] \notin Range(emitted')
        PROVE  RowAhead(iit'[i], q)
    BY <1>2, <1>4, <1>8, <2>3 DEF Covered
  <2>4. QED BY <2>1, <2>2, <2>3 DEF Covered

\* A version put while the iterators run is not due, and makes none due.
LEMMA PutItemCovers ==
  ASSUME Walk, Covered, PutItem
  PROVE  Covered'
<1>1. PICK k \in coming :
        /\ mt' = mt \cup {k} /\ late' = late \cup {k} /\ pc = "next" /\ pc' = pc
        /\ UNCHANGED <<keys, filter, mit, iit, emitted>>
  BY DEF PutItem
<1>2. ASSUME NEW l, Due(l)' PROVE Due(l) /\ l # k
  <2>1. l # k
    BY <1>1, <1>2 DEF Due
  <2>2. Stored \subseteq Stored' /\ Stored' = Stored \cup {k}
    BY <1>1 DEF Stored
  <2>3. l \in Stored /\ l.ts <= ReadTs /\ l \notin late
    BY <1>1, <1>2, <2>1, <2>2 DEF Due, Readable
  <2>4. l \in Selected
    BY <1>1, <1>2, <2>1 DEF Due, Selected
  <2>5. Unmoved(l)
    BY <1>2, <2>2 DEF Due, Unmoved
  <2>6. ~ \E n \in Readable : n.id = l.id /\ n.ts > l.ts
    BY <1>2, <2>2 DEF Due, Readable
  <2>7. QED BY <2>1, <2>3, <2>4, <2>5, <2>6 DEF Due, Readable
<1>3. Sorted' = Sorted
  BY <1>1 DEF Sorted
<1>4. QED BY <1>1, <1>2, <1>3 DEF Covered

LEMMA EndCovers ==
  ASSUME Walk, Covered, End
  PROVE  Covered'
<1>1. /\ UNCHANGED <<mt, late, keys, filter, mit, iit, emitted>> /\ pc = "next"
  BY DEF End
<1>2. QED BY <1>1, DueSame DEF Covered

\* When the iterators are at their end, all that was due was returned.
LEMMA CoveredNewest ==
  ASSUME Walk, Covered
  PROVE  NewestEmitted
<1>1. SUFFICES ASSUME pc = "end", Sorted, NEW k, Due(k) PROVE k \in Range(emitted)
  BY DEF NewestEmitted, Due
<1>2. /\ mit.end /\ \A i \in Index : iit[i].end
  <2>1. \A s \in Source : ~ Valid(s)
    BY <1>1 DEF Walk, Cursors
  <2>2. 0 \in Source /\ \A i \in Index : i \in Source /\ i # 0
    BY IteratorAssumption DEF Source, Index
  <2>3. QED BY <2>1, <2>2 DEF Valid
<1>3. CASE k \in mt
  BY <1>1, <1>2, <1>3 DEF Covered, KeyAhead
<1>4. CASE k \notin mt
  <2>1. PICK i \in Index : k \in Range(keys[i])
    BY <1>1, <1>4 DEF Due, Readable, Stored
  <2>2. PICK q \in DOMAIN keys[i] : keys[i][q] = k
    BY <2>1 DEF Range
  <2>3. QED BY <1>1, <1>2, <2>2 DEF Covered, RowAhead
<1>5. QED BY <1>3, <1>4

(***************************************************************************)
(* The calls.                                                              *)
(***************************************************************************)

\* A snapshot has every key in one place, and iterators that have not moved.
LEMMA InitWalk ==
  ASSUME Init
  PROVE  Walk /\ Covered /\ pc = "init"
<1>1. PICK f \in Snapshots :
        /\ mt = {k \in Key : f[k] = 0}
        /\ coming = {k \in Key : f[k] = Coming}
        /\ keys = [i \in Index |-> KeyList({k \in Key : f[k] = i})]
  BY DEF Init
<1>2. /\ late = {} /\ filter \in Filters
      /\ mit = [cur |-> None, next |-> None, end |-> FALSE]
      /\ iit = [i \in Index |-> NewIndexIterator(i)]
      /\ pc = "init" /\ emitted = <<>>
  BY DEF Init
<1>3. ASSUME NEW i \in Index
      PROVE  keys[i] \in Seq(Key) /\ Range(keys[i]) = {k \in Key : f[k] = i}
  <2>1. {k \in Key : f[k] = i} \in SUBSET Key
    OBVIOUS
  <2>2. keys[i] = KeyList({k \in Key : f[k] = i})
    BY <1>1
  <2> DEFINE S == {k \in Key : f[k] = i}
  <2> HIDE DEF S
  <2>3. S \in SUBSET Key => Lists(KeyList(S), S)
    BY KeyListLists
  <2> USE DEF S
  <2>4. QED BY <2>1, <2>2, <2>3 DEF Lists
<1>4. /\ 0 \in Source /\ 0 \notin Index /\ Source = {0} \cup Index
      /\ \A i \in Index : i # 0 /\ i # Coming
  BY IteratorAssumption DEF Source, Index, Coming
<1>5. \A s \in Source : Holds(s) = {k \in Key : f[k] = s} /\ s # Coming
  BY <1>1, <1>3, <1>4 DEF Holds, Coming
<1>6. Places
  BY <1>1, <1>5 DEF Places
<1>7. keys \in [Index -> Seq(Key)]
  BY <1>1, <1>3
<1>8. ASSUME NEW i \in Index
      PROVE  /\ iit[i] = NewIndexIterator(i)
             /\ iit[i] \in [row : Nat, nextIdx : Nat, end : BOOLEAN]
             /\ iit[i].nextIdx = Advance(i, iit[i].row)
  <2>1. iit[i] = [row |-> 0, nextIdx |-> Advance(i, 0), end |-> FALSE]
    BY <1>2 DEF NewIndexIterator
  <2>2. 0 \in Nat /\ Advance(i, 0) \in Nat
    BY <1>7, AdvanceRow
  <2>3. QED BY <1>2, <2>1, <2>2 DEF NewIndexIterator
<1>9. iit \in [Index -> [row : Nat, nextIdx : Nat, end : BOOLEAN]]
  BY <1>2, <1>8
<1>10. mit \in [cur : Key \cup {None}, next : Key \cup {None}, end : BOOLEAN]
  BY <1>2
<1>11. emitted \in Seq(Key) /\ Range(emitted) = {} /\ DOMAIN emitted = {}
  BY <1>2, EmptySeq DEF Range
<1>12. Cursors
  BY <1>1, <1>2, <1>7, <1>8, <1>9, <1>10, <1>11 DEF Cursors
<1>13. Given /\ Ordered /\ OnePerSource
  BY <1>2, <1>11 DEF Given, Ordered, OnePerSource
<1>14. QED BY <1>2, <1>6, <1>12, <1>13 DEF Walk, Covered

\* A merge of two indexes before the iteration leaves every key where it may be.
LEMMA MergeFirstStep ==
  ASSUME ListIInv, MergeFirst
  PROVE  ListIInv'
<1>1. /\ at = "begin" /\ Indexes > 1
      /\ keys' = [keys EXCEPT ![1] = Merged(keys[1], keys[2]), ![2] = <<>>]
      /\ UNCHANGED <<mt, coming, late, filter, mit, pc, emitted, listVars>>
      /\ iit' = [i \in Index |-> NewIndexIterator(i)']
  BY DEF MergeFirst
<1>2. /\ Cursors /\ Places /\ pc = "init" /\ emitted = <<>>
      /\ mit = [cur |-> None, next |-> None, end |-> FALSE]
      /\ keys \in [Index -> Seq(Key)]
  BY <1>1 DEF ListIInv, Walk, Begun, Cursors
<1>3. /\ 1 \in Index /\ 2 \in Index /\ 0 \notin Index /\ Source = {0} \cup Index
  BY <1>1, IteratorAssumption DEF Source, Index
<1>4. /\ Merged(keys[1], keys[2]) \in Seq(Key)
      /\ Range(Merged(keys[1], keys[2])) = Range(keys[1]) \cup Range(keys[2])
  BY <1>2, <1>3, MergedRange
<1>5. /\ keys' \in [Index -> Seq(Key)]
      /\ keys'[1] = Merged(keys[1], keys[2]) /\ keys'[2] = <<>>
      /\ \A i \in Index \ {1, 2} : keys'[i] = keys[i]
  <2> DEFINE m == Merged(keys[1], keys[2])
             e == <<>>
  <2>1. m \in Seq(Key) /\ e \in Seq(Key)
    BY <1>4, EmptySeq
  <2>2. keys' = [keys EXCEPT ![1] = m, ![2] = e]
    BY <1>1
  <2> HIDE DEF m, e
  <2>3. /\ keys' \in [Index -> Seq(Key)] /\ keys'[1] = m /\ keys'[2] = e
        /\ \A i \in Index \ {1, 2} : keys'[i] = keys[i]
    BY <1>2, <1>3, <2>1, <2>2
  <2>4. QED BY <2>3 DEF m, e
<1>6. /\ Holds(1)' = Holds(1) \cup Holds(2) /\ Holds(2)' = {}
      /\ \A s \in Source \ {1, 2} : Holds(s)' = Holds(s)
  <2>1. Range(keys'[2]) = {}
    BY <1>5 DEF Range
  <2>2. \A s \in Source \ {1, 2} : s = 0 \/ s \in Index \ {1, 2}
    BY <1>3
  <2>3. QED BY <1>1, <1>3, <1>4, <1>5, <2>1, <2>2 DEF Holds
<1>7. Places'
  <2>1. coming' = coming /\ 1 \in Source /\ 2 \in Source
    BY <1>1, <1>3
  <2>2. \A s \in Source : Holds(s)' \cap coming = {}
    BY <1>2, <1>6, <2>1 DEF Places
  <2>3. ASSUME NEW s \in Source, NEW u \in Source, s # u
        PROVE  Holds(s)' \cap Holds(u)' = {}
    BY <1>2, <1>6, <2>1, <2>3 DEF Places
  <2>4. QED BY <2>1, <2>2, <2>3 DEF Places
<1>8. ASSUME NEW i \in Index
      PROVE  /\ iit'[i] = NewIndexIterator(i)'
             /\ iit'[i] \in [row : Nat, nextIdx : Nat, end : BOOLEAN]
             /\ (iit[i].nextIdx = Advance(i, iit[i].row))'
  <2>1. iit'[i] = NewIndexIterator(i)'
    BY <1>1
  <2>2. (NewIndexIterator(i) = [row |-> 0, nextIdx |-> Advance(i, 0), end |-> FALSE])'
    BY DEF NewIndexIterator
  <2>3. 0 \in Nat /\ (Advance(i, 0) \in Nat)'
    <3> DEFINE T == {q \in DOMAIN keys'[i] :
                       /\ q > 0 /\ keys'[i][q] \in filter'.posting
                       /\ keys'[i][q].ts <= ReadTs
                       /\ 0 > 0 => keys'[i][q].id # keys'[i][0].id}
    <3>1. T \in SUBSET Nat
      BY <1>5, LenProperties
    <3>2. Advance(i, 0)' = IF T = {} THEN 0 ELSE Min(T)
      BY DEF Advance
    <3> HIDE DEF T
    <3>3. QED BY <3>1, <3>2, LeastRow
  <2>4. iit'[i] = [row |-> 0, nextIdx |-> Advance(i, 0)', end |-> FALSE]
    BY <2>1, <2>2
  <2>5. iit'[i].row = 0 /\ iit'[i].nextIdx = Advance(i, 0)'
    BY <2>4
  <2>6. (iit[i].nextIdx = Advance(i, iit[i].row))'
    BY <2>5
  <2>7. QED BY <2>1, <2>3, <2>4, <2>6
<1>9. iit' \in [Index -> [row : Nat, nextIdx : Nat, end : BOOLEAN]]
  BY <1>1, <1>8
<1>10. Cursors'
  <2>1. /\ mt' \subseteq Key /\ coming' \subseteq Key /\ late' \subseteq mt'
        /\ filter' \in Filters /\ emitted' \in Seq(Key)
        /\ mit' \in [cur : Key \cup {None}, next : Key \cup {None}, end : BOOLEAN]
    BY <1>1, <1>2 DEF Cursors
  <2>2. (\A i \in Index : iit[i].nextIdx = Advance(i, iit[i].row))'
    BY <1>8
  <2>3. (\A i \in Index : iit[i] = NewIndexIterator(i))'
    BY <1>8
  <2>4. QED BY <1>1, <1>2, <1>5, <1>9, <2>1, <2>2, <2>3 DEF Cursors
<1>11. /\ emitted' = <<>> /\ pc' = "init" /\ Range(emitted') = {} /\ DOMAIN emitted' = {}
  BY <1>1, <1>2 DEF Range
<1>12. Given' /\ Ordered' /\ OnePerSource' /\ Covered' /\ Begun'
  BY <1>11 DEF Given, Ordered, OnePerSource, Covered, Begun
<1>13. QED BY <1>7, <1>10, <1>12 DEF ListIInv, Walk

\* Every step of a call keeps the invariant.
LEMMA ListStep ==
  ASSUME ListIInv, [ListNext]_allVars
  PROVE  ListIInv'
<1>1. CASE MergeFirst
  BY <1>1, MergeFirstStep
<1>2. ASSUME UNCHANGED vars, at' = "begin" => at = "begin"
      PROVE  ListIInv'
  <2>1. UNCHANGED <<mt, coming, late, keys, filter, mit, iit, pc, emitted>>
    BY <1>2 DEF vars
  <2>2. /\ \A s : /\ Holds(s)' = Holds(s) /\ Offers(s)' = Offers(s)
                  /\ Valid(s)' = Valid(s) /\ Value(s)' = Value(s)
        /\ \A k : Holders(k)' = Holders(k) /\ Due(k)' = Due(k)
        /\ \A i, r : Advance(i, r)' = Advance(i, r)
        /\ Sorted' = Sorted
    BY <2>1, DueSame DEF Holds, Offers, Valid, Value, Holders, Advance, Sorted
  <2>3. \A i : NewIndexIterator(i)' = NewIndexIterator(i)
    BY <2>2 DEF NewIndexIterator
  <2>4. Cursors'
    BY <2>1, <2>2, <2>3 DEF ListIInv, Walk, Cursors
  <2>5. Places' /\ Given'
    BY <2>1, <2>2 DEF ListIInv, Walk, Places, Given
  <2>6. Ordered' /\ OnePerSource'
    BY <2>1, <2>2 DEF ListIInv, Walk, Ordered, OnePerSource
  <2>7. Covered'
    BY <2>1, <2>2 DEF ListIInv, Covered
  <2>8. Begun'
    BY <1>2, <2>1 DEF ListIInv, Begun
  <2>9. QED BY <2>4, <2>5, <2>6, <2>7, <2>8 DEF ListIInv, Walk
<1>3. CASE Begin \/ Fail \/ Cut \/ Lookup \/ UNCHANGED allVars
  <2>1. UNCHANGED vars
    BY <1>3 DEF Begin, Fail, Cut, Lookup, allVars
  <2>2. at' = "begin" => at = "begin"
    BY <1>3 DEF Begin, Fail, Cut, Lookup, allVars, listVars
  <2>3. QED BY <1>2, <2>1, <2>2
<1>4. CASE Initialise
  BY <1>4, StartStep, StartCovers DEF ListIInv, Begun, Initialise, Advancing, listVars
<1>5. CASE Collect
  BY <1>5, EmitStep, EmitCovers DEF ListIInv, Begun, Collect, Advancing
<1>6. CASE Exhaust
  BY <1>6, EndStep, EndCovers DEF ListIInv, Begun, Exhaust, Advancing
<1>7. CASE Puts
  BY <1>7, PutItemStep, PutItemCovers DEF ListIInv, Begun, Puts, listVars
<1>8. QED BY <1>1, <1>3, <1>4, <1>5, <1>6, <1>7 DEF ListNext

\* The invariant holds of every call.
LEMMA ListInvariant == ListSpec => []ListIInv
<1>1. ListInit => ListIInv
  BY InitWalk DEF ListInit, ListIInv, Begun
<1>2. ListIInv /\ [ListNext]_allVars => ListIInv'
  BY ListStep
<1>3. QED BY <1>1, <1>2, PTL DEF ListSpec

\* Of sorted sources a call gets keys in strictly descending order, whatever the
\* write worker puts meanwhile, whichever sources share events, and for any
\* number of them (iterator_merge.go:35-65).
THEOREM KeysDescend == ListSpec => []EmittedDescend
<1>1. ListIInv => EmittedDescend
  <2>1. SUFFICES ASSUME ListIInv, Sorted, NEW n \in 1 .. Len(emitted) - 1
                 PROVE  Before(emitted[n], emitted[n + 1])
    BY DEF EmittedDescend
  <2>2. DOMAIN emitted = 1 .. Len(emitted) /\ Len(emitted) \in Nat
    BY <2>1, LenProperties DEF ListIInv, Walk, Cursors
  <2>3. n \in DOMAIN emitted /\ n + 1 \in DOMAIN emitted /\ n < n + 1
    BY <2>2
  <2>4. QED BY <2>1, <2>3 DEF ListIInv, Walk, Ordered
<1>2. QED BY <1>1, ListInvariant, PTL

\* A sorted source gives a call one version of an event at most
\* (iterator_memtable.go:55, iterator_index.go:95).
THEOREM SourcesGiveOne == ListSpec => []OnePerSource
<1>1. ListIInv => OnePerSource
  BY DEF ListIInv, Walk
<1>2. QED BY <1>1, ListInvariant, PTL

\* Iterators of sorted sources that have come to their end have returned the
\* newest readable version of every event that has kept its start time, if it
\* was stored when they began and the filter selects it
\* (iterator_memtable.go:55, iterator_index.go:95, iterator_merge.go:47-55).
THEOREM NewestReturned == ListSpec => []NewestEmitted
<1>1. ListIInv => NewestEmitted
  BY CoveredNewest DEF ListIInv
<1>2. QED BY <1>1, ListInvariant, PTL

(***************************************************************************)
(* The page and its token.                                                 *)
(***************************************************************************)

\* Of any sources, sorted or not, no key is returned twice: every source is past
\* the keys that it holds of those returned.
Unrepeated ==
  /\ \A i \in Index : Distinct(keys[i])
  /\ Distinct(emitted)
  /\ pc # "init" =>
       /\ \A k \in mt \cap Range(emitted) : mit.end \/ Before(k, mit.cur)
       /\ \A i \in Index : \A q \in DOMAIN keys[i] :
            keys[i][q] \in Range(emitted) => iit[i].end \/ q < iit[i].row

\* Until the loop ends the page is what was returned but for the deletions, of
\* the size of a page and one key at most, the last of which came last.
Filling ==
  at \in {"begin", "loop"} =>
    /\ page \in Seq(Key) /\ Range(page) = Range(emitted) \ Tombstone /\ Distinct(page)
    /\ token = None /\ events = <<>>
    /\ at = "begin" => page = <<>>
    /\ at = "loop" =>
         /\ Len(page) <= PageSize
         /\ page # <<>> /\ Len(page) = PageSize => emitted # <<>> /\ Last(page) = Last(emitted)

\* Then it does not change any more, nor does what was returned.
Filled ==
  /\ size \in Int /\ -MaxSize - 1 <= size /\ size <= MaxSize
  /\ at \in {"begin", "loop", "lookup", "done", "panic", "failed"}
  /\ at = "lookup" => page \in Seq(Key) /\ events = <<>>

PageIInv == Unrepeated /\ Filling /\ Filled /\ PageAndToken /\ ListedCurrent

\* What Emit returns was not returned before.
LEMMA EmitUnrepeated ==
  ASSUME Walk, Unrepeated, Emit
  PROVE  /\ Unrepeated'
         /\ \E v \in Key \ Range(emitted) : emitted' = Append(emitted, v)
<1> DEFINE valid == {s \in Source : Valid(s)}
           m == MinIndex(valid)
           S == {m} \cup {s \in Source : Passed(s)}
           v == Value(m)
<1>1. Cursors /\ Places /\ emitted \in Seq(Key) /\ keys \in [Index -> Seq(Key)]
  BY DEF Walk, Cursors
<1>2. /\ pc = "next" /\ valid # {} /\ emitted' = Append(emitted, v) /\ Step(S)
      /\ UNCHANGED <<mt, keys, pc>>
  BY DEF Emit
<1>3. m \in Source /\ Valid(m) /\ m \in S
  <2>1. m \in valid
    BY <1>1, <1>2, MinIndexIs
  <2>2. QED BY <2>1
<1>4. /\ mit' = IF 0 \in S THEN MemNext ELSE mit
      /\ \A i \in Index : iit'[i] = IF i \in S THEN IndexNext(i) ELSE iit[i]
      /\ 0 \in Source /\ Source = {0} \cup Index /\ 0 \notin Index
  BY <1>2, IteratorAssumption DEF Step, Source, Index
<1> HIDE DEF valid, m, S
<1>5. /\ v \in Holds(m) /\ v \in Key
      /\ m = 0 => ~ mit.end /\ mit.cur = v
      /\ m # 0 => ~ iit[m].end /\ iit[m].row \in DOMAIN keys[m] /\ keys[m][iit[m].row] = v
  <2>1. v \in Offers(m)
    BY <1>1, <1>2, <1>3 DEF Cursors
  <2>2. Holds(m) \subseteq Key
    BY <1>1, <1>3, <1>4, LenProperties DEF Cursors, Holds, Range
  <2>3. m # 0 => iit[m].row \in DOMAIN keys[m]
    BY <1>1, <1>2, <1>3, <1>4 DEF Cursors, Valid
  <2>4. QED BY <1>3, <2>1, <2>2, <2>3 DEF Offers, Valid, Value
<1> HIDE DEF v
<1>6. v \notin Range(emitted)
  <2>1. CASE m = 0
    <3>1. v \in mt /\ mit.cur = v /\ ~ mit.end
      BY <1>5, <2>1 DEF Holds
    <3>2. ~ Before(v, v)
      BY <1>5, BeforeOrder
    <3>3. QED BY <1>2, <3>1, <3>2 DEF Unrepeated
  <2>2. CASE m # 0
    <3>1. m \in Index /\ iit[m].row \in Nat
      BY <1>1, <1>3, <1>4, <2>2 DEF Cursors
    <3>2. QED BY <1>2, <1>5, <2>2, <3>1 DEF Unrepeated
  <2>3. QED BY <2>1, <2>2
<1>7. Range(emitted') = Range(emitted) \cup {v}
  BY <1>1, <1>2, <1>5, AppendRange
<1>8. Distinct(emitted')
  <2>1. /\ DOMAIN emitted' = 1 .. Len(emitted) + 1 /\ DOMAIN emitted = 1 .. Len(emitted)
        /\ Len(emitted) \in Nat /\ emitted'[Len(emitted) + 1] = v
        /\ \A n \in 1 .. Len(emitted) : emitted'[n] = emitted[n] /\ emitted[n] \in Range(emitted)
    BY <1>1, <1>2, <1>5, AppendRange
  <2>2. ASSUME NEW x \in DOMAIN emitted', NEW y \in DOMAIN emitted', x # y
        PROVE  emitted'[x] # emitted'[y]
    <3>1. \A n \in DOMAIN emitted' : n = Len(emitted) + 1 \/ n \in DOMAIN emitted
      BY <2>1
    <3>2. Distinct(emitted)
      BY DEF Unrepeated
    <3>3. CASE x \in DOMAIN emitted /\ y \in DOMAIN emitted
      BY <2>1, <2>2, <3>2, <3>3 DEF Distinct
    <3>4. CASE ~ (x \in DOMAIN emitted /\ y \in DOMAIN emitted)
      BY <1>6, <2>1, <2>2, <3>1, <3>4
    <3>5. QED BY <3>3, <3>4
  <2>3. QED BY <2>2 DEF Distinct
<1>9. ASSUME NEW k \in mt \cap Range(emitted'), ~ mit'.end
      PROVE  Before(k, mit'.cur)
  <2>1. CASE 0 \in S
    <3>1. /\ ~ mit.end /\ Before(mit.cur, mit'.cur) /\ mit'.cur \in mt
      BY <1>1, <1>2, <1>4, <1>9, <2>1, MemMoves
    <3>2. mit.cur \in mt /\ mt \subseteq Key
      BY <1>1, <1>2, <1>4, <3>1 DEF Cursors, Valid, Value, Offers, Holds
    <3>3. k = mit.cur \/ Before(k, mit.cur)
      <4>1. CASE k \in Range(emitted)
        BY <1>2, <1>9, <3>1, <4>1 DEF Unrepeated
      <4>2. CASE k = v
        <5>1. m = 0
          BY <1>1, <1>3, <1>4, <1>5, <1>9, <4>2 DEF Places, Holds
        <5>2. QED BY <1>5, <4>2, <5>1
      <4>3. QED BY <1>7, <1>9, <4>1, <4>2
    <3>4. QED BY <1>9, <3>1, <3>2, <3>3, BeforeOrder
  <2>2. CASE 0 \notin S
    <3>1. mit' = mit
      BY <1>4, <2>2
    <3>2. m # 0
      BY <1>3, <2>2
    <3>3. k # v
      BY <1>1, <1>3, <1>4, <1>5, <1>9, <3>2 DEF Places, Holds
    <3>4. k \in mt \cap Range(emitted)
      BY <1>7, <1>9, <3>3
    <3>5. QED BY <1>2, <1>9, <3>1, <3>4 DEF Unrepeated
  <2>3. QED BY <2>1, <2>2
<1>10. ASSUME NEW i \in Index, NEW q \in DOMAIN keys[i], keys[i][q] \in Range(emitted'),
              ~ iit'[i].end
       PROVE  q < iit'[i].row
  <2>1. /\ iit[i].row \in Nat /\ q \in Nat /\ keys[i][q] \in Holds(i) /\ i \in Source /\ i # 0
    BY <1>1, <1>4, LenProperties DEF Cursors, Holds, Range
  <2>2. keys[i][q] = v => m = i
    BY <1>1, <1>3, <1>5, <2>1 DEF Places
  <2>3. keys[i][q] = v => iit[i].row = q
    <3>1. Distinct(keys[i])
      BY DEF Unrepeated
    <3>2. QED BY <1>5, <2>1, <2>2, <3>1 DEF Distinct
  <2>4. keys[i][q] \in Range(emitted) => iit[i].end \/ q < iit[i].row
    BY <1>2 DEF Unrepeated
  <2>5. CASE i \in S
    <3>1. ~ iit[i].end /\ iit'[i].row > iit[i].row /\ iit'[i].row \in Nat
      BY <1>1, <1>4, <1>10, <2>5, IndexMoves
    <3>2. q <= iit[i].row
      BY <1>7, <1>10, <2>1, <2>3, <2>4, <3>1
    <3>3. QED BY <2>1, <3>1, <3>2
  <2>6. CASE i \notin S
    <3>1. iit'[i] = iit[i] /\ keys[i][q] # v
      BY <1>3, <1>4, <2>2, <2>6
    <3>2. QED BY <1>7, <1>10, <2>4, <3>1
  <2>7. QED BY <2>5, <2>6
<1>11. Unrepeated'
  BY <1>2, <1>8, <1>9, <1>10 DEF Unrepeated
<1>12. QED BY <1>2, <1>5, <1>6, <1>11

\* Nor do the other steps let a source come to a key returned before.
LEMMA StepUnrepeated ==
  ASSUME ListIInv, Unrepeated, [ListNext]_allVars
  PROVE  Unrepeated'
<1>1. Walk /\ Cursors /\ Places /\ Given
  BY DEF ListIInv, Walk
<1>2. CASE MergeFirst
  <2>1. /\ at = "begin" /\ Indexes > 1
        /\ keys' = [keys EXCEPT ![1] = Merged(keys[1], keys[2]), ![2] = <<>>]
        /\ UNCHANGED <<emitted, pc>>
    BY <1>2 DEF MergeFirst
  <2>2. /\ pc = "init" /\ keys \in [Index -> Seq(Key)]
    BY <1>1, <2>1 DEF ListIInv, Begun, Cursors
  <2>3. 1 \in Index /\ 2 \in Index /\ 1 \in Source /\ 2 \in Source
    BY <2>1, IteratorAssumption DEF Index, Source
  <2>4. Range(keys[1]) \cap Range(keys[2]) = {}
    <3>1. Holds(1) \cap Holds(2) = {}
      BY <1>1, <2>3 DEF Places
    <3>2. QED BY <3>1 DEF Holds
  <2>5. \A i \in Index : Distinct(keys[i])
    BY DEF Unrepeated
  <2> DEFINE d == Merged(keys[1], keys[2])
             e == <<>>
  <2>6. Distinct(d)
    BY <2>2, <2>3, <2>4, <2>5, MergedRange
  <2>7. Distinct(e)
    BY DEF Distinct
  <2> HIDE DEF d, e
  <2>8. keys' = [keys EXCEPT ![1] = d, ![2] = e]
    BY <2>1 DEF d, e
  <2>9. \A i \in Index : keys'[i] \in {d, e, keys[i]}
    BY <2>2, <2>8
  <2>10. \A i \in Index : Distinct(keys'[i])
    BY <2>5, <2>6, <2>7, <2>9
  <2>11. Distinct(emitted')
    BY <2>1 DEF Unrepeated
  <2>12. QED BY <2>1, <2>2, <2>10, <2>11 DEF Unrepeated
<1>3. CASE Initialise
  <2>1. Start
    BY <1>3 DEF Initialise
  <2>2. keys' = keys /\ emitted' = <<>>
    BY <1>1, <2>1 DEF Start, Cursors
  <2>3. Range(emitted') = {} /\ Distinct(emitted')
    BY <2>2 DEF Range, Distinct
  <2>4. QED BY <2>2, <2>3 DEF Unrepeated
<1>4. CASE Collect
  BY <1>1, <1>4, EmitUnrepeated DEF Collect
<1>5. CASE Puts
  <2>1. PICK k \in coming :
          /\ mt' = mt \cup {k} /\ UNCHANGED <<keys, mit, iit, pc, emitted>>
    BY <1>5 DEF Puts, PutItem
  <2>2. k \notin Range(emitted)
    BY <1>1 DEF Places, Given
  <2>3. mt' \cap Range(emitted) = mt \cap Range(emitted)
    BY <2>1, <2>2
  <2>4. QED BY <2>1, <2>3 DEF Unrepeated
<1>6. CASE Exhaust
  <2>1. UNCHANGED <<mt, keys, mit, iit, emitted>> /\ pc = "next"
    BY <1>6 DEF Exhaust, End
  <2>2. QED BY <2>1 DEF Unrepeated
<1>7. CASE Begin \/ Fail \/ Cut \/ Lookup \/ UNCHANGED allVars
  <2>1. UNCHANGED vars
    BY <1>7 DEF Begin, Fail, Cut, Lookup, allVars
  <2>2. QED BY <2>1 DEF vars, Unrepeated
<1>8. QED BY <1>2, <1>3, <1>4, <1>5, <1>6, <1>7 DEF ListNext

\* An index begins with the keys of a memtable, each once.
LEMMA InitUnrepeated ==
  ASSUME Init
  PROVE  Unrepeated
<1>1. PICK f \in Snapshots : keys = [i \in Index |-> KeyList({k \in Key : f[k] = i})]
  BY DEF Init
<1>2. ASSUME NEW i \in Index PROVE Distinct(keys[i])
  <2> DEFINE S == {k \in Key : f[k] = i}
  <2>1. S \in SUBSET Key /\ keys[i] = KeyList(S)
    BY <1>1
  <2> HIDE DEF S
  <2>2. Lists(keys[i], S)
    BY <2>1, KeyListLists
  <2>3. DOMAIN keys[i] = 1 .. Len(keys[i]) /\ \A n \in DOMAIN keys[i] : keys[i][n] \in Key
    BY <2>2, LenProperties DEF Lists
  <2>4. ASSUME NEW m \in DOMAIN keys[i], NEW n \in DOMAIN keys[i], m # n, keys[i][m] = keys[i][n]
        PROVE  FALSE
    <3>1. m < n \/ n < m
      BY <2>3, <2>4
    <3>2. Before(keys[i][m], keys[i][n]) \/ Before(keys[i][n], keys[i][m])
      BY <2>2, <2>3, <3>1 DEF Lists
    <3>3. QED BY <2>3, <2>4, <3>2, BeforeOrder
  <2>5. QED BY <2>4 DEF Distinct
<1>3. emitted = <<>> /\ pc = "init"
  BY DEF Init
<1>4. Distinct(emitted)
  BY <1>3 DEF Distinct
<1>5. QED BY <1>2, <1>3, <1>4 DEF Unrepeated

\* All of a sequence but its last key.
LEMMA FrontRange ==
  ASSUME NEW s \in Seq(Key), s # <<>>
  PROVE  /\ Len(s) \in Nat /\ Len(s) > 0
         /\ Front(s) \in Seq(Key) /\ Len(Front(s)) = Len(s) - 1
         /\ Last(s) \in Range(s) /\ Range(s) = Range(Front(s)) \cup {Last(s)}
         /\ Distinct(s) => Last(s) \notin Range(Front(s))
<1> DEFINE n == Len(s)
           t == Front(s)
<1>1. n \in Nat /\ n > 0 /\ DOMAIN s = 1 .. n /\ \A x \in 1 .. n : s[x] \in Key
  BY LenProperties, EmptySeq
<1>2. t = [x \in 1 .. n - 1 |-> s[x]]
  <2>1. t = [x \in 1 .. (n - 1) - 1 + 1 |-> s[1 + x - 1]]
    BY DEF Front
  <2>2. 1 .. (n - 1) - 1 + 1 = 1 .. n - 1 /\ \A x \in 1 .. n - 1 : 1 + x - 1 = x
    BY <1>1
  <2>3. QED BY <2>1, <2>2
<1> HIDE DEF t, n
<1>3. n - 1 \in Nat /\ \A x \in 1 .. n - 1 : x \in 1 .. n
  BY <1>1
<1>4. t \in Seq(Key) /\ Len(t) = n - 1 /\ DOMAIN t = 1 .. n - 1
  <2>1. t \in [1 .. n - 1 -> Key]
    BY <1>1, <1>2, <1>3
  <2>2. QED BY <1>3, <2>1, <1>2, IsASeq, LenProperties
<1>5. Last(s) = s[n] /\ n \in DOMAIN s
  BY <1>1 DEF Last, n
<1>6. Range(s) = Range(t) \cup {s[n]}
  <2>1. \A x \in DOMAIN s : x = n \/ x \in DOMAIN t
    BY <1>1, <1>4
  <2>2. \A x \in DOMAIN t : t[x] = s[x] /\ x \in DOMAIN s
    BY <1>1, <1>2, <1>3, <1>4
  <2>3. QED BY <1>5, <2>1, <2>2 DEF Range
<1>7. Distinct(s) => s[n] \notin Range(t)
  <2>1. \A x \in DOMAIN t : t[x] = s[x] /\ x \in DOMAIN s /\ x # n
    BY <1>1, <1>2, <1>3, <1>4
  <2>2. QED BY <1>5, <2>1 DEF Range, Distinct
<1>8. QED BY <1>1, <1>4, <1>5, <1>6, <1>7 DEF t, n, Range

\* The version in a row is one of the table, in that row.
LEMMA RowIs ==
  ASSUME NEW r, NEW t, RowAt(r, t) # None
  PROVE  /\ RowAt(r, t) \in history \ Tombstone
         /\ Row(RowAt(r, t)) = r /\ RowAt(r, t).id = r.id /\ RowAt(r, t).ts <= t
<1> DEFINE past == {k \in history : Row(k) = r /\ k.ts <= t}
           last == {k \in past \ Tombstone : \A l \in past : l.ts <= k.ts}
           c == CHOOSE k \in last : TRUE
<1>1. RowAt(r, t) = IF last = {} THEN None ELSE c
  BY DEF RowAt
<1>2. c \in last
  BY <1>1
<1>3. c \in history \ Tombstone /\ Row(c) = r /\ c.ts <= t /\ RowAt(r, t) = c
  BY <1>1, <1>2
<1> HIDE DEF c
<1>4. c.id = r.id
  BY <1>3 DEF Row
<1>5. QED BY <1>3, <1>4

\* Which is current.
LEMMA RowCurrent ==
  ASSUME NEW r, NEW t, RowAt(r, t) # None
  PROVE  RowAt(r, t) \in CurrentAt(t)
<1> DEFINE k == RowAt(r, t)
<1>1. k \in history /\ Row(k) = r
  BY RowIs
<1> HIDE DEF RowAt
<1>2. RowAt(Row(k), t) = k
  BY <1>1
<1>3. QED BY <1>1, <1>2 DEF CurrentAt

\* Place n of the page has the id of place c, whose row holds event e.
Finds(n, c, e) ==
  page[c].id = page[n].id /\ RowAt(Row(page[c]), ReadTs) = e /\ e # None

\* Each event of the answer stands for one key, of the id that led to its row,
\* and every key whose id leads to a row has one.
AnswerPlaces ==
  \E h \in [DOMAIN Answer -> DOMAIN page] :
    /\ \A x \in DOMAIN Answer : \E c \in DOMAIN page : Finds(h[x], c, Answer[x])
    /\ \A x \in DOMAIN Answer, y \in DOMAIN Answer : h[x] = h[y] => x = y
    /\ \A n \in DOMAIN page :
         (\E c \in DOMAIN page, e \in Key : Finds(n, c, e)) =>
           \E x \in DOMAIN Answer : h[x] = n

\* The answer has events that are current only, each for a key of its own.
LEMMA AnswerMakes ==
  ASSUME page \in Seq(Key)
  PROVE  /\ Answer \in Seq(CurrentAt(ReadTs))
         /\ Len(Answer) <= Len(page)
         /\ AnswerPlaces
<1> DEFINE row == [n \in DOMAIN page |-> RowAt(Row(page[n]), ReadTs)]
           found(n) == {m \in DOMAIN page : row[m] # None /\ page[m].id = page[n].id}
           N == Len(page)
           Skip == {n \in 1 .. N : found(n) = {}}
           V == [n \in 1 .. N |-> row[Max(found(n))]]
           next(g, n) == IF n = 0 THEN <<>>
                         ELSE IF found(n) = {} THEN g[n - 1]
                         ELSE Append(g[n - 1], row[Max(found(n))])
           up == CHOOSE g : g = [n \in 0 .. N |-> next(g, n)]
<1>1. N \in Nat /\ DOMAIN page = 1 .. N
  BY LenProperties
<1>2. Answer = up[N]
  BY DEF Answer, AnswerFrom
<1>3. ASSUME NEW n \in (1 .. N) \ Skip
      PROVE  /\ V[n] \in CurrentAt(ReadTs)
             /\ \E c \in DOMAIN page : Finds(n, c, V[n])
  <2> DEFINE F == found(n)
  <2>1. F # {} /\ F \subseteq 1 .. N /\ F \subseteq Nat
    BY <1>1, <1>3
  <2>2. IsFiniteSet(F)
    <3>1. 1 \in Int /\ N \in Int
      BY <1>1
    <3>2. IsFiniteSet(1 .. N)
      BY <3>1, FS_Interval
    <3> HIDE DEF N, F
    <3>3. QED BY <2>1, <3>2, FS_Subset
  <2> HIDE DEF F
  <2>3. Max(F) \in F
    <3>1. \E x \in F : \A y \in F : x >= y
      BY <2>1, <2>2, Greatest
    <3>2. QED BY <3>1 DEF Max
  <2>4. Max(F) \in DOMAIN page /\ row[Max(F)] # None
    BY <2>3 DEF F
  <2> DEFINE k == page[Max(F)]
  <2>5. row[Max(F)] = RowAt(Row(k), ReadTs)
    BY <2>4
  <2>6. row[Max(F)] \in CurrentAt(ReadTs)
    <3> HIDE DEF row, k
    <3>1. QED BY <2>4, <2>5, RowCurrent
  <2>7. V[n] = row[Max(F)]
    BY <1>3 DEF F
  <2>8. page[Max(F)].id = page[n].id
    BY <2>3 DEF F
  <2>9. Finds(n, Max(F), V[n])
    <3> HIDE DEF V, row
    <3>1. QED BY <2>4, <2>5, <2>7, <2>8 DEF Finds
  <2>10. QED BY <2>4, <2>6, <2>7, <2>9
<1>4. ASSUME NEW n \in DOMAIN page, NEW c \in DOMAIN page, NEW e, Finds(n, c, e)
      PROVE  n \in (1 .. N) \ Skip
  <2>1. row[c] # None
    BY <1>4 DEF Finds
  <2>2. c \in found(n)
    BY <1>4, <2>1 DEF Finds
  <2>3. QED BY <1>1, <2>2
<1> HIDE DEF row, N
<1>5. \E g : g = [n \in 0 .. N |-> next(g, n)]
  <2>1. PICK g : Loops(g, N, Skip, V)
    BY <1>1, LoopsExists
  <2>2. \A n \in 0 .. N : n # 0 => (n \in Skip <=> found(n) = {}) /\ V[n] = row[Max(found(n))]
    BY <1>1
  <2> HIDE DEF Skip, V, found
  <2>3. \A n \in 0 .. N : next(g, n) = IF n = 0 THEN <<>>
                                       ELSE IF n \in Skip THEN g[n - 1]
                                       ELSE Append(g[n - 1], V[n])
    BY <2>2, Zenon
  <2>4. g = [n \in 0 .. N |-> next(g, n)]
    <3> HIDE DEF next
    <3>1. QED BY <2>1, <2>3, Zenon DEF Loops
  <2>5. QED BY <2>4
<1>6. Loops(up, N, Skip, V)
  <2>1. up = [n \in 0 .. N |-> next(up, n)]
    BY <1>5
  <2>2. \A n \in 0 .. N : n # 0 => (n \in Skip <=> found(n) = {}) /\ V[n] = row[Max(found(n))]
    BY <1>1
  <2> HIDE DEF Skip, V, found, up
  <2>3. \A n \in 0 .. N : next(up, n) = IF n = 0 THEN <<>>
                                        ELSE IF n \in Skip THEN up[n - 1]
                                        ELSE Append(up[n - 1], V[n])
    BY <2>2, Zenon
  <2>4. QED
    <3> HIDE DEF next
    <3>1. QED BY <2>1, <2>3, Zenon DEF Loops
<1> HIDE DEF up, Skip, V
<1>7. /\ up[N] \in Seq(CurrentAt(ReadTs)) /\ Len(up[N]) <= N
      /\ InPlaces(up[N], (1 .. N) \ Skip, V)
  BY <1>1, <1>3, <1>6, LoopsMakes
<1> DEFINE J == (1 .. N) \ Skip
<1>8. J \subseteq DOMAIN page
  BY <1>1
<1> HIDE DEF J
<1>9. AnswerPlaces
  <2>1. PICK h \in [DOMAIN Answer -> J] :
          /\ \A x \in DOMAIN Answer : Answer[x] = V[h[x]]
          /\ \A x \in DOMAIN Answer, y \in DOMAIN Answer : h[x] = h[y] => x = y
          /\ \A n \in J : \E x \in DOMAIN Answer : h[x] = n
    BY <1>2, <1>7 DEF InPlaces, J
  <2> HIDE DEF Answer
  <2>2. h \in [DOMAIN Answer -> DOMAIN page]
    BY <1>8
  <2>3. ASSUME NEW x \in DOMAIN Answer
        PROVE  \E c \in DOMAIN page : Finds(h[x], c, Answer[x])
    <3>1. h[x] \in J /\ Answer[x] = V[h[x]]
      BY <2>1
    <3>2. QED BY <1>3, <3>1 DEF J
  <2>4. ASSUME NEW n \in DOMAIN page, \E c \in DOMAIN page, e \in Key : Finds(n, c, e)
        PROVE  \E x \in DOMAIN Answer : h[x] = n
    <3>1. n \in J
      BY <1>4, <2>4 DEF J
    <3>2. QED BY <2>1, <3>1
  <2>5. QED BY <2>1, <2>2, <2>3, <2>4 DEF AnswerPlaces
<1>10. QED BY <1>2, <1>7, <1>9 DEF N

\* What asked-for sizes make of a page that is full, or short of it.
LEMMA SizeOfPage ==
  ASSUME Filled
  PROVE  /\ PageSize \in Int /\ MaxSize \in Nat
         /\ \A n \in Nat : n < PageSize => n <= IF size < 0 THEN 0 ELSE size
         /\ PageSize > 0 => PageSize - 1 <= IF size < 0 THEN 0 ELSE size
BY ListAssumption DEF Filled, PageSize

\* The loop ends with a short page, of all that was returned.
LEMMA ExhaustPage ==
  ASSUME ListIInv, PageIInv, Exhaust
  PROVE  Filling' /\ Filled' /\ PageAndToken'
<1>1. /\ at = "loop" /\ Len(page) < PageSize /\ at' \in {"done", "lookup"}
      /\ emitted' = emitted /\ UNCHANGED <<history, size, page, token, events>>
      /\ keys' = keys
  BY DEF Exhaust, Advancing, End
<1>2. Filling /\ Filled
  BY DEF PageIInv
<1>3. /\ page \in Seq(Key) /\ Range(page) = Range(emitted) \ Tombstone
      /\ token = None /\ events = <<>>
  BY <1>1, <1>2 DEF Filling
<1>4. Len(page) \in Nat
  BY <1>3, LenProperties
<1>5. Len(page) <= IF size < 0 THEN 0 ELSE size
  BY <1>1, <1>2, <1>4, SizeOfPage
<1>6. Len(events) <= Len(page)
  BY <1>3, <1>4, EmptySeq
<1>7. Filling' /\ Filled'
  BY <1>1, <1>2, <1>3 DEF Filling, Filled
<1>8. PageAndToken'
  BY <1>1, <1>3, <1>5, <1>6 DEF PageAndToken
<1>9. QED BY <1>7, <1>8

\* Or it ends with a key more than a page has, which becomes the token.
LEMMA CutPage ==
  ASSUME ListIInv, PageIInv, Cut
  PROVE  Filling' /\ Filled' /\ PageAndToken'
<1>1. /\ at = "loop" /\ Len(page) = PageSize
      /\ emitted' = emitted /\ keys' = keys /\ UNCHANGED <<history, size, events>>
  BY DEF Cut, vars
<1>2. Filling /\ Filled
  BY DEF PageIInv
<1>3. /\ page \in Seq(Key) /\ Range(page) = Range(emitted) \ Tombstone /\ Distinct(page)
      /\ token = None /\ events = <<>>
      /\ page # <<>> => emitted # <<>> /\ Last(page) = Last(emitted)
  BY <1>1, <1>2 DEF Filling
<1>4. Len(events) = 0 /\ Len(page) \in Nat
  BY <1>3, EmptySeq, LenProperties
<1>5. CASE page = <<>>
  <2>1. at' = "done" /\ UNCHANGED <<page, token>>
    BY <1>5 DEF Cut
  <2>2. Len(page) = 0
    BY <1>5, EmptySeq
  <2>3. 0 <= IF size < 0 THEN 0 ELSE size
    BY <1>2 DEF Filled
  <2>4. Filling' /\ Filled'
    BY <1>1, <1>2, <1>3, <2>1 DEF Filling, Filled
  <2>5. PageAndToken'
    BY <1>1, <1>3, <1>4, <2>1, <2>2, <2>3 DEF PageAndToken
  <2>6. QED BY <2>4, <2>5
<1>6. CASE page # <<>>
  <2>1. at' = "lookup" /\ token' = Token(Last(page)) /\ page' = Front(page)
    BY <1>6 DEF Cut
  <2>2. /\ Len(page) > 0 /\ page' \in Seq(Key) /\ Len(page') = Len(page) - 1
        /\ Last(page) \in Range(page) /\ Range(page) = Range(page') \cup {Last(page)}
        /\ Last(page) \notin Range(page')
    BY <1>3, <1>6, <2>1, FrontRange
  <2>3. Len(page') <= IF size < 0 THEN 0 ELSE size
    BY <1>1, <1>2, <1>4, <2>2, SizeOfPage
  <2>4. Last(page) \in Key /\ token' # None
    <3>1. Range(page) \subseteq Key
      BY <1>3, LenProperties DEF Range
    <3>2. Last(page) \in [start : Int, id : Int, ts : Int]
      BY <2>2, <3>1, IteratorAssumption
    <3>3. Token(Last(page)) \in [start : Int, id : Int]
      BY <3>2 DEF Token
    <3>4. QED BY <2>1, <2>2, <3>1, <3>3, ListAssumption
  <2>5. ASSUME Sorted, NEW k \in Range(page')
        PROVE  Before(k, Last(emitted))
    <3>1. emitted \in Seq(Key) /\ Ordered
      BY DEF ListIInv, Walk, Cursors
    <3>2. k \in Range(emitted) /\ k # Last(emitted)
      BY <1>3, <1>6, <2>2, <2>5
    <3>3. PICK n \in DOMAIN emitted : emitted[n] = k
      BY <3>2 DEF Range
    <3>4. /\ DOMAIN emitted = 1 .. Len(emitted) /\ Len(emitted) \in Nat
          /\ Last(emitted) = emitted[Len(emitted)]
      BY <3>1, LenProperties DEF Last
    <3>5. n < Len(emitted) /\ Len(emitted) \in DOMAIN emitted
      BY <3>2, <3>3, <3>4
    <3>6. QED BY <2>5, <3>1, <3>3, <3>4, <3>5 DEF Ordered
  <2>6. \E k \in Range(emitted') \ Tombstone : k \notin Range(page')
    BY <1>1, <1>3, <2>2
  <2>7. token' = Token(Last(emitted'))
    BY <1>1, <1>3, <1>6, <2>1
  <2>8. Filling' /\ Filled'
    BY <1>1, <1>2, <1>3, <2>1, <2>2 DEF Filling, Filled
  <2>9. Len(events') <= Len(page')
    BY <1>1, <1>4, <2>2
  <2>10. Sorted' = Sorted
    BY <1>1 DEF Sorted
  <2>11. QED BY <1>1, <2>1, <2>3, <2>4, <2>5, <2>6, <2>7, <2>8, <2>9, <2>10 DEF PageAndToken
<1>7. QED BY <1>5, <1>6

\* In the loop a page grows by what is returned, if it is not a deletion.
LEMMA CollectPage ==
  ASSUME ListIInv, PageIInv, Collect
  PROVE  Filling' /\ Filled' /\ PageAndToken'
<1>1. /\ at = "loop" /\ Len(page) < PageSize /\ Emit
      /\ page' = Collected(Last(emitted'))
      /\ UNCHANGED <<history, size, at, token, events>>
  BY DEF Collect, Advancing
<1>2. Filling /\ Filled /\ Walk /\ Unrepeated /\ emitted \in Seq(Key)
  BY DEF PageIInv, ListIInv, Walk, Cursors
<1>3. PICK v \in Key \ Range(emitted) : emitted' = Append(emitted, v)
  BY <1>1, <1>2, EmitUnrepeated
<1>4. /\ page \in Seq(Key) /\ Range(page) = Range(emitted) \ Tombstone /\ Distinct(page)
      /\ token = None /\ events = <<>>
  BY <1>1, <1>2 DEF Filling
<1>5. Range(emitted') = Range(emitted) \cup {v} /\ Last(emitted') = v /\ emitted' # <<>>
  <2>1. Len(emitted') = Len(emitted) + 1 /\ Len(emitted) \in Nat
    BY <1>2, <1>3, AppendProperties, LenProperties
  <2>2. Last(emitted') = v
    BY <1>2, <1>3, <2>1, AppendProperties DEF Last
  <2>3. emitted' # <<>>
    BY <2>1, EmptySeq
  <2>4. QED BY <1>2, <1>3, <2>2, <2>3, AppendRange
<1>6. Len(page) \in Nat /\ PageSize \in Int /\ PageSize' = PageSize
  BY <1>1, <1>2, <1>4, SizeOfPage, LenProperties DEF PageSize
<1>7. /\ page' \in Seq(Key) /\ Range(page') = Range(emitted') \ Tombstone /\ Distinct(page')
      /\ Len(page') <= PageSize
      /\ Len(page') = PageSize => Last(page') = Last(emitted')
  <2>1. CASE v \in Tombstone
    <3>1. page' = page
      BY <1>1, <1>5, <2>1 DEF Collected
    <3>2. QED BY <1>1, <1>4, <1>5, <1>6, <2>1, <3>1
  <2>2. CASE v \notin Tombstone
    <3>1. page' = Append(page, v)
      BY <1>1, <1>5, <2>2 DEF Collected
    <3>2. /\ page' \in Seq(Key) /\ Len(page') = Len(page) + 1 /\ page'[Len(page) + 1] = v
          /\ Range(page') = Range(page) \cup {v}
          /\ DOMAIN page' = 1 .. Len(page) + 1 /\ DOMAIN page = 1 .. Len(page)
          /\ \A n \in 1 .. Len(page) : page'[n] = page[n] /\ page[n] \in Range(page)
      BY <1>4, <3>1, AppendRange, AppendProperties
    <3>3. v \notin Range(page)
      BY <1>3, <1>4
    <3>4. ASSUME NEW x \in DOMAIN page', NEW y \in DOMAIN page', x # y
          PROVE  page'[x] # page'[y]
      <4>1. \A n \in DOMAIN page' : n = Len(page) + 1 \/ n \in DOMAIN page
        BY <1>6, <3>2
      <4>2. CASE x \in DOMAIN page /\ y \in DOMAIN page
        BY <1>4, <3>2, <3>4, <4>2 DEF Distinct
      <4>3. CASE ~ (x \in DOMAIN page /\ y \in DOMAIN page)
        BY <3>2, <3>3, <3>4, <4>1, <4>3
      <4>4. QED BY <4>2, <4>3
    <3>5. Distinct(page')
      BY <3>4 DEF Distinct
    <3>6. Last(page') = v
      BY <3>2 DEF Last
    <3>7. Len(page') <= PageSize
      BY <1>1, <1>6, <3>2
    <3>8. QED BY <1>4, <1>5, <2>2, <3>2, <3>5, <3>6, <3>7
  <2>3. QED BY <2>1, <2>2
<1>8. QED BY <1>1, <1>2, <1>4, <1>5, <1>6, <1>7 DEF Filling, Filled, PageAndToken

\* Every step of a call keeps the invariant of its page.
LEMMA PageStep ==
  ASSUME ListIInv, PageIInv, [ListNext]_allVars
  PROVE  PageIInv'
<1>1. Unrepeated'
  BY StepUnrepeated DEF PageIInv
<1>2. Filling /\ Filled /\ PageAndToken /\ ListedCurrent
  BY DEF PageIInv
<1>3. ASSUME UNCHANGED <<emitted, history, size, at, page, token, events>>, at = "loop"
      PROVE  Filling' /\ Filled' /\ PageAndToken'
  <2>1. PageSize' = PageSize
    BY <1>3 DEF PageSize
  <2>2. QED BY <1>2, <1>3, <2>1 DEF Filling, Filled, PageAndToken
<1>4. CASE MergeFirst
  <2>1. UNCHANGED <<emitted, listVars>> /\ at = "begin"
    BY <1>4 DEF MergeFirst
  <2>2. UNCHANGED <<emitted, history, size, at, page, token, events>>
    BY <2>1 DEF listVars
  <2>3. Filling' /\ Filled' /\ PageAndToken'
    BY <1>2, <2>1, <2>2 DEF Filling, Filled, PageAndToken
  <2>4. ListedCurrent'
    BY <1>2, <2>2 DEF ListedCurrent, CurrentAt, RowAt
  <2>5. QED BY <1>1, <2>3, <2>4 DEF PageIInv
<1>5. CASE Begin
  <2>1. /\ at = "begin" /\ at' = (IF PageSize < 0 THEN "panic" ELSE "loop")
        /\ UNCHANGED <<emitted, history, size, page, token, events>>
    BY <1>5 DEF Begin, vars
  <2>2. /\ page = <<>> /\ Len(page) = 0 /\ PageSize \in Int /\ PageSize' = PageSize
    BY <1>2, <2>1, SizeOfPage, EmptySeq DEF Filling, PageSize
  <2>3. Filling' /\ Filled' /\ PageAndToken'
    BY <1>2, <2>1, <2>2 DEF Filling, Filled, PageAndToken
  <2>4. ListedCurrent'
    BY <1>2, <2>1 DEF ListedCurrent, CurrentAt, RowAt
  <2>5. QED BY <1>1, <2>3, <2>4 DEF PageIInv
<1>6. CASE Fail
  <2>1. at' = "failed" /\ UNCHANGED <<history, size, page, token, events>>
    BY <1>6 DEF Fail
  <2>2. Filling' /\ Filled' /\ PageAndToken'
    BY <1>2, <2>1 DEF Filling, Filled, PageAndToken
  <2>3. ListedCurrent'
    BY <1>2, <2>1 DEF ListedCurrent, CurrentAt, RowAt
  <2>4. QED BY <1>1, <2>2, <2>3 DEF PageIInv
<1>7. CASE Initialise \/ Puts
  <2>1. at = "loop" /\ UNCHANGED <<emitted, history, size, at, page, token, events>>
    BY <1>7 DEF Initialise, Puts, Advancing, Start, PutItem, listVars
  <2>2. Filling' /\ Filled' /\ PageAndToken'
    BY <1>3, <2>1
  <2>3. ListedCurrent'
    BY <1>2, <2>1 DEF ListedCurrent, CurrentAt, RowAt
  <2>4. QED BY <1>1, <2>2, <2>3 DEF PageIInv
<1>8. CASE Collect \/ Exhaust \/ Cut
  <2>1. UNCHANGED <<history, events>>
    BY <1>8 DEF Collect, Exhaust, Cut
  <2>2. ListedCurrent'
    BY <1>2, <2>1 DEF ListedCurrent, CurrentAt, RowAt
  <2>3. QED BY <1>1, <1>8, <2>2, CollectPage, ExhaustPage, CutPage DEF PageIInv
<1>9. CASE Lookup
  <2>1. /\ at = "lookup" /\ at' = "done" /\ events' = Answer
        /\ UNCHANGED <<keys, emitted, history, size, page, token>>
    BY <1>9 DEF Lookup, vars
  <2>2. page \in Seq(Key)
    BY <1>2, <2>1 DEF Filled
  <2>3. Answer \in Seq(CurrentAt(ReadTs)) /\ Len(Answer) <= Len(page)
    BY <2>2, AnswerMakes
  <2>4. Filling' /\ Filled'
    BY <1>2, <2>1 DEF Filling, Filled
  <2>5. Sorted' = Sorted
    BY <2>1 DEF Sorted
  <2>6. PageAndToken'
    BY <1>2, <2>1, <2>3, <2>5 DEF PageAndToken
  <2>7. Range(Answer) \subseteq CurrentAt(ReadTs)
    BY <2>3, LenProperties DEF Range
  <2>8. ListedCurrent'
    <3>1. CurrentAt(ReadTs)' = CurrentAt(ReadTs)
      BY <2>1 DEF CurrentAt, RowAt
    <3> HIDE DEF Answer
    <3>2. QED BY <2>1, <2>7, <3>1 DEF ListedCurrent
  <2>9. QED BY <1>1, <2>4, <2>6, <2>8 DEF PageIInv
<1>10. CASE UNCHANGED allVars
  <2>1. UNCHANGED <<keys, emitted, history, size, at, page, token, events>>
    BY <1>10 DEF allVars, vars, listVars
  <2>2. PageSize' = PageSize /\ Sorted' = Sorted
    BY <2>1 DEF PageSize, Sorted
  <2>3. Filling' /\ Filled' /\ PageAndToken'
    BY <1>2, <2>1, <2>2 DEF Filling, Filled, PageAndToken
  <2>4. ListedCurrent'
    BY <1>2, <2>1 DEF ListedCurrent, CurrentAt, RowAt
  <2>5. QED BY <1>1, <2>3, <2>4 DEF PageIInv
<1>11. QED BY <1>4, <1>5, <1>6, <1>7, <1>8, <1>9, <1>10 DEF ListNext

\* The invariant of the page holds of every call.
LEMMA PageInvariant == ListSpec => []PageIInv
<1>1. ListInit => PageIInv
  <2>1. SUFFICES ASSUME ListInit PROVE PageIInv
    OBVIOUS
  <2>2. /\ Init /\ size \in Sizes /\ at = "begin" /\ page = <<>> /\ token = None
        /\ events = <<>>
    BY <2>1 DEF ListInit
  <2>3. emitted = <<>> /\ Unrepeated
    BY <2>2, InitUnrepeated DEF Init
  <2>4. Filling
    <3>1. page \in Seq(Key)
      BY <2>2, EmptySeq
    <3>2. Range(page) = {} /\ Range(emitted) = {} /\ Distinct(page)
      BY <2>2, <2>3 DEF Range, Distinct
    <3>3. QED BY <2>2, <3>1, <3>2 DEF Filling
  <2>5. Filled
    BY <2>2, ListAssumption DEF Filled
  <2>6. PageAndToken /\ ListedCurrent
    BY <2>2 DEF PageAndToken, ListedCurrent, Range
  <2>7. QED BY <2>3, <2>4, <2>5, <2>6 DEF PageIInv
<1>2. ListIInv /\ PageIInv /\ [ListNext]_allVars => PageIInv'
  BY PageStep
<1>3. QED BY <1>1, <1>2, ListInvariant, PTL DEF ListSpec

\* A page has no more events than were asked for, whatever the int32 asked for,
\* and a token exactly when the iteration went on to a key that is not on it
\* (storage.go:393-401).
THEOREM PageWithToken == ListSpec => []PageAndToken
<1>1. PageIInv => PageAndToken
  BY DEF PageIInv
<1>2. QED BY <1>1, PageInvariant, PTL

\* Every event of an answer is the one that its row has at the timestamp of the
\* call (storage.go:413-440).
THEOREM AnswersCurrent == ListSpec => []ListedCurrent
<1>1. PageIInv => ListedCurrent
  BY DEF PageIInv
<1>2. QED BY <1>1, PageInvariant, PTL

\* No key is returned twice, of indexes that merges have left unsorted neither
\* (iterator_index.go:95, iterator_memtable.go:55, index.go:268-275).
THEOREM KeysOnce == ListSpec => []Distinct(emitted)
<1>1. PageIInv => Distinct(emitted)
  BY DEF PageIInv, Unrepeated
<1>2. QED BY <1>1, PageInvariant, PTL

\* Of any sources: a version due was preceded by another of its event, or its
\* iterator still comes to it.
Reached ==
  pc # "init" =>
    \A k \in Key : Due(k) =>
      \/ \E e \in Range(emitted) : SameEvent(e, k)
      \/ \E s \in Source : Valid(s) /\ SameEvent(Value(s), k)
      \/ k \in mt /\ KeyAhead(mit, k)
      \/ \E i \in Index : \E q \in DOMAIN keys[i] :
           keys[i][q] = k /\ RowAhead(iit[i], q)

\* What is returned may be read and is selected where it is.
Chosen == Range(emitted) \subseteq Readable \cap Selected

\* After the loop the page has all that was returned but deletions and the key of
\* the token, and the answer is made of it.
Answered ==
  /\ at # "done" => events = <<>>
  /\ at = "done" => events = Answer \/ (page = <<>> /\ events = <<>>)
  /\ at \in {"lookup", "done"} =>
       /\ page \in Seq(Key) /\ Distinct(page)
       /\ Range(page) \subseteq Range(emitted) \ Tombstone
       /\ token = None /\ PageSize > 0 =>
            pc = "end" /\ Range(page) = Range(emitted) \ Tombstone
       /\ token # None =>
            /\ emitted # <<>>
            /\ Range(emitted) \ Tombstone \subseteq Range(page) \cup {Last(emitted)}

AnswerIInv == Reached /\ Chosen /\ Answered
(***************************************************************************)
(* Steps of the iterators.                                                 *)
(***************************************************************************)

\* The iterator of an index comes to a version due, or to another version of
\* its event, whatever the order of its keys.
LEMMA IndexComes ==
  ASSUME Cursors, Places, NEW i \in Index, NEW q \in DOMAIN keys[i],
         Due(keys[i][q]), ~ iit[i].end, iit[i].nextIdx # 0, iit[i].nextIdx <= q
  PROVE  /\ ~ IndexNext(i).end
         /\ \/ SameEvent(keys[i][IndexNext(i).row], keys[i][q])
            \/ RowAhead(IndexNext(i), q)
<1> DEFINE x == iit[i].nextIdx
           n == IndexNext(i)
           k == keys[i][q]
<1>1. /\ keys \in [Index -> Seq(Key)] /\ iit[i] \in [row : Nat, nextIdx : Nat, end : BOOLEAN]
      /\ x = Advance(i, iit[i].row) /\ i \in Source /\ i # 0
      /\ \A r \in DOMAIN keys[i] : keys[i][r] \in Holds(i)
  <2>1. i \in Source /\ i # 0
    BY IteratorAssumption DEF Source, Index
  <2>2. \A r \in DOMAIN keys[i] : keys[i][r] \in Holds(i)
    BY <2>1 DEF Holds, Range
  <2>3. /\ keys \in [Index -> Seq(Key)] /\ iit[i] \in [row : Nat, nextIdx : Nat, end : BOOLEAN]
        /\ x = Advance(i, iit[i].row)
    BY DEF Cursors
  <2>4. QED BY <2>1, <2>2, <2>3
<1>2. x \in Nat /\ x \in DOMAIN keys[i] /\ x > 0
  <2>1. x \in Nat /\ x \in DOMAIN keys[i]
    BY <1>1, AdvanceRow
  <2>2. x # 0
    OBVIOUS
  <2> HIDE DEF x
  <2>3. QED BY <2>1, <2>2
<1>3. n = [row |-> x, nextIdx |-> Advance(i, x), end |-> FALSE]
  BY DEF IndexNext
<1>4. CASE q = x
  <2> HIDE DEF n, x
  <2>1. QED BY <1>3, <1>4 DEF RowAhead, n
<1>5. CASE keys[i][x].id = k.id
  <2>1. SameEvent(keys[i][x], k)
    BY <1>1, <1>2, <1>5, DueNewest
  <2> HIDE DEF n, x, k
  <2>2. QED BY <1>3, <2>1 DEF n, k
<1>6. CASE q # x /\ keys[i][x].id # k.id
  <2>1. x < q /\ q \in Nat
    <3>1. DOMAIN keys[i] = 1 .. Len(keys[i])
      BY <1>1, LenProperties
    <3> HIDE DEF x
    <3>2. QED BY <1>2, <1>6, <3>1 DEF x
  <2>2. k \in filter.posting /\ k.ts <= ReadTs
    BY <1>1, DueOffered
  <2> HIDE DEF x, n
  <2>3. Advance(i, x) # 0 /\ Advance(i, x) <= q
    BY <1>1, <1>2, <1>6, <2>1, <2>2, AdvanceRow
  <2>4. QED BY <1>3, <2>3 DEF RowAhead, n
<1>7. QED BY <1>4, <1>5, <1>6

\* Of the sources at versions of an event, that at the newest is not passed.
LEMMA NewestStays ==
  ASSUME Cursors, Places, pc # "init", NEW k \in Key,
         NEW s \in Source, Valid(s), SameEvent(Value(s), k)
  PROVE  \E u \in Source : Valid(u) /\ SameEvent(Value(u), k) /\ ~ Passed(u)
<1> DEFINE T == {w \in Source : Valid(w) /\ SameEvent(Value(w), k)}
           u == MinIndex(T)
           prior == {w \in Source : w < u /\ Valid(w)}
           b == MinIndex(prior)
<1>1. T \in SUBSET Source /\ T # {} /\ \A w \in T : Valid(w)
  OBVIOUS
<1>2. /\ u \in T
      /\ \A w \in T \ {u} : Before(Value(u), Value(w)) \/ Value(w) = Value(u)
  <2> HIDE DEF T
  <2>1. QED BY <1>1, MinIndexIs
<1>3. u \in Source /\ Valid(u) /\ SameEvent(Value(u), k)
  BY <1>2
<1> HIDE DEF u
<1>4. ASSUME Passed(u) PROVE FALSE
  <2>1. prior # {} /\ SameEvent(Value(u), Value(b)) /\ Value(u).ts <= Value(b).ts
    BY <1>4 DEF Passed
  <2>2. b \in prior
    <3>1. prior \in SUBSET Source /\ \A w \in prior : Valid(w)
      OBVIOUS
    <3> HIDE DEF prior
    <3>2. QED BY <2>1, <3>1, MinIndexIs
  <2>3. b \in Source /\ b < u /\ Valid(b)
    BY <2>2
  <2> HIDE DEF b, prior
  <2>4. b # u
    BY <1>3, <2>3, IteratorAssumption DEF Source
  <2>5. SameEvent(Value(b), k)
    BY <1>3, <2>1 DEF SameEvent
  <2>6. Before(Value(u), Value(b)) \/ Value(b) = Value(u)
    BY <1>2, <2>3, <2>4, <2>5
  <2>7. \A w \in Source : Valid(w) => Value(w) \in Holds(w) /\ Holds(w) \subseteq Key
    BY LenProperties DEF Cursors, Offers, Holds, Range, Source, Index
  <2>8. Value(u) \in Key /\ Value(b) \in Key /\ Value(u) # Value(b)
    BY <1>3, <2>3, <2>4, <2>7 DEF Places
  <2>9. /\ Value(u) \in [start : Int, id : Int, ts : Int]
        /\ Value(b) \in [start : Int, id : Int, ts : Int]
    BY <2>8, IteratorAssumption
  <2>10. QED BY <2>1, <2>6, <2>8, <2>9 DEF Before, SameEvent
<1>5. QED BY <1>3, <1>4

\* A place at which a version due is not lost.
Safe(k) ==
  \/ \E e \in Range(emitted) : SameEvent(e, k)
  \/ \E s \in Source : Valid(s) /\ SameEvent(Value(s), k)
  \/ k \in mt /\ KeyAhead(mit, k)
  \/ \E i \in Index : \E q \in DOMAIN keys[i] :
       keys[i][q] = k /\ RowAhead(iit[i], q)

LEMMA StartReaches ==
  ASSUME Walk, Start
  PROVE  Reached'
<1>1. Cursors /\ Places
  BY DEF Walk
<1>2. /\ pc = "init" /\ Step(Source) /\ UNCHANGED <<mt, late, keys, filter>>
      /\ mit = [cur |-> None, next |-> None, end |-> FALSE]
      /\ \A i \in Index : iit[i] = NewIndexIterator(i)
      /\ keys \in [Index -> Seq(Key)]
  BY <1>1 DEF Start, Cursors
<1>3. /\ mit' = MemNext /\ \A i \in Index : i \in Source /\ i # 0 /\ iit'[i] = IndexNext(i)
      /\ \A i \in Index : \A q \in DOMAIN keys[i] : keys[i][q] \in Holds(i)
  BY <1>2, IteratorAssumption DEF Step, Source, Index, Holds, Range
<1>4. ASSUME NEW k \in mt, Due(k) PROVE KeyAhead(MemNext, k)
  BY <1>1, <1>2, <1>4, MemKeeps
<1>5. ASSUME NEW i \in Index, NEW q \in DOMAIN keys[i], Due(keys[i][q])
      PROVE  \/ Valid(i)' /\ SameEvent(Value(i)', keys[i][q])
             \/ RowAhead(iit'[i], q)
  <2>1. q > 0 /\ q \in Nat
    <3>1. DOMAIN keys[i] = 1 .. Len(keys[i])
      BY <1>2, LenProperties
    <3>2. QED BY <3>1
  <2>2. keys[i][q] \in filter.posting /\ keys[i][q].ts <= ReadTs
    BY <1>1, <1>3, <1>5, DueOffered
  <2>3. Advance(i, 0) # 0 /\ Advance(i, 0) <= q
    <3>1. 0 \in Nat /\ ~ (0 > 0)
      OBVIOUS
    <3>2. QED BY <1>2, <2>1, <2>2, <3>1, AdvanceRow
  <2>4. ~ iit[i].end /\ iit[i].nextIdx = Advance(i, 0)
    <3>1. iit[i] = NewIndexIterator(i)
      BY <1>2
    <3>2. QED BY <3>1 DEF NewIndexIterator
  <2>5. /\ ~ IndexNext(i).end
        /\ \/ SameEvent(keys[i][IndexNext(i).row], keys[i][q])
           \/ RowAhead(IndexNext(i), q)
    BY <1>1, <1>5, <2>3, <2>4, IndexComes
  <2>6. iit'[i] = IndexNext(i) /\ keys' = keys /\ i # 0
    BY <1>2, <1>3
  <2>7. QED BY <2>5, <2>6 DEF Valid, Value
<1>6. ASSUME NEW k \in Key, Due(k) PROVE Safe(k)'
  <2>1. CASE k \in mt
    BY <1>2, <1>3, <1>4, <1>6, <2>1 DEF Safe
  <2>2. CASE k \notin mt
    <3>1. PICK i \in Index : k \in Range(keys[i])
      BY <1>6, <2>2 DEF Due, Readable, Stored
    <3>2. PICK q \in DOMAIN keys[i] : keys[i][q] = k
      BY <3>1 DEF Range
    <3>3. \/ Valid(i)' /\ SameEvent(Value(i)', k)
          \/ RowAhead(iit'[i], q)
      BY <1>5, <1>6, <3>2
    <3>4. SameEvent(Value(i)', k) => SameEvent(Value(i), k)'
      BY DEF SameEvent
    <3>5. QED BY <1>2, <1>3, <3>2, <3>3, <3>4 DEF Safe
  <2>3. QED BY <2>1, <2>2
<1>7. \A k : Due(k)' = Due(k)
  BY <1>2, DueSame
<1>8. QED BY <1>6, <1>7 DEF Reached, Safe

LEMMA EmitReaches ==
  ASSUME Walk, Reached, Emit
  PROVE  Reached'
<1> DEFINE valid == {s \in Source : Valid(s)}
           m == MinIndex(valid)
           S == {m} \cup {s \in Source : Passed(s)}
<1>1. Cursors /\ Places
  BY DEF Walk
<1>2. /\ pc = "next" /\ valid # {} /\ emitted' = Append(emitted, Value(m)) /\ Step(S)
      /\ UNCHANGED <<mt, late, keys, filter>>
  BY DEF Emit
<1>3. m \in Source /\ Valid(m)
  <2>1. m \in valid
    BY <1>1, <1>2, MinIndexIs
  <2>2. QED BY <2>1
<1>4. Range(emitted') = Range(emitted) \cup {Value(m)}
  <2>1. Value(m) \in Key
    <3>1. \A s \in Source : Offers(s) \subseteq Key
      BY <1>1, LenProperties DEF Offers, Holds, Cursors, Range, Source, Index
    <3>2. QED BY <1>1, <1>2, <1>3, <3>1 DEF Cursors
  <2>2. emitted \in Seq(Key)
    BY <1>1 DEF Cursors
  <2>3. QED BY <1>2, <2>1, <2>2, AppendRange
<1> HIDE DEF valid, m
<1>5. /\ mit' = IF 0 \in S THEN MemNext ELSE mit
      /\ \A i \in Index : iit'[i] = IF i \in S THEN IndexNext(i) ELSE iit[i]
      /\ 0 \in Source /\ \A i \in Index : i \in Source /\ i # 0
      /\ \A s \in Source : s = 0 \/ s \in Index
  BY <1>2, IteratorAssumption DEF Step, Source, Index
<1>6. \A u \in Source : u \in S => u = m \/ Passed(u)
  OBVIOUS
<1> HIDE DEF S
<1>7. \A s \in Source : s \notin S => Valid(s)' = Valid(s) /\ Value(s)' = Value(s)
  BY <1>2, <1>5 DEF Valid, Value
<1>8. ASSUME NEW k \in Key, NEW s \in Source, Valid(s), SameEvent(Value(s), k)
      PROVE  Safe(k)'
  <2>1. PICK u \in Source : Valid(u) /\ SameEvent(Value(u), k) /\ ~ Passed(u)
    BY <1>1, <1>2, <1>8, NewestStays
  <2>2. CASE u = m
    BY <1>4, <2>1, <2>2 DEF Safe, SameEvent
  <2>3. CASE u # m
    <3>1. Valid(u)' /\ Value(u)' = Value(u)
      BY <1>6, <1>7, <2>1, <2>3
    <3>2. SameEvent(Value(u), k)'
      BY <2>1, <3>1 DEF SameEvent
    <3>3. QED BY <3>1, <3>2 DEF Safe
  <2>4. QED BY <2>2, <2>3
<1>9. ASSUME NEW k \in mt, k \in Key, Due(k), KeyAhead(mit, k)
      PROVE  Safe(k)'
  <2>1. CASE mit.cur = k
    <3>1. Valid(0) /\ SameEvent(Value(0), k)
      BY <1>9, <2>1 DEF KeyAhead, Valid, Value, SameEvent
    <3>2. QED BY <1>5, <1>8, <1>9, <3>1
  <2>2. CASE 0 \notin S
    BY <1>2, <1>5, <1>9, <2>2 DEF Safe
  <2>3. CASE 0 \in S /\ mit.cur # k
    <3>1. ~ mit.end /\ mit.next # None /\ (mit.next = k \/ Before(mit.next, k))
      BY <1>9, <2>3 DEF KeyAhead
    <3>2. KeyAhead(MemNext, k)
      BY <1>1, <1>9, <3>1, MemKeeps
    <3>3. QED BY <1>2, <1>5, <1>9, <2>3, <3>2 DEF Safe
  <2>4. QED BY <2>1, <2>2, <2>3
<1>10. ASSUME NEW i \in Index, NEW q \in DOMAIN keys[i], keys[i][q] \in Key,
              Due(keys[i][q]), RowAhead(iit[i], q)
       PROVE  Safe(keys[i][q])'
  <2>1. CASE iit[i].row = q
    <3>1. Valid(i) /\ SameEvent(Value(i), keys[i][q])
      BY <1>5, <1>10, <2>1 DEF RowAhead, Valid, Value, SameEvent
    <3>2. Safe(keys[i][q])' = Safe(keys[i][q])'
      OBVIOUS
    <3> DEFINE k == keys[i][q]
    <3> HIDE DEF k
    <3>3. k \in Key /\ SameEvent(Value(i), k)
      BY <1>10, <3>1 DEF k
    <3>4. QED BY <1>2, <1>5, <1>8, <3>1, <3>3 DEF k, Safe
  <2>2. CASE i \notin S
    BY <1>2, <1>5, <1>10, <2>2 DEF Safe
  <2>3. CASE i \in S /\ iit[i].row # q
    <3>1. ~ iit[i].end /\ iit[i].nextIdx # 0 /\ iit[i].nextIdx <= q
      BY <1>10, <2>3 DEF RowAhead
    <3>2. /\ ~ IndexNext(i).end
          /\ \/ SameEvent(keys[i][IndexNext(i).row], keys[i][q])
             \/ RowAhead(IndexNext(i), q)
      BY <1>1, <1>10, <3>1, IndexComes
    <3>3. iit'[i] = IndexNext(i) /\ keys' = keys /\ i # 0 /\ i \in Source
      BY <1>2, <1>5, <2>3
    <3>4. \/ Valid(i)' /\ SameEvent(Value(i), keys[i][q])'
          \/ RowAhead(iit[i], q)'
      BY <3>2, <3>3 DEF Valid, Value, RowAhead, SameEvent
    <3>5. QED BY <3>3, <3>4 DEF Safe
  <2>4. QED BY <2>1, <2>2, <2>3
<1>11. ASSUME NEW k \in Key, Due(k) PROVE Safe(k)'
  <2>1. Safe(k)
    BY <1>2, <1>11 DEF Reached, Safe
  <2>2. CASE \E e \in Range(emitted) : SameEvent(e, k)
    BY <1>4, <2>2 DEF Safe, SameEvent
  <2>3. CASE \E s \in Source : Valid(s) /\ SameEvent(Value(s), k)
    BY <1>8, <2>3
  <2>4. CASE k \in mt /\ KeyAhead(mit, k)
    BY <1>9, <1>11, <2>4
  <2>5. CASE \E i \in Index : \E q \in DOMAIN keys[i] :
               keys[i][q] = k /\ RowAhead(iit[i], q)
    <3>0. PICK i \in Index : \E q \in DOMAIN keys[i] : keys[i][q] = k /\ RowAhead(iit[i], q)
      BY <2>5
    <3>1. PICK q \in DOMAIN keys[i] : keys[i][q] = k /\ RowAhead(iit[i], q)
      BY <3>0
    <3>2. Safe(keys[i][q])'
      BY <1>10, <1>11, <3>1
    <3>3. keys' = keys
      BY <1>2
    <3>4. QED BY <3>1, <3>2, <3>3 DEF Safe
  <2>6. QED BY <2>1, <2>2, <2>3, <2>4, <2>5 DEF Safe
<1>12. \A k : Due(k)' = Due(k)
  BY <1>2, DueSame
<1>13. QED BY <1>11, <1>12 DEF Reached, Safe

LEMMA PutItemReaches ==
  ASSUME Walk, Reached, PutItem
  PROVE  Reached'
<1>1. PICK k \in coming :
        /\ mt' = mt \cup {k} /\ late' = late \cup {k} /\ pc = "next" /\ pc' = pc
        /\ UNCHANGED <<keys, filter, mit, iit, emitted>>
  BY DEF PutItem
<1>2. ASSUME NEW l \in Key, Due(l)' PROVE Due(l)
  <2>1. l # k
    BY <1>1, <1>2 DEF Due
  <2>2. Stored \subseteq Stored' /\ Stored' = Stored \cup {k}
    BY <1>1 DEF Stored
  <2>3. l \in Stored /\ l.ts <= ReadTs /\ l \notin late
    BY <1>1, <1>2, <2>1, <2>2 DEF Due, Readable
  <2>4. l \in Selected
    BY <1>1, <1>2, <2>1 DEF Due, Selected
  <2>5. Unmoved(l)
    BY <1>2, <2>2 DEF Due, Unmoved
  <2>6. ~ \E n \in Readable : n.id = l.id /\ n.ts > l.ts
    BY <1>2, <2>2 DEF Due, Readable
  <2>7. QED BY <2>3, <2>4, <2>5, <2>6 DEF Due, Readable
<1>3. \A s \in Source : Valid(s)' = Valid(s) /\ Value(s)' = Value(s)
  BY <1>1 DEF Valid, Value
<1>4. ASSUME NEW l \in Key, Due(l) PROVE Safe(l)'
  <2>1. Safe(l)
    BY <1>1, <1>4 DEF Reached, Safe
  <2>2. QED BY <1>1, <1>3, <2>1 DEF Safe, SameEvent
<1>5. QED BY <1>1, <1>2, <1>4 DEF Reached, Safe

\* At the end every version due is preceded by one returned, or was.
LEMMA ReachedEnds ==
  ASSUME Cursors, Reached, pc = "end", NEW k \in Key, Due(k)
  PROVE  \E e \in Range(emitted) : SameEvent(e, k)
<1>1. \A s \in Source : ~ Valid(s)
  BY DEF Cursors
<1>2. 0 \in Source /\ \A i \in Index : i \in Source /\ i # 0
  BY IteratorAssumption DEF Source, Index
<1>3. mit.end /\ \A i \in Index : iit[i].end
  BY <1>1, <1>2 DEF Valid
<1>4. QED BY <1>1, <1>3 DEF Reached, KeyAhead, RowAhead
(***************************************************************************)
(* What is returned is selected.                                           *)
(***************************************************************************)

LEMMA ChosenStep ==
  ASSUME ListIInv, Chosen, [ListNext]_allVars
  PROVE  Chosen'
<1>1. Cursors /\ Places /\ Given /\ Begun
  BY DEF ListIInv, Walk
<1>2. \A i \in Index : i \in Source /\ i # 0 /\ Holds(i) = Range(keys[i])
  BY IteratorAssumption DEF Index, Source, Holds
<1>3. 0 \in Source /\ Holds(0) = mt /\ \A s \in Source : s = 0 \/ s \in Index
  BY IteratorAssumption DEF Index, Source, Holds
<1>4. CASE MergeFirst
  <2>1. emitted' = <<>>
    BY <1>1, <1>4 DEF MergeFirst, Begun, Cursors
  <2>2. QED BY <2>1 DEF Chosen, Range
<1>5. CASE Collect
  <2>1. Emit
    BY <1>5 DEF Collect
  <2>2. PICK m \in Source : /\ Value(m) \in Offers(m) /\ Value(m) \in Key
                            /\ emitted' = Append(emitted, Value(m))
                            /\ UNCHANGED <<mt, keys, filter>>
    <3> DEFINE v(m) == Value(m)
    <3>1. PICK m \in Source : /\ Value(m) \in Offers(m) /\ Value(m) \in Key
                              /\ emitted' = Append(emitted, Value(m))
                              /\ UNCHANGED <<mt, coming, late, keys, filter, pc>>
      BY <1>1, <2>1, Emits
    <3>2. QED BY <3>1
  <2> DEFINE v == Value(m)
  <2>3. Range(emitted') = Range(emitted) \cup {v}
    <3>1. emitted \in Seq(Key)
      BY <1>1 DEF Cursors
    <3>2. QED BY <2>2, <3>1, AppendRange
  <2>4. /\ v \in Holds(m) /\ v.ts <= ReadTs
        /\ v \in IF m = 0 THEN filter.match ELSE filter.posting
    BY <2>2 DEF Offers
  <2> HIDE DEF v
  <2>5. v \in Stored /\ v \in Selected
    <3>1. CASE m = 0
      BY <1>3, <2>4, <3>1 DEF Stored, Selected
    <3>2. CASE m # 0
      <4>1. m \in Index /\ v \in Range(keys[m]) /\ v \notin mt
        BY <1>1, <1>2, <1>3, <2>2, <2>4, <3>2 DEF Places
      <4>2. QED BY <2>4, <3>2, <4>1 DEF Stored, Selected
    <3>3. QED BY <3>1, <3>2
  <2>6. Range(emitted') \subseteq Readable \cap Selected
    BY <2>3, <2>4, <2>5 DEF Chosen, Readable
  <2>7. Readable' = Readable /\ Selected' = Selected
    BY <2>2 DEF Readable, Stored, Selected
  <2>8. QED BY <2>6, <2>7 DEF Chosen
<1>6. CASE Puts
  <2>1. PICK k \in coming :
          /\ mt' = mt \cup {k} /\ UNCHANGED <<keys, filter, emitted>>
    BY <1>6 DEF Puts, PutItem
  <2>2. k \notin Range(emitted)
    BY <1>1 DEF Places, Given
  <2>3. Readable \subseteq Readable' /\ Selected \ {k} \subseteq Selected'
    BY <2>1 DEF Readable, Stored, Selected
  <2>4. QED BY <2>1, <2>2, <2>3 DEF Chosen
<1>7. CASE Initialise
  <2>1. UNCHANGED <<mt, keys, filter, emitted>>
    BY <1>7 DEF Initialise, Start
  <2>2. QED BY <2>1 DEF Chosen, Readable, Stored, Selected
<1>8. CASE Begin \/ Fail \/ Exhaust \/ Cut \/ Lookup \/ UNCHANGED allVars
  <2>1. UNCHANGED <<mt, keys, filter, emitted>>
    BY <1>8 DEF Begin, Fail, Exhaust, End, Cut, Lookup, vars, allVars
  <2>2. QED BY <2>1 DEF Chosen, Readable, Stored, Selected
<1>9. QED BY <1>4, <1>5, <1>6, <1>7, <1>8 DEF ListNext

LEMMA ReachedStep ==
  ASSUME ListIInv, Reached, [ListNext]_allVars
  PROVE  Reached'
<1>1. Walk /\ Cursors /\ Begun
  BY DEF ListIInv, Walk
<1>2. CASE MergeFirst
  <2>1. pc' = "init"
    BY <1>1, <1>2 DEF MergeFirst, Begun
  <2>2. QED BY <2>1 DEF Reached
<1>3. CASE Initialise
  BY <1>1, <1>3, StartReaches DEF Initialise
<1>4. CASE Collect
  BY <1>1, <1>4, EmitReaches DEF Collect
<1>5. CASE Puts
  BY <1>1, <1>5, PutItemReaches DEF Puts
<1>6. CASE Begin \/ Fail \/ Exhaust \/ Cut \/ Lookup \/ UNCHANGED allVars
  <2>1. /\ UNCHANGED <<mt, late, keys, filter, mit, iit, emitted>>
        /\ pc' = "init" => pc = "init"
        /\ pc = "init" => pc' = "init"
    BY <1>6 DEF Begin, Fail, Exhaust, End, Cut, Lookup, vars, allVars
  <2>2. \A k : Due(k)' = Due(k)
    BY <2>1, DueSame
  <2>3. \A s \in Source : Valid(s)' = Valid(s) /\ Value(s)' = Value(s)
    BY <2>1 DEF Valid, Value
  <2>4. ASSUME NEW k \in Key, Safe(k) PROVE Safe(k)'
    BY <2>1, <2>3, <2>4 DEF Safe, SameEvent
  <2>5. QED BY <2>1, <2>2, <2>4 DEF Reached, Safe
<1>7. QED BY <1>2, <1>3, <1>4, <1>5, <1>6 DEF ListNext

(***************************************************************************)
(* The page and the answer.                                                *)
(***************************************************************************)

LEMMA FrontDistinct ==
  ASSUME NEW s \in Seq(Key), s # <<>>, Distinct(s)
  PROVE  Distinct(Front(s))
<1> DEFINE n == Len(s)
           t == Front(s)
<1>1. n \in Nat /\ n > 0 /\ DOMAIN s = 1 .. n
  BY LenProperties, EmptySeq
<1>2. t = [x \in 1 .. n - 1 |-> s[x]]
  <2>1. t = [x \in 1 .. (n - 1) - 1 + 1 |-> s[1 + x - 1]]
    BY DEF Front
  <2>2. 1 .. (n - 1) - 1 + 1 = 1 .. n - 1 /\ \A x \in 1 .. n - 1 : 1 + x - 1 = x
    BY <1>1
  <2>3. QED BY <2>1, <2>2
<1> HIDE DEF t, n
<1>3. \A x \in 1 .. n - 1 : x \in 1 .. n
  BY <1>1
<1>4. Distinct(t)
  BY <1>1, <1>2, <1>3 DEF Distinct
<1>5. QED BY <1>4 DEF t

\* The answer is made of the page and the table alone.
LEMMA AnswerSame ==
  ASSUME page' = page, history' = history
  PROVE  Answer' = Answer
<1> SUFFICES Answer' = Answer
  OBVIOUS
<1>1. page' = page
  OBVIOUS
<1>2. history' = history
  OBVIOUS
<1>3. QED BY <1>1, <1>2, SMTT(30) DEF Answer, AnswerFrom, RowAt

LEMMA AnsweredStep ==
  ASSUME ListIInv, PageIInv, Answered, [ListNext]_allVars
  PROVE  Answered'
<1>1. Filling /\ Filled
  BY DEF PageIInv
<1>2. CASE MergeFirst \/ Initialise \/ Collect \/ Puts
  <2>1. at' = at /\ at \in {"begin", "loop"} /\ events' = events
    BY <1>2 DEF MergeFirst, Initialise, Collect, Puts, Advancing, listVars
  <2>2. QED BY <2>1 DEF Answered
<1>3. CASE Begin \/ Fail
  <2>1. at' \in {"panic", "loop", "failed"} /\ at # "done" /\ events' = events
    BY <1>3 DEF Begin, Fail
  <2>2. QED BY <2>1 DEF Answered
<1>4. CASE Exhaust
  <2>1. /\ at = "loop" /\ at' \in {"done", "lookup"} /\ pc' = "end"
        /\ at' = "done" => page = <<>>
        /\ UNCHANGED <<emitted, history, size, page, token, events>>
    BY <1>4 DEF Exhaust, Advancing, End
  <2>2. /\ page \in Seq(Key) /\ Range(page) = Range(emitted) \ Tombstone
        /\ Distinct(page) /\ token = None /\ events = <<>>
    BY <1>1, <2>1 DEF Filling
  <2>3. QED BY <2>1, <2>2 DEF Answered
<1>5. CASE Cut
  <2>1. /\ at = "loop" /\ Len(page) = PageSize
        /\ UNCHANGED <<emitted, history, size, events>>
    BY <1>5 DEF Cut, vars
  <2>2. /\ page \in Seq(Key) /\ Range(page) = Range(emitted) \ Tombstone
        /\ Distinct(page) /\ token = None /\ events = <<>>
        /\ page # <<>> => emitted # <<>> /\ Last(page) = Last(emitted)
    BY <1>1, <2>1 DEF Filling
  <2>3. CASE page = <<>>
    <3>1. at' = "done" /\ UNCHANGED <<page, token>>
      BY <1>5, <2>3 DEF Cut
    <3>2. ~ (PageSize > 0) /\ PageSize' = PageSize
      BY <2>1, <2>3, EmptySeq DEF PageSize
    <3>3. QED BY <2>1, <2>2, <2>3, <3>1, <3>2 DEF Answered
  <2>4. CASE page # <<>>
    <3>1. at' = "lookup" /\ token' = Token(Last(page)) /\ page' = Front(page)
      BY <1>5, <2>4 DEF Cut
    <3>2. /\ page' \in Seq(Key) /\ Distinct(page')
          /\ Range(page) = Range(page') \cup {Last(page)} /\ Last(page) \in Range(page)
      BY <2>2, <2>4, <3>1, FrontRange, FrontDistinct
    <3>3. token' # None
      <4>1. Range(page) \subseteq Key
        BY <2>2, LenProperties DEF Range
      <4>2. Last(page) \in [start : Int, id : Int, ts : Int]
        BY <3>2, <4>1, IteratorAssumption
      <4>3. Token(Last(page)) \in [start : Int, id : Int]
        BY <4>2 DEF Token
      <4>4. QED BY <3>1, <4>3, ListAssumption
    <3>4. QED BY <2>1, <2>2, <2>4, <3>1, <3>2, <3>3 DEF Answered
  <2>5. QED BY <2>3, <2>4
<1>6. CASE Lookup
  <2>1. /\ at = "lookup" /\ at' = "done" /\ events' = Answer
        /\ UNCHANGED <<pc, emitted, history, size, page, token>>
    BY <1>6 DEF Lookup, vars
  <2>2. Answer' = Answer /\ PageSize' = PageSize
    BY <2>1, AnswerSame DEF PageSize
  <2> HIDE DEF Answer
  <2>3. QED BY <2>1, <2>2 DEF Answered
<1>7. CASE UNCHANGED allVars
  <2>1. UNCHANGED <<pc, emitted, history, size, at, page, token, events>>
    BY <1>7 DEF allVars, vars, listVars
  <2>2. Answer' = Answer /\ PageSize' = PageSize
    BY <2>1, AnswerSame DEF PageSize
  <2>3. QED BY <2>1, <2>2 DEF Answered
<1>8. QED BY <1>2, <1>3, <1>4, <1>5, <1>6, <1>7 DEF ListNext

LEMMA AnswerInvariant == ListSpec => []AnswerIInv
<1>1. ListInit => AnswerIInv
  <2>1. SUFFICES ASSUME ListInit PROVE AnswerIInv
    OBVIOUS
  <2>2. /\ pc = "init" /\ emitted = <<>> /\ at = "begin" /\ events = <<>>
    BY <2>1 DEF ListInit, Init
  <2>3. QED BY <2>2 DEF AnswerIInv, Reached, Chosen, Answered, Range
<1>2. ListIInv /\ PageIInv /\ AnswerIInv /\ [ListNext]_allVars => AnswerIInv'
  BY ReachedStep, ChosenStep, AnsweredStep DEF AnswerIInv
<1>3. QED BY <1>1, <1>2, ListInvariant, PageInvariant, PTL DEF ListSpec

(***************************************************************************)
(* What is listed.                                                         *)
(***************************************************************************)

\* Of sorted sources, a version due before the last key returned was returned.
LEMMA DueBeforeLast ==
  ASSUME Walk, Covered, Sorted, emitted # <<>>, NEW k, Due(k), Before(k, Last(emitted))
  PROVE  k \in Range(emitted)
<1> DEFINE e == Last(emitted)
<1>1. Cursors /\ Ordered /\ emitted \in Seq(Key) /\ pc # "init"
  BY DEF Walk, Cursors
<1>2. e \in Range(emitted) /\ e \in Key
  <2>1. e \in Range(emitted)
    BY <1>1, FrontRange
  <2>2. QED BY <1>1, <2>1, LenProperties DEF Range
<1> HIDE DEF e
<1>3. k \in Key /\ Before(k, e) /\ ~ Before(e, k)
  <2>1. k \in Key
    BY <1>1, DueOffered DEF Walk
  <2>2. QED BY <1>2, <2>1, BeforeOrder DEF e
<1>4. /\ 0 \in Source /\ \A i \in Index : i \in Source /\ i # 0
      /\ \A s \in Source : Valid(s) => Before(e, Value(s)) /\ Value(s) \in Key
  <2>1. 0 \in Source /\ \A i \in Index : i \in Source /\ i # 0
    BY IteratorAssumption DEF Source, Index
  <2>2. \A s \in Source : Offers(s) \subseteq Key
    BY <1>1, LenProperties DEF Offers, Holds, Cursors, Range, Source, Index
  <2>3. QED BY <1>1, <1>2, <2>1, <2>2 DEF Cursors, Ordered
<1>5. \A l \in Key : Before(e, l) => l # k /\ ~ Before(l, k)
  BY <1>2, <1>3, BeforeOrder
<1>6. CASE k \in mt
  <2>1. SUFFICES ASSUME KeyAhead(mit, k) PROVE FALSE
    BY <1>1, <1>6 DEF Covered
  <2>2. ~ mit.end /\ Before(e, mit.cur) /\ mit.cur \in Key
    BY <1>4, <2>1 DEF KeyAhead, Valid, Value
  <2>3. mit.next # None => mit.next \in Key /\ Before(mit.cur, mit.next)
    BY <1>1, <2>2 DEF Cursors
  <2>4. mit.next # None => Before(e, mit.next)
    BY <1>2, <2>2, <2>3, BeforeOrder
  <2>5. QED BY <1>5, <2>1, <2>2, <2>3, <2>4 DEF KeyAhead
<1>7. CASE k \notin mt
  <2>1. PICK i \in Index : k \in Range(keys[i])
    BY <1>7 DEF Due, Readable, Stored
  <2>2. PICK q \in DOMAIN keys[i] : keys[i][q] = k
    BY <2>1 DEF Range
  <2>3. SUFFICES ASSUME RowAhead(iit[i], q) PROVE FALSE
    BY <1>1, <2>2 DEF Covered
  <2> DEFINE r == iit[i].row
             v == keys[i][r]
  <2>4. ~ iit[i].end /\ Before(e, v) /\ v \in Key /\ r \in DOMAIN keys[i]
    <3>1. Valid(i) /\ Value(i) = v
      BY <1>4, <2>3 DEF RowAhead, Valid, Value
    <3>2. QED BY <1>1, <1>4, <3>1, <2>3 DEF Cursors, RowAhead
  <2>5. r = q \/ r < q
    <3>1. r \in Nat /\ iit[i].nextIdx = Advance(i, r) /\ iit[i].nextIdx \in Nat /\ q \in Nat
      BY <1>1, LenProperties DEF Cursors
    <3>2. iit[i].nextIdx # 0 => iit[i].nextIdx > r
      BY <1>1, <3>1, AdvanceRow DEF Cursors
    <3> HIDE DEF r
    <3>3. r = q \/ (iit[i].nextIdx # 0 /\ iit[i].nextIdx <= q)
      BY <2>3 DEF RowAhead, r
    <3>4. QED BY <3>1, <3>2, <3>3
  <2>6. v = k \/ Before(v, k)
    BY <1>1, <2>2, <2>4, <2>5, SortedPairs DEF Cursors
  <2>7. QED BY <1>5, <2>4, <2>6
<1>8. QED BY <1>6, <1>7

\* What comes of a key on the page whose event has one start time: the current
\* version, where its row has one.
LEMMA UnmovedListed ==
  ASSUME page \in Seq(Key), Range(page) \subseteq Stored, NEW k \in Key, Unmoved(k),
         k = RowAt(Row(k), ReadTs), NEW e \in Range(page), e.id = k.id
  PROVE  k \in Range(Answer)
<1>1. k # None
  BY IteratorAssumption
<1>2. ASSUME NEW c \in DOMAIN page, page[c].id = k.id
      PROVE  RowAt(Row(page[c]), ReadTs) = k
  <2>1. page[c] \in Stored
    BY DEF Range
  <2>2. page[c].start = k.start
    BY <1>2, <2>1 DEF Unmoved
  <2>3. Row(page[c]) = Row(k)
    BY <1>2, <2>2 DEF Row
  <2> HIDE DEF RowAt
  <2>4. QED BY <2>3
<1>3. PICK n \in DOMAIN page : page[n] = e
  BY DEF Range
<1>4. Finds(n, n, k)
  <2> HIDE DEF RowAt
  <2>1. QED BY <1>1, <1>2, <1>3 DEF Finds
<1>5. PICK h \in [DOMAIN Answer -> DOMAIN page] :
        /\ \A x \in DOMAIN Answer : \E c \in DOMAIN page : Finds(h[x], c, Answer[x])
        /\ \E x \in DOMAIN Answer : h[x] = n
  BY <1>3, <1>4, AnswerMakes DEF AnswerPlaces
<1>6. PICK x \in DOMAIN Answer : h[x] = n
  BY <1>5
<1>7. PICK c \in DOMAIN page : Finds(n, c, Answer[x])
  BY <1>5, <1>6
<1>8. page[c].id = k.id /\ Answer[x] = RowAt(Row(page[c]), ReadTs)
  BY <1>3, <1>7 DEF Finds
<1>9. Answer[x] = k
  BY <1>2, <1>8
<1>10. QED BY <1>9 DEF Range

\* An event that is current and was held at one start time when the call began
\* is on the page if the filter selects it and it comes before the token, or
\* wherever it comes if there is no token: neither an order of versions, sorted
\* or not, nor a version that memory does not hold hides it.  Only a newer
\* version or a deletion does, that the call reads (storage.go:382-440).
THEOREM CurrentOnPage == ListSpec => []CurrentListed
<1>1. ListIInv /\ PageIInv /\ AnswerIInv => CurrentListed
  <2>1. SUFFICES ASSUME ListIInv, PageIInv, AnswerIInv, at = "done",
                        NEW k \in CurrentAt(ReadTs) \cap ((Stored \cap Selected) \ late),
                        Unmoved(k),
                        ~ \E l \in Readable : l.id = k.id /\ (l.ts > k.ts \/ l \in Tombstone),
                        IF token = None THEN PageSize > 0
                        ELSE Sorted /\ Before(k, Last(emitted))
                 PROVE  k \in Range(events)
    BY DEF CurrentListed
  <2>2. Walk /\ Covered /\ Cursors /\ Places /\ Reached /\ Chosen /\ Answered
    BY <2>1 DEF ListIInv, AnswerIInv, Walk
  <2>3. k = RowAt(Row(k), ReadTs) /\ k.ts <= ReadTs
    <3>1. PICK l \in history : k = RowAt(Row(l), ReadTs) /\ k # None
      BY <2>1 DEF CurrentAt
    <3> HIDE DEF RowAt
    <3>2. Row(k) = Row(l) /\ k.ts <= ReadTs
      BY <3>1, RowIs
    <3>3. QED BY <3>1, <3>2
  <2>4. Due(k) /\ k \in Key
    <3>1. Due(k)
      BY <2>1, <2>3 DEF Due, Readable
    <3>2. QED BY <2>2, <3>1, DueOffered
  <2>5. /\ page \in Seq(Key) /\ Range(page) \subseteq Range(emitted) \ Tombstone
        /\ events = Answer \/ (page = <<>> /\ events = <<>>)
    BY <2>1, <2>2 DEF Answered
  <2>6. Range(emitted) \subseteq Stored
    BY <2>2 DEF Chosen, Readable
  <2>7. ASSUME NEW e \in Range(emitted), e.id = k.id PROVE e \notin Tombstone
    BY <2>1, <2>2, <2>7 DEF Chosen
  <2>8. \E e \in Range(page) : e.id = k.id
    <3>1. CASE token = None
      <4>1. pc = "end" /\ Range(page) = Range(emitted) \ Tombstone
        BY <2>1, <2>2, <3>1 DEF Answered
      <4>2. PICK e \in Range(emitted) : SameEvent(e, k)
        BY <2>2, <2>4, <4>1, ReachedEnds
      <4>3. QED BY <2>7, <4>1, <4>2 DEF SameEvent
    <3>2. CASE token # None
      <4>1. /\ emitted # <<>>
            /\ Range(emitted) \ Tombstone \subseteq Range(page) \cup {Last(emitted)}
        BY <2>1, <2>2, <3>2 DEF Answered
      <4>2. Sorted /\ Before(k, Last(emitted))
        BY <2>1, <3>2
      <4>3. k \in Range(emitted)
        BY <2>2, <2>4, <4>1, <4>2, DueBeforeLast
      <4>4. k # Last(emitted)
        BY <2>4, <4>2, BeforeOrder
      <4>5. QED BY <2>7, <4>1, <4>3, <4>4
    <3>3. QED BY <3>1, <3>2
  <2>9. page # <<>>
    BY <2>8 DEF Range
  <2>10. events = Answer
    BY <2>5, <2>9
  <2>11. k \in Range(Answer)
    BY <2>1, <2>3, <2>4, <2>5, <2>6, <2>8, UnmovedListed
  <2>12. QED BY <2>10, <2>11, Zenon
<1>2. QED BY <1>1, ListInvariant, PageInvariant, AnswerInvariant, PTL

\* There are finitely many sources and start times.
LEMMA WaysFinite ==
  ASSUME NEW W, \A w \in W : \E s \in Source, l \in Key : w = <<s, l.start>>
  PROVE  IsFiniteSet(W)
<1> DEFINE Starts == {l.start : l \in Key}
           f == [l \in Key |-> l.start]
<1>1. f \in Surjection(Key, Starts)
  BY DEF Surjection
<1> HIDE DEF f
<1>2. IsFiniteSet(Starts)
  BY <1>1, FS_Surjection, IteratorAssumption
<1>3. IsFiniteSet(Source)
  <2>1. 0 \in Int /\ Indexes \in Int
    BY IteratorAssumption
  <2>2. QED BY <2>1, FS_Interval DEF Source
<1>4. IsFiniteSet(Source \X Starts)
  BY <1>2, <1>3, FS_Product
<1>5. W \subseteq Source \X Starts
  OBVIOUS
<1>6. QED BY <1>4, <1>5, FS_Subset

\* What the sources may return of event k, and at which source and start time.
Versions(k) == {l \in (Readable \cap Selected) \ Tombstone : l.id = k.id}
Ways(k) == UNION {{<<s, l.start>> : s \in Holders(l)} : l \in Versions(k)}

\* The places of k in the answer lead to different keys of the page, which are
\* such versions.
LEMMA PlacesVersions ==
  ASSUME Chosen, page \in Seq(Key), Distinct(page),
         Range(page) \subseteq Range(emitted) \ Tombstone, NEW k
  PROVE  \E g \in [{x \in DOMAIN Answer : Answer[x] = k} -> Versions(k)] :
           /\ \A x \in DOMAIN g, y \in DOMAIN g : g[x] = g[y] => x = y
           /\ \A x \in DOMAIN g : g[x] \in Range(emitted) /\ g[x] \in Key
<1> DEFINE P == {x \in DOMAIN Answer : Answer[x] = k}
<1>1. PICK h \in [DOMAIN Answer -> DOMAIN page] :
        /\ \A x \in DOMAIN Answer : \E c \in DOMAIN page : Finds(h[x], c, Answer[x])
        /\ \A x \in DOMAIN Answer, y \in DOMAIN Answer : h[x] = h[y] => x = y
  BY AnswerMakes DEF AnswerPlaces
<1> HIDE DEF Answer
<1> DEFINE g == [x \in P |-> page[h[x]]]
<1>2. ASSUME NEW x \in P
      PROVE  /\ h[x] \in DOMAIN page /\ g[x] = page[h[x]] /\ g[x] \in Versions(k)
             /\ g[x] \in Range(emitted) /\ g[x] \in Key
  <2>1. PICK c \in DOMAIN page : Finds(h[x], c, k)
    BY <1>1
  <2>2. h[x] \in DOMAIN page /\ g[x] = page[h[x]] /\ page[h[x]] \in Key
    BY <1>1, LenProperties
  <2>3. page[h[x]].id = k.id
    <3>1. /\ page[c].id = page[h[x]].id
          /\ k = RowAt(Row(page[c]), ReadTs) /\ k # None
      BY <2>1 DEF Finds
    <3>2. k.id = Row(page[c]).id
      <4> HIDE DEF RowAt, Row
      <4>1. QED BY <3>1, RowIs
    <3>3. QED BY <3>1, <3>2 DEF Row
  <2>4. g[x] \in Range(emitted) /\ g[x] \in (Readable \cap Selected) \ Tombstone
    <3>1. g[x] \in Range(page)
      BY <2>2 DEF Range
    <3> HIDE DEF g
    <3>2. QED BY <3>1 DEF Chosen
  <2> HIDE DEF g
  <2>5. QED BY <2>2, <2>3, <2>4 DEF Versions
<1>3. DOMAIN g = P /\ g \in [P -> Versions(k)]
  BY <1>2
<1> HIDE DEF g
<1>4. ASSUME NEW x \in P, NEW y \in P, g[x] = g[y] PROVE x = y
  <2>1. h[x] = h[y]
    BY <1>2, <1>4 DEF Distinct
  <2>2. QED BY <1>1, <2>1
<1>5. QED BY <1>2, <1>3, <1>4

\* An event is on a page only if a version of it may be read and is selected,
\* and no more often than there are such versions; of sorted sources, than
\* sources have such versions, counted apart for each start time
\* (index.go:65, storage.go:382-440).
THEOREM SelectedOnPage == ListSpec => []ListedFromSelected
<1>1. ListIInv /\ PageIInv /\ AnswerIInv => ListedFromSelected
  <2>1. SUFFICES ASSUME ListIInv, PageIInv, AnswerIInv, NEW k \in Range(events)
                 PROVE  /\ Versions(k) # {}
                        /\ Cardinality({x \in DOMAIN events : events[x] = k})
                             <= Cardinality(IF Sorted THEN Ways(k) ELSE Versions(k))
    BY DEF ListedFromSelected, Versions, Ways
  <2>2. Walk /\ Cursors /\ Given /\ Chosen /\ Answered
    BY <2>1 DEF ListIInv, AnswerIInv, Walk
  <2>3. events # <<>>
    BY <2>1 DEF Range
  <2>4. /\ events = Answer /\ page \in Seq(Key) /\ Distinct(page)
        /\ Range(page) \subseteq Range(emitted) \ Tombstone
    BY <2>2, <2>3 DEF Answered
  <2> DEFINE P == {x \in DOMAIN events : events[x] = k}
  <2>5. PICK g \in [P -> Versions(k)] :
          /\ \A x \in P, y \in P : g[x] = g[y] => x = y
          /\ \A x \in P : g[x] \in Range(emitted) /\ g[x] \in Key
    <3> HIDE DEF Answer
    <3>1. \E g \in [{x \in DOMAIN Answer : Answer[x] = k} -> Versions(k)] :
            /\ \A x \in DOMAIN g, y \in DOMAIN g : g[x] = g[y] => x = y
            /\ \A x \in DOMAIN g : g[x] \in Range(emitted) /\ g[x] \in Key
      BY <2>2, <2>4, PlacesVersions
    <3>2. QED BY <2>4, <3>1
  <2>6. P # {}
    BY <2>1 DEF Range
  <2> HIDE DEF P
  <2>7. Versions(k) # {}
    BY <2>5, <2>6
  <2>8. IsFiniteSet(Versions(k)) /\ Versions(k) \subseteq Key
    <3>1. mt \subseteq Key /\ \A i \in Index : Range(keys[i]) \subseteq Key
      BY <2>2, LenProperties DEF Cursors, Range
    <3>2. Versions(k) \subseteq Key
      BY <3>1 DEF Versions, Readable, Stored
    <3>3. QED BY <3>2, IteratorAssumption, FS_Subset
  <2>9. Cardinality(P) <= Cardinality(Versions(k))
    <3>1. g \in Injection(P, Versions(k))
      BY <2>5 DEF Injection, IsInjective
    <3>2. QED BY <2>8, <3>1, FS_Injection
  <2>10. CASE Sorted
    <3> DEFINE a(l) == CHOOSE s \in Source : s \in Holders(l)
               w == [x \in P |-> <<a(g[x]), g[x].start>>]
    <3>1. ASSUME NEW x \in P
          PROVE  a(g[x]) \in Source /\ a(g[x]) \in Holders(g[x])
      <4>1. \E s \in Source : s \in Holders(g[x])
        BY <2>2, <2>5 DEF Given, Holds, Holders
      <4>2. QED BY <4>1
    <3> HIDE DEF a
    <3>2. w \in [P -> Ways(k)]
      BY <2>5, <3>1 DEF Ways
    <3>3. ASSUME NEW x \in P, NEW y \in P, w[x] = w[y] PROVE x = y
      <4>1. a(g[x]) = a(g[y]) /\ g[x].start = g[y].start
        BY <3>3
      <4>2. SameEvent(g[x], g[y])
        BY <2>5, <4>1 DEF Versions, SameEvent
      <4>3. Holders(g[x]) \cap Holders(g[y]) # {}
        BY <3>1, <4>1
      <4>4. PICK n \in DOMAIN emitted, m \in DOMAIN emitted :
              emitted[n] = g[x] /\ emitted[m] = g[y]
        BY <2>5 DEF Range
      <4>5. n = m
        BY <2>2, <2>10, <4>2, <4>3, <4>4 DEF Walk, OnePerSource
      <4>6. QED BY <2>5, <4>4, <4>5
    <3>4. IsFiniteSet(Ways(k))
      <4>1. \A v \in Ways(k) : \E s \in Source, l \in Key : v = <<s, l.start>>
        BY <2>8 DEF Ways, Holders
      <4>2. QED BY <4>1, WaysFinite
    <3> HIDE DEF w
    <3>5. w \in Injection(P, Ways(k))
      BY <3>2, <3>3 DEF Injection, IsInjective
    <3>6. Cardinality(P) <= Cardinality(Ways(k))
      BY <3>4, <3>5, FS_Injection
    <3>7. QED BY <2>7, <2>10, <3>6 DEF P
  <2>11. CASE ~ Sorted
    BY <2>7, <2>9, <2>11 DEF P
  <2>12. QED BY <2>10, <2>11
<1>2. QED BY <1>1, ListInvariant, PageInvariant, AnswerInvariant, PTL
=============================================================================
