---------------------------- MODULE FilterProofs ----------------------------
(* Proofs about the filter language and the two evaluators, for texts of   *)
(* any length, trees of any size, and parentheses to any depth.            *)
EXTENDS Filter, FiniteSetTheorems, SequenceTheorems, WellFoundedInduction, TLAPS

\* A nonempty set of naturals has a least element.
LEMMA Least ==
  ASSUME NEW T, T \subseteq Nat, T # {}
  PROVE  \E n \in T : \A m \in T : n <= m
<1> DEFINE less == OpToRel(<, Nat)
<1>1. PICK x \in T : \A y \in T : ~ (<<y, x>> \in less)
  <2>1. IsWellFoundedOn(less, Nat)
    BY NatLessThanWellFounded
  <2> HIDE DEF less
  <2>2. QED BY <2>1, WFMin
<1>2. \A a, c \in Nat : <<c, a>> \in less <=> c < a
  BY DEF OpToRel
<1> HIDE DEF less
<1>3. \A y \in T : x \in Nat /\ y \in Nat /\ ~ (y < x)
  BY <1>1, <1>2, Zenon
<1>4. QED BY <1>1, <1>3

(***************************************************************************)
(* Numbers and recursive functions.                                        *)
(***************************************************************************)

\* Induction over the numbers up to n, S being those that have the property.
LEMMA UpTo ==
  ASSUME NEW n \in Nat, NEW S, 0 \in S,
         \A m \in 0 .. n : m # n /\ m \in S => m + 1 \in S
  PROVE  \A m \in 0 .. n : m \in S
<1> DEFINE Bad == {m \in Nat : m \in 0 .. n /\ m \notin S}
<1>1. ASSUME Bad # {} PROVE FALSE
  <2>1. Bad \subseteq Nat
    OBVIOUS
  <2>2. PICK m \in Bad : \A k \in Bad : m <= k
    BY <1>1, <2>1, Least
  <2>3. m \in 0 .. n /\ m \notin S /\ m # 0 /\ m \in Nat
    OBVIOUS
  <2>4. m - 1 \in Nat /\ m - 1 \in 0 .. n /\ m - 1 # n /\ ~ (m <= m - 1) /\ (m - 1) + 1 = m
    BY <2>3
  <2>5. m - 1 \in S
    BY <2>2, <2>4
  <2>6. QED BY <2>3, <2>4, <2>5
<1>2. QED BY <1>1

LEMMA NextUpTo ==
  ASSUME NEW n \in Nat
  PROVE  /\ \A k \in 0 .. n : k # n => k + 1 \in 0 .. n
         /\ \A k \in 1 .. n : k # n => k + 1 \in 1 .. n
         /\ \A k \in 0 .. n : k \in Nat /\ k + 1 \in Nat /\ (k + 1) - 1 = k
         /\ \A k \in 1 .. n : k \in Nat /\ k \in 0 .. n /\ k - 1 \in 0 .. n
OBVIOUS

LEMMA Minimum ==
  ASSUME NEW T, T \subseteq Nat, T # {}
  PROVE  Min(T) \in T /\ \A x \in T : Min(T) <= x
<1>1. \E n \in T : \A m \in T : n <= m
  BY Least
<1>2. QED BY <1>1 DEF Min

\* The function of Nested, up to depth n.
Nests(f, n) == f = [m \in 0 .. n |-> IF m = 0 THEN {} ELSE Lists(Sequences(f[m - 1]))]

LEMMA NestsExists ==
  ASSUME NEW n \in Nat
  PROVE  \E f : Nests(f, n)
<1> DEFINE Good(m) == \E f : Nests(f, m)
           S == {m \in 0 .. n : Good(m)}
           To(f, m) == IF m = 0 THEN {} ELSE Lists(Sequences(f[m - 1]))
<1>1. Good(0)
  <2> DEFINE f == [m \in 0 .. 0 |-> {}]
  <2>1. f = [m \in 0 .. 0 |-> To(f, m)]
    OBVIOUS
  <2>2. QED BY <2>1 DEF Nests
<1>2. ASSUME NEW m \in 0 .. n, m # n, Good(m) PROVE Good(m + 1)
  <2>1. PICK f : f = [k \in 0 .. m |-> To(f, k)]
    BY <1>2 DEF Nests
  <2> DEFINE g == [k \in 0 .. m + 1 |-> To(f, k)]
  <2>2. \A k \in 0 .. m : f[k] = To(f, k)
    BY <2>1, Zenon
  <2>3. \A k \in 0 .. m : g[k] = f[k]
    <3>1. \A k \in 0 .. m : k \in 0 .. m + 1
      OBVIOUS
    <3>2. QED BY <2>2, <3>1, Zenon
  <2>4. \A k \in 0 .. m + 1 : k = 0 \/ k - 1 \in 0 .. m
    OBVIOUS
  <2> HIDE DEF g
  <2>5. \A k \in 0 .. m + 1 : To(f, k) = To(g, k)
    BY <2>3, <2>4, Zenon
  <2>6. g = [k \in 0 .. m + 1 |-> To(g, k)]
    BY <2>5, Zenon DEF g
  <2>7. QED BY <2>6 DEF Nests
<1> HIDE DEF Good
<1>3. 0 \in S /\ \A m \in 0 .. n : m # n /\ m \in S => m + 1 \in S
  BY <1>1, <1>2
<1> HIDE DEF S
<1>4. \A m \in 0 .. n : m \in S
  BY <1>3, UpTo
<1>5. QED BY <1>4 DEF Good, S

LEMMA NestedIs ==
  /\ Nested[0] = {}
  /\ \A n \in 0 .. MaxDepth : n # 0 => Nested[n] = Lists(Sequences(Nested[n - 1]))
<1>1. Nests(Nested, MaxDepth)
  <2>1. \E f : f = [n \in 0 .. MaxDepth |-> IF n = 0 THEN {} ELSE Lists(Sequences(f[n - 1]))]
    BY NestsExists, LanguageAssumption DEF Nests
  <2>2. Nested = [n \in 0 .. MaxDepth |->
                    IF n = 0 THEN {} ELSE Lists(Sequences(Nested[n - 1]))]
    BY <2>1 DEF Nested
  <2>3. QED BY <2>2 DEF Nests
<1>2. MaxDepth \in Nat
  BY LanguageAssumption
<1>3. QED BY <1>1, <1>2 DEF Nests


LEMMA ListFacts ==
  ASSUME NEW S, NEW f \in Lists(S)
  PROVE  /\ f \in Seq(S) /\ Len(f) \in Nat /\ Len(f) # 0 /\ DOMAIN f = 1 .. Len(f)
         /\ \A k \in 1 .. Len(f) : f[k] \in S
<1>1. f \in Seq(S) /\ f # <<>>
  BY DEF Lists
<1>2. QED BY <1>1, LenProperties, ElementOfSeq, EmptySeq

LEMMA SequenceOver ==
  ASSUME NEW n \in Nat, NEW f, f = [k \in 1 .. n |-> f[k]]
  PROVE  Len(f) = n
OBVIOUS

(***************************************************************************)
(* Pieces of a text, and texts joined together.                            *)
(***************************************************************************)

\* The tokens from p up to q.
Cut(ts, p, q) == SubSeq(ts, p, q - 1)

LEMMA CutIs ==
  ASSUME NEW T, NEW ts \in Seq(T), NEW p \in Position(ts), NEW q \in Position(ts), p <= q
  PROVE  /\ Cut(ts, p, q) \in Seq(T) /\ Len(Cut(ts, p, q)) = q - p
         /\ \A i \in 1 .. q - p : Cut(ts, p, q)[i] = ts[p + i - 1]
<1>1. Len(ts) \in Nat
  BY LenProperties
<1>2. p \in Int /\ q - 1 \in Int /\ p \in 1 .. Len(ts) + 1 /\ q \in 1 .. Len(ts) + 1
  BY <1>1 DEF Position
<1>3. \A i \in p .. q - 1 : ts[i] \in T
  <2>1. \A i \in p .. q - 1 : i \in 1 .. Len(ts)
    BY <1>1, <1>2
  <2>2. QED BY <2>1, ElementOfSeq
<1>4. /\ SubSeq(ts, p, q - 1) \in Seq(T)
      /\ Len(SubSeq(ts, p, q - 1)) = IF p <= q - 1 THEN (q - 1) - p + 1 ELSE 0
      /\ \A i \in 1 .. (q - 1) - p + 1 : SubSeq(ts, p, q - 1)[i] = ts[p + i - 1]
  <2> DEFINE r == q - 1
  <2>1. r \in Int /\ \A i \in p .. r : ts[i] \in T
    BY <1>2, <1>3
  <2> HIDE DEF r
  <2>2. /\ SubSeq(ts, p, r) \in Seq(T)
        /\ Len(SubSeq(ts, p, r)) = IF p <= r THEN r - p + 1 ELSE 0
        /\ \A i \in 1 .. r - p + 1 : SubSeq(ts, p, r)[i] = ts[p + i - 1]
    BY <1>2, <2>1, SubSeqProperties
  <2>3. QED BY <2>2 DEF r
<1>5. (q - 1) - p + 1 = q - p
  BY <1>2
<1>6. QED BY <1>1, <1>2, <1>4, <1>5 DEF Cut

LEMMA CutConcat ==
  ASSUME NEW T, NEW ts \in Seq(T), NEW p \in Position(ts), NEW q \in Position(ts),
         NEW r \in Position(ts), p <= q, q <= r
  PROVE  Cut(ts, p, q) \o Cut(ts, q, r) = Cut(ts, p, r)
<1>1. Len(ts) \in Nat
  BY LenProperties
<1> DEFINE k == q - 1
           n == r - 1
<1>2. /\ p \in 1 .. Len(ts) + 1 /\ k \in p - 1 .. Len(ts) /\ n \in k .. Len(ts)
      /\ k + 1 = q
  BY <1>1 DEF Position
<1> HIDE DEF k, n
<1>3. SubSeq(ts, p, k) \o SubSeq(ts, k + 1, n) = SubSeq(ts, p, n)
  BY <1>2, ConcatAdjacentSubSeq
<1>4. QED BY <1>2, <1>3 DEF Cut, k, n

LEMMA CutEmpty ==
  ASSUME NEW ts, NEW p \in Int
  PROVE  Cut(ts, p, p) = <<>>
<1>1. p - 1 \in Int /\ p - 1 < p
  OBVIOUS
<1>2. QED BY <1>1, SubSeqEmpty DEF Cut

LEMMA CutOne ==
  ASSUME NEW T, NEW ts \in Seq(T), NEW p \in 1 .. Len(ts)
  PROVE  /\ p \in Position(ts) /\ p + 1 \in Position(ts) /\ p < p + 1
         /\ Cut(ts, p, p + 1) = <<ts[p]>>
<1>1. Len(ts) \in Nat
  BY LenProperties
<1>2. p \in Position(ts) /\ p + 1 \in Position(ts) /\ p < p + 1 /\ p <= p + 1 /\ (p + 1) - p = 1
  BY <1>1 DEF Position
<1>3. /\ Cut(ts, p, p + 1) \in Seq(T) /\ Len(Cut(ts, p, p + 1)) = 1
      /\ \A i \in 1 .. 1 : Cut(ts, p, p + 1)[i] = ts[p + i - 1]
  <2> DEFINE q == p + 1
  <2>1. q \in Position(ts) /\ p <= q /\ q - p = 1
    BY <1>2
  <2> HIDE DEF q
  <2>2. /\ Cut(ts, p, q) \in Seq(T) /\ Len(Cut(ts, p, q)) = q - p
        /\ \A i \in 1 .. q - p : Cut(ts, p, q)[i] = ts[p + i - 1]
    BY <1>2, <2>1, CutIs
  <2>3. QED BY <2>1, <2>2 DEF q
<1>4. p + 1 - 1 = p /\ p \in Int
  BY <1>1
<1>5. Cut(ts, p, p + 1)[1] = ts[p]
  BY <1>3, <1>4
<1> DEFINE c == Cut(ts, p, p + 1)
<1>6. c \in Seq(T) /\ Len(c) = 1 /\ c[1] = ts[p]
  BY <1>3, <1>5
<1> HIDE DEF c
<1>7. c = <<ts[p]>>
  BY <1>6
<1>8. QED BY <1>2, <1>7 DEF c

LEMMA CutAll ==
  ASSUME NEW T, NEW ts \in Seq(T)
  PROVE  Cut(ts, 1, Len(ts) + 1) = ts
<1>1. Len(ts) \in Nat
  BY LenProperties
<1>2. (Len(ts) + 1) - 1 = Len(ts)
  BY <1>1
<1>3. QED BY <1>2, SubSeqFull DEF Cut

\* The function of Joined, for the first n parts.
Joins(f, parts, sep, n) ==
  f = [m \in 1 .. n |-> IF m = 1 THEN parts[1] ELSE f[m - 1] \o sep \o parts[m]]

LEMMA JoinsExists ==
  ASSUME NEW n \in Nat, NEW parts, NEW sep
  PROVE  \E f : Joins(f, parts, sep, n)
<1> DEFINE Good(m) == \E f : Joins(f, parts, sep, m)
           S == {m \in 0 .. n : Good(m)}
           To(f, m) == IF m = 1 THEN parts[1] ELSE f[m - 1] \o sep \o parts[m]
<1>0. n \in Nat
  OBVIOUS
<1>1. Good(0)
  <2> DEFINE f == [m \in 1 .. 0 |-> To(<<>>, m)]
  <2>1. f = [m \in 1 .. 0 |-> To(f, m)]
    OBVIOUS
  <2>2. QED BY <2>1 DEF Joins
<1>2. ASSUME NEW m \in 0 .. n, m # n, Good(m) PROVE Good(m + 1)
  <2>1. PICK f : f = [k \in 1 .. m |-> To(f, k)]
    BY <1>2 DEF Joins
  <2> DEFINE g == [k \in 1 .. m + 1 |-> To(f, k)]
  <2>2. \A k \in 1 .. m : f[k] = To(f, k)
    BY <2>1, Zenon
  <2>3. \A k \in 1 .. m : g[k] = f[k]
    <3>1. \A k \in 1 .. m : k \in 1 .. m + 1
      BY <1>0
    <3>2. QED BY <2>2, <3>1, Zenon
  <2>4. \A k \in 1 .. m + 1 : k = 1 \/ k - 1 \in 1 .. m
    BY <1>0
  <2> HIDE DEF g
  <2>5. \A k \in 1 .. m + 1 : To(f, k) = To(g, k)
    BY <2>3, <2>4, Zenon
  <2>6. g = [k \in 1 .. m + 1 |-> To(g, k)]
    BY <2>5, Zenon DEF g
  <2>7. QED BY <2>6 DEF Joins
<1> HIDE DEF Good
<1>3. 0 \in S /\ \A m \in 0 .. n : m # n /\ m \in S => m + 1 \in S
  BY <1>0, <1>1, <1>2
<1> HIDE DEF S
<1>4. \A m \in 0 .. n : m \in S
  BY <1>0, <1>3, UpTo
<1>5. QED BY <1>0, <1>4 DEF Good, S


LEMMA JoinsSame ==
  ASSUME NEW n \in Nat, NEW y, NEW z, NEW sep, NEW f, NEW g, NEW m \in Nat, n <= m,
         Joins(f, y, sep, n), Joins(g, z, sep, m), \A k \in 1 .. n : y[k] = z[k]
  PROVE  \A k \in 1 .. n : f[k] = g[k]
<1> DEFINE S == {k \in 0 .. n : k = 0 \/ f[k] = g[k]}
<1>1. \A k \in 1 .. n : f[k] = IF k = 1 THEN y[1] ELSE f[k - 1] \o sep \o y[k]
  BY Zenon DEF Joins
<1>2. \A k \in 1 .. m : g[k] = IF k = 1 THEN z[1] ELSE g[k - 1] \o sep \o z[k]
  BY Zenon DEF Joins
<1>3. ASSUME NEW k \in 0 .. n, k # n, k \in S PROVE k + 1 \in S
  <2>1. k + 1 \in 1 .. n /\ k + 1 \in 1 .. m /\ k + 1 \in 0 .. n /\ (k + 1) - 1 = k
    BY <1>3
  <2>2. CASE k = 0
    BY <1>1, <1>2, <2>1, <2>2
  <2>3. CASE k # 0
    <3>1. f[k] = g[k] /\ k + 1 # 1
      BY <1>3, <2>3
    <3>2. f[k + 1] = f[k] \o sep \o y[k + 1]
      BY <1>1, <2>1, <3>1
    <3>3. g[k + 1] = g[k] \o sep \o z[k + 1]
      BY <1>2, <2>1, <3>1
    <3>4. QED BY <2>1, <3>1, <3>2, <3>3
  <2>4. QED BY <2>2, <2>3
<1>4. 0 \in S
  OBVIOUS
<1> HIDE DEF S
<1>5. \A k \in 0 .. n : k \in S
  BY <1>3, <1>4, UpTo
<1>6. \A k \in 1 .. n : k \in 0 .. n /\ k # 0
  OBVIOUS
<1>7. QED BY <1>5, <1>6 DEF S

LEMMA JoinedIs ==
  ASSUME NEW n \in Nat, n # 0, NEW z, NEW sep, NEW f, Joins(f, z, sep, n)
  PROVE  Joined(z, n, sep) = f[n]
<1> DEFINE c == CHOOSE g : g = [k \in 1 .. n |->
                                  IF k = 1 THEN z[1] ELSE g[k - 1] \o sep \o z[k]]
<1>1. Joined(z, n, sep) = c[n]
  BY DEF Joined
<1>2. Joins(c, z, sep, n)
  <2>1. \E g : g = [k \in 1 .. n |-> IF k = 1 THEN z[1] ELSE g[k - 1] \o sep \o z[k]]
    BY DEF Joins
  <2>2. c = [k \in 1 .. n |-> IF k = 1 THEN z[1] ELSE c[k - 1] \o sep \o z[k]]
    BY <2>1
  <2> HIDE DEF c
  <2>3. QED BY <2>2 DEF Joins
<1> HIDE DEF c
<1>3. n \in 1 .. n /\ n <= n /\ \A k \in 1 .. n : z[k] = z[k]
  OBVIOUS
<1>4. c[n] = f[n]
  BY <1>2, <1>3, JoinsSame
<1>5. QED BY <1>1, <1>4

\* Of one part, and of one part more.
LEMMA JoinedStep ==
  ASSUME NEW z, NEW sep
  PROVE  /\ Joined(z, 1, sep) = z[1]
         /\ \A n \in Nat : n # 0 => Joined(z, n + 1, sep) = Joined(z, n, sep) \o sep \o z[n + 1]
<1>1. Joined(z, 1, sep) = z[1]
  <2>1. PICK f : Joins(f, z, sep, 1)
    BY JoinsExists
  <2>2. Joined(z, 1, sep) = f[1]
    BY <2>1, JoinedIs
  <2>3. \A k \in 1 .. 1 : f[k] = IF k = 1 THEN z[1] ELSE f[k - 1] \o sep \o z[k]
    BY <2>1, Zenon DEF Joins
  <2>4. 1 \in 1 .. 1
    OBVIOUS
  <2>5. QED BY <2>2, <2>3, <2>4
<1>2. ASSUME NEW n \in Nat, n # 0
      PROVE  Joined(z, n + 1, sep) = Joined(z, n, sep) \o sep \o z[n + 1]
  <2>1. n + 1 \in Nat /\ n + 1 # 0 /\ n + 1 # 1 /\ (n + 1) - 1 = n /\ n <= n + 1
        /\ n \in 1 .. n /\ n + 1 \in 1 .. n + 1
    BY <1>2
  <2>2. PICK f : Joins(f, z, sep, n)
    BY JoinsExists
  <2>3. PICK g : Joins(g, z, sep, n + 1)
    BY <2>1, JoinsExists
  <2>4. Joined(z, n, sep) = f[n]
    BY <1>2, <2>2, JoinedIs
  <2>5. Joined(z, n + 1, sep) = g[n + 1]
    BY <2>1, <2>3, JoinedIs
  <2>6. \A k \in 1 .. n + 1 : g[k] = IF k = 1 THEN z[1] ELSE g[k - 1] \o sep \o z[k]
    BY <2>3, Zenon DEF Joins
  <2>7. g[n + 1] = g[n] \o sep \o z[n + 1]
    BY <2>1, <2>6
  <2>8. \A k \in 1 .. n : z[k] = z[k]
    OBVIOUS
  <2>9. f[n] = g[n]
    BY <2>1, <2>2, <2>3, <2>8, JoinsSame
  <2>10. QED BY <2>4, <2>5, <2>7, <2>9
<1>3. QED BY <1>1, <1>2

LEMMA JoinedSame ==
  ASSUME NEW n \in Nat, n # 0, NEW y, NEW z, NEW sep, \A k \in 1 .. n : y[k] = z[k]
  PROVE  Joined(y, n, sep) = Joined(z, n, sep)
<1>1. PICK f : Joins(f, y, sep, n)
  BY JoinsExists
<1>2. PICK g : Joins(g, z, sep, n)
  BY JoinsExists
<1>3. Joined(y, n, sep) = f[n] /\ Joined(z, n, sep) = g[n]
  BY <1>1, <1>2, JoinedIs
<1>4. n \in 1 .. n /\ n <= n
  OBVIOUS
<1>5. f[n] = g[n]
  BY <1>1, <1>2, <1>4, JoinsSame
<1>6. QED BY <1>3, <1>5

\* The first n of z are texts.
Texts(z, n, T) == \A k \in 1 .. n : z[k] \in Seq(T)

\* Where a sequence is cut does not matter.
Regroups(s, t, u) == (s \o t) \o u = s \o (t \o u)
RegroupsFour(s, t, u, v) == (s \o t \o u) \o t \o v = s \o t \o (u \o t \o v)

LEMMA ConcatTypes ==
  ASSUME NEW T, NEW s, s \in Seq(T), NEW t, t \in Seq(T), NEW u, u \in Seq(T)
  PROVE  s \o t \in Seq(T) /\ s \o t \o u \in Seq(T) /\ Regroups(s, t, u)
<1>1. s \o t \in Seq(T)
  BY ConcatProperties
<1>2. s \o t \o u \in Seq(T)
  BY <1>1, ConcatProperties
<1>3. QED BY <1>1, <1>2, ConcatAssociative DEF Regroups

LEMMA JoinedType ==
  ASSUME NEW T, NEW n \in Nat, n # 0, NEW z, NEW sep, sep \in Seq(T), Texts(z, n, T)
  PROVE  Joined(z, n, sep) \in Seq(T)
<1> DEFINE S == {k \in 0 .. n : k = 0 \/ Joined(z, k, sep) \in Seq(T)}
<1>1. ASSUME NEW k \in 0 .. n, k # n, k \in S PROVE k + 1 \in S
  <2>1. k \in Nat /\ k + 1 \in 0 .. n /\ k + 1 \in 1 .. n
    BY <1>1
  <2>2. z[k + 1] \in Seq(T)
    BY <2>1 DEF Texts
  <2>3. CASE k = 0
    <3>1. Joined(z, 1, sep) = z[1]
      BY ONLY JoinedStep, Zenon
    <3>2. k + 1 = 1
      BY <2>3
    <3>3. QED BY <2>1, <2>2, <3>1, <3>2
  <2>4. CASE k # 0
    <3> DEFINE u == z[k + 1]
               v == Joined(z, k, sep)
    <3>1. u \in Seq(T) /\ v \in Seq(T)
      BY <1>1, <2>2, <2>4
    <3>2. Joined(z, k + 1, sep) = v \o sep \o u
      BY <2>1, <2>4, JoinedStep
    <3> HIDE DEF u, v
    <3>3. v \o sep \o u \in Seq(T)
      BY ONLY <3>1, sep \in Seq(T), ConcatTypes
    <3>4. QED BY <2>1, <3>2, <3>3
  <2>5. QED BY <2>3, <2>4
<1>2. 0 \in S
  OBVIOUS
<1> HIDE DEF S
<1>3. \A k \in 0 .. n : k \in S
  BY <1>1, <1>2, UpTo
<1>4. n \in 0 .. n
  OBVIOUS
<1>5. QED BY <1>3, <1>4 DEF S

LEMMA FourTexts ==
  ASSUME NEW T, NEW s, s \in Seq(T), NEW t, t \in Seq(T), NEW u, u \in Seq(T),
         NEW v, v \in Seq(T)
  PROVE  RegroupsFour(s, t, u, v)
<1> DEFINE a == s \o t
           b == u \o t
<1>1. a \in Seq(T) /\ b \in Seq(T)
  BY ConcatTypes
<1> HIDE DEF a, b
<1>2. Regroups(a, u, t) /\ Regroups(a, b, v)
  BY <1>1, ConcatTypes
<1>3. (a \o u) \o t = a \o (u \o t) /\ (a \o b) \o v = a \o (b \o v)
  BY <1>2 DEF Regroups
<1>4. ((a \o u) \o t) \o v = a \o ((u \o t) \o v)
  BY ONLY <1>3, Zenon DEF b
<1>5. QED BY ONLY <1>4, Zenon DEF a, RegroupsFour

\* A part in front of others.
Fronts(z, y, n, sep) == Joined(z, n + 1, sep) = z[1] \o sep \o Joined(y, n, sep)

LEMMA JoinedFront ==
  ASSUME NEW T, NEW n \in Nat, n # 0, NEW sep, sep \in Seq(T),
         NEW y, Texts(y, n, T), NEW z, z[1] \in Seq(T), \A k \in 1 .. n : z[k + 1] = y[k]
  PROVE  Fronts(z, y, n, sep)
<1> DEFINE S == {k \in 0 .. n : k = 0 \/
                   Joined(z, k + 1, sep) = z[1] \o sep \o Joined(y, k, sep)}
<1>1. ASSUME NEW k \in 0 .. n, k # n, k \in S PROVE k + 1 \in S
  <2>1. /\ k \in Nat /\ k + 1 \in 0 .. n /\ k + 1 \in 1 .. n
        /\ k + 1 \in Nat /\ k + 1 # 0 /\ z[(k + 1) + 1] = y[k + 1]
    BY <1>1
  <2>2. Joined(z, (k + 1) + 1, sep) = Joined(z, k + 1, sep) \o sep \o y[k + 1]
    <3>1. Joined(z, (k + 1) + 1, sep) = Joined(z, k + 1, sep) \o sep \o z[(k + 1) + 1]
      BY ONLY <2>1, JoinedStep, Zenon
    <3>2. QED BY <2>1, <3>1, Zenon
  <2>3. CASE k = 0
    <3>1. Joined(z, 1, sep) = z[1] /\ Joined(y, 1, sep) = y[1]
      BY ONLY JoinedStep, Zenon
    <3>2. k + 1 = 1
      BY <2>3
    <3>3. QED BY <2>1, <2>2, <3>1, <3>2
  <2>4. CASE k # 0
    <3> DEFINE c == y[k + 1]
               b == Joined(y, k, sep)
               a == z[1]
    <3>1. Texts(y, k, T)
      <4>1. \A i \in 1 .. k : i \in 1 .. n
        BY <2>1
      <4>2. QED BY <4>1 DEF Texts
    <3>2. c \in Seq(T) /\ b \in Seq(T) /\ a \in Seq(T) /\ sep \in Seq(T)
      BY <2>1, <2>4, <3>1, JoinedType DEF Texts
    <3>3. Joined(z, k + 1, sep) = a \o sep \o b
      BY <1>1, <2>4
    <3>4. Joined(y, k + 1, sep) = b \o sep \o c
      BY <2>1, <2>4, JoinedStep
    <3>5. Joined(z, (k + 1) + 1, sep) = (a \o sep \o b) \o sep \o c
      BY <2>2, <3>3
    <3> HIDE DEF c, b, a
    <3>6. (a \o sep \o b) \o sep \o c = a \o sep \o (b \o sep \o c)
      <4>1. RegroupsFour(a, sep, b, c)
        BY <3>2, FourTexts
      <4>2. QED BY ONLY <4>1, Zenon DEF RegroupsFour
    <3>7. Joined(z, (k + 1) + 1, sep) = a \o sep \o Joined(y, k + 1, sep)
      BY <3>4, <3>5, <3>6
    <3>8. QED BY <2>1, <3>7 DEF a
  <2>5. QED BY <2>3, <2>4
<1>2. 0 \in S
  OBVIOUS
<1> HIDE DEF S
<1>3. \A k \in 0 .. n : k \in S
  BY <1>1, <1>2, UpTo
<1>4. n \in 0 .. n
  OBVIOUS
<1>5. QED BY <1>3, <1>4 DEF S, Fronts

(***************************************************************************)
(* The loops of the parser.                                                *)
(***************************************************************************)

\* Induction from n down.
LEMMA DownFrom ==
  ASSUME NEW n \in Nat, NEW S,
         \A q \in 1 .. n : (\A r \in q + 1 .. n : r \in S) => q \in S
  PROVE  \A q \in 1 .. n : q \in S
<1> DEFINE U == {m \in 0 .. n : \A q \in n + 1 - m .. n : q \in S}
<1>1. 0 \in U
  OBVIOUS
<1>2. ASSUME NEW m \in 0 .. n, m # n, m \in U PROVE m + 1 \in U
  <2>1. m + 1 \in 0 .. n /\ n - m \in 1 .. n
    BY <1>2
  <2>2. \A q \in n + 1 - (m + 1) .. n : q = n - m \/ q \in n + 1 - m .. n
    BY <1>2
  <2>3. \A r \in (n - m) + 1 .. n : r \in n + 1 - m .. n
    BY <1>2
  <2>4. n - m \in S
    BY <1>2, <2>1, <2>3
  <2>5. QED BY <1>2, <2>1, <2>2, <2>4
<1> HIDE DEF U
<1>3. \A m \in 0 .. n : m \in U
  BY <1>1, <1>2, UpTo
<1>4. n \in 0 .. n /\ n + 1 - n = 1
  OBVIOUS
<1>5. QED BY <1>3, <1>4 DEF U

\* An item that is found lies behind where it is looked for.
Advances(item, n) ==
  DOMAIN item = 1 .. n /\ \A q \in 1 .. n : item[q].node # Nil => item[q].at \in q + 1 .. n

\* The function of Repeated, from k on.
Mores(f, item, k, n) ==
  f = [q \in k .. n |-> LET r == item[q]
                        IN IF r.node # Nil THEN InFront(r.node, f[r.at])
                           ELSE IF r.failed THEN r ELSE Got(<<>>, q)]

LEMMA MoresExists ==
  ASSUME NEW n \in Nat, NEW item, Advances(item, n)
  PROVE  \E f : Mores(f, item, 1, n)
<1> DEFINE Good(k) == \E f : Mores(f, item, k, n)
           S == {m \in 0 .. n : Good(n + 1 - m)}
           To(f, q) == LET r == item[q]
                       IN IF r.node # Nil THEN InFront(r.node, f[r.at])
                          ELSE IF r.failed THEN r ELSE Got(<<>>, q)
<1>1. Good(n + 1)
  <2> DEFINE f == [q \in n + 1 .. n |-> To(<<>>, q)]
  <2>1. f = [q \in n + 1 .. n |-> To(f, q)]
    <3>1. n + 1 .. n = {}
      OBVIOUS
    <3>2. QED BY <3>1
  <2>2. QED BY <2>1 DEF Mores
<1>2. ASSUME NEW k \in 1 .. n, Good(k + 1) PROVE Good(k)
  <2>1. PICK f : f = [q \in k + 1 .. n |-> To(f, q)]
    BY <1>2 DEF Mores
  <2> DEFINE g == [q \in k .. n |-> To(f, q)]
  <2>2. \A q \in k + 1 .. n : f[q] = To(f, q)
    BY <2>1, Zenon
  <2>3. \A q \in k + 1 .. n : g[q] = f[q]
    <3>1. \A q \in k + 1 .. n : q \in k .. n
      OBVIOUS
    <3>2. QED BY <2>2, <3>1, Zenon
  <2>4. \A q \in k .. n : item[q].node # Nil => item[q].at \in k + 1 .. n
    <3>1. \A q \in k .. n : q \in 1 .. n
      OBVIOUS
    <3>2. \A q \in k .. n : \A r \in q + 1 .. n : r \in k + 1 .. n
      OBVIOUS
    <3>3. QED BY <3>1, <3>2 DEF Advances
  <2> HIDE DEF g
  <2>5. \A q \in k .. n : To(f, q) = To(g, q)
    BY <2>3, <2>4, Zenon
  <2>6. g = [q \in k .. n |-> To(g, q)]
    BY <2>5, Zenon DEF g
  <2>7. QED BY <2>6 DEF Mores
<1> HIDE DEF Good
<1>3. ASSUME NEW m \in 0 .. n, m # n, m \in S PROVE m + 1 \in S
  <2>1. m + 1 \in 0 .. n /\ n - m \in 1 .. n /\ (n - m) + 1 = n + 1 - m /\ n - m = n + 1 - (m + 1)
    BY <1>3
  <2>2. Good((n - m) + 1)
    BY <1>3, <2>1
  <2>3. Good(n - m)
    BY <1>2, <2>1, <2>2
  <2>4. QED BY <2>1, <2>3
<1>4. 0 \in S
  <2>1. 0 \in 0 .. n /\ n + 1 - 0 = n + 1
    OBVIOUS
  <2>2. QED BY <1>1, <2>1
<1> HIDE DEF S
<1>5. \A m \in 0 .. n : m \in S
  BY <1>3, <1>4, UpTo
<1>6. n \in 0 .. n /\ n + 1 - n = 1
  OBVIOUS
<1>7. QED BY <1>5, <1>6 DEF S, Good

LEMMA RepeatedIs ==
  ASSUME NEW n \in Nat, NEW item, Advances(item, n), NEW q \in 1 .. n
  PROVE  Repeated(item, q) =
           IF item[q].node # Nil THEN InFront(item[q].node, Repeated(item, item[q].at))
           ELSE IF item[q].failed THEN item[q] ELSE Got(<<>>, q)
<1> DEFINE c == CHOOSE f : f = [x \in DOMAIN item |->
                   LET r == item[x]
                   IN IF r.node # Nil THEN InFront(r.node, f[r.at])
                      ELSE IF r.failed THEN r ELSE Got(<<>>, x)]
<1>1. \A x : Repeated(item, x) = c[x]
  BY DEF Repeated
<1>2. c = [x \in 1 .. n |->
             LET r == item[x]
             IN IF r.node # Nil THEN InFront(r.node, c[r.at])
                ELSE IF r.failed THEN r ELSE Got(<<>>, x)]
  <2>1. DOMAIN item = 1 .. n
    BY DEF Advances
  <2>2. \E f : f = [x \in DOMAIN item |->
                   LET r == item[x]
                   IN IF r.node # Nil THEN InFront(r.node, f[r.at])
                      ELSE IF r.failed THEN r ELSE Got(<<>>, x)]
    <3>1. \E f : Mores(f, item, 1, n)
      BY MoresExists
    <3>2. QED BY <2>1, <3>1, Zenon DEF Mores
  <2>3. c = [x \in DOMAIN item |->
                   LET r == item[x]
                   IN IF r.node # Nil THEN InFront(r.node, c[r.at])
                      ELSE IF r.failed THEN r ELSE Got(<<>>, x)]
    BY <2>2
  <2> HIDE DEF c
  <2>4. QED BY <2>1, <2>3
<1> HIDE DEF c
<1>3. \A x \in 1 .. n : c[x] = IF item[x].node # Nil THEN InFront(item[x].node, c[item[x].at])
                               ELSE IF item[x].failed THEN item[x] ELSE Got(<<>>, x)
  BY <1>2, Zenon
<1>4. QED BY <1>1, <1>3

(***************************************************************************)
(* What is read is what is written: nothing is skipped.                    *)
(***************************************************************************)

\* Every node of N has a text, w[x].
Spelled(N, w) == \A x \in N : w[x] \in Seq(Tokens)

\* The text of a list of nodes.
Spell(ys, w) == [k \in DOMAIN ys |-> w[ys[k]]]
ListText(ys, w, sep) == Joined(Spell(ys, w), Len(ys), sep)

LEMMA SpellIs ==
  ASSUME NEW N, NEW w, Spelled(N, w), NEW ys, ys \in Seq(N)
  PROVE  /\ Len(ys) \in Nat /\ (ys # <<>> => Len(ys) # 0)
         /\ Texts(Spell(ys, w), Len(ys), Tokens)
         /\ \A k \in 1 .. Len(ys) : Spell(ys, w)[k] = w[ys[k]]
<1>1. Len(ys) \in Nat /\ DOMAIN ys = 1 .. Len(ys) /\ (ys # <<>> => Len(ys) # 0)
  BY LenProperties, EmptySeq
<1>2. \A k \in 1 .. Len(ys) : ys[k] \in N
  BY ElementOfSeq
<1>3. \A k \in 1 .. Len(ys) : Spell(ys, w)[k] = w[ys[k]]
  BY <1>1 DEF Spell
<1>4. Texts(Spell(ys, w), Len(ys), Tokens)
  BY <1>2, <1>3 DEF Spelled, Texts
<1>5. QED BY <1>1, <1>3, <1>4

LEMMA ListTextType ==
  ASSUME NEW N, NEW w, Spelled(N, w), NEW ys, ys \in Seq(N), ys # <<>>,
         NEW sep, sep \in Seq(Tokens)
  PROVE  ListText(ys, w, sep) \in Seq(Tokens)
<1> DEFINE z == Spell(ys, w)
           n == Len(ys)
<1>1. n \in Nat /\ n # 0 /\ Texts(z, n, Tokens)
  BY SpellIs
<1> HIDE DEF z, n
<1>2. Joined(z, n, sep) \in Seq(Tokens)
  BY <1>1, JoinedType
<1>3. QED BY <1>2 DEF ListText, z, n

LEMMA InFrontIs ==
  ASSUME NEW N, NEW x, x \in N, NEW ys, ys \in Seq(N)
  PROVE  /\ <<x>> \o ys \in Seq(N) /\ <<x>> \o ys # <<>>
         /\ Len(<<x>> \o ys) = Len(ys) + 1 /\ (<<x>> \o ys)[1] = x
         /\ \A k \in 1 .. Len(ys) : (<<x>> \o ys)[k + 1] = ys[k]
<1> DEFINE s == <<x>>
<1>1. s \in Seq(N) /\ Len(s) = 1 /\ s[1] = x
  OBVIOUS
<1> HIDE DEF s
<1>2. /\ s \o ys \in Seq(N) /\ Len(s \o ys) = Len(s) + Len(ys)
      /\ \A i \in 1 .. Len(s) + Len(ys) :
           (s \o ys)[i] = IF i <= Len(s) THEN s[i] ELSE ys[i - Len(s)]
  BY <1>1, ConcatProperties
<1>3. Len(ys) \in Nat
  BY LenProperties
<1>4. Len(s \o ys) = Len(ys) + 1 /\ Len(s \o ys) # 0
  BY <1>1, <1>2, <1>3
<1>5. s \o ys # <<>>
  BY <1>4
<1>6. (s \o ys)[1] = x /\ \A k \in 1 .. Len(ys) : (s \o ys)[k + 1] = ys[k]
  <2>1. 1 \in 1 .. Len(s) + Len(ys) /\ 1 <= Len(s)
    BY <1>1, <1>3
  <2>2. \A k \in 1 .. Len(ys) : /\ k + 1 \in 1 .. Len(s) + Len(ys) /\ ~ (k + 1 <= Len(s))
                                /\ (k + 1) - Len(s) = k
    BY <1>1, <1>3
  <2>3. QED BY <1>1, <1>2, <2>1, <2>2
<1>7. QED BY <1>2, <1>4, <1>5, <1>6 DEF s

FrontText(x, ys, w, sep) ==
  /\ ys = <<>> => ListText(<<x>> \o ys, w, sep) = w[x]
  /\ ys # <<>> => ListText(<<x>> \o ys, w, sep) = w[x] \o sep \o ListText(ys, w, sep)

LEMMA ListTextFront ==
  ASSUME NEW N, NEW w, Spelled(N, w), NEW x, x \in N, NEW ys, ys \in Seq(N),
         NEW sep, sep \in Seq(Tokens)
  PROVE  FrontText(x, ys, w, sep)
<1> DEFINE zs == <<x>> \o ys
           z == Spell(zs, w)
           y == Spell(ys, w)
           n == Len(ys)
<1>1. /\ zs \in Seq(N) /\ zs # <<>> /\ Len(zs) = n + 1 /\ zs[1] = x
      /\ \A k \in 1 .. n : zs[k + 1] = ys[k]
  BY InFrontIs
<1>2. /\ n \in Nat /\ (ys # <<>> => n # 0) /\ Texts(y, n, Tokens)
      /\ \A k \in 1 .. n : y[k] = w[ys[k]]
  BY SpellIs
<1> HIDE DEF zs, n, y
<1>3. \A k \in 1 .. n + 1 : z[k] = w[zs[k]]
  <2>1. \A k \in 1 .. Len(zs) : Spell(zs, w)[k] = w[zs[k]]
    BY <1>1, SpellIs
  <2>2. QED BY <1>1, <2>1
<1> HIDE DEF z
<1>4. z[1] = w[x] /\ \A k \in 1 .. n : z[k + 1] = y[k]
  <2>1. 1 \in 1 .. n + 1 /\ \A k \in 1 .. n : k + 1 \in 1 .. n + 1
    BY <1>2
  <2>2. QED BY <1>1, <1>2, <1>3, <2>1
<1>5. w[x] \in Seq(Tokens)
  BY DEF Spelled
<1>6. ListText(zs, w, sep) = Joined(z, n + 1, sep) /\ ListText(ys, w, sep) = Joined(y, n, sep)
  BY <1>1 DEF ListText, z, y, n
<1>7. ASSUME ys = <<>>
      PROVE  ListText(zs, w, sep) = w[x]
  <2>1. n = 0
    BY <1>7 DEF n
  <2>2. Joined(z, 1, sep) = z[1]
    BY ONLY JoinedStep, Zenon
  <2>3. n + 1 = 1
    BY <2>1
  <2>4. QED BY <1>4, <1>6, <2>2, <2>3
<1>8. ASSUME ys # <<>>
      PROVE  ListText(zs, w, sep) = w[x] \o sep \o ListText(ys, w, sep)
  <2>1. n # 0
    BY <1>2, <1>8
  <2>2. z[1] \in Seq(Tokens)
    BY <1>4, <1>5
  <2>3. Joined(z, n + 1, sep) = z[1] \o sep \o Joined(y, n, sep)
    <3>1. sep \in Seq(Tokens)
      OBVIOUS
    <3>2. Fronts(z, y, n, sep)
      BY ONLY <1>2, <1>4, <2>1, <2>2, <3>1, JoinedFront
    <3>3. QED BY ONLY <3>2, Zenon DEF Fronts
  <2>4. QED BY <1>4, <1>6, <2>3
<1>9. QED BY <1>7, <1>8, Zenon DEF zs, FrontText

\* The tokens from p up to q are a separator and a text.
Between(ts, p, q, sep, text) == sep \o text = Cut(ts, p, q)

\* A result r at p: an error, nothing, or a node of N and its text behind sep.
Reads(ts, r, p, N, w, sep) ==
  \/ r = Failed \/ r = Absent(p)
  \/ \E x \in N, q \in Position(ts) :
       p < q /\ r = Got(x, q) /\ Between(ts, p, q, sep, w[x])

\* The result of a loop: an error, or a list of nodes, sep before each.
Repeats(ts, r, p, N, w, sep) ==
  \/ r = Failed
  \/ \E ys \in Seq(N), q \in Position(ts) :
       /\ p <= q /\ r = Got(ys, q)
       /\ ys = <<>> => p = q
       /\ ys # <<>> => Between(ts, p, q, sep, ListText(ys, w, sep))

LEMMA FailedIs ==
  ASSUME NEW r, r = Failed
  PROVE  r.node = Nil /\ r.failed = TRUE
BY DEF Failed

LEMMA GotIs ==
  ASSUME NEW r, NEW x, NEW q, r = Got(x, q)
  PROVE  r.node = x /\ r.at = q /\ r.failed = FALSE
BY DEF Got

LEMMA AbsentIs ==
  ASSUME NEW r, NEW q, r = Absent(q)
  PROVE  r.node = Nil /\ r.at = q /\ r.failed = FALSE /\ r = Got(Nil, q)
BY DEF Got, Absent

RegroupsTwo(s, t, u) == (s \o t) \o (s \o u) = s \o (t \o s \o u)

LEMMA Regrouping ==
  ASSUME NEW T, NEW s, s \in Seq(T), NEW t, t \in Seq(T), NEW u, u \in Seq(T)
  PROVE  RegroupsTwo(s, t, u)
<1> DEFINE a == s \o u
           b == t \o s
<1>1. a \in Seq(T) /\ b \in Seq(T)
  BY ConcatTypes
<1> HIDE DEF a, b
<1>2. Regroups(s, t, a) /\ Regroups(t, s, u)
  BY <1>1, ConcatTypes
<1>3. (s \o t) \o a = s \o (t \o a)
  BY <1>2 DEF Regroups
<1>4. (t \o s) \o u = t \o (s \o u)
  BY <1>2 DEF Regroups
<1>5. (s \o t) \o (s \o u) = s \o (t \o (s \o u))
  BY ONLY <1>3, Zenon DEF a
<1>6. QED BY ONLY <1>4, <1>5, Zenon DEF RegroupsTwo

LEMMA RepeatedReads ==
  ASSUME NEW ts, ts \in Seq(Tokens), NEW N, Nil \notin N, NEW w, Spelled(N, w),
         NEW sep, sep \in Seq(Tokens), NEW item, DOMAIN item = Position(ts),
         \A q \in Position(ts) : Reads(ts, item[q], q, N, w, sep)
  PROVE  /\ Advances(item, Len(ts) + 1)
         /\ \A q \in Position(ts) : Repeats(ts, Repeated(item, q), q, N, w, sep)
<1> DEFINE n == Len(ts) + 1
           S == {q \in 1 .. n : Repeats(ts, Repeated(item, q), q, N, w, sep)}
<1>1. n \in Nat /\ Position(ts) = 1 .. n
  <2>1. Len(ts) \in Nat
    BY LenProperties
  <2>2. QED BY <2>1 DEF Position
<1>2. Advances(item, n)
  <2>1. ASSUME NEW q \in 1 .. n, item[q].node # Nil
        PROVE  item[q].at \in q + 1 .. n
    <3>1. item[q] # Failed /\ item[q] # Absent(q)
      BY <2>1, FailedIs, AbsentIs, Zenon
    <3>2. PICK x \in N, r \in Position(ts) : q < r /\ item[q] = Got(x, r)
      BY <1>1, <3>1 DEF Reads
    <3>3. item[q].at = r
      BY <3>2, GotIs, Zenon
    <3>4. QED BY <1>1, <3>2, <3>3
  <2>2. QED BY <1>1, <2>1 DEF Advances
<1> HIDE DEF n
<1>3. ASSUME NEW q \in 1 .. n, \A r \in q + 1 .. n : r \in S
      PROVE  q \in S
  <2>1. Repeated(item, q) =
          IF item[q].node # Nil THEN InFront(item[q].node, Repeated(item, item[q].at))
          ELSE IF item[q].failed THEN item[q] ELSE Got(<<>>, q)
    BY <1>1, <1>2, RepeatedIs
  <2>2. CASE item[q] = Failed
    <3>1. Repeated(item, q) = Failed
      BY <2>1, <2>2, FailedIs
    <3>2. QED BY <3>1 DEF Repeats
  <2>3. CASE item[q] = Absent(q)
    <3>1. Repeated(item, q) = Got(<<>>, q)
      BY <2>1, <2>3, AbsentIs
    <3>2. <<>> \in Seq(N) /\ q \in Position(ts) /\ q <= q
      BY <1>1, EmptySeq
    <3>3. Repeats(ts, Repeated(item, q), q, N, w, sep)
      BY <3>1, <3>2, Zenon DEF Repeats
    <3>4. QED BY <3>3
  <2>4. ASSUME NEW x \in N, NEW r \in Position(ts), q < r, item[q] = Got(x, r),
               Between(ts, q, r, sep, w[x])
        PROVE  q \in S
    <3> DEFINE rest == Repeated(item, r)
    <3>1. x # Nil /\ Repeated(item, q) = InFront(x, rest)
      <4>1. item[q].node = x /\ item[q].at = r
        BY <2>4 DEF Got
      <4>2. x # Nil
        BY <2>4
      <4>3. QED BY <2>1, <4>1, <4>2
    <3>2. Repeats(ts, rest, r, N, w, sep)
      <4>1. r \in q + 1 .. n
        BY <1>1, <2>4
      <4>2. QED BY <1>3, <4>1
    <3> HIDE DEF rest
    <3>3. CASE rest = Failed
      <4>1. Repeated(item, q) = Failed
        BY <3>1, <3>3, FailedIs DEF InFront
      <4>2. QED BY <4>1 DEF Repeats
    <3>4. ASSUME NEW ys \in Seq(N), NEW u \in Position(ts), r <= u, rest = Got(ys, u),
                 ys = <<>> => r = u,
                 ys # <<>> => Between(ts, r, u, sep, ListText(ys, w, sep))
          PROVE  q \in S
      <4> DEFINE zs == <<x>> \o ys
      <4>1. Repeated(item, q) = Got(zs, u)
        <5>1. rest.node = ys /\ rest.at = u /\ rest.failed = FALSE
          BY <3>4 DEF Got
        <5>2. QED BY <3>1, <5>1 DEF InFront
      <4>2. zs \in Seq(N) /\ zs # <<>>
        BY InFrontIs
      <4>3. q <= u
        BY <1>1, <2>4, <3>4
      <4>4. /\ ys = <<>> => ListText(zs, w, sep) = w[x]
            /\ ys # <<>> => ListText(zs, w, sep) = w[x] \o sep \o ListText(ys, w, sep)
        <5>1. FrontText(x, ys, w, sep)
          BY ListTextFront
        <5>2. QED BY ONLY <5>1, Zenon DEF FrontText
      <4> HIDE DEF zs
      <4>5. Between(ts, q, u, sep, ListText(zs, w, sep))
        <5>1. CASE ys = <<>>
          BY <2>4, <3>4, <4>4, <5>1
        <5>2. CASE ys # <<>>
          <6> DEFINE a == w[x]
                     b == ListText(ys, w, sep)
          <6>1. a \in Seq(Tokens) /\ b \in Seq(Tokens)
            BY <5>2, ListTextType DEF Spelled
          <6>2. ListText(zs, w, sep) = a \o sep \o b
            BY <4>4, <5>2
          <6>3. sep \o a = Cut(ts, q, r) /\ sep \o b = Cut(ts, r, u)
            BY <2>4, <3>4, <5>2, Zenon DEF Between
          <6> HIDE DEF a, b
          <6>4. (sep \o a) \o (sep \o b) = sep \o (a \o sep \o b)
            <7>1. RegroupsTwo(sep, a, b)
              BY <6>1, Regrouping
            <7>2. QED BY ONLY <7>1, Zenon DEF RegroupsTwo
          <6>5. Cut(ts, q, r) \o Cut(ts, r, u) = Cut(ts, q, u)
            <7>1. q \in Position(ts) /\ q <= r
              BY <1>1, <2>4
            <7>2. QED BY <3>4, <7>1, CutConcat
          <6>6. QED BY ONLY <6>2, <6>3, <6>4, <6>5, Zenon DEF Between
        <5>3. QED BY <5>1, <5>2
      <4>6. Repeats(ts, Repeated(item, q), q, N, w, sep)
        BY <4>1, <4>2, <4>3, <4>5, Zenon DEF Repeats
      <4>7. QED BY <4>6
    <3>5. QED BY <3>2, <3>3, <3>4 DEF Repeats
  <2>5. Reads(ts, item[q], q, N, w, sep)
    BY <1>1
  <2>6. QED BY <2>2, <2>3, <2>4, <2>5 DEF Reads
<1> HIDE DEF S
<1>4. \A q \in 1 .. n : q \in S
  BY <1>1, <1>3, DownFrom
<1>5. QED BY <1>1, <1>2, <1>4 DEF S, n

\* The tokens from p up to q are a text.
Covers(ts, p, q, text) == text = Cut(ts, p, q)

\* A result r of a method at p: an error, nothing, or a node of N and its text.
Gives(ts, r, p, N, w) ==
  \/ r = Failed \/ r = Absent(p)
  \/ \E x \in N, q \in Position(ts) : p < q /\ r = Got(x, q) /\ Covers(ts, p, q, w[x])

LEMMA CoversConcat ==
  ASSUME NEW ts, ts \in Seq(Tokens), NEW p \in Position(ts), NEW q \in Position(ts),
         NEW r \in Position(ts), p <= q, q <= r,
         NEW s, Covers(ts, p, q, s), NEW t, Covers(ts, q, r, t)
  PROVE  Covers(ts, p, r, s \o t) /\ Between(ts, p, r, s, t)
<1>1. Cut(ts, p, q) \o Cut(ts, q, r) = Cut(ts, p, r)
  BY CutConcat
<1>2. QED BY <1>1, Zenon DEF Covers, Between

LEMMA CoversEmpty ==
  ASSUME NEW ts, NEW p, NEW q, NEW s, s \in Seq(Tokens)
  PROVE  Covers(ts, p, q, s) <=> Between(ts, p, q, <<>>, s)
<1>1. <<>> \o s = s
  BY ConcatEmptySeq
<1>2. QED BY <1>1 DEF Covers, Between

LEMMA Positions ==
  ASSUME NEW ts, ts \in Seq(Tokens)
  PROVE  /\ Len(ts) \in Nat /\ 1 \in Position(ts)
         /\ \A p \in Position(ts) : p \in Nat /\ p # 0 /\ p <= Len(ts) + 1
         /\ \A p \in 1 .. Len(ts) :
              /\ p \in Position(ts) /\ p + 1 \in Position(ts) /\ p < p + 1 /\ p <= p + 1
              /\ KindAt(ts, p) = ts[p].kind /\ ts[p] \in Tokens
              /\ Covers(ts, p, p + 1, <<ts[p]>>)
         /\ \A p \in Position(ts) : KindAt(ts, p) # "END" => p \in 1 .. Len(ts)
<1>1. Len(ts) \in Nat
  BY LenProperties
<1>2. 1 \in Position(ts) /\ \A p \in Position(ts) : p \in Nat /\ p # 0 /\ p <= Len(ts) + 1
  BY <1>1 DEF Position
<1>3. ASSUME NEW p \in 1 .. Len(ts)
      PROVE  /\ p \in Position(ts) /\ p + 1 \in Position(ts) /\ p < p + 1 /\ p <= p + 1
             /\ KindAt(ts, p) = ts[p].kind /\ ts[p] \in Tokens
             /\ Covers(ts, p, p + 1, <<ts[p]>>)
  <2>1. p \in Position(ts) /\ p + 1 \in Position(ts) /\ p < p + 1 /\ p <= p + 1 /\ ~ (p > Len(ts))
    BY <1>1 DEF Position
  <2>2. ts[p] \in Tokens
    BY ElementOfSeq
  <2>3. Cut(ts, p, p + 1) = <<ts[p]>>
    BY CutOne
  <2>4. QED BY <2>1, <2>2, <2>3 DEF KindAt, Covers
<1>4. \A p \in Position(ts) : KindAt(ts, p) # "END" => p \in 1 .. Len(ts)
  BY <1>1 DEF Position, KindAt
<1>5. QED BY <1>1, <1>2, <1>3, <1>4

\* Tokens that are told apart by their kind.
Marks == {"NEGATE", "AND", "OR", "DOT", "LPAREN", "RPAREN", "COMMA"}

LEMMA TokenKinds ==
  ASSUME NEW t, t \in Tokens
  PROVE  /\ t.kind \in Kinds /\ t.kind # "END"
         /\ t.kind \in Marks => <<t>> = Mark(t.kind)
         /\ t.kind = "COMPARATOR" => t \in Comparators
         /\ t.kind \in {"STRING", "TEXT"} => t \in Words
<1>1. CASE t \in Words
  BY <1>1 DEF Words, Kinds, Marks
<1>2. CASE t \in Comparators
  BY <1>2 DEF Comparators, Kinds, Marks
<1>3. CASE t \in {Token(k, k) : k \in Kinds \ {"COMPARATOR", "STRING", "TEXT"}}
  BY <1>3 DEF Kinds, Marks, Token, Mark
<1>4. QED BY <1>1, <1>2, <1>3 DEF Tokens

LEMMA MarkType ==
  ASSUME NEW kind, kind \in Marks
  PROVE  Mark(kind) \in Seq(Tokens) /\ Len(Mark(kind)) = 1 /\ Mark(kind)[1].kind = kind
<1>1. Token(kind, kind) \in Tokens /\ Token(kind, kind).kind = kind
  <2>1. kind \in Kinds \ {"COMPARATOR", "STRING", "TEXT"}
    BY DEF Marks, Kinds
  <2>2. QED BY <2>1 DEF Tokens, Token
<1> DEFINE t == Token(kind, kind)
<1> HIDE DEF t
<1>2. <<t>> \in Seq(Tokens) /\ Len(<<t>>) = 1 /\ <<t>>[1].kind = kind
  BY <1>1 DEF t
<1>3. QED BY <1>2 DEF Mark, t

\* A token of a kind is read, and what follows it.
LEMMA MarkRead ==
  ASSUME NEW ts, ts \in Seq(Tokens), NEW p \in Position(ts), KindAt(ts, p) \in Marks
  PROVE  /\ p \in 1 .. Len(ts) /\ p + 1 \in Position(ts) /\ p < p + 1 /\ p <= p + 1
         /\ Covers(ts, p, p + 1, Mark(KindAt(ts, p)))
<1>1. p \in 1 .. Len(ts)
  <2>1. KindAt(ts, p) # "END"
    BY DEF Marks
  <2>2. QED BY <2>1, Positions
<1>2. /\ p + 1 \in Position(ts) /\ p < p + 1 /\ p <= p + 1 /\ KindAt(ts, p) = ts[p].kind
      /\ ts[p] \in Tokens /\ Covers(ts, p, p + 1, <<ts[p]>>)
  BY <1>1, Positions
<1>3. <<ts[p]>> = Mark(KindAt(ts, p))
  BY <1>2, TokenKinds
<1>4. QED BY <1>1, <1>2, <1>3

LEMMA SeparatedReads ==
  ASSUME NEW ts, ts \in Seq(Tokens), NEW N, Nil \notin N, NEW w, Spelled(N, w),
         NEW kind, kind \in Marks, NEW item,
         \A q \in Position(ts) : Gives(ts, item[q], q, N, w)
  PROVE  /\ DOMAIN Separated(ts, kind, item) = Position(ts)
         /\ \A q \in Position(ts) :
              Reads(ts, Separated(ts, kind, item)[q], q, N, w, Mark(kind))
<1>1. \A q \in Position(ts) : Separated(ts, kind, item)[q] =
         IF KindAt(ts, q) = kind THEN Required(item[q + 1]) ELSE Absent(q)
  BY DEF Separated
<1>2. ASSUME NEW q \in Position(ts)
      PROVE  Reads(ts, Separated(ts, kind, item)[q], q, N, w, Mark(kind))
  <2> DEFINE r == Separated(ts, kind, item)[q]
             s == item[q + 1]
  <2>1. CASE KindAt(ts, q) # kind
    <3>1. r = Absent(q)
      BY <1>1, <2>1
    <3>2. QED BY <3>1 DEF Reads
  <2>2. CASE KindAt(ts, q) = kind
    <3>1. /\ q + 1 \in Position(ts) /\ q < q + 1 /\ q <= q + 1
          /\ Covers(ts, q, q + 1, Mark(kind))
      BY <2>2, MarkRead
    <3>2. r = Required(s)
      BY <1>1, <2>2
    <3>3. Gives(ts, s, q + 1, N, w)
      BY <3>1
    <3> HIDE DEF r, s
    <3>4. ASSUME s = Failed \/ s = Absent(q + 1) PROVE r = Failed
      BY <3>2, <3>4 DEF Required, Failed, Absent, Got
    <3>5. ASSUME NEW x \in N, NEW u \in Position(ts), q + 1 < u, s = Got(x, u),
                 Covers(ts, q + 1, u, w[x])
          PROVE  Reads(ts, r, q, N, w, Mark(kind))
      <4>1. x # Nil
        OBVIOUS
      <4>2. r = Got(x, u)
        BY <3>2, <3>5, <4>1 DEF Required, Got
      <4>3. q + 1 <= u /\ q < u
        BY <3>1, <3>5, Positions
      <4>4. Between(ts, q, u, Mark(kind), w[x])
        <5> DEFINE v == q + 1
        <5>1. v \in Position(ts) /\ q <= v /\ v <= u /\ Covers(ts, q, v, Mark(kind))
              /\ Covers(ts, v, u, w[x])
          BY <3>1, <3>5, <4>3
        <5> HIDE DEF v
        <5>2. QED BY <5>1, CoversConcat
      <4>5. QED BY <4>2, <4>3, <4>4 DEF Reads
    <3>6. Reads(ts, r, q, N, w, Mark(kind))
      BY <3>3, <3>4, <3>5 DEF Gives, Reads
    <3>7. QED BY <3>6 DEF r
  <2>3. QED BY <2>1, <2>2
<1>3. DOMAIN Separated(ts, kind, item) = Position(ts)
  BY DEF Separated
<1>4. QED BY <1>2, <1>3

\* The texts of lists of nodes.
ListsText(N, w, sep) == [ys \in Lists(N) |-> ListText(ys, w, sep)]

LEMMA ListReads ==
  ASSUME NEW ts, ts \in Seq(Tokens), NEW N, Nil \notin N, NEW w, Spelled(N, w),
         NEW kind, kind \in Marks, NEW item,
         \A q \in Position(ts) : Gives(ts, item[q], q, N, w),
         NEW p \in Position(ts)
  PROVE  Gives(ts, List(ts, kind, item, p), p, Lists(N), ListsText(N, w, Mark(kind)))
<1> DEFINE r == item[p]
           sep == Mark(kind)
           items == Separated(ts, kind, item)
<1>1. List(ts, kind, item, p) =
        IF r.node = Nil THEN r ELSE InFront(r.node, Repeated(items, r.at))
  BY DEF List
<1>2. Gives(ts, r, p, N, w)
  OBVIOUS
<1>3. sep \in Seq(Tokens)
  BY MarkType
<1>4. DOMAIN items = Position(ts) /\ \A q \in Position(ts) : Reads(ts, items[q], q, N, w, sep)
  BY SeparatedReads
<1> HIDE DEF r, sep, items
<1>5. \A q \in Position(ts) : Repeats(ts, Repeated(items, q), q, N, w, sep)
  BY <1>3, <1>4, RepeatedReads
<1>6. ASSUME r = Failed \/ r = Absent(p)
      PROVE  Gives(ts, List(ts, kind, item, p), p, Lists(N), ListsText(N, w, sep))
  <2>1. List(ts, kind, item, p) = r
    BY <1>1, <1>6 DEF Failed, Absent, Got
  <2>2. QED BY <1>6, <2>1 DEF Gives
<1>7. ASSUME NEW x \in N, NEW q \in Position(ts), p < q, r = Got(x, q), Covers(ts, p, q, w[x])
      PROVE  Gives(ts, List(ts, kind, item, p), p, Lists(N), ListsText(N, w, sep))
  <2> DEFINE rest == Repeated(items, q)
  <2>1. x # Nil
    OBVIOUS
  <2>2. List(ts, kind, item, p) = InFront(x, rest)
    BY <1>1, <1>7, <2>1 DEF Got
  <2>3. Repeats(ts, rest, q, N, w, sep)
    BY <1>5
  <2> HIDE DEF rest
  <2>4. CASE rest = Failed
    <3>1. List(ts, kind, item, p) = Failed
      BY <2>2, <2>4 DEF InFront, Failed
    <3>2. QED BY <3>1 DEF Gives
  <2>5. ASSUME NEW ys \in Seq(N), NEW u \in Position(ts), q <= u, rest = Got(ys, u),
               ys = <<>> => q = u,
               ys # <<>> => Between(ts, q, u, sep, ListText(ys, w, sep))
        PROVE  Gives(ts, List(ts, kind, item, p), p, Lists(N), ListsText(N, w, sep))
    <3> DEFINE zs == <<x>> \o ys
    <3>1. List(ts, kind, item, p) = Got(zs, u)
      <4>1. rest.node = ys /\ rest.at = u /\ rest.failed = FALSE
        BY <2>5 DEF Got
      <4>2. QED BY <2>2, <4>1 DEF InFront
    <3>2. zs \in Seq(N) /\ zs # <<>>
      BY InFrontIs
    <3>3. p < u /\ p <= q
      BY <1>7, <2>5, Positions
    <3>4. FrontText(x, ys, w, sep)
      BY <1>3, ListTextFront
    <3>5. /\ ys = <<>> => ListText(zs, w, sep) = w[x]
          /\ ys # <<>> => ListText(zs, w, sep) = w[x] \o sep \o ListText(ys, w, sep)
      BY ONLY <3>4, Zenon DEF FrontText
    <3> HIDE DEF zs
    <3>6. Covers(ts, p, u, ListText(zs, w, sep))
      <4>1. CASE ys = <<>>
        BY <1>7, <2>5, <3>5, <4>1
      <4>2. CASE ys # <<>>
        <5> DEFINE a == w[x]
                   b == ListText(ys, w, sep)
                   c == sep \o b
        <5>1. a \in Seq(Tokens) /\ b \in Seq(Tokens)
          BY <1>3, <4>2, ListTextType DEF Spelled
        <5>2. ListText(zs, w, sep) = a \o sep \o b
          BY <3>5, <4>2
        <5>3. Covers(ts, p, q, a) /\ Covers(ts, q, u, c)
          BY <1>7, <2>5, <4>2 DEF Covers, Between
        <5> HIDE DEF a, b, c
        <5>4. Regroups(a, sep, b)
          BY <1>3, <5>1, ConcatTypes
        <5>5. ListText(zs, w, sep) = a \o c
          BY ONLY <5>2, <5>4, Zenon DEF Regroups, c
        <5>6. Covers(ts, p, u, a \o c)
          BY <2>5, <3>3, <5>3, CoversConcat
        <5>7. QED BY <5>5, <5>6
      <4>3. QED BY <4>1, <4>2
    <3>7. zs \in Lists(N) /\ ListsText(N, w, sep)[zs] = ListText(zs, w, sep)
      BY <3>2 DEF Lists, ListsText
    <3>8. QED BY <3>1, <3>3, <3>6, <3>7 DEF Gives
  <2>6. QED BY <2>3, <2>4, <2>5 DEF Repeats
<1>8. Gives(ts, List(ts, kind, item, p), p, Lists(N), ListsText(N, w, sep))
  BY <1>2, <1>6, <1>7 DEF Gives
<1>9. QED BY <1>8 DEF sep

(***************************************************************************)
(* The texts of the nodes, and the tokens they begin with.                 *)
(***************************************************************************)

\* A text that begins with a token of one of the kinds K.
Text(u, K) == u \in Seq(Tokens) /\ u # <<>> /\ u[1].kind \in K

\* Every node of N has such a text.
Starts(N, w, K) == \A x \in N : Text(w[x], K)

LEMMA StartsSpelled ==
  ASSUME NEW N, NEW w, NEW K, Starts(N, w, K)
  PROVE  Spelled(N, w)
BY DEF Starts, Text, Spelled

LEMMA TextConcat ==
  ASSUME NEW u, NEW K, Text(u, K), NEW v, v \in Seq(Tokens)
  PROVE  Text(u \o v, K)
<1>1. /\ u \o v \in Seq(Tokens) /\ Len(u \o v) = Len(u) + Len(v)
      /\ \A i \in 1 .. Len(u) + Len(v) : (u \o v)[i] = IF i <= Len(u) THEN u[i] ELSE v[i - Len(u)]
  BY ConcatProperties DEF Text
<1>2. Len(u) \in Nat /\ Len(u) # 0 /\ Len(v) \in Nat
  BY LenProperties, EmptySeq DEF Text
<1>3. 1 \in 1 .. Len(u) + Len(v) /\ 1 <= Len(u) /\ Len(u) + Len(v) # 0
  BY <1>2
<1>4. (u \o v)[1] = u[1] /\ u \o v # <<>>
  BY <1>1, <1>3
<1>5. QED BY <1>1, <1>4 DEF Text

LEMMA MarkText ==
  ASSUME NEW kind, kind \in Marks, NEW v, v \in Seq(Tokens)
  PROVE  Text(Mark(kind) \o v, {kind})
<1>1. Text(Mark(kind), {kind})
  <2>1. Mark(kind) \in Seq(Tokens) /\ Len(Mark(kind)) = 1 /\ Mark(kind)[1].kind = kind
    BY MarkType
  <2>2. Mark(kind) # <<>>
    BY DEF Mark
  <2>3. QED BY <2>1, <2>2 DEF Text
<1>2. QED BY <1>1, TextConcat

LEMMA TextWiden ==
  ASSUME NEW u, NEW K, Text(u, K), NEW L, K \subseteq L
  PROVE  Text(u, L)
BY DEF Text

\* A list begins with what its nodes begin with.
LEMMA StartsLists ==
  ASSUME NEW N, NEW w, NEW K, Starts(N, w, K), NEW sep, sep \in Seq(Tokens)
  PROVE  Starts(Lists(N), ListsText(N, w, sep), K)
<1>1. Spelled(N, w)
  BY StartsSpelled
<1>2. ASSUME NEW ys \in Lists(N)
      PROVE  Text(ListText(ys, w, sep), K)
  <2> DEFINE z == Spell(ys, w)
             n == Len(ys)
  <2>1. ys \in Seq(N) /\ n \in Nat /\ n # 0 /\ \A k \in 1 .. n : ys[k] \in N
    BY ListFacts
  <2>2. Texts(z, n, Tokens) /\ \A k \in 1 .. n : z[k] = w[ys[k]]
    BY <1>1, <2>1, SpellIs
  <2>3. Text(z[1], K)
    BY <2>1, <2>2 DEF Starts
  <2> HIDE DEF z, n
  <2>4. ListText(ys, w, sep) = Joined(z, n, sep)
    BY DEF ListText, z, n
  <2>5. CASE n = 1
    <3>1. Joined(z, 1, sep) = z[1]
      BY ONLY JoinedStep, Zenon
    <3>2. QED BY <2>3, <2>4, <2>5, <3>1
  <2>6. CASE n # 1
    <3> DEFINE m == n - 1
               y == [k \in 1 .. m |-> z[k + 1]]
    <3>1. m \in Nat /\ m # 0 /\ m + 1 = n
      BY <2>1, <2>6
    <3>2. \A k \in 1 .. m : k + 1 \in 1 .. n
      BY <3>1
    <3>3. Texts(y, m, Tokens) /\ \A k \in 1 .. m : z[k + 1] = y[k]
      BY <2>2, <3>2 DEF Texts
    <3>4. z[1] \in Seq(Tokens)
      BY <2>3 DEF Text
    <3> HIDE DEF m, y
    <3>5. Fronts(z, y, m, sep) /\ Joined(y, m, sep) \in Seq(Tokens)
      <4>1. sep \in Seq(Tokens)
        OBVIOUS
      <4>2. Fronts(z, y, m, sep)
        BY ONLY <3>1, <3>3, <3>4, <4>1, JoinedFront
      <4>3. Joined(y, m, sep) \in Seq(Tokens)
        BY ONLY <3>1, <3>3, <4>1, JoinedType
      <4>4. QED BY <4>2, <4>3
    <3> DEFINE a == z[1]
               b == Joined(y, m, sep)
    <3>6. ListText(ys, w, sep) = a \o sep \o b
      BY ONLY <2>4, <3>1, <3>5, Zenon DEF Fronts
    <3>7. Text(a, K) /\ b \in Seq(Tokens)
      BY <2>3, <3>5
    <3> HIDE DEF a, b
    <3>8. Text(a \o sep, K)
      BY <3>7, TextConcat
    <3>9. Text((a \o sep) \o b, K)
      <4> DEFINE c == a \o sep
      <4>1. Text(c, K)
        BY <3>8
      <4> HIDE DEF c
      <4>2. Text(c \o b, K)
        BY <3>7, <4>1, TextConcat
      <4>3. QED BY <4>2 DEF c
    <3>10. QED BY ONLY <3>6, <3>9, Zenon
  <2>7. QED BY <2>5, <2>6
<1>3. QED BY <1>2 DEF Starts, ListsText

\* The first tokens of members, of simples, and of terms.
WordKinds == {"STRING", "TEXT"}
SimpleKinds == {"STRING", "TEXT", "LPAREN"}
TermKinds == {"STRING", "TEXT", "LPAREN", "NEGATE"}

WordText == [x \in Words |-> <<x>>]
MemberText == [m \in Members |-> WrittenMember(m)]
ParensText(E, inner) == [e \in E |-> InParens(inner[e])]
ArgText(E, inner) == [a \in Args(E) |-> WrittenArg(a, inner)]
RestrictionText(E, inner) == [r \in Restrictions(E) |-> WrittenRestriction(r, inner)]
SimpleText(E, inner) == [s \in Simples(E) |-> WrittenSimple(s, inner)]
TermText(E, inner) == [t \in Terms(E) |-> WrittenTerm(t, inner)]
FactorText(E, inner) == [f \in Factors(E) |-> WrittenFactor(f, inner)]
SequenceText(E, inner) == [s \in Sequences(E) |-> WrittenSequence(s, inner)]
ExpressionText(E, inner) == [e \in Lists(Sequences(E)) |-> WrittenExpression(e, inner)]

LEMMA ListsAre ==
  ASSUME NEW E, NEW inner
  PROVE  /\ MemberText = ListsText(Words, WordText, Mark("DOT"))
         /\ FactorText(E, inner) = ListsText(Terms(E), TermText(E, inner), Mark("OR"))
         /\ SequenceText(E, inner) = ListsText(Factors(E), FactorText(E, inner), <<>>)
         /\ ExpressionText(E, inner) =
              ListsText(Sequences(E), SequenceText(E, inner), Mark("AND"))
<1>1. ASSUME NEW m \in Members
      PROVE  WrittenMember(m) = ListText(m, WordText, Mark("DOT"))
  <2>1. DOMAIN m = 1 .. Len(m) /\ \A k \in 1 .. Len(m) : m[k] \in Words
    BY ListFacts DEF Members
  <2>2. [n \in DOMAIN m |-> <<m[n]>>] = Spell(m, WordText)
    BY <2>1 DEF Spell, WordText
  <2>3. QED BY <2>2 DEF WrittenMember, ListText
<1>2. ASSUME NEW f \in Factors(E)
      PROVE  WrittenFactor(f, inner) = ListText(f, TermText(E, inner), Mark("OR"))
  <2>1. DOMAIN f = 1 .. Len(f) /\ \A k \in 1 .. Len(f) : f[k] \in Terms(E)
    BY ListFacts DEF Factors
  <2>2. [n \in DOMAIN f |-> WrittenTerm(f[n], inner)] = Spell(f, TermText(E, inner))
    BY <2>1 DEF Spell, TermText
  <2>3. QED BY <2>2 DEF WrittenFactor, ListText
<1>3. ASSUME NEW s \in Sequences(E)
      PROVE  WrittenSequence(s, inner) = ListText(s, FactorText(E, inner), <<>>)
  <2>1. DOMAIN s = 1 .. Len(s) /\ \A k \in 1 .. Len(s) : s[k] \in Factors(E)
    BY ListFacts DEF Sequences
  <2>2. [n \in DOMAIN s |-> WrittenFactor(s[n], inner)] = Spell(s, FactorText(E, inner))
    BY <2>1 DEF Spell, FactorText
  <2>3. QED BY <2>2 DEF WrittenSequence, ListText
<1>4. ASSUME NEW e \in Lists(Sequences(E))
      PROVE  WrittenExpression(e, inner) = ListText(e, SequenceText(E, inner), Mark("AND"))
  <2>1. DOMAIN e = 1 .. Len(e) /\ \A k \in 1 .. Len(e) : e[k] \in Sequences(E)
    BY ListFacts
  <2>2. [n \in DOMAIN e |-> WrittenSequence(e[n], inner)] = Spell(e, SequenceText(E, inner))
    BY <2>1 DEF Spell, SequenceText
  <2>3. QED BY <2>2 DEF WrittenExpression, ListText
<1>5. MemberText = ListsText(Words, WordText, Mark("DOT"))
  BY <1>1 DEF MemberText, ListsText, Members
<1>6. FactorText(E, inner) = ListsText(Terms(E), TermText(E, inner), Mark("OR"))
  BY <1>2 DEF FactorText, ListsText, Factors
<1>7. SequenceText(E, inner) = ListsText(Factors(E), FactorText(E, inner), <<>>)
  BY <1>3 DEF SequenceText, ListsText, Sequences
<1>8. ExpressionText(E, inner) = ListsText(Sequences(E), SequenceText(E, inner), Mark("AND"))
  BY <1>4 DEF ExpressionText, ListsText
<1>9. QED BY <1>5, <1>6, <1>7, <1>8

LEMMA WordStarts == Starts(Words, WordText, WordKinds)
<1>1. ASSUME NEW x \in Words
      PROVE  Text(<<x>>, WordKinds)
  <2>1. x \in Tokens /\ x.kind \in WordKinds
    BY DEF Tokens, Words, WordKinds
  <2>2. <<x>> \in Seq(Tokens) /\ <<x>> # <<>> /\ <<x>>[1] = x
    BY <2>1
  <2>3. QED BY <2>1, <2>2 DEF Text
<1>2. QED BY <1>1 DEF Starts, WordText

LEMMA MemberStarts == Starts(Members, MemberText, WordKinds)
<1>1. Mark("DOT") \in Seq(Tokens)
  BY MarkType DEF Marks
<1>2. Starts(Lists(Words), ListsText(Words, WordText, Mark("DOT")), WordKinds)
  BY <1>1, WordStarts, StartsLists
<1>3. QED BY <1>2, ListsAre DEF Members

LEMMA ParensStarts ==
  ASSUME NEW E, NEW inner, Spelled(E, inner)
  PROVE  Starts(E, ParensText(E, inner), {"LPAREN"})
<1>1. ASSUME NEW e \in E
      PROVE  Text(InParens(inner[e]), {"LPAREN"})
  <2> DEFINE a == Mark("LPAREN")
             b == inner[e]
             c == Mark("RPAREN")
             d == a \o b
  <2>1. b \in Seq(Tokens) /\ c \in Seq(Tokens) /\ Text(d, {"LPAREN"})
    BY MarkType, MarkText DEF Spelled, Marks
  <2> HIDE DEF c, d
  <2>2. Text(d \o c, {"LPAREN"})
    BY <2>1, TextConcat
  <2>3. QED BY ONLY <2>2, Zenon DEF InParens, c, d
<1>2. QED BY <1>1 DEF Starts, ParensText

LEMMA ArgStarts ==
  ASSUME NEW E, NEW inner, Spelled(E, inner), Nil \notin Members
  PROVE  Starts(Args(E), ArgText(E, inner), SimpleKinds)
<1>1. ASSUME NEW a \in Args(E)
      PROVE  Text(WrittenArg(a, inner), SimpleKinds)
  <2>1. CASE a \in [comparable : Members, composite : {Nil}]
    <3>1. a.comparable \in Members /\ a.comparable # Nil
      BY <2>1
    <3>2. Text(MemberText[a.comparable], WordKinds)
      BY <3>1, MemberStarts DEF Starts
    <3>3. WrittenArg(a, inner) = MemberText[a.comparable]
      BY <3>1 DEF WrittenArg, MemberText
    <3>4. QED BY <3>2, <3>3, TextWiden DEF WordKinds, SimpleKinds
  <2>2. CASE a \in [comparable : {Nil}, composite : E]
    <3>1. a.comparable = Nil /\ a.composite \in E
      BY <2>2
    <3>2. Text(ParensText(E, inner)[a.composite], {"LPAREN"})
      BY <3>1, ParensStarts DEF Starts
    <3>3. WrittenArg(a, inner) = ParensText(E, inner)[a.composite]
      BY <3>1 DEF WrittenArg, ParensText
    <3>4. QED BY <3>2, <3>3, TextWiden DEF SimpleKinds
  <2>3. QED BY <2>1, <2>2 DEF Args
<1>2. QED BY <1>1 DEF Starts, ArgText

LEMMA RestrictionStarts ==
  ASSUME NEW E, NEW inner, Spelled(E, inner), Nil \notin Members, Nil \notin Args(E)
  PROVE  Starts(Restrictions(E), RestrictionText(E, inner), WordKinds)
<1>1. ASSUME NEW r \in Restrictions(E)
      PROVE  Text(WrittenRestriction(r, inner), WordKinds)
  <2>1. r.comparable \in Members
    BY DEF Restrictions
  <2> DEFINE a == WrittenMember(r.comparable)
  <2>2. Text(a, WordKinds)
    BY <2>1, MemberStarts DEF Starts, MemberText
  <2>3. CASE r.arg = Nil
    BY <2>2, <2>3 DEF WrittenRestriction
  <2>4. CASE r.arg # Nil
    <3> DEFINE b == <<r.comparator>>
               c == WrittenArg(r.arg, inner)
               d == a \o b
    <3>1. r.comparator \in Comparators /\ r.arg \in Args(E)
      BY <2>4 DEF Restrictions
    <3>2. b \in Seq(Tokens)
      BY <3>1 DEF Tokens
    <3>3. Text(c, SimpleKinds)
      BY <3>1, ArgStarts DEF Starts, ArgText
    <3>4. c \in Seq(Tokens)
      BY <3>3 DEF Text
    <3> HIDE DEF a, b, c
    <3>5. Text(d, WordKinds)
      BY <2>2, <3>2, TextConcat
    <3> HIDE DEF d
    <3>6. Text(d \o c, WordKinds)
      BY <3>4, <3>5, TextConcat
    <3>7. WrittenRestriction(r, inner) = d \o c
      BY ONLY <2>4, Zenon DEF WrittenRestriction, a, b, c, d
    <3>8. QED BY <3>6, <3>7
  <2>5. QED BY <2>3, <2>4
<1>2. QED BY <1>1 DEF Starts, RestrictionText

LEMMA SimpleStarts ==
  ASSUME NEW E, NEW inner, Spelled(E, inner), Nil \notin Members, Nil \notin Args(E),
         Nil \notin Restrictions(E)
  PROVE  Starts(Simples(E), SimpleText(E, inner), SimpleKinds)
<1>1. ASSUME NEW s \in Simples(E)
      PROVE  Text(WrittenSimple(s, inner), SimpleKinds)
  <2>1. CASE s \in [restriction : Restrictions(E), composite : {Nil}]
    <3>1. s.restriction \in Restrictions(E) /\ s.restriction # Nil
      BY <2>1
    <3>2. Text(RestrictionText(E, inner)[s.restriction], WordKinds)
      BY <3>1, RestrictionStarts DEF Starts
    <3>3. WrittenSimple(s, inner) = RestrictionText(E, inner)[s.restriction]
      BY <3>1 DEF WrittenSimple, RestrictionText
    <3>4. QED BY <3>2, <3>3, TextWiden DEF WordKinds, SimpleKinds
  <2>2. CASE s \in [restriction : {Nil}, composite : E]
    <3>1. s.restriction = Nil /\ s.composite \in E
      BY <2>2
    <3>2. Text(ParensText(E, inner)[s.composite], {"LPAREN"})
      BY <3>1, ParensStarts DEF Starts
    <3>3. WrittenSimple(s, inner) = ParensText(E, inner)[s.composite]
      BY <3>1 DEF WrittenSimple, ParensText
    <3>4. QED BY <3>2, <3>3, TextWiden DEF SimpleKinds
  <2>3. QED BY <2>1, <2>2 DEF Simples
<1>2. QED BY <1>1 DEF Starts, SimpleText

LEMMA TermStarts ==
  ASSUME NEW E, NEW inner, Spelled(E, inner), Nil \notin Members, Nil \notin Args(E),
         Nil \notin Restrictions(E)
  PROVE  Starts(Terms(E), TermText(E, inner), TermKinds)
<1>1. ASSUME NEW t \in Terms(E)
      PROVE  Text(WrittenTerm(t, inner), TermKinds)
  <2> DEFINE a == WrittenSimple(t.simple, inner)
  <2>1. t.simple \in Simples(E) /\ t.negated \in BOOLEAN
    BY DEF Terms
  <2>2. Text(a, SimpleKinds)
    BY <2>1, SimpleStarts DEF Starts, SimpleText
  <2> HIDE DEF a
  <2>3. CASE t.negated
    <3>1. Text(Mark("NEGATE") \o a, {"NEGATE"})
      BY <2>2, MarkText DEF Text, Marks
    <3>2. WrittenTerm(t, inner) = Mark("NEGATE") \o a
      BY ONLY <2>3, Zenon DEF WrittenTerm, a
    <3>3. QED BY <3>1, <3>2, TextWiden DEF TermKinds
  <2>4. CASE ~ t.negated
    <3>1. WrittenTerm(t, inner) = a
      BY ONLY <2>4, Zenon DEF WrittenTerm, a
    <3>2. QED BY <2>2, <3>1, TextWiden DEF SimpleKinds, TermKinds
  <2>5. QED BY <2>3, <2>4
<1>2. QED BY <1>1 DEF Starts, TermText

\* Whatever begins with terms.
LEMMA ListStarts ==
  ASSUME NEW E, NEW inner, Spelled(E, inner), Nil \notin Members, Nil \notin Args(E),
         Nil \notin Restrictions(E)
  PROVE  /\ Starts(Factors(E), FactorText(E, inner), TermKinds)
         /\ Starts(Sequences(E), SequenceText(E, inner), TermKinds)
         /\ Starts(Lists(Sequences(E)), ExpressionText(E, inner), TermKinds)
<1>1. Starts(Terms(E), TermText(E, inner), TermKinds)
  BY TermStarts
<1>2. Mark("OR") \in Seq(Tokens) /\ Mark("AND") \in Seq(Tokens)
  BY MarkType DEF Marks
<1>3. Starts(Factors(E), FactorText(E, inner), TermKinds)
  <2>1. Starts(Lists(Terms(E)), ListsText(Terms(E), TermText(E, inner), Mark("OR")), TermKinds)
    BY <1>1, <1>2, StartsLists
  <2>2. QED BY <2>1, ListsAre DEF Factors
<1>4. Starts(Sequences(E), SequenceText(E, inner), TermKinds)
  <2>1. Starts(Lists(Factors(E)), ListsText(Factors(E), FactorText(E, inner), <<>>), TermKinds)
    BY <1>3, EmptySeq, StartsLists
  <2>2. QED BY <2>1, ListsAre DEF Sequences
<1>5. Starts(Lists(Sequences(E)), ExpressionText(E, inner), TermKinds)
  <2>1. Starts(Lists(Sequences(E)),
               ListsText(Sequences(E), SequenceText(E, inner), Mark("AND")), TermKinds)
    BY <1>2, <1>4, StartsLists
  <2>2. QED BY <2>1, ListsAre
<1>6. QED BY <1>3, <1>4, <1>5

(***************************************************************************)
(* Soundness of the parser, method by method: what is returned is a node,  *)
(* and what has been read is its text.                                     *)
(***************************************************************************)

\* Nil is no node, E being the expressions in parentheses.
Apart(E) ==
  /\ Nil \notin Words /\ Nil \notin Members /\ Nil \notin E /\ Nil \notin Args(E)
  /\ Nil \notin Restrictions(E) /\ Nil \notin Simples(E) /\ Nil \notin Terms(E)
  /\ Nil \notin Factors(E) /\ Nil \notin Sequences(E)

\* A method that gives nodes of N, wherever it is called.
Sound(ts, item, N, w) == \A p \in Position(ts) : Gives(ts, item[p], p, N, w)

LEMMA ApartNested ==
  ASSUME NEW n \in 0 .. MaxDepth
  PROVE  Apart(Nested[n])
BY LanguageAssumption DEF Apart

\* What is built of a node that is found, or what is returned in its place.
Makes(s, r, make) ==
  /\ r.node = Nil => s = r
  /\ r.node # Nil => s = Got(make[r.node], r.at)

LEMMA BuildGives ==
  ASSUME NEW ts, NEW p, NEW N, Nil \notin N, NEW w, NEW r, Gives(ts, r, p, N, w),
         NEW M, NEW v, NEW make, \A x \in N : make[x] \in M /\ v[make[x]] = w[x],
         NEW s, Makes(s, r, make)
  PROVE  Gives(ts, s, p, M, v)
<1>1. CASE r = Failed \/ r = Absent(p)
  <2>1. r.node = Nil
    BY <1>1, FailedIs, AbsentIs, Zenon
  <2>2. s = r
    BY <2>1 DEF Makes
  <2>3. QED BY <1>1, <2>2, Zenon DEF Gives
<1>2. ASSUME NEW x \in N, NEW q \in Position(ts), p < q, r = Got(x, q), Covers(ts, p, q, w[x])
      PROVE  Gives(ts, s, p, M, v)
  <2>1. r.node = x /\ r.at = q /\ x # Nil
    BY <1>2 DEF Got
  <2>2. s = Got(make[x], q)
    BY <2>1 DEF Makes
  <2>3. make[x] \in M /\ Covers(ts, p, q, v[make[x]])
    BY <1>2, Zenon
  <2>4. QED BY <1>2, <2>2, <2>3, Zenon DEF Gives
<1>3. QED BY <1>1, <1>2, Zenon DEF Gives

LEMMA OrElseGives ==
  ASSUME NEW ts, NEW p, NEW N, NEW w, NEW r, Gives(ts, r, p, N, w),
         NEW s, Gives(ts, s, p, N, w)
  PROVE  Gives(ts, OrElse(r, s), p, N, w)
BY Zenon DEF OrElse

\* A node that is demanded: an error, or a node of N and its text.
Demands(ts, r, p, N, w) ==
  \/ r = Failed
  \/ \E x \in N, q \in Position(ts) : p < q /\ r = Got(x, q) /\ Covers(ts, p, q, w[x])

LEMMA RequiredGives ==
  ASSUME NEW ts, NEW p, NEW N, Nil \notin N, NEW w, NEW r, Gives(ts, r, p, N, w)
  PROVE  Demands(ts, Required(r), p, N, w)
<1>1. CASE r = Failed \/ r = Absent(p)
  <2>1. r.node = Nil
    BY <1>1, FailedIs, AbsentIs, Zenon
  <2>2. QED BY <2>1 DEF Required, Demands
<1>2. ASSUME NEW x \in N, NEW q \in Position(ts), p < q, r = Got(x, q), Covers(ts, p, q, w[x])
      PROVE  Demands(ts, Required(r), p, N, w)
  <2>1. r.node = x /\ x # Nil
    BY <1>2 DEF Got
  <2>2. Required(r) = Got(x, q)
    BY <1>2, <2>1 DEF Required
  <2>3. QED BY <1>2, <2>2, Zenon DEF Demands
<1>3. QED BY <1>1, <1>2, Zenon DEF Gives

LEMMA ValueGives ==
  ASSUME NEW ts, ts \in Seq(Tokens), NEW p \in Position(ts)
  PROVE  Gives(ts, Value(ts, p), p, Words, WordText)
<1>1. CASE KindAt(ts, p) \in {"STRING", "TEXT"}
  <2>1. p \in 1 .. Len(ts)
    BY <1>1, Positions
  <2>2. /\ p + 1 \in Position(ts) /\ p < p + 1 /\ KindAt(ts, p) = ts[p].kind
        /\ ts[p] \in Tokens /\ Covers(ts, p, p + 1, <<ts[p]>>)
    BY <2>1, Positions
  <2>3. ts[p] \in Words
    BY <1>1, <2>2, TokenKinds
  <2>4. Value(ts, p) = Got(ts[p], p + 1)
    BY <1>1 DEF Value
  <2>5. Covers(ts, p, p + 1, WordText[ts[p]])
    BY <2>2, <2>3 DEF WordText
  <2>6. QED BY <2>2, <2>3, <2>4, <2>5, Zenon DEF Gives
<1>2. CASE KindAt(ts, p) \notin {"STRING", "TEXT"}
  BY <1>2 DEF Value, Gives
<1>3. QED BY <1>1, <1>2

LEMMA MemberGives ==
  ASSUME NEW ts, ts \in Seq(Tokens), Nil \notin Words, NEW p \in Position(ts)
  PROVE  Gives(ts, Member(ts, p), p, Members, MemberText)
<1> DEFINE item == [q \in Position(ts) |-> Value(ts, q)]
<1>1. \A q \in Position(ts) : Gives(ts, item[q], q, Words, WordText)
  BY ValueGives
<1>2. Spelled(Words, WordText)
  BY WordStarts, StartsSpelled
<1>3. Member(ts, p) = List(ts, "DOT", item, p)
  BY DEF Member
<1> HIDE DEF item
<1>4. "DOT" \in Marks
  BY DEF Marks
<1>5. Gives(ts, List(ts, "DOT", item, p), p, Lists(Words), ListsText(Words, WordText, Mark("DOT")))
  BY <1>1, <1>2, <1>4, ListReads
<1>6. QED BY <1>3, <1>5, ListsAre DEF Members

LEMMA CompositeGives ==
  ASSUME NEW ts, ts \in Seq(Tokens), NEW E, Nil \notin E, NEW inner, Spelled(E, inner),
         NEW item, Sound(ts, item, E, inner), NEW p \in Position(ts)
  PROVE  Gives(ts, Composite(ts, item, p), p, E, ParensText(E, inner))
<1>1. CASE KindAt(ts, p) # "LPAREN"
  BY <1>1 DEF Composite, Gives
<1>2. CASE KindAt(ts, p) = "LPAREN"
  <2> DEFINE u == p + 1
             r == item[u]
  <2>1. u \in Position(ts) /\ p < u /\ p <= u /\ Covers(ts, p, u, Mark("LPAREN"))
    BY <1>2, MarkRead DEF Marks
  <2>2. Gives(ts, r, u, E, inner)
    BY <2>1 DEF Sound
  <2>3. Composite(ts, item, p) = Closed(ts, r)
    BY <1>2 DEF Composite
  <2> HIDE DEF r, u
  <2>4. CASE r = Failed \/ r = Absent(u)
    <3>1. r.node = Nil
      BY <2>4, FailedIs, AbsentIs, Zenon
    <3>2. QED BY <2>3, <3>1 DEF Closed, Gives
  <2>5. ASSUME NEW e \in E, NEW q \in Position(ts), u < q, r = Got(e, q),
               Covers(ts, u, q, inner[e])
        PROVE  Gives(ts, Closed(ts, r), p, E, ParensText(E, inner))
    <3>1. r.node = e /\ r.at = q /\ e # Nil
      BY <2>5 DEF Got
    <3>2. CASE KindAt(ts, q) # "RPAREN"
      BY <3>1, <3>2 DEF Closed, Gives
    <3>3. CASE KindAt(ts, q) = "RPAREN"
      <4> DEFINE v == q + 1
                 a == Mark("LPAREN")
                 b == inner[e]
                 c == Mark("RPAREN")
                 d == a \o b
      <4>1. v \in Position(ts) /\ q < v /\ q <= v /\ Covers(ts, q, v, c)
        BY <3>3, MarkRead DEF Marks
      <4>2. Closed(ts, r) = Got(e, v)
        BY <3>1, <3>3 DEF Closed
      <4>3. ParensText(E, inner)[e] = d \o c
        BY DEF ParensText, InParens
      <4>4. u <= q /\ p <= q /\ p < v
        BY <2>1, <2>5, <4>1, Positions
      <4> HIDE DEF v, a, c
      <4>5. Covers(ts, p, u, a) /\ Covers(ts, u, q, b)
        BY <2>1, <2>5 DEF a
      <4> HIDE DEF b
      <4>6. Covers(ts, p, q, d)
        BY <2>1, <4>4, <4>5, CoversConcat
      <4> HIDE DEF d
      <4>7. Covers(ts, p, v, d \o c)
        BY <4>1, <4>4, <4>6, CoversConcat
      <4>8. Covers(ts, p, v, ParensText(E, inner)[e])
        BY ONLY <4>3, <4>7, Zenon
      <4>9. QED BY ONLY <4>1, <4>2, <4>4, <4>8, e \in E, Zenon DEF Gives
    <3>4. QED BY <3>2, <3>3
  <2>6. QED BY <2>2, <2>3, <2>4, <2>5 DEF Gives
<1>3. QED BY <1>1, <1>2

\* What an expression in parentheses is read as, item[q] being what is at q.
Reading(ts, item, E, inner) ==
  ts \in Seq(Tokens) /\ Apart(E) /\ Spelled(E, inner) /\ Sound(ts, item, E, inner)

LEMMA FoundIs ==
  ASSUME NEW ts, NEW p, NEW N, NEW w, NEW r, Gives(ts, r, p, N, w), r.node # Nil
  PROVE  r.node \in N
<1>1. r # Failed /\ r # Absent(p)
  BY FailedIs, AbsentIs, Zenon
<1>2. PICK x \in N, q \in Position(ts) : r = Got(x, q)
  BY <1>1, Zenon DEF Gives
<1>3. QED BY <1>2 DEF Got

LEMMA ArgGives ==
  ASSUME NEW ts, NEW E, NEW inner, NEW item, Reading(ts, item, E, inner),
         NEW p \in Position(ts)
  PROVE  Gives(ts, Arg(ts, item, p), p, Args(E), ArgText(E, inner))
<1> DEFINE one == [x \in Members |-> [comparable |-> x, composite |-> Nil]]
           two == [x \in E |-> [comparable |-> Nil, composite |-> x]]
           r == Member(ts, p)
           s == Composite(ts, item, p)
           a == IF r.node = Nil THEN r ELSE Got([comparable |-> r.node, composite |-> Nil], r.at)
           b == IF s.node = Nil THEN s ELSE Got([comparable |-> Nil, composite |-> s.node], s.at)
<1>1. ts \in Seq(Tokens) /\ Apart(E) /\ Spelled(E, inner) /\ Sound(ts, item, E, inner)
  BY DEF Reading
<1>2. Nil \notin Members /\ Nil \notin E
  BY <1>1 DEF Apart
<1>3. Gives(ts, r, p, Members, MemberText) /\ Gives(ts, s, p, E, ParensText(E, inner))
  BY <1>1, <1>2, MemberGives, CompositeGives DEF Apart
<1>4. \A x \in Members : one[x] \in Args(E) /\ ArgText(E, inner)[one[x]] = MemberText[x]
  <2>1. ASSUME NEW x \in Members
        PROVE  one[x] \in Args(E) /\ ArgText(E, inner)[one[x]] = MemberText[x]
    <3>1. /\ one[x] \in Args(E) /\ one[x].comparable = x /\ x # Nil
      BY <1>2 DEF Args
    <3>2. WrittenArg(one[x], inner) = MemberText[x]
      BY <3>1 DEF WrittenArg, MemberText
    <3>3. QED BY <3>1, <3>2 DEF ArgText
  <2>2. QED BY <2>1
<1>5. \A x \in E : two[x] \in Args(E) /\ ArgText(E, inner)[two[x]] = ParensText(E, inner)[x]
  <2>1. ASSUME NEW x \in E
        PROVE  two[x] \in Args(E) /\ ArgText(E, inner)[two[x]] = ParensText(E, inner)[x]
    <3>1. /\ two[x] \in Args(E) /\ two[x].comparable = Nil /\ two[x].composite = x
      BY DEF Args
    <3>2. WrittenArg(two[x], inner) = ParensText(E, inner)[x]
      BY <3>1 DEF WrittenArg, ParensText
    <3>3. QED BY <3>1, <3>2 DEF ArgText
  <2>2. QED BY <2>1
<1>6. Arg(ts, item, p) = OrElse(a, b)
  BY DEF Arg, Build
<1> HIDE DEF r, s
<1>7. Makes(a, r, one)
  <2>1. r.node # Nil => r.node \in Members
    BY <1>3, FoundIs
  <2>2. QED BY <2>1 DEF Makes
<1>8. Makes(b, s, two)
  <2>1. s.node # Nil => s.node \in E
    BY <1>3, FoundIs
  <2>2. QED BY <2>1 DEF Makes
<1> HIDE DEF a, b, one, two
<1>9. Gives(ts, a, p, Args(E), ArgText(E, inner))
  BY ONLY <1>2, <1>3, <1>4, <1>7, BuildGives
<1>10. Gives(ts, b, p, Args(E), ArgText(E, inner))
  BY ONLY <1>2, <1>3, <1>5, <1>8, BuildGives
<1>11. QED BY <1>6, <1>9, <1>10, OrElseGives

LEMMA RestrictionGives ==
  ASSUME NEW ts, NEW E, NEW inner, NEW item, Reading(ts, item, E, inner),
         NEW p \in Position(ts)
  PROVE  Gives(ts, Restriction(ts, item, p), p, Restrictions(E), RestrictionText(E, inner))
<1> DEFINE r == Member(ts, p)
           Goal == Gives(ts, Compared(ts, item, r), p, Restrictions(E), RestrictionText(E, inner))
<1>1. ts \in Seq(Tokens) /\ Apart(E) /\ Spelled(E, inner) /\ Sound(ts, item, E, inner)
  BY DEF Reading
<1>2. /\ Nil \notin Words /\ Nil \notin Members /\ Nil \notin Args(E)
      /\ Nil \notin Restrictions(E)
  BY <1>1 DEF Apart
<1>3. Gives(ts, r, p, Members, MemberText)
  BY <1>1, <1>2, MemberGives
<1>4. Restriction(ts, item, p) = Compared(ts, item, r)
  BY DEF Restriction
<1> HIDE DEF r
<1>5. CASE r = Failed \/ r = Absent(p)
  <2>1. r.node = Nil
    BY <1>5, FailedIs, AbsentIs, Zenon
  <2>2. Compared(ts, item, r) = r
    BY <2>1 DEF Compared
  <2>3. QED BY <1>4, <1>5, <2>2 DEF Gives
<1>6. ASSUME NEW m \in Members, NEW q \in Position(ts), p < q, r = Got(m, q),
             Covers(ts, p, q, MemberText[m])
      PROVE  Goal
  <2>1. r.node = m /\ r.at = q
    BY <1>6 DEF Got
  <2>2. m # Nil
    BY <1>2
  <2>3. CASE KindAt(ts, q) # "COMPARATOR"
    <3> DEFINE x == [comparable |-> m, comparator |-> Nil, arg |-> Nil]
    <3>1. Compared(ts, item, r) = Got(x, q)
      BY <2>1, <2>2, <2>3 DEF Compared
    <3>2. x \in Restrictions(E) /\ x.arg = Nil /\ x.comparable = m
      BY DEF Restrictions
    <3> HIDE DEF x
    <3>3. RestrictionText(E, inner)[x] = MemberText[m]
      BY <3>2 DEF RestrictionText, WrittenRestriction, MemberText
    <3>4. QED BY <1>6, <3>1, <3>2, <3>3, Zenon DEF Gives
  <2>4. CASE KindAt(ts, q) = "COMPARATOR"
    <3> DEFINE u == q + 1
               s == Arg(ts, item, u)
               c == ts[q]
    <3>1. q \in 1 .. Len(ts)
      BY <1>1, <2>4, Positions
    <3>2. /\ u \in Position(ts) /\ q < u /\ q <= u /\ KindAt(ts, q) = c.kind /\ c \in Tokens
          /\ Covers(ts, q, u, <<c>>)
      BY <1>1, <3>1, Positions
    <3>3. c \in Comparators
      BY <2>4, <3>2, TokenKinds
    <3>4. Gives(ts, s, u, Args(E), ArgText(E, inner))
      BY <3>2, ArgGives
    <3>5. Compared(ts, item, r) =
            IF Required(s).node = Nil THEN Required(s)
            ELSE Got([comparable |-> m, comparator |-> c, arg |-> Required(s).node],
                     Required(s).at)
      BY <2>1, <2>2, <2>4 DEF Compared, Build
    <3> HIDE DEF u, s, c
    <3>6. CASE Required(s) = Failed
      <4>1. Required(s).node = Nil
        BY <3>6, FailedIs, Zenon
      <4>2. QED BY <3>5, <3>6, <4>1 DEF Gives
    <3>7. ASSUME NEW a \in Args(E), NEW v \in Position(ts), u < v, Required(s) = Got(a, v),
                 Covers(ts, u, v, ArgText(E, inner)[a])
          PROVE  Goal
      <4> DEFINE x == [comparable |-> m, comparator |-> c, arg |-> a]
                 d == MemberText[m]
                 b == <<c>>
                 g == d \o b
                 h == ArgText(E, inner)[a]
      <4>1. Required(s).node = a /\ Required(s).at = v
        BY <3>7 DEF Got
      <4>2. a # Nil
        BY <1>2
      <4>3. Compared(ts, item, r) = Got(x, v)
        BY <3>5, <4>1, <4>2
      <4>4. x \in Restrictions(E) /\ x.arg = a /\ x.comparable = m /\ x.comparator = c
        BY <3>3 DEF Restrictions
      <4> HIDE DEF x
      <4>5. RestrictionText(E, inner)[x] = g \o h
        BY <4>2, <4>4 DEF RestrictionText, WrittenRestriction, MemberText, ArgText
      <4>6. p <= q /\ u <= v /\ p < v /\ p <= u
        BY <1>1, <1>6, <3>2, <3>7, Positions
      <4>7. Covers(ts, p, q, d) /\ Covers(ts, q, u, b) /\ Covers(ts, u, v, h)
        BY <1>6, <3>2, <3>7
      <4> HIDE DEF d, b, h
      <4>8. Covers(ts, p, u, g)
        BY <1>1, <3>2, <4>6, <4>7, CoversConcat
      <4> HIDE DEF g
      <4>9. Covers(ts, p, v, g \o h)
        BY <1>1, <3>2, <4>6, <4>7, <4>8, CoversConcat
      <4>10. Covers(ts, p, v, RestrictionText(E, inner)[x])
        BY ONLY <4>5, <4>9, Zenon
      <4>11. QED BY ONLY <4>3, <4>4, <4>6, <4>10, v \in Position(ts), Zenon DEF Gives
    <3>8. Demands(ts, Required(s), u, Args(E), ArgText(E, inner))
      BY <1>2, <3>4, RequiredGives
    <3>9. QED BY <3>6, <3>7, <3>8 DEF Demands
  <2>5. QED BY <2>3, <2>4
<1>7. Goal
  BY <1>3, <1>4, <1>5, <1>6 DEF Gives
<1>8. QED BY <1>4, <1>7

LEMMA SimpleGives ==
  ASSUME NEW ts, NEW E, NEW inner, NEW item, Reading(ts, item, E, inner),
         NEW p \in Position(ts)
  PROVE  Gives(ts, Simple(ts, item, p), p, Simples(E), SimpleText(E, inner))
<1> DEFINE one == [x \in Restrictions(E) |-> [restriction |-> x, composite |-> Nil]]
           two == [x \in E |-> [restriction |-> Nil, composite |-> x]]
           r == Restriction(ts, item, p)
           s == Composite(ts, item, p)
           a == IF r.node = Nil THEN r ELSE Got([restriction |-> r.node, composite |-> Nil], r.at)
           b == IF s.node = Nil THEN s ELSE Got([restriction |-> Nil, composite |-> s.node], s.at)
<1>1. ts \in Seq(Tokens) /\ Apart(E) /\ Spelled(E, inner) /\ Sound(ts, item, E, inner)
  BY DEF Reading
<1>2. Nil \notin Restrictions(E) /\ Nil \notin E
  BY <1>1 DEF Apart
<1>3. Gives(ts, r, p, Restrictions(E), RestrictionText(E, inner)) /\ Gives(ts, s, p, E, ParensText(E, inner))
  BY <1>1, <1>2, RestrictionGives, CompositeGives DEF Apart
<1>4. \A x \in Restrictions(E) : one[x] \in Simples(E) /\ SimpleText(E, inner)[one[x]] = RestrictionText(E, inner)[x]
  <2>1. ASSUME NEW x \in Restrictions(E)
        PROVE  one[x] \in Simples(E) /\ SimpleText(E, inner)[one[x]] = RestrictionText(E, inner)[x]
    <3>1. /\ one[x] \in Simples(E) /\ one[x].restriction = x /\ x # Nil
      BY <1>2 DEF Simples
    <3>2. WrittenSimple(one[x], inner) = RestrictionText(E, inner)[x]
      BY <3>1 DEF WrittenSimple, RestrictionText
    <3>3. QED BY <3>1, <3>2 DEF SimpleText
  <2>2. QED BY <2>1
<1>5. \A x \in E : two[x] \in Simples(E) /\ SimpleText(E, inner)[two[x]] = ParensText(E, inner)[x]
  <2>1. ASSUME NEW x \in E
        PROVE  two[x] \in Simples(E) /\ SimpleText(E, inner)[two[x]] = ParensText(E, inner)[x]
    <3>1. /\ two[x] \in Simples(E) /\ two[x].restriction = Nil /\ two[x].composite = x
      BY DEF Simples
    <3>2. WrittenSimple(two[x], inner) = ParensText(E, inner)[x]
      BY <3>1 DEF WrittenSimple, ParensText
    <3>3. QED BY <3>1, <3>2 DEF SimpleText
  <2>2. QED BY <2>1
<1>6. Simple(ts, item, p) = OrElse(a, b)
  BY DEF Simple, Build
<1> HIDE DEF r, s
<1>7. Makes(a, r, one)
  <2>1. r.node # Nil => r.node \in Restrictions(E)
    BY <1>3, FoundIs
  <2>2. QED BY <2>1 DEF Makes
<1>8. Makes(b, s, two)
  <2>1. s.node # Nil => s.node \in E
    BY <1>3, FoundIs
  <2>2. QED BY <2>1 DEF Makes
<1> HIDE DEF a, b, one, two
<1>9. Gives(ts, a, p, Simples(E), SimpleText(E, inner))
  BY ONLY <1>2, <1>3, <1>4, <1>7, BuildGives
<1>10. Gives(ts, b, p, Simples(E), SimpleText(E, inner))
  BY ONLY <1>2, <1>3, <1>5, <1>8, BuildGives
<1>11. QED BY <1>6, <1>9, <1>10, OrElseGives

LEMMA TermGives ==
  ASSUME NEW ts, NEW E, NEW inner, NEW item, Reading(ts, item, E, inner),
         NEW p \in Position(ts)
  PROVE  Gives(ts, Term(ts, item, p), p, Terms(E), TermText(E, inner))
<1> DEFINE Goal == Gives(ts, Term(ts, item, p), p, Terms(E), TermText(E, inner))
<1>1. ts \in Seq(Tokens) /\ Nil \notin Simples(E)
  BY DEF Reading, Apart
<1>2. CASE KindAt(ts, p) # "NEGATE"
  <2> DEFINE r == Simple(ts, item, p)
             a == IF r.node = Nil THEN r ELSE Got([negated |-> FALSE, simple |-> r.node], r.at)
             one == [x \in Simples(E) |-> [negated |-> FALSE, simple |-> x]]
  <2>1. Term(ts, item, p) = a
    BY <1>2 DEF Term, Build
  <2>2. Gives(ts, r, p, Simples(E), SimpleText(E, inner))
    BY SimpleGives
  <2>3. \A x \in Simples(E) :
          one[x] \in Terms(E) /\ TermText(E, inner)[one[x]] = SimpleText(E, inner)[x]
    <3>1. ASSUME NEW x \in Simples(E)
          PROVE  one[x] \in Terms(E) /\ TermText(E, inner)[one[x]] = SimpleText(E, inner)[x]
      <4>1. one[x] \in Terms(E) /\ one[x].simple = x /\ one[x].negated = FALSE
        BY DEF Terms
      <4>2. QED BY <4>1 DEF TermText, WrittenTerm, SimpleText
    <3>2. QED BY <3>1
  <2> HIDE DEF r
  <2>4. Makes(a, r, one)
    <3>1. r.node # Nil => r.node \in Simples(E)
      BY <2>2, FoundIs
    <3>2. QED BY <3>1 DEF Makes
  <2> HIDE DEF a, one
  <2>5. Gives(ts, a, p, Terms(E), TermText(E, inner))
    BY ONLY <1>1, <2>2, <2>3, <2>4, BuildGives
  <2>6. QED BY <2>1, <2>5
<1>3. CASE KindAt(ts, p) = "NEGATE"
  <2> DEFINE u == p + 1
             s == Simple(ts, item, u)
  <2>1. u \in Position(ts) /\ p < u /\ p <= u /\ Covers(ts, p, u, Mark("NEGATE"))
    BY <1>1, <1>3, MarkRead DEF Marks
  <2>2. Gives(ts, s, u, Simples(E), SimpleText(E, inner))
    BY <2>1, SimpleGives
  <2>3. Term(ts, item, p) =
          IF Required(s).node = Nil THEN Required(s)
          ELSE Got([negated |-> TRUE, simple |-> Required(s).node], Required(s).at)
    BY <1>3 DEF Term, Build
  <2> HIDE DEF u, s
  <2>4. CASE Required(s) = Failed
    <3>1. Required(s).node = Nil
      BY <2>4, FailedIs, Zenon
    <3>2. QED BY <2>3, <2>4, <3>1 DEF Gives
  <2>5. ASSUME NEW y \in Simples(E), NEW v \in Position(ts), u < v, Required(s) = Got(y, v),
               Covers(ts, u, v, SimpleText(E, inner)[y])
        PROVE  Goal
    <3> DEFINE x == [negated |-> TRUE, simple |-> y]
               a == Mark("NEGATE")
               b == SimpleText(E, inner)[y]
    <3>1. Required(s).node = y /\ Required(s).at = v
      BY <2>5 DEF Got
    <3>2. y # Nil
      BY <1>1
    <3>3. Term(ts, item, p) = Got(x, v)
      BY <2>3, <3>1, <3>2
    <3>4. x \in Terms(E) /\ x.negated = TRUE /\ x.simple = y
      BY DEF Terms
    <3> HIDE DEF x
    <3>5. TermText(E, inner)[x] = a \o b
      BY <3>4 DEF TermText, WrittenTerm, SimpleText
    <3>6. u <= v /\ p < v
      BY <1>1, <2>1, <2>5, Positions
    <3>7. Covers(ts, p, u, a) /\ Covers(ts, u, v, b)
      BY <2>1, <2>5
    <3> HIDE DEF a, b
    <3>8. Covers(ts, p, v, a \o b)
      BY <1>1, <2>1, <3>6, <3>7, CoversConcat
    <3>9. Covers(ts, p, v, TermText(E, inner)[x])
      BY ONLY <3>5, <3>8, Zenon
    <3>10. QED BY ONLY <3>3, <3>4, <3>6, <3>9, v \in Position(ts), Zenon DEF Gives
  <2>6. Demands(ts, Required(s), u, Simples(E), SimpleText(E, inner))
    BY <1>1, <2>2, RequiredGives
  <2>7. QED BY <2>4, <2>5, <2>6 DEF Demands
<1>4. QED BY <1>2, <1>3

LEMMA FactorGives ==
  ASSUME NEW ts, NEW E, NEW inner, NEW item, Reading(ts, item, E, inner),
         NEW p \in Position(ts)
  PROVE  Gives(ts, Factor(ts, item, p), p, Factors(E), FactorText(E, inner))
<1> DEFINE items == [q \in Position(ts) |-> Term(ts, item, q)]
<1>1. ts \in Seq(Tokens) /\ Apart(E) /\ Spelled(E, inner)
  BY DEF Reading
<1>2. \A q \in Position(ts) : Gives(ts, items[q], q, Terms(E), TermText(E, inner))
  BY TermGives
<1>3. Factor(ts, item, p) = List(ts, "OR", items, p)
  BY DEF Factor
<1> HIDE DEF items
<1>4. Nil \notin Terms(E) /\ Spelled(Terms(E), TermText(E, inner)) /\ "OR" \in Marks
  <2>1. Starts(Terms(E), TermText(E, inner), TermKinds)
    BY <1>1, TermStarts, ListStarts DEF Apart
  <2>2. QED BY <1>1, <2>1, StartsSpelled DEF Apart, Marks
<1>5. Gives(ts, List(ts, "OR", items, p), p, Lists(Terms(E)),
            ListsText(Terms(E), TermText(E, inner), Mark("OR")))
  BY <1>1, <1>2, <1>4, ListReads
<1>6. QED BY <1>3, <1>5, ListsAre DEF Factors

\* Items without a separator.
LEMMA BareReads ==
  ASSUME NEW ts, NEW N, NEW w, Spelled(N, w), NEW s, NEW q \in Position(ts),
         Gives(ts, s, q, N, w)
  PROVE  Reads(ts, s, q, N, w, <<>>)
<1>1. ASSUME NEW x \in N, NEW u \in Position(ts), q < u, s = Got(x, u), Covers(ts, q, u, w[x])
      PROVE  Reads(ts, s, q, N, w, <<>>)
  <2>1. w[x] \in Seq(Tokens)
    BY DEF Spelled
  <2>2. Between(ts, q, u, <<>>, w[x])
    BY <1>1, <2>1, CoversEmpty
  <2>3. QED BY <1>1, <2>2, Zenon DEF Reads
<1>2. QED BY <1>1, Zenon DEF Gives, Reads

LEMMA SequenceGives ==
  ASSUME NEW ts, NEW E, NEW inner, NEW item, Reading(ts, item, E, inner),
         NEW p \in Position(ts)
  PROVE  Gives(ts, Sequence(ts, item, p), p, Sequences(E), SequenceText(E, inner))
<1> DEFINE items == [q \in Position(ts) |-> Factor(ts, item, q)]
           N == Factors(E)
           w == FactorText(E, inner)
           r == Repeated(items, p)
<1>1. ts \in Seq(Tokens) /\ Nil \notin N /\ Spelled(N, w)
  <2>1. Starts(N, w, TermKinds)
    BY ListStarts DEF Reading, Apart
  <2>2. QED BY <2>1, StartsSpelled DEF Reading, Apart
<1>2. DOMAIN items = Position(ts) /\ \A q \in Position(ts) : Gives(ts, items[q], q, N, w)
  BY FactorGives
<1>3. Sequence(ts, item, p) = NonEmpty(r)
  BY DEF Sequence
<1>4. SequenceText(E, inner) = ListsText(N, w, <<>>) /\ Sequences(E) = Lists(N)
  BY ListsAre DEF Sequences
<1> HIDE DEF items, N, w
<1>5. \A q \in Position(ts) : Reads(ts, items[q], q, N, w, <<>>)
  BY <1>1, <1>2, BareReads
<1>6. Repeats(ts, r, p, N, w, <<>>)
  BY <1>1, <1>2, <1>5, EmptySeq, RepeatedReads
<1> HIDE DEF r
<1>7. CASE r = Failed
  <2>1. r.failed = TRUE
    BY <1>7, FailedIs, Zenon
  <2>2. NonEmpty(r) = Failed
    BY <1>7, <2>1 DEF NonEmpty
  <2>3. QED BY <1>3, <2>2 DEF Gives
<1>8. ASSUME NEW ys \in Seq(N), NEW q \in Position(ts), p <= q, r = Got(ys, q),
             ys = <<>> => p = q,
             ys # <<>> => Between(ts, p, q, <<>>, ListText(ys, w, <<>>))
      PROVE  Gives(ts, NonEmpty(r), p, Lists(N), ListsText(N, w, <<>>))
  <2>1. r.failed = FALSE /\ r.node = ys /\ r.at = q
    BY <1>8 DEF Got
  <2>2. CASE ys = <<>>
    <3>1. NonEmpty(r) = Absent(p)
      BY <1>8, <2>1, <2>2 DEF NonEmpty
    <3>2. QED BY <3>1 DEF Gives
  <2>3. CASE ys # <<>>
    <3>1. NonEmpty(r) = Got(ys, q)
      BY <1>8, <2>1, <2>3 DEF NonEmpty
    <3>2. ListText(ys, w, <<>>) \in Seq(Tokens)
      BY <1>1, <2>3, EmptySeq, ListTextType
    <3>3. Covers(ts, p, q, ListText(ys, w, <<>>))
      BY <1>8, <2>3, <3>2, CoversEmpty
    <3>4. ys \in Lists(N) /\ ListsText(N, w, <<>>)[ys] = ListText(ys, w, <<>>)
      BY <2>3 DEF Lists, ListsText
    <3>5. p # q
      <4>1. CASE p = q
        <5>1. p \in Int
          BY <1>1, Positions
        <5>2. Cut(ts, p, q) = <<>>
          BY <4>1, <5>1, CutEmpty
        <5>3. ListText(ys, w, <<>>) = <<>>
          BY <3>3, <5>2 DEF Covers
        <5>4. Text(ListsText(N, w, <<>>)[ys], TermKinds)
          BY <1>4, <3>4, ListStarts DEF Starts, Reading, Apart
        <5>5. QED BY <3>4, <5>3, <5>4 DEF Text
      <4>2. QED BY <4>1
    <3>6. p < q
      BY <1>1, <1>8, <3>5, Positions
    <3>7. Covers(ts, p, q, ListsText(N, w, <<>>)[ys])
      BY <3>3, <3>4
    <3>8. QED BY <3>1, <3>4, <3>6, <3>7, Zenon DEF Gives
  <2>4. QED BY <2>2, <2>3
<1>9. Gives(ts, NonEmpty(r), p, Lists(N), ListsText(N, w, <<>>))
  BY <1>3, <1>4, <1>6, <1>7, <1>8 DEF Repeats
<1>10. QED BY <1>3, <1>4, <1>9

LEMMA ExpressionGives ==
  ASSUME NEW ts, NEW E, NEW inner, NEW item, Reading(ts, item, E, inner),
         NEW p \in Position(ts)
  PROVE  Gives(ts, Expression(ts, item, p), p, Lists(Sequences(E)), ExpressionText(E, inner))
<1> DEFINE items == [q \in Position(ts) |-> Sequence(ts, item, q)]
<1>1. ts \in Seq(Tokens) /\ Apart(E) /\ Spelled(E, inner)
  BY DEF Reading
<1>2. \A q \in Position(ts) : Gives(ts, items[q], q, Sequences(E), SequenceText(E, inner))
  BY SequenceGives
<1>3. Expression(ts, item, p) = List(ts, "AND", items, p)
  BY DEF Expression
<1> HIDE DEF items
<1>4. Nil \notin Sequences(E) /\ Spelled(Sequences(E), SequenceText(E, inner)) /\ "AND" \in Marks
  <2>1. Starts(Sequences(E), SequenceText(E, inner), TermKinds)
    BY <1>1, TermStarts, ListStarts DEF Apart
  <2>2. QED BY <1>1, <2>1, StartsSpelled DEF Apart, Marks
<1>5. Gives(ts, List(ts, "AND", items, p), p, Lists(Sequences(E)),
            ListsText(Sequences(E), SequenceText(E, inner), Mark("AND")))
  BY <1>1, <1>2, <1>4, ListReads
<1>6. QED BY <1>3, <1>5, ListsAre

(***************************************************************************)
(* The parser as a whole.                                                  *)
(***************************************************************************)

\* The function of Written, up to depth n.
Writes(f, n) ==
  f = [m \in 0 .. n |-> [x \in Nested[m] |-> WrittenExpression(x, f[m - 1])]]

LEMMA WritesExists ==
  ASSUME NEW n \in Nat
  PROVE  \E f : Writes(f, n)
<1> DEFINE Good(m) == \E f : Writes(f, m)
           S == {m \in 0 .. n : Good(m)}
           To(f, m) == [x \in Nested[m] |-> WrittenExpression(x, f[m - 1])]
<1>0. n \in Nat
  OBVIOUS
<1>1. Good(0)
  <2> DEFINE f == [m \in 0 .. 0 |-> To(<<>>, m)]
  <2>1. f = [m \in 0 .. 0 |-> To(f, m)]
    BY NestedIs
  <2>2. QED BY <2>1 DEF Writes
<1>2. ASSUME NEW m \in 0 .. n, m # n, Good(m) PROVE Good(m + 1)
  <2>1. PICK f : f = [k \in 0 .. m |-> To(f, k)]
    BY <1>2 DEF Writes
  <2> DEFINE g == [k \in 0 .. m + 1 |-> To(f, k)]
  <2>2. \A k \in 0 .. m : f[k] = To(f, k)
    BY <2>1, Zenon
  <2>3. \A k \in 0 .. m : g[k] = f[k]
    <3>1. \A k \in 0 .. m : k \in 0 .. m + 1
      BY <1>0
    <3>2. QED BY <2>2, <3>1, Zenon
  <2>4. \A k \in 0 .. m + 1 : k = 0 \/ k - 1 \in 0 .. m
    BY <1>0
  <2> HIDE DEF g
  <2>5. \A k \in 0 .. m + 1 : To(f, k) = To(g, k)
    <3>1. To(f, 0) = To(g, 0)
      BY NestedIs
    <3>2. QED BY <2>3, <2>4, <3>1, Zenon
  <2>6. g = [k \in 0 .. m + 1 |-> To(g, k)]
    BY <2>5, Zenon DEF g
  <2>7. QED BY <2>6 DEF Writes
<1> HIDE DEF Good
<1>3. 0 \in S /\ \A m \in 0 .. n : m # n /\ m \in S => m + 1 \in S
  BY <1>0, <1>1, <1>2
<1> HIDE DEF S
<1>4. \A m \in 0 .. n : m \in S
  BY <1>0, <1>3, UpTo
<1>5. QED BY <1>0, <1>4 DEF Good, S

\* The function of Parsed, up to depth n.
Parses(f, ts, n) ==
  f = [m \in 0 .. n |-> [p \in Position(ts) |-> IF m = 0 THEN Failed ELSE Expression(ts, f[m - 1], p)]]

LEMMA ParsesExists ==
  ASSUME NEW n \in Nat, NEW ts
  PROVE  \E f : Parses(f, ts, n)
<1> DEFINE Good(m) == \E f : Parses(f, ts, m)
           S == {m \in 0 .. n : Good(m)}
           To(f, m) == [p \in Position(ts) |-> IF m = 0 THEN Failed ELSE Expression(ts, f[m - 1], p)]
<1>0. n \in Nat
  OBVIOUS
<1>1. Good(0)
  <2> DEFINE f == [m \in 0 .. 0 |-> To(<<>>, m)]
  <2>1. f = [m \in 0 .. 0 |-> To(f, m)]
    OBVIOUS
  <2>2. QED BY <2>1 DEF Parses
<1>2. ASSUME NEW m \in 0 .. n, m # n, Good(m) PROVE Good(m + 1)
  <2>1. PICK f : f = [k \in 0 .. m |-> To(f, k)]
    BY <1>2 DEF Parses
  <2> DEFINE g == [k \in 0 .. m + 1 |-> To(f, k)]
  <2>2. \A k \in 0 .. m : f[k] = To(f, k)
    BY <2>1, Zenon
  <2>3. \A k \in 0 .. m : g[k] = f[k]
    <3>1. \A k \in 0 .. m : k \in 0 .. m + 1
      BY <1>0
    <3>2. QED BY <2>2, <3>1, Zenon
  <2>4. \A k \in 0 .. m + 1 : k = 0 \/ k - 1 \in 0 .. m
    BY <1>0
  <2> HIDE DEF g
  <2>5. \A k \in 0 .. m + 1 : To(f, k) = To(g, k)
    BY <2>3, <2>4, Zenon
  <2>6. g = [k \in 0 .. m + 1 |-> To(g, k)]
    BY <2>5, Zenon DEF g
  <2>7. QED BY <2>6 DEF Parses
<1> HIDE DEF Good
<1>3. 0 \in S /\ \A m \in 0 .. n : m # n /\ m \in S => m + 1 \in S
  BY <1>0, <1>1, <1>2
<1> HIDE DEF S
<1>4. \A m \in 0 .. n : m \in S
  BY <1>0, <1>3, UpTo
<1>5. QED BY <1>0, <1>4 DEF Good, S


LEMMA WrittenIs ==
  \E f : /\ \A e : Written(e) = f[MaxDepth][e]
         /\ \A m \in 0 .. MaxDepth : f[m] = [x \in Nested[m] |-> WrittenExpression(x, f[m - 1])]
<1> DEFINE c == CHOOSE f : f = [m \in 0 .. MaxDepth |->
                                  [x \in Nested[m] |-> WrittenExpression(x, f[m - 1])]]
<1>1. \A e : Written(e) = c[MaxDepth][e]
  BY DEF Written
<1>2. MaxDepth \in Nat
  BY LanguageAssumption
<1>3. \E f : Writes(f, MaxDepth)
  BY <1>2, WritesExists
<1>4. \E f : f = [m \in 0 .. MaxDepth |-> [x \in Nested[m] |-> WrittenExpression(x, f[m - 1])]]
  BY <1>3, Zenon DEF Writes
<1>5. c = [m \in 0 .. MaxDepth |-> [x \in Nested[m] |-> WrittenExpression(x, c[m - 1])]]
  BY <1>4
<1> HIDE DEF c
<1>6. \A m \in 0 .. MaxDepth : c[m] = [x \in Nested[m] |-> WrittenExpression(x, c[m - 1])]
  BY <1>5, Zenon
<1>7. QED BY <1>1, <1>6, Zenon

LEMMA ParsedIs ==
  ASSUME NEW ts
  PROVE  \E f : /\ Parsed(ts) = f[MaxDepth]
                /\ \A m \in 0 .. MaxDepth :
                     f[m] = [p \in Position(ts) |->
                               IF m = 0 THEN Failed ELSE Expression(ts, f[m - 1], p)]
<1> DEFINE c == CHOOSE f : f = [m \in 0 .. MaxDepth |->
                  [p \in Position(ts) |-> IF m = 0 THEN Failed ELSE Expression(ts, f[m - 1], p)]]
<1>1. Parsed(ts) = c[MaxDepth]
  BY DEF Parsed
<1>2. MaxDepth \in Nat
  BY LanguageAssumption
<1>3. \E f : Parses(f, ts, MaxDepth)
  BY <1>2, ParsesExists
<1>4. \E f : f = [m \in 0 .. MaxDepth |->
                  [p \in Position(ts) |-> IF m = 0 THEN Failed ELSE Expression(ts, f[m - 1], p)]]
  BY <1>3, Zenon DEF Parses
<1>5. c = [m \in 0 .. MaxDepth |->
             [p \in Position(ts) |-> IF m = 0 THEN Failed ELSE Expression(ts, c[m - 1], p)]]
  BY <1>4
<1> HIDE DEF c
<1>6. \A m \in 0 .. MaxDepth :
        c[m] = [p \in Position(ts) |-> IF m = 0 THEN Failed ELSE Expression(ts, c[m - 1], p)]
  BY <1>5, Zenon
<1>7. QED BY <1>1, <1>6, Zenon

\* Every text of an expression begins with a term.
LEMMA WrittenStarts ==
  ASSUME NEW f, NEW n \in Nat, n <= MaxDepth,
         \A m \in 0 .. MaxDepth : f[m] = [x \in Nested[m] |-> WrittenExpression(x, f[m - 1])]
  PROVE  \A m \in 0 .. n : Starts(Nested[m], f[m], TermKinds) /\ Spelled(Nested[m], f[m])
<1> DEFINE S == {m \in 0 .. n : Starts(Nested[m], f[m], TermKinds)}
<1>1. MaxDepth \in Nat
  BY LanguageAssumption
<1>2. 0 \in S
  BY NestedIs DEF Starts
<1>3. ASSUME NEW m \in 0 .. n, m # n, m \in S PROVE m + 1 \in S
  <2> DEFINE E == Nested[m]
             inner == f[m]
             k == m + 1
  <2>1. k \in 0 .. n /\ k \in 0 .. MaxDepth /\ k # 0 /\ k - 1 = m /\ m \in 0 .. MaxDepth
    BY <1>1, <1>3
  <2>2. Apart(E) /\ Spelled(E, inner)
    BY <1>3, <2>1, ApartNested, StartsSpelled
  <2>3. Starts(Lists(Sequences(E)), ExpressionText(E, inner), TermKinds)
    BY <2>2, ListStarts DEF Apart
  <2>4. Nested[k] = Lists(Sequences(E))
    BY <2>1, NestedIs
  <2>5. f[k] = ExpressionText(E, inner)
    BY <2>1, <2>4 DEF ExpressionText
  <2>6. Starts(Nested[k], f[k], TermKinds)
    BY <2>3, <2>4, <2>5
  <2>7. QED BY <2>1, <2>6
<1> HIDE DEF S
<1>4. \A m \in 0 .. n : m \in S
  BY <1>2, <1>3, UpTo
<1>5. QED BY <1>4, StartsSpelled DEF S

\* At every depth the parser reads what is written.
LEMMA ParsedSound ==
  ASSUME NEW ts, ts \in Seq(Tokens), NEW f, NEW g,
         \A m \in 0 .. MaxDepth : f[m] = [x \in Nested[m] |-> WrittenExpression(x, f[m - 1])],
         \A m \in 0 .. MaxDepth :
           g[m] = [p \in Position(ts) |-> IF m = 0 THEN Failed ELSE Expression(ts, g[m - 1], p)]
  PROVE  Sound(ts, g[MaxDepth], Nested[MaxDepth], f[MaxDepth])
<1> DEFINE S == {m \in 0 .. MaxDepth : Sound(ts, g[m], Nested[m], f[m])}
<1>1. MaxDepth \in Nat /\ MaxDepth <= MaxDepth
  BY LanguageAssumption
<1>2. 0 \in S
  <2>1. 0 \in 0 .. MaxDepth
    BY <1>1
  <2>2. \A p \in Position(ts) : g[0][p] = Failed
    BY <2>1
  <2>3. QED BY <2>1, <2>2 DEF Sound, Gives
<1>3. ASSUME NEW m \in 0 .. MaxDepth, m # MaxDepth, m \in S PROVE m + 1 \in S
  <2> DEFINE E == Nested[m]
             inner == f[m]
             item == g[m]
             k == m + 1
  <2>1. k \in 0 .. MaxDepth /\ k # 0 /\ k - 1 = m
    BY <1>1, <1>3
  <2>2. Spelled(E, inner) /\ Apart(E) /\ Sound(ts, item, E, inner)
    BY <1>1, <1>3, WrittenStarts, ApartNested
  <2>3. Reading(ts, item, E, inner)
    BY <2>2 DEF Reading
  <2>4. Nested[k] = Lists(Sequences(E))
    BY <2>1, NestedIs
  <2>5. f[k] = ExpressionText(E, inner)
    BY <2>1, <2>4 DEF ExpressionText
  <2>6. \A p \in Position(ts) : g[k][p] = Expression(ts, item, p)
    <3>1. g[k] = [p \in Position(ts) |->
                    IF k = 0 THEN Failed ELSE Expression(ts, g[k - 1], p)]
      BY <2>1, Zenon
    <3>2. QED BY ONLY <2>1, <3>1
  <2>7. \A p \in Position(ts) :
          Gives(ts, Expression(ts, item, p), p, Lists(Sequences(E)), ExpressionText(E, inner))
    BY <2>3, ExpressionGives
  <2>8. Sound(ts, g[k], Nested[k], f[k])
    BY <2>4, <2>5, <2>6, <2>7 DEF Sound
  <2>9. QED BY <2>1, <2>8
<1> HIDE DEF S
<1>4. \A m \in 0 .. MaxDepth : m \in S
  BY <1>1, <1>2, <1>3, UpTo
<1>5. MaxDepth \in 0 .. MaxDepth
  BY <1>1
<1>6. QED BY <1>4, <1>5 DEF S

\* Of every text that is accepted, the parser returns a tree, and the text is what
\* this tree is written as: no token is skipped, moved or ignored.
THEOREM ParserSound ==
  ASSUME NEW ts, ts \in Seq(Tokens), ~ ParseFilter(ts).failed
  PROVE  /\ ParseFilter(ts).node \in Expressions \cup {Nil}
         /\ ts = IF ParseFilter(ts).node = Nil THEN <<>> ELSE Written(ParseFilter(ts).node)
<1>1. CASE ts = <<>>
  BY <1>1 DEF ParseFilter, Absent, Got
<1>2. CASE ts # <<>>
  <2>1. PICK f : /\ \A e : Written(e) = f[MaxDepth][e]
                 /\ \A m \in 0 .. MaxDepth :
                      f[m] = [x \in Nested[m] |-> WrittenExpression(x, f[m - 1])]
    BY WrittenIs
  <2>2. PICK g : /\ Parsed(ts) = g[MaxDepth]
                 /\ \A m \in 0 .. MaxDepth :
                      g[m] = [p \in Position(ts) |->
                                IF m = 0 THEN Failed ELSE Expression(ts, g[m - 1], p)]
    BY ParsedIs
  <2> DEFINE r == Parsed(ts)[1]
             E == Nested[MaxDepth]
             w == f[MaxDepth]
  <2>3. Sound(ts, g[MaxDepth], E, w)
    BY <2>1, <2>2, ParsedSound
  <2>4. Gives(ts, r, 1, E, w)
    BY <2>2, <2>3, Positions DEF Sound
  <2>5. ParseFilter(ts) = Ended(ts, r)
    BY <1>2 DEF ParseFilter
  <2>6. E = Expressions /\ MaxDepth \in 0 .. MaxDepth
    BY LanguageAssumption DEF Expressions
  <2>7. Nil \notin E
    BY <2>6, LanguageAssumption
  <2> HIDE DEF r, w, E
  <2>8. ~ r.failed /\ KindAt(ts, r.at) = "END" /\ ParseFilter(ts) = r
    BY <2>5 DEF Ended, Failed
  <2>9. r # Failed
    BY <2>8, FailedIs
  <2>10. r # Absent(1)
    <3>1. CASE r = Absent(1)
      <4>1. r.at = 1
        BY <3>1, AbsentIs, Zenon
      <4>2. 1 \in 1 .. Len(ts)
        BY <1>2, LenProperties, EmptySeq
      <4>3. KindAt(ts, 1) = ts[1].kind /\ ts[1] \in Tokens
        BY <4>2, Positions
      <4>4. ts[1].kind # "END"
        BY <4>3, TokenKinds
      <4>5. QED BY <2>8, <4>1, <4>3, <4>4
    <3>2. QED BY <3>1
  <2>11. PICK x \in E, q \in Position(ts) : r = Got(x, q) /\ Covers(ts, 1, q, w[x])
    BY <2>4, <2>9, <2>10, Zenon DEF Gives
  <2>12. r.node = x /\ r.at = q /\ x # Nil
    BY <2>7, <2>11 DEF Got
  <2>13. q = Len(ts) + 1
    <3>1. CASE q \in 1 .. Len(ts)
      <4>1. KindAt(ts, q) = ts[q].kind /\ ts[q] \in Tokens
        BY <3>1, Positions
      <4>2. ts[q].kind # "END"
        BY <4>1, TokenKinds
      <4>3. QED BY <2>8, <2>12, <4>1, <4>2
    <3>2. Len(ts) \in Nat /\ q \in 1 .. Len(ts) + 1
      BY Positions DEF Position
    <3>3. QED BY <3>1, <3>2
  <2>14. w[x] = ts
    BY <2>11, <2>13, CutAll DEF Covers
  <2>15. Written(x) = ts
    BY <2>1, <2>14 DEF w
  <2>16. QED BY <2>6, <2>8, <2>12, <2>15
<1>3. QED BY <1>1, <1>2


(***************************************************************************)
(* Completeness of the parser: the text of a node is read as that node.    *)
(***************************************************************************)

\* A piece of the text ends where another begins.
Splits(ts, p, q, a, b) ==
  \E r \in Position(ts) : p <= r /\ r <= q /\ Covers(ts, p, r, a) /\ Covers(ts, r, q, b)

\* Its tokens, one by one.
Copies(ts, p, q, a) ==
  /\ a \in Seq(Tokens) /\ Len(a) = q - p
  /\ \A i \in 1 .. q - p : a[i] = ts[p + i - 1]

LEMMA LengthIs ==
  ASSUME NEW ts, ts \in Seq(Tokens), NEW p \in Position(ts), NEW q \in Position(ts), p <= q,
         NEW a, Covers(ts, p, q, a)
  PROVE  Copies(ts, p, q, a)
BY CutIs DEF Covers, Copies

LEMMA CoversSplit ==
  ASSUME NEW ts, ts \in Seq(Tokens), NEW p \in Position(ts), NEW q \in Position(ts), p <= q,
         NEW a, a \in Seq(Tokens), NEW b, b \in Seq(Tokens), Covers(ts, p, q, a \o b)
  PROVE  Splits(ts, p, q, a, b)
<1> DEFINE c == a \o b
           m == Len(a)
           r == p + m
<1>1. /\ c \in Seq(Tokens) /\ Len(c) = m + Len(b)
      /\ \A i \in 1 .. m + Len(b) : c[i] = IF i <= m THEN a[i] ELSE b[i - m]
  BY ConcatProperties
<1>2. m \in Nat /\ Len(b) \in Nat
  BY LenProperties
<1>3. Covers(ts, p, q, c)
  OBVIOUS
<1> HIDE DEF c, m
<1>4. Len(c) = q - p /\ \A i \in 1 .. q - p : c[i] = ts[p + i - 1]
  BY <1>3, LengthIs DEF Copies
<1>5. p \in Int /\ q \in Int /\ p \in 1 .. Len(ts) + 1 /\ q \in 1 .. Len(ts) + 1 /\ Len(ts) \in Nat
  BY Positions DEF Position
<1>6. r \in 1 .. Len(ts) + 1 /\ p <= r /\ r <= q /\ r - p = m /\ q - r = Len(b) /\ r \in Int
  <2>1. q - p = m + Len(b)
    BY <1>1, <1>4
  <2>2. QED BY ONLY <1>2, <1>5, <2>1
<1>7. r \in Position(ts)
  BY <1>6 DEF Position
<1>8. Covers(ts, p, r, a)
  <2>1. Cut(ts, p, r) \in Seq(Tokens) /\ Len(Cut(ts, p, r)) = m
        /\ \A i \in 1 .. m : Cut(ts, p, r)[i] = ts[p + i - 1]
    <3> HIDE DEF r
    <3>1. /\ Cut(ts, p, r) \in Seq(Tokens) /\ Len(Cut(ts, p, r)) = r - p
          /\ \A i \in 1 .. r - p : Cut(ts, p, r)[i] = ts[p + i - 1]
      BY <1>6, <1>7, CutIs
    <3>2. QED BY ONLY <1>6, <3>1
  <2>2. \A i \in 1 .. m : a[i] = ts[p + i - 1]
    <3>1. \A i \in 1 .. m : i <= m /\ i \in 1 .. m + Len(b) /\ i \in 1 .. q - p
      BY <1>1, <1>2, <1>4
    <3>2. QED BY <1>1, <1>4, <3>1
  <2> DEFINE d == Cut(ts, p, r)
  <2>3. d \in Seq(Tokens) /\ Len(d) = Len(a) /\ \A i \in 1 .. Len(a) : a[i] = d[i]
    BY <2>1, <2>2 DEF m
  <2> HIDE DEF d
  <2>4. a = d
    BY <2>3, SeqEqual
  <2>5. QED BY <2>4 DEF Covers, d
<1>9. Covers(ts, r, q, b)
  <2>1. Cut(ts, r, q) \in Seq(Tokens) /\ Len(Cut(ts, r, q)) = Len(b)
        /\ \A i \in 1 .. Len(b) : Cut(ts, r, q)[i] = ts[r + i - 1]
    <3> HIDE DEF r
    <3>1. /\ Cut(ts, r, q) \in Seq(Tokens) /\ Len(Cut(ts, r, q)) = q - r
          /\ \A i \in 1 .. q - r : Cut(ts, r, q)[i] = ts[r + i - 1]
      BY <1>6, <1>7, CutIs
    <3>2. QED BY ONLY <1>6, <3>1
  <2>2. \A i \in 1 .. Len(b) : b[i] = ts[r + i - 1]
    <3>1. ASSUME NEW i \in 1 .. Len(b)
          PROVE  b[i] = ts[r + i - 1]
      <4> DEFINE j == i + m
      <4>1. /\ j \in 1 .. m + Len(b) /\ ~ (j <= m) /\ j \in 1 .. q - p /\ j - m = i
            /\ p + j - 1 = r + i - 1
        BY <1>1, <1>2, <1>4, <1>5
      <4>2. c[j] = b[j - m] /\ c[j] = ts[p + j - 1]
        BY <1>1, <1>4, <4>1
      <4>3. QED BY <4>1, <4>2
    <3>2. QED BY <3>1
  <2> DEFINE d == Cut(ts, r, q)
  <2>3. d \in Seq(Tokens) /\ Len(d) = Len(b) /\ \A i \in 1 .. Len(b) : b[i] = d[i]
    BY <2>1, <2>2
  <2> HIDE DEF d
  <2>4. b = d
    BY <2>3, SeqEqual
  <2>5. QED BY <2>4 DEF Covers, d
<1> HIDE DEF r
<1>10. QED BY <1>6, <1>7, <1>8, <1>9 DEF Splits

\* The first token of a text that lies at p.
LEMMA CoversFirst ==
  ASSUME NEW ts, ts \in Seq(Tokens), NEW p \in Position(ts), NEW q \in Position(ts), p <= q,
         NEW a, NEW K, Text(a, K), Covers(ts, p, q, a)
  PROVE  p < q /\ p \in 1 .. Len(ts) /\ KindAt(ts, p) \in K /\ a[1] = ts[p]
<1>1. /\ a \in Seq(Tokens) /\ Len(a) = q - p
      /\ \A i \in 1 .. q - p : a[i] = ts[p + i - 1]
  BY LengthIs DEF Copies
<1>2. Len(a) # 0 /\ Len(a) \in Nat
  BY EmptySeq, LenProperties DEF Text
<1>3. p \in Int /\ q \in Int /\ p \in 1 .. Len(ts) + 1 /\ q \in 1 .. Len(ts) + 1 /\ Len(ts) \in Nat
  BY Positions DEF Position
<1>4. 1 \in 1 .. q - p /\ p + 1 - 1 = p /\ p \in 1 .. Len(ts) /\ p < q
  BY <1>1, <1>2, <1>3
<1>5. a[1] = ts[p]
  BY <1>1, <1>4
<1>6. KindAt(ts, p) = ts[p].kind
  BY <1>4, Positions
<1>7. QED BY <1>4, <1>5, <1>6 DEF Text

\* A text of one token.
LEMMA CoversToken ==
  ASSUME NEW ts, ts \in Seq(Tokens), NEW p \in Position(ts), NEW q \in Position(ts), p <= q,
         NEW t, Covers(ts, p, q, <<t>>)
  PROVE  q = p + 1 /\ p \in 1 .. Len(ts) /\ ts[p] = t /\ KindAt(ts, p) = t.kind
<1> DEFINE a == <<t>>
<1>1. Len(a) = 1 /\ a[1] = t /\ Covers(ts, p, q, a)
  OBVIOUS
<1> HIDE DEF a
<1>2. q - p = 1 /\ \A i \in 1 .. q - p : a[i] = ts[p + i - 1]
  <2>1. /\ a \in Seq(Tokens) /\ Len(a) = q - p
        /\ \A i \in 1 .. q - p : a[i] = ts[p + i - 1]
    BY <1>1, LengthIs DEF Copies
  <2>2. QED BY ONLY <1>1, <2>1
<1>3. p \in Int /\ q \in Int /\ p \in 1 .. Len(ts) + 1 /\ q \in 1 .. Len(ts) + 1 /\ Len(ts) \in Nat
  BY Positions DEF Position
<1>4. 1 \in 1 .. q - p /\ p + 1 - 1 = p /\ p \in 1 .. Len(ts) /\ q = p + 1
  BY <1>1, <1>2, <1>3
<1>5. QED BY <1>1, <1>2, <1>4, Positions

LEMMA CoversMark ==
  ASSUME NEW ts, ts \in Seq(Tokens), NEW p \in Position(ts), NEW q \in Position(ts), p <= q,
         NEW kind, Covers(ts, p, q, Mark(kind))
  PROVE  q = p + 1 /\ p \in 1 .. Len(ts) /\ KindAt(ts, p) = kind
<1> DEFINE t == Token(kind, kind)
<1>1. t.kind = kind
  BY DEF Token
<1> HIDE DEF t
<1>2. Covers(ts, p, q, <<t>>)
  BY DEF Mark, t
<1>3. QED BY <1>1, <1>2, CoversToken

\* Where a node is written, item finds it, unless a token of D follows.
Finds(ts, item, N, w, D) ==
  \A x \in N, p \in Position(ts), q \in Position(ts) :
    p <= q /\ Covers(ts, p, q, w[x]) /\ KindAt(ts, q) \notin D => item[p] = Got(x, q)

\* Where no token of K is, item finds nothing.
Lacks(ts, item, K) ==
  \A p \in Position(ts) : KindAt(ts, p) \notin K => item[p] = Absent(p)

\* The same of the loop's items, which begin with a separator.
Takes(ts, item, N, w, sep, D) ==
  \A x \in N, p \in Position(ts), q \in Position(ts) :
    p <= q /\ Between(ts, p, q, sep, w[x]) /\ KindAt(ts, q) \notin D => item[p] = Got(x, q)

\* A loop of nodes begins with a token of K.
Leads(N, w, sep, K) ==
  /\ \A x \in N : Text(sep \o w[x], K)
  /\ \A ys \in Lists(N) : Text(sep \o ListText(ys, w, sep), K)

HasFront(ys, N) == \E x \in N, zs \in Seq(N) : ys = <<x>> \o zs

LEMMA HeadAndTail ==
  ASSUME NEW N, NEW ys, ys \in Seq(N), ys # <<>>
  PROVE  HasFront(ys, N)
<1> DEFINE x == Head(ys)
           zs == Tail(ys)
           s == <<x>> \o zs
<1>1. /\ x \in N /\ zs \in Seq(N) /\ Len(zs) = Len(ys) - 1
      /\ \A i \in 1 .. Len(zs) : zs[i] = ys[i + 1]
  BY HeadTailProperties
<1>2. x = ys[1]
  OBVIOUS
<1>3. Len(ys) \in Nat /\ Len(ys) # 0
  BY LenProperties, EmptySeq
<1> HIDE DEF x, zs
<1>4. /\ s \in Seq(N) /\ Len(s) = Len(zs) + 1 /\ s[1] = x
      /\ \A k \in 1 .. Len(zs) : s[k + 1] = zs[k]
  BY <1>1, InFrontIs
<1> HIDE DEF s
<1>5. Len(s) = Len(ys) /\ \A i \in 1 .. Len(ys) : s[i] = ys[i]
  <2>1. Len(s) = Len(ys)
    BY <1>1, <1>3, <1>4
  <2>2. ASSUME NEW i \in 1 .. Len(ys)
        PROVE  s[i] = ys[i]
    <3>1. CASE i = 1
      BY <1>2, <1>4, <3>1
    <3>2. CASE i # 1
      <4>1. i - 1 \in 1 .. Len(zs) /\ (i - 1) + 1 = i
        BY <1>1, <1>3, <3>2
      <4>2. s[(i - 1) + 1] = zs[i - 1] /\ zs[i - 1] = ys[(i - 1) + 1]
        BY <1>1, <1>4, <4>1
      <4>3. QED BY <4>1, <4>2
    <3>3. QED BY <3>1, <3>2
  <2>3. QED BY <2>1, <2>2
<1>6. ys = s
  BY <1>4, <1>5, SeqEqual
<1>7. QED BY <1>1, <1>6 DEF s, HasFront

\* What a loop that is given the text of a list returns: the list.
Runs(ts, r, p, N, w, sep, D) ==
  \A ys \in Seq(N), q \in Position(ts) :
    /\ p <= q /\ KindAt(ts, q) \notin D
    /\ ys = <<>> => p = q
    /\ ys # <<>> => Between(ts, p, q, sep, ListText(ys, w, sep))
    => r = Got(ys, q)

LEMMA RepeatedFinds ==
  ASSUME NEW ts, ts \in Seq(Tokens), NEW N, Nil \notin N, NEW w, Spelled(N, w),
         NEW sep, sep \in Seq(Tokens), NEW item, Advances(item, Len(ts) + 1),
         NEW D, NEW K, Takes(ts, item, N, w, sep, D), Lacks(ts, item, K),
         Leads(N, w, sep, K), K \cap D = {}
  PROVE  \A p \in Position(ts) : Runs(ts, Repeated(item, p), p, N, w, sep, D \cup K)
<1> DEFINE n == Len(ts) + 1
           S == {p \in 1 .. n : Runs(ts, Repeated(item, p), p, N, w, sep, D \cup K)}
<1>1. n \in Nat /\ Position(ts) = 1 .. n
  <2>1. Len(ts) \in Nat
    BY LenProperties
  <2>2. QED BY <2>1 DEF Position
<1>2. Advances(item, n)
  OBVIOUS
<1> HIDE DEF n
<1>3. ASSUME NEW p \in 1 .. n, \A r \in p + 1 .. n : r \in S
      PROVE  p \in S
  <2>0. p \in Position(ts)
    BY <1>1
  <2>1. Repeated(item, p) =
          IF item[p].node # Nil THEN InFront(item[p].node, Repeated(item, item[p].at))
          ELSE IF item[p].failed THEN item[p] ELSE Got(<<>>, p)
    BY <1>1, <1>2, RepeatedIs
  <2>2. ASSUME KindAt(ts, p) \notin K
        PROVE  Repeated(item, p) = Got(<<>>, p)
    <3>1. item[p] = Absent(p)
      BY <2>0, <2>2 DEF Lacks
    <3>2. item[p].node = Nil /\ item[p].failed = FALSE
      BY <3>1 DEF Absent, Got
    <3>3. QED BY <2>1, <3>2
  <2>3. ASSUME NEW x \in N, NEW r \in Position(ts), item[p] = Got(x, r)
        PROVE  Repeated(item, p) = InFront(x, Repeated(item, r))
    <3>1. item[p].node = x /\ item[p].at = r /\ x # Nil
      BY <2>3 DEF Got
    <3>2. QED BY <2>1, <3>1
  <2>4. ASSUME NEW ys \in Seq(N), NEW q \in Position(ts), p <= q, KindAt(ts, q) \notin D \cup K,
               ys = <<>> => p = q,
               ys # <<>> => Between(ts, p, q, sep, ListText(ys, w, sep))
        PROVE  Repeated(item, p) = Got(ys, q)
    <3>1. CASE ys = <<>>
      BY <2>2, <2>4, <3>1
    <3>2. CASE ys # <<>>
      <4>1. PICK x \in N, zs \in Seq(N) : ys = <<x>> \o zs
        <5>1. HasFront(ys, N)
          BY <3>2, HeadAndTail
        <5>2. QED BY <5>1, Zenon DEF HasFront
      <4>2. FrontText(x, zs, w, sep)
        BY ListTextFront
      <4> DEFINE a == w[x]
                 b == ListText(zs, w, sep)
                 Behind(r) == /\ r \in Position(ts) /\ p <= r /\ r <= q
                              /\ Between(ts, p, r, sep, a) /\ KindAt(ts, r) \notin D
                              /\ zs = <<>> => r = q
                              /\ zs # <<>> => Between(ts, r, q, sep, b)
      <4>3. \E r : Behind(r)
        <5>1. CASE zs = <<>>
          <6>1. ListText(ys, w, sep) = a
            BY ONLY <4>1, <4>2, <5>1, Zenon DEF FrontText
          <6>2. Behind(q)
            BY <2>0, <2>4, <3>2, <5>1, <6>1, <1>1
          <6>3. QED BY <6>2, Zenon
        <5>2. CASE zs # <<>>
          <6> DEFINE c == sep \o a
                     d == sep \o b
          <6>1. ListText(ys, w, sep) = a \o sep \o b
            BY ONLY <4>1, <4>2, <5>2, Zenon DEF FrontText
          <6>2. a \in Seq(Tokens) /\ b \in Seq(Tokens)
            BY <5>2, ListTextType DEF Spelled
          <6>3. Text(c, K) /\ Text(d, K)
            <7>1. zs \in Lists(N)
              BY <5>2 DEF Lists
            <7>2. QED BY <7>1 DEF Leads
          <6>4. Between(ts, p, q, sep, a \o sep \o b)
            BY <2>4, <3>2, <6>1
          <6> HIDE DEF a, b
          <6>5. RegroupsTwo(sep, a, b)
            BY <6>2, Regrouping
          <6>6. Covers(ts, p, q, c \o d)
            BY ONLY <6>4, <6>5, Zenon DEF RegroupsTwo, Covers, Between
          <6>7. c \in Seq(Tokens) /\ d \in Seq(Tokens)
            BY <6>3 DEF Text
          <6>8. /\ Covers(ts, p, q, c \o d)
                /\ \A r : Covers(ts, p, r, c) <=> Between(ts, p, r, sep, a)
                /\ \A r : Covers(ts, r, q, d) <=> Between(ts, r, q, sep, b)
            BY <6>6 DEF Covers, Between
          <6> HIDE DEF c, d
          <6>9. Splits(ts, p, q, c, d)
            BY <2>0, <2>4, <6>7, <6>8, CoversSplit
          <6>10. PICK r \in Position(ts) : /\ p <= r /\ r <= q /\ Covers(ts, p, r, c)
                                           /\ Covers(ts, r, q, d)
            BY <6>9 DEF Splits
          <6>11. KindAt(ts, r) \in K
            BY <2>4, <6>3, <6>10, CoversFirst
          <6>12. Behind(r)
            BY <5>2, <6>8, <6>10, <6>11
          <6>13. QED BY <6>12, Zenon
        <5>3. QED BY <5>1, <5>2
      <4>4. PICK r : Behind(r)
        BY <4>3
      <4>5. r \in Position(ts) /\ p <= r /\ r <= q
        BY <4>4
      <4>6. p < r
        <5> DEFINE c == sep \o a
        <5>1. Text(c, K)
          BY DEF Leads
        <5>2. Covers(ts, p, r, c)
          BY <4>4 DEF Covers, Between
        <5> HIDE DEF c
        <5>3. QED BY <2>0, <4>5, <5>1, <5>2, CoversFirst
      <4>7. item[p] = Got(x, r)
        BY <2>0, <4>4 DEF Takes
      <4>8. Repeated(item, p) = InFront(x, Repeated(item, r))
        BY <2>3, <4>5, <4>7
      <4>9. Runs(ts, Repeated(item, r), r, N, w, sep, D \cup K)
        <5>1. r \in p + 1 .. n
          BY <1>1, <4>5, <4>6
        <5>2. QED BY <1>3, <5>1
      <4>10. Repeated(item, r) = Got(zs, q)
        BY <2>4, <4>4, <4>9, Zenon DEF Runs
      <4> DEFINE rest == Repeated(item, r)
      <4>11. rest.node = zs /\ rest.at = q /\ rest.failed = FALSE
        BY <4>10 DEF Got
      <4>12. InFront(x, rest) = Got(<<x>> \o zs, q)
        BY ONLY <4>11 DEF InFront
      <4>13. QED BY <4>1, <4>8, <4>12
    <3>3. QED BY <3>1, <3>2
  <2>5. Runs(ts, Repeated(item, p), p, N, w, sep, D \cup K)
    BY <2>4, Zenon DEF Runs
  <2>6. QED BY <2>5
<1> HIDE DEF S
<1>4. \A p \in 1 .. n : p \in S
  BY <1>1, <1>3, DownFrom
<1>5. QED BY <1>1, <1>4 DEF S

LEMMA SeparatedFinds ==
  ASSUME NEW ts, ts \in Seq(Tokens), NEW N, Nil \notin N, NEW w, NEW K, Starts(N, w, K),
         NEW kind, kind \in Marks, NEW item, NEW D, Finds(ts, item, N, w, D)
  PROVE  /\ Takes(ts, Separated(ts, kind, item), N, w, Mark(kind), D)
         /\ Lacks(ts, Separated(ts, kind, item), {kind})
         /\ Leads(N, w, Mark(kind), {kind})
<1>0. Mark(kind) \in Seq(Tokens) /\ Spelled(N, w)
  BY MarkType, StartsSpelled
<1>1. \A q \in Position(ts) : Separated(ts, kind, item)[q] =
         IF KindAt(ts, q) = kind THEN Required(item[q + 1]) ELSE Absent(q)
  BY DEF Separated
<1>2. Lacks(ts, Separated(ts, kind, item), {kind})
  BY <1>1 DEF Lacks
<1>3. Leads(N, w, Mark(kind), {kind})
  <2>1. ASSUME NEW x \in N PROVE Text(Mark(kind) \o w[x], {kind})
    BY <1>0, MarkText DEF Spelled
  <2>2. ASSUME NEW ys \in Lists(N) PROVE Text(Mark(kind) \o ListText(ys, w, Mark(kind)), {kind})
    <3>1. ys \in Seq(N) /\ ys # <<>>
      BY DEF Lists
    <3>2. ListText(ys, w, Mark(kind)) \in Seq(Tokens)
      BY <1>0, <3>1, ListTextType
    <3>3. QED BY <3>2, MarkText
  <2>3. QED BY <2>1, <2>2 DEF Leads
<1>4. ASSUME NEW x \in N, NEW p \in Position(ts), NEW q \in Position(ts), p <= q,
             Between(ts, p, q, Mark(kind), w[x]), KindAt(ts, q) \notin D
      PROVE  Separated(ts, kind, item)[p] = Got(x, q)
  <2> DEFINE a == Mark(kind)
             b == w[x]
  <2>1. a \in Seq(Tokens) /\ b \in Seq(Tokens) /\ Covers(ts, p, q, a \o b)
    BY <1>0, <1>4 DEF Spelled, Covers, Between
  <2> HIDE DEF a, b
  <2>2. Splits(ts, p, q, a, b)
    BY <1>4, <2>1, CoversSplit
  <2>3. PICK r \in Position(ts) : p <= r /\ r <= q /\ Covers(ts, p, r, a) /\ Covers(ts, r, q, b)
    BY <2>2 DEF Splits
  <2>4. r = p + 1 /\ KindAt(ts, p) = kind
    BY <2>3, CoversMark DEF a
  <2>5. item[r] = Got(x, q)
    BY <1>4, <2>3 DEF Finds, b
  <2>6. Separated(ts, kind, item)[p] = Required(item[r])
    BY <1>1, <2>4
  <2>7. Required(item[r]) = Got(x, q)
    BY <2>5 DEF Required, Got
  <2>8. QED BY <2>6, <2>7
<1>5. QED BY <1>2, <1>3, <1>4, Zenon DEF Takes

LEMMA ListFinds ==
  ASSUME NEW ts, ts \in Seq(Tokens), NEW N, Nil \notin N, NEW w, NEW K, Starts(N, w, K),
         NEW kind, kind \in Marks, NEW item, NEW D, kind \notin D, Finds(ts, item, N, w, D),
         \A q \in Position(ts) : Gives(ts, item[q], q, N, w),
         NEW ys \in Lists(N), NEW p \in Position(ts), NEW q \in Position(ts), p <= q,
         Covers(ts, p, q, ListsText(N, w, Mark(kind))[ys]), KindAt(ts, q) \notin D \cup {kind}
  PROVE  List(ts, kind, item, p) = Got(ys, q)
<1> DEFINE sep == Mark(kind)
           items == Separated(ts, kind, item)
<1>1. sep \in Seq(Tokens) /\ Spelled(N, w)
  BY MarkType, StartsSpelled
<1>2. /\ Takes(ts, items, N, w, sep, D) /\ Lacks(ts, items, {kind}) /\ Leads(N, w, sep, {kind})
  BY SeparatedFinds
<1>3. DOMAIN items = Position(ts) /\ \A u \in Position(ts) : Reads(ts, items[u], u, N, w, sep)
  BY <1>1, SeparatedReads
<1>4. List(ts, kind, item, p) =
        IF item[p].node = Nil THEN item[p] ELSE InFront(item[p].node, Repeated(items, item[p].at))
  BY DEF List
<1>5. Covers(ts, p, q, ListText(ys, w, sep)) /\ ys \in Seq(N) /\ ys # <<>>
  BY DEF ListsText, Lists
<1>6. {kind} \cap D = {} /\ KindAt(ts, q) \notin D
  OBVIOUS
<1> HIDE DEF sep, items
<1>7. Advances(items, Len(ts) + 1)
  BY <1>1, <1>3, RepeatedReads
<1>8. \A u \in Position(ts) : Runs(ts, Repeated(items, u), u, N, w, sep, D \cup {kind})
  BY <1>1, <1>2, <1>6, <1>7, RepeatedFinds
<1>9. PICK x \in N, zs \in Seq(N) : ys = <<x>> \o zs
  <2>1. HasFront(ys, N)
    BY <1>5, HeadAndTail
  <2>2. QED BY <2>1, Zenon DEF HasFront
<1>10. FrontText(x, zs, w, sep)
  BY <1>1, ListTextFront
<1> DEFINE a == w[x]
           b == ListText(zs, w, sep)
           Behind(r) == /\ r \in Position(ts) /\ p <= r /\ r <= q
                        /\ Covers(ts, p, r, a) /\ KindAt(ts, r) \notin D
                        /\ zs = <<>> => r = q
                        /\ zs # <<>> => Between(ts, r, q, sep, b)
<1>11. \E r : Behind(r)
  <2>1. CASE zs = <<>>
    <3>1. ListText(ys, w, sep) = a
      BY ONLY <1>9, <1>10, <2>1, Zenon DEF FrontText
    <3>2. q <= q
      BY Positions
    <3>3. Behind(q)
      BY <1>5, <1>6, <2>1, <3>1, <3>2
    <3>4. QED BY <3>3, Zenon
  <2>2. CASE zs # <<>>
    <3> DEFINE d == sep \o b
    <3>1. ListText(ys, w, sep) = a \o sep \o b
      BY ONLY <1>9, <1>10, <2>2, Zenon DEF FrontText
    <3>2. a \in Seq(Tokens) /\ b \in Seq(Tokens)
      BY <1>1, <2>2, ListTextType DEF Spelled
    <3>3. Text(d, {kind})
      <4>1. zs \in Lists(N)
        BY <2>2 DEF Lists
      <4>2. QED BY <1>2, <4>1 DEF Leads
    <3>4. Covers(ts, p, q, a \o sep \o b)
      BY <1>5, <3>1
    <3> HIDE DEF a, b
    <3>5. Regroups(a, sep, b)
      BY <1>1, <3>2, ConcatTypes
    <3>6. Covers(ts, p, q, a \o d) /\ d \in Seq(Tokens)
      <4>1. Covers(ts, p, q, a \o d)
        BY ONLY <3>4, <3>5, Zenon DEF Regroups, Covers
      <4>2. QED BY <3>3, <4>1 DEF Text
    <3>7. \A r : Covers(ts, r, q, d) <=> Between(ts, r, q, sep, b)
      BY DEF Covers, Between
    <3> HIDE DEF d
    <3>8. Splits(ts, p, q, a, d)
      BY <3>2, <3>6, CoversSplit
    <3>9. PICK r \in Position(ts) : /\ p <= r /\ r <= q /\ Covers(ts, p, r, a)
                                    /\ Covers(ts, r, q, d)
      BY <3>8 DEF Splits
    <3>10. KindAt(ts, r) = kind
      BY <3>3, <3>9, CoversFirst
    <3>11. Behind(r)
      BY <2>2, <3>7, <3>9, <3>10
    <3>12. QED BY <3>11, Zenon
  <2>3. QED BY <2>1, <2>2
<1>12. PICK r : Behind(r)
  BY <1>11
<1>13. item[p] = Got(x, r)
  BY <1>12 DEF Finds
<1>14. item[p].node = x /\ item[p].at = r /\ x # Nil
  BY <1>13 DEF Got
<1> DEFINE rest == Repeated(items, r)
<1>15. Runs(ts, rest, r, N, w, sep, D \cup {kind})
  BY <1>8, <1>12
<1> HIDE DEF rest
<1>16. rest = Got(zs, q)
  BY <1>12, <1>15, Zenon DEF Runs
<1>17. rest.node = zs /\ rest.at = q /\ rest.failed = FALSE
  BY <1>16 DEF Got
<1>18. InFront(x, rest) = Got(<<x>> \o zs, q)
  BY ONLY <1>17 DEF InFront
<1>19. List(ts, kind, item, p) = InFront(x, rest)
  BY <1>4, <1>14 DEF rest
<1>20. QED BY <1>9, <1>18, <1>19

\* The tokens that do not follow a member, a term, a factor and so on: the
\* parser would go on with them.
MemberStops == {"DOT"}
TermStops == {"DOT", "COMPARATOR"}
FactorStops == {"DOT", "COMPARATOR", "OR"}
SequenceStops == FactorStops \cup TermKinds
ExpressionStops == SequenceStops \cup {"AND"}

\* What an expression in parentheses is read as: the one that is written there.
Rereading(ts, item, E, inner) ==
  Reading(ts, item, E, inner) /\ Finds(ts, item, E, inner, ExpressionStops)

\* Where none of the first tokens is, a method finds nothing.
LEMMA MethodsLack ==
  ASSUME NEW ts, NEW item, NEW p \in Position(ts)
  PROVE  /\ KindAt(ts, p) \notin WordKinds => Member(ts, p) = Absent(p)
         /\ KindAt(ts, p) \notin WordKinds => Restriction(ts, item, p) = Absent(p)
         /\ KindAt(ts, p) \notin {"LPAREN"} => Composite(ts, item, p) = Absent(p)
         /\ KindAt(ts, p) \notin SimpleKinds => Simple(ts, item, p) = Absent(p)
         /\ KindAt(ts, p) \notin TermKinds => Term(ts, item, p) = Absent(p)
         /\ KindAt(ts, p) \notin TermKinds => Factor(ts, item, p) = Absent(p)
<1>1. ASSUME KindAt(ts, p) \notin WordKinds
      PROVE  Member(ts, p) = Absent(p)
  <2> DEFINE item1 == [q \in Position(ts) |-> Value(ts, q)]
  <2>1. item1[p] = Absent(p)
    BY <1>1 DEF Value, WordKinds
  <2>2. Member(ts, p) = List(ts, "DOT", item1, p)
    BY DEF Member
  <2> HIDE DEF item1
  <2>3. List(ts, "DOT", item1, p) = item1[p]
    BY <2>1 DEF List, Absent, Got
  <2>4. QED BY <2>1, <2>2, <2>3
<1>2. ASSUME KindAt(ts, p) \notin WordKinds
      PROVE  Restriction(ts, item, p) = Absent(p)
  <2> DEFINE r == Member(ts, p)
  <2>1. r = Absent(p) /\ Restriction(ts, item, p) = Compared(ts, item, r)
    BY <1>1, <1>2 DEF Restriction
  <2> HIDE DEF r
  <2>2. r.node = Nil
    BY <2>1 DEF Absent, Got
  <2>3. Compared(ts, item, r) = r
    BY <2>2 DEF Compared
  <2>4. QED BY <2>1, <2>3
<1>3. ASSUME KindAt(ts, p) \notin {"LPAREN"}
      PROVE  Composite(ts, item, p) = Absent(p)
  BY <1>3 DEF Composite
<1>4. ASSUME KindAt(ts, p) \notin SimpleKinds
      PROVE  Simple(ts, item, p) = Absent(p)
  <2>1. KindAt(ts, p) \notin WordKinds /\ KindAt(ts, p) \notin {"LPAREN"}
    BY <1>4 DEF SimpleKinds, WordKinds
  <2>2. Restriction(ts, item, p) = Absent(p) /\ Composite(ts, item, p) = Absent(p)
    BY <1>2, <1>3, <2>1
  <2>3. QED BY <2>2 DEF Simple, Build, OrElse, Absent, Got
<1>5. ASSUME KindAt(ts, p) \notin TermKinds
      PROVE  Term(ts, item, p) = Absent(p)
  <2>1. KindAt(ts, p) \notin SimpleKinds /\ KindAt(ts, p) # "NEGATE"
    BY <1>5 DEF SimpleKinds, TermKinds
  <2>2. Simple(ts, item, p) = Absent(p)
    BY <1>4, <2>1
  <2>3. QED BY <2>1, <2>2 DEF Term, Build, Absent, Got
<1>6. ASSUME KindAt(ts, p) \notin TermKinds
      PROVE  Factor(ts, item, p) = Absent(p)
  <2> DEFINE items == [q \in Position(ts) |-> Term(ts, item, q)]
  <2>1. items[p] = Absent(p)
    BY <1>5, <1>6
  <2>2. Factor(ts, item, p) = List(ts, "OR", items, p)
    BY DEF Factor
  <2> HIDE DEF items
  <2>3. List(ts, "OR", items, p) = items[p]
    BY <2>1 DEF List, Absent, Got
  <2>4. QED BY <2>1, <2>2, <2>3
<1>7. QED BY <1>1, <1>2, <1>3, <1>4, <1>5, <1>6

LEMMA MemberFinds ==
  ASSUME NEW ts, ts \in Seq(Tokens), Nil \notin Words, NEW m \in Members,
         NEW p \in Position(ts), NEW q \in Position(ts), p <= q,
         Covers(ts, p, q, MemberText[m]), KindAt(ts, q) \notin MemberStops
  PROVE  Member(ts, p) = Got(m, q)
<1> DEFINE item == [u \in Position(ts) |-> Value(ts, u)]
<1>1. \A u \in Position(ts) : Gives(ts, item[u], u, Words, WordText)
  BY ValueGives
<1>2. ASSUME NEW x \in Words, NEW u \in Position(ts), NEW v \in Position(ts), u <= v,
             Covers(ts, u, v, WordText[x])
      PROVE  item[u] = Got(x, v)
  <2>1. Covers(ts, u, v, <<x>>)
    BY <1>2 DEF WordText
  <2>2. v = u + 1 /\ ts[u] = x /\ KindAt(ts, u) = x.kind
    BY <1>2, <2>1, CoversToken
  <2>3. x.kind \in {"STRING", "TEXT"}
    BY DEF Words
  <2>4. QED BY <2>2, <2>3 DEF Value
<1>3. Finds(ts, item, Words, WordText, {})
  BY <1>2 DEF Finds
<1>4. Member(ts, p) = List(ts, "DOT", item, p)
  BY DEF Member
<1> HIDE DEF item
<1>5. "DOT" \in Marks /\ "DOT" \notin {} /\ KindAt(ts, q) \notin {} \cup {"DOT"}
  BY DEF Marks, MemberStops
<1>6. m \in Lists(Words) /\ Covers(ts, p, q, ListsText(Words, WordText, Mark("DOT"))[m])
  BY ListsAre DEF Members
<1>7. List(ts, "DOT", item, p) = Got(m, q)
  BY <1>1, <1>3, <1>5, <1>6, WordStarts, ListFinds
<1>8. QED BY <1>4, <1>7

LEMMA CompositeFinds ==
  ASSUME NEW ts, NEW E, NEW inner, NEW item, Rereading(ts, item, E, inner), NEW e \in E,
         NEW p \in Position(ts), NEW q \in Position(ts), p <= q,
         Covers(ts, p, q, ParensText(E, inner)[e])
  PROVE  Composite(ts, item, p) = Got(e, q) /\ KindAt(ts, p) = "LPAREN"
<1> DEFINE a == Mark("LPAREN")
           b == inner[e]
           c == Mark("RPAREN")
           d == a \o b
<1>1. ts \in Seq(Tokens) /\ Nil \notin E /\ Spelled(E, inner)
  BY DEF Rereading, Reading, Apart
<1>2. a \in Seq(Tokens) /\ b \in Seq(Tokens) /\ c \in Seq(Tokens)
  BY <1>1, MarkType DEF Marks, Spelled
<1>3. Covers(ts, p, q, d \o c)
  BY DEF ParensText, InParens
<1> HIDE DEF a, b, c
<1>4. d \in Seq(Tokens)
  BY <1>2, ConcatProperties
<1> HIDE DEF d
<1>5. Splits(ts, p, q, d, c)
  BY <1>1, <1>2, <1>3, <1>4, CoversSplit
<1>6. PICK r \in Position(ts) : p <= r /\ r <= q /\ Covers(ts, p, r, d) /\ Covers(ts, r, q, c)
  BY <1>5 DEF Splits
<1>7. Splits(ts, p, r, a, b)
  <2>1. Covers(ts, p, r, a \o b)
    BY <1>6 DEF d
  <2>2. QED BY <1>1, <1>2, <1>6, <2>1, CoversSplit
<1>8. PICK u \in Position(ts) : p <= u /\ u <= r /\ Covers(ts, p, u, a) /\ Covers(ts, u, r, b)
  BY <1>7 DEF Splits
<1>9. u = p + 1 /\ KindAt(ts, p) = "LPAREN"
  BY <1>1, <1>8, CoversMark DEF a
<1>10. q = r + 1 /\ KindAt(ts, r) = "RPAREN"
  BY <1>1, <1>6, CoversMark DEF c
<1>11. item[u] = Got(e, r)
  <2>1. KindAt(ts, r) \notin ExpressionStops
    BY <1>10 DEF ExpressionStops, SequenceStops, FactorStops, TermKinds
  <2>2. QED BY <1>8, <2>1 DEF Rereading, Finds, b
<1> DEFINE s == item[u]
<1>12. s.node = e /\ s.at = r /\ e # Nil
  BY <1>1, <1>11 DEF Got
<1>13. Composite(ts, item, p) = Closed(ts, s)
  BY <1>9 DEF Composite
<1> HIDE DEF s
<1>14. Closed(ts, s) = Got(e, q)
  BY <1>10, <1>12 DEF Closed
<1>15. QED BY <1>9, <1>13, <1>14

LEMMA ArgFinds ==
  ASSUME NEW ts, NEW E, NEW inner, NEW item, Rereading(ts, item, E, inner),
         NEW x \in Args(E),
         NEW p \in Position(ts), NEW q \in Position(ts), p <= q,
         Covers(ts, p, q, ArgText(E, inner)[x]), KindAt(ts, q) \notin MemberStops
  PROVE  Arg(ts, item, p) = Got(x, q)
<1> DEFINE r == Member(ts, p)
           s == Composite(ts, item, p)
           a == IF r.node = Nil THEN r ELSE Got([comparable |-> r.node, composite |-> Nil], r.at)
           b == IF s.node = Nil THEN s ELSE Got([comparable |-> Nil, composite |-> s.node], s.at)
<1>1. ts \in Seq(Tokens) /\ Apart(E)
  BY DEF Rereading, Reading
<1>2. Arg(ts, item, p) = OrElse(a, b)
  BY DEF Arg, Build
<1>3. CASE x \in [comparable : Members, composite : {Nil}]
  <2> DEFINE y == x.comparable
  <2>1. y \in Members /\ y # Nil /\ x = [comparable |-> y, composite |-> Nil]
    BY <1>1, <1>3 DEF Apart
  <2>2. ArgText(E, inner)[x] = MemberText[y]
    BY <2>1 DEF ArgText, WrittenArg, MemberText
  <2> HIDE DEF y
  <2>3. r = Got(y, q)
    BY <1>1, <2>1, <2>2, MemberFinds DEF Apart
  <2>4. r.node = y /\ r.at = q
    BY <2>3 DEF Got
  <2> HIDE DEF r
  <2>5. a = Got(x, q)
    BY <2>1, <2>4
  <2> HIDE DEF a
  <2>6. a.node = x /\ x # Nil
    BY <1>1, <2>5 DEF Got, Apart
  <2>7. QED BY <1>2, <2>5, <2>6 DEF OrElse
<1>4. CASE x \in [comparable : {Nil}, composite : E]
  <2> DEFINE e == x.composite
  <2>1. e \in E /\ e # Nil /\ x = [comparable |-> Nil, composite |-> e] /\ x.comparable = Nil
    BY <1>1, <1>4 DEF Apart
  <2>2. ArgText(E, inner)[x] = ParensText(E, inner)[e]
    BY <2>1 DEF ArgText, WrittenArg, ParensText
  <2> HIDE DEF e
  <2>3. s = Got(e, q) /\ KindAt(ts, p) = "LPAREN"
    BY <2>1, <2>2, CompositeFinds
  <2>4. r = Absent(p)
    BY <2>3, MethodsLack DEF WordKinds
  <2>5. s.node = e /\ s.at = q /\ r.node = Nil /\ r.failed = FALSE
    BY <2>3, <2>4 DEF Got, Absent
  <2> HIDE DEF r, s
  <2>6. a = r /\ b = Got(x, q)
    BY <2>1, <2>5
  <2> HIDE DEF a, b
  <2>7. QED BY <1>2, <2>5, <2>6 DEF OrElse
<1>5. QED BY <1>3, <1>4 DEF Args

LEMMA RestrictionFinds ==
  ASSUME NEW ts, NEW E, NEW inner, NEW item, Rereading(ts, item, E, inner),
         NEW x \in Restrictions(E), NEW p \in Position(ts), NEW q \in Position(ts), p <= q,
         Covers(ts, p, q, RestrictionText(E, inner)[x]), KindAt(ts, q) \notin TermStops
  PROVE  Restriction(ts, item, p) = Got(x, q)
<1> DEFINE m == x.comparable
           r == Member(ts, p)
<1>1. /\ ts \in Seq(Tokens) /\ Nil \notin Words /\ Nil \notin Members /\ Nil \notin Args(E)
      /\ Spelled(E, inner)
  BY DEF Rereading, Reading, Apart
<1>2. m \in Members /\ m # Nil
  BY <1>1 DEF Restrictions
<1>3. Restriction(ts, item, p) = Compared(ts, item, r)
  BY DEF Restriction
<1>4. KindAt(ts, q) \notin MemberStops /\ KindAt(ts, q) # "COMPARATOR"
  BY DEF TermStops, MemberStops
<1>5. CASE x.arg = Nil
  <2>1. x = [comparable |-> m, comparator |-> Nil, arg |-> Nil]
    BY <1>1, <1>5 DEF Restrictions
  <2>2. RestrictionText(E, inner)[x] = MemberText[m]
    BY <1>2, <1>5 DEF RestrictionText, WrittenRestriction, MemberText
  <2> HIDE DEF m
  <2>3. r = Got(m, q)
    BY <1>1, <1>2, <1>4, <2>2, MemberFinds
  <2>4. r.node = m /\ r.at = q
    BY <2>3 DEF Got
  <2> HIDE DEF r
  <2>5. Compared(ts, item, r) = Got([comparable |-> m, comparator |-> Nil, arg |-> Nil], q)
    BY <1>2, <1>4, <2>4 DEF Compared
  <2>6. QED BY <1>3, <2>1, <2>5
<1>6. CASE x.arg # Nil
  <2> DEFINE g == x.arg
             k == x.comparator
             a == MemberText[m]
             b == <<k>>
             c == a \o b
             d == ArgText(E, inner)[g]
  <2>1. g \in Args(E) /\ k \in Comparators /\ x = [comparable |-> m, comparator |-> k, arg |-> g]
    BY <1>6 DEF Restrictions
  <2>2. RestrictionText(E, inner)[x] = c \o d
    BY <1>2, <1>6, <2>1 DEF RestrictionText, WrittenRestriction, MemberText, ArgText
  <2>3. a \in Seq(Tokens) /\ b \in Seq(Tokens) /\ d \in Seq(Tokens) /\ k.kind = "COMPARATOR"
    <3>1. Text(a, WordKinds) /\ Text(d, SimpleKinds)
      BY <1>1, <1>2, <2>1, MemberStarts, ArgStarts DEF Starts
    <3>2. k \in Tokens /\ k.kind = "COMPARATOR"
      BY <2>1 DEF Tokens, Comparators
    <3>3. QED BY <3>1, <3>2 DEF Text
  <2>4. Covers(ts, p, q, c \o d)
    BY <2>2
  <2> HIDE DEF m, g, k, a, b, d
  <2>5. c \in Seq(Tokens)
    BY <2>3, ConcatProperties
  <2> HIDE DEF c
  <2>6. Splits(ts, p, q, c, d)
    BY <1>1, <2>3, <2>4, <2>5, CoversSplit
  <2>7. PICK u \in Position(ts) : p <= u /\ u <= q /\ Covers(ts, p, u, c) /\ Covers(ts, u, q, d)
    BY <2>6 DEF Splits
  <2>8. Splits(ts, p, u, a, b)
    <3>1. Covers(ts, p, u, a \o b)
      BY <2>7 DEF c
    <3>2. QED BY <1>1, <2>3, <2>7, <3>1, CoversSplit
  <2>9. PICK v \in Position(ts) : p <= v /\ v <= u /\ Covers(ts, p, v, a) /\ Covers(ts, v, u, b)
    BY <2>8 DEF Splits
  <2>10. u = v + 1 /\ ts[v] = k /\ KindAt(ts, v) = "COMPARATOR"
    <3>1. Covers(ts, v, u, <<k>>)
      BY <2>9 DEF b
    <3>2. QED BY <1>1, <2>3, <2>9, <3>1, CoversToken
  <2>11. r = Got(m, v)
    <3>1. KindAt(ts, v) \notin MemberStops
      BY <2>10 DEF MemberStops
    <3>2. Covers(ts, p, v, MemberText[m])
      BY <2>9 DEF a
    <3>3. QED BY <1>1, <1>2, <2>9, <3>1, <3>2, MemberFinds
  <2>12. Arg(ts, item, u) = Got(g, q)
    <3>1. Covers(ts, u, q, ArgText(E, inner)[g])
      BY <2>7 DEF d
    <3>2. QED BY <1>4, <2>1, <2>7, <3>1, ArgFinds
  <2> DEFINE s == Arg(ts, item, u)
  <2>13. r.node = m /\ r.at = v /\ s.node = g /\ s.at = q /\ g # Nil /\ Required(s) = s
    <3>1. s.node = g /\ s.at = q /\ g # Nil
      BY <1>1, <2>1, <2>12 DEF Got
    <3>2. QED BY <2>11, <3>1 DEF Got, Required
  <2>14. Compared(ts, item, r) =
           IF Required(s).node = Nil THEN Required(s)
           ELSE Got([comparable |-> m, comparator |-> k, arg |-> Required(s).node], Required(s).at)
    <3> HIDE DEF r
    <3>1. QED BY <1>2, <2>10, <2>13 DEF Compared, Build
  <2> HIDE DEF s, r
  <2>15. QED BY <1>3, <2>1, <2>13, <2>14
<1>7. QED BY <1>5, <1>6

LEMMA SimpleFinds ==
  ASSUME NEW ts, NEW E, NEW inner, NEW item, Rereading(ts, item, E, inner),
         NEW x \in Simples(E),
         NEW p \in Position(ts), NEW q \in Position(ts), p <= q,
         Covers(ts, p, q, SimpleText(E, inner)[x]), KindAt(ts, q) \notin TermStops
  PROVE  Simple(ts, item, p) = Got(x, q)
<1> DEFINE r == Restriction(ts, item, p)
           s == Composite(ts, item, p)
           a == IF r.node = Nil THEN r ELSE Got([restriction |-> r.node, composite |-> Nil], r.at)
           b == IF s.node = Nil THEN s ELSE Got([restriction |-> Nil, composite |-> s.node], s.at)
<1>1. ts \in Seq(Tokens) /\ Apart(E)
  BY DEF Rereading, Reading
<1>2. Simple(ts, item, p) = OrElse(a, b)
  BY DEF Simple, Build
<1>3. CASE x \in [restriction : Restrictions(E), composite : {Nil}]
  <2> DEFINE y == x.restriction
  <2>1. y \in Restrictions(E) /\ y # Nil /\ x = [restriction |-> y, composite |-> Nil]
    BY <1>1, <1>3 DEF Apart
  <2>2. SimpleText(E, inner)[x] = RestrictionText(E, inner)[y]
    BY <2>1 DEF SimpleText, WrittenSimple, RestrictionText
  <2> HIDE DEF y
  <2>3. r = Got(y, q)
    BY <1>1, <2>1, <2>2, RestrictionFinds DEF Apart
  <2>4. r.node = y /\ r.at = q
    BY <2>3 DEF Got
  <2> HIDE DEF r
  <2>5. a = Got(x, q)
    BY <2>1, <2>4
  <2> HIDE DEF a
  <2>6. a.node = x /\ x # Nil
    BY <1>1, <2>5 DEF Got, Apart
  <2>7. QED BY <1>2, <2>5, <2>6 DEF OrElse
<1>4. CASE x \in [restriction : {Nil}, composite : E]
  <2> DEFINE e == x.composite
  <2>1. e \in E /\ e # Nil /\ x = [restriction |-> Nil, composite |-> e] /\ x.restriction = Nil
    BY <1>1, <1>4 DEF Apart
  <2>2. SimpleText(E, inner)[x] = ParensText(E, inner)[e]
    BY <2>1 DEF SimpleText, WrittenSimple, ParensText
  <2> HIDE DEF e
  <2>3. s = Got(e, q) /\ KindAt(ts, p) = "LPAREN"
    BY <2>1, <2>2, CompositeFinds
  <2>4. r = Absent(p)
    BY <2>3, MethodsLack DEF WordKinds
  <2>5. s.node = e /\ s.at = q /\ r.node = Nil /\ r.failed = FALSE
    BY <2>3, <2>4 DEF Got, Absent
  <2> HIDE DEF r, s
  <2>6. a = r /\ b = Got(x, q)
    BY <2>1, <2>5
  <2> HIDE DEF a, b
  <2>7. QED BY <1>2, <2>5, <2>6 DEF OrElse
<1>5. QED BY <1>3, <1>4 DEF Simples

LEMMA TermFinds ==
  ASSUME NEW ts, NEW E, NEW inner, NEW item, Rereading(ts, item, E, inner),
         NEW x \in Terms(E), NEW p \in Position(ts), NEW q \in Position(ts), p <= q,
         Covers(ts, p, q, TermText(E, inner)[x]), KindAt(ts, q) \notin TermStops
  PROVE  Term(ts, item, p) = Got(x, q)
<1> DEFINE y == x.simple
           b == SimpleText(E, inner)[y]
<1>1. /\ ts \in Seq(Tokens) /\ Nil \notin Members /\ Nil \notin Args(E)
      /\ Nil \notin Restrictions(E) /\ Nil \notin Simples(E) /\ Spelled(E, inner)
  BY DEF Rereading, Reading, Apart
<1>2. y \in Simples(E) /\ y # Nil /\ x.negated \in BOOLEAN
      /\ x = [negated |-> x.negated, simple |-> y]
  BY <1>1 DEF Terms
<1>3. Text(b, SimpleKinds)
  BY <1>1, <1>2, SimpleStarts DEF Starts
<1>4. TermText(E, inner)[x] = IF x.negated THEN Mark("NEGATE") \o b ELSE b
  BY <1>2 DEF TermText, WrittenTerm, SimpleText
<1>5. CASE ~ x.negated
  <2>1. Covers(ts, p, q, b)
    BY <1>4, <1>5
  <2>2. KindAt(ts, p) # "NEGATE"
    <3> HIDE DEF b
    <3>1. KindAt(ts, p) \in SimpleKinds
      BY <1>1, <1>3, <2>1, CoversFirst
    <3>2. QED BY <3>1 DEF SimpleKinds
  <2> DEFINE r == Simple(ts, item, p)
  <2>3. r = Got(y, q)
    <3> HIDE DEF y
    <3>1. QED BY <1>2, <2>1, SimpleFinds
  <2>4. Term(ts, item, p) =
          IF r.node = Nil THEN r ELSE Got([negated |-> FALSE, simple |-> r.node], r.at)
    BY <2>2 DEF Term, Build
  <2>5. r.node = y /\ r.at = q
    BY <2>3 DEF Got
  <2> HIDE DEF r, y
  <2>6. QED BY <1>2, <1>5, <2>4, <2>5
<1>6. CASE x.negated
  <2> DEFINE a == Mark("NEGATE")
  <2>1. Covers(ts, p, q, a \o b)
    BY <1>4, <1>6
  <2>2. a \in Seq(Tokens) /\ b \in Seq(Tokens)
    BY <1>3, MarkType DEF Text, Marks
  <2> HIDE DEF a, b
  <2>3. Splits(ts, p, q, a, b)
    BY <1>1, <2>1, <2>2, CoversSplit
  <2>4. PICK u \in Position(ts) : p <= u /\ u <= q /\ Covers(ts, p, u, a) /\ Covers(ts, u, q, b)
    BY <2>3 DEF Splits
  <2>5. u = p + 1 /\ KindAt(ts, p) = "NEGATE"
    BY <1>1, <2>4, CoversMark DEF a
  <2> DEFINE s == Simple(ts, item, u)
  <2>6. s = Got(y, q)
    <3>1. Covers(ts, u, q, SimpleText(E, inner)[y])
      BY <2>4 DEF b
    <3> HIDE DEF y
    <3>2. QED BY <1>2, <2>4, <3>1, SimpleFinds
  <2>7. Term(ts, item, p) =
          IF Required(s).node = Nil THEN Required(s)
          ELSE Got([negated |-> TRUE, simple |-> Required(s).node], Required(s).at)
    BY <2>5 DEF Term, Build
  <2>8. s.node = y /\ s.at = q /\ Required(s) = s
    <3>1. s.node = y /\ s.at = q
      BY <2>6 DEF Got
    <3>2. QED BY <1>2, <3>1 DEF Required
  <2> HIDE DEF s, y
  <2>9. QED BY <1>2, <1>6, <2>7, <2>8
<1>7. QED BY <1>2, <1>5, <1>6

LEMMA FactorFinds ==
  ASSUME NEW ts, NEW E, NEW inner, NEW item, Rereading(ts, item, E, inner),
         NEW x \in Factors(E), NEW p \in Position(ts), NEW q \in Position(ts), p <= q,
         Covers(ts, p, q, FactorText(E, inner)[x]), KindAt(ts, q) \notin FactorStops
  PROVE  Factor(ts, item, p) = Got(x, q)
<1> DEFINE items == [u \in Position(ts) |-> Term(ts, item, u)]
           N == Terms(E)
           w == TermText(E, inner)
<1>1. ts \in Seq(Tokens) /\ Nil \notin N /\ Reading(ts, item, E, inner)
  BY DEF Rereading, Reading, Apart
<1>2. Starts(N, w, TermKinds)
  BY TermStarts, ListStarts DEF Rereading, Reading, Apart
<1>3. \A u \in Position(ts) : Gives(ts, items[u], u, N, w)
  BY <1>1, TermGives
<1>4. Finds(ts, items, N, w, TermStops)
  BY TermFinds DEF Finds
<1>5. Factor(ts, item, p) = List(ts, "OR", items, p)
  BY DEF Factor
<1>6. x \in Lists(N) /\ Covers(ts, p, q, ListsText(N, w, Mark("OR"))[x])
  BY ListsAre DEF Factors
<1> HIDE DEF items, N, w
<1>7. "OR" \in Marks /\ "OR" \notin TermStops /\ KindAt(ts, q) \notin TermStops \cup {"OR"}
  BY DEF Marks, TermStops, FactorStops, SequenceStops, ExpressionStops, TermKinds
<1>8. List(ts, "OR", items, p) = Got(x, q)
  BY <1>1, <1>2, <1>3, <1>4, <1>6, <1>7, ListFinds
<1>9. QED BY <1>5, <1>8

LEMMA SequenceFinds ==
  ASSUME NEW ts, NEW E, NEW inner, NEW item, Rereading(ts, item, E, inner),
         NEW x \in Sequences(E), NEW p \in Position(ts), NEW q \in Position(ts), p <= q,
         Covers(ts, p, q, SequenceText(E, inner)[x]), KindAt(ts, q) \notin SequenceStops
  PROVE  Sequence(ts, item, p) = Got(x, q)
<1> DEFINE items == [u \in Position(ts) |-> Factor(ts, item, u)]
           N == Factors(E)
           w == FactorText(E, inner)
           r == Repeated(items, p)
<1>1. ts \in Seq(Tokens) /\ Nil \notin N /\ Reading(ts, item, E, inner)
  BY DEF Rereading, Reading, Apart
<1>2. Starts(N, w, TermKinds) /\ Spelled(N, w)
  BY ListStarts, StartsSpelled DEF Rereading, Reading, Apart
<1>3. DOMAIN items = Position(ts) /\ \A u \in Position(ts) : Gives(ts, items[u], u, N, w)
  BY <1>1, FactorGives
<1>4. Finds(ts, items, N, w, FactorStops) /\ Lacks(ts, items, TermKinds)
  BY FactorFinds, MethodsLack DEF Finds, Lacks
<1>5. Sequence(ts, item, p) = NonEmpty(r)
  BY DEF Sequence
<1>6. x \in Lists(N) /\ Covers(ts, p, q, ListsText(N, w, <<>>)[x])
  BY ListsAre DEF Sequences
<1> HIDE DEF items, N, w
<1>7. \A u \in Position(ts) : Reads(ts, items[u], u, N, w, <<>>)
  BY <1>2, <1>3, BareReads
<1>8. Advances(items, Len(ts) + 1)
  BY <1>1, <1>2, <1>3, <1>7, EmptySeq, RepeatedReads
<1>9. Takes(ts, items, N, w, <<>>, FactorStops)
  <2>1. ASSUME NEW y \in N, NEW u \in Position(ts), NEW v \in Position(ts), u <= v,
               Between(ts, u, v, <<>>, w[y]), KindAt(ts, v) \notin FactorStops
        PROVE  items[u] = Got(y, v)
    <3>1. w[y] \in Seq(Tokens)
      BY <1>2 DEF Spelled
    <3>2. Covers(ts, u, v, w[y])
      BY <2>1, <3>1, CoversEmpty
    <3>3. QED BY <1>4, <2>1, <3>2 DEF Finds
  <2>2. QED BY <2>1, Zenon DEF Takes
<1>10. Leads(N, w, <<>>, TermKinds)
  <2>1. ASSUME NEW a, Text(a, TermKinds)
        PROVE  Text(<<>> \o a, TermKinds)
    <3>1. <<>> \o a = a
      BY <2>1, ConcatEmptySeq DEF Text
    <3>2. QED BY <2>1, <3>1
  <2>2. Starts(Lists(N), ListsText(N, w, <<>>), TermKinds)
    BY <1>2, EmptySeq, StartsLists
  <2>3. \A y \in N : Text(w[y], TermKinds)
    BY <1>2 DEF Starts
  <2>4. \A ys \in Lists(N) : Text(ListText(ys, w, <<>>), TermKinds)
    BY <2>2 DEF Starts, ListsText
  <2>5. QED BY <2>1, <2>3, <2>4, Zenon DEF Leads
<1>11. TermKinds \cap FactorStops = {}
  BY DEF TermKinds, FactorStops
<1>12. Runs(ts, r, p, N, w, <<>>, FactorStops \cup TermKinds)
  BY <1>1, <1>2, <1>4, <1>8, <1>9, <1>10, <1>11, EmptySeq, RepeatedFinds
<1>13. /\ x \in Seq(N) /\ x # <<>> /\ KindAt(ts, q) \notin FactorStops \cup TermKinds
       /\ Between(ts, p, q, <<>>, ListText(x, w, <<>>))
  <2>1. x \in Seq(N) /\ x # <<>> /\ Covers(ts, p, q, ListText(x, w, <<>>))
    BY <1>6 DEF Lists, ListsText
  <2>2. ListText(x, w, <<>>) \in Seq(Tokens)
    BY <1>2, <2>1, EmptySeq, ListTextType
  <2>3. QED BY <2>1, <2>2, CoversEmpty DEF SequenceStops
<1> HIDE DEF r
<1>14. r = Got(x, q)
  BY <1>12, <1>13, Zenon DEF Runs
<1>15. NonEmpty(r) = Got(x, q)
  BY <1>13, <1>14 DEF NonEmpty, Got
<1>16. QED BY <1>5, <1>15

LEMMA ExpressionFinds ==
  ASSUME NEW ts, NEW E, NEW inner, NEW item, Rereading(ts, item, E, inner),
         NEW x \in Lists(Sequences(E)), NEW p \in Position(ts), NEW q \in Position(ts), p <= q,
         Covers(ts, p, q, ExpressionText(E, inner)[x]), KindAt(ts, q) \notin ExpressionStops
  PROVE  Expression(ts, item, p) = Got(x, q)
<1> DEFINE items == [u \in Position(ts) |-> Sequence(ts, item, u)]
           N == Sequences(E)
           w == SequenceText(E, inner)
<1>1. ts \in Seq(Tokens) /\ Nil \notin N /\ Reading(ts, item, E, inner)
  BY DEF Rereading, Reading, Apart
<1>2. Starts(N, w, TermKinds)
  BY TermStarts, ListStarts DEF Rereading, Reading, Apart
<1>3. \A u \in Position(ts) : Gives(ts, items[u], u, N, w)
  BY <1>1, SequenceGives
<1>4. Finds(ts, items, N, w, SequenceStops)
  BY SequenceFinds DEF Finds
<1>5. Expression(ts, item, p) = List(ts, "AND", items, p)
  BY DEF Expression
<1>6. x \in Lists(N) /\ Covers(ts, p, q, ListsText(N, w, Mark("AND"))[x])
  BY ListsAre
<1> HIDE DEF items, N, w
<1>7. "AND" \in Marks /\ "AND" \notin SequenceStops /\ KindAt(ts, q) \notin SequenceStops \cup {"AND"}
  BY DEF Marks, TermStops, FactorStops, SequenceStops, ExpressionStops, TermKinds
<1>8. List(ts, "AND", items, p) = Got(x, q)
  BY <1>1, <1>2, <1>3, <1>4, <1>6, <1>7, ListFinds
<1>9. QED BY <1>5, <1>8

\* At every depth the parser finds what is written.
LEMMA ParsedFinds ==
  ASSUME NEW ts, ts \in Seq(Tokens), NEW f, NEW g,
         \A m \in 0 .. MaxDepth : f[m] = [x \in Nested[m] |-> WrittenExpression(x, f[m - 1])],
         \A m \in 0 .. MaxDepth :
           g[m] = [p \in Position(ts) |-> IF m = 0 THEN Failed ELSE Expression(ts, g[m - 1], p)]
  PROVE  Finds(ts, g[MaxDepth], Nested[MaxDepth], f[MaxDepth], ExpressionStops)
<1> DEFINE S == {m \in 0 .. MaxDepth : /\ Sound(ts, g[m], Nested[m], f[m])
                                       /\ Finds(ts, g[m], Nested[m], f[m], ExpressionStops)}
<1>1. MaxDepth \in Nat /\ MaxDepth <= MaxDepth
  BY LanguageAssumption
<1>2. 0 \in S
  <2>1. 0 \in 0 .. MaxDepth
    BY <1>1
  <2>2. \A p \in Position(ts) : g[0][p] = Failed
    BY <2>1
  <2>3. Nested[0] = {}
    BY NestedIs
  <2>4. QED BY <2>1, <2>2, <2>3 DEF Sound, Gives, Finds
<1>3. ASSUME NEW m \in 0 .. MaxDepth, m # MaxDepth, m \in S PROVE m + 1 \in S
  <2> DEFINE E == Nested[m]
             inner == f[m]
             item == g[m]
             k == m + 1
  <2>1. k \in 0 .. MaxDepth /\ k # 0 /\ k - 1 = m
    BY <1>1, <1>3
  <2>2. /\ Spelled(E, inner) /\ Apart(E) /\ Sound(ts, item, E, inner)
        /\ Finds(ts, item, E, inner, ExpressionStops)
    BY <1>1, <1>3, WrittenStarts, ApartNested
  <2>3. Reading(ts, item, E, inner) /\ Rereading(ts, item, E, inner)
    BY <2>2 DEF Reading, Rereading
  <2>4. Nested[k] = Lists(Sequences(E))
    BY <2>1, NestedIs
  <2>5. f[k] = ExpressionText(E, inner)
    BY <2>1, <2>4 DEF ExpressionText
  <2>6. \A p \in Position(ts) : g[k][p] = Expression(ts, item, p)
    <3>1. g[k] = [p \in Position(ts) |->
                    IF k = 0 THEN Failed ELSE Expression(ts, g[k - 1], p)]
      BY <2>1, Zenon
    <3>2. QED BY ONLY <2>1, <3>1
  <2>7. \A p \in Position(ts) :
          Gives(ts, Expression(ts, item, p), p, Lists(Sequences(E)), ExpressionText(E, inner))
    BY <2>3, ExpressionGives
  <2>8. Sound(ts, g[k], Nested[k], f[k])
    BY <2>4, <2>5, <2>6, <2>7 DEF Sound
  <2>9. Finds(ts, g[k], Nested[k], f[k], ExpressionStops)
    <3>1. ASSUME NEW x \in Lists(Sequences(E)), NEW p \in Position(ts), NEW q \in Position(ts),
                 p <= q, Covers(ts, p, q, ExpressionText(E, inner)[x]),
                 KindAt(ts, q) \notin ExpressionStops
          PROVE  Expression(ts, item, p) = Got(x, q)
      <4> HIDE DEF E, inner, item
      <4>1. QED BY <2>3, <3>1, ExpressionFinds
    <3> HIDE DEF E, inner, item, k
    <3>2. QED BY ONLY <2>4, <2>5, <2>6, <3>1 DEF Finds
  <2>10. QED BY <2>1, <2>8, <2>9
<1> HIDE DEF S
<1>4. \A m \in 0 .. MaxDepth : m \in S
  BY <1>1, <1>2, <1>3, UpTo
<1>5. MaxDepth \in 0 .. MaxDepth
  BY <1>1
<1>6. QED BY <1>4, <1>5 DEF S

LEMMA WrittenIsText ==
  ASSUME NEW e \in Expressions
  PROVE  Text(Written(e), TermKinds)
<1>1. PICK f : /\ \A x : Written(x) = f[MaxDepth][x]
               /\ \A m \in 0 .. MaxDepth :
                    f[m] = [x \in Nested[m] |-> WrittenExpression(x, f[m - 1])]
  BY WrittenIs
<1>2. MaxDepth \in Nat /\ MaxDepth <= MaxDepth /\ MaxDepth \in 0 .. MaxDepth
  BY LanguageAssumption
<1>3. Starts(Nested[MaxDepth], f[MaxDepth], TermKinds)
  BY <1>1, <1>2, WrittenStarts
<1>4. QED BY <1>1, <1>3 DEF Starts, Expressions

\* Every tree, when written down, is accepted and read as that tree: the parser,
\* which looks one token ahead, never takes the wrong branch.
THEOREM ParserComplete ==
  ASSUME NEW e \in Expressions
  PROVE  /\ Written(e) \in Seq(Tokens)
         /\ ~ ParseFilter(Written(e)).failed /\ ParseFilter(Written(e)).node = e
<1>1. PICK f : /\ \A x : Written(x) = f[MaxDepth][x]
               /\ \A m \in 0 .. MaxDepth :
                    f[m] = [x \in Nested[m] |-> WrittenExpression(x, f[m - 1])]
  BY WrittenIs
<1> DEFINE ts == Written(e)
<1>2. Text(ts, TermKinds)
  BY WrittenIsText
<1>3. ts \in Seq(Tokens) /\ ts # <<>> /\ ts = f[MaxDepth][e] /\ e \in Nested[MaxDepth]
  BY <1>1, <1>2 DEF Text, Expressions
<1> HIDE DEF ts
<1>4. PICK g : /\ Parsed(ts) = g[MaxDepth]
               /\ \A m \in 0 .. MaxDepth :
                    g[m] = [p \in Position(ts) |->
                              IF m = 0 THEN Failed ELSE Expression(ts, g[m - 1], p)]
  BY ParsedIs
<1> DEFINE r == Parsed(ts)[1]
           q == Len(ts) + 1
<1>5. Finds(ts, g[MaxDepth], Nested[MaxDepth], f[MaxDepth], ExpressionStops)
  <2>1. ts \in Seq(Tokens)
    BY <1>3
  <2>2. \A m \in 0 .. MaxDepth : f[m] = [x \in Nested[m] |-> WrittenExpression(x, f[m - 1])]
    BY <1>1
  <2>3. \A m \in 0 .. MaxDepth :
          g[m] = [p \in Position(ts) |-> IF m = 0 THEN Failed ELSE Expression(ts, g[m - 1], p)]
    BY <1>4
  <2>4. QED BY ONLY <2>1, <2>2, <2>3, ParsedFinds, Zenon
<1>6. Len(ts) \in Nat /\ 1 \in Position(ts) /\ q \in Position(ts) /\ 1 <= q
  BY <1>3, Positions DEF Position
<1>7. KindAt(ts, q) = "END"
  BY <1>6 DEF KindAt
<1>8. "END" \notin ExpressionStops
  BY DEF ExpressionStops, SequenceStops, FactorStops, TermKinds
<1>9. Covers(ts, 1, q, f[MaxDepth][e])
  BY <1>3, CutAll DEF Covers
<1> HIDE DEF q
<1>10. g[MaxDepth][1] = Got(e, q)
  BY <1>3, <1>5, <1>6, <1>7, <1>8, <1>9 DEF Finds
<1>11. r = Got(e, q)
  BY <1>4, <1>10
<1>12. r.failed = FALSE /\ r.node = e /\ r.at = q
  BY <1>11 DEF Got
<1>13. ParseFilter(ts) = Ended(ts, r)
  BY <1>3 DEF ParseFilter
<1> HIDE DEF r
<1>14. ParseFilter(ts) = r
  BY <1>7, <1>12, <1>13 DEF Ended
<1>15. QED BY <1>3, <1>12, <1>14 DEF ts
\* The function of MatchMemTableItem, up to depth n.
Matches(f, item, n) ==
  f = [m \in 0 .. n |-> [e \in Nested[m] |-> MatchExpression(e, item, f[m - 1])]]

LEMMA MatchesExists ==
  ASSUME NEW n \in Nat, NEW item
  PROVE  \E f : Matches(f, item, n)
<1> DEFINE Good(m) == \E f : Matches(f, item, m)
           S == {m \in 0 .. n : Good(m)}
           To(f, m) == [e \in Nested[m] |-> MatchExpression(e, item, f[m - 1])]
<1>0. n \in Nat
  OBVIOUS
<1>1. Good(0)
  <2> DEFINE f == [m \in 0 .. 0 |-> To(<<>>, m)]
  <2>1. f = [m \in 0 .. 0 |-> To(f, m)]
    BY NestedIs
  <2>2. QED BY <2>1 DEF Matches
<1>2. ASSUME NEW m \in 0 .. n, m # n, Good(m) PROVE Good(m + 1)
  <2>1. PICK f : f = [k \in 0 .. m |-> To(f, k)]
    BY <1>2 DEF Matches
  <2> DEFINE g == [k \in 0 .. m + 1 |-> To(f, k)]
  <2>2. \A k \in 0 .. m : f[k] = To(f, k)
    BY <2>1, Zenon
  <2>3. \A k \in 0 .. m : g[k] = f[k]
    <3>1. \A k \in 0 .. m : k \in 0 .. m + 1
      BY <1>0
    <3>2. QED BY <2>2, <3>1, Zenon
  <2>4. \A k \in 0 .. m + 1 : k = 0 \/ k - 1 \in 0 .. m
    BY <1>0
  <2> HIDE DEF g
  <2>5. \A k \in 0 .. m + 1 : To(f, k) = To(g, k)
    <3>1. To(f, 0) = To(g, 0)
      BY NestedIs
    <3>2. QED BY <2>3, <2>4, <3>1, Zenon
  <2>6. g = [k \in 0 .. m + 1 |-> To(g, k)]
    BY <2>5, Zenon DEF g
  <2>7. QED BY <2>6 DEF Matches
<1> HIDE DEF Good
<1>3. 0 \in S /\ \A m \in 0 .. n : m # n /\ m \in S => m + 1 \in S
  BY <1>0, <1>1, <1>2
<1> HIDE DEF S
<1>4. \A m \in 0 .. n : m \in S
  BY <1>0, <1>3, UpTo
<1>5. QED BY <1>0, <1>4 DEF Good, S

\* The function of EvalFilter, up to depth n.
Evaluates(f, n) ==
  f = [m \in 0 .. n |-> [e \in Nested[m] |-> [jx \in Index |-> EvalExpression(e, jx, f[m - 1])]]]

LEMMA EvaluatesExists ==
  ASSUME NEW n \in Nat
  PROVE  \E f : Evaluates(f, n)
<1> DEFINE Good(m) == \E f : Evaluates(f, m)
           S == {m \in 0 .. n : Good(m)}
           To(f, m) == [e \in Nested[m] |-> [jx \in Index |-> EvalExpression(e, jx, f[m - 1])]]
<1>0. n \in Nat
  OBVIOUS
<1>1. Good(0)
  <2> DEFINE f == [m \in 0 .. 0 |-> To(<<>>, m)]
  <2>1. f = [m \in 0 .. 0 |-> To(f, m)]
    BY NestedIs
  <2>2. QED BY <2>1 DEF Evaluates
<1>2. ASSUME NEW m \in 0 .. n, m # n, Good(m) PROVE Good(m + 1)
  <2>1. PICK f : f = [k \in 0 .. m |-> To(f, k)]
    BY <1>2 DEF Evaluates
  <2> DEFINE g == [k \in 0 .. m + 1 |-> To(f, k)]
  <2>2. \A k \in 0 .. m : f[k] = To(f, k)
    BY <2>1, Zenon
  <2>3. \A k \in 0 .. m : g[k] = f[k]
    <3>1. \A k \in 0 .. m : k \in 0 .. m + 1
      BY <1>0
    <3>2. QED BY <2>2, <3>1, Zenon
  <2>4. \A k \in 0 .. m + 1 : k = 0 \/ k - 1 \in 0 .. m
    BY <1>0
  <2> HIDE DEF g
  <2>5. \A k \in 0 .. m + 1 : To(f, k) = To(g, k)
    <3>1. To(f, 0) = To(g, 0)
      BY NestedIs
    <3>2. QED BY <2>3, <2>4, <3>1, Zenon
  <2>6. g = [k \in 0 .. m + 1 |-> To(g, k)]
    BY <2>5, Zenon DEF g
  <2>7. QED BY <2>6 DEF Evaluates
<1> HIDE DEF Good
<1>3. 0 \in S /\ \A m \in 0 .. n : m # n /\ m \in S => m + 1 \in S
  BY <1>0, <1>1, <1>2
<1> HIDE DEF S
<1>4. \A m \in 0 .. n : m \in S
  BY <1>0, <1>3, UpTo
<1>5. QED BY <1>0, <1>4 DEF Good, S

\* The function of Loop, for the first n operands.
Sums(f, op, operands, ix, n) ==
  f = [m \in 0 .. n |-> IF m = 0 THEN Evaluated(Nil, ix)
                    ELSE LET r == f[m - 1]
                         IN IF r.failed THEN r ELSE Combine(op, r, operands[m][r.ix])]

LEMMA SumsExists ==
  ASSUME NEW n \in Nat, NEW op, NEW operands, NEW ix
  PROVE  \E f : Sums(f, op, operands, ix, n)
<1> DEFINE Good(m) == \E f : Sums(f, op, operands, ix, m)
           S == {m \in 0 .. n : Good(m)}
           To(f, m) == IF m = 0 THEN Evaluated(Nil, ix)
                    ELSE LET r == f[m - 1]
                         IN IF r.failed THEN r ELSE Combine(op, r, operands[m][r.ix])
<1>0. n \in Nat
  OBVIOUS
<1>1. Good(0)
  <2> DEFINE f == [m \in 0 .. 0 |-> To(<<>>, m)]
  <2>1. f = [m \in 0 .. 0 |-> To(f, m)]
    OBVIOUS
  <2>2. QED BY <2>1 DEF Sums
<1>2. ASSUME NEW m \in 0 .. n, m # n, Good(m) PROVE Good(m + 1)
  <2>1. PICK f : f = [k \in 0 .. m |-> To(f, k)]
    BY <1>2 DEF Sums
  <2> DEFINE g == [k \in 0 .. m + 1 |-> To(f, k)]
  <2>2. \A k \in 0 .. m : f[k] = To(f, k)
    BY <2>1, Zenon
  <2>3. \A k \in 0 .. m : g[k] = f[k]
    <3>1. \A k \in 0 .. m : k \in 0 .. m + 1
      BY <1>0
    <3>2. QED BY <2>2, <3>1, Zenon
  <2>4. \A k \in 0 .. m + 1 : k = 0 \/ k - 1 \in 0 .. m
    BY <1>0
  <2> HIDE DEF g
  <2>5. \A k \in 0 .. m + 1 : To(f, k) = To(g, k)
    BY <2>3, <2>4, Zenon
  <2>6. g = [k \in 0 .. m + 1 |-> To(g, k)]
    BY <2>5, Zenon DEF g
  <2>7. QED BY <2>6 DEF Sums
<1> HIDE DEF Good
<1>3. 0 \in S /\ \A m \in 0 .. n : m # n /\ m \in S => m + 1 \in S
  BY <1>0, <1>1, <1>2
<1> HIDE DEF S
<1>4. \A m \in 0 .. n : m \in S
  BY <1>0, <1>3, UpTo
<1>5. QED BY <1>0, <1>4 DEF Good, S


(***************************************************************************)
(* The two evaluators.                                                     *)
(***************************************************************************)

\* What evaluating on ix says of the matches M[q] of the rows: it fails, or
\* every row matches or does not, and the bitmap, a clone, holds those that do;
\* the index is left alone.
Answers(r, ix, M) ==
  \/ r = [failed |-> TRUE, bitmap |-> Nil, ix |-> ix]
  \/ /\ r = Evaluated(Clone({q \in Rows : M[q] = "yes"}), ix)
     /\ \A q \in Rows : M[q] \in {"yes", "no"}

LEMMA AnswersFields ==
  ASSUME NEW r, NEW ix, NEW M, Answers(r, ix, M)
  PROVE  /\ r.ix = ix /\ r.failed \in BOOLEAN
         /\ ~ r.failed =>
              /\ r.bitmap.of = Nil /\ r.bitmap.rows = {q \in Rows : M[q] = "yes"}
              /\ r.bitmap # Nil /\ r.bitmap = Clone({q \in Rows : M[q] = "yes"})
              /\ \A q \in Rows : M[q] \in {"yes", "no"}
<1> DEFINE rows == {q \in Rows : M[q] = "yes"}
<1>1. Clone(rows) # Nil
  <2>1. rows \in SUBSET Rows
    OBVIOUS
  <2> HIDE DEF rows
  <2>2. [of |-> Nil, rows |-> rows] \in [of : {Nil}, rows : SUBSET Rows]
    BY <2>1
  <2>3. QED BY <2>2, FilterAssumption DEF Clone
<1>2. CASE r = [failed |-> TRUE, bitmap |-> Nil, ix |-> ix]
  BY <1>2
<1>3. CASE r = Evaluated(Clone(rows), ix) /\ \A q \in Rows : M[q] \in {"yes", "no"}
  <2> HIDE DEF rows
  <2>1. r.ix = ix /\ r.failed = FALSE /\ r.bitmap = Clone(rows)
    BY <1>3 DEF Evaluated
  <2>2. r.bitmap.of = Nil /\ r.bitmap.rows = rows
    BY <2>1 DEF Clone
  <2>3. QED BY <1>1, <1>3, <2>1, <2>2 DEF rows
<1>4. QED BY <1>2, <1>3 DEF Answers

\* Of results that are matches, the first other one than r is the other one.
LEMMA FirstOtherIs ==
  ASSUME NEW n \in Nat, NEW results, DOMAIN results = 1 .. n,
         \A k \in 1 .. n : results[k] \in {"yes", "no"}
  PROVE  /\ FirstOther("yes", results) \in {"yes", "no"}
         /\ FirstOther("no", results) \in {"yes", "no"}
         /\ FirstOther("yes", results) = "yes" <=> \A k \in 1 .. n : results[k] = "yes"
         /\ FirstOther("no", results) = "yes" <=> \E k \in 1 .. n : results[k] = "yes"
<1> DEFINE others(r) == {k \in 1 .. n : results[k] # r}
<1>1. ASSUME NEW r, others(r) # {}
      PROVE  FirstOther(r, results) = results[Min(others(r))] /\ Min(others(r)) \in others(r)
  <2>1. others(r) \subseteq Nat
    OBVIOUS
  <2>2. Min(others(r)) \in others(r)
    BY <1>1, <2>1, Minimum
  <2>3. QED BY <1>1, <2>2 DEF FirstOther
<1>2. ASSUME NEW r, others(r) = {}
      PROVE  FirstOther(r, results) = r
  BY <1>2 DEF FirstOther
<1>3. ASSUME NEW r \in {"yes", "no"}
      PROVE  /\ FirstOther(r, results) \in {"yes", "no"}
             /\ FirstOther(r, results) = r <=> \A k \in 1 .. n : results[k] = r
  <2>1. CASE others(r) = {}
    BY <1>2, <2>1
  <2>2. CASE others(r) # {}
    BY <1>1, <2>2
  <2>3. QED BY <2>1, <2>2
<1> HIDE DEF others
<1>4. QED BY <1>3

\* The operands answer for the matches M[k], which make up the matches N.
AllAnswer(operands, n, ix, M) == \A k \in 1 .. n : Answers(operands[k][ix], ix, M[k])
Combines(op, n, M, N) ==
  \A q \in Rows : N[q] = FirstOther(IF op = "AND" THEN "yes" ELSE "no",
                                  [k \in 1 .. n |-> M[k][q]])

\* A loop over operands that answer for the matches M[k] answers for their
\* disjunction or conjunction, as the matchers compute it.
LEMMA LoopAnswers ==
  ASSUME NEW ix, NEW operands, NEW n, n \in Nat, n # 0, Len(operands) = n,
         NEW M, AllAnswer(operands, n, ix, M),
         NEW op, op \in {"AND", "OR"}, NEW N, Combines(op, n, M, N)
  PROVE  Answers(Loop(op, operands, ix), ix, N)
<1> USE DEF AllAnswer, Combines
<1> DEFINE Yes(k, q) == IF op = "AND" THEN \A j \in 1 .. k : M[j][q] = "yes"
                        ELSE \E j \in 1 .. k : M[j][q] = "yes"
           Fails(r) == r = [failed |-> TRUE, bitmap |-> Nil, ix |-> ix]
           Good(r, k) == \/ Fails(r)
                         \/ /\ r = Evaluated(Clone({q \in Rows : Yes(k, q)}), ix)
                            /\ \A j \in 1 .. k, q \in Rows : M[j][q] \in {"yes", "no"}
<1>1. PICK so : Sums(so, op, operands, ix, n)
  BY SumsExists
<1> DEFINE c == CHOOSE f : f = [m \in 0 .. Len(operands) |->
                    IF m = 0 THEN Evaluated(Nil, ix)
                    ELSE LET r == f[m - 1]
                         IN IF r.failed THEN r ELSE Combine(op, r, operands[m][r.ix])]
<1>2. Sums(c, op, operands, ix, n)
  <2>1. \E f : f = [m \in 0 .. Len(operands) |->
                    IF m = 0 THEN Evaluated(Nil, ix)
                    ELSE LET r == f[m - 1]
                         IN IF r.failed THEN r ELSE Combine(op, r, operands[m][r.ix])]
    BY <1>1 DEF Sums
  <2>2. c = [m \in 0 .. Len(operands) |->
                    IF m = 0 THEN Evaluated(Nil, ix)
                    ELSE LET r == c[m - 1]
                         IN IF r.failed THEN r ELSE Combine(op, r, operands[m][r.ix])]
    BY <2>1
  <2> HIDE DEF c
  <2>3. QED BY <2>2 DEF Sums
<1>3. Loop(op, operands, ix) = c[n]
  BY DEF Loop
<1> HIDE DEF c
<1>4. /\ c[0] = Evaluated(Nil, ix)
      /\ \A m \in 1 .. n : c[m] = IF c[m - 1].failed THEN c[m - 1]
                                  ELSE Combine(op, c[m - 1], operands[m][c[m - 1].ix])
  <2>1. \A m \in 0 .. n : c[m] = IF m = 0 THEN Evaluated(Nil, ix)
                                 ELSE IF c[m - 1].failed THEN c[m - 1]
                                 ELSE Combine(op, c[m - 1], operands[m][c[m - 1].ix])
    BY <1>2, Zenon DEF Sums
  <2>2. \A m \in 1 .. n : m \in 0 .. n /\ m # 0
    OBVIOUS
  <2>3. 0 \in 0 .. n
    OBVIOUS
  <2>4. QED BY <2>1, <2>2, <2>3, Zenon
<1>5. Good(c[1], 1)
  <2> DEFINE r == operands[1][ix]
  <2>1. 1 \in 1 .. n
    OBVIOUS
  <2>2. Answers(r, ix, M[1])
    BY <2>1
  <2>3. c[1] = Combine(op, c[0], operands[1][c[0].ix])
    <3>1. c[1 - 1].failed = FALSE
      BY <1>4 DEF Evaluated
    <3>2. QED BY <1>4, <2>1, <3>1
  <2>4. c[0].ix = ix /\ c[0].bitmap = Nil
    BY <1>4 DEF Evaluated
  <2>5. c[1] = r
    BY <2>3, <2>4 DEF Combine
  <2>6. \A q \in Rows : Yes(1, q) <=> M[1][q] = "yes"
    <3>1. \A j \in 1 .. 1 : j = 1
      OBVIOUS
    <3>2. QED BY <2>1, <3>1
  <2> HIDE DEF r, Yes
  <2>7. {q \in Rows : Yes(1, q)} = {q \in Rows : M[1][q] = "yes"}
    BY <2>6
  <2>8. \A j \in 1 .. 1 : j = 1
    OBVIOUS
  <2>9. QED BY <2>2, <2>5, <2>7, <2>8 DEF Answers
<1>6. ASSUME NEW k \in 1 .. n, k # n, Good(c[k], k) PROVE Good(c[k + 1], k + 1)
  <2> DEFINE r == operands[k + 1][ix]
             A == {q \in Rows : Yes(k, q)}
             B == {q \in Rows : M[k + 1][q] = "yes"}
  <2>1. k + 1 \in 1 .. n /\ k + 1 \in Nat /\ (k + 1) - 1 = k
    BY <1>6, NextUpTo, Zenon
  <2>2. Answers(r, ix, M[k + 1])
    BY <2>1
  <2>3. c[k + 1] = IF c[k].failed THEN c[k] ELSE Combine(op, c[k], operands[k + 1][c[k].ix])
    BY <1>4, <2>1
  <2>4. ASSUME Fails(c[k]) PROVE Good(c[k + 1], k + 1)
    BY <2>3, <2>4
  <2>5. ASSUME c[k] = Evaluated(Clone(A), ix), \A j \in 1 .. k, q \in Rows : M[j][q] \in {"yes", "no"}
        PROVE  Good(c[k + 1], k + 1)
    <3> HIDE DEF A, B, r
    <3>1. /\ c[k].failed = FALSE /\ c[k].ix = ix /\ c[k].bitmap = Clone(A)
          /\ c[k].bitmap.rows = A /\ c[k].bitmap.of = Nil
      BY <2>5 DEF Evaluated, Clone
    <3>2. Clone(A) # Nil
      <4>1. A \in SUBSET Rows
        BY DEF A
      <4>2. [of |-> Nil, rows |-> A] \in [of : {Nil}, rows : SUBSET Rows]
        BY <4>1
      <4>3. QED BY <4>2, FilterAssumption DEF Clone
    <3>3. c[k + 1] = Combine(op, c[k], r)
      BY <2>3, <3>1 DEF r
    <3>4. ASSUME r.failed PROVE Fails(c[k + 1])
      <4>1. c[k + 1] = r
        BY <3>3, <3>4 DEF Combine
      <4>2. r.failed # FALSE
        BY <3>4
      <4>3. ASSUME r = Evaluated(Clone(B), ix) PROVE FALSE
        <5>1. r.failed = FALSE
          BY <4>3 DEF Evaluated
        <5>2. QED BY <4>2, <5>1
      <4>4. QED BY <2>2, <4>1, <4>3 DEF Answers, B
    <3>5. ASSUME ~ r.failed
          PROVE  /\ c[k + 1] = Evaluated(Clone(IF op = "AND" THEN A \cap B ELSE A \cup B), ix)
                 /\ \A q \in Rows : M[k + 1][q] \in {"yes", "no"}
      <4>1. /\ r.bitmap.of = Nil /\ r.bitmap.rows = B /\ r.bitmap # Nil /\ r.ix = ix
            /\ \A q \in Rows : M[k + 1][q] \in {"yes", "no"}
        <5> DEFINE Mk == M[k + 1]
        <5>1. Answers(r, ix, Mk) /\ B = {q \in Rows : Mk[q] = "yes"}
          BY <2>2 DEF B
        <5> HIDE DEF Mk
        <5>2. /\ r.ix = ix /\ r.bitmap.of = Nil /\ r.bitmap.rows = {q \in Rows : Mk[q] = "yes"}
              /\ r.bitmap # Nil /\ \A q \in Rows : Mk[q] \in {"yes", "no"}
          <6>1. /\ r.ix = ix /\ r.failed \in BOOLEAN
                /\ ~ r.failed =>
                     /\ r.bitmap.of = Nil /\ r.bitmap.rows = {q \in Rows : Mk[q] = "yes"}
                     /\ r.bitmap # Nil /\ r.bitmap = Clone({q \in Rows : Mk[q] = "yes"})
                     /\ \A q \in Rows : Mk[q] \in {"yes", "no"}
            BY ONLY <5>1, AnswersFields, Zenon
          <6>2. QED BY ONLY <3>5, <6>1, SMT
        <5>3. QED BY <5>1, <5>2 DEF Mk
      <4>2. c[k + 1] = InPlace(c[k], r, IF op = "AND" THEN A \cap B ELSE A \cup B)
        BY <3>1, <3>2, <3>3, <3>5, <4>1 DEF Combine
      <4>3. ASSUME NEW S
            PROVE  InPlace(c[k], r, S) = Evaluated(Clone(S), ix)
        <5>1. [c[k].bitmap EXCEPT !.rows = S] = Clone(S)
          BY <3>1 DEF Clone
        <5>2. QED BY <3>1, <4>1, <5>1 DEF InPlace
      <4>4. QED BY <4>1, <4>2, <4>3
    <3>6. (IF op = "AND" THEN A \cap B ELSE A \cup B) = {q \in Rows : Yes(k + 1, q)}
      <4>1. ASSUME NEW q \in Rows
            PROVE  Yes(k + 1, q) <=> IF op = "AND" THEN Yes(k, q) /\ M[k + 1][q] = "yes"
                                     ELSE Yes(k, q) \/ M[k + 1][q] = "yes"
        <5>1. \A j : j \in 1 .. k + 1 <=> j \in 1 .. k \/ j = k + 1
          OBVIOUS
        <5>2. QED BY <5>1, Zenon
      <4> HIDE DEF Yes
      <4>2. QED BY <4>1 DEF A, B
    <3>7. ASSUME ~ r.failed PROVE Good(c[k + 1], k + 1)
      <4>1. \A j \in 1 .. k + 1 : j \in 1 .. k \/ j = k + 1
        OBVIOUS
      <4>2. \A j \in 1 .. k + 1, q \in Rows : M[j][q] \in {"yes", "no"}
        BY <2>5, <3>5, <3>7, <4>1
      <4> HIDE DEF Yes
      <4>3. QED BY <3>5, <3>6, <3>7, <4>2
    <3>8. QED BY <3>4, <3>7
  <2> HIDE DEF Fails
  <2>6. QED BY <1>6, <2>4, <2>5
<1>7. Good(c[n], n)
  <2> DEFINE S == {k \in 0 .. n : k = 0 \/ Good(c[k], k)}
  <2> HIDE DEF Good
  <2>1. 0 \in S /\ \A k \in 0 .. n : k # n /\ k \in S => k + 1 \in S
    <3>1. ASSUME NEW k \in 0 .. n, k # n, k \in S PROVE k + 1 \in S
      <4>1. k + 1 \in 0 .. n
        BY <3>1, NextUpTo, Zenon
      <4>2. CASE k = 0
        BY <1>5, <4>1, <4>2
      <4>3. CASE k # 0
        <5>1. k \in 1 .. n /\ Good(c[k], k)
          BY <3>1, <4>3
        <5>2. QED BY <1>6, <3>1, <4>1, <5>1
      <4>4. QED BY <4>2, <4>3
    <3>2. QED BY <3>1
  <2> HIDE DEF S
  <2>2. n \in 0 .. n /\ n # 0 /\ n \in Nat
    OBVIOUS
  <2>3. n \in S
    BY <2>1, <2>2, UpTo
  <2>4. QED BY <2>2, <2>3 DEF S
<1>8. ASSUME ~ Fails(c[n])
      PROVE  /\ \A q \in Rows : N[q] \in {"yes", "no"}
             /\ c[n] = Evaluated(Clone({q \in Rows : N[q] = "yes"}), ix)
  <2>1. /\ c[n] = Evaluated(Clone({q \in Rows : Yes(n, q)}), ix)
        /\ \A j \in 1 .. n, q \in Rows : M[j][q] \in {"yes", "no"}
    BY <1>7, <1>8
  <2>2. ASSUME NEW q \in Rows
        PROVE  N[q] \in {"yes", "no"} /\ (N[q] = "yes" <=> Yes(n, q))
    <3> DEFINE results == [k \in 1 .. n |-> M[k][q]]
    <3>1. n \in Nat /\ DOMAIN results = 1 .. n /\ \A k \in 1 .. n : results[k] \in {"yes", "no"}
      BY <2>1
    <3>2. \A k \in 1 .. n : results[k] = M[k][q]
      OBVIOUS
    <3>3. N[q] = FirstOther(IF op = "AND" THEN "yes" ELSE "no", results)
      OBVIOUS
    <3> HIDE DEF results
    <3>4. /\ FirstOther("yes", results) \in {"yes", "no"}
          /\ FirstOther("no", results) \in {"yes", "no"}
          /\ FirstOther("yes", results) = "yes" <=> \A k \in 1 .. n : results[k] = "yes"
          /\ FirstOther("no", results) = "yes" <=> \E k \in 1 .. n : results[k] = "yes"
      BY <3>1, FirstOtherIs
    <3>5. CASE op = "AND"
      BY <3>2, <3>3, <3>4, <3>5
    <3>6. CASE op = "OR"
      BY <3>2, <3>3, <3>4, <3>6
    <3>7. QED BY <3>5, <3>6
  <2> HIDE DEF Yes
  <2>3. {q \in Rows : Yes(n, q)} = {q \in Rows : N[q] = "yes"}
    BY <2>2
  <2>4. QED BY <2>1, <2>2, <2>3
<1>9. QED BY <1>3, <1>8 DEF Answers

\* The index as it is built: of every atom, the rows that have it.
Postings == [a \in AllAtoms |-> {q \in Rows : a \in Atoms(Items[q])}]

\* The evaluators agree on the expressions of E: ev[e] is what e evaluates to,
\* mt[q][e] whether the item of row q matches.
Agree(E, ev, mt) ==
  \A e \in E : Answers(ev[e][Postings], Postings, [q \in Rows |-> mt[q][e]])

LEMMA PostingsInIndex == Postings \in Index
BY DEF Postings, Index

LEMMA RestrictionAnswers ==
  ASSUME NEW r
  PROVE  Answers(EvalRestriction(r, Postings), Postings,
                 [q \in Rows |-> MatchRestriction(r, Items[q])])
<1> DEFINE M == [q \in Rows |-> MatchRestriction(r, Items[q])]
<1>1. CASE Invalid(r)
  <2>1. EvalRestriction(r, Postings) = [failed |-> TRUE, bitmap |-> Nil, ix |-> Postings]
    BY <1>1 DEF EvalRestriction, Evaluated
  <2>2. QED BY <2>1 DEF Answers
<1>2. CASE ~ Invalid(r)
  <2> DEFINE rows == IF Atom(r) \in DOMAIN Postings THEN Postings[Atom(r)] ELSE {}
  <2>1. EvalRestriction(r, Postings) = Evaluated(Clone(rows), Postings)
    BY <1>2 DEF EvalRestriction
  <2>2. ASSUME NEW q \in Rows
        PROVE  M[q] \in {"yes", "no"} /\ (M[q] = "yes" <=> Atom(r) \in Atoms(Items[q]))
    BY <1>2 DEF MatchRestriction
  <2>3. ASSUME NEW q \in Rows, NEW a, a \in Atoms(Items[q])
        PROVE  a \in AllAtoms
    BY <2>3 DEF AllAtoms
  <2>4. DOMAIN Postings = AllAtoms /\
        \A a \in AllAtoms : Postings[a] = {q \in Rows : a \in Atoms(Items[q])}
    BY DEF Postings
  <2> HIDE DEF M
  <2>5. rows = {q \in Rows : M[q] = "yes"}
    <3>1. CASE Atom(r) \in AllAtoms
      <4>1. rows = {q \in Rows : Atom(r) \in Atoms(Items[q])}
        BY <2>4, <3>1
      <4> HIDE DEF rows
      <4>2. QED BY <2>2, <4>1
    <3>2. CASE Atom(r) \notin AllAtoms
      <4>1. rows = {}
        BY <2>4, <3>2
      <4> HIDE DEF rows
      <4>2. QED BY <2>2, <2>3, <3>2, <4>1
    <3>3. QED BY <3>1, <3>2
  <2> HIDE DEF rows
  <2>6. Answers(EvalRestriction(r, Postings), Postings, M)
    BY <2>1, <2>2, <2>5 DEF Answers
  <2>7. QED BY <2>6 DEF M
<1>3. QED BY <1>1, <1>2

LEMMA TermAnswers ==
  ASSUME NEW E, NEW ev, NEW mt, Agree(E, ev, mt), NEW t \in Terms(E)
  PROVE  Answers(EvalTerm(t, Postings, ev), Postings,
                 [q \in Rows |-> MatchTerm(t, Items[q], mt[q])])
<1> DEFINE ix == Postings
           r == IF IsComposite(t) THEN ev[t.simple.composite][ix]
                ELSE EvalRestriction(t.simple.restriction, ix)
           M == [q \in Rows |-> IF IsComposite(t) THEN mt[q][t.simple.composite]
                                ELSE MatchRestriction(t.simple.restriction, Items[q])]
           N == [q \in Rows |-> MatchTerm(t, Items[q], mt[q])]
<1>1. t.negated \in BOOLEAN /\ (IsComposite(t) => t.simple.composite \in E)
  <2>1. t.negated \in BOOLEAN /\ t.simple \in Simples(E)
    BY DEF Terms
  <2>2. QED BY <2>1 DEF Simples, IsComposite
<1>2. Answers(r, ix, M)
  <2>1. CASE IsComposite(t)
    <3>1. M = [q \in Rows |-> mt[q][t.simple.composite]] /\ r = ev[t.simple.composite][ix]
      BY <2>1
    <3> HIDE DEF M, r
    <3>2. QED BY <1>1, <2>1, <3>1 DEF Agree
  <2>2. CASE ~ IsComposite(t)
    <3> DEFINE s == t.simple.restriction
    <3>1. M = [q \in Rows |-> MatchRestriction(s, Items[q])] /\ r = EvalRestriction(s, ix)
      BY <2>2
    <3> HIDE DEF M, r, s
    <3>2. QED BY <3>1, RestrictionAnswers
  <2>3. QED BY <2>1, <2>2
<1>3. EvalTerm(t, ix, ev) = IF r.failed \/ r.bitmap = Nil \/ ~ t.negated THEN r
                            ELSE Evaluated(Clone(Rows \ r.bitmap.rows), r.ix)
  BY DEF EvalTerm
<1>4. \A q \in Rows : N[q] = IF ~ t.negated \/ M[q] = "error" THEN M[q]
                             ELSE IF M[q] = "yes" THEN "no" ELSE "yes"
  BY DEF MatchTerm
<1> HIDE DEF r, M, N, ix
<1>5. ASSUME r = Evaluated(Clone({q \in Rows : M[q] = "yes"}), ix),
             \A q \in Rows : M[q] \in {"yes", "no"}
      PROVE  Answers(EvalTerm(t, ix, ev), ix, N)
  <2>1. /\ r.ix = ix /\ r.failed = FALSE
        /\ r.bitmap # Nil /\ r.bitmap.rows = {q \in Rows : M[q] = "yes"}
    <3>1. r.ix = ix /\ r.failed = FALSE
      BY <1>5 DEF Evaluated
    <3>2. /\ r.ix = ix /\ r.failed \in BOOLEAN
          /\ ~ r.failed =>
               /\ r.bitmap.of = Nil /\ r.bitmap.rows = {q \in Rows : M[q] = "yes"}
               /\ r.bitmap # Nil /\ r.bitmap = Clone({q \in Rows : M[q] = "yes"})
               /\ \A q \in Rows : M[q] \in {"yes", "no"}
      BY ONLY <1>2, AnswersFields, Zenon
    <3>3. QED BY <3>1, <3>2
  <2>2. CASE t.negated
    <3>1. EvalTerm(t, ix, ev) = Evaluated(Clone(Rows \ {q \in Rows : M[q] = "yes"}), ix)
      BY <1>3, <2>1, <2>2
    <3>2. Rows \ {q \in Rows : M[q] = "yes"} = {q \in Rows : N[q] = "yes"}
      BY <1>4, <1>5, <2>2
    <3>3. \A q \in Rows : N[q] \in {"yes", "no"}
      BY <1>4, <1>5, <2>2
    <3>4. QED BY <3>1, <3>2, <3>3 DEF Answers
  <2>3. CASE ~ t.negated
    <3>1. EvalTerm(t, ix, ev) = r
      BY <1>3, <2>3
    <3>2. \A q \in Rows : N[q] = M[q]
      BY <1>4, <2>3
    <3>3. {q \in Rows : M[q] = "yes"} = {q \in Rows : N[q] = "yes"}
      BY <3>2
    <3>4. QED BY <1>5, <3>1, <3>2, <3>3 DEF Answers
  <2>4. QED BY <1>1, <2>2, <2>3
<1>6. Answers(EvalTerm(t, ix, ev), ix, N)
  <2>1. CASE r = [failed |-> TRUE, bitmap |-> Nil, ix |-> ix]
    BY <1>3, <2>1 DEF Answers
  <2>2. QED BY <1>2, <1>5, <2>1 DEF Answers
<1>7. QED BY <1>6 DEF ix, N

LEMMA FactorAnswers ==
  ASSUME NEW E, NEW ev, NEW mt, Agree(E, ev, mt), NEW f \in Factors(E)
  PROVE  Answers(EvalFactor(f, Postings, ev), Postings,
                 [q \in Rows |-> MatchFactor(f, Items[q], mt[q])])
<1> DEFINE op == "OR"
           n == Len(f)
           operands == [k \in DOMAIN f |-> [jx \in Index |-> EvalTerm(f[k], jx, ev)]]
           M == [k \in 1 .. n |-> [q \in Rows |-> MatchTerm(f[k], Items[q], mt[q])]]
           N == [q \in Rows |-> FirstOther(IF op = "AND" THEN "yes" ELSE "no",
                                           [k \in 1 .. n |-> M[k][q]])]
<1>1. n \in Nat /\ n # 0 /\ DOMAIN f = 1 .. n /\ \A k \in 1 .. n : f[k] \in Terms(E)
  BY ListFacts DEF Factors
<1>2. Len(operands) = n
  <2>1. operands = [k \in 1 .. n |-> operands[k]]
    BY <1>1
  <2> HIDE DEF operands, n
  <2>2. QED BY ONLY <1>1, <2>1, SequenceOver
<1>3. ASSUME NEW k \in 1 .. n
      PROVE  Answers(operands[k][Postings], Postings, M[k])
  <2> DEFINE t == f[k]
  <2>1. t \in Terms(E)
    BY <1>1
  <2>2. operands[k][Postings] = EvalTerm(t, Postings, ev)
    BY <1>1, PostingsInIndex
  <2>3. M[k] = [q \in Rows |-> MatchTerm(t, Items[q], mt[q])]
    BY <1>1
  <2> HIDE DEF t, operands, M
  <2>4. Answers(EvalTerm(t, Postings, ev), Postings,
                [q \in Rows |-> MatchTerm(t, Items[q], mt[q])])
    BY <2>1, TermAnswers
  <2>5. QED BY <2>2, <2>3, <2>4
<1>4. EvalFactor(f, Postings, ev) = Loop(op, operands, Postings)
  BY DEF EvalFactor
<1>5. N = [q \in Rows |-> MatchFactor(f, Items[q], mt[q])]
  <2>1. ASSUME NEW q \in Rows
        PROVE  [k \in 1 .. n |-> M[k][q]] = [k \in DOMAIN f |-> MatchTerm(f[k], Items[q], mt[q])]
    BY <1>1
  <2> HIDE DEF M, n
  <2>2. ASSUME NEW q \in Rows
        PROVE  N[q] = MatchFactor(f, Items[q], mt[q])
    BY <2>1, <2>2 DEF MatchFactor
  <2>3. QED BY <2>2
<1> HIDE DEF operands, M, n
<1>6. op \in {"AND", "OR"}
  OBVIOUS
<1> HIDE DEF op
<1>7. Answers(Loop(op, operands, Postings), Postings, N)
  <2>1. Combines(op, n, M, N)
    BY DEF Combines
  <2>2. AllAnswer(operands, n, Postings, M)
    BY <1>3 DEF AllAnswer
  <2> HIDE DEF N
  <2>3. QED BY ONLY <1>1, <1>2, <1>6, <2>1, <2>2, LoopAnswers
<1> HIDE DEF N
<1>8. QED BY <1>4, <1>5, <1>7


LEMMA SequenceAnswers ==
  ASSUME NEW E, NEW ev, NEW mt, Agree(E, ev, mt), NEW f \in Sequences(E)
  PROVE  Answers(EvalSequence(f, Postings, ev), Postings,
                 [q \in Rows |-> MatchSequence(f, Items[q], mt[q])])
<1> DEFINE op == "AND"
           n == Len(f)
           operands == [k \in DOMAIN f |-> [jx \in Index |-> EvalFactor(f[k], jx, ev)]]
           M == [k \in 1 .. n |-> [q \in Rows |-> MatchFactor(f[k], Items[q], mt[q])]]
           N == [q \in Rows |-> FirstOther(IF op = "AND" THEN "yes" ELSE "no",
                                           [k \in 1 .. n |-> M[k][q]])]
<1>1. n \in Nat /\ n # 0 /\ DOMAIN f = 1 .. n /\ \A k \in 1 .. n : f[k] \in Factors(E)
  BY ListFacts DEF Sequences
<1>2. Len(operands) = n
  <2>1. operands = [k \in 1 .. n |-> operands[k]]
    BY <1>1
  <2> HIDE DEF operands, n
  <2>2. QED BY ONLY <1>1, <2>1, SequenceOver
<1>3. ASSUME NEW k \in 1 .. n
      PROVE  Answers(operands[k][Postings], Postings, M[k])
  <2> DEFINE t == f[k]
  <2>1. t \in Factors(E)
    BY <1>1
  <2>2. operands[k][Postings] = EvalFactor(t, Postings, ev)
    BY <1>1, PostingsInIndex
  <2>3. M[k] = [q \in Rows |-> MatchFactor(t, Items[q], mt[q])]
    BY <1>1
  <2> HIDE DEF t, operands, M
  <2>4. Answers(EvalFactor(t, Postings, ev), Postings,
                [q \in Rows |-> MatchFactor(t, Items[q], mt[q])])
    BY <2>1, FactorAnswers
  <2>5. QED BY <2>2, <2>3, <2>4
<1>4. EvalSequence(f, Postings, ev) = Loop(op, operands, Postings)
  BY DEF EvalSequence
<1>5. N = [q \in Rows |-> MatchSequence(f, Items[q], mt[q])]
  <2>1. ASSUME NEW q \in Rows
        PROVE  [k \in 1 .. n |-> M[k][q]] = [k \in DOMAIN f |-> MatchFactor(f[k], Items[q], mt[q])]
    BY <1>1
  <2> HIDE DEF M, n
  <2>2. ASSUME NEW q \in Rows
        PROVE  N[q] = MatchSequence(f, Items[q], mt[q])
    BY <2>1, <2>2 DEF MatchSequence
  <2>3. QED BY <2>2
<1> HIDE DEF operands, M, n
<1>6. op \in {"AND", "OR"}
  OBVIOUS
<1> HIDE DEF op
<1>7. Answers(Loop(op, operands, Postings), Postings, N)
  <2>1. Combines(op, n, M, N)
    BY DEF Combines
  <2>2. AllAnswer(operands, n, Postings, M)
    BY <1>3 DEF AllAnswer
  <2> HIDE DEF N
  <2>3. QED BY ONLY <1>1, <1>2, <1>6, <2>1, <2>2, LoopAnswers
<1> HIDE DEF N
<1>8. QED BY <1>4, <1>5, <1>7


LEMMA ExpressionAnswers ==
  ASSUME NEW E, NEW ev, NEW mt, Agree(E, ev, mt), NEW f \in Lists(Sequences(E))
  PROVE  Answers(EvalExpression(f, Postings, ev), Postings,
                 [q \in Rows |-> MatchExpression(f, Items[q], mt[q])])
<1> DEFINE op == "AND"
           n == Len(f)
           operands == [k \in DOMAIN f |-> [jx \in Index |-> EvalSequence(f[k], jx, ev)]]
           M == [k \in 1 .. n |-> [q \in Rows |-> MatchSequence(f[k], Items[q], mt[q])]]
           N == [q \in Rows |-> FirstOther(IF op = "AND" THEN "yes" ELSE "no",
                                           [k \in 1 .. n |-> M[k][q]])]
<1>1. n \in Nat /\ n # 0 /\ DOMAIN f = 1 .. n /\ \A k \in 1 .. n : f[k] \in Sequences(E)
  BY ListFacts
<1>2. Len(operands) = n
  <2>1. operands = [k \in 1 .. n |-> operands[k]]
    BY <1>1
  <2> HIDE DEF operands, n
  <2>2. QED BY ONLY <1>1, <2>1, SequenceOver
<1>3. ASSUME NEW k \in 1 .. n
      PROVE  Answers(operands[k][Postings], Postings, M[k])
  <2> DEFINE t == f[k]
  <2>1. t \in Sequences(E)
    BY <1>1
  <2>2. operands[k][Postings] = EvalSequence(t, Postings, ev)
    BY <1>1, PostingsInIndex
  <2>3. M[k] = [q \in Rows |-> MatchSequence(t, Items[q], mt[q])]
    BY <1>1
  <2> HIDE DEF t, operands, M
  <2>4. Answers(EvalSequence(t, Postings, ev), Postings,
                [q \in Rows |-> MatchSequence(t, Items[q], mt[q])])
    BY <2>1, SequenceAnswers
  <2>5. QED BY <2>2, <2>3, <2>4
<1>4. EvalExpression(f, Postings, ev) = Loop(op, operands, Postings)
  BY DEF EvalExpression
<1>5. N = [q \in Rows |-> MatchExpression(f, Items[q], mt[q])]
  <2>1. ASSUME NEW q \in Rows
        PROVE  [k \in 1 .. n |-> M[k][q]] = [k \in DOMAIN f |-> MatchSequence(f[k], Items[q], mt[q])]
    BY <1>1
  <2> HIDE DEF M, n
  <2>2. ASSUME NEW q \in Rows
        PROVE  N[q] = MatchExpression(f, Items[q], mt[q])
    BY <2>1, <2>2 DEF MatchExpression
  <2>3. QED BY <2>2
<1> HIDE DEF operands, M, n
<1>6. op \in {"AND", "OR"}
  OBVIOUS
<1> HIDE DEF op
<1>7. Answers(Loop(op, operands, Postings), Postings, N)
  <2>1. Combines(op, n, M, N)
    BY DEF Combines
  <2>2. AllAnswer(operands, n, Postings, M)
    BY <1>3 DEF AllAnswer
  <2> HIDE DEF N
  <2>3. QED BY ONLY <1>1, <1>2, <1>6, <2>1, <2>2, LoopAnswers
<1> HIDE DEF N
<1>8. QED BY <1>4, <1>5, <1>7


\* The two evaluators agree on every tree, whatever the operators in it: evalFilter
\* fails or gives the rows of the items that matchMemTableItem selects, fails if it
\* fails on an item, and leaves the index as it was built.
THEOREM EvaluatorsAgree ==
  ASSUME NEW f \in Expressions
  PROVE  Answers(EvalFilter(f, Postings), Postings,
                 [q \in Rows |-> MatchMemTableItem(f, Items[q])])
<1> DEFINE mt(item) == CHOOSE g : g = [m \in 0 .. MaxDepth |->
                         [e \in Nested[m] |-> MatchExpression(e, item, g[m - 1])]]
           ev == CHOOSE g : g = [m \in 0 .. MaxDepth |->
                   [e \in Nested[m] |-> [jx \in Index |-> EvalExpression(e, jx, g[m - 1])]]]
           At(m) == [q \in Rows |-> mt(Items[q])[m]]
           S == {m \in 0 .. MaxDepth : Agree(Nested[m], ev[m], At(m))}
<1>0. MaxDepth \in Nat /\ MaxDepth # 0 /\ MaxDepth \in 0 .. MaxDepth
  BY LanguageAssumption
<1>1. f # Nil
  BY <1>0, LanguageAssumption DEF Expressions
<1>2. EvalFilter(f, Postings) = ev[MaxDepth][f][Postings]
  BY <1>1 DEF EvalFilter
<1>3. \A item : MatchMemTableItem(f, item) = mt(item)[MaxDepth][f]
  BY <1>1 DEF MatchMemTableItem
<1>4. ASSUME NEW item
      PROVE  \A m \in 0 .. MaxDepth :
               mt(item)[m] = [e \in Nested[m] |-> MatchExpression(e, item, mt(item)[m - 1])]
  <2> DEFINE h == mt(item)
  <2>1. \E g : g = [m \in 0 .. MaxDepth |->
                      [e \in Nested[m] |-> MatchExpression(e, item, g[m - 1])]]
    <3>1. \E g : Matches(g, item, MaxDepth)
      BY <1>0, MatchesExists
    <3>2. QED BY <3>1, Zenon DEF Matches
  <2>2. h = [m \in 0 .. MaxDepth |->
               [e \in Nested[m] |-> MatchExpression(e, item, h[m - 1])]]
    BY <2>1
  <2> HIDE DEF h
  <2>3. \A m \in 0 .. MaxDepth : h[m] = [e \in Nested[m] |-> MatchExpression(e, item, h[m - 1])]
    BY <2>2, Zenon
  <2>4. QED BY <2>3 DEF h
<1>5. \A m \in 0 .. MaxDepth :
        ev[m] = [e \in Nested[m] |-> [jx \in Index |-> EvalExpression(e, jx, ev[m - 1])]]
  <2>1. \E g : g = [m \in 0 .. MaxDepth |->
                 [e \in Nested[m] |-> [jx \in Index |-> EvalExpression(e, jx, g[m - 1])]]]
    <3>1. \E g : Evaluates(g, MaxDepth)
      BY <1>0, EvaluatesExists
    <3>2. QED BY <3>1, Zenon DEF Evaluates
  <2>2. ev = [m \in 0 .. MaxDepth |->
                [e \in Nested[m] |-> [jx \in Index |-> EvalExpression(e, jx, ev[m - 1])]]]
    BY <2>1
  <2> HIDE DEF ev
  <2>3. QED BY <2>2, Zenon
<1> HIDE DEF ev, mt
<1>6. 0 \in S
  <2>1. Agree(Nested[0], ev[0], At(0))
    BY NestedIs DEF Agree
  <2>2. QED BY <1>0, <2>1
<1>7. ASSUME NEW m \in 0 .. MaxDepth, m # MaxDepth, m \in S PROVE m + 1 \in S
  <2>1. m + 1 \in 0 .. MaxDepth /\ m + 1 # 0 /\ (m + 1) - 1 = m
    BY <1>0, <1>7
  <2>2. ASSUME NEW e \in Nested[m + 1]
        PROVE  Answers(ev[m + 1][e][Postings], Postings, [q \in Rows |-> At(m + 1)[q][e]])
    <3>1. e \in Lists(Sequences(Nested[m]))
      BY <2>1, NestedIs
    <3>2. ev[m + 1] = [x \in Nested[m + 1] |-> [jx \in Index |-> EvalExpression(x, jx, ev[m])]]
      BY <1>5, <2>1
    <3>3. ev[m + 1][e][Postings] = EvalExpression(e, Postings, ev[m])
      BY <3>2, PostingsInIndex
    <3>4. ASSUME NEW q \in Rows
          PROVE  At(m + 1)[q][e] = MatchExpression(e, Items[q], At(m)[q])
      <4> DEFINE h == mt(Items[q])
      <4>1. h[m + 1] = [x \in Nested[m + 1] |-> MatchExpression(x, Items[q], h[m])]
        BY <1>4, <2>1
      <4>2. At(m + 1)[q] = h[m + 1] /\ At(m)[q] = h[m]
        OBVIOUS
      <4> HIDE DEF h, At
      <4>3. QED BY <4>1, <4>2
    <3>5. Agree(Nested[m], ev[m], At(m))
      BY <1>7
    <3> HIDE DEF At
    <3>6. Answers(EvalExpression(e, Postings, ev[m]), Postings,
                  [q \in Rows |-> MatchExpression(e, Items[q], At(m)[q])])
      <4> DEFINE E == Nested[m]
                 v == ev[m]
                 t == At(m)
      <4>1. Agree(E, v, t) /\ e \in Lists(Sequences(E))
        BY <3>1, <3>5
      <4> HIDE DEF E, v, t
      <4>2. Answers(EvalExpression(e, Postings, v), Postings,
                    [q \in Rows |-> MatchExpression(e, Items[q], t[q])])
        BY ONLY <4>1, ExpressionAnswers
      <4>3. QED BY <4>2 DEF v, t
    <3>7. [q \in Rows |-> At(m + 1)[q][e]] = [q \in Rows |-> MatchExpression(e, Items[q], At(m)[q])]
      BY <3>4
    <3>8. QED BY <3>3, <3>6, <3>7
  <2> HIDE DEF At
  <2>3. Agree(Nested[m + 1], ev[m + 1], At(m + 1))
    BY <2>2 DEF Agree
  <2>4. QED BY <2>1, <2>3
<1>8. Agree(Nested[MaxDepth], ev[MaxDepth], At(MaxDepth))
  <2> HIDE DEF At
  <2>1. 0 \in S /\ \A m \in 0 .. MaxDepth : m # MaxDepth /\ m \in S => m + 1 \in S
    BY <1>6, <1>7
  <2> HIDE DEF S
  <2>2. MaxDepth \in S
    BY <1>0, <2>1, UpTo
  <2>3. QED BY <2>2 DEF S
<1>9. Answers(ev[MaxDepth][f][Postings], Postings, [q \in Rows |-> At(MaxDepth)[q][f]])
  BY <1>8, Zenon DEF Agree, Expressions
<1>10. [q \in Rows |-> At(MaxDepth)[q][f]] = [q \in Rows |-> MatchMemTableItem(f, Items[q])]
  BY <1>3
<1>11. QED BY <1>2, <1>9, <1>10

(***************************************************************************)
(* The client and the call.                                                *)
(***************************************************************************)

\* The text of the tree, and of the empty filter.
TextOf(f) == IF f = Nil THEN <<>> ELSE Written(f)

\* The inductive invariant: what the client composes is a tree; what it writes
\* is the text of the tree, or tokens at least; what is parsed is that text; and
\* the index is as it was built.
FilterInv ==
  /\ phase \in {"compose", "written", "rejected", "parsed", "answered"}
  /\ tree \in Expressions \cup {Nil}
  /\ phase = "compose" => ~ mistaken
  /\ phase # "compose" => input \in Seq(Tokens)
  /\ phase # "compose" /\ ~ mistaken => input = TextOf(tree)
  /\ phase = "rejected" => ParseFilter(input).failed
  /\ phase \in {"parsed", "answered"} =>
       ~ ParseFilter(input).failed /\ filter = ParseFilter(input).node
  /\ posting = Postings
  /\ SameAnswer

LEMMA TextOfTree ==
  ASSUME NEW f, f \in Expressions \cup {Nil}
  PROVE  /\ TextOf(f) \in Seq(Tokens) /\ ~ ParseFilter(TextOf(f)).failed
         /\ ParseFilter(TextOf(f)).node = f
<1>1. CASE f = Nil
  <2>1. ParseFilter(<<>>) = Got(Nil, 1)
    BY DEF ParseFilter, Absent
  <2>2. QED BY <1>1, <2>1, EmptySeq DEF TextOf, Got
<1>2. CASE f # Nil
  BY <1>2, ParserComplete DEF TextOf
<1>3. QED BY <1>1, <1>2

\* The operators by which a tree grows.
LEMMA SingleIs ==
  ASSUME NEW T, NEW t, t \in T
  PROVE  <<t>> \in Lists(T)
<1>1. <<t>> \in Seq(T) /\ <<t>> # <<>>
  OBVIOUS
<1>2. QED BY <1>1 DEF Lists

LEMMA AppendIs ==
  ASSUME NEW T, NEW s, s \in Lists(T), NEW t, t \in T
  PROVE  Append(s, t) \in Lists(T)
<1>1. s \in Seq(T)
  BY DEF Lists
<1>2. Append(s, t) \in Seq(T) /\ Append(s, t) # <<>>
  BY <1>1, AppendProperties
<1>3. QED BY <1>2 DEF Lists

LEMMA ReplaceIs ==
  ASSUME NEW T, NEW s, s \in Lists(T), NEW t, t \in T
  PROVE  /\ Len(s) \in 1 .. Len(s) /\ s[Len(s)] \in T
         /\ [s EXCEPT ![Len(s)] = t] \in Lists(T)
<1>1. s \in Seq(T) /\ Len(s) \in Nat /\ Len(s) # 0 /\ \A k \in 1 .. Len(s) : s[k] \in T
  BY ListFacts
<1> DEFINE n == Len(s)
           u == [s EXCEPT ![n] = t]
<1>2. n \in 1 .. n
  BY <1>1
<1>3. u \in Seq(T) /\ Len(u) = n
  BY <1>1, <1>2, ExceptSeq
<1>4. u # <<>>
  <2> HIDE DEF u
  <2>1. CASE u = <<>>
    <3>1. Len(u) = 0
      BY <2>1
    <3>2. QED BY <1>1, <1>3, <3>1
  <2>2. QED BY <2>1
<1>5. QED BY <1>1, <1>2, <1>3, <1>4 DEF Lists

LEMMA ExpressionsAre ==
  /\ Expressions = Lists(Sequences(Nested[MaxDepth - 1])) /\ Nil \notin Expressions
  /\ Nil \notin Restrictions(Nested[MaxDepth - 1])
<1>1. /\ MaxDepth \in 0 .. MaxDepth /\ MaxDepth # 0 /\ MaxDepth - 1 \in 0 .. MaxDepth
  BY LanguageAssumption
<1>2. QED BY <1>1, NestedIs, LanguageAssumption DEF Expressions

\* A tree that the client goes on composing is a tree.
LEMMA ComposeTree ==
  ASSUME tree \in Expressions \cup {Nil}, Compose
  PROVE  tree' \in Expressions
<1> DEFINE E == Nested[MaxDepth - 1]
           T == Terms(E)
           F == Factors(E)
           Q == Sequences(E)
           g == Len(tree)
           h == Len(tree[g])
<1>1. Expressions = Lists(Q) /\ F = Lists(T) /\ Q = Lists(F)
  BY ExpressionsAre DEF Factors, Sequences
<1>2. ClientTerms \subseteq T
  BY FilterAssumption
<1>3. ASSUME NEW t \in T PROVE Single(t) \in Expressions
  <2> HIDE DEF T, F, Q
  <2>1. <<t>> \in F
    BY <1>1, SingleIs
  <2> DEFINE u == <<t>>
  <2>2. u \in F
    BY <2>1
  <2> HIDE DEF u
  <2>3. <<u>> \in Q
    BY <1>1, <2>2, SingleIs
  <2> DEFINE v == <<u>>
  <2>4. v \in Q
    BY <2>3
  <2> HIDE DEF v
  <2>5. <<v>> \in Expressions
    BY <1>1, <2>4, SingleIs
  <2>6. QED BY <2>5 DEF Single, v, u
<1>4. ASSUME NEW t \in ClientTerms,
             IF tree = Nil THEN tree' = Single(t)
             ELSE \/ tree' = Append(tree, <<<<t>>>>)
                  \/ tree' = [tree EXCEPT ![g] = Append(@, <<t>>)]
                  \/ tree' = [tree EXCEPT ![g][h] = Append(@, t)]
      PROVE  tree' \in Expressions
  <2>0. t \in T
    BY <1>2
  <2> HIDE DEF T, F, Q
  <2>1. CASE tree = Nil
    BY <1>3, <1>4, <2>0, <2>1
  <2>2. CASE tree # Nil
    <3>1. tree \in Lists(Q) /\ g \in 1 .. g /\ tree[g] \in Q
      <4>1. tree \in Lists(Q)
        BY <1>1, <2>2
      <4>2. Len(tree) \in Nat /\ Len(tree) # 0 /\ \A k \in 1 .. Len(tree) : tree[k] \in Q
        BY <4>1, ListFacts
      <4>3. QED BY <4>1, <4>2
    <3> DEFINE a == tree[g]
    <3>2. a \in Lists(F) /\ h \in 1 .. h /\ a[h] \in F
      <4>1. a \in Lists(F)
        BY <1>1, <3>1
      <4> HIDE DEF a
      <4>2. Len(a) \in Nat /\ Len(a) # 0 /\ \A k \in 1 .. Len(a) : a[k] \in F
        BY <4>1, ListFacts
      <4>3. h = Len(a)
        BY DEF a
      <4> HIDE DEF h
      <4>4. QED BY <4>1, <4>2, <4>3
    <3> DEFINE b == a[h]
    <3>3. <<t>> \in F /\ <<<<t>>>> \in Q
      <4> DEFINE u == <<t>>
      <4>1. u \in F
        BY <1>1, <2>0, SingleIs
      <4> HIDE DEF u
      <4>2. <<u>> \in Q
        BY <1>1, <4>1, SingleIs
      <4>3. QED BY <4>1, <4>2 DEF u
    <3>4. CASE tree' = Append(tree, <<<<t>>>>)
      <4> DEFINE v == <<<<t>>>>
      <4>1. v \in Q /\ tree' = Append(tree, v)
        BY <3>3, <3>4
      <4> HIDE DEF v
      <4>2. Append(tree, v) \in Lists(Q)
        BY <3>1, <4>1, AppendIs
      <4>3. QED BY <1>1, <4>1, <4>2
    <3>5. CASE tree' = [tree EXCEPT ![g] = Append(@, <<t>>)]
      <4> DEFINE u == <<t>>
                 c == Append(a, u)
      <4>1. u \in F
        BY <3>3
      <4> HIDE DEF u
      <4>2. tree' = [tree EXCEPT ![g] = c]
        BY <3>5 DEF u
      <4> HIDE DEF a
      <4>3. c \in Q
        BY <1>1, <3>2, <4>1, AppendIs
      <4> HIDE DEF c
      <4>4. [tree EXCEPT ![g] = c] \in Lists(Q)
        BY <3>1, <4>3, ReplaceIs
      <4>5. QED BY <1>1, <4>2, <4>4
    <3>6. CASE tree' = [tree EXCEPT ![g][h] = Append(@, t)]
      <4> DEFINE c == Append(b, t)
                 d == [a EXCEPT ![h] = c]
      <4>1. tree' = [tree EXCEPT ![g] = d]
        BY <3>6
      <4>2. c \in F
        <5>1. b \in F
          BY <3>2
        <5> HIDE DEF b
        <5>2. QED BY <1>1, <2>0, <5>1, AppendIs
      <4>3. h = Len(a)
        OBVIOUS
      <4> HIDE DEF c, a, h, b
      <4>4. [a EXCEPT ![h] = c] \in Lists(F)
        BY <3>2, <4>2, <4>3, ReplaceIs
      <4>5. d \in Q
        BY <1>1, <4>4
      <4> HIDE DEF d
      <4>6. [tree EXCEPT ![g] = d] \in Lists(Q)
        BY <3>1, <4>5, ReplaceIs
      <4>7. QED BY <1>1, <4>1, <4>6
    <3>7. QED BY <1>4, <2>2, <3>4, <3>5, <3>6
  <2>3. QED BY <2>1, <2>2
<1>5. ASSUME tree \in E, NEW negated \in BOOLEAN,
             tree' = Single([negated |-> negated,
                             simple |-> [restriction |-> Nil, composite |-> tree]])
      PROVE  tree' \in Expressions
  <2> DEFINE t == [negated |-> negated, simple |-> [restriction |-> Nil, composite |-> tree]]
  <2>1. t \in T
    BY <1>5 DEF Terms, Simples
  <2>2. QED BY <1>3, <1>5, <2>1
<1> HIDE DEF T, F, Q
<1>6. QED BY <1>4, <1>5 DEF Compose

\* A mistake leaves tokens.
LEMMA MistakeTokens ==
  ASSUME input \in Seq(Tokens), Mistake
  PROVE  input' \in Seq(Tokens)
<1>1. Len(input) \in Nat /\ DOMAIN input = 1 .. Len(input) /\ (Len(input) + 1) - 1 = Len(input)
  BY LenProperties
<1>2. ASSUME NEW p \in 1 .. Len(input) + 1
      PROVE  /\ SubSeq(input, 1, p - 1) \in Seq(Tokens)
             /\ SubSeq(input, p, Len(input)) \in Seq(Tokens)
  <2>1. 1 \in Position(input) /\ p \in Position(input) /\ Len(input) + 1 \in Position(input)
        /\ 1 <= p /\ p <= Len(input) + 1
    BY <1>1 DEF Position
  <2> DEFINE q == Len(input) + 1
  <2>2. q \in Position(input) /\ p <= q /\ q - 1 = Len(input)
    BY <1>1, <2>1
  <2> HIDE DEF q
  <2>3. Cut(input, 1, p) \in Seq(Tokens) /\ Cut(input, p, q) \in Seq(Tokens)
    BY <2>1, <2>2, CutIs
  <2>4. QED BY <2>2, <2>3 DEF Cut
<1>3. ASSUME NEW p \in DOMAIN input, input' = RemoveAt(input, p)
      PROVE  input' \in Seq(Tokens)
  <2> DEFINE a == SubSeq(input, 1, p - 1)
             b == SubSeq(input, p + 1, Len(input))
  <2>1. a \in Seq(Tokens) /\ b \in Seq(Tokens)
    <3>1. p \in 1 .. Len(input) + 1 /\ p + 1 \in 1 .. Len(input) + 1
      BY <1>1
    <3>2. QED BY <1>2, <3>1
  <2>2. input' = a \o b
    BY <1>3 DEF RemoveAt
  <2> HIDE DEF a, b
  <2>3. QED BY <2>1, <2>2, ConcatProperties
<1>4. ASSUME NEW p \in 1 .. Len(input) + 1, NEW t \in Typo, input' = InsertAt(input, p, t)
      PROVE  input' \in Seq(Tokens)
  <2> DEFINE a == SubSeq(input, 1, p - 1)
             b == <<t>>
             c == SubSeq(input, p, Len(input))
  <2>1. a \in Seq(Tokens) /\ c \in Seq(Tokens)
    BY <1>2
  <2>2. b \in Seq(Tokens)
    BY FilterAssumption
  <2>3. input' = a \o b \o c
    BY <1>4 DEF InsertAt
  <2> HIDE DEF a, b, c
  <2>4. a \o b \o c \in Seq(Tokens)
    BY <2>1, <2>2, ConcatTypes
  <2>5. QED BY <2>3, <2>4
<1>5. QED BY <1>3, <1>4 DEF Mistake

\* What a query answers, and the index it leaves.
LEMMA QueryAnswers ==
  ASSUME filter \in Expressions \cup {Nil}, posting = Postings, Query
  PROVE  posting' = Postings /\ SameAnswer'
<1> DEFINE r == EvalFilter(filter, Postings)
           M == [q \in Rows |-> MatchMemTableItem(filter, Items[q])]
           found == IF r.bitmap = Nil THEN Rows ELSE r.bitmap.rows
<1>1. /\ posting' = r.ix
      /\ answer' = [failed |-> r.failed,
                    rows |-> {q \in found : ~ r.failed /\ Overlaps(Items[q], range')}]
      /\ filter' = filter
  BY DEF Query
<1>2. /\ r.ix = Postings /\ r.failed \in BOOLEAN
      /\ ~ r.failed => /\ found = {q \in Rows : M[q] = "yes"}
                       /\ \A q \in Rows : M[q] \in {"yes", "no"}
  <2>1. CASE filter = Nil
    <3>1. r = Evaluated(Nil, Postings) /\ \A q \in Rows : M[q] = "yes"
      BY <2>1 DEF EvalFilter, MatchMemTableItem
    <3> HIDE DEF r, M
    <3>2. r.bitmap = Nil /\ r.failed = FALSE /\ r.ix = Postings
      BY <3>1 DEF Evaluated
    <3>3. found = Rows
      BY <3>2
    <3>4. {q \in Rows : M[q] = "yes"} = Rows
      BY ONLY <3>1
    <3> HIDE DEF found
    <3>5. QED BY <3>1, <3>2, <3>3, <3>4
  <2>2. CASE filter # Nil
    <3>1. Answers(r, Postings, M)
      BY <2>2, EvaluatorsAgree
    <3> HIDE DEF r, M
    <3>2. /\ r.ix = Postings /\ r.failed \in BOOLEAN
          /\ ~ r.failed =>
               /\ r.bitmap.of = Nil /\ r.bitmap.rows = {q \in Rows : M[q] = "yes"}
               /\ r.bitmap # Nil /\ r.bitmap = Clone({q \in Rows : M[q] = "yes"})
               /\ \A q \in Rows : M[q] \in {"yes", "no"}
      BY ONLY <3>1, AnswersFields, Zenon
    <3>3. QED BY <3>2
  <2>3. QED BY <2>1, <2>2
<1>3. \A q \in Rows : MatchMemTableItem(filter, Items[q]) = M[q]
  OBVIOUS
<1> HIDE DEF r, M, found
<1>4. answer'.failed = r.failed
      /\ answer'.rows = {q \in found : ~ r.failed /\ Overlaps(Items[q], range')}
  BY <1>1
<1>5. ASSUME NEW q \in Rows
      PROVE  /\ M[q] = "error" => answer'.failed
             /\ ~ answer'.failed =>
                  (q \in answer'.rows <=> M[q] = "yes" /\ Overlaps(Items[q], range'))
  BY <1>2, <1>4
<1>6. SameAnswer'
  <2>1. SameAnswer' <=>
          (phase' = "answered" =>
             \A q \in Rows :
               LET match == MatchMemTableItem(filter', Items[q])
               IN /\ match = "error" => answer'.failed
                  /\ ~ answer'.failed =>
                       (q \in answer'.rows <=> match = "yes" /\ Overlaps(Items[q], range')))
    BY DEF SameAnswer, MatchMemTableItem, Overlaps
  <2>2. QED BY <1>1, <1>3, <1>5, <2>1
<1>7. QED BY <1>1, <1>2, <1>6

LEMMA InvInit ==
  Init => FilterInv
BY DEF Init, FilterInv, SameAnswer, Postings

LEMMA InvNext ==
  FilterInv /\ [Next]_vars => FilterInv'
<1> SUFFICES ASSUME FilterInv, [Next]_vars PROVE FilterInv'
  OBVIOUS
<1>1. CASE UNCHANGED vars
  BY <1>1 DEF vars, FilterInv, SameAnswer, TextOf
<1>2. CASE Compose
  <2>1. tree' \in Expressions
    BY <1>2, ComposeTree DEF FilterInv
  <2>2. phase = "compose" /\ phase' = phase /\ mistaken' = mistaken /\ posting' = posting
    BY <1>2 DEF Compose
  <2>3. QED BY <2>1, <2>2 DEF FilterInv, SameAnswer
<1>3. CASE Write
  <2>1. /\ phase' = "written" /\ input' = TextOf(tree) /\ tree' = tree /\ mistaken' = mistaken
        /\ posting' = posting
    BY <1>3 DEF Write, TextOf
  <2>2. TextOf(tree) \in Seq(Tokens)
    BY TextOfTree DEF FilterInv
  <2>3. TextOf(tree') = TextOf(tree)
    BY <2>1
  <2>4. QED BY <2>1, <2>2, <2>3 DEF FilterInv, SameAnswer
<1>4. CASE Mistake
  <2>1. phase = "written" /\ phase' = phase /\ mistaken' = TRUE /\ tree' = tree /\ posting' = posting
    BY <1>4 DEF Mistake
  <2>2. input' \in Seq(Tokens)
    BY <1>4, <2>1, MistakeTokens DEF FilterInv
  <2>3. QED BY <2>1, <2>2 DEF FilterInv, SameAnswer
<1>5. CASE Parse
  <2>1. /\ phase = "written" /\ filter' = ParseFilter(input).node
        /\ phase' = IF ParseFilter(input).failed THEN "rejected" ELSE "parsed"
        /\ tree' = tree /\ input' = input /\ mistaken' = mistaken /\ posting' = posting
    BY <1>5 DEF Parse
  <2>2. ParseFilter(input') = ParseFilter(input) /\ TextOf(tree') = TextOf(tree)
    BY <2>1
  <2>3. QED BY <2>1, <2>2 DEF FilterInv, SameAnswer
<1>6. CASE Query
  <2>1. /\ phase = "parsed" /\ phase' = "answered" /\ tree' = tree /\ input' = input
        /\ mistaken' = mistaken /\ filter' = filter
    BY <1>6 DEF Query
  <2>2. filter \in Expressions \cup {Nil}
    BY <2>1, ParserSound DEF FilterInv
  <2>3. posting' = Postings /\ SameAnswer'
    BY <1>6, <2>2, QueryAnswers DEF FilterInv
  <2>4. ParseFilter(input') = ParseFilter(input) /\ TextOf(tree') = TextOf(tree)
    BY <2>1
  <2>5. QED BY <2>1, <2>3, <2>4 DEF FilterInv
<1>7. QED BY <1>1, <1>2, <1>3, <1>4, <1>5, <1>6 DEF Next

\* The inductive invariant holds in every state: what is parsed is the text that was
\* written, and the index is as it was built.
THEOREM FilterInvariant == Spec => []FilterInv
<1>1. QED BY InvInit, InvNext, PTL DEF Spec

\* ParsesTree: what the client writes without a mistake is accepted, and read as
\* the tree it composed, whatever the tree and however deep.
THEOREM TreeParsed == Spec => []ParsesTree
<1>1. FilterInv => ParsesTree
  <2> SUFFICES ASSUME FilterInv, ~ mistaken
               PROVE  /\ phase # "rejected"
                      /\ phase \in {"parsed", "answered"} => filter = tree
    BY DEF ParsesTree
  <2>1. ~ ParseFilter(TextOf(tree)).failed /\ ParseFilter(TextOf(tree)).node = tree
    BY TextOfTree DEF FilterInv
  <2>2. phase # "compose" => input = TextOf(tree)
    BY DEF FilterInv
  <2>3. QED BY <2>1, <2>2 DEF FilterInv
<1>2. QED BY <1>1, FilterInvariant, PTL

\* TokensKept: of any text that is accepted, written by mistake or not, every
\* token is in the tree, in its place.
THEOREM TextKept == Spec => []TokensKept
<1>1. FilterInv => TokensKept
  <2> SUFFICES ASSUME FilterInv, phase \in {"parsed", "answered"}
               PROVE  input = IF filter = Nil THEN <<>> ELSE Written(filter)
    BY DEF TokensKept
  <2>1. input \in Seq(Tokens) /\ ~ ParseFilter(input).failed /\ filter = ParseFilter(input).node
    BY DEF FilterInv
  <2>2. QED BY <2>1, ParserSound
<1>2. QED BY <1>1, FilterInvariant, PTL

\* SameAnswer: an event is selected in an index exactly if it would be in the
\* memtable and overlaps the range, and no error of the memtable is lost.
THEOREM AnswersAgree == Spec => []SameAnswer
<1>1. FilterInv => SameAnswer
  BY DEF FilterInv
<1>2. QED BY <1>1, FilterInvariant, PTL

\* IndexUnchanged: a query leaves the bitmaps of the index as they were built,
\* though And and Or work in place.
THEOREM IndexKept == Spec => IndexUnchanged
<1>1. FilterInv /\ FilterInv' /\ [Next]_vars => [posting' = posting]_vars
  BY DEF FilterInv, Postings
<1>2. QED BY <1>1, FilterInvariant, PTL DEF Spec, IndexUnchanged
=============================================================================
