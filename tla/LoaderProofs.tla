----------------------------- MODULE LoaderProofs -----------------------------
(* Proofs of the safety properties of Loader, for every file, number of    *)
(* workers, batch size and server.                                         *)
EXTENDS Loader, FiniteSetTheorems, SequenceTheorems, WellFoundedInduction, TLAPS

Pick(s) == CHOOSE x \in s : TRUE

\* A nonempty set of naturals has a least element.
LEMMA Least ==
  ASSUME NEW T, T \subseteq Nat, T # {}
  PROVE  \E n \in T : \A m \in T : n <= m
<1> DEFINE less == OpToRel(<, Nat)
<1>1. PICK x \in T : \A y \in T : ~ (<<y, x>> \in less)
  <2>1. IsWellFoundedOn(less, Nat)
    BY NatLessThanWellFounded
  <2> HIDE DEF less
  <2>2. QED BY <2>1, WFMin
<1>2. \A a, c \in Nat : <<c, a>> \in less <=> c < a
  BY DEF OpToRel
<1> HIDE DEF less
<1>3. \A y \in T : x \in Nat /\ y \in Nat /\ ~ (y < x)
  BY <1>1, <1>2, Zenon
<1>4. QED BY <1>1, <1>3

\* A nonempty set of finite sets has one with the fewest elements.
LEMMA Smallest ==
  ASSUME NEW B, B # {}, \A T \in B : IsFiniteSet(T)
  PROVE  \E T \in B : \A U \in B : Cardinality(T) <= Cardinality(U)
<1> DEFINE N == {Cardinality(T) : T \in B}
<1>1. N \subseteq Nat /\ N # {}
  BY FS_CardinalityType
<1>2. PICK n \in N : \A m \in N : n <= m
  BY <1>1, Least
<1>3. PICK T \in B : n = Cardinality(T)
  OBVIOUS
<1>4. \A U \in B : Cardinality(T) <= Cardinality(U)
  BY <1>2, <1>3
<1>5. QED BY <1>4

\* What is left of a finite set without its chosen element is smaller.
LEMMA RestSmaller ==
  ASSUME NEW T, IsFiniteSet(T), T # {}
  PROVE  /\ Pick(T) \in T /\ IsFiniteSet(T \ {Pick(T)})
         /\ Cardinality(T) \in Nat
         /\ Cardinality(T \ {Pick(T)}) = Cardinality(T) - 1
<1>1. Pick(T) \in T
  BY DEF Pick
<1>2. QED BY <1>1, FS_RemoveElement, FS_CardinalityType

(***************************************************************************)
(* Sums over finite sets.                                                  *)
(***************************************************************************)

\* g is the function by which MapThenSumSet adds up F over the subsets of S.
Adds(g, F, S) ==
  g = [s \in SUBSET S |-> IF s = {} THEN 0 ELSE F[Pick(s)] + g[s \ {Pick(s)}]]

Total(F, S) == (CHOOSE g : Adds(g, F, S))[S]

\* There is such a function.
LEMMA AddsExists ==
  ASSUME NEW S, IsFiniteSet(S), NEW F
  PROVE  \E g : Adds(g, F, S)
<1> DEFINE Sub(n) == {s \in SUBSET S : Cardinality(s) <= n}
           Step(g, s) == IF s = {} THEN 0 ELSE F[Pick(s)] + g[s \ {Pick(s)}]
           Good(n) == \E g : g = [s \in Sub(n) |-> Step(g, s)]
           Bad == {n \in Nat : ~ Good(n)}
<1>1. \A s \in SUBSET S : IsFiniteSet(s) /\ Cardinality(s) \in Nat
  BY FS_Subset, FS_CardinalityType
<1>2. Good(0)
  <2>1. \A s \in Sub(0) : s = {}
    BY <1>1, FS_EmptySet
  <2>2. [s \in Sub(0) |-> 0] = [s \in Sub(0) |-> Step([t \in Sub(0) |-> 0], s)]
    BY <2>1
  <2>3. QED BY <2>2
<1>3. ASSUME NEW n \in Nat, Good(n) PROVE Good(n + 1)
  <2>1. PICK g : g = [s \in Sub(n) |-> Step(g, s)]
    BY <1>3
  <2> DEFINE h == [s \in Sub(n + 1) |-> Step(g, s)]
  <2>2. ASSUME NEW s \in Sub(n + 1), s # {}
        PROVE  h[s \ {Pick(s)}] = g[s \ {Pick(s)}]
    <3>1. s \ {Pick(s)} \in Sub(n) /\ s \ {Pick(s)} \in Sub(n + 1)
      BY <1>1, <2>2, RestSmaller
    <3>2. g[s \ {Pick(s)}] = Step(g, s \ {Pick(s)})
      BY <2>1, <3>1, Zenon
    <3>3. QED BY <3>1, <3>2
  <2>3. \A s \in Sub(n + 1) : Step(g, s) = Step(h, s)
    BY <2>2
  <2>4. h = [s \in Sub(n + 1) |-> Step(h, s)]
    BY <2>3
  <2>5. QED BY <2>4
<1>4. Bad = {}
  <2>1. SUFFICES ASSUME Bad # {} PROVE FALSE
    OBVIOUS
  <2>2. PICK n \in Bad : \A m \in Bad : n <= m
    BY <2>1, Least
  <2> HIDE DEF Good
  <2>3. n # 0 /\ n \in Nat
    BY <1>2
  <2>4. n - 1 \in Nat /\ n - 1 \notin Bad
    BY <2>2, <2>3
  <2>5. Good((n - 1) + 1)
    BY <1>3, <2>4
  <2>6. QED BY <2>3, <2>5
<1>5. Good(Cardinality(S))
  BY <1>1, <1>4
<1>6. Sub(Cardinality(S)) = SUBSET S
  BY FS_Subset, FS_CardinalityType
<1>7. PICK g : g = [s \in SUBSET S |-> Step(g, s)]
  BY <1>5, <1>6
<1>8. QED BY <1>7 DEF Adds

LEMMA AddsAt ==
  ASSUME NEW S, NEW F, NEW g, Adds(g, F, S), NEW T \in SUBSET S
  PROVE  g[T] = IF T = {} THEN 0 ELSE F[Pick(T)] + g[T \ {Pick(T)}]
BY DEF Adds

\* Two functions that differ at w only have sums that differ as they do at w.
LEMMA AddsChange ==
  ASSUME NEW S, IsFiniteSet(S), NEW F \in [S -> Int], NEW G \in [S -> Int],
         NEW w \in S, \A x \in S \ {w} : F[x] = G[x],
         NEW g, Adds(g, F, S), NEW h, Adds(h, G, S)
  PROVE  \A T \in SUBSET S :
           /\ g[T] \in Int
           /\ h[T] = IF w \in T THEN g[T] + (G[w] - F[w]) ELSE g[T]
<1> DEFINE Ok(T) == /\ g[T] \in Int
                    /\ h[T] = IF w \in T THEN g[T] + (G[w] - F[w]) ELSE g[T]
           Bad == {T \in SUBSET S : ~ Ok(T)}
<1>1. \A T \in SUBSET S : IsFiniteSet(T)
  BY FS_Subset
<1>2. SUFFICES ASSUME Bad # {} PROVE FALSE
  OBVIOUS
<1>3. PICK T \in Bad : \A U \in Bad : Cardinality(T) <= Cardinality(U)
  BY <1>1, <1>2, Smallest
<1>4. T \in SUBSET S /\ ~ Ok(T)
  OBVIOUS
<1>5. T # {}
  <2>1. CASE T = {}
    <3>1. g[{}] = 0 /\ h[{}] = 0
      <4>1. {} \in SUBSET S
        OBVIOUS
      <4>2. g[{}] = IF {} = {} THEN 0 ELSE F[Pick({})] + g[{} \ {Pick({})}]
        BY <4>1, AddsAt
      <4>3. h[{}] = IF {} = {} THEN 0 ELSE G[Pick({})] + h[{} \ {Pick({})}]
        BY <4>1, AddsAt
      <4>4. QED BY <4>2, <4>3
    <3>2. w \notin {} /\ 0 \in Int
      OBVIOUS
    <3>3. Ok({})
      BY <3>1, <3>2
    <3>4. QED BY <1>4, <2>1, <3>3
  <2>2. QED BY <2>1
<1> DEFINE x == Pick(T)
           U == T \ {x}
<1>6. /\ x \in T /\ x \in S /\ U \in SUBSET S /\ Cardinality(T) \in Nat
      /\ Cardinality(U) = Cardinality(T) - 1
  BY <1>1, <1>4, <1>5, RestSmaller
<1>7. g[T] = F[x] + g[U] /\ h[T] = G[x] + h[U]
  BY <1>4, <1>5, AddsAt
<1>8. Ok(U)
  <2>1. U \notin Bad
    <3>1. ~ (Cardinality(T) <= Cardinality(U))
      BY <1>6
    <3>2. QED BY <1>3, <3>1
  <2>2. QED BY <1>6, <2>1
<1>9. w \in U <=> w \in T /\ w # x
  OBVIOUS
<1> HIDE DEF U, x
<1>10. F[x] \in Int /\ G[x] \in Int /\ F[w] \in Int /\ G[w] \in Int
  BY <1>6
<1>11. CASE w = x
  BY <1>4, <1>6, <1>7, <1>8, <1>9, <1>10, <1>11
<1>12. CASE w # x
  <2>1. F[x] = G[x] /\ (w \in U <=> w \in T)
    BY <1>6, <1>9, <1>12
  <2>2. QED BY <1>4, <1>7, <1>8, <1>10, <2>1
<1>13. QED BY <1>11, <1>12

\* The function is unique.
LEMMA AddsUnique ==
  ASSUME NEW S, IsFiniteSet(S), NEW F \in [S -> Int], NEW g, Adds(g, F, S)
  PROVE  g[S] = Total(F, S) /\ g[S] \in Int
<1> DEFINE t == CHOOSE h : Adds(h, F, S)
<1>1. Adds(t, F, S)
  <2>1. \E h : Adds(h, F, S)
    BY AddsExists
  <2>2. QED BY <2>1
<1> HIDE DEF t
<1>2. CASE S = {}
  BY <1>1, <1>2, AddsAt DEF Total, t
<1>3. CASE S # {}
  <2>1. PICK w \in S : TRUE
    BY <1>3
  <2>2. /\ g[S] \in Int
        /\ t[S] = IF w \in S THEN g[S] + (F[w] - F[w]) ELSE g[S]
    BY <1>1, AddsChange
  <2>3. F[w] - F[w] = 0
    OBVIOUS
  <2>4. QED BY <2>2, <2>3 DEF Total, t
<1>4. QED BY <1>2, <1>3

\* A change of one summand changes the sum by as much.
LEMMA TotalChange ==
  ASSUME NEW S, IsFiniteSet(S), NEW F \in [S -> Int], NEW G \in [S -> Int],
         NEW w \in S, \A x \in S \ {w} : F[x] = G[x]
  PROVE  /\ Total(F, S) \in Int
         /\ Total(G, S) = Total(F, S) + (G[w] - F[w])
<1>1. PICK g : Adds(g, F, S)
  BY AddsExists
<1>2. PICK h : Adds(h, G, S)
  BY AddsExists
<1>3. g[S] = Total(F, S) /\ g[S] \in Int /\ h[S] = Total(G, S)
  BY <1>1, <1>2, AddsUnique
<1>4. h[S] = g[S] + (G[w] - F[w])
  BY <1>1, <1>2, AddsChange
<1>5. QED BY <1>3, <1>4

\* A sum of zeros.
LEMMA TotalZero ==
  ASSUME NEW S, IsFiniteSet(S), NEW F \in [S -> Int], \A x \in S : F[x] = 0
  PROVE  Total(F, S) = 0
<1>1. PICK g : Adds(g, F, S)
  BY AddsExists
<1> DEFINE Bad == {T \in SUBSET S : g[T] # 0}
<1>2. \A T \in SUBSET S : IsFiniteSet(T)
  BY FS_Subset
<1>3. ASSUME Bad # {} PROVE FALSE
  <2>1. PICK T \in Bad : \A U \in Bad : Cardinality(T) <= Cardinality(U)
    BY <1>2, <1>3, Smallest
  <2>2. T # {}
    BY <1>1, <2>1, AddsAt
  <2> DEFINE U == T \ {Pick(T)}
  <2>3. /\ Pick(T) \in T /\ U \in SUBSET S /\ Cardinality(T) \in Nat
        /\ Cardinality(U) = Cardinality(T) - 1
    BY <1>2, <2>1, <2>2, RestSmaller
  <2>4. U \notin Bad
    <3>1. ~ (Cardinality(T) <= Cardinality(U))
      BY <2>3
    <3>2. QED BY <2>1, <3>1
  <2>5. g[T] = F[Pick(T)] + g[U]
    BY <1>1, <2>1, <2>2, AddsAt
  <2>6. QED BY <2>1, <2>3, <2>4, <2>5
<1>4. g[S] = 0
  BY <1>3
<1>5. QED BY <1>1, <1>4, AddsUnique

\* A union has at most as many elements as its sets together.
LEMMA UnionBound ==
  ASSUME NEW S, IsFiniteSet(S), NEW F \in [S -> Int], NEW H,
         \A x \in S : IsFiniteSet(H[x]) /\ Cardinality(H[x]) <= F[x]
  PROVE  /\ IsFiniteSet(UNION {H[x] : x \in S})
         /\ Cardinality(UNION {H[x] : x \in S}) <= Total(F, S)
<1>1. PICK g : Adds(g, F, S)
  BY AddsExists
<1> DEFINE Un(T) == UNION {H[x] : x \in T}
           Ok(T) == /\ IsFiniteSet(Un(T)) /\ g[T] \in Int
                    /\ Cardinality(Un(T)) <= g[T]
           Bad == {T \in SUBSET S : ~ Ok(T)}
<1>2. \A T \in SUBSET S : IsFiniteSet(T)
  BY FS_Subset
<1>3. ASSUME Bad # {} PROVE FALSE
  <2>1. PICK T \in Bad : \A U \in Bad : Cardinality(T) <= Cardinality(U)
    BY <1>2, <1>3, Smallest
  <2>2. T \in SUBSET S /\ ~ Ok(T)
    OBVIOUS
  <2>3. CASE T = {}
    <3>1. Un({}) = {}
      OBVIOUS
    <3>2. {} \in SUBSET S
      OBVIOUS
    <3>3. g[{}] = IF {} = {} THEN 0 ELSE F[Pick({})] + g[{} \ {Pick({})}]
      BY <1>1, <3>2, AddsAt
    <3>4. g[{}] = 0
      BY <3>3
    <3>5. Ok({})
      <4>1. IsFiniteSet({}) /\ Cardinality({}) = 0
        BY FS_EmptySet
      <4>2. IsFiniteSet(Un({})) /\ Cardinality(Un({})) = 0
        BY <3>1, <4>1
      <4> HIDE DEF Un
      <4>3. QED BY <3>4, <4>2
    <3>6. QED BY <2>2, <2>3, <3>5
  <2>4. CASE T # {}
    <3> DEFINE x == Pick(T)
               U == T \ {x}
    <3>1. /\ x \in T /\ x \in S /\ U \in SUBSET S /\ Cardinality(T) \in Nat
          /\ Cardinality(U) = Cardinality(T) - 1
      BY <1>2, <2>2, <2>4, RestSmaller
    <3>2. U \notin Bad
      <4>1. ~ (Cardinality(T) <= Cardinality(U))
        BY <3>1
      <4>2. QED BY <2>1, <4>1
    <3>3. Ok(U)
      BY <3>1, <3>2
    <3>4. g[T] = F[x] + g[U]
      <4>1. T \in SUBSET S
        BY <2>2
      <4>2. g[T] = IF T = {} THEN 0 ELSE F[Pick(T)] + g[T \ {Pick(T)}]
        BY <1>1, <4>1, AddsAt
      <4>3. QED BY <2>4, <4>2
    <3>5. Un(T) = H[x] \cup Un(U)
      BY <3>1
    <3> HIDE DEF U, x, Un
    <3>6. /\ IsFiniteSet(H[x]) /\ IsFiniteSet(Un(U))
          /\ Cardinality(H[x]) <= F[x] /\ Cardinality(Un(U)) <= g[U]
          /\ F[x] \in Int /\ g[U] \in Int
      BY <3>1, <3>3
    <3>7. /\ IsFiniteSet(H[x] \cup Un(U)) /\ IsFiniteSet(H[x] \cap Un(U))
          /\ Cardinality(H[x] \cup Un(U)) =
               Cardinality(H[x]) + Cardinality(Un(U)) - Cardinality(H[x] \cap Un(U))
      BY <3>6, FS_Union, FS_Intersection
    <3>8. /\ Cardinality(H[x]) \in Nat /\ Cardinality(Un(U)) \in Nat
          /\ Cardinality(H[x] \cap Un(U)) \in Nat
      BY <3>6, <3>7, FS_CardinalityType
    <3>9. Cardinality(Un(T)) <= g[T] /\ g[T] \in Int
      BY <3>4, <3>5, <3>6, <3>7, <3>8
    <3>10. QED BY <2>2, <3>5, <3>7, <3>9
  <2>5. QED BY <2>3, <2>4
<1>4. Ok(S)
  BY <1>3
<1>5. g[S] = Total(F, S)
  BY <1>1, AddsUnique
<1>6. QED BY <1>4, <1>5

(***************************************************************************)
(* The invariant.                                                          *)
(***************************************************************************)

uncounted == [w \in Worker |-> Uncounted(w)]
calling == [w \in Worker |-> Calling(w)]

Types ==
  /\ main \in {"read", "put", "wait", "done", "panicked"}
  /\ pos \in 0 .. Len(File) /\ rowCount \in Nat
  /\ main = "put" => pos \in Row
  /\ jobs \in Seq(Row) /\ closed \in BOOLEAN
  /\ worker \in [Worker -> {"receive", "send", "call", "report", "done"}]
  /\ batch \in [Worker -> Seq(Row)]
  /\ totalSent \in Nat /\ totalErrors \in Nat
  /\ requests \subseteq [by : Worker, events : Seq(Row)]
  /\ replies \subseteq [by : Worker, events : Seq(Row)]
  /\ created \in [Row -> Nat]

\* A worker ends with nothing in its hands, when nothing can come any more;
\* main reports when all have ended.
Ended ==
  /\ closed => main \in {"wait", "done"}
  /\ \A w \in Worker : worker[w] = "done" => closed /\ jobs = <<>> /\ batch[w] = <<>>
  /\ main = "done" => \A w \in Worker : worker[w] = "done"

Counted == rowCount = Len(jobs) + totalSent + totalErrors + Total(uncounted, Worker)

\* The rows that main puts in the channel: with a service, and the first of
\* their id.  Put are those it has put there so far.
Fresh(n) == /\ File[n].service # Nil
            /\ \A m \in 1 .. (n - 1) : File[m].service # Nil => File[m].id # File[n].id
Seen == IF main \in {"put", "panicked"} THEN pos - 1 ELSE pos
Put == {n \in Row : n <= Seen /\ Fresh(n)}

Reading ==
  /\ saw = {File[m].id : m \in {k \in Row : k <= pos /\ File[k].service # Nil}}
  /\ main = "put" => Fresh(pos)

\* Each row that was put is at one place: in the channel, in the hands of one
\* worker, or gone, which is counted.
Distinct(s) == \A i, j \in DOMAIN s : s[i] = s[j] => i = j
Rows(s) == {s[i] : i \in DOMAIN s}
Held(w) == IF worker[w] = "report" THEN {} ELSE Rows(batch[w])
Gone == {n \in Put : n \notin Rows(jobs) /\ \A w \in Worker : n \notin Held(w)}

Apart ==
  /\ Distinct(jobs) /\ Rows(jobs) \subseteq Put
  /\ \A w \in Worker : /\ Distinct(batch[w]) /\ Held(w) \subseteq Put
                       /\ Held(w) \cap Rows(jobs) = {}
  /\ \A v, w \in Worker : v # w => Held(v) \cap Held(w) = {}

\* The server has seen rows that are gone or whose call goes on, each in one
\* request, and has made one event of each row of an answered request.
Made == {n \in Row : created[n] > 0}
Out(n) == n \in Gone \/ \E w \in Worker : worker[w] = "call" /\ n \in Rows(batch[w])

Served ==
  /\ \A n \in Row : created[n] <= 1
  /\ \A n \in Made : Out(n)
  /\ \A r \in requests : /\ Distinct(r.events) /\ Rows(r.events) \cap Made = {}
                         /\ \A n \in Rows(r.events) : Out(n)
  /\ \A q, r \in requests : q # r => Rows(q.events) \cap Rows(r.events) = {}
  /\ \A r \in replies : Rows(r.events) \subseteq Made

\* Every row that is gone was counted once, and every row counted as sent is
\* one of those that were made.
Tallied ==
  /\ Cardinality(Gone) = totalSent + totalErrors
  /\ totalSent <= Cardinality(Made \cap Gone)

IInv == Types /\ Ended /\ Counted /\ Reading /\ Apart /\ Served /\ Tallied

\* The model's sum over the workers is that sum.
LEMMA SumUncounted ==
  ASSUME IsFiniteSet(Worker), uncounted \in [Worker -> Int]
  PROVE  MapThenSumSet(Uncounted, Worker) = Total(uncounted, Worker)
<1> DEFINE P(g) == g = [s \in SUBSET Worker |->
                          IF s = {} THEN 0
                          ELSE Uncounted(CHOOSE x \in s : TRUE)
                               + g[s \ {CHOOSE x \in s : TRUE}]]
           f == CHOOSE g : P(g)
<1>1. MapThenSumSet(Uncounted, Worker) = f[Worker]
  BY DEF MapThenSumSet, MapThenFoldSet
<1>2. \A s \in SUBSET Worker : s # {} =>
         Uncounted(CHOOSE x \in s : TRUE) = uncounted[Pick(s)]
  BY DEF uncounted, Pick
<1>3. ASSUME NEW g PROVE P(g) <=> Adds(g, uncounted, Worker)
  <2> DEFINE A(s) == IF s = {} THEN 0
                     ELSE Uncounted(CHOOSE x \in s : TRUE) + g[s \ {CHOOSE x \in s : TRUE}]
             B(s) == IF s = {} THEN 0
                     ELSE uncounted[Pick(s)] + g[s \ {Pick(s)}]
  <2>1. \A s \in SUBSET Worker : A(s) = B(s)
    BY <1>2 DEF Pick
  <2>2. P(g) <=> g = [s \in SUBSET Worker |-> A(s)]
    OBVIOUS
  <2>3. Adds(g, uncounted, Worker) <=> g = [s \in SUBSET Worker |-> B(s)]
    BY DEF Adds
  <2> HIDE DEF A, B
  <2>4. [s \in SUBSET Worker |-> A(s)] = [s \in SUBSET Worker |-> B(s)]
    BY <2>1
  <2>5. QED BY <2>2, <2>3, <2>4
<1> HIDE DEF P
<1>4. \E g : P(g)
  BY <1>3, AddsExists
<1>5. Adds(f, uncounted, Worker)
  BY <1>3, <1>4
<1>6. QED BY <1>1, <1>5, AddsUnique
\* The same of the other sum.
LEMMA SumCalling ==
  ASSUME IsFiniteSet(Worker), calling \in [Worker -> Int]
  PROVE  MapThenSumSet(Calling, Worker) = Total(calling, Worker)
<1> DEFINE P(g) == g = [s \in SUBSET Worker |->
                          IF s = {} THEN 0
                          ELSE Calling(CHOOSE x \in s : TRUE)
                               + g[s \ {CHOOSE x \in s : TRUE}]]
           f == CHOOSE g : P(g)
<1>1. MapThenSumSet(Calling, Worker) = f[Worker]
  BY DEF MapThenSumSet, MapThenFoldSet
<1>2. \A s \in SUBSET Worker : s # {} =>
         Calling(CHOOSE x \in s : TRUE) = calling[Pick(s)]
  BY DEF calling, Pick
<1>3. ASSUME NEW g PROVE P(g) <=> Adds(g, calling, Worker)
  <2> DEFINE A(s) == IF s = {} THEN 0
                     ELSE Calling(CHOOSE x \in s : TRUE) + g[s \ {CHOOSE x \in s : TRUE}]
             B(s) == IF s = {} THEN 0
                     ELSE calling[Pick(s)] + g[s \ {Pick(s)}]
  <2>1. \A s \in SUBSET Worker : A(s) = B(s)
    BY <1>2 DEF Pick
  <2>2. P(g) <=> g = [s \in SUBSET Worker |-> A(s)]
    OBVIOUS
  <2>3. Adds(g, calling, Worker) <=> g = [s \in SUBSET Worker |-> B(s)]
    BY DEF Adds
  <2> HIDE DEF A, B
  <2>4. [s \in SUBSET Worker |-> A(s)] = [s \in SUBSET Worker |-> B(s)]
    BY <2>1
  <2>5. QED BY <2>2, <2>3, <2>4
<1> HIDE DEF P
<1>4. \E g : P(g)
  BY <1>3, AddsExists
<1>5. Adds(f, calling, Worker)
  BY <1>3, <1>4
<1>6. QED BY <1>1, <1>5, AddsUnique

(***************************************************************************)
(* Sequences and the sets of their elements.                               *)
(***************************************************************************)

\* Appending an element adds it.
LEMMA RowsAppend ==
  ASSUME NEW S, NEW s \in Seq(S), NEW e \in S
  PROVE  /\ Rows(Append(s, e)) = Rows(s) \cup {e}
         /\ Distinct(s) /\ e \notin Rows(s) => Distinct(Append(s, e))
<1> DEFINE t == Append(s, e)
<1>1. /\ DOMAIN s = 1 .. Len(s) /\ DOMAIN t = 1 .. Len(s) + 1 /\ Len(s) \in Nat
      /\ \A i \in 1 .. Len(s) : t[i] = s[i]
      /\ t[Len(s) + 1] = e
  BY AppendProperties, LenProperties
<1> HIDE DEF t
<1>2. Rows(t) = Rows(s) \cup {e}
  BY <1>1 DEF Rows
<1>3. ASSUME Distinct(s), e \notin Rows(s) PROVE Distinct(t)
  BY <1>1, <1>3 DEF Distinct, Rows
<1>4. QED BY <1>2, <1>3 DEF t

\* Taking the first of a sequence takes its element.
LEMMA RowsTail ==
  ASSUME NEW S, NEW s \in Seq(S), s # <<>>
  PROVE  /\ Rows(s) = Rows(Tail(s)) \cup {Head(s)} /\ Head(s) \in S
         /\ Distinct(s) => Distinct(Tail(s)) /\ Head(s) \notin Rows(Tail(s))
<1> DEFINE t == Tail(s)
           h == Head(s)
<1>1. /\ DOMAIN s = 1 .. Len(s) /\ DOMAIN t = 1 .. Len(t)
      /\ Len(s) \in Nat /\ Len(t) \in Nat /\ Len(t) = Len(s) - 1
      /\ \A i \in 1 .. Len(t) : t[i] = s[i + 1]
      /\ h = s[1] /\ h \in S
  BY HeadTailProperties, LenProperties
<1> HIDE DEF t, h
<1>2. \A i \in 1 .. Len(s) : i = 1 \/ (i - 1 \in 1 .. Len(t) /\ s[i] = t[i - 1])
  <2>1. ASSUME NEW i \in 1 .. Len(s), i # 1
        PROVE  i - 1 \in 1 .. Len(t) /\ s[i] = t[i - 1]
    <3>1. i - 1 \in 1 .. Len(t) /\ (i - 1) + 1 = i
      BY <1>1, <2>1
    <3>2. QED BY <1>1, <3>1
  <2>2. QED BY <2>1
<1>3. \A i \in 1 .. Len(t) : i + 1 \in 1 .. Len(s) /\ i + 1 # 1
  BY <1>1
<1>4. 1 \in 1 .. Len(s)
  BY <1>1
<1>5. Rows(s) = Rows(t) \cup {h}
  <2>1. ASSUME NEW i \in 1 .. Len(s) PROVE s[i] \in Rows(t) \cup {h}
    BY <1>1, <1>2 DEF Rows
  <2>2. ASSUME NEW i \in 1 .. Len(t) PROVE t[i] \in Rows(s)
    BY <1>1, <1>3 DEF Rows
  <2>3. h \in Rows(s)
    BY <1>1, <1>4 DEF Rows
  <2>4. QED BY <1>1, <2>1, <2>2, <2>3 DEF Rows
<1>6. ASSUME Distinct(s) PROVE Distinct(t) /\ h \notin Rows(t)
  <2>1. \A i, j \in 1 .. Len(t) : t[i] = t[j] => i + 1 = j + 1
    BY <1>1, <1>3, <1>6 DEF Distinct
  <2>2. Distinct(t)
    BY <1>1, <2>1 DEF Distinct
  <2>3. \A i \in 1 .. Len(t) : t[i] # h
    BY <1>1, <1>3, <1>4, <1>6 DEF Distinct
  <2>4. QED BY <1>1, <2>2, <2>3 DEF Rows
<1>7. QED BY <1>1, <1>5, <1>6 DEF t, h

\* The elements of a sequence are at most as many as its length, and as many
\* when they are distinct.
LEMMA RowsCount ==
  ASSUME NEW S, NEW s \in Seq(S)
  PROVE  /\ IsFiniteSet(Rows(s)) /\ Cardinality(Rows(s)) \in Nat
         /\ Cardinality(Rows(s)) <= Len(s)
         /\ Distinct(s) => Cardinality(Rows(s)) = Len(s)
<1>1. DOMAIN s = 1 .. Len(s) /\ Len(s) \in Nat
  BY LenProperties
<1>2. IsFiniteSet(1 .. Len(s)) /\ Cardinality(1 .. Len(s)) = Len(s)
  BY <1>1, FS_Interval
<1>3. s \in Surjection(1 .. Len(s), Rows(s))
  BY <1>1, SeqOfRange DEF Surjection, Rows
<1>4. /\ IsFiniteSet(Rows(s)) /\ Cardinality(Rows(s)) <= Len(s)
      /\ Cardinality(Rows(s)) \in Nat
  BY <1>2, <1>3, FS_Surjection, FS_CardinalityType
<1>5. ASSUME Distinct(s) PROVE Cardinality(Rows(s)) = Len(s)
  <2>1. s \in Bijection(1 .. Len(s), Rows(s))
    BY <1>1, <1>3, <1>5 DEF Bijection, Injection, IsInjective, Distinct, Surjection
  <2>2. ExistsBijection(1 .. Len(s), Rows(s))
    BY <2>1 DEF ExistsBijection
  <2>3. QED BY <1>2, <2>2, FS_Bijection
<1>6. QED BY <1>4, <1>5

(***************************************************************************)
(* Types, ends and counts.                                                 *)
(***************************************************************************)

\* What a step of worker w leaves to the others.
LEMMA OwnStep ==
  ASSUME Types, NEW w \in Worker, Work(w)
  PROVE  /\ \A x \in Worker \ {w} : worker'[x] = worker[x] /\ batch'[x] = batch[x]
         /\ main # "panicked" /\ UNCHANGED mainVars
BY DEF Types, Work, Receive, RangeEnds, Send, Succeed, ReportDuration, Fail, Goto,
       Running

LEMMA TypesStep ==
  ASSUME Types, [Next]_vars
  PROVE  Types'
<1>1. CASE Produce
  <2>1. CASE ReadRow
    <3>1. pos' \in Row /\ pos' \in 0 .. Len(File)
      BY <2>1, LoaderAssumption DEF Types, ReadRow, Row
    <3>2. main' \in {"read", "put", "panicked"}
      BY <2>1 DEF ReadRow
    <3>3. QED BY <2>1, <3>1, <3>2 DEF Types, ReadRow, workerVars, serverVars
  <2>2. CASE PutJob
    BY <2>2 DEF Types, PutJob, workerVars, serverVars
  <2>3. CASE ReadEnds
    BY <2>3 DEF Types, ReadEnds, workerVars, serverVars
  <2>4. CASE Report
    BY <2>4 DEF Types, Report, workerVars, serverVars
  <2>5. QED BY <1>1, <2>1, <2>2, <2>3, <2>4 DEF Produce
<1>2. CASE Serve
  <2>1. PICK r \in requests : Create(r) \/ Lose(r)
    BY <1>2 DEF Serve
  <2>2. CASE Create(r)
    <3>1. DOMAIN r.events = 1 .. Len(r.events) /\ Len(r.events) \in Nat
      BY LenProperties DEF Types
    <3>2. IsFiniteSet(DOMAIN r.events)
      BY <3>1, FS_Interval
    <3>3. \A n \in Row :
            Cardinality({k \in DOMAIN r.events : r.events[k] = n}) \in Nat
      BY <3>2, FS_Subset, FS_CardinalityType
    <3>4. created' \in [Row -> Nat]
      <4>1. created' = [n \in Row |-> created[n]
              + Cardinality({k \in DOMAIN r.events : r.events[k] = n})]
        BY <2>2 DEF Create
      <4>2. \A n \in Row : created[n]
              + Cardinality({k \in DOMAIN r.events : r.events[k] = n}) \in Nat
        BY <3>3 DEF Types
      <4>3. QED BY <4>1, <4>2
    <3>5. QED BY <2>2, <3>4 DEF Types, Create, mainVars, workerVars
  <2>3. CASE Lose(r)
    BY <2>3 DEF Types, Lose, mainVars, workerVars
  <2>4. QED BY <2>1, <2>2, <2>3
<1>3. ASSUME NEW w \in Worker, Work(w) PROVE Types'
  <2>1. CASE Receive(w)
    <3>1. Head(jobs) \in Row /\ Tail(jobs) \in Seq(Row)
      BY <2>1, HeadTailProperties DEF Types, Receive
    <3>2. Append(batch[w], Head(jobs)) \in Seq(Row)
      BY <3>1, AppendProperties DEF Types
    <3>3. QED BY <2>1, <3>1, <3>2 DEF Types, Receive, Goto, mainVars, serverVars
  <2>2. CASE RangeEnds(w)
    BY <2>2 DEF Types, RangeEnds, Goto, mainVars, serverVars
  <2>3. CASE Send(w)
    BY <2>3 DEF Types, Send, Goto, mainVars
  <2>4. CASE Succeed(w)
    BY <2>4, LenProperties DEF Types, Succeed, Goto, mainVars, serverVars
  <2>5. CASE ReportDuration(w)
    BY <2>5, EmptySeq DEF Types, ReportDuration, Goto, mainVars, serverVars
  <2>6. CASE Fail(w)
    BY <2>6, EmptySeq, LenProperties DEF Types, Fail, Goto, mainVars, serverVars
  <2>7. QED BY <1>3, <2>1, <2>2, <2>3, <2>4, <2>5, <2>6 DEF Work
<1>4. CASE UNCHANGED vars
  BY <1>4 DEF Types, vars, mainVars, workerVars, serverVars
<1>5. QED BY <1>1, <1>2, <1>3, <1>4 DEF Next

LEMMA EndedStep ==
  ASSUME Types, Ended, [Next]_vars
  PROVE  Ended'
<1>1. CASE Produce
  BY <1>1 DEF Types, Ended, Produce, ReadRow, PutJob, ReadEnds, Report, workerVars,
              serverVars
<1>2. CASE Serve
  BY <1>2 DEF Ended, Serve, Create, Lose, mainVars, workerVars
<1>3. ASSUME NEW w \in Worker, Work(w) PROVE Ended'
  <2>1. /\ \A x \in Worker \ {w} : worker'[x] = worker[x] /\ batch'[x] = batch[x]
        /\ UNCHANGED mainVars
    BY <1>3, OwnStep
  <2>2. worker[w] # "done"
    BY <1>3 DEF Work, Receive, RangeEnds, Send, Succeed, ReportDuration, Fail
  <2>3. jobs' = jobs \/ jobs # <<>>
    BY <1>3 DEF Work, Receive, RangeEnds, Send, Succeed, ReportDuration, Fail
  <2>4. worker'[w] = "done" => closed /\ jobs' = <<>> /\ batch'[w] = <<>>
    BY <1>3 DEF Types, Work, Receive, RangeEnds, Send, Succeed, ReportDuration, Fail,
                Goto
  <2>5. QED BY <2>1, <2>2, <2>3, <2>4 DEF Ended, mainVars
<1>4. CASE UNCHANGED vars
  BY <1>4 DEF Ended, vars, mainVars, workerVars
<1>5. QED BY <1>1, <1>2, <1>3, <1>4 DEF Next

\* What a step of worker w does to the counts.
LEMMA OwnCount ==
  ASSUME Types, NEW w \in Worker, Work(w)
  PROVE  uncounted'[w] + (Len(jobs') + totalSent' + totalErrors')
           = uncounted[w] + (Len(jobs) + totalSent + totalErrors)
<1> DEFINE b == Len(batch[w])
           j == Len(jobs)
           t == totalSent
           e == totalErrors
<1>1. /\ uncounted[w] = Uncounted(w) /\ uncounted'[w] = Uncounted(w)'
      /\ batch[w] \in Seq(Row) /\ b \in Nat /\ j \in Nat /\ t \in Nat /\ e \in Nat
  BY LenProperties DEF uncounted, Types
<1>2. CASE Receive(w)
  <2>1. Len(jobs') = j - 1 /\ Head(jobs) \in Row
    BY <1>2, HeadTailProperties DEF Types, Receive
  <2>2. batch'[w] = Append(batch[w], Head(jobs))
    BY <1>2 DEF Types, Receive
  <2>3. Len(batch'[w]) = b + 1
    BY <1>1, <2>1, <2>2, AppendProperties
  <2>4. worker[w] # "report" /\ worker'[w] # "report"
    BY <1>2 DEF Types, Receive, Goto
  <2>5. uncounted[w] = b /\ uncounted'[w] = b + 1
    BY <1>1, <2>3, <2>4 DEF Uncounted
  <2>6. totalSent' = t /\ totalErrors' = e
    BY <1>2 DEF Receive
  <2> HIDE DEF b, j, t, e
  <2>7. (b + 1) + ((j - 1) + t + e) = b + (j + t + e)
    BY <1>1
  <2>8. QED BY <2>1, <2>5, <2>6, <2>7 DEF j, t, e
<1>3. CASE RangeEnds(w)
  BY <1>1, <1>3 DEF Types, RangeEnds, Goto, Uncounted
<1>4. CASE Send(w)
  BY <1>1, <1>4 DEF Types, Send, Goto, Uncounted
<1>5. CASE Succeed(w)
  <2>1. uncounted[w] = b /\ uncounted'[w] = 0
    BY <1>1, <1>5 DEF Types, Succeed, Goto, Uncounted
  <2>2. Len(jobs') = j /\ totalSent' = t + b /\ totalErrors' = e
    BY <1>5 DEF Succeed
  <2> HIDE DEF b, j, t, e
  <2>3. 0 + (j + (t + b) + e) = b + (j + t + e)
    BY <1>1
  <2>4. QED BY <2>1, <2>2, <2>3 DEF j, t, e
<1>6. CASE ReportDuration(w)
  <2>1. uncounted[w] = 0 /\ uncounted'[w] = 0
    BY <1>1, <1>6, EmptySeq DEF Types, ReportDuration, Goto, Uncounted
  <2>2. QED BY <1>1, <1>6, <2>1 DEF ReportDuration
<1>7. CASE Fail(w)
  <2>1. uncounted[w] = b /\ uncounted'[w] = 0
    BY <1>1, <1>7, EmptySeq DEF Types, Fail, Goto, Uncounted
  <2>2. Len(jobs') = j /\ totalSent' = t /\ totalErrors' = e + b
    BY <1>7 DEF Fail
  <2> HIDE DEF b, j, t, e
  <2>3. 0 + (j + t + (e + b)) = b + (j + t + e)
    BY <1>1
  <2>4. QED BY <2>1, <2>2, <2>3 DEF j, t, e
<1>8. QED BY <1>2, <1>3, <1>4, <1>5, <1>6, <1>7 DEF Work

LEMMA UncountedType ==
  ASSUME Types
  PROVE  uncounted \in [Worker -> Int]
<1>1. \A w \in Worker : Len(batch[w]) \in Int /\ 0 \in Int
  BY LenProperties DEF Types
<1>2. \A w \in Worker : Uncounted(w) \in Int
  BY <1>1 DEF Uncounted
<1>3. QED BY <1>2 DEF uncounted

LEMMA CountedStep ==
  ASSUME Types, Types', Counted, [Next]_vars
  PROVE  Counted'
<1>1. /\ uncounted \in [Worker -> Int] /\ uncounted' \in [Worker -> Int]
      /\ IsFiniteSet(Worker)
  <2>1. uncounted \in [Worker -> Int]
    BY UncountedType
  <2>2. (uncounted \in [Worker -> Int])'
    BY UncountedType, PTL
  <2>3. QED BY <2>1, <2>2, LoaderAssumption
<1>2. /\ rowCount \in Nat /\ Len(jobs) \in Nat /\ Len(jobs') \in Nat
      /\ totalSent \in Nat /\ totalErrors \in Nat
      /\ totalSent' \in Nat /\ totalErrors' \in Nat
  BY LenProperties DEF Types
<1>3. CASE UNCHANGED <<rowCount, jobs, totalSent, totalErrors, worker, batch>>
  <2>1. uncounted' = uncounted
    BY <1>3 DEF uncounted, Uncounted
  <2>2. QED BY <1>3, <2>1 DEF Counted
<1>4. CASE PutJob
  <2>1. uncounted' = uncounted
    BY <1>4 DEF uncounted, Uncounted, PutJob, workerVars
  <2>2. Len(jobs') = Len(jobs) + 1
    BY <1>4, AppendProperties DEF Types, PutJob
  <2>3. Total(uncounted, Worker) \in Int
    <3>1. PICK w \in Worker : TRUE
      BY LoaderAssumption
    <3>2. QED BY <1>1, TotalChange
  <2>4. /\ rowCount' = rowCount + 1 /\ totalSent' = totalSent
        /\ totalErrors' = totalErrors
    BY <1>4 DEF PutJob, workerVars
  <2>5. QED BY <1>2, <2>1, <2>2, <2>3, <2>4 DEF Counted
<1>5. ASSUME NEW w \in Worker, Work(w) PROVE Counted'
  <2>1. \A x \in Worker \ {w} : uncounted'[x] = uncounted[x]
    BY <1>5, OwnStep DEF uncounted, Uncounted
  <2>2. /\ Total(uncounted, Worker) \in Int
        /\ Total(uncounted', Worker)
             = Total(uncounted, Worker) + (uncounted'[w] - uncounted[w])
    BY <1>1, <2>1, TotalChange
  <2>3. uncounted[w] \in Int /\ uncounted'[w] \in Int
    BY <1>1
  <2>4. uncounted'[w] + (Len(jobs') + totalSent' + totalErrors')
          = uncounted[w] + (Len(jobs) + totalSent + totalErrors)
    BY <1>5, OwnCount
  <2>5. rowCount' = rowCount
    BY <1>5, OwnStep DEF mainVars
  <2>6. rowCount = Len(jobs) + totalSent + totalErrors + Total(uncounted, Worker)
    BY DEF Counted
  <2>7. rowCount' = Len(jobs') + totalSent' + totalErrors' + Total(uncounted', Worker)
    <3> DEFINE a == Len(jobs) + totalSent + totalErrors
               b == Len(jobs') + totalSent' + totalErrors'
               t == Total(uncounted, Worker)
               u == Total(uncounted', Worker)
               k == uncounted[w]
               l == uncounted'[w]
    <3>1. a \in Int /\ b \in Int /\ t \in Int /\ k \in Int /\ l \in Int
      BY <1>2, <2>2, <2>3
    <3>2. l + b = k + a
      BY <1>2, <2>3, <2>4
    <3>3. u = t + (l - k) /\ rowCount = a + t
      BY <2>2, <2>6
    <3> HIDE DEF a, b, t, u, k, l
    <3>4. rowCount = b + u
      BY <3>1, <3>2, <3>3
    <3>5. QED BY <2>5, <3>4 DEF b, u
  <2>8. QED BY <2>7 DEF Counted
<1>6. \/ UNCHANGED <<rowCount, jobs, totalSent, totalErrors, worker, batch>>
      \/ PutJob \/ \E w \in Worker : Work(w)
  BY DEF Next, Produce, ReadRow, ReadEnds, Report, Serve, Create, Lose, vars, mainVars,
         workerVars
<1>7. QED BY <1>3, <1>4, <1>5, <1>6

Conserved == Types /\ Ended /\ Counted

LEMMA ConservedInit ==
  ASSUME Init PROVE Conserved
<1>1. Types
  <2>1. pos \in 0 .. Len(File)
    BY LoaderAssumption DEF Init
  <2>2. /\ worker \in [Worker -> {"receive", "send", "call", "report", "done"}]
        /\ created \in [Row -> Nat]
    BY DEF Init
  <2>3. <<>> \in Seq(Row) /\ batch \in [Worker -> Seq(Row)]
    BY EmptySeq DEF Init
  <2>4. QED BY <2>1, <2>2, <2>3 DEF Init, Types
<1>2. Ended
  BY DEF Init, Ended
<1>3. Counted
  <2>1. uncounted \in [Worker -> Int] /\ IsFiniteSet(Worker)
    BY <1>1, UncountedType, LoaderAssumption
  <2>2. \A w \in Worker : uncounted[w] = 0
    BY EmptySeq DEF Init, uncounted, Uncounted
  <2>3. Total(uncounted, Worker) = 0
    BY <2>1, <2>2, TotalZero
  <2>4. QED BY <2>3, EmptySeq DEF Init, Counted
<1>4. QED BY <1>1, <1>2, <1>3 DEF Conserved

\* A job is in the channel, in one worker's hands, or counted once, as sent or
\* as an error, whatever workers and timeouts race, and the report counts every
\* job (main.go:101-130, 186-193, 204-209).
THEOREM EveryJobCounted == Spec => []JobsConserved
<1>1. Conserved /\ [Next]_vars => Conserved'
  BY TypesStep, EndedStep, CountedStep DEF Conserved
<1>2. Conserved => JobsConserved
  <2>1. ASSUME Conserved PROVE JobsConserved
    <3>1. uncounted \in [Worker -> Int] /\ IsFiniteSet(Worker) /\ Worker # {}
      BY <2>1, UncountedType, LoaderAssumption DEF Conserved
    <3>2. MapThenSumSet(Uncounted, Worker) = Total(uncounted, Worker)
      BY <3>1, SumUncounted
    <3>3. ASSUME main = "done" PROVE totalSent + totalErrors = rowCount
      <4>1. jobs = <<>> /\ \A w \in Worker : batch[w] = <<>>
        BY <2>1, <3>1, <3>3 DEF Conserved, Ended
      <4>2. \A w \in Worker : uncounted[w] = 0
        BY <4>1, EmptySeq DEF uncounted, Uncounted
      <4>3. Total(uncounted, Worker) = 0
        BY <3>1, <4>2, TotalZero
      <4>4. QED BY <2>1, <4>1, <4>3, EmptySeq DEF Conserved, Counted, Types
    <3>4. QED BY <2>1, <3>2, <3>3 DEF Conserved, Counted, JobsConserved
  <2>2. QED BY <2>1
<1>3. QED BY ConservedInit, <1>1, <1>2, PTL DEF Spec

(***************************************************************************)
(* Rows: where each of them is.                                            *)
(***************************************************************************)

LEMMA RowInterval == Row = 1 .. Len(File) /\ Len(File) \in Nat
BY LoaderAssumption DEF Row

LEMMA ReadingStep ==
  ASSUME Types, Reading, [Next]_vars
  PROVE  Reading'
<1>1. CASE ReadRow
  <2> DEFINE p == pos + 1
             With(n) == {k \in Row : k <= n /\ File[k].service # Nil}
  <2>1. p \in Row /\ pos' = p /\ pos \in Nat
    BY <1>1, RowInterval DEF Types, ReadRow
  <2>2. With(p) = With(pos) \cup (IF File[p].service # Nil THEN {p} ELSE {})
    BY <2>1, RowInterval
  <2>3. saw = {File[m].id : m \in With(pos)}
    BY DEF Reading
  <2>4. CASE File[p].service = Nil \/ File[p].id \in saw
    <3>1. saw' = saw /\ main' = main /\ main # "put"
      BY <1>1, <2>4 DEF ReadRow
    <3> HIDE DEF With
    <3>2. {File[m].id : m \in With(p)} = saw
      BY <2>2, <2>3, <2>4
    <3>3. QED BY <2>1, <3>1, <3>2 DEF Reading, With
  <2>5. CASE File[p].service # Nil /\ File[p].id \notin saw
    <3>1. saw' = saw \cup {File[p].id}
      BY <1>1, <2>5 DEF ReadRow
    <3>2. \A m \in 1 .. (p - 1) : m \in With(pos) \/ File[m].service = Nil
      BY <2>1, RowInterval
    <3> HIDE DEF With
    <3>3. {File[m].id : m \in With(p)} = saw'
      BY <2>2, <2>3, <2>5, <3>1
    <3>4. Fresh(p)
      BY <2>3, <2>5, <3>2 DEF Fresh
    <3>5. QED BY <2>1, <3>3, <3>4 DEF Reading, With
  <2>6. QED BY <2>4, <2>5
<1>2. CASE UNCHANGED <<saw, pos>> /\ (main' = main \/ main' # "put")
  BY <1>2 DEF Reading
<1>3. ReadRow \/ (UNCHANGED <<saw, pos>> /\ (main' = main \/ main' # "put"))
  BY DEF Next, Produce, PutJob, ReadEnds, Report, Serve, Create, Lose, Work, Receive,
         RangeEnds, Send, Succeed, ReportDuration, Fail, vars, mainVars
<1>4. QED BY <1>1, <1>2, <1>3

\* Only PutJob puts, and it puts a row that was not put before.
LEMMA PutStep ==
  ASSUME Types, Reading, [Next]_vars
  PROVE  /\ PutJob => Put' = Put \cup {pos} /\ pos \in Row \ Put
         /\ ~ PutJob => Put' = Put
<1>1. \A n \in Row : n \in Nat
  BY RowInterval
<1>2. ASSUME PutJob PROVE Put' = Put \cup {pos} /\ pos \in Row \ Put
  <2>1. pos \in Row /\ Fresh(pos) /\ Seen = pos - 1 /\ Seen' = pos
    BY <1>2 DEF Types, Reading, PutJob, Seen
  <2>2. \A n \in Row : n <= pos <=> n <= pos - 1 \/ n = pos
    BY <1>1, <2>1
  <2>3. ~ (pos <= pos - 1)
    BY <1>1, <2>1
  <2>4. QED BY <2>1, <2>2, <2>3 DEF Put
<1>3. CASE ReadRow
  <2> DEFINE p == pos + 1
  <2>1. p \in Row /\ pos' = p /\ pos \in Nat /\ Seen = pos
    BY <1>3, RowInterval DEF Types, ReadRow, Seen
  <2>2. Seen' = pos \/ (Seen' = p /\ ~ Fresh(p))
    <3>1. CASE main' \in {"put", "panicked"}
      BY <2>1, <3>1 DEF Seen
    <3>2. CASE main' \notin {"put", "panicked"}
      <4>1. File[p].service = Nil \/ File[p].id \in saw
        BY <1>3, <3>2 DEF ReadRow
      <4>2. ASSUME File[p].service # Nil, Fresh(p) PROVE FALSE
        <5>1. PICK m \in Row : /\ m <= pos /\ File[m].service # Nil
                               /\ File[m].id = File[p].id
          BY <4>1, <4>2 DEF Reading
        <5>2. m \in 1 .. (p - 1)
          BY <2>1, <5>1, RowInterval
        <5>3. QED BY <4>2, <5>1, <5>2 DEF Fresh
      <4>3. ~ Fresh(p)
        BY <4>2 DEF Fresh
      <4>4. QED BY <2>1, <3>2, <4>3 DEF Seen
    <3>3. QED BY <3>1, <3>2
  <2>3. \A n \in Row : n <= p <=> n <= pos \/ n = p
    BY <1>1, <2>1
  <2>4. Put' = Put
    BY <2>1, <2>2, <2>3 DEF Put
  <2>5. ~ PutJob
    BY <1>3 DEF ReadRow, PutJob
  <2>6. QED BY <2>4, <2>5
<1>4. ASSUME ~ PutJob, ~ ReadRow PROVE Put' = Put
  <2>1. pos' = pos
    BY <1>4 DEF Next, Produce, ReadEnds, Report, Serve, Create, Lose, Work, Receive,
         RangeEnds, Send, Succeed, ReportDuration, Fail, vars, mainVars
  <2>2. main' = main
         \/ (main \notin {"put", "panicked"} /\ main' \notin {"put", "panicked"})
    BY <1>4 DEF Next, Produce, ReadEnds, Report, Serve, Create, Lose, Work, Receive,
         RangeEnds, Send, Succeed, ReportDuration, Fail, vars, mainVars
  <2>3. QED BY <2>1, <2>2 DEF Put, Seen
<1>5. QED BY <1>2, <1>3, <1>4

\* Where a step of worker w moves rows: one from the channel to its hands, or
\* all out of its hands.
LEMMA OwnHeld ==
  ASSUME Types, NEW w \in Worker, Work(w)
  PROVE  /\ \A x \in Worker \ {w} : Held(x)' = Held(x)
         /\ Receive(w) =>
              /\ Held(w)' = Held(w) \cup {Head(jobs)}
              /\ Rows(jobs) = Rows(jobs') \cup {Head(jobs)} /\ Head(jobs) \in Row
              /\ Distinct(jobs) => Distinct(jobs') /\ Head(jobs) \notin Rows(jobs')
              /\ Distinct(batch[w]) /\ Head(jobs) \notin Held(w) => Distinct(batch'[w])
         /\ ~ Receive(w) =>
              /\ jobs' = jobs /\ (Distinct(batch[w]) => Distinct(batch'[w]))
              /\ Held(w)' = IF Succeed(w) \/ Fail(w) THEN {} ELSE Held(w)
         /\ Succeed(w) \/ Fail(w) => Held(w) = Rows(batch[w])
<1>1. \A x \in Worker \ {w} : Held(x)' = Held(x)
  <2>1. \A x \in Worker \ {w} : worker'[x] = worker[x] /\ batch'[x] = batch[x]
    BY OwnStep
  <2>2. QED BY <2>1 DEF Held
<1>2. batch[w] \in Seq(Row) /\ jobs \in Seq(Row)
  BY DEF Types
<1>3. ASSUME Receive(w)
      PROVE  /\ Held(w)' = Held(w) \cup {Head(jobs)}
             /\ Rows(jobs) = Rows(jobs') \cup {Head(jobs)} /\ Head(jobs) \in Row
             /\ Distinct(jobs) => Distinct(jobs') /\ Head(jobs) \notin Rows(jobs')
             /\ Distinct(batch[w]) /\ Head(jobs) \notin Held(w) => Distinct(batch'[w])
  <2>1. /\ jobs # <<>> /\ jobs' = Tail(jobs)
        /\ batch'[w] = Append(batch[w], Head(jobs))
        /\ worker[w] # "report" /\ worker'[w] # "report"
    BY <1>3 DEF Types, Receive, Goto
  <2>2. /\ Rows(jobs) = Rows(jobs') \cup {Head(jobs)} /\ Head(jobs) \in Row
        /\ Distinct(jobs) => Distinct(jobs') /\ Head(jobs) \notin Rows(jobs')
    BY <1>2, <2>1, RowsTail
  <2>3. /\ Rows(batch'[w]) = Rows(batch[w]) \cup {Head(jobs)}
        /\ Distinct(batch[w]) /\ Head(jobs) \notin Rows(batch[w])
             => Distinct(batch'[w])
    BY <1>2, <2>1, <2>2, RowsAppend
  <2>4. Held(w) = Rows(batch[w]) /\ Held(w)' = Rows(batch'[w])
    BY <2>1 DEF Held
  <2>5. QED BY <2>2, <2>3, <2>4
<1>4. Distinct(<<>>) /\ Rows(<<>>) = {}
  BY DEF Distinct, Rows
<1>5. ASSUME ~ Receive(w)
      PROVE  /\ jobs' = jobs /\ (Distinct(batch[w]) => Distinct(batch'[w]))
             /\ Held(w)' = IF Succeed(w) \/ Fail(w) THEN {} ELSE Held(w)
  <2>1. CASE RangeEnds(w) \/ Send(w)
    <3>1. /\ jobs' = jobs /\ batch' = batch /\ worker[w] # "report"
          /\ worker'[w] # "report" /\ worker[w] # "call"
      BY <2>1 DEF Types, RangeEnds, Send, Goto
    <3>2. ~ (Succeed(w) \/ Fail(w))
      BY <3>1 DEF Succeed, Fail
    <3>3. QED BY <3>1, <3>2 DEF Held
  <2>2. CASE Succeed(w)
    <3>1. jobs' = jobs /\ batch' = batch /\ worker'[w] = "report"
      BY <2>2 DEF Types, Succeed, Goto
    <3>2. QED BY <2>2, <3>1 DEF Held
  <2>3. CASE Fail(w)
    <3>1. jobs' = jobs /\ batch'[w] = <<>>
      BY <2>3 DEF Types, Fail
    <3>2. QED BY <1>4, <2>3, <3>1 DEF Held
  <2>4. CASE ReportDuration(w)
    <3>1. jobs' = jobs /\ batch'[w] = <<>> /\ worker[w] = "report"
      BY <2>4 DEF Types, ReportDuration
    <3>2. ~ (Succeed(w) \/ Fail(w))
      BY <3>1 DEF Succeed, Fail
    <3>3. QED BY <1>4, <3>1, <3>2 DEF Held
  <2>5. QED BY <1>5, <2>1, <2>2, <2>3, <2>4 DEF Work
<1>6. Succeed(w) \/ Fail(w) => Held(w) = Rows(batch[w])
  BY DEF Succeed, Fail, Held
<1>7. QED BY <1>1, <1>3, <1>5, <1>6

LEMMA ApartStep ==
  ASSUME Types, Reading, Apart, [Next]_vars
  PROVE  Apart'
<1>1. CASE PutJob
  <2>1. /\ Put' = Put \cup {pos} /\ pos \in Row /\ pos \notin Put
        /\ jobs \in Seq(Row) /\ jobs' = Append(jobs, pos)
        /\ UNCHANGED <<worker, batch>>
    BY <1>1, PutStep DEF Types, PutJob, workerVars
  <2>2. /\ Rows(jobs') = Rows(jobs) \cup {pos} /\ Distinct(jobs')
    BY <2>1, RowsAppend DEF Apart
  <2>3. \A w \in Worker : Held(w)' = Held(w)
    BY <2>1 DEF Held
  <2>4. QED BY <2>1, <2>2, <2>3 DEF Apart
<1>2. CASE UNCHANGED <<jobs, worker, batch>> /\ ~ PutJob
  <2>1. Put' = Put /\ \A w \in Worker : Held(w)' = Held(w)
    BY <1>2, PutStep DEF Held
  <2>2. QED BY <1>2, <2>1 DEF Apart
<1>3. ASSUME NEW w \in Worker, Work(w) PROVE Apart'
  <2>1. Put' = Put
    <3>1. UNCHANGED mainVars
      BY <1>3, OwnStep
    <3>2. QED BY <3>1 DEF Put, Seen, mainVars
  <2>2. \A x \in Worker \ {w} : Held(x)' = Held(x) /\ batch'[x] = batch[x]
    BY <1>3, OwnHeld, OwnStep
  <2>3. CASE Receive(w)
    <3>1. /\ Held(w)' = Held(w) \cup {Head(jobs)}
          /\ Rows(jobs) = Rows(jobs') \cup {Head(jobs)}
          /\ Distinct(jobs) => Distinct(jobs') /\ Head(jobs) \notin Rows(jobs')
          /\ Distinct(batch[w]) /\ Head(jobs) \notin Held(w) => Distinct(batch'[w])
      BY <1>3, <2>3, OwnHeld
    <3>2. Distinct(jobs) /\ Rows(jobs) \subseteq Put
          /\ \A x \in Worker : Head(jobs) \notin Held(x)
      BY <3>1 DEF Apart
    <3>3. Distinct(jobs') /\ (Rows(jobs') \subseteq Put)
      BY <3>1, <3>2
    <3>4. \A x \in Worker : Distinct(batch'[x]) /\ Held(x)' \subseteq Put
                            /\ Held(x)' \cap Rows(jobs') = {}
      BY <2>2, <3>1, <3>2 DEF Apart
    <3>5. \A u, v \in Worker : u # v => Held(u)' \cap Held(v)' = {}
      BY <2>2, <3>1, <3>2 DEF Apart
    <3>6. QED BY <2>1, <3>3, <3>4, <3>5 DEF Apart
  <2>4. CASE ~ Receive(w)
    <3>1. /\ jobs' = jobs /\ (Distinct(batch[w]) => Distinct(batch'[w]))
          /\ Held(w)' \subseteq Held(w)
      BY <1>3, <2>4, OwnHeld
    <3>2. \A x \in Worker : Distinct(batch'[x]) /\ Held(x)' \subseteq Held(x)
      BY <2>2, <3>1 DEF Apart
    <3>3. QED BY <2>1, <3>1, <3>2 DEF Apart
  <2>5. QED BY <2>3, <2>4
<1>4. PutJob \/ (UNCHANGED <<jobs, worker, batch>> /\ ~ PutJob)
        \/ \E w \in Worker : Work(w)
  BY DEF Next, Produce, ReadRow, ReadEnds, Report, Serve, Create, Lose, vars, mainVars,
         workerVars
<1>5. QED BY <1>1, <1>2, <1>3, <1>4

\* A row goes when the call of the worker that holds it ends.
LEMMA GoneWork ==
  ASSUME Types, Reading, Apart, NEW w \in Worker, Work(w)
  PROVE  /\ Succeed(w) \/ Fail(w) =>
              Gone' = Gone \cup Rows(batch[w]) /\ Gone \cap Rows(batch[w]) = {}
         /\ ~ (Succeed(w) \/ Fail(w)) =>
              Gone' = Gone /\ UNCHANGED <<totalSent, totalErrors>>
<1>1. Put' = Put
  <2>1. UNCHANGED mainVars
    BY OwnStep
  <2>2. QED BY <2>1 DEF Put, Seen, mainVars
<1>2. \A x \in Worker \ {w} : Held(x)' = Held(x)
  BY OwnHeld
<1>3. CASE Receive(w)
  <2>1. /\ Held(w)' = Held(w) \cup {Head(jobs)}
        /\ Rows(jobs) = Rows(jobs') \cup {Head(jobs)}
    BY <1>3, OwnHeld
  <2>2. Gone' = Gone
    BY <1>1, <1>2, <2>1 DEF Gone
  <2>3. ~ (Succeed(w) \/ Fail(w))
    BY <1>3 DEF Succeed, Fail, Receive
  <2>4. QED BY <1>3, <2>2, <2>3 DEF Receive
<1>4. CASE Succeed(w) \/ Fail(w)
  <2>1. ~ Receive(w)
    BY <1>4 DEF Succeed, Fail, Receive
  <2>2. jobs' = jobs /\ Held(w)' = {} /\ Held(w) = Rows(batch[w])
    BY <1>4, <2>1, OwnHeld
  <2>3. /\ Held(w) \subseteq Put /\ Held(w) \cap Rows(jobs) = {}
        /\ \A x \in Worker \ {w} : Held(w) \cap Held(x) = {}
    BY DEF Apart
  <2>4. Gone' = Gone \cup Held(w) /\ Gone \cap Held(w) = {}
    BY <1>1, <1>2, <2>2, <2>3 DEF Gone
  <2>5. QED BY <1>4, <2>2, <2>4
<1>5. CASE ~ Receive(w) /\ ~ (Succeed(w) \/ Fail(w))
  <2>1. jobs' = jobs /\ Held(w)' = Held(w)
    BY <1>5, OwnHeld
  <2>2. Gone' = Gone
    BY <1>1, <1>2, <2>1 DEF Gone
  <2>3. UNCHANGED <<totalSent, totalErrors>>
    BY <1>5 DEF Work, RangeEnds, Send, ReportDuration
  <2>4. QED BY <1>5, <2>2, <2>3
<1>6. QED BY <1>3, <1>4, <1>5

\* Main and the server make no row go.
LEMMA GoneOther ==
  ASSUME Types, Reading, Apart, Produce \/ Serve \/ UNCHANGED vars
  PROVE  Gone' = Gone /\ UNCHANGED <<worker, batch, totalSent, totalErrors>>
<1>1. [Next]_vars
  BY DEF Next
<1>2. UNCHANGED <<worker, batch, totalSent, totalErrors>>
  BY DEF Produce, ReadRow, PutJob, ReadEnds, Report, Serve, Create, Lose, vars,
         workerVars
<1>3. \A w \in Worker : Held(w)' = Held(w)
  BY <1>2 DEF Held
<1>4. CASE PutJob
  <2>1. /\ Put' = Put \cup {pos} /\ pos \in Row /\ pos \notin Put
        /\ jobs \in Seq(Row) /\ jobs' = Append(jobs, pos)
    BY <1>1, <1>4, PutStep DEF Types, PutJob
  <2>2. Rows(jobs') = Rows(jobs) \cup {pos}
    BY <2>1, RowsAppend
  <2>3. \A w \in Worker : Held(w) \subseteq Put
    BY DEF Apart
  <2>4. Gone' = Gone
    BY <1>3, <2>1, <2>2, <2>3 DEF Gone
  <2>5. QED BY <1>2, <2>4
<1>5. CASE ~ PutJob
  <2>1. jobs' = jobs
    BY <1>5 DEF Produce, ReadRow, ReadEnds, Report, Serve, Create, Lose, vars
  <2>2. Put' = Put
    BY <1>1, <1>5, PutStep
  <2>3. QED BY <1>2, <1>3, <2>1, <2>2 DEF Gone
<1>6. QED BY <1>4, <1>5

\* What is out stays out.
LEMMA OutStep ==
  ASSUME Types, Reading, Apart, [Next]_vars, NEW n, Out(n)
  PROVE  Out(n)'
<1>1. CASE Produce \/ Serve \/ UNCHANGED vars
  BY <1>1, GoneOther DEF Out
<1>2. ASSUME NEW w \in Worker, Work(w) PROVE Out(n)'
  <2>1. Gone \subseteq Gone'
    BY <1>2, GoneWork
  <2>2. ASSUME NEW x \in Worker, worker[x] = "call", n \in Rows(batch[x])
        PROVE  Out(n)'
    <3>1. CASE x = w
      <4>1. Succeed(w) \/ Fail(w)
        BY <1>2, <2>2, <3>1
        DEF Work, Receive, RangeEnds, Send, ReportDuration
      <4>2. n \in Gone'
        BY <1>2, <2>2, <3>1, <4>1, GoneWork
      <4>3. QED BY <4>2 DEF Out
    <3>2. CASE x # w
      <4>1. worker'[x] = "call" /\ batch'[x] = batch[x]
        BY <1>2, <2>2, <3>2, OwnStep
      <4>2. QED BY <2>2, <4>1 DEF Out
    <3>3. QED BY <3>1, <3>2
  <2>3. QED BY <2>1, <2>2 DEF Out
<1>3. QED BY <1>1, <1>2 DEF Next

\* What a worker sends was not out before.
LEMMA SendsNew ==
  ASSUME Types, Apart, NEW w \in Worker, Send(w), NEW n \in Rows(batch[w])
  PROVE  ~ Out(n) /\ Out(n)'
<1>1. worker[w] = "send" /\ Held(w) = Rows(batch[w])
  BY DEF Send, Held
<1>2. n \notin Gone
  BY <1>1 DEF Gone
<1>3. ASSUME NEW x \in Worker, worker[x] = "call" PROVE n \notin Rows(batch[x])
  <2>1. x # w /\ Held(x) = Rows(batch[x])
    BY <1>1, <1>3 DEF Held
  <2>2. QED BY <1>1, <2>1 DEF Apart
<1>4. worker'[w] = "call" /\ batch'[w] = batch[w]
  BY DEF Types, Send, Goto
<1>5. QED BY <1>2, <1>3, <1>4 DEF Out

\* One event of each row of the request that the server answers.
LEMMA Creates ==
  ASSUME Types, NEW r \in requests, Create(r), Distinct(r.events), NEW n \in Row
  PROVE  created'[n] = IF n \in Rows(r.events) THEN created[n] + 1 ELSE created[n]
<1> DEFINE K == {k \in DOMAIN r.events : r.events[k] = n}
<1>1. created'[n] = created[n] + Cardinality(K) /\ created[n] \in Nat
  BY DEF Types, Create
<1>2. CASE n \in Rows(r.events)
  <2>1. PICK k \in DOMAIN r.events : r.events[k] = n
    BY <1>2 DEF Rows
  <2>2. K = {k}
    BY <2>1 DEF Distinct
  <2>3. Cardinality(K) = 1
    BY <2>2, FS_Singleton
  <2>4. QED BY <1>1, <1>2, <2>3
<1>3. CASE n \notin Rows(r.events)
  <2>1. K = {}
    BY <1>3 DEF Rows
  <2>2. Cardinality(K) = 0
    BY <2>1, FS_EmptySet
  <2>3. QED BY <1>1, <1>3, <2>2
<1>4. QED BY <1>2, <1>3

LEMMA ServedStep ==
  ASSUME Types, Reading, Apart, Served, [Next]_vars
  PROVE  Served'
<1>1. \A n : Out(n) => Out(n)'
  BY OutStep
<1>2. CASE UNCHANGED <<requests, replies, created>>
  <2>1. Made' = Made
    BY <1>2 DEF Made
  <2>2. QED BY <1>1, <1>2, <2>1 DEF Served
<1>3. ASSUME NEW w \in Worker, Send(w) PROVE Served'
  <2> DEFINE q == [by |-> w, events |-> batch[w]]
  <2>1. /\ requests' = requests \cup {q} /\ UNCHANGED <<replies, created>>
        /\ q.events = batch[w]
    BY <1>3 DEF Send
  <2>2. Made' = Made
    BY <2>1 DEF Made
  <2>3. \A n \in Rows(batch[w]) : ~ Out(n) /\ Out(n)'
    BY <1>3, SendsNew
  <2>4. /\ Distinct(q.events) /\ Rows(q.events) \cap Made = {}
        /\ \A n \in Rows(q.events) : Out(n)'
        /\ \A r \in requests : Rows(q.events) \cap Rows(r.events) = {}
    BY <2>1, <2>3 DEF Apart, Served
  <2> HIDE DEF q
  <2>5. \A r \in requests' : /\ Distinct(r.events) /\ Rows(r.events) \cap Made = {}
                             /\ \A n \in Rows(r.events) : Out(n)'
    BY <1>1, <2>1, <2>4 DEF Served
  <2>6. \A p, r \in requests' : p # r => Rows(p.events) \cap Rows(r.events) = {}
    BY <2>1, <2>4 DEF Served
  <2>7. QED BY <1>1, <2>1, <2>2, <2>5, <2>6 DEF Served
<1>4. ASSUME NEW r \in requests, Create(r) PROVE Served'
  <2>1. /\ requests' = requests \ {r} /\ replies' = replies \cup {r}
        /\ Distinct(r.events) /\ Rows(r.events) \cap Made = {}
        /\ \A n \in Rows(r.events) : Out(n)
        /\ created \in [Row -> Nat] /\ created' \in [Row -> Nat]
        /\ Rows(r.events) \subseteq Row
    <3>1. created' \in [Row -> Nat]
      BY TypesStep DEF Types
    <3>2. r.events \in Seq(Row)
      BY DEF Types
    <3>3. Rows(r.events) \subseteq Row
      BY <3>2, LenProperties DEF Rows
    <3>4. QED BY <1>4, <3>1, <3>3 DEF Create, Served, Types
  <2>2. \A n \in Row :
          created'[n] = IF n \in Rows(r.events) THEN created[n] + 1 ELSE created[n]
    BY <1>4, <2>1, Creates
  <2>3. \A n \in Rows(r.events) : created[n] = 0
    BY <2>1 DEF Made
  <2>4. Made' = Made \cup Rows(r.events)
    BY <2>1, <2>2, <2>3 DEF Made
  <2>5. \A n \in Row : created'[n] <= 1
    BY <2>1, <2>2, <2>3 DEF Served
  <2>6. \A n \in Made' : Out(n)'
    BY <1>1, <2>1, <2>4 DEF Served
  <2>7. \A q \in requests' : /\ Distinct(q.events) /\ Rows(q.events) \cap Made' = {}
                             /\ \A n \in Rows(q.events) : Out(n)'
    BY <1>1, <2>1, <2>4 DEF Served
  <2>8. \A p, q \in requests' : p # q => Rows(p.events) \cap Rows(q.events) = {}
    BY <2>1 DEF Served
  <2>9. \A q \in replies' : Rows(q.events) \subseteq Made'
    BY <2>1, <2>4 DEF Served
  <2>10. QED BY <2>5, <2>6, <2>7, <2>8, <2>9 DEF Served
<1>5. ASSUME NEW r \in requests, Lose(r) PROVE Served'
  <2>1. requests' = requests \ {r} /\ UNCHANGED <<replies, created>>
    BY <1>5 DEF Lose
  <2>2. Made' = Made
    BY <2>1 DEF Made
  <2>3. QED BY <1>1, <2>1, <2>2 DEF Served
<1>6. \/ UNCHANGED <<requests, replies, created>>
      \/ \E w \in Worker : Send(w)
      \/ \E r \in requests : Create(r) \/ Lose(r)
  BY DEF Next, Produce, ReadRow, PutJob, ReadEnds, Report, Serve, Work, Receive,
         RangeEnds, Succeed, ReportDuration, Fail, vars, serverVars
<1>7. QED BY <1>2, <1>3, <1>4, <1>5, <1>6

\* Disjoint finite sets count together.
LEMMA CountTogether ==
  ASSUME NEW S, IsFiniteSet(S), NEW T, IsFiniteSet(T), S \cap T = {}
  PROVE  /\ IsFiniteSet(S \cup T) /\ Cardinality(S) \in Nat /\ Cardinality(T) \in Nat
         /\ Cardinality(S \cup T) = Cardinality(S) + Cardinality(T)
<1>1. Cardinality(S \cap T) = 0
  BY FS_EmptySet
<1>2. Cardinality(S) \in Nat /\ Cardinality(T) \in Nat
  BY FS_CardinalityType
<1>3. /\ IsFiniteSet(S \cup T)
      /\ Cardinality(S \cup T) = Cardinality(S) + Cardinality(T) - Cardinality(S \cap T)
  BY FS_Union
<1>4. QED BY <1>1, <1>2, <1>3

LEMMA RowsFinite ==
  ASSUME NEW S \in SUBSET Row
  PROVE  IsFiniteSet(S) /\ Cardinality(S) \in Nat
<1>1. IsFiniteSet(Row)
  BY RowInterval, FS_Interval
<1>2. QED BY <1>1, FS_Subset, FS_CardinalityType

LEMMA TalliedStep ==
  ASSUME Types, Reading, Apart, Served, Tallied, [Next]_vars
  PROVE  Tallied'
<1>1. Made \subseteq Made'
  <2>1. CASE UNCHANGED created
    BY <2>1 DEF Made
  <2>2. CASE \E r \in requests : Create(r)
    <3>1. PICK r \in requests : Create(r)
      BY <2>2
    <3>2. \A n \in Row : created'[n] >= created[n] /\ created[n] \in Nat
      <4>1. Distinct(r.events) /\ \A n \in Row : created[n] \in Nat
        BY DEF Served, Types
      <4>2. \A n \in Row : created'[n]
              = IF n \in Rows(r.events) THEN created[n] + 1 ELSE created[n]
        BY <3>1, <4>1, Creates
      <4>3. QED BY <4>1, <4>2
    <3>3. \A n \in Row : created'[n] \in Nat
      BY TypesStep DEF Types
    <3>4. QED BY <3>2, <3>3 DEF Made
  <2>3. QED
    BY <2>1, <2>2 DEF Next, Produce, ReadRow, PutJob, ReadEnds, Report, Serve, Lose,
       Work, Receive, RangeEnds, Send, Succeed, ReportDuration, Fail, vars, serverVars
<1>2. /\ Gone \subseteq Row /\ Gone' \subseteq Row
      /\ totalSent \in Nat /\ totalErrors \in Nat
  BY DEF Gone, Put, Types
<1>3. CASE Gone' = Gone /\ UNCHANGED <<totalSent, totalErrors>>
  <2>1. Made \cap Gone \subseteq Made' \cap Gone /\ IsFiniteSet(Made' \cap Gone)
    BY <1>1, <1>2, RowsFinite
  <2>2. Cardinality(Made \cap Gone) <= Cardinality(Made' \cap Gone)
    BY <2>1, FS_Subset
  <2>3. Cardinality(Made \cap Gone) \in Nat /\ Cardinality(Made' \cap Gone) \in Nat
    BY <1>2, RowsFinite
  <2>4. QED BY <1>2, <1>3, <2>2, <2>3 DEF Tallied
<1>4. ASSUME NEW w \in Worker, Succeed(w) \/ Fail(w) PROVE Tallied'
  <2> DEFINE B == Rows(batch[w])
             M == Made \cap Gone
  <2>1. Gone' = Gone \cup B /\ Gone \cap B = {}
    BY <1>4, GoneWork DEF Work
  <2>2. B \subseteq Row /\ Cardinality(B) = Len(batch[w]) /\ Len(batch[w]) \in Nat
    <3>1. batch[w] \in Seq(Row) /\ Distinct(batch[w])
      BY DEF Types, Apart
    <3>2. B \subseteq Row
      BY <3>1, LenProperties DEF Rows
    <3>3. Cardinality(B) = Len(batch[w]) /\ Len(batch[w]) \in Nat
      BY <3>1, RowsCount, LenProperties
    <3>4. QED BY <3>2, <3>3
  <2> HIDE DEF B
  <2>3. IsFiniteSet(Gone) /\ IsFiniteSet(B) /\ IsFiniteSet(M)
    BY <1>2, <2>2, RowsFinite
  <2>4. /\ Cardinality(Gone') = Cardinality(Gone) + Len(batch[w])
        /\ Cardinality(Gone) = totalSent + totalErrors
        /\ totalSent <= Cardinality(M) /\ Cardinality(M) \in Nat
    BY <2>1, <2>2, <2>3, CountTogether, FS_CardinalityType DEF Tallied
  <2>5. CASE Succeed(w)
    <3>1. /\ totalSent' = totalSent + Len(batch[w]) /\ totalErrors' = totalErrors
          /\ Made' = Made
      BY <2>5 DEF Succeed, serverVars, Made
    <3>2. B \subseteq Made
      BY <2>5 DEF Succeed, Served, B
    <3>3. Made' \cap Gone' = M \cup B /\ M \cap B = {}
      BY <2>1, <3>1, <3>2
    <3> HIDE DEF M
    <3>4. Cardinality(Made' \cap Gone') = Cardinality(M) + Len(batch[w])
      BY <2>2, <2>3, <3>3, CountTogether
    <3>5. totalSent' <= Cardinality(Made' \cap Gone')
      BY <1>2, <2>2, <2>4, <3>1, <3>4
    <3>6. Cardinality(Gone') = totalSent' + totalErrors'
      <4> DEFINE l == Len(batch[w])
                 g == Cardinality(Gone')
      <4>1. l \in Nat /\ g = (totalSent + totalErrors) + l
        BY <2>2, <2>4
      <4> HIDE DEF l, g
      <4>2. g = (totalSent + l) + totalErrors
        BY <1>2, <4>1
      <4>3. QED BY <3>1, <4>2 DEF l, g
    <3>7. QED BY <3>5, <3>6 DEF Tallied
  <2>6. CASE Fail(w)
    <3>1. totalSent' = totalSent /\ totalErrors' = totalErrors + Len(batch[w])
      BY <2>6 DEF Fail
    <3>2. M \subseteq Made' \cap Gone' /\ IsFiniteSet(Made' \cap Gone')
      BY <1>1, <1>2, <2>1, RowsFinite
    <3>3. /\ Cardinality(M) <= Cardinality(Made' \cap Gone')
          /\ Cardinality(Made' \cap Gone') \in Nat
      BY <3>2, FS_Subset, FS_CardinalityType
    <3> HIDE DEF M
    <3>4. totalSent' <= Cardinality(Made' \cap Gone')
      BY <1>2, <2>4, <3>1, <3>3
    <3>5. Cardinality(Gone') = totalSent' + totalErrors'
      <4> DEFINE l == Len(batch[w])
                 g == Cardinality(Gone')
      <4>1. l \in Nat /\ g = (totalSent + totalErrors) + l
        BY <2>2, <2>4
      <4> HIDE DEF l, g
      <4>2. g = totalSent + (totalErrors + l)
        BY <1>2, <4>1
      <4>3. QED BY <3>1, <4>2 DEF l, g
    <3>6. QED BY <3>4, <3>5 DEF Tallied
  <2>7. QED BY <1>4, <2>5, <2>6
<1>5. CASE Produce \/ Serve \/ UNCHANGED vars
  BY <1>3, <1>5, GoneOther
<1>6. ASSUME NEW w \in Worker, Work(w) PROVE Tallied'
  BY <1>3, <1>4, <1>6, GoneWork
<1>7. QED BY <1>5, <1>6 DEF Next

LEMMA IInvInit ==
  ASSUME Init PROVE IInv
<1>1. Types /\ Ended /\ Counted
  BY ConservedInit DEF Conserved
<1>2. \A n \in Row : n \in Nat /\ ~ (n <= 0)
  BY RowInterval
<1>3. Reading /\ Put = {}
  BY <1>2 DEF Init, Reading, Put, Seen
<1>4. /\ Distinct(<<>>) /\ Rows(<<>>) = {}
      /\ jobs = <<>> /\ \A w \in Worker : batch[w] = <<>>
  BY DEF Distinct, Rows, Init
<1>5. Apart
  BY <1>3, <1>4 DEF Apart, Held
<1>6. Made = {} /\ Gone = {}
  BY <1>3 DEF Init, Made, Gone
<1>7. Served
  BY <1>6 DEF Init, Served
<1>8. Tallied
  BY <1>6, FS_EmptySet DEF Init, Tallied
<1>9. QED BY <1>1, <1>3, <1>5, <1>7, <1>8 DEF IInv

LEMMA IInvStep ==
  ASSUME IInv, [Next]_vars PROVE IInv'
<1>1. Types' /\ Ended' /\ Counted'
  BY TypesStep, EndedStep, CountedStep DEF IInv
<1>2. Reading' /\ Apart' /\ Served' /\ Tallied'
  BY ReadingStep, ApartStep, ServedStep, TalliedStep DEF IInv
<1>3. QED BY <1>1, <1>2 DEF IInv

\* What was counted as sent was made; what was made is counted, or held by a
\* call.
LEMMA MadeBound ==
  ASSUME IInv
  PROVE  /\ totalSent <= Cardinality(Made)
         /\ Cardinality(Made) <=
              totalSent + totalErrors + MapThenSumSet(Calling, Worker)
<1> DEFINE H == [w \in Worker |-> IF worker[w] = "call" THEN Rows(batch[w]) ELSE {}]
           U == UNION {H[w] : w \in Worker}
<1>1. /\ Made \subseteq Row /\ Gone \subseteq Row
      /\ totalSent \in Nat /\ totalErrors \in Nat /\ IsFiniteSet(Worker)
      /\ Cardinality(Gone) = totalSent + totalErrors
      /\ totalSent <= Cardinality(Made \cap Gone)
  BY LoaderAssumption DEF IInv, Types, Tallied, Made, Gone, Put
<1>2. \A w \in Worker : batch[w] \in Seq(Row) /\ Len(batch[w]) \in Nat
  BY LenProperties DEF IInv, Types
<1>3. calling \in [Worker -> Int]
  BY <1>2 DEF calling, Calling
<1>4. \A w \in Worker : IsFiniteSet(H[w]) /\ Cardinality(H[w]) <= calling[w]
  <2>1. ASSUME NEW w \in Worker
        PROVE  IsFiniteSet(H[w]) /\ Cardinality(H[w]) <= calling[w]
    <3>1. CASE worker[w] = "call"
      BY <1>2, <3>1, RowsCount DEF calling, Calling
    <3>2. CASE worker[w] # "call"
      BY <3>2, FS_EmptySet DEF calling, Calling
    <3>3. QED BY <3>1, <3>2
  <2>2. QED BY <2>1
<1>5. Made \subseteq Gone \cup U
  BY DEF IInv, Served, Out
<1> HIDE DEF H
<1>6. IsFiniteSet(U) /\ Cardinality(U) <= Total(calling, Worker)
  BY <1>1, <1>3, <1>4, UnionBound
<1>7. MapThenSumSet(Calling, Worker) = Total(calling, Worker)
  BY <1>1, <1>3, SumCalling
<1>8. Total(calling, Worker) \in Int
  <2>1. PICK w \in Worker : TRUE
    BY LoaderAssumption
  <2>2. QED BY <1>1, <1>3, TotalChange
<1> HIDE DEF U
<1>9. /\ IsFiniteSet(Gone) /\ IsFiniteSet(Made)
      /\ Cardinality(Made) \in Nat /\ Cardinality(Made \cap Gone) \in Nat
  BY <1>1, RowsFinite
<1>10. totalSent <= Cardinality(Made)
  <2>1. Cardinality(Made \cap Gone) <= Cardinality(Made)
    BY <1>9, FS_Intersection
  <2>2. QED BY <1>1, <1>9, <2>1
<1>11. /\ IsFiniteSet(Gone \cup U) /\ Cardinality(Gone \cap U) \in Nat
       /\ Cardinality(Gone \cup U)
            = Cardinality(Gone) + Cardinality(U) - Cardinality(Gone \cap U)
       /\ Cardinality(U) \in Nat
  BY <1>6, <1>9, FS_Union, FS_Intersection, FS_CardinalityType
<1>12. Cardinality(Made) <= Cardinality(Gone \cup U) /\ Cardinality(Gone \cup U) \in Nat
  BY <1>5, <1>11, FS_Subset, FS_CardinalityType
<1>13. Cardinality(Made) <= totalSent + totalErrors + Total(calling, Worker)
  BY <1>1, <1>6, <1>8, <1>9, <1>11, <1>12
<1>14. QED BY <1>7, <1>10, <1>13

\* No row is made into two events, and no id; the events counted as sent were
\* made, and the others that were made belong to requests that failed or are
\* still going on (main.go:101-122, 172-186).
THEOREM EventsMadeOnce == Spec => []CreatedOnce
<1>1. ASSUME IInv PROVE CreatedOnce
  <2>1. \A n \in Made : created[n] = 1
    BY <1>1 DEF IInv, Types, Served, Made
  <2>2. \A n \in Made : n \in Put
    BY <1>1 DEF IInv, Served, Apart, Out, Gone, Held
  <2>3. \A m, n \in Put : File[m].id = File[n].id => ~ (m < n)
    <3>1. ASSUME NEW m \in Put, NEW n \in Put, File[m].id = File[n].id, m < n
          PROVE  FALSE
      <4>1. m \in 1 .. (n - 1) /\ File[m].service # Nil /\ Fresh(n)
        BY <3>1, RowInterval DEF Put, Fresh
      <4>2. QED BY <3>1, <4>1 DEF Fresh
    <3>2. QED BY <3>1
  <2>4. \A m, n \in Made : File[m].id = File[n].id => m = n
    BY <2>2, <2>3, RowInterval DEF Put
  <2>5. QED BY <1>1, <2>1, <2>4, MadeBound DEF CreatedOnce, Made
<1>2. QED BY IInvInit, IInvStep, <1>1, PTL DEF Spec
=============================================================================
