----------------------------- MODULE LexerProofs -----------------------------
(* Proofs about the lexer, for inputs of any length over any characters.   *)
EXTENDS Lexer, FiniteSetTheorems, SequenceTheorems, WellFoundedInduction, TLAPS

\* A nonempty set of naturals has a least element.
LEMMA Least ==
  ASSUME NEW T, T \subseteq Nat, T # {}
  PROVE  \E n \in T : \A m \in T : n <= m
<1> DEFINE less == OpToRel(<, Nat)
<1>1. PICK x \in T : \A y \in T : ~ (<<y, x>> \in less)
  <2>1. IsWellFoundedOn(less, Nat)
    BY NatLessThanWellFounded
  <2> HIDE DEF less
  <2>2. QED BY <2>1, WFMin
<1>2. \A a, c \in Nat : <<c, a>> \in less <=> c < a
  BY DEF OpToRel
<1> HIDE DEF less
<1>3. \A y \in T : x \in Nat /\ y \in Nat /\ ~ (y < x)
  BY <1>1, <1>2, Zenon
<1>4. QED BY <1>1, <1>3

(***************************************************************************)
(* Flattened sequences.                                                    *)
(***************************************************************************)

\* The function of FlattenSeq for the first n sequences of ss.
Flattens(f, ss, n) ==
  f = [i \in 1 .. n |-> IF i = 1 THEN ss[i] ELSE f[i - 1] \o ss[i]]

LEMMA FlattensExists ==
  ASSUME NEW n \in Nat, NEW ss
  PROVE  \E f : Flattens(f, ss, n)
<1> DEFINE Good(m) == \E f : Flattens(f, ss, m)
           Bad == {m \in Nat : ~ Good(m)}
           To(f, i) == IF i = 1 THEN ss[i] ELSE f[i - 1] \o ss[i]
<1>1. Good(0)
  <2> DEFINE f == [i \in 1 .. 0 |-> <<>>]
  <2>1. f = [i \in 1 .. 0 |-> To(f, i)]
    OBVIOUS
  <2>2. QED BY <2>1 DEF Flattens
<1>2. ASSUME NEW m \in Nat, Good(m) PROVE Good(m + 1)
  <2>1. PICK f : f = [i \in 1 .. m |-> To(f, i)]
    BY <1>2 DEF Flattens
  <2> DEFINE g == [i \in 1 .. m + 1 |-> To(f, i)]
  <2>2. \A i \in 1 .. m : f[i] = To(f, i)
    BY <2>1, Zenon
  <2>3. \A i \in 1 .. m : g[i] = f[i]
    <3>1. \A i \in 1 .. m : i \in 1 .. m + 1
      OBVIOUS
    <3>2. QED BY <2>2, <3>1, Zenon
  <2>4. \A i \in 1 .. m + 1 : i = 1 \/ i - 1 \in 1 .. m
    OBVIOUS
  <2> HIDE DEF g
  <2>5. \A i \in 1 .. m + 1 : To(f, i) = To(g, i)
    BY <2>3, <2>4, Zenon
  <2>6. g = [i \in 1 .. m + 1 |-> To(g, i)]
    BY <2>5, Zenon DEF g
  <2>7. QED BY <2>6 DEF Flattens
<1>3. Bad = {}
  <2>1. SUFFICES ASSUME Bad # {} PROVE FALSE
    OBVIOUS
  <2>2. PICK m \in Bad : \A k \in Bad : m <= k
    BY <2>1, Least
  <2> HIDE DEF Good
  <2>3. m # 0 /\ m \in Nat
    BY <1>1
  <2>4. m - 1 \in Nat /\ m - 1 \notin Bad
    BY <2>2, <2>3
  <2>5. Good((m - 1) + 1)
    BY <1>2, <2>4
  <2>6. QED BY <2>3, <2>5
<1>4. QED BY <1>3

\* The function for more sequences goes on where that for fewer ends.
LEMMA FlattensSame ==
  ASSUME NEW ss, NEW tt, NEW n \in Nat, NEW m \in Nat,
         NEW f, Flattens(f, ss, n), NEW g, Flattens(g, tt, m),
         n <= m, \A i \in 1 .. n : ss[i] = tt[i]
  PROVE  \A i \in 1 .. n : f[i] = g[i]
<1> DEFINE Bad == {i \in Nat : i \in 1 .. n /\ f[i] # g[i]}
<1>1. \A i \in 1 .. n : f[i] = IF i = 1 THEN ss[i] ELSE f[i - 1] \o ss[i]
  BY Zenon DEF Flattens
<1>2. \A i \in 1 .. m : g[i] = IF i = 1 THEN tt[i] ELSE g[i - 1] \o tt[i]
  BY Zenon DEF Flattens
<1>3. Bad = {}
  <2>1. SUFFICES ASSUME Bad # {} PROVE FALSE
    OBVIOUS
  <2>2. PICK i \in Bad : \A j \in Bad : i <= j
    <3>1. Bad \subseteq Nat
      OBVIOUS
    <3>2. QED BY <2>1, <3>1, Least
  <2>3. i \in 1 .. n /\ i \in 1 .. m /\ f[i] # g[i]
    OBVIOUS
  <2>4. CASE i = 1
    BY <1>1, <1>2, <2>3, <2>4
  <2>5. CASE i # 1
    <3>1. i - 1 \in Nat /\ i - 1 \in 1 .. n /\ ~ (i <= i - 1)
      BY <2>3, <2>5
    <3>2. f[i - 1] = g[i - 1]
      BY <2>2, <3>1
    <3>3. f[i] = f[i - 1] \o ss[i] /\ g[i] = g[i - 1] \o tt[i] /\ ss[i] = tt[i]
      BY <1>1, <1>2, <2>3, <2>5
    <3>4. QED BY <2>3, <3>2, <3>3
  <2>6. QED BY <2>4, <2>5
<1>4. QED BY <1>3

LEMMA FlattenIs ==
  ASSUME NEW ss, Len(ss) \in Nat, Len(ss) # 0, NEW f, Flattens(f, ss, Len(ss))
  PROVE  FlattenSeq(ss) = f[Len(ss)]
<1> DEFINE n == Len(ss)
           c == CHOOSE g : g = [i \in 1 .. n |-> IF i = 1 THEN ss[i] ELSE g[i - 1] \o ss[i]]
<1>1. FlattenSeq(ss) = c[n]
  BY DEF FlattenSeq
<1>2. Flattens(c, ss, n)
  <2>1. \E g : g = [i \in 1 .. n |-> IF i = 1 THEN ss[i] ELSE g[i - 1] \o ss[i]]
    BY DEF Flattens
  <2>2. c = [i \in 1 .. n |-> IF i = 1 THEN ss[i] ELSE c[i - 1] \o ss[i]]
    BY <2>1
  <2> HIDE DEF c
  <2>3. QED BY <2>2 DEF Flattens
<1> HIDE DEF c
<1>3. c[n] = f[n]
  <2>1. n \in 1 .. n
    OBVIOUS
  <2>2. QED BY <1>2, <2>1, FlattensSame
<1>4. QED BY <1>1, <1>3

LEMMA FlattenAppend ==
  ASSUME NEW T, NEW ss \in Seq(Seq(T)), NEW x \in Seq(T), FlattenSeq(ss) \in Seq(T)
  PROVE  /\ FlattenSeq(Append(ss, x)) = FlattenSeq(ss) \o x
         /\ FlattenSeq(Append(ss, x)) \in Seq(T)
<1> DEFINE tt == Append(ss, x)
           n == Len(ss)
<1>1. /\ tt \in Seq(Seq(T)) /\ Len(tt) = n + 1 /\ tt[n + 1] = x
      /\ \A i \in 1 .. n : tt[i] = ss[i]
      /\ n \in Nat /\ n + 1 \in Nat
  BY AppendProperties, LenProperties
<1> HIDE DEF tt, n
<1>2. PICK f : Flattens(f, tt, n + 1)
  BY <1>1, FlattensExists
<1>3. FlattenSeq(tt) = f[n + 1]
  BY <1>1, <1>2, FlattenIs
<1>4. f[n + 1] = IF n + 1 = 1 THEN x ELSE f[n + 1 - 1] \o x
  <2>1. n + 1 \in 1 .. n + 1
    BY <1>1
  <2>2. \A i \in 1 .. n + 1 : f[i] = IF i = 1 THEN tt[i] ELSE f[i - 1] \o tt[i]
    BY <1>2, Zenon DEF Flattens
  <2>3. QED BY <1>1, <2>1, <2>2
<1>5. f[n + 1] = FlattenSeq(ss) \o x
  <2>1. CASE n = 0
    <3>1. ss = <<>>
      BY <2>1, EmptySeq DEF n
    <3>2. FlattenSeq(ss) = <<>>
      BY <2>1, <3>1 DEF FlattenSeq, n
    <3>3. QED BY <1>4, <2>1, <3>2, ConcatEmptySeq
  <2>2. CASE n # 0
    <3>1. PICK g : Flattens(g, ss, n)
      BY <1>1, FlattensExists
    <3>2. FlattenSeq(ss) = g[n]
      BY <1>1, <2>2, <3>1, FlattenIs DEF n
    <3>3. n \in 1 .. n /\ n <= n + 1 /\ n + 1 \in Nat /\ n + 1 - 1 = n
      BY <1>1, <2>2
    <3>4. \A i \in 1 .. n : f[i] = g[i]
      <4>1. \A i \in 1 .. n : ss[i] = tt[i]
        BY <1>1
      <4>2. \A i \in 1 .. n : g[i] = f[i]
        <5> DEFINE m == n + 1
        <5>1. m \in Nat /\ n \in Nat /\ n <= m /\ Flattens(f, tt, m)
          BY <1>1, <1>2, <3>3
        <5> HIDE DEF m
        <5>2. QED BY ONLY <3>1, <4>1, <5>1, FlattensSame, SMTT(30)
      <4>3. QED BY <4>2
    <3>5. f[n + 1] = f[n] \o x
      <4>1. n + 1 # 1
        BY <1>1, <2>2
      <4>2. QED BY ONLY <1>4, <3>3, <4>1
    <3>6. QED BY <3>2, <3>3, <3>4, <3>5
  <2>3. QED BY <2>1, <2>2
<1>6. QED BY <1>3, <1>5, ConcatProperties DEF tt

\* What FlattenSeq makes is a sequence of what the sequences have, in order.
LEMMA FlattenType ==
  ASSUME NEW T, NEW ss \in Seq(Seq(T))
  PROVE  FlattenSeq(ss) \in Seq(T)
<1> DEFINE Bad == {n \in Nat : \E tt \in Seq(Seq(T)) : Len(tt) = n /\ FlattenSeq(tt) \notin Seq(T)}
<1>1. ASSUME Bad # {} PROVE FALSE
  <2>1. PICK n \in Bad : \A m \in Bad : n <= m
    <3>1. Bad \subseteq Nat
      OBVIOUS
    <3>2. QED BY <1>1, <3>1, Least
  <2>2. PICK tt \in Seq(Seq(T)) : Len(tt) = n /\ FlattenSeq(tt) \notin Seq(T)
    OBVIOUS
  <2>3. tt # <<>>
    <3>1. Len(<<>>) = 0 /\ <<>> \in Seq(T)
      BY EmptySeq
    <3>2. FlattenSeq(<<>>) = <<>>
      BY <3>1 DEF FlattenSeq
    <3>3. QED BY <2>2, <3>1, <3>2
  <2>4. PICK u \in Seq(Seq(T)), x \in Seq(T) : tt = Append(u, x)
    BY <2>3, SequenceEmptyOrAppend
  <2>5. Len(u) \in Nat /\ Len(u) + 1 = n
    BY <2>2, <2>4, AppendProperties, LenProperties
  <2>6. Len(u) \notin Bad
    BY <2>1, <2>5
  <2>7. FlattenSeq(u) \in Seq(T)
    BY <2>5, <2>6
  <2>8. QED BY <2>2, <2>4, <2>7, FlattenAppend
<1>2. Len(ss) \in Nat /\ Len(ss) \notin Bad
  BY <1>1, LenProperties
<1>3. QED BY <1>2

LEMMA FlattenEmpty == FlattenSeq(<<>>) = <<>>
<1>1. Len(<<>>) = 0
  BY EmptySeq
<1>2. QED BY <1>1 DEF FlattenSeq

LEMMA Associates ==
  ASSUME NEW T, NEW r \in Seq(T), NEW s \in Seq(T), NEW t \in Seq(T)
  PROVE  (r \o s) \o t = r \o (s \o t)
BY ConcatAssociative

LEMMA FlattenLonger ==
  ASSUME NEW T, NEW ss \in Seq(Seq(T)), NEW tt \in Seq(Seq(T)), NEW x \in Seq(T),
         FlattenSeq(ss \o tt) = FlattenSeq(ss) \o FlattenSeq(tt)
  PROVE  FlattenSeq(ss \o Append(tt, x)) = FlattenSeq(ss) \o FlattenSeq(Append(tt, x))
<1>1. FlattenSeq(Append(tt, x)) = FlattenSeq(tt) \o x
  BY FlattenType, FlattenAppend
<1>2. ss \o Append(tt, x) = Append(ss \o tt, x) /\ ss \o tt \in Seq(Seq(T))
  <2>1. ss \o tt \in Seq(Seq(T)) /\ <<x>> \in Seq(Seq(T))
    BY ConcatProperties
  <2>2. Append(tt, x) = tt \o <<x>> /\ Append(ss \o tt, x) = (ss \o tt) \o <<x>>
    BY <2>1, AppendIsConcat
  <2>3. (ss \o tt) \o <<x>> = ss \o (tt \o <<x>>)
    BY <2>1, Associates, SMTT(30)
  <2>4. QED BY <2>1, <2>2, <2>3
<1>3. FlattenSeq(ss \o Append(tt, x)) = FlattenSeq(ss \o tt) \o x
  BY <1>2, FlattenType, FlattenAppend
<1>4. FlattenSeq(ss) \in Seq(T) /\ FlattenSeq(tt) \in Seq(T)
  BY FlattenType
<1>5. (FlattenSeq(ss) \o FlattenSeq(tt)) \o x = FlattenSeq(ss) \o (FlattenSeq(tt) \o x)
  BY <1>4, Associates
<1>6. QED BY <1>1, <1>3, <1>5

LEMMA FlattenConcat ==
  ASSUME NEW T, NEW ss \in Seq(Seq(T)), NEW tt \in Seq(Seq(T))
  PROVE  FlattenSeq(ss \o tt) = FlattenSeq(ss) \o FlattenSeq(tt)
<1> DEFINE Ok(uu) == FlattenSeq(ss \o uu) = FlattenSeq(ss) \o FlattenSeq(uu)
           Bad == {n \in Nat : \E uu \in Seq(Seq(T)) : Len(uu) = n /\ ~ Ok(uu)}
<1>1. Ok(<<>>)
  <2>1. FlattenSeq(ss) \in Seq(T)
    BY FlattenType
  <2>2. QED BY <2>1, FlattenEmpty, ConcatEmptySeq
<1>2. ASSUME NEW uu \in Seq(Seq(T)), NEW x \in Seq(T), Ok(uu)
      PROVE  Ok(Append(uu, x))
  BY <1>2, FlattenLonger
<1> HIDE DEF Ok
<1>3. ASSUME Bad # {} PROVE FALSE
  <2>1. PICK n \in Bad : \A m \in Bad : n <= m
    <3>1. Bad \subseteq Nat
      OBVIOUS
    <3>2. QED BY <1>3, <3>1, Least
  <2>2. PICK uu \in Seq(Seq(T)) : Len(uu) = n /\ ~ Ok(uu)
    OBVIOUS
  <2>3. PICK vv \in Seq(Seq(T)), x \in Seq(T) : uu = Append(vv, x)
    BY <1>1, <2>2, SequenceEmptyOrAppend
  <2>4. Len(vv) \in Nat /\ Len(vv) + 1 = n
    BY <2>2, <2>3, AppendProperties, LenProperties
  <2>5. Len(vv) \notin Bad
    BY <2>1, <2>4
  <2>6. Ok(vv)
    BY <2>4, <2>5
  <2>7. QED BY <1>2, <2>2, <2>3, <2>6
<1>4. Len(tt) \in Nat /\ Len(tt) \notin Bad
  BY <1>3, LenProperties
<1>5. Ok(tt)
  BY <1>4
<1>6. QED BY <1>5 DEF Ok

(***************************************************************************)
(* Characters without blanks.                                              *)
(***************************************************************************)

LEMMA SpelledConcat ==
  ASSUME NEW T, NEW s \in Seq(T), NEW t \in Seq(T)
  PROVE  Spelled(s \o t) = Spelled(s) \o Spelled(t)
<1> DEFINE C(c) == IF c \in Blank THEN <<>> ELSE <<c>>
           B(u) == [n \in DOMAIN u |-> C(u[n])]
<1>1. \A c \in T : C(c) \in Seq(T)
  BY EmptySeq
<1> HIDE DEF C
<1>2. ASSUME NEW u \in Seq(T) PROVE B(u) \in Seq(Seq(T)) /\ Len(B(u)) = Len(u)
  <2>1. Len(u) \in Nat /\ DOMAIN u = 1 .. Len(u) /\ \A n \in DOMAIN u : u[n] \in T
    BY LenProperties
  <2>2. B(u) \in [1 .. Len(u) -> Seq(T)]
    BY <1>1, <2>1
  <2> DEFINE b == B(u)
             m == Len(u)
  <2> HIDE DEF b, m
  <2>3. b \in [1 .. m -> Seq(T)] /\ m \in Nat
    BY <2>1, <2>2 DEF b, m
  <2>4. b \in Seq(Seq(T))
    BY <2>3, SeqDef
  <2>5. Len(b) = m
    BY <2>3, <2>4, LenProperties
  <2>6. QED BY <2>4, <2>5 DEF b, m
<1>3. s \o t \in Seq(T) /\ Len(s \o t) = Len(s) + Len(t) /\ Len(s) \in Nat /\ Len(t) \in Nat
  BY ConcatProperties, LenProperties
<1>4. B(s \o t) = B(s) \o B(t)
  <2> DEFINE st == s \o t
  <2>1. ASSUME NEW i \in 1 .. Len(s) + Len(t) PROVE B(st)[i] = (B(s) \o B(t))[i]
    <3>1. /\ (B(s) \o B(t))[i] = IF i <= Len(s) THEN B(s)[i] ELSE B(t)[i - Len(s)]
          /\ st[i] = IF i <= Len(s) THEN s[i] ELSE t[i - Len(s)]
      <4>1. /\ B(s) \in Seq(Seq(T)) /\ B(t) \in Seq(Seq(T))
            /\ Len(B(s)) = Len(s) /\ Len(B(t)) = Len(t)
        BY <1>2
      <4> HIDE DEF B
      <4>2. QED BY <4>1, ConcatProperties
    <3>2. i \in DOMAIN st /\ DOMAIN s = 1 .. Len(s) /\ DOMAIN t = 1 .. Len(t)
      BY <1>3, LenProperties
    <3> HIDE DEF st
    <3>3. B(st)[i] = C(st[i])
      BY <3>2
    <3>4. CASE i <= Len(s)
      <4>1. i \in DOMAIN s
        BY <1>3, <3>2, <3>4
      <4>2. B(s)[i] = C(s[i])
        BY <4>1
      <4>3. QED BY <3>1, <3>3, <3>4, <4>2
    <3>5. CASE ~ (i <= Len(s))
      <4>1. i - Len(s) \in DOMAIN t
        BY <1>3, <3>2, <3>5
      <4>2. B(t)[i - Len(s)] = C(t[i - Len(s)])
        BY <4>1
      <4>3. QED BY <3>1, <3>3, <3>5, <4>2
    <3>6. QED BY <3>4, <3>5
  <2>2. /\ B(st) \in Seq(Seq(T)) /\ B(s) \o B(t) \in Seq(Seq(T))
        /\ Len(B(st)) = Len(s) + Len(t) /\ Len(B(s) \o B(t)) = Len(s) + Len(t)
    <3>1. /\ B(s) \in Seq(Seq(T)) /\ B(t) \in Seq(Seq(T)) /\ B(st) \in Seq(Seq(T))
          /\ Len(B(s)) = Len(s) /\ Len(B(t)) = Len(t) /\ Len(B(st)) = Len(st)
      BY <1>2, <1>3
    <3>2. Len(st) = Len(s) + Len(t)
      BY <1>3
    <3> HIDE DEF B, st
    <3>3. B(s) \o B(t) \in Seq(Seq(T)) /\ Len(B(s) \o B(t)) = Len(B(s)) + Len(B(t))
      BY <3>1, ConcatProperties
    <3>4. QED BY <3>1, <3>2, <3>3
  <2> HIDE DEF B, st
  <2>3. B(st) = B(s) \o B(t)
    BY <2>1, <2>2, SeqEqual
  <2>4. QED BY <2>3 DEF st
<1>5. B(s) \in Seq(Seq(T)) /\ B(t) \in Seq(Seq(T))
  BY <1>2
<1>6. \A u : Spelled(u) = FlattenSeq(B(u))
  BY DEF Spelled, C
<1> HIDE DEF B
<1>7. QED BY <1>4, <1>5, <1>6, FlattenConcat

LEMMA SpelledChar ==
  ASSUME NEW T, NEW c \in T
  PROVE  Spelled(<<c>>) = IF c \in Blank THEN <<>> ELSE <<c>>
<1> DEFINE b == IF c \in Blank THEN <<>> ELSE <<c>>
<1>1. b \in Seq(T)
  BY EmptySeq
<1>2. [n \in DOMAIN <<c>> |-> IF <<c>>[n] \in Blank THEN <<>> ELSE <<<<c>>[n]>>] = <<b>>
  OBVIOUS
<1> HIDE DEF b
<1>3. Spelled(<<c>>) = FlattenSeq(<<b>>)
  BY <1>2 DEF Spelled, b
<1>4. <<b>> = Append(<<>>, b) /\ <<>> \in Seq(Seq(T)) /\ <<>> \in Seq(T)
  BY <1>1, EmptySeq
<1>5. FlattenSeq(<<b>>) = <<>> \o b
  BY <1>1, <1>4, FlattenEmpty, FlattenAppend
<1>6. FlattenSeq(<<b>>) = b
  BY <1>1, <1>5, ConcatEmptySeq
<1>7. QED BY <1>3, <1>6 DEF b

LEMMA SpelledEmpty == Spelled(<<>>) = <<>>
<1>1. [n \in DOMAIN <<>> |-> IF <<>>[n] \in Blank THEN <<>> ELSE <<<<>>[n]>>] = <<>>
  OBVIOUS
<1>2. QED BY <1>1, FlattenEmpty DEF Spelled

LEMMA SpelledType ==
  ASSUME NEW T, NEW s \in Seq(T)
  PROVE  Spelled(s) \in Seq(T)
<1> DEFINE b == [n \in DOMAIN s |-> IF s[n] \in Blank THEN <<>> ELSE <<s[n]>>]
           m == Len(s)
<1>1. m \in Nat /\ DOMAIN s = 1 .. m /\ \A n \in 1 .. m : s[n] \in T
  BY LenProperties
<1> HIDE DEF m
<1>2. b \in [1 .. m -> Seq(T)]
  BY <1>1, EmptySeq
<1>3. Spelled(s) = FlattenSeq(b)
  BY DEF Spelled
<1> HIDE DEF b
<1>4. b \in Seq(Seq(T))
  BY <1>1, <1>2, SeqDef
<1>5. QED BY <1>3, <1>4, FlattenType

\* Blanks spell nothing.
LEMMA SpelledBlanks ==
  ASSUME NEW B, B \subseteq Blank, NEW s \in Seq(B)
  PROVE  Spelled(s) = <<>>
<1> DEFINE Ok(u) == Spelled(u) = <<>>
           Bad == {n \in Nat : \E u \in Seq(B) : Len(u) = n /\ ~ Ok(u)}
<1>1. Ok(<<>>)
  BY SpelledEmpty
<1>2. ASSUME NEW u \in Seq(B), NEW c \in B, Ok(u)
      PROVE  Ok(Append(u, c))
  <2>1. Append(u, c) = u \o <<c>> /\ <<c>> \in Seq(B)
    BY AppendIsConcat
  <2>2. Spelled(Append(u, c)) = Spelled(u) \o Spelled(<<c>>)
    BY <2>1, SpelledConcat
  <2>3. Spelled(<<c>>) = <<>>
    BY SpelledChar
  <2>4. <<>> \o <<>> = <<>>
    OBVIOUS
  <2>5. QED BY <1>2, <2>2, <2>3, <2>4
<1> HIDE DEF Ok
<1>3. ASSUME Bad # {} PROVE FALSE
  <2>1. PICK n \in Bad : \A m \in Bad : n <= m
    <3>1. Bad \subseteq Nat
      OBVIOUS
    <3>2. QED BY <1>3, <3>1, Least
  <2>2. PICK u \in Seq(B) : Len(u) = n /\ ~ Ok(u)
    OBVIOUS
  <2>3. PICK v \in Seq(B), c \in B : u = Append(v, c)
    BY <1>1, <2>2, SequenceEmptyOrAppend
  <2>4. Len(v) \in Nat /\ Len(v) + 1 = n
    BY <2>2, <2>3, AppendProperties, LenProperties
  <2>5. Len(v) \notin Bad
    BY <2>1, <2>4
  <2>6. Ok(v)
    BY <2>4, <2>5
  <2>7. QED BY <1>2, <2>2, <2>3, <2>6
<1>4. Len(s) \in Nat /\ Len(s) \notin Bad
  BY <1>3, LenProperties
<1>5. Ok(s)
  BY <1>4
<1>6. QED BY <1>5 DEF Ok

(***************************************************************************)
(* What is left of an input.                                               *)
(***************************************************************************)

\* Every ! of s has its = behind it, and every form feed is behind a word.
Compares(s) == \A p \in DOMAIN s : s[p] = "!" => At(s, p + 1, {"="})
Feeds(s) == \A p \in DOMAIN s : s[p] = FormFeed => EndsWord(s, p)
Unstrayed(s) == Compares(s) /\ Feeds(s)

\* No form feed is first: there is nothing in front of it.
LEMMA FrontFed ==
  ASSUME NEW s \in Seq(Char), Feeds(s), s # <<>>
  PROVE  s[1] # FormFeed
<1>1. 1 \in DOMAIN s
  BY LenProperties, EmptySeq
<1>2. QED BY <1>1 DEF Feeds, EndsWord

\* The end of an input.  It has no character astray unless a form feed is
\* first in it.
LEMMA EndOf ==
  ASSUME NEW s \in Seq(Char), NEW k \in 1 .. Len(s) + 1
  PROVE  LET t == SubSeq(s, k, Len(s))
         IN /\ t \in Seq(Char) /\ Len(t) = Len(s) - k + 1
            /\ \A i \in 1 .. Len(t) : t[i] = s[k + i - 1]
            /\ Unstrayed(s) /\ (k <= Len(s) => s[k] # FormFeed) => Unstrayed(t)
            /\ s = SubSeq(s, 1, k - 1) \o t /\ SubSeq(s, 1, k - 1) \in Seq(Char)
<1> DEFINE n == Len(s)
           t == SubSeq(s, k, n)
<1>1. n \in Nat /\ DOMAIN s = 1 .. n /\ \A i \in 1 .. n : s[i] \in Char
  BY LenProperties
<1>2. k \in Int /\ n \in Int /\ k - 1 \in 0 .. n /\ 1 \in 1 .. n + 1
  BY <1>1
<1>3. t \in Seq(Char) /\ Len(t) = n - k + 1 /\ \A i \in 1 .. n - k + 1 : t[i] = s[k + i - 1]
  <2>1. \A i \in k .. n : s[i] \in Char
    BY <1>1
  <2>2. /\ SubSeq(s, k, n) \in Seq(Char)
        /\ Len(SubSeq(s, k, n)) = IF k <= n THEN n - k + 1 ELSE 0
        /\ \A i \in 1 .. n - k + 1 : SubSeq(s, k, n)[i] = s[k + i - 1]
    BY <1>2, <2>1, SubSeqProperties
  <2>3. (IF k <= n THEN n - k + 1 ELSE 0) = n - k + 1
    BY <1>1
  <2>4. QED BY <2>2, <2>3
<1>4. SubSeq(s, 1, k - 1) \in Seq(Char)
  <2>1. 1 \in Int /\ k - 1 \in Int /\ \A i \in 1 .. k - 1 : s[i] \in Char
    BY <1>1, <1>2
  <2>2. QED BY <2>1, SubSeqProperties
<1>5. s = SubSeq(s, 1, k - 1) \o t
  <2>1. 1 \in 1 .. Len(s) + 1 /\ k - 1 \in 1 - 1 .. Len(s) /\ Len(s) \in k - 1 .. Len(s)
    BY <1>1
  <2>2. SubSeq(s, 1, k - 1) \o SubSeq(s, (k - 1) + 1, Len(s)) = SubSeq(s, 1, Len(s))
    BY <2>1, ConcatAdjacentSubSeq
  <2>3. (k - 1) + 1 = k /\ SubSeq(s, 1, Len(s)) = s
    BY SubSeqFull
  <2>4. QED BY <2>2, <2>3
<1> HIDE DEF t, n
<1>6. ASSUME Unstrayed(s), k <= n => s[k] # FormFeed PROVE Unstrayed(t)
  <2>1. DOMAIN t = 1 .. n - k + 1
    BY <1>3, LenProperties
  <2>2. ASSUME NEW p \in DOMAIN t, t[p] = "!" PROVE At(t, p + 1, {"="})
    <3>1. k + p - 1 \in 1 .. n /\ t[p] = s[k + p - 1]
      BY <1>1, <1>3, <2>1
    <3>2. k + p \in 1 .. n /\ s[k + p] = "="
      <4>1. (k + p - 1) + 1 = k + p
        BY <2>1
      <4>2. QED BY <1>1, <1>6, <2>2, <3>1, <4>1 DEF Unstrayed, Compares, At
    <3>3. p + 1 \in 1 .. n - k + 1 /\ k + (p + 1) - 1 = k + p
      BY <1>1, <2>1, <3>2
    <3>4. t[p + 1] = "="
      BY <1>3, <3>2, <3>3
    <3>5. QED BY <2>1, <3>3, <3>4 DEF At
  <2>3. ASSUME NEW p \in DOMAIN t, t[p] = FormFeed PROVE EndsWord(t, p)
    <3>1. k + p - 1 \in 1 .. n /\ t[p] = s[k + p - 1] /\ k \in 1 .. n
      BY <1>1, <1>3, <2>1
    <3>2. EndsWord(s, k + p - 1)
      BY <1>1, <1>6, <2>3, <3>1 DEF Unstrayed, Feeds
    <3>3. p # 1
      <4>1. p = 1 => k + p - 1 = k
        BY <3>1
      <4>2. s[k] # FormFeed
        BY <1>6, <3>1
      <4>3. QED BY <2>3, <3>1, <4>1, <4>2
    <3>4. p > 1 /\ p - 1 \in 1 .. n - k + 1 /\ k + (p - 1) - 1 = (k + p - 1) - 1
      BY <1>1, <2>1, <3>3
    <3>5. t[p - 1] = s[(k + p - 1) - 1]
      BY <1>3, <3>4
    <3>6. t[p - 1] \in Words
      BY <3>2, <3>5 DEF EndsWord
    <3>7. ASSUME p > 2 PROVE ~ TextChar(t[p - 2])
      <4>1. p - 2 \in 1 .. n - k + 1 /\ k + (p - 2) - 1 = (k + p - 1) - 2 /\ k + p - 1 > 2
        BY <1>1, <2>1, <3>1, <3>7
      <4>2. t[p - 2] = s[(k + p - 1) - 2]
        BY <1>3, <4>1
      <4>3. QED BY <3>2, <4>1, <4>2 DEF EndsWord
    <3>8. QED BY <3>4, <3>6, <3>7 DEF EndsWord
  <2>4. QED BY <2>2, <2>3 DEF Unstrayed, Compares, Feeds
<1>7. QED BY <1>3, <1>4, <1>5, <1>6 DEF t, n

\* Trimming takes blanks only, and all it takes of those in front.
LEMMA TrimmedIs ==
  ASSUME NEW s \in Seq(Char)
  PROVE  /\ Trimmed(s) \in Seq(Char) /\ Spelled(Trimmed(s)) = Spelled(s)
         /\ Trimmed(s) # <<>> => Trimmed(s)[1] \notin Trims
         /\ Trimmed(s) = <<>> => \A p \in DOMAIN s : s[p] \in Trims
         /\ Unstrayed(s) => Unstrayed(Trimmed(s))
<1> DEFINE inside == {p \in DOMAIN s : s[p] \notin Trims}
           k == Min(inside)
           t == SubSeq(s, k, Len(s))
           u == SubSeq(s, 1, k - 1)
<1>1. Len(s) \in Nat /\ DOMAIN s = 1 .. Len(s) /\ \A i \in 1 .. Len(s) : s[i] \in Char
  BY LenProperties
<1>2. CASE inside = {}
  <2>1. Trimmed(s) = <<>>
    BY <1>2 DEF Trimmed
  <2>2. \A p \in DOMAIN s : s[p] \in Trims
    BY <1>2
  <2>3. s \in Seq(Trims)
    <3>1. s \in [1 .. Len(s) -> Trims]
      BY <1>1, <2>2, LenProperties
    <3>2. QED BY <1>1, <3>1, SeqDef
  <2>4. Spelled(s) = <<>>
    <3>1. Trims \subseteq Blank
      BY DEF Blank
    <3>2. QED BY <2>3, <3>1, SpelledBlanks
  <2>5. <<>> \in Seq(Char) /\ Unstrayed(<<>>)
    BY EmptySeq DEF Unstrayed, Compares, Feeds
  <2>6. QED BY <2>1, <2>2, <2>4, <2>5, SpelledEmpty
<1>3. CASE inside # {}
  <2>1. Trimmed(s) = t
    BY <1>3 DEF Trimmed
  <2>2. k \in inside /\ \A p \in inside : k <= p
    <3>1. inside \subseteq Nat
      BY <1>1
    <3>2. \E p \in inside : \A q \in inside : p <= q
      BY <1>3, <3>1, Least
    <3> HIDE DEF inside
    <3>3. QED BY <3>2 DEF Min
  <2> HIDE DEF k
  <2>3. k \in 1 .. Len(s) /\ s[k] \notin Trims /\ k \in 1 .. Len(s) + 1
    BY <1>1, <2>2
  <2>4. /\ t \in Seq(Char) /\ Len(t) = Len(s) - k + 1
        /\ \A i \in 1 .. Len(t) : t[i] = s[k + i - 1]
        /\ Unstrayed(s) /\ (k <= Len(s) => s[k] # FormFeed) => Unstrayed(t)
        /\ s = u \o t /\ u \in Seq(Char)
    BY <2>3, EndOf
  <2>5. u \in Seq(Trims)
    <3>1. \A i \in 1 .. k - 1 : s[i] \in Trims
      BY <1>1, <2>2, <2>3
    <3>2. 1 \in Int /\ k - 1 \in Int
      BY <2>3
    <3>3. QED BY <3>1, <3>2, SubSeqProperties
  <2>6. t # <<>> /\ t[1] \notin Trims
    <3>1. 1 \in 1 .. Len(t) /\ k + 1 - 1 = k
      BY <1>1, <2>3, <2>4
    <3> HIDE DEF t
    <3>2. t[1] = s[k]
      BY <2>4, <3>1
    <3>3. Len(<<>>) = 0
      BY EmptySeq
    <3>4. QED BY <2>3, <3>1, <3>2, <3>3
  <2> HIDE DEF t, u
  <2>7. Spelled(s) = Spelled(t)
    <3>1. Spelled(s) = Spelled(u) \o Spelled(t)
      BY <2>4, SpelledConcat
    <3>2. Spelled(u) = <<>> /\ Spelled(t) \in Seq(Char)
      <4>1. Trims \subseteq Blank
        BY DEF Blank
      <4>2. QED BY <2>4, <2>5, <4>1, SpelledBlanks, SpelledType
    <3>3. QED BY <3>1, <3>2, ConcatEmptySeq
  <2>8. ASSUME Unstrayed(s) PROVE s[k] # FormFeed
    <3>1. SUFFICES ASSUME s[k] = FormFeed PROVE FALSE
      OBVIOUS
    <3>2. EndsWord(s, k)
      BY <1>1, <2>3, <2>8, <3>1 DEF Unstrayed, Feeds
    <3>3. k - 1 \in 1 .. Len(s) /\ k - 1 < k /\ s[k - 1] \in Words
      BY <1>1, <2>3, <3>2 DEF EndsWord
    <3>4. s[k - 1] \in Trims
      BY <1>1, <2>2, <2>3, <3>3
    <3>5. QED BY <3>3, <3>4 DEF Words, Trims, Space, Newline
  <2>9. QED BY <2>1, <2>4, <2>6, <2>7, <2>8
<1>4. QED BY <1>2, <1>3

(***************************************************************************)
(* One token.                                                              *)
(***************************************************************************)

Tokens == [kind : Kinds, value : Seq(Char)]

\* A string ends where it must, and a text has no character that ends it.
Shaped(t) ==
  LET v == t.value
  IN /\ t.kind = "STRING" =>
          /\ Len(v) > 1 /\ v[1] = Quote
          /\ \A p \in 2 .. Len(v) : p < Len(v) <=> (v[p] = Quote => Escaped(v, 1, p))
     /\ t.kind = "TEXT" => \A p \in DOMAIN v : TextChar(v[p])

\* The dash of a negation.
Negates(t) == t.kind = "NEGATE" /\ t.value = <<"-">>

\* Token t is the first c characters of s, but for the blank behind a word;
\* something is behind the dash of a negation, and no form feed behind any.
Reads(s, t, c) ==
  /\ t \in Tokens /\ Shaped(t) /\ c \in 1 .. Len(s)
  /\ \/ t.value = SubSeq(s, 1, c)
     \/ c = 2 /\ s[2] \in Blank /\ t.value = <<s[1]>>
  /\ Negates(t) => c + 1 \in DOMAIN s /\ s[c + 1] \notin Blank
  /\ c + 1 <= Len(s) => s[c + 1] # FormFeed

\* The beginning of an input.
LEMMA StartOf ==
  ASSUME NEW s \in Seq(Char), NEW c \in 1 .. Len(s)
  PROVE  LET t == SubSeq(s, 1, c)
         IN /\ t \in Seq(Char) /\ Len(t) = c /\ DOMAIN t = 1 .. c
            /\ \A i \in 1 .. c : t[i] = s[i]
<1> DEFINE t == SubSeq(s, 1, c)
<1>1. /\ 1 \in Int /\ c \in Int /\ 1 <= c /\ c - 1 + 1 = c
      /\ \A i \in 1 .. c : s[i] \in Char /\ 1 + i - 1 = i
  BY LenProperties
<1>2. /\ t \in Seq(Char) /\ Len(t) = IF 1 <= c THEN c - 1 + 1 ELSE 0
      /\ \A i \in 1 .. c - 1 + 1 : t[i] = s[1 + i - 1]
  BY <1>1, SubSeqProperties
<1> HIDE DEF t
<1>3. t \in Seq(Char) /\ Len(t) = c /\ \A i \in 1 .. c : t[i] = s[i]
  BY <1>1, <1>2
<1>4. DOMAIN t = 1 .. c
  BY <1>3, LenProperties
<1>5. QED BY <1>3, <1>4 DEF t

LEMMA PairIs ==
  ASSUME NEW T, NEW c \in T, NEW d \in T
  PROVE  <<c>> \o <<d>> = <<c, d>>
<1> DEFINE p == <<c>> \o <<d>>
<1>1. <<c>> \in Seq(T) /\ <<d>> \in Seq(T) /\ Len(<<c>>) = 1 /\ Len(<<d>>) = 1
  OBVIOUS
<1>2. /\ p \in Seq(T) /\ Len(p) = Len(<<c>>) + Len(<<d>>)
      /\ \A i \in 1 .. Len(<<c>>) + Len(<<d>>) :
            p[i] = IF i <= Len(<<c>>) THEN <<c>>[i] ELSE <<d>>[i - Len(<<c>>)]
  BY <1>1, ConcatProperties
<1> HIDE DEF p
<1>3. Len(p) = 2 /\ p[1] = c /\ p[2] = d
  BY <1>1, <1>2
<1>4. <<c, d>> \in Seq(T) /\ Len(<<c, d>>) = 2 /\ <<c, d>>[1] = c /\ <<c, d>>[2] = d
  OBVIOUS
<1>5. \A i \in 1 .. 2 : p[i] = <<c, d>>[i]
  BY <1>3, <1>4
<1>6. p = <<c, d>>
  BY <1>2, <1>3, <1>4, <1>5, SeqEqual
<1>7. QED BY <1>6 DEF p

\* Whatever is read, it and what is left spell what was there.
LEMMA ReadsSpells ==
  ASSUME NEW s \in Seq(Char), NEW t, NEW c, Reads(s, t, c), Unstrayed(s)
  PROVE  LET r == SubSeq(s, c + 1, Len(s))
         IN /\ r \in Seq(Char) /\ Unstrayed(r)
            /\ Spelled(s) = Spelled(t.value) \o Spelled(r)
            /\ Negates(t) => Trimmed(r) # <<>>
<1> DEFINE r == SubSeq(s, c + 1, Len(s))
           b == SubSeq(s, 1, c)
<1>1. c \in 1 .. Len(s) /\ c + 1 \in 1 .. Len(s) + 1 /\ (c + 1) - 1 = c /\ Len(s) \in Nat
  BY LenProperties DEF Reads
<1>2. /\ r \in Seq(Char) /\ Unstrayed(r) /\ Len(r) = Len(s) - (c + 1) + 1
      /\ \A i \in 1 .. Len(r) : r[i] = s[(c + 1) + i - 1]
      /\ s = b \o r /\ b \in Seq(Char)
  BY <1>1, EndOf DEF Reads
<1>3. Len(b) = c /\ \A i \in 1 .. c : b[i] = s[i]
  BY <1>1, StartOf
<1> HIDE DEF r, b
<1>4. Spelled(s) = Spelled(b) \o Spelled(r)
  BY <1>2, SpelledConcat
<1>5. Spelled(b) = Spelled(t.value)
  <2>1. CASE t.value = b
    BY <2>1
  <2>2. CASE c = 2 /\ s[2] \in Blank /\ t.value = <<s[1]>>
    <3>1. s[1] \in Char /\ s[2] \in Char
      BY <1>1, <2>2, LenProperties
    <3>2. <<s[1]>> \in Seq(Char) /\ <<s[2]>> \in Seq(Char)
      BY <3>1
    <3>3. b = <<s[1]>> \o <<s[2]>>
      <4>1. b = <<s[1], s[2]>>
        <5>1. b[1] = s[1] /\ b[2] = s[2] /\ Len(b) = 2
          BY <1>3, <2>2
        <5>2. <<s[1], s[2]>> \in Seq(Char) /\ Len(<<s[1], s[2]>>) = 2
          BY <3>1
        <5>3. \A i \in 1 .. 2 : b[i] = <<s[1], s[2]>>[i]
          BY <5>1
        <5>4. QED BY <1>2, <5>1, <5>2, <5>3, SeqEqual
      <4>2. <<s[1]>> \o <<s[2]>> = <<s[1], s[2]>>
        BY <3>1, PairIs
      <4>3. QED BY <4>1, <4>2
    <3>4. Spelled(b) = Spelled(<<s[1]>>) \o Spelled(<<s[2]>>)
      BY <3>2, <3>3, SpelledConcat
    <3>5. Spelled(<<s[2]>>) = <<>>
      BY <2>2, <3>1, SpelledChar
    <3>6. Spelled(<<s[1]>>) \in Seq(Char)
      BY <3>2, SpelledType
    <3>7. QED BY <2>2, <3>4, <3>5, <3>6, ConcatEmptySeq
  <2>3. QED BY <2>1, <2>2 DEF Reads, b
<1>6. ASSUME Negates(t) PROVE Trimmed(r) # <<>>
  <2>1. c + 1 \in 1 .. Len(s) /\ s[c + 1] \notin Blank
    BY <1>1, <1>6, LenProperties DEF Reads
  <2>2. 1 \in 1 .. Len(r) /\ (c + 1) + 1 - 1 = c + 1
    BY <1>1, <1>2, <2>1
  <2>3. 1 \in DOMAIN r /\ r[1] \notin Trims
    BY <1>2, <2>1, <2>2, LenProperties DEF Blank
  <2>4. QED BY <1>2, <2>3, TrimmedIs
<1>7. QED BY <1>2, <1>4, <1>5, <1>6 DEF r

\* The lengths of the alternatives at the front of an input.
LEMMA FrontLengths ==
  ASSUME NEW s \in Seq(Char), s # <<>>, s[1] \notin Trims, Unstrayed(s)
  PROVE  LET L == Lengths(s, 1)
         IN /\ DOMAIN L = 1 .. 6
            /\ \A a \in 1 .. 6 : L[a] \in 0 .. Len(s)
            /\ \E a \in 1 .. 6 : L[a] > 0
            /\ L[1] > 0 => s[L[1]] \in Comparators
            /\ L[2] > 0 => L[2] = 2 /\ s[1] \in Words /\ s[2] \in Blank
            /\ At(s, 1, Words) /\ At(s, 2, Blank) => L[2] > 0
            /\ L[3] > 0 => L[3] = 2 /\ s[1] = "-" /\ s[2] \notin Blank
            /\ L[4] > 0 => L[4] = 1 /\ s[1] \in Marks
            /\ L[5] > 0 =>
                 /\ L[5] > 1 /\ s[1] = Quote /\ s[L[5]] = Quote /\ ~ Escaped(s, 1, L[5])
                 /\ \A q \in 2 .. L[5] - 1 : s[q] = Quote => Escaped(s, 1, q)
            /\ \A q \in 1 .. L[6] : TextChar(s[q])
<1> DEFINE n == Len(s)
           L == Lengths(s, 1)
<1>1. n \in Nat /\ n > 0 /\ DOMAIN s = 1 .. n /\ 1 \in DOMAIN s /\ 1 + 1 = 2
      /\ \A q \in 1 .. n : s[q] \in Char
  BY LenProperties, EmptySeq
<1> HIDE DEF n
<1>2. L = <<Comparator(s, 1), Word(s, 1), Dash(s, 1), Mark(s, 1), String(s, 1), Text(s, 1)>>
  BY DEF Lengths
<1>3. /\ DOMAIN L = 1 .. 6
      /\ L[1] = Comparator(s, 1) /\ L[2] = Word(s, 1) /\ L[3] = Dash(s, 1)
      /\ L[4] = Mark(s, 1) /\ L[5] = String(s, 1) /\ L[6] = Text(s, 1)
  BY <1>2
<1> HIDE DEF L
<1>4. /\ Comparator(s, 1) \in 0 .. n /\ (s[1] \in Comparators => Comparator(s, 1) > 0)
      /\ Comparator(s, 1) > 0 => s[Comparator(s, 1)] \in Comparators
  <2>1. At(s, 2, {"="}) => 2 \in 1 .. n
    BY <1>1 DEF At
  <2>2. s[1] = "!" => At(s, 2, {"="})
    BY <1>1 DEF Unstrayed, Compares
  <2>3. At(s, 1, Comparators) <=> s[1] \in Comparators
    BY <1>1 DEF At
  <2>4. Comparator(s, 1) = IF s[1] \notin Comparators THEN 0
                           ELSE IF s[1] \in {"<", ">", "!"} /\ At(s, 2, {"="}) THEN 2
                           ELSE IF s[1] = "!" THEN 0 ELSE 1
    BY <1>1, <2>3 DEF Comparator
  <2>5. At(s, 2, {"="}) => s[2] \in Comparators
    BY DEF At, Comparators
  <2>6. Comparator(s, 1) > 0 => s[Comparator(s, 1)] \in Comparators
    <3>1. CASE s[1] \notin Comparators
      BY <2>4, <3>1
    <3>2. CASE s[1] \in Comparators /\ s[1] \in {"<", ">", "!"} /\ At(s, 2, {"="})
      <4>1. Comparator(s, 1) = 2
        BY <2>4, <3>2
      <4>2. QED BY <2>5, <3>2, <4>1
    <3>3. CASE s[1] \in Comparators /\ ~ (s[1] \in {"<", ">", "!"} /\ At(s, 2, {"="}))
      <4>1. Comparator(s, 1) \in {0, 1}
        BY <2>4, <3>3
      <4>2. QED BY <3>3, <4>1
    <3>4. QED BY <3>1, <3>2, <3>3
  <2>7. QED BY <1>1, <2>1, <2>2, <2>4, <2>6
<1>5. /\ Word(s, 1) \in 0 .. n
      /\ Word(s, 1) > 0 => Word(s, 1) = 2 /\ s[1] \in Words /\ s[2] \in Blank
      /\ At(s, 1, Words) /\ At(s, 2, Blank) => Word(s, 1) > 0
  BY <1>1 DEF Word, At
<1>6. /\ Dash(s, 1) \in 0 .. n
      /\ Dash(s, 1) > 0 => Dash(s, 1) = 2 /\ s[1] = "-" /\ s[2] \notin Blank
  BY <1>1 DEF Dash, At
<1>7. /\ Mark(s, 1) \in 0 .. n /\ (s[1] \in Marks => Mark(s, 1) > 0)
      /\ Mark(s, 1) > 0 => Mark(s, 1) = 1 /\ s[1] \in Marks
  BY <1>1 DEF Mark, At
<1>8. LET e == String(s, 1)
      IN /\ e \in 0 .. n
         /\ e > 0 => /\ e > 1 /\ s[1] = Quote /\ s[e] = Quote /\ ~ Escaped(s, 1, e)
                     /\ \A q \in 2 .. e - 1 : s[q] = Quote => Escaped(s, 1, q)
  <2> DEFINE Straight(q) == \A j \in 1 + 1 .. q : s[j] = Newline => ~ Escaped(s, 1, j)
             ends == {q \in 1 + 1 .. n : s[q] = Quote /\ ~ Escaped(s, 1, q) /\ Straight(q)}
             e == String(s, 1)
  <2>1. e = IF ~ At(s, 1, {Quote}) \/ ends = {} THEN 0 ELSE Min(ends) - 1 + 1
    BY DEF String, n
  <2>2. CASE ~ At(s, 1, {Quote}) \/ ends = {}
    BY <1>1, <2>1, <2>2
  <2>3. CASE At(s, 1, {Quote}) /\ ends # {}
    <3>1. Min(ends) \in ends /\ \A q \in ends : Min(ends) <= q
      <4>1. ends \subseteq Nat
        BY <1>1
      <4>2. \E p \in ends : \A q \in ends : p <= q
        BY <2>3, <4>1, Least
      <4> HIDE DEF ends
      <4>3. QED BY <4>2 DEF Min
    <3>2. Min(ends) \in 2 .. n /\ e = Min(ends) - 1 + 1
      BY <1>1, <2>1, <2>3, <3>1
    <3>3. e = Min(ends) /\ e \in 2 .. n
      BY <3>2
    <3> HIDE DEF e
    <3>4. s[e] = Quote /\ ~ Escaped(s, 1, e) /\ s[1] = Quote
      BY <2>3, <3>1, <3>3 DEF At
    <3>5. ASSUME NEW q \in 2 .. e - 1, s[q] = Quote PROVE Escaped(s, 1, q)
      <4>1. q \in 2 .. n /\ ~ (e <= q)
        BY <1>1, <3>3
      <4>2. Straight(q)
        <5>1. \A j \in 1 + 1 .. q : j \in 1 + 1 .. e
          BY <3>3
        <5>2. QED BY <3>1, <3>3, <5>1
      <4> HIDE DEF Straight
      <4>3. QED BY <1>1, <3>1, <3>3, <3>5, <4>1, <4>2
    <3>6. QED BY <1>1, <3>3, <3>4, <3>5 DEF e
  <2>4. QED BY <2>2, <2>3
<1>9. /\ Text(s, 1) \in 0 .. n /\ (TextChar(s[1]) => Text(s, 1) > 0)
      /\ \A q \in 1 .. Text(s, 1) : TextChar(s[q])
  <2> DEFINE ends == {q \in 1 .. n + 1 : q > n \/ ~ TextChar(s[q])}
             e == Min(ends)
  <2>1. Text(s, 1) = e - 1
    BY DEF Text, n
  <2>2. e \in ends /\ \A q \in ends : e <= q
    <3>1. ends \subseteq Nat /\ n + 1 \in ends
      BY <1>1
    <3>2. \E p \in ends : \A q \in ends : p <= q
      BY <3>1, Least
    <3> HIDE DEF ends
    <3>3. QED BY <3>2 DEF Min
  <2> HIDE DEF e
  <2>3. e \in 1 .. n + 1
    BY <2>2
  <2>4. TextChar(s[1]) => e # 1
    BY <1>1, <2>2
  <2>5. ASSUME NEW q \in 1 .. e - 1 PROVE TextChar(s[q])
    <3>1. q \in 1 .. n + 1 /\ ~ (e <= q) /\ ~ (q > n)
      BY <1>1, <2>3
    <3>2. QED BY <2>2, <3>1
  <2>6. QED BY <1>1, <2>1, <2>3, <2>4, <2>5
<1>10. s[1] \in Comparators \/ s[1] \in Marks \/ TextChar(s[1])
  <2>1. s[1] # FormFeed
    BY FrontFed DEF Unstrayed
  <2>2. s[1] \notin Blank
    BY <2>1 DEF Blank
  <2>3. QED BY <2>2 DEF TextChar
<1>11. \E a \in 1 .. 6 : L[a] > 0
  BY <1>3, <1>4, <1>7, <1>9, <1>10
<1>12. \A a \in 1 .. 6 : L[a] \in 0 .. n
  BY <1>3, <1>4, <1>5, <1>6, <1>7, <1>8, <1>9
<1>13. /\ L[1] > 0 => s[L[1]] \in Comparators
       /\ At(s, 1, Words) /\ At(s, 2, Blank) => L[2] > 0
  BY <1>3, <1>4, <1>5
<1>14. QED BY <1>3, <1>5, <1>6, <1>7, <1>8, <1>9, <1>11, <1>12, <1>13 DEF L, n

\* Whether a quote is escaped is seen from what is in front of it.
LEMMA EscapedFront ==
  ASSUME NEW s, NEW t, NEW c \in Nat, \A i \in 1 .. c : t[i] = s[i], NEW q \in 2 .. c
  PROVE  Escaped(t, 1, q) <=> Escaped(s, 1, q)
<1>1. ASSUME NEW k \in 1 .. q - 1 - 1
      PROVE  /\ \A j \in 1 .. k : t[q - j] = s[q - j]
             /\ t[q - k - 1] = s[q - k - 1]
  <2>1. \A j \in 1 .. k : q - j \in 1 .. c
    OBVIOUS
  <2>2. q - k - 1 \in 1 .. c
    OBVIOUS
  <2>3. QED BY <2>1, <2>2
<1>2. QED BY <1>1 DEF Escaped

\* The match at the front of an input makes a token as Reads says.
LEMMA MatchReads ==
  ASSUME NEW s \in Seq(Char), s # <<>>, s[1] \notin Trims, Unstrayed(s)
  PROVE  Reads(s, TokenOf(Match(s, 1)), Cut(Match(s, 1)))
<1> DEFINE L == Lengths(s, 1)
           first == {n \in DOMAIN L : L[n] > 0}
           a == Min(first)
           e == L[a]
           v == SubSeq(s, 1, e)
           m == Match(s, 1)
           t == TokenOf(m)
<1>1. /\ DOMAIN L = 1 .. 6
      /\ \A n \in 1 .. 6 : L[n] \in 0 .. Len(s)
      /\ \E n \in 1 .. 6 : L[n] > 0
      /\ L[1] > 0 => s[L[1]] \in Comparators
      /\ L[2] > 0 => L[2] = 2 /\ s[1] \in Words /\ s[2] \in Blank
      /\ At(s, 1, Words) /\ At(s, 2, Blank) => L[2] > 0
      /\ L[3] > 0 => L[3] = 2 /\ s[1] = "-" /\ s[2] \notin Blank
      /\ L[4] > 0 => L[4] = 1 /\ s[1] \in Marks
      /\ L[5] > 0 =>
           /\ L[5] > 1 /\ s[1] = Quote /\ s[L[5]] = Quote /\ ~ Escaped(s, 1, L[5])
           /\ \A q \in 2 .. L[5] - 1 : s[q] = Quote => Escaped(s, 1, q)
      /\ \A q \in 1 .. L[6] : TextChar(s[q])
  BY FrontLengths
<1>2. Len(s) \in Nat /\ DOMAIN s = 1 .. Len(s) /\ \A q \in 1 .. Len(s) : s[q] \in Char
  BY LenProperties
<1>3. m = [alternative |-> a, text |-> SubSeq(s, 1, 1 + e - 1)]
  BY DEF Match
<1> HIDE DEF L, m
<1>4. a \in 1 .. 6 /\ L[a] > 0 /\ (a = 6 => ~ (L[2] > 0))
  <2>1. first \subseteq Nat /\ first # {}
    BY <1>1
  <2>2. \E p \in first : \A q \in first : p <= q
    BY <2>1, Least
  <2> HIDE DEF first
  <2>3. a \in first /\ \A q \in first : a <= q
    BY <2>2 DEF Min
  <2>4. a = 6 => 2 \notin first
    BY <2>3
  <2>5. QED BY <1>1, <2>3, <2>4 DEF first
<1> HIDE DEF a, t
<1>5. e \in 1 .. Len(s)
  BY <1>1, <1>2, <1>4
<1>6. v \in Seq(Char) /\ Len(v) = e /\ DOMAIN v = 1 .. e /\ \A i \in 1 .. e : v[i] = s[i]
  BY <1>5, StartOf
<1>7. m.alternative = a /\ m.text = v /\ Len(m.text) = e /\ m.text[1] = s[1]
  <2>1. 1 + e - 1 = e /\ 1 \in 1 .. e
    BY <1>5
  <2>2. m.alternative = a /\ m.text = v
    BY <1>3, <2>1
  <2>3. QED BY <1>6, <2>1, <2>2
<1> HIDE DEF v
<1>8. s[1] \in Char /\ <<s[1]>> \in Seq(Char) /\ 1 \in 1 .. Len(s)
  <2>1. 1 \in 1 .. Len(s)
    BY <1>5
  <2>2. s[1] \in Char
    BY <1>2, <2>1
  <2>3. QED BY <2>1, <2>2
<1>9. v = SubSeq(s, 1, e)
  BY DEF v
\* A form feed behind a token would be behind a word the token ends with.
<1>9a. ASSUME NEW c \in 1 .. Len(s), c + 1 <= Len(s), s[c + 1] = FormFeed
       PROVE  s[c] \in Words /\ (c > 1 => ~ TextChar(s[c - 1]))
  <2>1. c + 1 \in DOMAIN s /\ (c + 1) - 1 = c /\ (c + 1) - 2 = c - 1
    BY <1>2, <1>9a
  <2>2. EndsWord(s, c + 1)
    BY <1>9a, <2>1 DEF Unstrayed, Feeds
  <2>3. QED BY <1>9a, <2>1, <2>2 DEF EndsWord
<1>10. ASSUME a = 1 PROVE Reads(s, t, Cut(m))
  <2>1. t = Token("COMPARATOR", v) /\ Cut(m) = e
    BY <1>7, <1>10 DEF TokenOf, Cut, t
  <2>2. t.kind = "COMPARATOR" /\ t.value = v /\ t \in Tokens
    BY <1>6, <2>1 DEF Tokens, Kinds, Token
  <2>3. s[e] \notin Words
    BY <1>1, <1>4, <1>10 DEF Comparators, Words
  <2>4. QED BY <1>5, <1>9, <1>9a, <2>1, <2>2, <2>3 DEF Reads, Shaped, Negates
<1>11. ASSUME a \in {2, 4} PROVE Reads(s, t, Cut(m))
  <2>1. t = Token(KindOf(s[1]), <<s[1]>>) /\ Cut(m) = e
    BY <1>7, <1>11 DEF TokenOf, Cut, t
  <2>2. /\ KindOf(s[1]) \in Kinds /\ KindOf(s[1]) # "STRING" /\ KindOf(s[1]) # "TEXT"
        /\ s[1] # "-"
    BY <1>1, <1>4, <1>11 DEF KindOf, Kinds, Words, Marks
  <2>3. t.kind = KindOf(s[1]) /\ t.value = <<s[1]>>
    BY <2>1 DEF Token
  <2>4. t \in Tokens
    BY <1>8, <2>1, <2>2 DEF Tokens, Token
  <2>5. Shaped(t)
    BY <2>2, <2>3 DEF Shaped
  <2>6. ~ Negates(t)
    BY <2>2, <2>3 DEF Negates
  <2>7. CASE a = 2
    <3>1. e = 2 /\ s[2] \in Blank
      BY <1>1, <1>4, <2>7
    <3>2. s[e] \notin Words
      BY <3>1 DEF Blank, Trims, Space, Newline, FormFeed, Words
    <3>3. QED BY <1>5, <1>9a, <2>1, <2>3, <2>4, <2>5, <2>6, <3>1, <3>2 DEF Reads
  <2>8. CASE a = 4
    <3>1. e = 1 /\ s[1] \notin Words
      BY <1>1, <1>4, <2>8 DEF Marks, Words
    <3>2. v = <<s[1]>>
      <4>1. Len(<<s[1]>>) = 1 /\ <<s[1]>>[1] = s[1] /\ v[1] = s[1]
        BY <1>6, <3>1
      <4>2. QED BY <1>6, <1>8, <3>1, <4>1, SeqEqual
    <3>3. QED BY <1>5, <1>9, <1>9a, <2>1, <2>3, <2>4, <2>5, <2>6, <3>1, <3>2 DEF Reads
  <2>9. QED BY <1>11, <2>7, <2>8
<1>12. ASSUME a = 3 PROVE Reads(s, t, Cut(m))
  <2>1. t = Token("NEGATE", <<"-">>) /\ Cut(m) = 1
    BY <1>7, <1>12 DEF TokenOf, Cut, t
  <2>2. e = 2 /\ s[1] = "-" /\ s[2] \notin Blank
    BY <1>1, <1>4, <1>12
  <2>3. SubSeq(s, 1, 1) = <<s[1]>>
    <3> DEFINE u == SubSeq(s, 1, 1)
    <3>1. u \in Seq(Char) /\ Len(u) = 1 /\ \A i \in 1 .. 1 : u[i] = s[i]
      BY <1>8, StartOf
    <3> HIDE DEF u
    <3>2. Len(<<s[1]>>) = 1 /\ <<s[1]>>[1] = s[1] /\ u[1] = s[1]
      BY <3>1
    <3>3. u = <<s[1]>>
      BY <1>8, <3>1, <3>2, SeqEqual
    <3>4. QED BY <3>3 DEF u
  <2>4. 1 + 1 \in DOMAIN s /\ 1 + 1 = 2
    BY <1>2, <1>5, <2>2
  <2>5. t \in Tokens /\ Shaped(t) /\ t.value = SubSeq(s, 1, 1)
    BY <1>8, <2>1, <2>2, <2>3 DEF Tokens, Kinds, Token, Shaped
  <2>6. s[2] # FormFeed
    BY <2>2 DEF Blank
  <2>7. QED BY <1>8, <2>1, <2>2, <2>4, <2>5, <2>6 DEF Reads
<1>13. ASSUME a = 5 PROVE Reads(s, t, Cut(m))
  <2>1. t = Token("STRING", v) /\ Cut(m) = e
    BY <1>7, <1>13 DEF TokenOf, Cut, t
  <2>2. /\ e > 1 /\ s[1] = Quote /\ s[e] = Quote /\ ~ Escaped(s, 1, e)
        /\ \A q \in 2 .. e - 1 : s[q] = Quote => Escaped(s, 1, q)
    BY <1>1, <1>4, <1>13
  <2>3. \A q \in 2 .. e : Escaped(v, 1, q) <=> Escaped(s, 1, q)
    <3>1. e \in Nat /\ \A i \in 1 .. e : v[i] = s[i]
      BY <1>5, <1>6
    <3> HIDE DEF e
    <3>2. QED BY <3>1, EscapedFront
  <2>4. ASSUME NEW p \in 2 .. e
        PROVE  p < e <=> (v[p] = Quote => Escaped(v, 1, p))
    <3>1. v[p] = s[p] /\ (Escaped(v, 1, p) <=> Escaped(s, 1, p))
      BY <1>6, <2>3
    <3>2. p < e => p \in 2 .. e - 1
      BY <1>5
    <3>3. ~ (p < e) => p = e
      BY <1>5
    <3>4. QED BY <2>2, <3>1, <3>2, <3>3
  <2>5. v[1] = Quote
    BY <1>6, <2>2
  <2>6. Shaped(t)
    <3>1. t.kind = "STRING" /\ t.value = v
      BY <2>1 DEF Token
    <3>2. QED BY <1>6, <2>2, <2>4, <2>5, <3>1 DEF Shaped
  <2>7. t.kind = "STRING" /\ t.value = v /\ t \in Tokens
    BY <1>6, <2>1 DEF Tokens, Kinds, Token
  <2>8. s[e] \notin Words
    BY <2>2 DEF Quote, Words
  <2>9. QED BY <1>5, <1>9, <1>9a, <2>1, <2>6, <2>7, <2>8 DEF Reads, Negates
<1>14. ASSUME a = 6 PROVE Reads(s, t, Cut(m))
  <2>1. t = Token("TEXT", v) /\ Cut(m) = e
    BY <1>7, <1>14 DEF TokenOf, Cut, t
  <2>2. \A p \in 1 .. e : TextChar(v[p])
    BY <1>1, <1>6, <1>14
  <2>3. t.kind = "TEXT" /\ t.value = v /\ t \in Tokens
    BY <1>6, <2>1 DEF Tokens, Kinds, Token
  <2>4. ASSUME e + 1 <= Len(s) PROVE s[e + 1] # FormFeed
    <3>1. SUFFICES ASSUME s[e + 1] = FormFeed PROVE FALSE
      OBVIOUS
    <3>2. s[e] \in Words /\ (e > 1 => ~ TextChar(s[e - 1]))
      BY <1>5, <1>9a, <2>4, <3>1
    <3>3. CASE e > 1
      <4>1. e - 1 \in 1 .. e
        BY <1>5, <3>3
      <4>2. QED BY <1>6, <2>2, <3>2, <3>3, <4>1
    <3>4. CASE ~ (e > 1)
      <4>1. e = 1 /\ 1 \in DOMAIN s /\ 2 \in DOMAIN s
        BY <1>2, <1>5, <2>4, <3>4
      <4>2. At(s, 1, Words) /\ At(s, 2, Blank)
        BY <3>1, <3>2, <4>1 DEF At, Blank
      <4>3. QED BY <1>1, <1>4, <1>14, <4>2
    <3>5. QED BY <3>3, <3>4
  <2>5. QED BY <1>5, <1>6, <1>9, <2>1, <2>2, <2>3, <2>4 DEF Reads, Shaped, Negates
<1>15. Reads(s, t, Cut(m))
  BY <1>4, <1>10, <1>11, <1>12, <1>13, <1>14
<1>16. QED BY <1>15 DEF t, m

\* Next reads a token unless there are only blanks, and one only: the match is
\* at the front of what is left when no character is astray.
LEMMA ReadingsAre ==
  ASSUME rest \in Seq(Char), Unstrayed(rest), Trimmed(rest) # <<>>
  PROVE  /\ Readings # {}
         /\ \A r \in Readings :
              \E c : /\ Reads(Trimmed(rest), r.token, c)
                     /\ r.rest = SubSeq(Trimmed(rest), c + 1, Len(Trimmed(rest)))
<1> DEFINE s == Trimmed(rest)
           m == Match(s, 1)
<1>1. s \in Seq(Char) /\ s # <<>> /\ s[1] \notin Trims /\ Unstrayed(s)
  BY TrimmedIs
<1> HIDE DEF s
<1>2. Reads(s, TokenOf(m), Cut(m))
  BY <1>1, MatchReads
<1>3. 1 \in Places(s)
  <2>1. \E a \in 1 .. 6 : Lengths(s, 1)[a] > 0
    BY <1>1, FrontLengths
  <2>2. 1 \in DOMAIN s
    BY <1>1, LenProperties, EmptySeq
  <2>3. QED BY <2>1, <2>2 DEF Places
<1>4. {q \in Places(s) : \A r \in Places(s) : q <= r} = {1}
  <2>1. \A q \in Places(s) : q \in Nat /\ 1 <= q
    BY <1>1, LenProperties DEF Places
  <2>2. QED BY <1>3, <2>1
<1>5. Readings = {[token |-> TokenOf(n), rest |-> SubSeq(s, Cut(n) + 1, Len(s))] :
                    n \in {Match(s, p) : p \in {1}}}
  BY <1>4 DEF Readings, s
<1>6. Readings = {[token |-> TokenOf(m), rest |-> SubSeq(s, Cut(m) + 1, Len(s))]}
  BY <1>5
<1> DEFINE u == SubSeq(s, Cut(m) + 1, Len(s))
           t == TokenOf(m)
           one == [token |-> t, rest |-> u]
<1>7. Readings = {one} /\ Reads(s, t, Cut(m))
  BY <1>2, <1>6
<1> HIDE DEF m
<1>8. u = SubSeq(s, Cut(m) + 1, Len(s))
  OBVIOUS
<1> HIDE DEF t, u
<1>9. one.token = t /\ one.rest = u
  OBVIOUS
<1> HIDE DEF one
<1>10. \A r \in Readings : Reads(s, r.token, Cut(m)) /\ r.rest = SubSeq(s, Cut(m) + 1, Len(s))
  BY <1>7, <1>8, <1>9
<1>11. QED BY <1>7, <1>10 DEF s

(***************************************************************************)
(* The tokens read so far.                                                 *)
(***************************************************************************)

\* The values of the tokens ts.
ValuesOf(ts) == FlattenSeq([n \in DOMAIN ts |-> ts[n].value])

LEMMA ValuesOfType ==
  ASSUME NEW ts \in Seq(Tokens)
  PROVE  ValuesOf(ts) \in Seq(Char)
<1> DEFINE b == [n \in DOMAIN ts |-> ts[n].value]
           m == Len(ts)
<1>1. m \in Nat /\ DOMAIN ts = 1 .. m /\ \A n \in 1 .. m : ts[n] \in Tokens
  BY LenProperties
<1>2. \A t \in Tokens : t.value \in Seq(Char)
  BY DEF Tokens
<1> HIDE DEF m
<1>3. b \in [1 .. m -> Seq(Char)]
  BY <1>1, <1>2
<1>4. ValuesOf(ts) = FlattenSeq(b)
  BY DEF ValuesOf
<1> HIDE DEF b
<1>5. b \in Seq(Seq(Char))
  BY <1>1, <1>3, SeqDef
<1>6. QED BY <1>4, <1>5, FlattenType

\* A token more is its value more.
LEMMA ValuesOfAppend ==
  ASSUME NEW ts \in Seq(Tokens), NEW t \in Tokens
  PROVE  ValuesOf(Append(ts, t)) = ValuesOf(ts) \o t.value
<1> DEFINE V(u) == [n \in DOMAIN u |-> u[n].value]
           us == Append(ts, t)
           m == Len(ts)
<1>1. /\ m \in Nat /\ DOMAIN ts = 1 .. m /\ \A n \in 1 .. m : ts[n] \in Tokens
      /\ us \in Seq(Tokens) /\ Len(us) = m + 1 /\ DOMAIN us = 1 .. m + 1
      /\ us[m + 1] = t /\ \A n \in 1 .. m : us[n] = ts[n]
  BY LenProperties, AppendProperties
<1>2. \A u \in Tokens : u.value \in Seq(Char)
  BY DEF Tokens
<1> HIDE DEF m, us
<1>3. V(ts) \in Seq(Seq(Char)) /\ Len(V(ts)) = m
  <2> DEFINE b == V(ts)
  <2>1. b \in [1 .. m -> Seq(Char)]
    BY <1>1, <1>2
  <2> HIDE DEF b
  <2>2. b \in Seq(Seq(Char))
    BY <1>1, <2>1, SeqDef
  <2>3. Len(b) = m
    BY <1>1, <2>1, <2>2, LenProperties
  <2>4. QED BY <2>2, <2>3 DEF b
<1>4. V(us) \in Seq(Seq(Char)) /\ Len(V(us)) = m + 1
  <2> DEFINE b == V(us)
             k == m + 1
  <2>1. k \in Nat /\ DOMAIN us = 1 .. k /\ us \in Seq(Tokens) /\ k = Len(us)
    BY <1>1
  <2>2. b \in [1 .. k -> Seq(Char)]
    <3>1. \A n \in 1 .. k : us[n] \in Tokens
      BY <2>1
    <3>2. QED BY <1>2, <2>1, <3>1
  <2> HIDE DEF b, k
  <2>3. b \in Seq(Seq(Char))
    BY <2>1, <2>2, SeqDef
  <2>4. Len(b) = k
    BY <2>1, <2>2, <2>3, LenProperties
  <2>5. QED BY <2>3, <2>4 DEF b, k
<1>5. V(us) = Append(V(ts), t.value)
  <2> DEFINE b == V(ts)
             c == V(us)
             x == t.value
  <2>1. /\ b \in Seq(Seq(Char)) /\ Len(b) = m /\ c \in Seq(Seq(Char)) /\ Len(c) = m + 1
        /\ x \in Seq(Char)
    BY <1>2, <1>3, <1>4
  <2>2. /\ c[m + 1] = x
        /\ \A n \in 1 .. m : c[n] = b[n]
    <3>1. m + 1 \in DOMAIN us /\ \A n \in 1 .. m : n \in DOMAIN us /\ n \in DOMAIN ts
      BY <1>1
    <3>2. QED BY <1>1, <3>1
  <2> HIDE DEF b, c, x, V
  <2>3. /\ Append(b, x) \in Seq(Seq(Char)) /\ Len(Append(b, x)) = m + 1
        /\ Append(b, x)[m + 1] = x /\ \A n \in 1 .. m : Append(b, x)[n] = b[n]
    BY <2>1, AppendProperties
  <2>4. \A n \in 1 .. m + 1 : c[n] = Append(b, x)[n]
    <3>1. \A n \in 1 .. m + 1 : n = m + 1 \/ n \in 1 .. m
      BY <1>1
    <3>2. QED BY <2>2, <2>3, <3>1
  <2>5. c = Append(b, x)
    BY <2>1, <2>3, <2>4, SeqEqual
  <2>6. QED BY <2>5 DEF b, c, x
<1>6. t.value \in Seq(Char)
  BY <1>2
<1>7. ValuesOf(us) = FlattenSeq(V(us)) /\ ValuesOf(ts) = FlattenSeq(V(ts))
  BY DEF ValuesOf
<1> HIDE DEF V
<1>8. FlattenSeq(V(us)) = FlattenSeq(V(ts)) \o t.value
  <2>1. FlattenSeq(V(ts)) \in Seq(Char)
    BY <1>3, FlattenType
  <2>2. QED BY <1>3, <1>5, <1>6, <2>1, FlattenAppend
<1>9. QED BY <1>7, <1>8 DEF us

(***************************************************************************)
(* The invariant.                                                          *)
(***************************************************************************)

\* What is left has no character astray either, tokens have their shape, behind
\* the dash of a negation there is something, and nothing is lost or made up.
Lexes ==
  /\ rest \in Seq(Char) /\ Unstrayed(rest)
  /\ tokens \in Seq(Tokens) /\ next \in Tokens \cup {Nil}
  /\ next # Nil => Shaped(next) /\ (Negates(next) => Trimmed(rest) # <<>>)
  /\ \A n \in DOMAIN tokens :
       /\ Shaped(tokens[n])
       /\ Negates(tokens[n]) => n < Len(tokens) \/ next # Nil \/ Trimmed(rest) # <<>>
  /\ Spelled(Values \o Kept \o rest) = Spelled(input)

LexerInv == input \in Seq(Char) /\ (~ Stray => Lexes)

LEMMA InputInSeq == Init => input \in Seq(Char)
<1>1. \A n \in 0 .. MaxLen : n \in Nat
  OBVIOUS
<1>2. QED BY <1>1, SeqDef DEF Init

\* Nothing is read at the beginning.
LEMMA LexesInit == Init => LexerInv
<1> SUFFICES ASSUME Init PROVE LexerInv
  OBVIOUS
<1>1. input \in Seq(Char)
  BY InputInSeq
<1>2. ASSUME ~ Stray PROVE Lexes
  <2>1. rest = input /\ next = Nil /\ tokens = <<>>
    BY DEF Init
  <2>2. Unstrayed(rest)
    BY <1>2, <2>1 DEF Stray, Unstrayed, Compares, Feeds
  <2>3. <<>> \in Seq(Tokens) /\ DOMAIN <<>> = {}
    BY EmptySeq
  <2>4. Values \o Kept \o rest = input
    <3>1. [n \in DOMAIN tokens |-> tokens[n].value] = <<>>
      BY <2>1
    <3>2. Values = <<>>
      BY <3>1, FlattenEmpty DEF Values
    <3>3. Kept = <<>>
      BY <2>1 DEF Kept
    <3>4. <<>> \o <<>> = <<>> /\ <<>> \o input = input
      BY <1>1, EmptySeq, ConcatEmptySeq
    <3>5. QED BY <2>1, <3>2, <3>3, <3>4
  <2>5. QED BY <1>1, <2>1, <2>2, <2>3, <2>4 DEF Lexes
<1>3. QED BY <1>1, <1>2 DEF LexerInv

\* A token read behind others spells what it takes from what is left.
LEMMA ReadSpelling ==
  ASSUME NEW T, NEW a \in Seq(T), NEW v \in Seq(T), NEW r \in Seq(T), NEW s \in Seq(T),
         Spelled(s) = Spelled(v) \o Spelled(r)
  PROVE  /\ Spelled(a \o v \o r) = Spelled(a \o <<>> \o s)
         /\ Spelled((a \o v) \o <<>> \o r) = Spelled(a \o <<>> \o s)
<1>1. /\ Spelled(a) \in Seq(T) /\ Spelled(v) \in Seq(T) /\ Spelled(r) \in Seq(T)
      /\ a \o v \in Seq(T)
  BY SpelledType, ConcatProperties
<1>2. a \o <<>> = a /\ (a \o v) \o <<>> = a \o v
  BY <1>1, ConcatEmptySeq
<1>3. Spelled(a \o s) = Spelled(a) \o (Spelled(v) \o Spelled(r))
  BY SpelledConcat
<1>4. Spelled(a \o v \o r) = (Spelled(a) \o Spelled(v)) \o Spelled(r)
  <2> DEFINE av == a \o v
  <2>1. av \in Seq(T) /\ Spelled(av) = Spelled(a) \o Spelled(v)
    BY <1>1, SpelledConcat
  <2> HIDE DEF av
  <2>2. Spelled(av \o r) = Spelled(av) \o Spelled(r)
    BY <2>1, SpelledConcat
  <2>3. Spelled(av \o r) = (Spelled(a) \o Spelled(v)) \o Spelled(r)
    BY <2>1, <2>2
  <2>4. QED BY <2>3 DEF av
<1>5. (Spelled(a) \o Spelled(v)) \o Spelled(r) = Spelled(a) \o (Spelled(v) \o Spelled(r))
  <2> DEFINE x == Spelled(a)
             y == Spelled(v)
             z == Spelled(r)
  <2>1. x \in Seq(T) /\ y \in Seq(T) /\ z \in Seq(T)
    BY <1>1
  <2> HIDE DEF x, y, z
  <2>2. (x \o y) \o z = x \o (y \o z)
    BY ONLY <2>1, Associates, SMTT(30)
  <2>3. QED BY <2>2 DEF x, y, z
<1>6. QED BY <1>2, <1>3, <1>4, <1>5

\* What Peek and Next read without a token kept.
LEMMA ReadingMakes ==
  ASSUME Lexes, next = Nil, NEW r \in Readings
  PROVE  /\ r.token \in Tokens /\ Shaped(r.token)
         /\ r.rest \in Seq(Char) /\ Unstrayed(r.rest)
         /\ Negates(r.token) => Trimmed(r.rest) # <<>>
         /\ Spelled(ValuesOf(tokens) \o r.token.value \o r.rest) = Spelled(input)
         /\ Spelled(ValuesOf(Append(tokens, r.token)) \o <<>> \o r.rest) = Spelled(input)
<1> DEFINE s == Trimmed(rest)
<1>1. s # <<>>
  <2>1. SUFFICES ASSUME s = <<>> PROVE FALSE
    OBVIOUS
  <2>2. DOMAIN s = {}
    BY <2>1
  <2>3. Places(s) = {}
    BY <2>2 DEF Places
  <2>4. Readings = {}
    BY <2>3 DEF Readings
  <2>5. QED BY <2>4
<1>2. s \in Seq(Char) /\ Unstrayed(s) /\ Spelled(s) = Spelled(rest) /\ rest \in Seq(Char)
  BY TrimmedIs DEF Lexes
<1>3. PICK c : Reads(s, r.token, c) /\ r.rest = SubSeq(s, c + 1, Len(s))
  BY <1>1, ReadingsAre DEF Lexes
<1> HIDE DEF s
<1>4. r.token \in Tokens /\ Shaped(r.token)
  BY <1>3 DEF Reads
<1>5. /\ r.rest \in Seq(Char) /\ Unstrayed(r.rest)
      /\ Spelled(s) = Spelled(r.token.value) \o Spelled(r.rest)
      /\ Negates(r.token) => Trimmed(r.rest) # <<>>
  BY <1>2, <1>3, ReadsSpells
<1>6. ValuesOf(tokens) \in Seq(Char) /\ tokens \in Seq(Tokens)
  BY ValuesOfType DEF Lexes
<1>7. r.token.value \in Seq(Char)
  BY <1>4 DEF Tokens
<1>8. ValuesOf(Append(tokens, r.token)) = ValuesOf(tokens) \o r.token.value
  BY <1>4, <1>6, ValuesOfAppend
<1>9. Spelled(ValuesOf(tokens) \o <<>> \o rest) = Spelled(input)
  BY DEF Lexes, Kept, Values, ValuesOf
<1>10. /\ Spelled(ValuesOf(tokens) \o r.token.value \o r.rest)
            = Spelled(ValuesOf(tokens) \o <<>> \o rest)
       /\ Spelled((ValuesOf(tokens) \o r.token.value) \o <<>> \o r.rest)
            = Spelled(ValuesOf(tokens) \o <<>> \o rest)
  <2> DEFINE a == ValuesOf(tokens)
             v == r.token.value
             u == r.rest
  <2>1. /\ a \in Seq(Char) /\ v \in Seq(Char) /\ u \in Seq(Char) /\ rest \in Seq(Char)
        /\ Spelled(rest) = Spelled(v) \o Spelled(u)
    BY <1>2, <1>5, <1>6, <1>7
  <2> HIDE DEF a, v, u
  <2>2. /\ Spelled(a \o v \o u) = Spelled(a \o <<>> \o rest)
        /\ Spelled((a \o v) \o <<>> \o u) = Spelled(a \o <<>> \o rest)
    BY ONLY <2>1, ReadSpelling, ZenonT(60)
  <2>3. QED BY <2>2 DEF a, v, u
<1>11. QED BY <1>4, <1>5, <1>8, <1>9, <1>10

\* Every step keeps the invariant.
LEMMA LexesNext == LexerInv /\ [Next]_vars => LexerInv'
<1> SUFFICES ASSUME LexerInv, [Next]_vars, ~ Stray'
             PROVE  input' \in Seq(Char) /\ Lexes'
  <2>1. ASSUME LexerInv, [Next]_vars PROVE input' \in Seq(Char)
    BY <2>1 DEF LexerInv, Next, vars, Ends, Fails, Peek, NextRead, NextKept
  <2>2. QED BY <2>1 DEF LexerInv
<1>1. input' = input
  BY DEF Next, vars, Ends, Fails, Peek, NextRead, NextKept
<1>2. input \in Seq(Char) /\ Lexes
  BY <1>1 DEF LexerInv, Stray
<1>3. tokens \in Seq(Tokens) /\ rest \in Seq(Char) /\ Len(tokens) \in Nat
  BY <1>2, LenProperties DEF Lexes
<1>4. \A t \in Tokens : t # Nil
  BY LexerAssumption DEF Tokens
\* A token returned: older ones have one behind them.
<1>5. ASSUME NEW t \in Tokens, tokens' = Append(tokens, t), Shaped(t),
             Negates(t) => Trimmed(rest') # <<>>
      PROVE  /\ tokens' \in Seq(Tokens)
             /\ \A n \in DOMAIN tokens' :
                  /\ Shaped(tokens'[n])
                  /\ Negates(tokens'[n]) =>
                       n < Len(tokens') \/ next' # Nil \/ Trimmed(rest') # <<>>
  <2> DEFINE k == Len(tokens)
             us == Append(tokens, t)
  <2>1. /\ us \in Seq(Tokens) /\ Len(us) = k + 1 /\ DOMAIN us = 1 .. k + 1
        /\ us[k + 1] = t /\ \A n \in 1 .. k : us[n] = tokens[n]
    BY <1>3, AppendProperties, LenProperties
  <2>2. \A n \in 1 .. k : Shaped(tokens[n])
    BY <1>2, <1>3, LenProperties DEF Lexes
  <2>3. \A n \in 1 .. k + 1 : n = k + 1 \/ (n \in 1 .. k /\ n < k + 1)
    BY <1>3
  <2> HIDE DEF us, k
  <2>4. tokens' = us
    BY <1>5 DEF us
  <2>5. QED BY <1>5, <2>1, <2>2, <2>3, <2>4
<1>6. CASE Ends
  <2>1. /\ Trimmed(rest) = <<>> /\ rest' = <<>> /\ next = Nil
        /\ next' = next /\ tokens' = tokens
    BY <1>6 DEF Ends
  <2>2. <<>> \in Seq(Char) /\ Unstrayed(<<>>)
    BY EmptySeq DEF Unstrayed, Compares, Feeds
  <2>3. Spelled(Values \o Kept \o <<>>) = Spelled(Values \o Kept \o rest)
    <3> DEFINE a == Values \o Kept
    <3>1. a \in Seq(Char)
      <4>1. Values \in Seq(Char)
        BY <1>3, ValuesOfType DEF Values, ValuesOf
      <4>2. Kept = <<>>
        BY <2>1 DEF Kept
      <4>3. QED BY <4>1, <4>2, ConcatEmptySeq
    <3>2. Spelled(rest) = Spelled(<<>>)
      BY <1>3, <2>1, TrimmedIs
    <3> HIDE DEF a
    <3>3. Spelled(a \o rest) = Spelled(a) \o Spelled(rest)
      BY <1>3, <3>1, SpelledConcat
    <3>4. Spelled(a \o <<>>) = Spelled(a) \o Spelled(<<>>)
      BY <2>2, <3>1, SpelledConcat
    <3>5. Spelled(a \o <<>>) = Spelled(a \o rest)
      BY <3>2, <3>3, <3>4
    <3>6. QED BY <3>5 DEF a
  <2>4. Values' = Values /\ Kept' = Kept
    BY <2>1 DEF Values, Kept
  <2>5. \A n \in DOMAIN tokens : Shaped(tokens[n]) /\ (Negates(tokens[n]) => n < Len(tokens))
    BY <1>2, <2>1 DEF Lexes
  <2>6. QED BY <1>1, <1>2, <2>1, <2>2, <2>3, <2>4, <2>5 DEF Lexes
<1>7. CASE Fails
  <2>1. Trimmed(rest) # <<>> /\ Readings = {}
    BY <1>7 DEF Fails
  <2>2. QED BY <1>2, <2>1, ReadingsAre DEF Lexes
<1>8. CASE Peek
  <2>1. PICK r \in Readings : next' = r.token /\ rest' = r.rest
    BY <1>8 DEF Peek
  <2>2. next = Nil /\ tokens' = tokens
    BY <1>8 DEF Peek
  <2>3. /\ r.token \in Tokens /\ Shaped(r.token)
        /\ r.rest \in Seq(Char) /\ Unstrayed(r.rest)
        /\ Negates(r.token) => Trimmed(r.rest) # <<>>
        /\ Spelled(ValuesOf(tokens) \o r.token.value \o r.rest) = Spelled(input)
    BY <1>2, <2>2, ReadingMakes
  <2>4. next' # Nil
    BY <1>4, <2>1, <2>3
  <2>5. Values' = ValuesOf(tokens) /\ Kept' = r.token.value
    BY <2>1, <2>2, <2>4 DEF Values, ValuesOf, Kept
  <2>6. Spelled(Values' \o Kept' \o rest') = Spelled(input')
    BY <1>1, <2>1, <2>3, <2>5
  <2>7. /\ rest' \in Seq(Char) /\ Unstrayed(rest') /\ next' \in Tokens
        /\ Shaped(next') /\ (Negates(next') => Trimmed(rest') # <<>>)
    BY <2>1, <2>3
  <2>8. QED BY <1>1, <1>2, <2>2, <2>4, <2>6, <2>7 DEF Lexes
<1>9. CASE NextRead
  <2>1. PICK r \in Readings : tokens' = Append(tokens, r.token) /\ rest' = r.rest
    BY <1>9 DEF NextRead
  <2>2. next = Nil /\ next' = Nil
    BY <1>9 DEF NextRead
  <2>3. /\ r.token \in Tokens /\ Shaped(r.token)
        /\ r.rest \in Seq(Char) /\ Unstrayed(r.rest)
        /\ Negates(r.token) => Trimmed(r.rest) # <<>>
        /\ Spelled(ValuesOf(Append(tokens, r.token)) \o <<>> \o r.rest) = Spelled(input)
    BY <1>2, <2>2, ReadingMakes
  <2>4. Values' = ValuesOf(Append(tokens, r.token)) /\ Kept' = <<>>
    BY <2>1, <2>2 DEF Values, ValuesOf, Kept
  <2>5. Spelled(Values' \o Kept' \o rest') = Spelled(input')
    BY <1>1, <2>1, <2>3, <2>4
  <2>6. /\ tokens' \in Seq(Tokens)
        /\ \A n \in DOMAIN tokens' :
             /\ Shaped(tokens'[n])
             /\ Negates(tokens'[n]) =>
                  n < Len(tokens') \/ next' # Nil \/ Trimmed(rest') # <<>>
    BY <1>5, <2>1, <2>3
  <2>7. rest' \in Seq(Char) /\ Unstrayed(rest')
    BY <2>1, <2>3
  <2>8. QED BY <1>1, <1>2, <2>2, <2>5, <2>6, <2>7 DEF Lexes
<1>10. CASE NextKept
  <2>1. /\ next # Nil /\ tokens' = Append(tokens, next) /\ next' = Nil /\ rest' = rest
        /\ next \in Tokens /\ Shaped(next) /\ (Negates(next) => Trimmed(rest) # <<>>)
    BY <1>2, <1>10 DEF NextKept, Lexes
  <2>2. /\ Values' = ValuesOf(tokens) \o next.value /\ Kept' = <<>>
        /\ Values = ValuesOf(tokens) /\ Kept = next.value
    <3>1. ValuesOf(Append(tokens, next)) = ValuesOf(tokens) \o next.value
      BY <1>3, <2>1, ValuesOfAppend
    <3>2. Values' = ValuesOf(Append(tokens, next))
      BY <2>1 DEF Values, ValuesOf
    <3>3. QED BY <2>1, <3>1, <3>2 DEF Values, ValuesOf, Kept
  <2>3. Values' \o Kept' = Values \o Kept
    <3>1. ValuesOf(tokens) \in Seq(Char) /\ next.value \in Seq(Char)
      BY <1>3, <2>1, ValuesOfType DEF Tokens
    <3>2. ValuesOf(tokens) \o next.value \in Seq(Char)
      BY <3>1, ConcatProperties
    <3>3. (ValuesOf(tokens) \o next.value) \o <<>> = ValuesOf(tokens) \o next.value
      BY <3>2, ConcatEmptySeq
    <3>4. QED BY <2>2, <3>3
  <2>4. Spelled(Values' \o Kept' \o rest') = Spelled(input')
    BY <1>1, <1>2, <2>1, <2>3 DEF Lexes
  <2>5. /\ tokens' \in Seq(Tokens)
        /\ \A n \in DOMAIN tokens' :
             /\ Shaped(tokens'[n])
             /\ Negates(tokens'[n]) =>
                  n < Len(tokens') \/ next' # Nil \/ Trimmed(rest') # <<>>
    BY <1>5, <2>1
  <2>6. QED BY <1>1, <1>2, <2>1, <2>4, <2>5 DEF Lexes
<1>11. CASE UNCHANGED vars
  <2>1. /\ input' = input /\ rest' = rest /\ tokens' = tokens /\ next' = next
        /\ Values' = Values /\ Kept' = Kept
    BY <1>11 DEF vars, Values, Kept
  <2>2. QED BY <1>2, <2>1 DEF Lexes
<1>12. QED BY <1>1, <1>2, <1>6, <1>7, <1>8, <1>9, <1>10, <1>11 DEF Next

\* The invariant holds in every state.
THEOREM LexerInvariant == Spec => []LexerInv
BY LexesInit, LexesNext, PTL DEF Spec

(***************************************************************************)
(* The theorems.                                                           *)
(***************************************************************************)

\* For inputs of any length in which no ! and no form feed is astray, and
\* whatever Peek and Next are called in turn: the tokens returned, the one kept
\* and what is left spell the input.  A token kept is returned once; none is
\* lost, made up or read twice (filtering.go:51-105).
THEOREM TokensSpellInput == Spec => []TokensSpell
<1>1. LexerInv => TokensSpell
  BY DEF LexerInv, Lexes, TokensSpell
<1>2. QED BY <1>1, LexerInvariant, PTL

\* What the parser relies on, for inputs of any length: a string ends at its
\* second quote that is not escaped, a text has no character that would end it,
\* and behind the dash of a negation there is something left to read.
THEOREM TokensShaped == Spec => []TokensWhole
<1>1. LexerInv => TokensWhole
  <2> SUFFICES ASSUME LexerInv, ~ Stray, NEW n \in DOMAIN tokens
               PROVE  LET v == tokens[n].value IN
                      CASE tokens[n].kind = "STRING" ->
                             /\ Len(v) > 1 /\ v[1] = Quote
                             /\ \A p \in 2 .. Len(v) :
                                  p < Len(v) <=> (v[p] = Quote => Escaped(v, 1, p))
                        [] tokens[n].kind = "TEXT" -> \A p \in DOMAIN v : TextChar(v[p])
                        [] tokens[n].kind = "NEGATE" /\ v = <<"-">> ->
                             n < Len(tokens) \/ next # Nil \/ Trimmed(rest) # <<>>
                        [] OTHER -> TRUE
    BY DEF TokensWhole
  <2>1. /\ Shaped(tokens[n])
        /\ Negates(tokens[n]) => n < Len(tokens) \/ next # Nil \/ Trimmed(rest) # <<>>
    BY DEF LexerInv, Lexes
  <2>2. CASE tokens[n].kind = "STRING"
    BY <2>1, <2>2 DEF Shaped
  <2>3. CASE tokens[n].kind = "TEXT"
    BY <2>1, <2>3 DEF Shaped
  <2>4. CASE Negates(tokens[n])
    BY <2>1, <2>4 DEF Negates
  <2>5. CASE /\ tokens[n].kind # "STRING" /\ tokens[n].kind # "TEXT"
             /\ ~ Negates(tokens[n])
    BY <2>5 DEF Negates
  <2>6. QED BY <2>2, <2>3, <2>4, <2>5
<1>2. QED BY <1>1, LexerInvariant, PTL
=============================================================================
