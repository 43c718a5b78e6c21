--------------------------- MODULE FilterLanguage ---------------------------
(***************************************************************************)
(* The filter language of ListEvents: the recursive-descent parser of      *)
(* filtering/filtering.go, from tokens to the tree the evaluators walk.    *)
(* The lexer is left out: a filter is the sequence of tokens it yields,    *)
(* less the END that closes them.                                          *)
(*                                                                         *)
(* An expression is a sequence of sequences, each one of factors, each one *)
(* of terms.  A TEXT or STRING token stands for its Value, a member is the *)
(* sequence of its Value and Fields.  What recurses over trees is a        *)
(* recursive function over the depth of their parentheses.                 *)
(***************************************************************************)
EXTENDS Naturals, Sequences, SequencesExt

CONSTANTS
  Nil,
  MaxDepth  \* bound: expressions in one another

Kinds == {"COMPARATOR", "NEGATE", "AND", "OR", "DOT", "LPAREN", "RPAREN",
          "COMMA", "STRING", "TEXT"}
Token(kind, value) == [kind |-> kind, value |-> value]

\* Tokens but for comparators and words are told apart by their kind.
Words == [kind : {"STRING", "TEXT"}, value : STRING]
Comparators == [kind : {"COMPARATOR"}, value : STRING]
Tokens ==
  Words \cup Comparators \cup
  {Token(k, k) : k \in Kinds \ {"COMPARATOR", "STRING", "TEXT"}}

(* The trees, E being the expressions that parentheses may hold.           *)
Lists(S) == Seq(S) \ {<<>>}
Members == Lists(Words)
Args(E) ==
  [comparable : Members, composite : {Nil}] \cup [comparable : {Nil}, composite : E]
Restrictions(E) ==
  [comparable : Members, comparator : {Nil}, arg : {Nil}] \cup
  [comparable : Members, comparator : Comparators, arg : Args(E)]
Simples(E) ==
  [restriction : Restrictions(E), composite : {Nil}] \cup
  [restriction : {Nil}, composite : E]
Terms(E) == [negated : BOOLEAN, simple : Simples(E)]
Factors(E) == Lists(Terms(E))
Sequences(E) == Lists(Factors(E))

\* The expressions with up to n of them in one another.
Nested[n \in 0 .. MaxDepth] == IF n = 0 THEN {} ELSE Lists(Sequences(Nested[n - 1]))
Expressions == Nested[MaxDepth]

\* Nil is none of the nodes.
ASSUME LanguageAssumption ==
  /\ MaxDepth \in Nat \ {0}
  /\ Nil \notin Words /\ Nil \notin Members
  /\ \A n \in 0 .. MaxDepth :
       LET E == Nested[n]
       IN /\ Nil \notin E /\ Nil \notin Args(E) /\ Nil \notin Restrictions(E)
          /\ Nil \notin Simples(E) /\ Nil \notin Terms(E)
          /\ Nil \notin Factors(E) /\ Nil \notin Sequences(E)
-----------------------------------------------------------------------------
\* The tokens and the end of the text.
Position(ts) == 1 .. Len(ts) + 1

\* What Peek returns in front of token p.
KindAt(ts, p) == IF p > Len(ts) THEN "END" ELSE ts[p].kind

\* What a method of the parser returns: an error, or a node (nil if what it
\* looks for is not there) and the position the lexer has reached.
Failed == [failed |-> TRUE, node |-> Nil, at |-> 0]
Got(node, p) == [failed |-> FALSE, node |-> node, at |-> p]
Absent(p) == Got(Nil, p)

\* What the methods do with a result r: to demand a node; to try s if there is
\* none; to make another node of it; to put it before what is found behind.
Required(r) == IF r.node = Nil THEN Failed ELSE r
OrElse(r, s) == IF r.failed \/ r.node # Nil THEN r ELSE s
Build(r, Make(_)) == IF r.node = Nil THEN r ELSE Got(Make(r.node), r.at)
InFront(node, rest) ==
  IF rest.failed THEN Failed ELSE Got(<<node>> \o rest.node, rest.at)

\* A loop: items, item[q] being what is at q, up to the first that is absent.
Repeated(item, p) ==
  LET more[q \in DOMAIN item] ==
        LET r == item[q]
        IN IF r.node # Nil THEN InFront(r.node, more[r.at])
           ELSE IF r.failed THEN r ELSE Got(<<>>, q)
  IN more[p]

\* expression, factor and member: an item, nil if it is not there, and the
\* loop: after every separator another item must follow.
Separated(ts, sep, item) ==
  [q \in Position(ts) |-> IF KindAt(ts, q) = sep THEN Required(item[q + 1]) ELSE Absent(q)]
List(ts, sep, item, p) ==
  LET r == item[p]
  IN IF r.node = Nil THEN r
     ELSE InFront(r.node, Repeated(Separated(ts, sep, item), r.at))

Value(ts, p) ==
  IF KindAt(ts, p) \in {"STRING", "TEXT"} THEN Got(ts[p], p + 1) ELSE Absent(p)
Member(ts, p) == List(ts, "DOT", [q \in Position(ts) |-> Value(ts, q)], p)

\* A composite: inner[q] is the expression at q, inside of the parentheses.
\* Mutant: the closing one is looked at and not consumed.
ClosedUnconsumed(ts, e) ==
  IF e.node = Nil \/ KindAt(ts, e.at) # "RPAREN" THEN Failed ELSE Got(e.node, e.at)
Closed(ts, e) ==
  IF e.node = Nil \/ KindAt(ts, e.at) # "RPAREN" THEN Failed ELSE Got(e.node, e.at + 1)
Composite(ts, inner, p) ==
  IF KindAt(ts, p) = "LPAREN" THEN Closed(ts, inner[p + 1]) ELSE Absent(p)

Arg(ts, inner, p) ==
  OrElse(Build(Member(ts, p), LAMBDA m : [comparable |-> m, composite |-> Nil]),
         Build(Composite(ts, inner, p),
               LAMBDA e : [comparable |-> Nil, composite |-> e]))

\* What may follow the comparable of a restriction.
Compared(ts, inner, member) ==
  IF member.node = Nil THEN member
  ELSE IF KindAt(ts, member.at) # "COMPARATOR"
  THEN Got([comparable |-> member.node, comparator |-> Nil, arg |-> Nil], member.at)
  ELSE Build(Required(Arg(ts, inner, member.at + 1)),
             LAMBDA a : [comparable |-> member.node, comparator |-> ts[member.at],
                         arg |-> a])
Restriction(ts, inner, p) == Compared(ts, inner, Member(ts, p))

Simple(ts, inner, p) ==
  OrElse(Build(Restriction(ts, inner, p),
               LAMBDA r : [restriction |-> r, composite |-> Nil]),
         Build(Composite(ts, inner, p),
               LAMBDA e : [restriction |-> Nil, composite |-> e]))

Term(ts, inner, p) ==
  IF KindAt(ts, p) = "NEGATE"
  THEN Build(Required(Simple(ts, inner, p + 1)), LAMBDA s : [negated |-> TRUE, simple |-> s])
  ELSE Build(Simple(ts, inner, p), LAMBDA s : [negated |-> FALSE, simple |-> s])

Factor(ts, inner, p) == List(ts, "OR", [q \in Position(ts) |-> Term(ts, inner, q)], p)

\* Factors up to the first token that begins none; nil if there are none.
NonEmpty(r) == IF ~r.failed /\ r.node = <<>> THEN Absent(r.at) ELSE r
Sequence(ts, inner, p) ==
  NonEmpty(Repeated([q \in Position(ts) |-> Factor(ts, inner, q)], p))

Expression(ts, inner, p) ==
  List(ts, "AND", [q \in Position(ts) |-> Sequence(ts, inner, q)], p)

\* The expressions with up to n of them in one another, by their position.
Parsed(ts) ==
  LET parsed[n \in 0 .. MaxDepth] ==
        [p \in Position(ts) |-> IF n = 0 THEN Failed ELSE Expression(ts, parsed[n - 1], p)]
  IN parsed[MaxDepth]

\* filter: what is left after the expression must be the END.  Mutant: it is
\* ignored.
EndedAnywhere(ts, e) == IF e.failed THEN Failed ELSE e
Ended(ts, e) == IF e.failed \/ KindAt(ts, e.at) # "END" THEN Failed ELSE e
ParseFilter(ts) == IF ts = <<>> THEN Absent(1) ELSE Ended(ts, Parsed(ts)[1])
-----------------------------------------------------------------------------
(* How a tree is written down; inner[e] is how the expressions are that    *)
(* its parentheses hold.                                                   *)

\* The first n parts, with a separator between them.
Joined(parts, n, sep) ==
  LET upto[k \in 1 .. n] ==
        IF k = 1 THEN parts[1] ELSE upto[k - 1] \o sep \o parts[k]
  IN upto[n]
Mark(kind) == <<Token(kind, kind)>>
InParens(text) == Mark("LPAREN") \o text \o Mark("RPAREN")

WrittenMember(m) == Joined([n \in DOMAIN m |-> <<m[n]>>], Len(m), Mark("DOT"))
WrittenArg(a, inner) ==
  IF a.comparable # Nil THEN WrittenMember(a.comparable) ELSE InParens(inner[a.composite])
WrittenRestriction(r, inner) ==
  IF r.arg = Nil THEN WrittenMember(r.comparable)
  ELSE WrittenMember(r.comparable) \o <<r.comparator>> \o WrittenArg(r.arg, inner)
WrittenSimple(s, inner) ==
  IF s.restriction # Nil THEN WrittenRestriction(s.restriction, inner)
  ELSE InParens(inner[s.composite])
WrittenTerm(t, inner) ==
  IF t.negated THEN Mark("NEGATE") \o WrittenSimple(t.simple, inner)
  ELSE WrittenSimple(t.simple, inner)
WrittenFactor(f, inner) ==
  Joined([n \in DOMAIN f |-> WrittenTerm(f[n], inner)], Len(f), Mark("OR"))
WrittenSequence(s, inner) ==
  Joined([n \in DOMAIN s |-> WrittenFactor(s[n], inner)], Len(s), <<>>)
WrittenExpression(e, inner) ==
  Joined([n \in DOMAIN e |-> WrittenSequence(e[n], inner)], Len(e), Mark("AND"))

Written(e) ==
  LET written[n \in 0 .. MaxDepth] == [x \in Nested[n] |-> WrittenExpression(x, written[n - 1])]
  IN written[MaxDepth][e]
=============================================================================
