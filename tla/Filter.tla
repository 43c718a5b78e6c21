------------------------------- MODULE Filter -------------------------------
(***************************************************************************)
(* What a filter selects.  ListEvents parses the text once and hands the   *)
(* tree to two evaluators: matchMemTableItem asks it of one item of the    *)
(* memtable (match_memtable_item.go), evalFilter of all rows of an index   *)
(* at once, with roaring bitmaps it changes in place (index.go).           *)
(*                                                                         *)
(* The client composes a tree, writes it down, may make a mistake in       *)
(* writing, and sends it.  One index is queried, the rows of which are     *)
(* also taken as the items of a memtable: the question is whether an event *)
(* is selected in the one exactly if it is in the other.                   *)
(***************************************************************************)
EXTENDS FilterLanguage, Integers, FiniteSets

CONSTANTS
  Items,      \* what both places hold: a sequence of records with tags, a set;
              \* annotations, a set of pairs of a key and a value, one per key;
              \* maybe, the atoms the bloom filters pass besides; start, end
  ClientTerms, \* the terms a client writes
  Ranges,     \* the time ranges it asks for: records with from and to
  ComposeMax, \* bound: comparators in a tree
  EditMax,    \* bound: comparators in a tree the client makes a mistake in
  Typo        \* the tokens it may insert by mistake

VARIABLES
  phase,      \* "compose", "written", "rejected", "parsed", "answered"
  tree,       \* the expression composed so far, nil for the empty filter
  input,      \* its tokens, nil until written
  mistaken,   \* whether the client made a mistake in writing
  filter,     \* what ParseFilter returned, nil for the empty filter
  range,      \* the time range of the query
  posting,    \* the tags and annotations of the index: the bitmap of every atom
  answer      \* what query returned: failed, rows

vars == <<phase, tree, input, mistaken, filter, range, posting, answer>>

Rows == DOMAIN Items  \* ri.all, and the existence bitmap of both time columns

\* The atoms of an item: its tags, and its annotations as pairs.
Atoms(item) == {<<"tags", t>> : t \in item.tags} \cup
               {<<"annotations", a[1], a[2]>> : a \in item.annotations}
AllAtoms == UNION {Atoms(Items[q]) : q \in Rows}
Index == [AllAtoms -> SUBSET Rows]

ASSUME FilterAssumption ==
  /\ ClientTerms \subseteq Terms(Nested[MaxDepth - 1]) /\ Typo \subseteq Tokens
  /\ Nil \notin [of : {Nil}, rows : SUBSET Rows]  \* no bitmap

\* The arguments that both evaluators reject, with the same conditions.
Quoted(arg) ==
  arg # Nil /\ arg.comparable # Nil /\ arg.comparable[1].kind = "STRING"
Invalid(r) ==
  LET field == r.comparable[1].value
  IN ~ \/ field = "tags" /\ Quoted(r.arg)
       \/ field = "annotations" /\ Len(r.comparable) > 1 /\ Quoted(r.arg)

\* The atom of a valid restriction.  The comparator is never looked at, of
\* several fields only the first.
Atom(r) ==
  LET value == r.arg.comparable[1].value
  IN IF r.comparable[1].value = "tags" THEN <<"tags", value>>
     ELSE <<"annotations", r.comparable[2].value, value>>

IsComposite(t) == t.simple.composite # Nil
-----------------------------------------------------------------------------
(* matchMemTableItem: "yes", "no" or "error".                              *)

\* The first result that is not r ends the loop.
FirstOther(r, results) ==
  LET others == {n \in DOMAIN results : results[n] # r}
  IN IF others = {} THEN r ELSE results[Min(others)]

\* The bloom filters hold what newMemTableItem added and let more pass; the
\* event decides.  Mutant: it does not.
MatchByBloom(r, item) ==
  IF Invalid(r) THEN "error"
  ELSE IF Atom(r) \in Atoms(item) \cup item.maybe THEN "yes" ELSE "no"
MatchRestriction(r, item) ==
  IF Invalid(r) THEN "error"
  ELSE IF /\ Atom(r) \in Atoms(item) \cup item.maybe
          /\ Atom(r) \in Atoms(item)
       THEN "yes" ELSE "no"

\* inner[e] is what e matches, for the expressions in parentheses.
MatchTerm(t, item, inner) ==
  LET matched == IF IsComposite(t) THEN inner[t.simple.composite]
                 ELSE MatchRestriction(t.simple.restriction, item)
  IN IF ~t.negated \/ matched = "error" THEN matched
     ELSE IF matched = "yes" THEN "no" ELSE "yes"

MatchFactor(f, item, inner) ==
  FirstOther("no", [n \in DOMAIN f |-> MatchTerm(f[n], item, inner)])
MatchSequence(s, item, inner) ==
  FirstOther("yes", [n \in DOMAIN s |-> MatchFactor(s[n], item, inner)])
MatchExpression(e, item, inner) ==
  FirstOther("yes", [n \in DOMAIN e |-> MatchSequence(e[n], item, inner)])
MatchMemTableItem(f, item) ==
  LET matched[n \in 0 .. MaxDepth] ==
        [e \in Nested[n] |-> MatchExpression(e, item, matched[n - 1])]
  IN IF f = Nil THEN "yes" ELSE matched[MaxDepth][f]
-----------------------------------------------------------------------------
(* evalFilter: an error, or a bitmap, nil if there is no condition; and    *)
(* the index it leaves behind.  A bitmap is a clone or an atom's own one,  *)
(* which And and Or would change in the index.                             *)

Clone(rows) == [of |-> Nil, rows |-> rows]
Evaluated(bitmap, ix) == [failed |-> FALSE, bitmap |-> bitmap, ix |-> ix]

\* And, Or: the bitmap so far becomes rows, in place.
InPlace(so, r, rows) ==
  Evaluated([so.bitmap EXCEPT !.rows = rows],
            IF so.bitmap.of = Nil THEN r.ix
            ELSE [r.ix EXCEPT ![so.bitmap.of] = rows])

\* The body of each loop: the result so far with that of the next operand.
Combine(op, so, r) ==
  IF r.failed THEN r
  ELSE IF so.bitmap = Nil THEN r
  ELSE IF r.bitmap = Nil THEN [so EXCEPT !.ix = r.ix]
  ELSE InPlace(so, r, IF op = "AND" THEN so.bitmap.rows \cap r.bitmap.rows
                      ELSE so.bitmap.rows \cup r.bitmap.rows)

\* A loop over operands, operand[ix] being what it evaluates to on ix: it ends
\* at the first error.
Loop(op, operands, ix) ==
  LET so[k \in 0 .. Len(operands)] ==
        IF k = 0 THEN Evaluated(Nil, ix)
        ELSE LET r == so[k - 1]
             IN IF r.failed THEN r ELSE Combine(op, r, operands[k][r.ix])
  IN so[Len(operands)]

\* Mutant: the atom's own bitmap is returned.
EvalRestrictionUncloned(r, ix) ==
  IF Invalid(r) THEN [Evaluated(Nil, ix) EXCEPT !.failed = TRUE]
  ELSE IF Atom(r) \in DOMAIN ix
  THEN Evaluated([of |-> Atom(r), rows |-> ix[Atom(r)]], ix)
  ELSE Evaluated(Clone({}), ix)
EvalRestriction(r, ix) ==
  IF Invalid(r) THEN [Evaluated(Nil, ix) EXCEPT !.failed = TRUE]
  ELSE Evaluated(Clone(IF Atom(r) \in DOMAIN ix THEN ix[Atom(r)] ELSE {}), ix)

\* inner[e][ix] is what e evaluates to, for the expressions in parentheses.
EvalTerm(t, ix, inner) ==
  LET r == IF IsComposite(t) THEN inner[t.simple.composite][ix]
           ELSE EvalRestriction(t.simple.restriction, ix)
  IN IF r.failed \/ r.bitmap = Nil \/ ~t.negated THEN r
     ELSE Evaluated(Clone(Rows \ r.bitmap.rows), r.ix)

EvalFactor(f, ix, inner) ==
  Loop("OR", [n \in DOMAIN f |-> [jx \in Index |-> EvalTerm(f[n], jx, inner)]], ix)
EvalSequence(s, ix, inner) ==
  Loop("AND", [n \in DOMAIN s |-> [jx \in Index |-> EvalFactor(s[n], jx, inner)]], ix)
EvalExpression(e, ix, inner) ==
  Loop("AND", [n \in DOMAIN e |-> [jx \in Index |-> EvalSequence(e[n], jx, inner)]], ix)
EvalFilter(f, ix) ==
  LET evaluated[n \in 0 .. MaxDepth] ==
        [e \in Nested[n] |-> [jx \in Index |-> EvalExpression(e, jx, evaluated[n - 1])]]
  IN IF f = Nil THEN Evaluated(Nil, ix) ELSE evaluated[MaxDepth][f][ix]

\* The events that are not over before the range and do not start after it;
\* times are those of the columns, in whole seconds.
Overlaps(item, rg) == item.start <= rg.to /\ item.end >= rg.from
-----------------------------------------------------------------------------
(* The client and the call.                                                *)

Single(t) == <<<<<<t>>>>>>
Count(ts, kind) == Cardinality({p \in DOMAIN ts : ts[p].kind = kind})
Size(e) == IF e = Nil THEN 0 ELSE Count(Written(e), "COMPARATOR")

Init ==
  /\ phase = "compose" /\ tree = Nil /\ input = Nil /\ mistaken = FALSE
  /\ filter = Nil /\ range = Nil /\ answer = Nil
  /\ posting = [a \in AllAtoms |-> {q \in Rows : a \in Atoms(Items[q])}]

\* One more term: a sequence after AND, a factor, or a term after OR; or the
\* whole tree so far in parentheses.
Compose ==
  /\ phase = "compose"
  /\ \/ \E t \in ClientTerms :
          /\ Size(tree) + Size(Single(t)) <= ComposeMax
          /\ IF tree = Nil THEN tree' = Single(t)
             ELSE LET s == Len(tree)
                      f == Len(tree[s])
                  IN \/ tree' = Append(tree, <<<<t>>>>)
                     \/ tree' = [tree EXCEPT ![s] = Append(@, <<t>>)]
                     \/ tree' = [tree EXCEPT ![s][f] = Append(@, t)]
     \/ /\ Size(tree) > 1 /\ tree # Single(tree[1][1][1])
        /\ tree \in Nested[MaxDepth - 1]
        /\ \E negated \in BOOLEAN :
             tree' = Single([negated |-> negated,
                             simple |-> [restriction |-> Nil, composite |-> tree]])
  /\ UNCHANGED <<phase, input, mistaken, filter, range, posting, answer>>

Write ==
  /\ phase = "compose" /\ phase' = "written"
  /\ input' = IF tree = Nil THEN <<>> ELSE Written(tree)
  /\ UNCHANGED <<tree, mistaken, filter, range, posting, answer>>

\* A token is forgotten, or one too many is written.
Mistake ==
  /\ phase = "written" /\ ~mistaken /\ mistaken' = TRUE
  /\ Size(tree) <= EditMax
  /\ \/ \E p \in DOMAIN input : input' = RemoveAt(input, p)
     \/ \E p \in 1 .. Len(input) + 1, t \in Typo : input' = InsertAt(input, p, t)
  /\ UNCHANGED <<phase, tree, filter, range, posting, answer>>

\* ListEvents parses the filter.
Parse ==
  /\ phase = "written" /\ Count(input, "LPAREN") < MaxDepth
  /\ filter' = ParseFilter(input).node
  /\ phase' = IF ParseFilter(input).failed THEN "rejected" ELSE "parsed"
  /\ UNCHANGED <<tree, input, mistaken, range, posting, answer>>

\* query: the filter, then the two time columns; a nil bitmap stands for all
\* columns.
Query ==
  /\ phase = "parsed" /\ phase' = "answered"
  /\ range' \in Ranges
  /\ LET r == EvalFilter(filter, posting)
         found == IF r.bitmap = Nil THEN Rows ELSE r.bitmap.rows
     IN /\ posting' = r.ix
        /\ answer' = [failed |-> r.failed,
                      rows |-> {q \in found : ~r.failed /\ Overlaps(Items[q], range')}]
  /\ UNCHANGED <<tree, input, mistaken, filter>>

Next == Compose \/ Write \/ Mistake \/ Parse \/ Query

Spec == Init /\ [][Next]_vars
-----------------------------------------------------------------------------
\* The parser, which never goes back in its input, finds the tree the client
\* composed: it loses no term, and puts every operator where it belongs
\* (filtering.go:386-480).
ParsesTree ==
  ~mistaken => /\ phase # "rejected"
               /\ phase \in {"parsed", "answered"} => filter = tree

\* Of a text that is accepted, written by mistake or not, every token is in
\* the tree, in its place: nothing is skipped and nothing ignored
\* (filtering.go:371-384).
TokensKept ==
  phase \in {"parsed", "answered"} =>
    input = IF filter = Nil THEN <<>> ELSE Written(filter)

\* An event is selected in an index exactly if it would be in the memtable and
\* overlaps the range; and a filter that fails on an item of the memtable,
\* where the error is dropped, fails on the index (index.go:74-198 against
\* match_memtable_item.go).
SameAnswer ==
  phase = "answered" =>
    \A q \in Rows :
      LET match == MatchMemTableItem(filter, Items[q])
      IN /\ match = "error" => answer.failed
         /\ ~answer.failed =>
              (q \in answer.rows <=> match = "yes" /\ Overlaps(Items[q], range))

\* A query, which runs beside others on the same index, leaves its bitmaps as
\* they were (index.go:179, 193).
IndexUnchanged == [][posting' = posting]_vars
=============================================================================
