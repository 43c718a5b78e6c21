------------------------------ MODULE MCFilter ------------------------------
(* An instance of Filter for TLC.                                          *)
EXTENDS Filter

CONSTANT nil

T(value) == Token("TEXT", value)
S(value) == Token("STRING", value)
Equals == Token("COMPARATOR", "COMPARATOR")

Restricted(member, value) ==
  [comparable |-> member, comparator |-> Equals,
   arg |-> [comparable |-> <<value>>, composite |-> Nil]]
MCTerm(negated, r) ==
  [negated |-> negated, simple |-> [restriction |-> r, composite |-> Nil]]

\* tags = "go", annotations.env = "dev", tags = go, and a tag no event has.
HasTag == Restricted(<<T("tags")>>, S("go"))
HasAnnotation == Restricted(<<T("annotations"), T("env")>>, S("dev"))
Unquoted == Restricted(<<T("tags")>>, T("go"))
NoSuchTag == Restricted(<<T("tags")>>, S("dev"))

\* (tags = "go" OR annotations.env = "dev"), negated or not.
Grouped(n) ==
  [negated |-> n,
   simple |-> [restriction |-> Nil,
               composite |-> <<<<<<MCTerm(FALSE, HasTag), MCTerm(FALSE, HasAnnotation)>>>>>>]]

MCTerms ==
  {Grouped(n) : n \in BOOLEAN} \cup
  {MCTerm(n, r) : n \in BOOLEAN, r \in {HasTag, HasAnnotation}} \cup
  {MCTerm(FALSE, Unquoted), MCTerm(TRUE, NoSuchTag)}

Event(tags, annotations, maybe, start, end) ==
  [tags |-> tags, annotations |-> annotations, maybe |-> maybe,
   start |-> start, end |-> end]

\* With and without the tag and the annotation; two bloom filters pass what
\* their item has not; one event after, one before the shorter range.
MCItems ==
  <<Event({"go"}, {<<"env", "dev">>}, {}, 2, 3),
    Event({"go"}, {}, {<<"annotations", "env", "dev">>}, 4, 4),
    Event({}, {<<"env", "dev">>}, {<<"tags", "go">>}, 1, 1),
    Event({}, {}, {}, 1, 4)>>
MCRanges == {[from |-> 1, to |-> 4], [from |-> 2, to |-> 3]}

MCTypo == {Token(k, k) : k \in Kinds}
=============================================================================
