-------------------------------- MODULE Lexer --------------------------------
(***************************************************************************)
(* The lexer of the filter language (filtering/filtering.go): one regular  *)
(* expression, the leftmost match of which makes the next token, and a     *)
(* token kept by Peek.  A character stands for its class; the words NOT,   *)
(* AND and OR, which matter as prefixes only, are characters.              *)
(***************************************************************************)
EXTENDS Naturals, Sequences, SequencesExt

CONSTANTS
  Char,    \* the characters of inputs
  MaxLen,  \* bound: the length of inputs
  Nil

Space == " "            \* a space, a tab or a carriage return
Newline == "newline"
FormFeed == "formfeed"
Trims == {Space, Newline}      \* " \t\r\n", what TrimLeft takes
Blank == Trims \cup {FormFeed}  \* \s
Quote == "quote"
Escape == "backslash"
Words == {"NOT", "AND", "OR"}
Comparators == {"<", ">", "=", ":", "!"}  \* and what begins one
Marks == {".", "(", ")", ","}

\* [^\s\.,<>=!:\(\)]
TextChar(c) == c \notin Blank /\ c \notin Comparators \cup Marks

Kinds ==
  {"COMPARATOR", "NEGATE", "AND", "OR", "DOT", "LPAREN", "RPAREN", "COMMA", "STRING", "TEXT"}

ASSUME LexerAssumption == Nil \notin [kind : Kinds, value : Seq(Char)]

VARIABLES
  input,   \* what the lexer was given
  rest,    \* l.input
  next,    \* l.next: the token Peek read, Nil for none
  tokens,  \* those that Next returned
  status   \* "lexing", "end" or "failed"

vars == <<input, rest, next, tokens, status>>

Token(kind, value) == [kind |-> kind, value |-> value]
KindOf(c) ==
  CASE c = "NOT" -> "NEGATE" [] c = "AND" -> "AND" [] c = "OR" -> "OR"
    [] c = "." -> "DOT" [] c = "(" -> "LPAREN" [] c = ")" -> "RPAREN"
    [] c = "," -> "COMMA"
-----------------------------------------------------------------------------
(* The alternatives of the regular expression at position p of s: the      *)
(* length of their match, 0 for none.  Only the first one is anchored to   *)
(* the beginning of the input.                                             *)

At(s, p, C) == p \in DOMAIN s /\ s[p] \in C

Comparator(s, p) ==
  IF p > 1 \/ ~At(s, p, Comparators) THEN 0
  ELSE IF s[p] \in {"<", ">", "!"} /\ At(s, p + 1, {"="}) THEN 2
  ELSE IF s[p] = "!" THEN 0 ELSE 1
Word(s, p) == IF At(s, p, Words) /\ At(s, p + 1, Blank) THEN 2 ELSE 0
Dash(s, p) == IF At(s, p, {"-"}) /\ At(s, p + 1, Char \ Blank) THEN 2 ELSE 0
Mark(s, p) == IF At(s, p, Marks) THEN 1 ELSE 0

\* What is at q is behind an odd number of backslashes of the string at p.
Escaped(s, p, q) ==
  \E k \in 1 .. q - p - 1 :
    /\ k % 2 = 1 /\ \A j \in 1 .. k : s[q - j] = Escape
    /\ q - k - 1 = p \/ s[q - k - 1] # Escape

\* A string ends at the first quote that is not escaped, and no newline in it
\* is escaped (\\. excepts newlines).  Mutant: it ends at the first quote.
StringUnescaped(s, p) ==
  LET ends == {q \in p + 1 .. Len(s) : s[q] = Quote}
  IN IF ~At(s, p, {Quote}) \/ ends = {} THEN 0 ELSE Min(ends) - p + 1
String(s, p) ==
  LET ends == {q \in p + 1 .. Len(s) :
                 /\ s[q] = Quote /\ ~Escaped(s, p, q)
                 /\ \A j \in p + 1 .. q : s[j] = Newline => ~Escaped(s, p, j)}
  IN IF ~At(s, p, {Quote}) \/ ends = {} THEN 0 ELSE Min(ends) - p + 1

Text(s, p) ==
  Min({q \in p .. Len(s) + 1 : q > Len(s) \/ ~TextChar(s[q])}) - p

\* The lengths of the alternatives' matches at p, in their order.
Lengths(s, p) ==
  <<Comparator(s, p), Word(s, p), Dash(s, p), Mark(s, p), String(s, p), Text(s, p)>>
Match(s, p) ==
  LET lengths == Lengths(s, p)
      a == Min({n \in DOMAIN lengths : lengths[n] > 0})
  IN [alternative |-> a, text |-> SubSeq(s, p, p + lengths[a] - 1)]
Places(s) == {p \in DOMAIN s : \E n \in 1 .. 6 : Lengths(s, p)[n] > 0}

Trimmed(s) ==
  LET inside == {p \in DOMAIN s : s[p] \notin Trims}
  IN IF inside = {} THEN <<>> ELSE SubSeq(s, Min(inside), Len(s))

\* The token of match m.
TokenOf(m) ==
  CASE m.alternative = 1 -> Token("COMPARATOR", m.text)
    [] m.alternative \in {2, 4} -> Token(KindOf(m.text[1]), <<m.text[1]>>)
    [] m.alternative = 3 -> Token("NEGATE", <<"-">>)
    [] m.alternative = 5 -> Token("STRING", m.text)
    [] m.alternative = 6 -> Token("TEXT", m.text)

\* What Next cuts from the front of the input, whatever the place of match m.
\* Mutant: a dash is cut with the character behind it.
CutMatched(m) == Len(m.text)
Cut(m) == IF m.alternative = 3 THEN 1 ELSE Len(m.text)
-----------------------------------------------------------------------------
Init ==
  /\ input \in UNION {[1 .. n -> Char] : n \in 0 .. MaxLen}
  /\ rest = input /\ next = Nil /\ tokens = <<>> /\ status = "lexing"

\* What Next reads without a token kept: the leftmost match makes the token.
Readings ==
  LET s == Trimmed(rest) IN
  {[token |-> TokenOf(m), rest |-> SubSeq(s, Cut(m) + 1, Len(s))] :
     m \in {Match(s, p) : p \in {q \in Places(s) : \A r \in Places(s) : q <= r}}}

\* END, an error, or a token, which Peek keeps.
Ends ==
  /\ status = "lexing" /\ next = Nil /\ Trimmed(rest) = <<>>
  /\ status' = "end" /\ rest' = <<>>
  /\ UNCHANGED <<input, next, tokens>>

Fails ==
  /\ status = "lexing" /\ next = Nil /\ Trimmed(rest) # <<>> /\ Readings = {}
  /\ status' = "failed" /\ rest' = Trimmed(rest)
  /\ UNCHANGED <<input, next, tokens>>

Peek ==
  /\ status = "lexing" /\ next = Nil
  /\ \E r \in Readings : next' = r.token /\ rest' = r.rest
  /\ UNCHANGED <<input, tokens, status>>

NextRead ==
  /\ status = "lexing" /\ next = Nil
  /\ \E r \in Readings : tokens' = Append(tokens, r.token) /\ rest' = r.rest
  /\ UNCHANGED <<input, next, status>>

\* Next returns the token kept.  Mutant: and keeps it.
NextStuck ==
  /\ next # Nil /\ Len(tokens) < MaxLen + 2 /\ tokens' = Append(tokens, next)
  /\ UNCHANGED <<input, rest, next, status>>
NextKept ==
  /\ next # Nil /\ tokens' = Append(tokens, next) /\ next' = Nil
  /\ UNCHANGED <<input, rest, status>>

Next == Ends \/ Fails \/ Peek \/ NextRead \/ NextKept

Spec == Init /\ [][Next]_vars
-----------------------------------------------------------------------------
\* The characters of s without its blanks.
Spelled(s) == FlattenSeq([n \in DOMAIN s |-> IF s[n] \in Blank THEN <<>> ELSE <<s[n]>>])
Values == FlattenSeq([n \in DOMAIN tokens |-> tokens[n].value])
Kept == IF next = Nil THEN <<>> ELSE next.value

\* The form feed at p is the blank behind NOT, AND or OR.
EndsWord(s, p) ==
  p > 1 /\ s[p - 1] \in Words /\ (p > 2 => ~TextChar(s[p - 2]))

\* A character may begin no token: ! without =, and a form feed, which \s keeps
\* out of tokens and TrimLeft does not take.  The match further on is cut from
\* the front, so what is behind is read again: of !go, and of a form feed and
\* go, go and o.
Stray ==
  \E p \in DOMAIN input :
    \/ input[p] = "!" /\ ~At(input, p + 1, {"="})
    \/ input[p] = FormFeed /\ ~EndsWord(input, p)

\* Whatever Peek and Next are called in turn: the tokens returned, the one
\* kept and what is left spell the input, so that a token kept is returned
\* once and none is lost or made up (filtering.go:51-105).
TokensSpell ==
  ~Stray => Spelled(Values \o Kept \o rest) = Spelled(input)

\* What the parser relies on: a string ends at its second quote that is not
\* escaped, or Unquote refuses it (filtering.go:574); a text has no character
\* that would end it; behind the dash of a negation there is something.
TokensWhole ==
  ~Stray =>
  \A n \in DOMAIN tokens :
    LET v == tokens[n].value IN
    CASE tokens[n].kind = "STRING" ->
           /\ Len(v) > 1 /\ v[1] = Quote
           /\ \A p \in 2 .. Len(v) : p < Len(v) <=> (v[p] = Quote => Escaped(v, 1, p))
      [] tokens[n].kind = "TEXT" -> \A p \in DOMAIN v : TextChar(v[p])
      [] tokens[n].kind = "NEGATE" /\ v = <<"-">> ->
           n < Len(tokens) \/ next # Nil \/ Trimmed(rest) # <<>>
      [] OTHER -> TRUE
=============================================================================
