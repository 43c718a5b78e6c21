------------------------------- MODULE MCLexer -------------------------------
(* An instance of Lexer for TLC.                                           *)
EXTENDS Lexer

CONSTANT nil

\* A character of each class; OR is as AND, the other marks are as the dot and
\* the parenthesis, > is as < and : is as =.
MCChar ==
  {"x", "NOT", "AND", "-", Quote, Escape, Space, Newline, FormFeed, "<", "=", "!", ".", "("}
=============================================================================
