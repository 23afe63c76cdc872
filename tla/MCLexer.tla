------------------------------- MODULE MCLexer -------------------------------
(***************************************************************************)
(* Instances of Lexer for TLC: all short sources over a few characters of  *)
(* every kind, and longer ones over those that make comments.              *)
(***************************************************************************)
EXTENDS Lexer

OneLetter == {"a"}

OneDigit == {"1"}

OneKeyword == {<<"a", "a">>}

Over(S, n) == UNION {[1 .. k -> S] : k \in 0 .. n}

AllSources ==
  Over({"a", "1", "-", " ", Newline, "\"", ".", ":", "=", "[", "#", Nul}, 4)
    \cup Over({"a", "-", Newline, "'", "."}, 6)
=============================================================================
