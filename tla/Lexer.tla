-------------------------------- MODULE Lexer --------------------------------
(***************************************************************************)
(* AsnLexer::tokenize (AsnLexer.cpp): from the characters of a file to its *)
(* tokens with their locations.                                            *)
(*                                                                         *)
(* One action per branch of getNextToken; a loop over characters is one    *)
(* step.  Texts are sequences of characters; the 43 keywords are a         *)
(* constant.                                                               *)
(***************************************************************************)
EXTENDS Naturals, Sequences, SequencesExt

CONSTANTS Sources,    \* sequences of characters
          Letters, Digits,
          Keywords    \* texts

ASSUME SourcesAssumption == \A s \in Sources : s \in Seq(Range(s))

Nul == "NUL"

Newline == "\n"

Blanks == {" ", Newline}

Quotes == {"'", "\""}

VARIABLES source,     \* never changes
          current,    \* position of the character at hand
          location,   \* its line and column
          tokens,
          done

vars == <<source, current, location, tokens, done>>

-----------------------------------------------------------------------------

(* The end of the source looks like a NUL in it.                           *)
CharAt(p) == IF p \in DOMAIN source THEN source[p] ELSE Nul

Peek == CharAt(current)

(* The first position from p on whose character is not one of S.           *)
Beyond(p, S) ==
  LET found == {q \in p .. Len(source) : source[q] \notin S}
  IN  IF found = {} THEN Len(source) + 1
      ELSE CHOOSE q \in found : \A r \in found : q <= r

(* The first position from p on whose character is one of S or a NUL.      *)
Until(p, S) ==
  LET found == {q \in p .. Len(source) : source[q] \in S \cup {Nul}}
  IN  IF found = {} THEN Len(source) + 1
      ELSE CHOOSE q \in found : \A r \in found : q <= r

(* Fault: the column is not reset.                                         *)
AdvancedSameColumn(l, c) == IF c = Newline THEN <<l[1] + 1, l[2]>> ELSE <<l[1], l[2] + 1>>

Advanced(l, c) == IF c = Newline THEN <<l[1] + 1, 1>> ELSE <<l[1], l[2] + 1>>

(* The location of position p, which is current or comes after it.         *)
LocationOf(p) ==
  LET at[q \in current .. p] ==
        IF q = current THEN location ELSE Advanced(at[q - 1], source[q - 1])
  IN  at[p]

AdvanceTo(p) ==
  /\ current' = p
  /\ location' = LocationOf(p)
  /\ UNCHANGED source

(* The characters up to position p - 1 are a token.                        *)
Emit(type, text, p) ==
  /\ tokens' = Append(tokens, [type |-> type, text |-> text, at |-> location])
  /\ AdvanceTo(p)
  /\ UNCHANGED done

Text(p) == SubSeq(source, current, p - 1)

AtComment == Peek = "-" /\ CharAt(current + 1) = "-"

Init ==
  /\ source \in Sources
  /\ current = 1
  /\ location = <<1, 1>>
  /\ tokens = <<>>
  /\ done = FALSE

SkipWhitespace ==
  /\ ~ done /\ Peek \in Blanks
  /\ AdvanceTo(Beyond(current, Blanks))
  /\ UNCHANGED <<tokens, done>>

(* Fault: the newline is taken for the end of the comment's last token.    *)
CommentEndPast(p) ==
  IF Until(p, {Newline}) < Len(source) THEN Until(p, {Newline}) + 2 ELSE Len(source) + 1

(* Fault: a comment also ends at two hyphens, and its own are the first.   *)
CommentEndHyphens(p) ==
  IF CharAt(p) = "-" /\ CharAt(p + 1) = "-" THEN p ELSE Until(p, {Newline})

CommentEnd(p) == Until(p, {Newline})

(* A comment ends with its line; two more hyphens do not end it.           *)
SkipComment ==
  /\ ~ done /\ AtComment
  /\ AdvanceTo(CommentEnd(current))
  /\ UNCHANGED <<tokens, done>>

EndOfFile ==
  /\ ~ done /\ Peek = Nul
  /\ tokens' = Append(tokens, [type |-> "END_OF_FILE", text |-> <<>>, at |-> location])
  /\ done' = TRUE
  /\ UNCHANGED <<source, current, location>>

(* Hyphens belong to the name, also two of them and one at the end.        *)
ScanIdentifier ==
  LET end == Beyond(current, Letters \cup Digits \cup {"_", "-"})
  IN  /\ ~ done /\ Peek \in Letters \cup {"_"}
      /\ Emit(IF Text(end) \in Keywords THEN "keyword" ELSE "IDENTIFIER", Text(end), end)

ScanNumber ==
  /\ ~ done /\ Peek \in Digits
  /\ Emit("NUMBER", Text(Beyond(current, Digits)), Beyond(current, Digits))

(* A string that is not closed goes to the end of the source.              *)
ScanString ==
  LET end == Until(current + 1, {Peek})
  IN  /\ ~ done /\ Peek \in Quotes
      /\ Emit("STRING", SubSeq(source, current + 1, end - 1), IF CharAt(end) = Peek THEN end + 1 ELSE end)

(* Fault: "." is looked for once only.                                     *)
OperatorLengthShort ==
  CASE Peek \in {"[", "]", ".", ":"} /\ CharAt(current + 1) = Peek -> 2
    [] OTHER -> 1

(* The characters of the operator at hand.                                 *)
OperatorLength ==
  IF CharAt(current + 1) # Peek \/ Peek \notin {"[", "]", ".", ":"} THEN 1
  ELSE IF <<Peek, CharAt(current + 2)>> \in {<<".", ".">>, <<":", "=">>} THEN 3
  ELSE 2

(* What is no operator is a token of its own, of type UNKNOWN.             *)
ScanOperator ==
  /\ ~ done /\ ~ AtComment
  /\ Peek \notin Letters \cup Digits \cup Blanks \cup Quotes \cup {"_", Nul}
  /\ Emit("operator", Text(current + OperatorLength), current + OperatorLength)

Next ==
  \/ SkipWhitespace \/ SkipComment \/ EndOfFile
  \/ ScanIdentifier \/ ScanNumber \/ ScanString \/ ScanOperator

Spec == Init /\ [][Next]_vars

-----------------------------------------------------------------------------
(* Properties.                                                             *)

(* The lines and columns that the source has; the position of a location.  *)
LineStart(n) ==
  IF n = 1 THEN 1
  ELSE LET ends == {p \in DOMAIN source : source[p] = Newline}
           before(p) == {q \in ends : q < p}
       IN  1 + CHOOSE p \in ends : Cardinality(before(p)) = n - 2

Position(l) == LineStart(l[1]) + l[2] - 1

Opening(t) == IF t.type = "STRING" THEN 1 ELSE 0

(* Where the token ends: a string with its closing quote if it has one.    *)
EndOf(t) ==
  LET p == Position(t.at) + Opening(t) + Len(t.text)
  IN  IF t.type = "STRING" /\ CharAt(p) = CharAt(Position(t.at)) THEN p + 1 ELSE p

(* A token has the text that the source has at the token's location: what  *)
(* a diagnostic message points at is what was read, also after comments,   *)
(* and strings that go over several lines.                                 *)
LocationsAreTrue ==
  \A i \in DOMAIN tokens :
    LET t == tokens[i]
        p == Position(t.at) + Opening(t)
    IN  /\ Newline \notin {CharAt(q) : q \in LineStart(t.at[1]) .. Position(t.at) - 1}
        /\ \A k \in DOMAIN t.text : CharAt(p + k - 1) = t.text[k]
        /\ t.type = "END_OF_FILE" => CharAt(p) = Nul

(* Between two tokens, and before the first, there is nothing but blanks   *)
(* and comments; tokens do not overlap.                                    *)
IsGap(p, q) ==
  /\ p <= q
  /\ \A r \in p .. q - 1 :
       \/ source[r] \in Blanks
       \/ \E c \in p .. r : /\ source[c] = "-" /\ CharAt(c + 1) = "-"
                            /\ \A s \in c .. r : source[s] # Newline

NothingDropped ==
  \A i \in DOMAIN tokens :
    IsGap(IF i = 1 THEN 1 ELSE EndOf(tokens[i - 1]), Position(tokens[i].at))

(* No token goes on in the one that touches it: the operators are the      *)
(* longest there are, and a name ends only where something else begins.    *)
LongestTokens ==
  \A i \in 2 .. Len(tokens) :
    LET s == tokens[i - 1]
        next == Position(tokens[i].at)
    IN  EndOf(s) = next /\ next <= Len(source) =>
          /\ s.type \in {"IDENTIFIER", "keyword"} =>
               source[next] \notin Letters \cup Digits \cup {"_", "-"}
          /\ s.type = "NUMBER" => source[next] \notin Digits
          /\ s.type = "operator" =>
               s.text \o <<source[next]>> \notin {<<".", ".">>, <<".", ".", ".">>, <<"[", "[">>,
                                                 <<"]", "]">>, <<":", ":">>, <<":", ":", "=">>, <<"-", "-">>}

=============================================================================
