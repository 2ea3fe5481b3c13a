-------------------------------- MODULE Lexer ---------------------------------
(***************************************************************************)
(* Lexer::tokenize (src/src/lexer.cpp): the scanner, one action for each   *)
(* turn of the loops of its readers.  A source is a sequence of characters *)
(* and a character a string of length one; reading past the end yields     *)
(* End, as current() and peek() yield the character 0.                     *)
(*                                                                         *)
(* The kind of a keyword or an operator is its spelling; the other kinds   *)
(* have the names of their TokenType.  A token's `place` is the line and   *)
(* column it carries, with the position they stand for.                    *)
(***************************************************************************)
EXTENDS Vocabulary, FiniteSets

CONSTANT Sources

ASSUME SourcesAssumption == \A s \in Sources : s \in Seq(STRING) /\ \A i \in DOMAIN s : s[i] # End

VARIABLES src,     \* the text, fixed
          here,    \* pos_, line_ and col_
          mode,    \* the loop the lexer is in
          from,    \* where the token being read starts
          opened,  \* where the comment or literal being read was opened
          kept,    \* the place to return to when no further string follows, or NoPlace
          text,    \* the value of the token being read
          tokens,  \* the tokens read
          error    \* where a LexerError was thrown for, or NoPlace

lexvars == <<src, here, mode, from, opened, kept, text, tokens, error>>

Ahead(i) == IF here.pos + i <= Len(src) THEN src[here.pos + i] ELSE End
Cur == Ahead(0)
AtEnd == here.pos > Len(src)
Slice(n) == [i \in 1..n |-> Ahead(i - 1)]

NoPlace == [pos |-> 0, line |-> 0, col |-> 0]
Past(p, n) == [p EXCEPT !.pos = @ + n, !.col = @ + n]

(* advance(), for a character that is in the source.                       *)
Advance(p) ==
  IF src[p.pos] = Newline THEN [pos |-> p.pos + 1, line |-> p.line + 1, col |-> 1] ELSE Past(p, 1)
Advance2(p) == Advance(Advance(p))
Advance3(p) == Advance(Advance2(p))

Init ==
  /\ src \in Sources
  /\ here = [pos |-> 1, line |-> 1, col |-> 1]
  /\ mode = "skip"
  /\ from = here /\ opened = here /\ kept = NoPlace
  /\ text = << >> /\ tokens = << >> /\ error = NoPlace

-----------------------------------------------------------------------------
(* The parts of a step: passing characters without keeping them, keeping   *)
(* them in the value of the token, and ending the token.                   *)
Go(m) == mode' = m /\ UNCHANGED <<src, from, opened, kept, text, tokens, error>>
Pass(p, m) == here' = p /\ Go(m)

Take(n, m) ==
  /\ text' = text \o Slice(n)
  /\ here' = IF n = 1 THEN Advance(here) ELSE Advance2(here)
  /\ mode' = m
  /\ UNCHANGED <<src, from, opened, kept, tokens, error>>

PushAt(kind, value, place, p) ==
  /\ tokens' = Append(tokens, [kind |-> kind, value |-> value, place |-> place])
  /\ here' = p
  /\ mode' = "skip" /\ kept' = NoPlace /\ text' = << >>
  /\ UNCHANGED <<src, from, opened, error>>
Push(kind, value, p) == PushAt(kind, value, from, p)

Throw(place) ==
  /\ error' = place /\ mode' = "error"
  /\ UNCHANGED <<src, here, from, opened, kept, text, tokens>>

-----------------------------------------------------------------------------
(* skip_whitespace_and_comments                                            *)
Skippable == Cur \in Blank \/ Slice(2) \in {<<"/", "/">>, <<"/", "*">>, <<"*", "/">>}

SkipBlank == mode = "skip" /\ Cur \in Blank /\ Pass(Advance(here), "skip")

OpenLineComment == mode = "skip" /\ Slice(2) = <<"/", "/">> /\ Pass(Advance2(here), "line comment")
LineComment ==
  /\ mode = "line comment"
  /\ IF AtEnd \/ Cur = Newline THEN Pass(here, "skip") ELSE Pass(Advance(here), mode)

OpenBlockComment ==
  /\ mode = "skip" /\ Slice(2) = <<"/", "*">>
  /\ opened' = here /\ here' = Advance2(here) /\ mode' = "block comment"
  /\ UNCHANGED <<src, from, kept, text, tokens, error>>
BlockComment ==
  /\ mode = "block comment"
  /\ IF AtEnd THEN Throw(opened)
     ELSE IF Slice(2) = <<"*", "/">> THEN Pass(Advance2(here), "skip")
     ELSE Pass(Advance(here), mode)

(* Left over from a nested comment: dropped.                               *)
StrayClose == mode = "skip" /\ Slice(2) = <<"*", "/">> /\ Pass(Advance2(here), "skip")

-----------------------------------------------------------------------------
(* tokenize: what follows the blanks.                                      *)
Ready == mode = "skip" /\ ~Skippable
Fresh == Ready /\ kept = NoPlace

Begin(chars, p, m) ==
  /\ from' = here /\ opened' = here
  /\ text' = chars /\ here' = p /\ mode' = m
  /\ UNCHANGED <<src, kept, tokens, error>>

Finish == Fresh /\ AtEnd /\ tokens' = Append(tokens, [kind |-> "Eof", value |-> << >>, place |-> here])
          /\ mode' = "done" /\ UNCHANGED <<src, here, from, opened, kept, text, error>>

BeginDirective == Fresh /\ Cur = "#" /\ Begin(<<"#">>, Advance(here), "directive")
BeginWord == Fresh /\ Cur \in Letter /\ Begin(<< >>, here, "word")
BeginChar == Fresh /\ Cur = "'" /\ Begin(<< >>, Advance(here), "char")
BeginString == Fresh /\ Cur = "\"" /\ Begin(<< >>, Advance(here), "string")
BeginNumber ==
  /\ Fresh /\ Cur \in Digit
  /\ IF Slice(2) \in {<<"0", "x">>, <<"0", "X">>} THEN Begin(Slice(2), Advance2(here), "hex")
     ELSE Begin(<< >>, here, "whole")

(* read_operator_or_punctuation: three characters, then two, then one.     *)
Operator ==
  /\ Fresh /\ ~AtEnd /\ Cur \notin Digit \cup Letter \cup {"#", "'", "\""}
  /\ IF Slice(3) \in Operator3 THEN PushAt(Text(Slice(3)), Slice(3), here, Advance3(here))
     ELSE IF Slice(2) \in Operator2 THEN PushAt(Text(Slice(2)), Slice(2), here, Advance2(here))
     ELSE PushAt(IF Cur \in Operator1 THEN Cur ELSE "Unknown", Slice(1), here, Advance(here))

-----------------------------------------------------------------------------
(* read_identifier_or_keyword                                              *)
Word ==
  /\ mode = "word"
  /\ IF Cur \in Letter \cup Digit THEN Take(1, mode)
     ELSE Push(IF Text(text) \in Keyword THEN Text(text) ELSE "Identifier", text, here)

(* read_number: the digits, a fraction, an exponent, and the suffixes; the *)
(* suffix i64 and its like is not part of the value.                       *)
Hex == mode = "hex" /\ IF Cur \in HexDigit THEN Take(1, mode) ELSE Pass(here, "suffix")

AtPoint == mode = "whole" /\ Cur = "." /\ Ahead(1) # "."
AtExponent == mode \in {"whole", "fraction"} /\ Cur \in {"e", "E"}

Number == mode \in {"whole", "fraction", "power"} /\ Cur \in Digit /\ Take(1, mode)
Point == AtPoint /\ Take(1, "fraction")
Exponent == AtExponent /\ Take(IF Ahead(1) \in {"+", "-"} THEN 2 ELSE 1, "power")
FloatSuffix ==
  /\ mode \in {"whole", "fraction", "power"} /\ Cur \notin Digit /\ ~AtPoint /\ ~AtExponent
  /\ IF Cur \in {"f", "F"} \/ (Cur \in {"l", "L"} /\ mode # "whole")
     THEN Push("FloatLiteral", Append(text, Cur), Advance(here))
     ELSE IF mode # "whole" THEN Push("FloatLiteral", text, here) ELSE Pass(here, "suffix")
Suffix ==
  /\ mode = "suffix"
  /\ IF Cur \in {"u", "U", "l", "L"} THEN Take(1, mode)
     ELSE Push("IntegerLiteral", text,
               IF Cur \notin {"i", "I"} \/ Ahead(1) \notin {"6", "3", "1", "8"} THEN here
               ELSE IF Ahead(2) \in Digit THEN Advance3(here) ELSE Advance2(here))

(* read_string, and the joining of a string with the next one: when none   *)
(* follows, the lexer returns to where the string ended.                   *)
String ==
  /\ mode = "string"
  /\ IF AtEnd \/ Cur = Newline THEN Throw(opened)
     ELSE IF Cur = "\"" THEN /\ here' = Advance(here) /\ kept' = here' /\ mode' = "skip"
                             /\ UNCHANGED <<src, from, opened, text, tokens, error>>
     ELSE Take(IF Cur = "\\" /\ Ahead(1) # End THEN 2 ELSE 1, mode)
JoinString ==
  /\ Ready /\ kept # NoPlace /\ Cur = "\""
  /\ opened' = here /\ here' = Advance(here) /\ mode' = "string" /\ kept' = NoPlace
  /\ UNCHANGED <<src, from, text, tokens, error>>
EndStringNextLine == Ready /\ kept # NoPlace /\ Cur # "\"" /\ Push("StringLiteral", text, [here EXCEPT !.pos = kept.pos])
EndStringAgain == Ready /\ kept # NoPlace /\ Cur # "\"" /\ Pass(kept, mode)
EndString == Ready /\ kept # NoPlace /\ Cur # "\"" /\ Push("StringLiteral", text, kept)

(* read_char_literal                                                       *)
Char ==
  /\ mode = "char"
  /\ IF AtEnd \/ Cur = "'" THEN Pass(here, "close")
     ELSE Take(IF Cur = "\\" /\ Ahead(1) # End THEN 2 ELSE 1, "close")
CloseChar ==
  /\ mode = "close"
  /\ IF Cur = "'" THEN Push("CharLiteral", text, Advance(here)) ELSE Throw(from)

(* read_preprocessor                                                       *)
Trimmed(chars) == SubSeq(chars, 1, SelectLastInSeq(chars, LAMBDA c : c \notin Blank))
Directive ==
  /\ mode = "directive"
  /\ IF AtEnd \/ Cur = Newline THEN Push("Preprocessor", Trimmed(text), here)
     ELSE Take(IF Slice(2) = <<"\\", Newline>> THEN 2 ELSE 1, mode)

-----------------------------------------------------------------------------
Next ==
  \/ SkipBlank \/ OpenLineComment \/ LineComment \/ OpenBlockComment \/ BlockComment \/ StrayClose
  \/ Finish \/ BeginDirective \/ BeginWord \/ BeginChar \/ BeginString \/ BeginNumber \/ Operator
  \/ Word \/ Hex \/ Number \/ Point \/ Exponent \/ FloatSuffix \/ Suffix
  \/ String \/ JoinString \/ EndString \/ Char \/ CloseChar \/ Directive

Spec == Init /\ [][Next]_lexvars /\ WF_lexvars(Next)

-----------------------------------------------------------------------------
(* A place is right when it is in the text, its line counts the line ends  *)
(* before it, and its column counts from the last of these.                *)
Right(p) ==
  /\ p.pos \in 1..Len(src) + 1
  /\ p.line = 1 + Cardinality({i \in 1..p.pos - 1 : src[i] = Newline})
  /\ p.col \in 1..p.pos
  /\ p.col = p.pos \/ src[p.pos - p.col] = Newline
  /\ \A i \in p.pos - p.col + 1..p.pos - 1 : src[i] # Newline

(* Every token of the result, and a LexerError, names the line and column  *)
(* of its first character in the source, whatever comments, line ends,     *)
(* joined strings and returns lie before it; and the tokens are in the     *)
(* order of the text (advance, and the saved places of tokenize).          *)
PositionsRight ==
  mode \in {"done", "error"} =>
  /\ \A i \in DOMAIN tokens :
       /\ Right(tokens[i].place)
       /\ i > 1 => tokens[i - 1].place.pos < tokens[i].place.pos
  /\ mode = "error" => Right(error)
===============================================================================
