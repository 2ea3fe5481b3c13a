----------------------------- MODULE LexerProofs ------------------------------
(***************************************************************************)
(* The places of the tokens are right for every set of sources.  The       *)
(* inductive invariant says of every place the lexer holds, and not only   *)
(* of those in the tokens, that it is right: the place it returns to when  *)
(* a string is not continued was saved many steps before.  That the        *)
(* tokens are in order rests on how far the token being read has come: its *)
(* start lies behind all tokens, and before `here` as soon as it has a     *)
(* character.                                                              *)
(***************************************************************************)
EXTENDS Lexer, SequenceTheorems, FiniteSetTheorems, TLAPS

Place == [pos : Nat, line : Nat, col : Nat]
Good(p) == p \in Place /\ Right(p)

(* The modes in which a token is being read, and those of them in which    *)
(* its first character may still lie ahead.                                *)
Starting == {"word", "whole"}
Reading == {"hex", "fraction", "power", "suffix", "string", "char", "close", "directive"}

SourceOK == src \in Seq(STRING) /\ \A i \in DOMAIN src : src[i] # End
Held ==
  /\ Good(here) /\ Good(from) /\ Good(opened)
  /\ kept = NoPlace \/ Good(kept)
  /\ mode = "error" => Good(error)
Listed ==
  /\ tokens \in Seq(ToSet(tokens))
  /\ \A i \in 1..Len(tokens) :
       /\ Good(tokens[i].place)
       /\ i > 1 => tokens[i - 1].place.pos < tokens[i].place.pos
After(p) == \A i \in 1..Len(tokens) : tokens[i].place.pos < p.pos
Started ==
  /\ mode # "done" => After(here)
  /\ mode \in Starting \cup Reading \/ kept # NoPlace => After(from) /\ from.pos <= here.pos
  /\ mode \in Reading => from.pos < here.pos
  /\ mode = "word" /\ from.pos = here.pos => Cur \in Letter
  /\ mode = "whole" /\ from.pos = here.pos => Cur \in Digit
  /\ kept # NoPlace => from.pos < kept.pos
Inv == SourceOK /\ Held /\ Listed /\ Started

-----------------------------------------------------------------------------
LEMMA EndIsNoCharacter ==
  End \notin Digit \cup HexDigit \cup Letter \cup Blank \cup {"\"", "'", "#", "/", "*", "\\", ".", "e", "E", "+", "-"}
BY DEF End, Digit, HexDigit, Letter, Blank, Newline

(* The line ends before a place, and before the next one.                  *)
Ends(k) == {i \in 1..k - 1 : src[i] = Newline}

LEMMA EndsFinite ==
  ASSUME NEW k \in Nat
  PROVE  IsFiniteSet(Ends(k)) /\ Cardinality(Ends(k)) \in Nat
<1>1. IsFiniteSet(1..k - 1)
  <2>1. 1 \in Int /\ k - 1 \in Int
    OBVIOUS
  <2> QED
    BY <2>1, FS_Interval
<1>2. Ends(k) \in SUBSET (1..k - 1)
  BY DEF Ends
<1>3. IsFiniteSet(Ends(k))
  BY <1>1, <1>2, FS_Subset
<1> QED
  BY <1>3, FS_CardinalityType

LEMMA LineEnds ==
  ASSUME SourceOK, NEW n \in 1..Len(src)
  PROVE  Cardinality(Ends(n + 1)) =
           Cardinality(Ends(n)) + (IF src[n] = Newline THEN 1 ELSE 0)
<1>1. n \in Nat /\ n + 1 - 1 = n /\ Len(src) \in Nat
  BY DEF SourceOK
<1>2. IsFiniteSet(Ends(n)) /\ Cardinality(Ends(n)) \in Nat /\ n \notin Ends(n)
  <2>1. IsFiniteSet(Ends(n)) /\ Cardinality(Ends(n)) \in Nat
    BY <1>1, EndsFinite
  <2>2. n \notin Ends(n)
    BY <1>1 DEF Ends
  <2> QED
    BY <2>1, <2>2
<1>3. CASE src[n] = Newline
  <2>1. Ends(n + 1) = Ends(n) \cup {n}
    BY <1>1, <1>3 DEF Ends
  <2>2. Cardinality(Ends(n) \cup {n}) = Cardinality(Ends(n)) + 1
    BY <1>2, FS_AddElement
  <2> QED
    BY <1>3, <2>1, <2>2
<1>4. CASE src[n] # Newline
  <2>1. Ends(n + 1) = Ends(n)
    BY <1>1, <1>4 DEF Ends
  <2> QED
    BY <1>2, <1>4, <2>1
<1> QED
  BY <1>3, <1>4

(* advance() keeps a place right.                                          *)
LEMMA AdvanceGood ==
  ASSUME SourceOK, NEW p, Good(p), p.pos <= Len(src)
  PROVE  Good(Advance(p)) /\ Advance(p).pos = p.pos + 1
<1>1. /\ p.pos \in 1..Len(src) /\ p.pos \in Nat /\ p.line \in Nat /\ p.col \in Nat /\ Len(src) \in Nat
      /\ p = [pos |-> p.pos, line |-> p.line, col |-> p.col]
  BY DEF Good, Place, Right, SourceOK
<1>2. Cardinality(Ends(p.pos + 1)) = Cardinality(Ends(p.pos)) + (IF src[p.pos] = Newline THEN 1 ELSE 0)
  BY <1>1, LineEnds
<1>3. /\ p.line = 1 + Cardinality(Ends(p.pos)) /\ p.col \in 1..p.pos
      /\ p.col = p.pos \/ src[p.pos - p.col] = Newline
      /\ \A i \in p.pos - p.col + 1..p.pos - 1 : src[i] # Newline
  BY DEF Good, Right, Ends
<1>4. Cardinality(Ends(p.pos)) \in Nat
  BY <1>1, EndsFinite
<1>5. CASE src[p.pos] = Newline
  <2> DEFINE q == [pos |-> p.pos + 1, line |-> p.line + 1, col |-> 1]
  <2>1. Advance(p) = q
    BY <1>5 DEF Advance
  <2>2. q \in Place /\ q.pos = p.pos + 1 /\ q.line = p.line + 1 /\ q.col = 1
    BY <1>1 DEF Place
  <2>3. q.line = 1 + Cardinality(Ends(q.pos))
    BY <1>1, <1>2, <1>3, <1>4, <1>5, <2>2
  <2>4. src[q.pos - q.col] = Newline /\ \A i \in q.pos - q.col + 1..q.pos - 1 : src[i] # Newline
    BY <1>1, <1>5, <2>2
  <2>5. q.pos \in 1..Len(src) + 1 /\ q.col \in 1..q.pos
    BY <1>1, <2>2
  <2> QED
    BY <2>1, <2>2, <2>3, <2>4, <2>5 DEF Good, Right, Ends
<1>6. CASE src[p.pos] # Newline
  <2> DEFINE q == [pos |-> p.pos + 1, line |-> p.line, col |-> p.col + 1]
  <2>1. Advance(p) = q
    BY <1>1, <1>6 DEF Advance, Past
  <2>2. q \in Place /\ q.pos = p.pos + 1 /\ q.line = p.line /\ q.col = p.col + 1
    BY <1>1 DEF Place
  <2>3. q.line = 1 + Cardinality(Ends(q.pos))
    BY <1>1, <1>2, <1>3, <1>4, <1>6, <2>2
  <2>4. q.pos - q.col = p.pos - p.col
    BY <1>1, <2>2
  <2>5. q.col = q.pos \/ src[q.pos - q.col] = Newline
    BY <1>1, <1>3, <2>2, <2>4
  <2>6. \A i \in q.pos - q.col + 1..q.pos - 1 : src[i] # Newline
    BY <1>1, <1>3, <1>6, <2>2, <2>4
  <2>7. q.pos \in 1..Len(src) + 1 /\ q.col \in 1..q.pos
    BY <1>1, <1>3, <2>2
  <2> QED
    BY <2>1, <2>2, <2>3, <2>5, <2>6, <2>7 DEF Good, Right, Ends
<1> QED
  BY <1>5, <1>6

(* A place that is left after one, two or three characters.                *)
LEMMA OneAhead ==
  ASSUME SourceOK, Good(here), Cur # End \/ ~AtEnd
  PROVE  Good(Advance(here)) /\ Advance(here).pos = here.pos + 1
<1>1. here.pos \in Nat /\ Len(src) \in Nat
  BY DEF Good, Place, SourceOK
<1>2. here.pos <= Len(src)
  BY <1>1 DEF Cur, AtEnd, Ahead
<1> QED
  BY <1>2, AdvanceGood

LEMMA TwoAhead ==
  ASSUME SourceOK, Good(here), Ahead(1) # End
  PROVE  Good(Advance2(here)) /\ Advance2(here).pos = here.pos + 2
<1>1. here.pos \in Nat /\ Len(src) \in Nat
  BY DEF Good, Place, SourceOK
<1>2. here.pos + 1 <= Len(src)
  BY <1>1 DEF Ahead
<1>3. Good(Advance(here)) /\ Advance(here).pos = here.pos + 1
  BY <1>1, <1>2, AdvanceGood
<1>4. Good(Advance(Advance(here))) /\ Advance(Advance(here)).pos = here.pos + 1 + 1
  BY <1>2, <1>3, AdvanceGood
<1> QED
  BY <1>1, <1>4 DEF Advance2

LEMMA ThreeAhead ==
  ASSUME SourceOK, Good(here), Ahead(2) # End
  PROVE  Good(Advance3(here)) /\ Advance3(here).pos = here.pos + 3
<1>1. here.pos \in Nat /\ Len(src) \in Nat
  BY DEF Good, Place, SourceOK
<1>2. here.pos + 2 <= Len(src)
  BY <1>1 DEF Ahead
<1>3. here.pos + 1 <= Len(src)
  BY <1>1, <1>2
<1>4. Good(Advance(here)) /\ Advance(here).pos = here.pos + 1
  BY <1>1, <1>3, AdvanceGood
<1>5. Good(Advance(Advance(here))) /\ Advance(Advance(here)).pos = here.pos + 1 + 1
  BY <1>3, <1>4, AdvanceGood
<1>6. Good(Advance3(here)) /\ Advance3(here).pos = here.pos + 1 + 1 + 1
  BY <1>1, <1>2, <1>5, AdvanceGood DEF Advance3, Advance2
<1> QED
  BY <1>1, <1>6

(* The characters of a slice.                                              *)
LEMMA SliceTwo ==
  ASSUME NEW a, NEW b, Slice(2) = <<a, b>>
  PROVE  Ahead(0) = a /\ Ahead(1) = b
<1>1. Slice(2)[1] = Ahead(0) /\ Slice(2)[2] = Ahead(1)
  BY DEF Slice
<1> QED
  BY <1>1

-----------------------------------------------------------------------------
(* A turn that adds no token and comes no place behind `here`.             *)
LEMMA Moved ==
  ASSUME Inv, mode # "done",
         UNCHANGED <<src, from, tokens>>, opened' \in {opened, here}, kept' \in {kept, NoPlace},
         Good(here'), here.pos <= here'.pos, mode' \notin {"done", "error"},
         mode' \in Starting \cup Reading =>
           (mode \in Starting \cup Reading \/ kept # NoPlace) /\ from.pos < here'.pos
  PROVE  Inv'
<1>1. SourceOK'
  BY DEF Inv, SourceOK
<1>2. Held'
  BY DEF Inv, Held, Good, Right
<1>3. Listed'
  BY DEF Inv, Listed, Good, Right
<1>4. After(here)'
  <2>1. /\ \A i \in 1..Len(tokens) : tokens[i].place.pos \in Nat /\ tokens[i].place.pos < here.pos
        /\ here.pos \in Nat /\ here'.pos \in Nat
    BY DEF Inv, Listed, Started, After, Held, Good, Place
  <2> QED
    BY <2>1 DEF After
<1>5. mode' \in Starting \cup Reading \/ kept' # NoPlace => After(from)' /\ from'.pos <= here'.pos
  <2>1. from.pos \in Nat /\ here.pos \in Nat /\ here'.pos \in Nat
    BY DEF Inv, Held, Good, Place
  <2>2. mode \in Starting \cup Reading \/ kept # NoPlace => After(from) /\ from.pos <= here.pos
    BY DEF Inv, Started
  <2> QED
    BY <2>1, <2>2 DEF After
<1>6. kept' # NoPlace => from'.pos < kept'.pos
  BY DEF Inv, Started
<1>7. mode' \in Starting \cup Reading => from'.pos < here'.pos /\ from'.pos # here'.pos
  BY DEF Inv, Held, Good, Place
<1>8. Started'
  BY <1>4, <1>5, <1>6, <1>7 DEF Started, Starting, Reading
<1> QED
  BY <1>1, <1>2, <1>3, <1>8 DEF Inv

(* A token that starts behind all others is added in order.                *)
LEMMA ListedAppend ==
  ASSUME Listed, src' = src, NEW e, tokens' = Append(tokens, e), Good(e.place), After(e.place)
  PROVE  Listed'
<1>1. /\ tokens \in Seq(ToSet(tokens) \cup {e}) /\ Len(tokens) \in Nat
  BY SeqMonotonic, LenProperties DEF Listed
<1>2. /\ tokens' \in Seq(ToSet(tokens) \cup {e}) /\ Len(tokens') = Len(tokens) + 1
      /\ \A i \in 1..Len(tokens) : tokens'[i] = tokens[i]
      /\ tokens'[Len(tokens) + 1] = e
  BY <1>1, AppendProperties
<1>3. tokens' \in Seq(ToSet(tokens'))
  BY <1>2, SeqOfRange DEF ToSet, Range
<1>4. ASSUME NEW i \in 1..Len(tokens')
      PROVE  Good(tokens'[i].place) /\ (i > 1 => tokens'[i - 1].place.pos < tokens'[i].place.pos)
  <2>1. CASE i <= Len(tokens)
    <3>1. i \in 1..Len(tokens) /\ (i > 1 => i - 1 \in 1..Len(tokens))
      BY <1>1, <1>2, <2>1
    <3> QED
      BY <1>2, <3>1 DEF Listed
  <2>2. CASE i > Len(tokens)
    <3>1. i = Len(tokens) + 1 /\ (i > 1 => i - 1 \in 1..Len(tokens))
      BY <1>1, <1>2, <2>2
    <3> QED
      BY <1>2, <3>1 DEF After
  <2> QED
    BY <1>1, <1>2, <2>1, <2>2
<1>5. \A i \in 1..Len(tokens') : Good(tokens[i].place)'
  BY <1>4, SMTT(60) DEF Good, Right
<1>6. \A i \in 1..Len(tokens') : i > 1 => tokens'[i - 1].place.pos < tokens'[i].place.pos
  BY <1>4
<1> QED
  BY <1>3, <1>5, <1>6 DEF Listed

(* A turn that ends a token.                                               *)
LEMMA Pushed ==
  ASSUME Inv, UNCHANGED <<src, from, opened, error>>, mode' = "skip", kept' = NoPlace,
         NEW e, tokens' = Append(tokens, e), Good(e.place), After(e.place),
         Good(here'), e.place.pos < here'.pos
  PROVE  Inv'
<1>1. SourceOK'
  BY DEF Inv, SourceOK
<1>2. Held'
  BY DEF Inv, Held, Good, Right
<1>3. Listed'
  BY ListedAppend DEF Inv
<1>4. After(here)'
  <2>1. /\ tokens \in Seq(ToSet(tokens) \cup {e}) /\ Len(tokens) \in Nat
    BY SeqMonotonic, LenProperties DEF Inv, Listed
  <2>2. /\ Len(tokens') = Len(tokens) + 1
        /\ \A i \in 1..Len(tokens) : tokens'[i] = tokens[i]
        /\ tokens'[Len(tokens) + 1] = e
    BY <2>1, AppendProperties
  <2>3. \A i \in 1..Len(tokens) : tokens[i].place.pos \in Nat /\ tokens[i].place.pos < e.place.pos
    BY DEF Inv, Listed, After, Good, Place
  <2>4. e.place.pos \in Nat /\ here'.pos \in Nat
    BY DEF Good, Place
  <2>5. ASSUME NEW i \in 1..Len(tokens') PROVE tokens'[i].place.pos < here'.pos
    <3>1. i \in 1..Len(tokens) \/ i = Len(tokens) + 1
      BY <2>1, <2>2
    <3> QED
      BY <2>2, <2>3, <2>4, <3>1
  <2> QED
    BY <2>5 DEF After
<1>5. Started'
  BY <1>4 DEF Started, Starting, Reading
<1> QED
  BY <1>1, <1>2, <1>3, <1>5 DEF Inv

(* The start of a token.                                                   *)
LEMMA Begun ==
  ASSUME Inv, Ready, kept = NoPlace, NEW chars, NEW p, NEW m, Begin(chars, p, m), Good(p),
         m \in Starting \cup Reading, m \in Reading => here.pos < p.pos,
         m \in Starting => p = here, m = "word" => Cur \in Letter, m = "whole" => Cur \in Digit
  PROVE  Inv'
<1>1. SourceOK'
  BY DEF Inv, SourceOK, Begin
<1>2. Held'
  BY DEF Inv, Held, Good, Right, Begin, Starting, Reading
<1>3. Listed'
  BY DEF Inv, Listed, Good, Right, Begin
<1>4. here.pos \in Nat /\ here'.pos \in Nat /\ from' = here /\ here' = p /\ mode' = m
      /\ kept' = NoPlace /\ tokens' = tokens /\ src' = src /\ here.pos <= here'.pos
  BY DEF Begin, Inv, Held, Good, Place, Starting, Reading
<1>5. After(from)' /\ After(here)'
  <2>1. \A i \in 1..Len(tokens) : tokens[i].place.pos \in Nat /\ tokens[i].place.pos < here.pos
    BY DEF Inv, Listed, Started, After, Ready, Good, Place
  <2> QED
    BY <1>4, <2>1 DEF After
<1>6. m \in Starting => Cur' = Cur
  BY <1>4 DEF Cur, Ahead
<1>7. Started'
  <2>1. mode' = "word" => Cur' \in Letter
    BY <1>4, <1>6 DEF Starting
  <2>2. mode' = "whole" => Cur' \in Digit
    BY <1>4, <1>6 DEF Starting
  <2>3. mode' \in Reading => from'.pos < here'.pos
    BY <1>4
  <2> QED
    BY <1>4, <1>5, <2>1, <2>2, <2>3 DEF Started
<1> QED
  BY <1>1, <1>2, <1>3, <1>7 DEF Inv

(* A LexerError.                                                           *)
LEMMA Thrown ==
  ASSUME Inv, mode # "done", Throw(opened) \/ Throw(from)
  PROVE  Inv'
<1>1. SourceOK'
  BY DEF Inv, SourceOK, Throw
<1>2. Held'
  BY ZenonT(60) DEF Inv, Held, Good, Right, Throw
<1>3. Listed'
  BY DEF Inv, Listed, Good, Right, Throw
<1>4. Started'
  BY DEF Inv, Started, After, Throw, Starting, Reading
<1> QED
  BY <1>1, <1>2, <1>3, <1>4 DEF Inv

-----------------------------------------------------------------------------
(* The actions, one lemma for each reader.                                 *)
Facts == SourceOK /\ Good(here) /\ here.pos \in Nat /\ from.pos \in Nat

LEMMA InvFacts == Inv => Facts
BY DEF Inv, Facts, Held, Good, Place

(* Passing characters between the tokens.                                  *)
LEMMA PassKeeps ==
  ASSUME Inv, mode # "done", NEW p, NEW m \in {"skip", "line comment", "block comment"}, Pass(p, m),
         Good(p), here.pos <= p.pos
  PROVE  Inv'
<1>1. /\ UNCHANGED <<src, from, tokens>> /\ opened' = opened /\ kept' = kept /\ mode' = m /\ here' = p
      /\ m \notin Starting \cup Reading /\ m \notin {"done", "error"}
  BY DEF Pass, Go, Starting, Reading
<1> QED
  BY <1>1, Moved

LEMMA SkipKeeps ==
  ASSUME Inv, SkipBlank \/ OpenLineComment \/ LineComment \/ OpenBlockComment \/ BlockComment \/ StrayClose
  PROVE  Inv'
<1>1. Facts
  BY InvFacts
<1>2. ASSUME NEW a, NEW b, Slice(2) = <<a, b>>, b # End
      PROVE  Good(Advance2(here)) /\ Advance2(here).pos = here.pos + 2 /\ here.pos <= Advance2(here).pos
  <2>1. Ahead(1) # End
    BY <1>2, SliceTwo
  <2>2. Good(Advance2(here)) /\ Advance2(here).pos = here.pos + 2
    BY <1>1, <2>1, TwoAhead DEF Facts
  <2> QED
    BY <1>1, <2>2 DEF Facts
<1>3. ASSUME Cur # End \/ ~AtEnd
      PROVE  Good(Advance(here)) /\ here.pos <= Advance(here).pos
  <2>1. Good(Advance(here)) /\ Advance(here).pos = here.pos + 1
    BY <1>1, <1>3, OneAhead DEF Facts
  <2> QED
    BY <1>1, <2>1 DEF Facts
<1>4. "/" # End /\ "*" # End /\ Good(here) /\ here.pos <= here.pos
  BY <1>1 DEF End, Facts
<1>5. CASE SkipBlank
  <2>1. mode = "skip" /\ Pass(Advance(here), "skip") /\ Cur # End
    BY <1>5, EndIsNoCharacter DEF SkipBlank
  <2> QED
    BY <1>3, <2>1, PassKeeps
<1>6. CASE OpenLineComment
  <2>1. mode = "skip" /\ Pass(Advance2(here), "line comment") /\ Slice(2) = <<"/", "/">>
    BY <1>6 DEF OpenLineComment
  <2>2. Good(Advance2(here)) /\ here.pos <= Advance2(here).pos
    BY <1>2, <1>4, <2>1
  <2> QED
    BY <2>1, <2>2, PassKeeps
<1>7. CASE LineComment
  <2>1. CASE AtEnd \/ Cur = Newline
    <3>1. mode = "line comment" /\ Pass(here, "skip")
      BY <1>7, <2>1 DEF LineComment
    <3> QED
      BY <1>4, <3>1, PassKeeps
  <2>2. CASE ~(AtEnd \/ Cur = Newline)
    <3>1. mode = "line comment" /\ Pass(Advance(here), "line comment") /\ ~AtEnd
      BY <1>7, <2>2 DEF LineComment
    <3> QED
      BY <1>3, <3>1, PassKeeps
  <2> QED
    BY <2>1, <2>2
<1>8. CASE OpenBlockComment
  <2>1. Slice(2) = <<"/", "*">>
    BY <1>8 DEF OpenBlockComment
  <2>2. Good(Advance2(here)) /\ here.pos <= Advance2(here).pos
    BY <1>2, <1>4, <2>1
  <2>3. /\ mode = "skip" /\ mode' = "block comment" /\ here' = Advance2(here) /\ opened' = here
        /\ UNCHANGED <<src, from, tokens>> /\ kept' = kept
    BY <1>8 DEF OpenBlockComment
  <2>4. mode' \notin Starting \cup Reading /\ mode' \notin {"done", "error"}
    BY <2>3 DEF Starting, Reading
  <2> QED
    BY <2>2, <2>3, <2>4, Moved
<1>9. CASE BlockComment
  <2>1. CASE AtEnd
    BY <1>9, <2>1, Thrown DEF BlockComment
  <2>2. CASE ~AtEnd /\ Slice(2) = <<"*", "/">>
    <3>1. mode = "block comment" /\ Pass(Advance2(here), "skip")
      BY <1>9, <2>2 DEF BlockComment
    <3>2. Good(Advance2(here)) /\ here.pos <= Advance2(here).pos
      BY <1>2, <1>4, <2>2
    <3> QED
      BY <3>1, <3>2, PassKeeps
  <2>3. CASE ~AtEnd /\ Slice(2) # <<"*", "/">>
    <3>1. mode = "block comment" /\ Pass(Advance(here), "block comment")
      BY <1>9, <2>3 DEF BlockComment
    <3> QED
      BY <1>3, <2>3, <3>1, PassKeeps
  <2> QED
    BY <2>1, <2>2, <2>3
<1>10. CASE StrayClose
  <2>1. mode = "skip" /\ Pass(Advance2(here), "skip") /\ Slice(2) = <<"*", "/">>
    BY <1>10 DEF StrayClose
  <2>2. Good(Advance2(here)) /\ here.pos <= Advance2(here).pos
    BY <1>2, <1>4, <2>1
  <2> QED
    BY <2>1, <2>2, PassKeeps
<1> QED
  BY <1>5, <1>6, <1>7, <1>8, <1>9, <1>10

(* Passing characters inside a token.                                      *)
LEMMA TakeKeeps ==
  ASSUME Inv, mode \in Starting \cup Reading, NEW n \in {1, 2}, NEW m, Take(n, m),
         Ahead(n - 1) # End \/ (n = 1 /\ ~AtEnd), m \in Starting \cup Reading
  PROVE  Inv'
<1>1. Facts
  BY InvFacts
<1>2. Good(here') /\ here'.pos > here.pos
  <2>1. CASE n = 1
    <3>1. Good(Advance(here)) /\ Advance(here).pos = here.pos + 1
      BY <1>1, <2>1, OneAhead DEF Facts, Cur
    <3> QED
      BY <1>1, <2>1, <3>1 DEF Take, Facts
  <2>2. CASE n = 2
    <3>1. Good(Advance2(here)) /\ Advance2(here).pos = here.pos + 2
      BY <1>1, <2>2, TwoAhead DEF Facts
    <3> QED
      BY <1>1, <2>2, <3>1 DEF Take, Facts
  <2> QED
    BY <2>1, <2>2
<1>3. from.pos <= here.pos
  BY DEF Inv, Started
<1>4. here'.pos \in Nat
  BY <1>2 DEF Good, Place
<1>5. from.pos < here'.pos /\ here.pos <= here'.pos
  BY <1>1, <1>2, <1>3, <1>4 DEF Facts
<1>6. /\ UNCHANGED <<src, from, tokens>> /\ opened' = opened /\ kept' = kept /\ mode' = m
      /\ mode # "done" /\ m \notin {"done", "error"}
  BY DEF Take, Starting, Reading
<1> QED
  BY <1>2, <1>5, <1>6, Moved

(* Ending the token that is read.                                          *)
LEMMA PushKeeps ==
  ASSUME Inv, mode \in Starting \cup Reading \/ kept # NoPlace, NEW kind, NEW value, NEW p,
         Push(kind, value, p), Good(p), from.pos < p.pos
  PROVE  Inv'
<1> DEFINE e == [kind |-> kind, value |-> value, place |-> from]
<1>1. Good(from) /\ After(from)
  BY DEF Inv, Held, Started
<1>2. /\ UNCHANGED <<src, from, opened, error>> /\ mode' = "skip" /\ kept' = NoPlace
      /\ tokens' = Append(tokens, e) /\ e.place = from /\ here' = p
  BY DEF Push, PushAt
<1> QED
  BY <1>1, <1>2, Pushed

(* Where a step comes to by one, two or three characters.                  *)
LEMMA Steps ==
  ASSUME Facts
  PROVE  /\ Cur # End \/ ~AtEnd => Good(Advance(here)) /\ here.pos < Advance(here).pos
         /\ Ahead(1) # End => Good(Advance2(here)) /\ here.pos < Advance2(here).pos
         /\ Ahead(2) # End => Good(Advance3(here)) /\ here.pos < Advance3(here).pos
<1>1. ASSUME Cur # End \/ ~AtEnd PROVE Good(Advance(here)) /\ here.pos < Advance(here).pos
  <2>1. Good(Advance(here)) /\ Advance(here).pos = here.pos + 1
    BY <1>1, OneAhead DEF Facts
  <2> QED
    BY <2>1 DEF Facts
<1>2. ASSUME Ahead(1) # End PROVE Good(Advance2(here)) /\ here.pos < Advance2(here).pos
  <2>1. Good(Advance2(here)) /\ Advance2(here).pos = here.pos + 2
    BY <1>2, TwoAhead DEF Facts
  <2> QED
    BY <2>1 DEF Facts
<1>3. ASSUME Ahead(2) # End PROVE Good(Advance3(here)) /\ here.pos < Advance3(here).pos
  <2>1. Good(Advance3(here)) /\ Advance3(here).pos = here.pos + 3
    BY <1>3, ThreeAhead DEF Facts
  <2> QED
    BY <2>1 DEF Facts
<1> QED
  BY <1>1, <1>2, <1>3

LEMMA OperatorSlices ==
  /\ Slice(3) \in Operator3 => Ahead(2) # End
  /\ Slice(2) \in Operator2 => Ahead(1) # End
<1>1. ASSUME Slice(3) \in Operator3 PROVE Ahead(2) # End
  <2>1. \A a, b, c : <<a, b, c>> \in Operator3 => c # End
    BY DEF Operator3, End
  <2>2. Slice(3) = <<Ahead(0), Ahead(1), Ahead(2)>>
    BY DEF Slice
  <2> QED
    BY <1>1, <2>1, <2>2
<1>2. ASSUME Slice(2) \in Operator2 PROVE Ahead(1) # End
  <2>1. \A a, b : <<a, b>> \in Operator2 => b # End
    BY DEF Operator2, End
  <2>2. Slice(2) = <<Ahead(0), Ahead(1)>>
    BY DEF Slice
  <2> QED
    BY <1>2, <2>1, <2>2
<1> QED
  BY <1>1, <1>2

LEMMA BeginKeeps ==
  ASSUME Inv, BeginDirective \/ BeginWord \/ BeginChar \/ BeginString \/ BeginNumber
  PROVE  Inv'
<1>1. Facts
  BY InvFacts
<1>2. /\ Cur # End \/ ~AtEnd => Good(Advance(here)) /\ here.pos < Advance(here).pos
      /\ Ahead(1) # End => Good(Advance2(here)) /\ here.pos < Advance2(here).pos
  BY <1>1, Steps
<1>3. Good(here)
  BY <1>1 DEF Facts
<1>4. CASE BeginDirective
  <2>1. Ready /\ kept = NoPlace /\ Cur # End /\ Begin(<<"#">>, Advance(here), "directive")
    BY <1>4, EndIsNoCharacter DEF BeginDirective, Fresh
  <2>2. "directive" \in Reading /\ "directive" \notin Starting
    BY DEF Reading, Starting
  <2> QED
    BY <1>2, <2>1, <2>2, Begun
<1>5. CASE BeginWord
  <2>1. Ready /\ kept = NoPlace /\ Cur \in Letter /\ Begin(<< >>, here, "word")
    BY <1>5 DEF BeginWord, Fresh
  <2>2. "word" \in Starting /\ "word" \notin Reading
    BY DEF Reading, Starting
  <2> QED
    BY <1>3, <2>1, <2>2, Begun
<1>6. CASE BeginChar
  <2>1. Ready /\ kept = NoPlace /\ Cur # End /\ Begin(<< >>, Advance(here), "char")
    BY <1>6, EndIsNoCharacter DEF BeginChar, Fresh
  <2>2. "char" \in Reading /\ "char" \notin Starting
    BY DEF Reading, Starting
  <2> QED
    BY <1>2, <2>1, <2>2, Begun
<1>7. CASE BeginString
  <2>1. Ready /\ kept = NoPlace /\ Cur # End /\ Begin(<< >>, Advance(here), "string")
    BY <1>7, EndIsNoCharacter DEF BeginString, Fresh
  <2>2. "string" \in Reading /\ "string" \notin Starting
    BY DEF Reading, Starting
  <2> QED
    BY <1>2, <2>1, <2>2, Begun
<1>8. CASE BeginNumber
  <2>1. CASE Slice(2) \in {<<"0", "x">>, <<"0", "X">>}
    <3>1. Ready /\ kept = NoPlace /\ Begin(Slice(2), Advance2(here), "hex")
      BY <1>8, <2>1 DEF BeginNumber, Fresh
    <3>2. Ahead(1) # End
      <4>1. Slice(2) = <<"0", "x">> \/ Slice(2) = <<"0", "X">>
        BY <2>1
      <4>2. Ahead(1) = "x" \/ Ahead(1) = "X"
        BY <4>1, SliceTwo
      <4> QED
        BY <4>2 DEF End
    <3>3. "hex" \in Reading /\ "hex" \notin Starting
      BY DEF Reading, Starting
    <3> QED
      BY <1>2, <3>1, <3>2, <3>3, Begun
  <2>2. CASE Slice(2) \notin {<<"0", "x">>, <<"0", "X">>}
    <3>1. Ready /\ kept = NoPlace /\ Cur \in Digit /\ Begin(<< >>, here, "whole")
      BY <1>8, <2>2 DEF BeginNumber, Fresh
    <3>2. "whole" \in Starting /\ "whole" \notin Reading
      BY DEF Reading, Starting
    <3> QED
      BY <1>3, <3>1, <3>2, Begun
  <2> QED
    BY <2>1, <2>2
<1> QED
  BY <1>4, <1>5, <1>6, <1>7, <1>8

(* An operator, or a character that begins nothing.                        *)
LEMMA PushHere ==
  ASSUME Inv, mode # "done", NEW kind, NEW value, NEW p, PushAt(kind, value, here, p),
         Good(p), here.pos < p.pos
  PROVE  Inv'
<1> DEFINE e == [kind |-> kind, value |-> value, place |-> here]
<1>1. Good(here) /\ After(here)
  BY DEF Inv, Held, Started
<1>2. /\ UNCHANGED <<src, from, opened, error>> /\ mode' = "skip" /\ kept' = NoPlace
      /\ tokens' = Append(tokens, e) /\ e.place = here /\ here' = p
  BY DEF PushAt
<1> QED
  BY <1>1, <1>2, Pushed

LEMMA OperatorKeeps ==
  ASSUME Inv, Operator
  PROVE  Inv'
<1>1. /\ Cur # End \/ ~AtEnd => Good(Advance(here)) /\ here.pos < Advance(here).pos
      /\ Ahead(1) # End => Good(Advance2(here)) /\ here.pos < Advance2(here).pos
      /\ Ahead(2) # End => Good(Advance3(here)) /\ here.pos < Advance3(here).pos
  BY InvFacts, Steps
<1>2. mode # "done" /\ ~AtEnd
  BY DEF Operator, Fresh, Ready
<1>3. CASE Slice(3) \in Operator3
  <2>1. PushAt(Text(Slice(3)), Slice(3), here, Advance3(here))
    BY <1>3 DEF Operator
  <2> QED
    BY <1>1, <1>2, <1>3, <2>1, OperatorSlices, PushHere
<1>4. CASE Slice(3) \notin Operator3 /\ Slice(2) \in Operator2
  <2>1. PushAt(Text(Slice(2)), Slice(2), here, Advance2(here))
    BY <1>4 DEF Operator
  <2> QED
    BY <1>1, <1>2, <1>4, <2>1, OperatorSlices, PushHere
<1>5. CASE Slice(3) \notin Operator3 /\ Slice(2) \notin Operator2
  <2>1. PushAt(IF Cur \in Operator1 THEN Cur ELSE "Unknown", Slice(1), here, Advance(here))
    BY <1>5 DEF Operator
  <2> QED
    BY <1>1, <1>2, <2>1, PushHere
<1> QED
  BY <1>3, <1>4, <1>5

LEMMA FinishKeeps ==
  ASSUME Inv, Finish
  PROVE  Inv'
<1> DEFINE e == [kind |-> "Eof", value |-> << >>, place |-> here]
<1>1. /\ UNCHANGED <<src, here, from, opened, kept, error>> /\ mode' = "done" /\ kept = NoPlace
      /\ tokens' = Append(tokens, e) /\ e.place = here /\ mode = "skip"
  BY DEF Finish, Fresh, Ready
<1>2. SourceOK'
  BY <1>1 DEF Inv, SourceOK
<1>3. Held'
  BY <1>1 DEF Inv, Held, Good, Right
<1>4. Listed'
  <2>1. Good(here) /\ After(here)
    BY <1>1 DEF Inv, Held, Started
  <2> QED
    BY <1>1, <2>1, ListedAppend DEF Inv
<1>5. Started'
  BY <1>1 DEF Started, Starting, Reading
<1> QED
  BY <1>2, <1>3, <1>4, <1>5 DEF Inv

-----------------------------------------------------------------------------
(* Words and numbers.                                                      *)
LEMMA Within ==
  ASSUME Inv, mode \in Starting \cup Reading
  PROVE  /\ Good(here) /\ from.pos <= here.pos /\ mode # "done"
         /\ mode \in Reading => from.pos < here.pos
         /\ mode = "word" /\ Cur \notin Letter => from.pos < here.pos
         /\ mode = "whole" /\ Cur \notin Digit => from.pos < here.pos
<1>1. from.pos \in Nat /\ here.pos \in Nat
  BY InvFacts DEF Facts
<1>2. from.pos <= here.pos /\ Good(here)
  BY DEF Inv, Started, Held
<1>3. mode # "done"
  BY DEF Starting, Reading
<1>4. from.pos # here.pos => from.pos < here.pos
  BY <1>1, <1>2
<1> QED
  BY <1>2, <1>3, <1>4 DEF Inv, Started

LEMMA WordKeeps ==
  ASSUME Inv, Word
  PROVE  Inv'
<1>1. mode = "word" /\ mode \in Starting /\ "word" \in Starting
  BY DEF Word, Starting
<1>2. CASE Cur \in Letter \cup Digit
  <2>1. Ahead(1 - 1) = Cur
    BY DEF Cur
  <2>2. Take(1, "word") /\ Ahead(1 - 1) # End
    BY <1>1, <1>2, <2>1, EndIsNoCharacter DEF Word
  <2> QED
    BY <1>1, <2>2, TakeKeeps
<1>3. CASE Cur \notin Letter \cup Digit
  <2>1. Push(IF Text(text) \in Keyword THEN Text(text) ELSE "Identifier", text, here)
    BY <1>1, <1>3 DEF Word
  <2>2. Good(here) /\ from.pos < here.pos
    BY <1>1, <1>3, Within
  <2> QED
    BY <1>1, <2>1, <2>2, PushKeeps
<1> QED
  BY <1>2, <1>3

(* The digits end, and the suffixes begin.                                 *)
LEMMA SuffixBegins ==
  ASSUME Inv, mode \in Starting \cup Reading, from.pos < here.pos, Pass(here, "suffix")
  PROVE  Inv'
<1>1. Good(here) /\ here.pos <= here.pos /\ mode # "done"
  BY Within, InvFacts DEF Facts
<1>2. /\ UNCHANGED <<src, from, tokens>> /\ opened' = opened /\ kept' = kept /\ mode' = "suffix" /\ here' = here
      /\ mode' \notin {"done", "error"}
  BY DEF Pass, Go
<1> QED
  BY <1>1, <1>2, Moved

LEMMA NumberKeeps ==
  ASSUME Inv, Hex \/ Number \/ Point \/ Exponent \/ FloatSuffix \/ Suffix
  PROVE  Inv'
<1>1. /\ {"whole", "hex", "fraction", "power", "suffix"} \subseteq Starting \cup Reading
      /\ {"hex", "fraction", "power", "suffix"} \subseteq Reading
  BY DEF Starting, Reading
<1>2. Ahead(1 - 1) = Cur /\ Ahead(2 - 1) = Ahead(1)
  BY DEF Cur
<1>3. CASE Hex
  <2>1. mode = "hex"
    BY <1>3 DEF Hex
  <2>2. CASE Cur \in HexDigit
    <3>1. Take(1, "hex") /\ Ahead(1 - 1) # End
      BY <1>2, <1>3, <2>1, <2>2, EndIsNoCharacter DEF Hex
    <3> QED
      BY <1>1, <2>1, <3>1, TakeKeeps
  <2>3. CASE Cur \notin HexDigit
    <3>1. Pass(here, "suffix")
      BY <1>3, <2>3 DEF Hex
    <3> QED
      BY <1>1, <2>1, <3>1, Within, SuffixBegins
  <2> QED
    BY <2>2, <2>3
<1>4. CASE Number
  <2>1. mode \in Starting \cup Reading /\ Take(1, mode) /\ Ahead(1 - 1) # End
    BY <1>1, <1>2, <1>4, EndIsNoCharacter DEF Number
  <2> QED
    BY <2>1, TakeKeeps
<1>5. CASE Point
  <2>1. mode = "whole" /\ Take(1, "fraction") /\ Ahead(1 - 1) # End
    BY <1>2, <1>5, EndIsNoCharacter DEF Point, AtPoint
  <2> QED
    BY <1>1, <2>1, TakeKeeps
<1>6. CASE Exponent
  <2>1. mode \in {"whole", "fraction"} /\ Ahead(1 - 1) # End
    BY <1>2, <1>6, EndIsNoCharacter DEF Exponent, AtExponent
  <2>2. CASE Ahead(1) \in {"+", "-"}
    <3>1. Take(2, "power") /\ Ahead(2 - 1) # End
      BY <1>2, <1>6, <2>2, EndIsNoCharacter DEF Exponent
    <3> QED
      BY <1>1, <2>1, <3>1, TakeKeeps
  <2>3. CASE Ahead(1) \notin {"+", "-"}
    <3>1. Take(1, "power")
      BY <1>6, <2>3 DEF Exponent
    <3> QED
      BY <1>1, <2>1, <3>1, TakeKeeps
  <2> QED
    BY <2>2, <2>3
<1>7. CASE FloatSuffix
  <2>1. mode \in {"whole", "fraction", "power"} /\ Cur \notin Digit
    BY <1>7 DEF FloatSuffix
  <2>2. mode \in Starting \cup Reading /\ Good(here) /\ from.pos < here.pos
    BY <1>1, <2>1, Within
  <2>3. CASE Cur \in {"f", "F"} \/ (Cur \in {"l", "L"} /\ mode # "whole")
    <3>1. Push("FloatLiteral", Append(text, Cur), Advance(here))
      BY <1>7, <2>3 DEF FloatSuffix
    <3>2. Good(Advance(here)) /\ here.pos < Advance(here).pos
      <4>1. Cur # End
        BY <2>3 DEF End
      <4> QED
        BY <4>1, InvFacts, Steps
    <3>3. from.pos < Advance(here).pos
      BY <2>2, <3>2, InvFacts DEF Facts, Good, Place
    <3> QED
      BY <2>2, <3>1, <3>2, <3>3, PushKeeps
  <2>4. CASE ~(Cur \in {"f", "F"} \/ (Cur \in {"l", "L"} /\ mode # "whole"))
    <3>1. CASE mode # "whole"
      <4>1. Push("FloatLiteral", text, here)
        BY <1>7, <2>4, <3>1 DEF FloatSuffix
      <4> QED
        BY <2>2, <4>1, PushKeeps
    <3>2. CASE mode = "whole"
      <4>1. Pass(here, "suffix")
        BY <1>7, <2>4, <3>2 DEF FloatSuffix
      <4> QED
        BY <2>2, <4>1, SuffixBegins
    <3> QED
      BY <3>1, <3>2
  <2> QED
    BY <2>3, <2>4
<1>8. CASE Suffix
  <2>1. mode = "suffix" /\ mode \in Starting \cup Reading
    BY <1>1, <1>8 DEF Suffix
  <2>2. Good(here) /\ from.pos < here.pos
    BY <1>1, <2>1, Within
  <2>3. CASE Cur \in {"u", "U", "l", "L"}
    <3>1. Take(1, "suffix") /\ Ahead(1 - 1) # End
      BY <1>2, <1>8, <2>1, <2>3 DEF Suffix, End
    <3> QED
      BY <1>1, <2>1, <3>1, TakeKeeps
  <2>4. CASE Cur \notin {"u", "U", "l", "L"}
    <3> DEFINE p == IF Cur \notin {"i", "I"} \/ Ahead(1) \notin {"6", "3", "1", "8"} THEN here
                    ELSE IF Ahead(2) \in Digit THEN Advance3(here) ELSE Advance2(here)
    <3>1. Push("IntegerLiteral", text, p)
      BY <1>8, <2>4 DEF Suffix
    <3>2. Good(p) /\ here.pos <= p.pos
      <4>1. Facts
        BY InvFacts
      <4>2. CASE Cur \notin {"i", "I"} \/ Ahead(1) \notin {"6", "3", "1", "8"}
        BY <2>2, <4>1, <4>2 DEF Facts
      <4>3. CASE ~(Cur \notin {"i", "I"} \/ Ahead(1) \notin {"6", "3", "1", "8"})
        <5>1. Ahead(1) # End
          BY <4>3 DEF End
        <5>2. Good(Advance2(here)) /\ here.pos < Advance2(here).pos
          BY <4>1, <5>1, Steps
        <5>3. CASE Ahead(2) \in Digit
          <6>1. Good(Advance3(here)) /\ here.pos < Advance3(here).pos
            BY <4>1, <5>3, Steps, EndIsNoCharacter
          <6> QED
            BY <4>1, <4>3, <5>3, <6>1 DEF Facts, Good, Place
        <5>4. CASE Ahead(2) \notin Digit
          BY <4>1, <4>3, <5>2, <5>4 DEF Facts, Good, Place
        <5> QED
          BY <5>3, <5>4
      <4> QED
        BY <4>2, <4>3
    <3>3. from.pos < p.pos
      BY <2>2, <3>2, InvFacts DEF Facts, Good, Place
    <3> HIDE DEF p
    <3> QED
      BY <2>1, <3>1, <3>2, <3>3, PushKeeps
  <2> QED
    BY <2>3, <2>4
<1> QED
  BY <1>3, <1>4, <1>5, <1>6, <1>7, <1>8

-----------------------------------------------------------------------------
(* Strings: the place to return to lies behind the string's start, so that *)
(* the token ends behind it whatever has been skipped since.               *)
LEMMA EscapeKeeps ==
  ASSUME Inv, mode \in Starting \cup Reading, ~AtEnd, NEW m \in Starting \cup Reading,
         Take(IF Cur = "\\" /\ Ahead(1) # End THEN 2 ELSE 1, m)
  PROVE  Inv'
<1>1. CASE Cur = "\\" /\ Ahead(1) # End
  <2>1. Take(2, m) /\ Ahead(2 - 1) # End
    BY <1>1
  <2> QED
    BY <2>1, TakeKeeps
<1>2. CASE ~(Cur = "\\" /\ Ahead(1) # End)
  <2>1. Take(1, m)
    BY <1>2
  <2> QED
    BY <2>1, TakeKeeps
<1> QED
  BY <1>1, <1>2

LEMMA StringCloses ==
  ASSUME Inv, mode = "string", ~AtEnd, here' = Advance(here), kept' = here', mode' = "skip",
         UNCHANGED <<src, from, opened, tokens, error>>
  PROVE  Inv'
<1>1. mode \in Reading /\ mode \in Starting \cup Reading
  BY DEF Starting, Reading
<1>2. /\ here' = Advance(here) /\ kept' = here' /\ mode' = "skip"
      /\ src' = src /\ from' = from /\ opened' = opened /\ tokens' = tokens
  OBVIOUS
<1>3. Good(here') /\ here.pos < here'.pos
  BY <1>2, InvFacts, Steps
<1>4. here.pos \in Nat /\ here'.pos \in Nat /\ from.pos \in Nat /\ from.pos < here.pos
  BY <1>1, <1>3, InvFacts, Within DEF Facts, Good, Place
<1>5. SourceOK'
  BY <1>2 DEF Inv, SourceOK
<1>6. Held'
  BY <1>2, <1>3 DEF Inv, Held, Good, Right
<1>7. Listed'
  BY <1>2 DEF Inv, Listed, Good, Right
<1>8. After(here)' /\ After(from)'
  <2>1. \A i \in 1..Len(tokens) : tokens[i].place.pos \in Nat /\ tokens[i].place.pos < from.pos
    BY <1>1 DEF Inv, Listed, Started, After, Good, Place
  <2>2. \A i \in 1..Len(tokens) : tokens[i].place.pos < here'.pos
    BY <1>3, <1>4, <2>1
  <2> QED
    BY <1>2, <2>1, <2>2 DEF After
<1>9. Started'
  <2>1. from.pos < here'.pos /\ from.pos <= here'.pos
    BY <1>3, <1>4
  <2> QED
    BY <1>2, <1>8, <2>1 DEF Started, Starting, Reading
<1> QED
  BY <1>5, <1>6, <1>7, <1>9 DEF Inv

LEMMA StringKeeps ==
  ASSUME Inv, String \/ JoinString \/ EndString
  PROVE  Inv'
<1>1. CASE String
  <2>1. mode = "string" /\ mode # "done" /\ mode \in Starting \cup Reading /\ "string" \in Starting \cup Reading
    BY <1>1 DEF String, Starting, Reading
  <2>2. CASE AtEnd \/ Cur = Newline
    BY <1>1, <2>1, <2>2, Thrown DEF String
  <2>3. CASE ~(AtEnd \/ Cur = Newline) /\ Cur = "\""
    <3>1. /\ mode = "string" /\ ~AtEnd /\ here' = Advance(here) /\ kept' = here' /\ mode' = "skip"
          /\ UNCHANGED <<src, from, opened, tokens, error>>
      BY <1>1, <2>1, <2>3 DEF String
    <3> QED
      BY <3>1, StringCloses
  <2>4. CASE ~(AtEnd \/ Cur = Newline) /\ Cur # "\""
    <3>1. Take(IF Cur = "\\" /\ Ahead(1) # End THEN 2 ELSE 1, "string") /\ ~AtEnd
      BY <1>1, <2>1, <2>4 DEF String
    <3> QED
      BY <2>1, <3>1, EscapeKeeps
  <2> QED
    BY <2>2, <2>3, <2>4
<1>2. CASE JoinString
  <2>1. /\ kept # NoPlace /\ mode = "skip" /\ Cur # End /\ here' = Advance(here) /\ opened' = here
        /\ mode' = "string" /\ kept' = NoPlace /\ UNCHANGED <<src, from, tokens>>
    BY <1>2, EndIsNoCharacter DEF JoinString, Ready
  <2>2. Good(here') /\ here.pos < here'.pos
    BY <2>1, InvFacts, Steps
  <2>3. from.pos <= here.pos
    BY <2>1 DEF Inv, Started
  <2>4. from.pos < here'.pos /\ here.pos <= here'.pos
    BY <2>2, <2>3, InvFacts DEF Facts, Good, Place
  <2> QED
    BY <2>1, <2>2, <2>4, Moved
<1>3. CASE EndString
  <2>1. kept # NoPlace /\ Push("StringLiteral", text, kept)
    BY <1>3 DEF EndString
  <2>2. Good(kept) /\ from.pos < kept.pos
    BY <2>1 DEF Inv, Held, Started
  <2> QED
    BY <2>1, <2>2, PushKeeps
<1> QED
  BY <1>1, <1>2, <1>3

LEMMA CharKeeps ==
  ASSUME Inv, Char \/ CloseChar
  PROVE  Inv'
<1>1. {"char", "close"} \subseteq Reading
  BY DEF Reading
<1>2. CASE Char
  <2>1. mode = "char" /\ mode \in Starting \cup Reading /\ mode # "done"
    BY <1>1, <1>2 DEF Char
  <2>2. Good(here) /\ here.pos <= here.pos /\ from.pos < here.pos
    BY <1>1, <2>1, Within, InvFacts DEF Facts
  <2>3. CASE AtEnd \/ Cur = "'"
    <3>1. /\ UNCHANGED <<src, from, tokens>> /\ opened' = opened /\ kept' = kept /\ mode' = "close" /\ here' = here
      BY <1>2, <2>3 DEF Char, Pass, Go
    <3> QED
      BY <2>1, <2>2, <3>1, Moved
  <2>4. CASE ~(AtEnd \/ Cur = "'")
    <3>1. Take(IF Cur = "\\" /\ Ahead(1) # End THEN 2 ELSE 1, "close") /\ ~AtEnd
      BY <1>2, <2>4 DEF Char
    <3> QED
      BY <1>1, <2>1, <3>1, EscapeKeeps
  <2> QED
    BY <2>3, <2>4
<1>3. CASE CloseChar
  <2>1. mode = "close" /\ mode \in Starting \cup Reading /\ mode # "done"
    BY <1>1, <1>3 DEF CloseChar
  <2>2. CASE Cur = "'"
    <3>1. Push("CharLiteral", text, Advance(here)) /\ Cur # End
      BY <1>3, <2>2, EndIsNoCharacter DEF CloseChar
    <3>2. Good(Advance(here)) /\ here.pos < Advance(here).pos
      BY <3>1, InvFacts, Steps
    <3>3. from.pos < Advance(here).pos
      BY <2>1, <3>2, Within, InvFacts DEF Facts, Good, Place
    <3> QED
      BY <2>1, <3>1, <3>2, <3>3, PushKeeps
  <2>3. CASE Cur # "'"
    BY <1>3, <2>1, <2>3, Thrown DEF CloseChar
  <2> QED
    BY <2>2, <2>3
<1> QED
  BY <1>2, <1>3

LEMMA DirectiveKeeps ==
  ASSUME Inv, Directive
  PROVE  Inv'
<1>1. mode = "directive" /\ mode \in Reading /\ Newline # End
  BY DEF Directive, Reading, Newline, End
<1>2. CASE AtEnd \/ Cur = Newline
  <2>1. Push("Preprocessor", Trimmed(text), here)
    BY <1>2 DEF Directive
  <2>2. Good(here) /\ from.pos < here.pos
    BY <1>1, Within
  <2> QED
    BY <1>1, <2>1, <2>2, PushKeeps
<1>3. CASE ~(AtEnd \/ Cur = Newline)
  <2>1. CASE Slice(2) = <<"\\", Newline>>
    <3>1. Ahead(2 - 1) # End
      <4>1. Ahead(1) = Newline
        BY <2>1, SliceTwo
      <4>2. Ahead(2 - 1) = Ahead(1)
        OBVIOUS
      <4> QED
        BY <1>1, <4>1, <4>2
    <3>2. Take(2, "directive")
      BY <1>1, <1>3, <2>1 DEF Directive
    <3> QED
      BY <1>1, <3>1, <3>2, TakeKeeps
  <2>2. CASE Slice(2) # <<"\\", Newline>>
    <3>1. Take(1, "directive") /\ ~AtEnd
      BY <1>1, <1>3, <2>2 DEF Directive
    <3> QED
      BY <1>1, <3>1, TakeKeeps
  <2> QED
    BY <2>1, <2>2
<1> QED
  BY <1>2, <1>3

-----------------------------------------------------------------------------
LEMMA InitInv == Init => Inv
<1> SUFFICES ASSUME Init PROVE Inv
  OBVIOUS
<1>1. SourceOK
  BY SourcesAssumption DEF Init, SourceOK
<1>2. here = [pos |-> 1, line |-> 1, col |-> 1] /\ from = here /\ opened = here /\ kept = NoPlace
      /\ mode = "skip" /\ tokens = << >>
  BY DEF Init
<1>3. Good(here)
  <2>1. here \in Place /\ here.pos = 1 /\ here.line = 1 /\ here.col = 1
    BY <1>2 DEF Place
  <2>2. Ends(1) = {} /\ Cardinality(Ends(1)) = 0
    <3>1. Ends(1) = {}
      BY DEF Ends
    <3> QED
      BY <3>1, FS_EmptySet
  <2>3. Len(src) \in Nat
    BY <1>1 DEF SourceOK
  <2> QED
    BY <2>1, <2>2, <2>3 DEF Good, Right, Ends
<1>4. Held
  BY <1>2, <1>3 DEF Held
<1>5. Len(tokens) = 0 /\ tokens \in Seq(ToSet(tokens))
  BY <1>2, EmptySeq
<1>6. Listed
  BY <1>5 DEF Listed
<1>7. Started
  BY <1>2, <1>5 DEF Started, After, Starting, Reading
<1> QED
  BY <1>1, <1>4, <1>6, <1>7 DEF Inv

LEMMA NextInv == Inv /\ [Next]_lexvars => Inv'
<1> SUFFICES ASSUME Inv, [Next]_lexvars PROVE Inv'
  OBVIOUS
<1>1. CASE Next
  BY <1>1, SkipKeeps, FinishKeeps, BeginKeeps, OperatorKeeps, WordKeeps, NumberKeeps, StringKeeps,
     CharKeeps, DirectiveKeeps DEF Next
<1>2. CASE UNCHANGED lexvars
  <2>1. UNCHANGED <<src, here, from, opened, kept, tokens, mode, error>>
    BY <1>2 DEF lexvars
  <2>2. SourceOK'
    BY <2>1 DEF Inv, SourceOK
  <2>3. Held'
    BY <2>1 DEF Inv, Held, Good, Right
  <2>4. Listed'
    BY <2>1 DEF Inv, Listed, Good, Right
  <2>5. Started'
    BY <1>2, SMTT(60) DEF lexvars, Inv, Started, After, Cur, Ahead
  <2> QED
    BY <2>2, <2>3, <2>4, <2>5 DEF Inv
<1> QED
  BY <1>1, <1>2

(* Every token, and a LexerError, names the line and column of its first   *)
(* character, and the tokens are in the order of the text: for every set   *)
(* of sources.                                                             *)
THEOREM PlacesRight == Spec => []PositionsRight
<1>1. Inv => PositionsRight
  <2> SUFFICES ASSUME Inv PROVE PositionsRight
    OBVIOUS
  <2>1. DOMAIN tokens = 1..Len(tokens)
    BY LenProperties DEF Inv, Listed
  <2> QED
    BY <2>1 DEF Inv, Held, Listed, PositionsRight, Good
<1> QED
  BY <1>1, InitInv, NextInv, PTL DEF Spec
===============================================================================
