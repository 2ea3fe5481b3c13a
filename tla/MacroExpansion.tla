--------------------------- MODULE MacroExpansion ---------------------------
(***************************************************************************)
(* Preprocessor::expand_macros (src/src/preprocessor.cpp): the expansion   *)
(* of the macros in one line.  Texts, names and parameters are sequences   *)
(* of characters, as in the code, for it works on them character by        *)
(* character: a parameter is found by searching the body, and what two     *)
(* pieces make when they meet is read again.                               *)
(*                                                                         *)
(* expand_macros calls itself on the body of every macro it replaces; a    *)
(* call is a frame, and the set expanding that all calls share keeps a     *)
(* macro from being replaced in its own expansion.                         *)
(***************************************************************************)
EXTENDS Integers, FiniteSets, SequencesExt

CONSTANTS Letter, Digit      \* the characters of identifiers: isalpha or '_', isdigit

VARIABLES table,       \* macros_: name -> MacroDefinition
          frames,      \* the text, the position and the result of each call, the innermost last
          names,       \* the macro each inner call is for: id in its caller
          expanding    \* the set of the same name

mvars == <<table, frames, names, expanding>>

Definition(isFunction, parameters, body) ==
  [function |-> isFunction, parameters |-> parameters, body |-> body]

-----------------------------------------------------------------------------
(* Places in a text; size() is the place behind it.                        *)
IsIdentChar(c) == c \in Letter \cup Digit
PastEnd(text) == Len(text) + 1
EndOfIdentifier(text, from) ==
  Min({i \in from..Len(text) : ~IsIdentChar(text[i])} \cup {PastEnd(text)})
EndOfBlanks(text, from) == Min({i \in from..Len(text) : text[i] # " "} \cup {PastEnd(text)})

(* find_string_end and find_char_end: behind the closing quote.  A         *)
(* backslash takes the next character along.                               *)
EndOfQuoted(text, start) ==
  LET end[i \in Nat] ==
        IF i > Len(text) THEN PastEnd(text)
        ELSE IF text[i] = "\\" THEN end[i + 2]
        ELSE IF text[i] = text[start] THEN i + 1
        ELSE end[i + 1]
  IN  end[start + 1]

Trim(text) ==
  LET solid == {i \in DOMAIN text : text[i] \notin {" ", "\t"}}
  IN  IF solid = {} THEN << >> ELSE SubSeq(text, Min(solid), Max(solid))

(* text.find and result.replace.                                           *)
Occurs(word, text, at) == SubSeq(text, at, at + Len(word) - 1) = word
Found(word, text) == {at \in 1..(Len(text) - Len(word) + 1) : Occurs(word, text, at)}
Replace(text, word, by) ==     \* the first one
  LET at == Min(Found(word, text))
  IN  IF Found(word, text) = {} THEN text
      ELSE SubSeq(text, 1, at - 1) \o by \o SubSeq(text, at + Len(word), Len(text))
(* "while found, replace the first".  It does not end when by brings word  *)
(* back: F(x##) with the body x## is such a call.                          *)
ReplaceWhileFound(text, word, by) ==
  LET replaced[t \in Seq(STRING)] ==
        IF Found(word, t) = {} THEN t ELSE replaced[Replace(t, word, by)]
  IN  replaced[text]

(* replace_whole_word: word where no identifier goes on beside it.         *)
IsWholeLeft(text, word, at) ==      \* a variant that looks to the left only
  Occurs(word, text, at) /\ (at > 1 => ~IsIdentChar(text[at - 1]))
IsWhole(text, word, at) ==
  /\ Occurs(word, text, at)
  /\ at > 1 => ~IsIdentChar(text[at - 1])
  /\ at + Len(word) <= Len(text) => ~IsIdentChar(text[at + Len(word)])
ReplaceWholeWord(text, word, by) ==
  LET rest[t \in Seq(STRING), i \in Nat] ==
        IF i > Len(t) THEN << >>
        ELSE IF IsWhole(t, word, i) THEN by \o rest[t, i + Len(word)]
        ELSE <<t[i]>> \o rest[t, i + 1]
  IN  IF word = << >> THEN text ELSE rest[text, 1]

-----------------------------------------------------------------------------
(* parse_macro_arguments: the arguments behind the parenthesis at open,    *)
(* and the place behind the closing one, or the end of the text.  They are *)
(* cut at the commas outside all brackets; quotes are not looked at.       *)
Cuts(text, open) ==
  LET cut[i \in Nat, depth \in Int, cuts \in Seq(Nat)] ==
        IF i > Len(text) \/ (text[i] = ")" /\ depth = 0) THEN Append(cuts, i)
        ELSE CASE text[i] = "," /\ depth = 0 -> cut[i + 1, depth, Append(cuts, i)]
               [] text[i] \in {"(", "[", "{"} -> cut[i + 1, depth + 1, cuts]
               [] text[i] \in {")", "]", "}"} -> cut[i + 1, depth - 1, cuts]
               [] OTHER -> cut[i + 1, depth, cuts]
  IN  cut[open + 1, 0, <<open>>]
Between(text, cuts) == [n \in 1..(Len(cuts) - 1) |-> SubSeq(text, cuts[n] + 1, cuts[n + 1] - 1)]
Arguments(text, open) == Between(text, Cuts(text, open))
AfterClose(text, open) == Min({Last(Cuts(text, open)) + 1, PastEnd(text)})

(* expand_function_macro: one parameter after the other, so a parameter's  *)
(* name in an earlier argument is replaced too.  Of each, the first "#p"   *)
(* becomes a string, then "p##" and "##p", then p.                         *)
Characters == Seq(STRING)
Paste == <<"#", "#">>
Substitute[text \in Characters, p \in Characters, arg \in Characters] ==
  LET stringized == Replace(text, <<"#">> \o p, <<"\"">> \o arg \o <<"\"">>)
      pasted == ReplaceWhileFound(ReplaceWhileFound(stringized, p \o Paste, arg), Paste \o p, arg)
  IN  ReplaceWholeWord(pasted, p, arg)

VaArgs == <<"__VA_ARGS__">>      \* stands for its letters: one of Letter
Joined(args) == FlattenSeq([i \in DOMAIN args |-> IF i = 1 THEN args[i] ELSE <<",", " ">> \o args[i]])
ExpandFunctionMacro[parameters \in Seq(Characters), body \in Characters, args \in Seq(Characters)] ==
  LET given == Min({Len(parameters), Len(args)})
      named == FoldLeft(LAMBDA text, i : Substitute[text, parameters[i], Trim(args[i])],
                        body, [i \in 1..given |-> i])
      variadic == parameters # << >> /\ Last(parameters) = VaArgs /\ Len(args) >= Len(parameters)
      rest == Joined(SubSeq(args, Len(parameters), Len(args)))
  IN  ReplaceWhileFound(IF variadic THEN ReplaceWholeWord(named, VaArgs, rest) ELSE named,
                        Paste, << >>)
BodyWith(m, args) == ExpandFunctionMacro[m.parameters, m.body, args]

-----------------------------------------------------------------------------
(* The calls.                                                              *)
Reading(text, at, result) == [text |-> text, at |-> at, result |-> result]
Inner == frames[Len(frames)]
Callers == SubSeq(frames, 1, Len(frames) - 1)
Reads == frames # << >> /\ Inner.at <= Len(Inner.text)
Char == Inner.text[Inner.at]
Put(piece, at) == frames' = Append(Callers, Reading(Inner.text, at, Inner.result \o piece))

Idle == frames = << >>
Finished == Len(frames) = 1 /\ ~Reads

Quoted == Char \in {"\"", "'"}
Starts == Char \in Letter
IdEnd == EndOfIdentifier(Inner.text, Inner.at)
Id == SubSeq(Inner.text, Inner.at, IdEnd - 1)
Parenthesis == EndOfBlanks(Inner.text, IdEnd)
Called == Parenthesis <= Len(Inner.text) /\ Inner.text[Parenthesis] = "("
Replaced == Id \in DOMAIN table \ expanding /\ (table[Id].function => Called)

CopyQuoted ==
  /\ Reads /\ Quoted
  /\ LET end == EndOfQuoted(Inner.text, Inner.at)
     IN  Put(SubSeq(Inner.text, Inner.at, end - 1), end)
  /\ UNCHANGED <<table, names, expanding>>

CopyIdentifier ==
  /\ Reads /\ Starts /\ ~Replaced
  /\ Put(Id, IdEnd)
  /\ UNCHANGED <<table, names, expanding>>

CopyOther ==
  /\ Reads /\ ~Quoted /\ ~Starts
  /\ Put(<<Char>>, Inner.at + 1)
  /\ UNCHANGED <<table, names, expanding>>

(* A replacement: expand_macros is called on text and goes on behind at.   *)
Call(text, at) ==
  /\ frames' = Callers \o <<Reading(Inner.text, at, Inner.result), Reading(text, 1, << >>)>>
  /\ names' = Append(names, Id)
  /\ expanding' = expanding \cup {Id}
  /\ UNCHANGED table

ReplaceObject ==
  /\ Reads /\ Starts /\ Replaced /\ ~table[Id].function
  /\ Call(table[Id].body, IdEnd)

ReplaceFunction ==
  /\ Reads /\ Starts /\ Replaced /\ table[Id].function
  /\ Call(BodyWith(table[Id], Arguments(Inner.text, Parenthesis)),
          AfterClose(Inner.text, Parenthesis))

(* An inner call returns: its macro may be replaced again.                 *)
Return ==
  /\ names # << >> /\ ~Reads
  /\ frames' = LET caller == frames[Len(frames) - 1]
               IN  Append(SubSeq(frames, 1, Len(frames) - 2),
                          Reading(caller.text, caller.at, caller.result \o Inner.result))
  /\ names' = SubSeq(names, 1, Len(names) - 1)
  /\ expanding' = expanding \ {Last(names)}
  /\ UNCHANGED table

Expand ==
  CopyQuoted \/ CopyIdentifier \/ CopyOther \/ ReplaceObject \/ ReplaceFunction \/ Return

-----------------------------------------------------------------------------
(* No macro is replaced inside its own expansion: the set the calls share  *)
(* holds exactly the macros of the calls that are going on, each of them   *)
(* once, so the erase after a call takes away no name an outer call needs. *)
NoReentry ==
  /\ expanding = {names[i] : i \in DOMAIN names}
  /\ expanding \subseteq DOMAIN table
  /\ \A i, j \in DOMAIN names : names[i] = names[j] => i = j

(* The recursion is bounded by the number of macros.                       *)
DepthBounded == IsFiniteSet(DOMAIN table) => Len(names) <= Cardinality(DOMAIN table)
=============================================================================
