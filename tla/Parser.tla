-------------------------------- MODULE Parser --------------------------------
(***************************************************************************)
(* The front end of a compilation, as compile_file runs it: the lexer, and *)
(* then Parser::parse (src/src/parser.cpp), one action for each turn of    *)
(* its loop over the declarations.  A ParseError of a declaration is       *)
(* caught and skipped; one of a class, an enumeration, a namespace, a      *)
(* typedef, a template or an operator leaves parse().                      *)
(***************************************************************************)
EXTENDS Syntax

VARIABLES parser,   \* the parser's state (Syntax)
          decls,    \* the declarations read
          phase,    \* "lexing", "parsing", "parsed" or "rejected"
          turn      \* 0 and 1 by turns of parse(): a turn that changes nothing else is a step

vars == <<lexvars, parser, decls, phase, turn>>

ParserInit ==
  /\ Init
  /\ parser = [at |-> 1, ok |-> TRUE, types |-> {}, templates |-> {}, enums |-> << >>,
               structs |-> << >>, out |-> None]
  /\ decls = << >>
  /\ phase = "lexing" /\ turn = 0

Scan == phase = "lexing" /\ Next /\ UNCHANGED <<parser, decls, phase, turn>>

StartParser ==
  /\ phase = "lexing" /\ mode = "done"
  /\ phase' = "parsing"
  /\ UNCHANGED <<lexvars, parser, decls, turn>>

-----------------------------------------------------------------------------
At(kinds) == K(parser) \in kinds
Pass1(s) == parser' = s /\ UNCHANGED <<lexvars, decls, phase>>
Declare(s) == parser' = s /\ decls' = Append(decls, s.out) /\ UNCHANGED <<lexvars, phase>>
Reject(s) == parser' = s /\ phase' = "rejected" /\ UNCHANGED <<lexvars, decls>>

(* ";" and "}" that close nothing, attributes in brackets, and the storage *)
(* and calling conventions before a declaration.                           *)
SkipStray == At({";", "}"}) /\ Pass1(Step(parser))
SkipAttribute == At({"["}) /\ Pass1(SkipGroup(parser, "[", "]"))

Linkage == Kind(parser, 1) = "StringLiteral" /\ Text(Value(Step(parser))) \in {"C", "C++"}
SkipStorage == At({"extern", "static", "volatile", "inline"})
               /\ ~(K(parser) = "extern" /\ Linkage) /\ Pass1(Step(parser))
SkipConvention == At({"Identifier"}) /\ AtConvention(parser) /\ Pass1(Step(parser))

KeepDirective == At({"Preprocessor"}) /\ Declare(Give(Step(parser), <<"directive", Value(parser)>>))

(* A declaration at depth 0, up to its ";" or the "}" around it.           *)
SkipLinked(s) ==
  LET Open(i) == Count(s, i - 1, "{") - Count(s, i - 1, "}")
      e == MoveTo(s, {i \in DOMAIN tokens : \/ tokens[i].kind = "Eof"
                                            \/ tokens[i].kind \in {";", "}"} /\ Open(i) = 0})
  IN  Accept(e, {";"})

(* extern "C" { loses its braces; what is extern "C++" is not read at all. *)
ExternLinkage ==
  /\ At({"extern"}) /\ Linkage
  /\ LET s == Step(Step(parser))
         cpp == Text(Value(Step(parser))) = "C++"
     IN  Pass1(IF K(s) = "{" THEN IF cpp THEN SkipGroup(s, "{", "}") ELSE Step(s)
               ELSE IF cpp THEN SkipLinked(s) ELSE s)

Define ==
  /\ At(Definable)
  /\ LET d == Definition(parser) IN IF d.ok THEN Declare(d) ELSE Reject(d)

(* None of the kinds above: an operator's definition or a declaration.     *)
Ordinary ==
  /\ K(parser) \notin Definable \cup {";", "}", "[", "Preprocessor", "Eof",
                                     "extern", "static", "volatile", "inline"}
  /\ ~AtConvention(parser)

(* is_operator_overload_ahead                                              *)
OperatorAhead ==
  AtType(parser) /\ K(SkipOver(parser, TypeKeyword \cup
                      {"static", "virtual", "inline", "extern", "friend", "Identifier", "*", "&"})) = "operator"
DefineOperator ==
  /\ Ordinary /\ OperatorAhead
  /\ LET d == GlobalOperator(parser) IN IF d.ok THEN Declare(d) ELSE Reject(d)

ReadDeclaration ==
  /\ Ordinary /\ ~OperatorAhead
  /\ LET d == Declaration(parser) IN IF d.ok THEN Declare(d) ELSE Pass1(Resume(d))

Finished ==
  /\ At({"Eof"})
  /\ decls' = decls \o parser.enums \o parser.structs
  /\ phase' = "parsed"
  /\ UNCHANGED <<lexvars, parser>>

Turn ==
  /\ phase = "parsing" /\ turn' = 1 - turn
  /\ \/ SkipStray \/ SkipAttribute \/ SkipStorage \/ SkipConvention
     \/ KeepDirective \/ ExternLinkage \/ Define \/ DefineOperator \/ ReadDeclaration \/ Finished

Over == phase \in {"parsed", "rejected"} \/ mode = "error"
Stay == Over /\ UNCHANGED vars

-----------------------------------------------------------------------------
ParserNext == Scan \/ StartParser \/ Turn \/ Stay

(* The program keeps running.  The second half is the weak fairness of     *)
(* Turn, which has a step wherever the phase is "parsing": a state that    *)
(* refuted this would be a deadlock.                                       *)
Runs == WF_vars(Scan \/ StartParser) /\ ([]<>(phase # "parsing") \/ []<><<Turn>>_vars)

ParserSpec == ParserInit /\ [][ParserNext]_vars /\ Runs
===============================================================================
