-------------------------- MODULE PreprocessedText --------------------------
(***************************************************************************)
(* The walk over the lines (Preprocessor) and the expansion of each line   *)
(* of text (MacroExpansion) put together: process_internal calls           *)
(* expand_macros for a line of an active group, with the macros of that    *)
(* moment, and goes on with the next line when it has the result.  Every   *)
(* step is one of the walk or leaves the walk where it is.                 *)
(***************************************************************************)
EXTENDS Preprocessor, MacroExpansion

CONSTANTS NameOf,          \* the characters of a macro's name
          DefinitionOf,    \* macro -> its value in #if -> its MacroDefinition
          TextOf           \* the characters of a line of text, by its tag

VARIABLE texts       \* the lines of output, expanded

textVars == <<vars, mvars, texts>>

(* macros_ with the bodies the walk has no use for.                        *)
Definitions(defined) ==
  [n \in {NameOf[m] : m \in DOMAIN defined} |->
     LET macro == CHOOSE m \in DOMAIN defined : NameOf[m] = n
     IN  DefinitionOf[macro][defined[macro]]]

BeginText ==
  table = << >> /\ frames = << >> /\ names = << >> /\ expanding = {} /\ texts = << >>

(* Nothing changes macros_ while a line is expanded: table is what it      *)
(* holds then.                                                             *)
StartText ==
  /\ Active("text") /\ Idle
  /\ frames' = <<Reading(TextOf[Current.tag], 1, << >>)>>
  /\ table' = Definitions(macros)
  /\ UNCHANGED <<vars, names, expanding, texts>>

ExpandText == Expand /\ UNCHANGED <<vars, texts>>

EmitText ==
  /\ Text /\ Finished
  /\ texts' = Append(texts, Inner.result)
  /\ frames' = << >> /\ table' = << >>
  /\ UNCHANGED <<names, expanding>>

WalkOn ==
  /\ Idle
  /\ Conditional \/ Directive \/ Skip \/ EndFile
  /\ UNCHANGED <<mvars, texts>>

TextNext == StartText \/ ExpandText \/ EmitText \/ WalkOn
TextSpec == Init /\ BeginText /\ [][TextNext]_textVars
=============================================================================
