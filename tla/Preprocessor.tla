---------------------------- MODULE Preprocessor ----------------------------
(***************************************************************************)
(* Preprocessor::process_internal (src/src/preprocessor.cpp): the walk     *)
(* over the lines of a file and of the files it includes, with the stack   *)
(* of conditional groups of each file, the macro table and the set of      *)
(* files already included.                                                 *)
(*                                                                         *)
(* A line is a record: its directive and what the directive needs.  A path *)
(* is the string resolve_include returns, so one file reached under two    *)
(* spellings is two paths; a path without content is one that is not       *)
(* found.  A macro's body is abstracted to whether #if takes it for true.  *)
(* The recursion of process_internal is a stack of frames.                 *)
(***************************************************************************)
EXTENDS Naturals, FiniteSets, SequencesExt

CONSTANTS Path,        \* resolved paths, and the ones that are not found
          Main,        \* the file process() is called with
          Macro,       \* macro names
          Contents,    \* file systems: functions from paths to sequences of lines
          Predefined,  \* the macro tables the walk may start with (-D, define_predefined)
          MaxDepth     \* MAX_INCLUDE_DEPTH: 64 in the code

ASSUME PathAssumption == IsFiniteSet(Path) /\ Main \in Path /\ MaxDepth \in Nat

VARIABLES content,     \* the files, fixed during the walk
          stack,       \* a frame for each call of process_internal, the innermost last
          macros,      \* macros_: name -> value in #if
          included,    \* included_files_
          output,      \* the text lines emitted, with the macros they were expanded with
          pc           \* "reading", "done", or the PreprocessorError that ended the walk

vars == <<content, stack, macros, included, output, pc>>

(* A test of #ifdef, #ifndef, #if or #elif: `defined(name)` or `name`,     *)
(* negated or not.  What an operator joins to it is not even looked at.    *)
Condition == [test : {"defined", "value"}, name : Macro, negated : BOOLEAN]

Line ==
  [kind : {"text"}, tag : Nat]
    \cup [kind : {"if", "elif"}, cond : Condition]
    \cup [kind : {"else", "endif", "once", "error", "other"}]
    \cup [kind : {"define"}, name : Macro, value : BOOLEAN]
    \cup [kind : {"undef"}, name : Macro]
    \cup [kind : {"include"}, path : Path]

IsContent(c) ==
  /\ Main \in DOMAIN c /\ DOMAIN c \subseteq Path
  /\ \A p \in DOMAIN c : c[p] \in Seq(Line)

ASSUME ContentsAssumption == \A c \in Contents : IsContent(c)


Table == UNION {[names -> BOOLEAN] : names \in SUBSET Macro}   \* macros_
Group == [active : BOOLEAN, taken : BOOLEAN]       \* CondState
ASSUME PredefinedAssumption == Predefined \subseteq Table

Frame == [path : Path, next : Nat \ {0}, groups : Seq(Group)]

-----------------------------------------------------------------------------
(* The state of the innermost file.                                        *)
Top == stack[Len(stack)]
Lines == content[Top.path]
AtLine(kinds) ==
  /\ pc = "reading" /\ stack # << >>
  /\ Top.next <= Len(Lines)
  /\ Lines[Top.next].kind \in kinds
Current == Lines[Top.next]

(* A group stack lets lines through: it is empty or its last group does.   *)
Open(groups) == groups # << >> => groups[Len(groups)].active
Outer(groups) == SubSeq(groups, 1, Len(groups) - 1)

(* evaluate_constant_expression on the tests of this model; an unknown     *)
(* name counts as 0.  eval_simple_expr reads the number the expression     *)
(* starts with, negated or not, and none of the operators behind it.       *)
Holds(cond) ==
  LET defined == cond.name \in DOMAIN macros
  IN  (IF cond.test = "defined" THEN defined ELSE defined /\ macros[cond.name])
        # cond.negated

(* The loop goes on with the next line, with these groups.                 *)
Advanced(groups) ==
  [stack EXCEPT ![Len(stack)] = [path |-> Top.path, next |-> Top.next + 1, groups |-> groups]]
Advance(groups) == stack' = Advanced(groups)

Start(p) == [path |-> p, next |-> 1, groups |-> << >>]

Begin ==
  /\ macros \in Predefined
  /\ stack = <<Start(Main)>>
  /\ included = {}
  /\ output = << >>
  /\ pc = "reading"

Init == content \in Contents /\ Begin

-----------------------------------------------------------------------------
(* Conditional directives (try_handle_conditional): also in skipped groups *)

(* A variant that looks at the condition alone.                            *)
OpenGroupAlone ==
  /\ AtLine({"if"})
  /\ LET result == Holds(Current.cond)
     IN  Advance(Append(Top.groups, [active |-> result, taken |-> result]))
  /\ UNCHANGED <<content, macros, included, output, pc>>

(* #ifdef, #ifndef, #if: a new group, active when its parent is and the    *)
(* condition holds.                                                        *)
OpenGroup ==
  /\ AtLine({"if"})
  /\ LET result == Open(Top.groups) /\ Holds(Current.cond)
     IN  Advance(Append(Top.groups, [active |-> result, taken |-> result]))
  /\ UNCHANGED <<content, macros, included, output, pc>>

(* A variant of Elif that forgets that a branch was taken.                 *)
ElifAgain ==
  /\ AtLine({"elif"}) /\ Top.groups # << >>
  /\ LET prev == Top.groups[Len(Top.groups)]
         result == Open(Outer(Top.groups)) /\ Holds(Current.cond)
     IN  Advance(Append(Outer(Top.groups),
                        [active |-> result, taken |-> prev.taken \/ result]))
  /\ UNCHANGED <<content, macros, included, output, pc>>

(* #elif: the condition counts when the parent is active and no branch     *)
(* was taken.                                                              *)
Elif ==
  /\ AtLine({"elif"}) /\ Top.groups # << >>
  /\ LET prev == Top.groups[Len(Top.groups)]
         result == Open(Outer(Top.groups)) /\ ~prev.taken /\ Holds(Current.cond)
     IN  Advance(Append(Outer(Top.groups),
                        [active |-> result, taken |-> prev.taken \/ result]))
  /\ UNCHANGED <<content, macros, included, output, pc>>

(* A variant of Else that forgets the parent.                              *)
ElseOfTaken ==
  /\ AtLine({"else"}) /\ Top.groups # << >>
  /\ LET prev == Top.groups[Len(Top.groups)]
     IN  Advance(Append(Outer(Top.groups), [active |-> ~prev.taken, taken |-> TRUE]))
  /\ UNCHANGED <<content, macros, included, output, pc>>

(* #else: active when the parent is and no branch was taken.  A second     *)
(* #else, or an #elif after it, is not refused but never active.           *)
Else ==
  /\ AtLine({"else"}) /\ Top.groups # << >>
  /\ LET prev == Top.groups[Len(Top.groups)]
         active == Open(Outer(Top.groups)) /\ ~prev.taken
     IN  Advance(Append(Outer(Top.groups), [active |-> active, taken |-> TRUE]))
  /\ UNCHANGED <<content, macros, included, output, pc>>

Endif ==
  /\ AtLine({"endif"}) /\ Top.groups # << >>
  /\ Advance(Outer(Top.groups))
  /\ UNCHANGED <<content, macros, included, output, pc>>

(* #elif, #else or #endif without #if ends the walk.                       *)
StrayDirective ==
  /\ AtLine({"elif", "else", "endif"}) /\ Top.groups = << >>
  /\ pc' = "stray"
  /\ UNCHANGED <<content, stack, macros, included, output>>

(* Any other line of a skipped group.                                      *)
Skip ==
  /\ AtLine({"text", "define", "undef", "include", "once", "error", "other"})
  /\ ~Open(Top.groups)
  /\ Advance(Top.groups)
  /\ UNCHANGED <<content, macros, included, output, pc>>

-----------------------------------------------------------------------------
(* Other directives (handle_directive), in a group that is active.         *)
Active(kind) == AtLine({kind}) /\ Open(Top.groups)

Define ==
  /\ Active("define")
  /\ macros' = [n \in DOMAIN macros \cup {Current.name} |->
                  IF n = Current.name THEN Current.value ELSE macros[n]]
  /\ Advance(Top.groups)
  /\ UNCHANGED <<content, included, output, pc>>

Undef ==
  /\ Active("undef")
  /\ macros' = [n \in DOMAIN macros \ {Current.name} |-> macros[n]]
  /\ Advance(Top.groups)
  /\ UNCHANGED <<content, included, output, pc>>

(* #pragma once names the file it stands in.                               *)
PragmaOnce ==
  /\ Active("once")
  /\ included' = included \cup {Top.path}
  /\ Advance(Top.groups)
  /\ UNCHANGED <<content, macros, output, pc>>

(* #error ends the walk.                                                   *)
Error ==
  /\ Active("error")
  /\ pc' = "error"
  /\ UNCHANGED <<content, stack, macros, included, output>>

(* An unknown directive is skipped.                                        *)
Unknown ==
  /\ Active("other")
  /\ Advance(Top.groups)
  /\ UNCHANGED <<content, macros, included, output, pc>>

(* #include of a file that is not found: a warning, and on.                *)
IncludeMissing ==
  /\ Active("include") /\ Current.path \notin DOMAIN content
  /\ Advance(Top.groups)
  /\ UNCHANGED <<content, macros, included, output, pc>>

(* A variant of IncludeAgain that stays on the line.                       *)
IncludeAgainStuck ==
  /\ Active("include") /\ Current.path \in DOMAIN content \cap included
  /\ UNCHANGED vars

IncludeAgain ==
  /\ Active("include") /\ Current.path \in DOMAIN content \cap included
  /\ Advance(Top.groups)
  /\ UNCHANGED <<content, macros, included, output, pc>>

(* A variant that does not remember the files it includes.                 *)
IncludeForgotten ==
  /\ Active("include") /\ Current.path \in DOMAIN content \ included
  /\ Len(stack) <= MaxDepth
  /\ stack' = Append(Advanced(Top.groups), Start(Current.path))
  /\ UNCHANGED <<content, macros, included, output, pc>>

(* A variant without the limit on the depth.                               *)
IncludeUnbounded ==
  /\ Active("include") /\ Current.path \in DOMAIN content \ included
  /\ included' = included \cup {Current.path}
  /\ stack' = Append(Advanced(Top.groups), Start(Current.path))
  /\ UNCHANGED <<content, macros, output, pc>>

(* #include: the file is recorded, then walked at one level more.          *)
Include ==
  /\ Active("include") /\ Current.path \in DOMAIN content \ included
  /\ Len(stack) <= MaxDepth
  /\ included' = included \cup {Current.path}
  /\ stack' = Append(Advanced(Top.groups), Start(Current.path))
  /\ UNCHANGED <<content, macros, output, pc>>

(* The same beyond the limit: the call throws.                             *)
IncludeTooDeep ==
  /\ Active("include") /\ Current.path \in DOMAIN content \ included
  /\ Len(stack) > MaxDepth
  /\ included' = included \cup {Current.path}
  /\ pc' = "depth"
  /\ UNCHANGED <<content, stack, macros, output>>

(* A line of text, expanded with the macros of the moment.                 *)
Text ==
  /\ Active("text")
  /\ output' = Append(output, [path |-> Top.path, line |-> Top.next, table |-> macros])
  /\ Advance(Top.groups)
  /\ UNCHANGED <<content, macros, included, pc>>

(* The end of a file; groups still open are dropped without a word.        *)
EndFile ==
  /\ pc = "reading" /\ stack # << >>
  /\ Top.next > Len(Lines)
  /\ stack' = SubSeq(stack, 1, Len(stack) - 1)
  /\ pc' = IF Len(stack) = 1 THEN "done" ELSE pc
  /\ UNCHANGED <<content, macros, included, output>>

Conditional == OpenGroup \/ Elif \/ Else \/ Endif \/ StrayDirective
Directive == Define \/ Undef \/ PragmaOnce \/ Error \/ Unknown
               \/ IncludeMissing \/ IncludeAgain \/ Include \/ IncludeTooDeep

Next == Conditional \/ Directive \/ Skip \/ Text \/ EndFile

Spec == Init /\ [][Next]_vars
(* The walk is a sequential loop: it goes on while it has a line to read.  *)
FairSpec == Spec /\ WF_vars(Next)

-----------------------------------------------------------------------------
(* The walk keeps the shape of its state: a stack of frames over known     *)
(* paths, each within its file, and never a call deeper than the limit.    *)
TypeOK ==
  /\ IsContent(content)
  /\ stack \in Seq(Frame) /\ Len(stack) <= MaxDepth + 1
  /\ \A i \in DOMAIN stack : stack[i].path \in DOMAIN content
                             /\ stack[i].next <= Len(content[stack[i].path]) + 1
  /\ macros \in Table
  /\ included \subseteq Path
  /\ output \in Seq([path : Path, line : Nat, table : Table])
  /\ pc \in {"reading", "done", "stray", "error", "depth"}

(* Skipping nests: an active group has active groups around it, and counts *)
(* as taken; every file on the stack but the innermost was left at an      *)
(* #include that is not in a skipped group.  process_internal relies on it *)
(* when it looks at the last group alone.                                  *)
NestingSound ==
  \A i \in DOMAIN stack :
    LET groups == stack[i].groups
    IN  /\ \A g \in DOMAIN groups : groups[g].active =>
             groups[g].taken /\ (g > 1 => groups[g - 1].active)
        /\ i < Len(stack) => Open(groups)

(* Whatever the files include, in cycles too, no file but the main one is  *)
(* walked by two calls at once: the calls below the first are of distinct  *)
(* files, all recorded in included_files_.                                 *)
CallsDistinct ==
  \A i, j \in 2..Len(stack) :
    /\ stack[i].path \in included
    /\ stack[i].path = stack[j].path => i = j

(* "Maximum include depth exceeded" is not reached by files that include   *)
(* each other for ever: only by more distinct files than the limit.        *)
DepthErrorJustified == pc = "depth" => Cardinality(DOMAIN content) > MaxDepth

(* A header is pasted once: apart from the main file, which nothing        *)
(* records until it is included, no line of text is emitted twice.         *)
PastedOnce ==
  \A i, j \in DOMAIN output :
    (i < j /\ output[i].path = output[j].path /\ output[i].line = output[j].line)
      => output[i].path = Main /\ Main \in included

(* The walk comes to an end for every set of files, cycles included.       *)
Terminates == <>(pc # "reading")
=============================================================================
