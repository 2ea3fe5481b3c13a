--------------------------- MODULE CodeGenerator ---------------------------
(***************************************************************************)
(* CodeGenerator (src/src/code_generator.cpp): from the functions of a     *)
(* translation unit to instructions, with labels that are placed when      *)
(* their position is known and branches that are filled in at the end.     *)
(*                                                                         *)
(* The recursion over the tree is a stack of things left to do: statements *)
(* still to be generated and, below them, the rest of each handler that    *)
(* is waiting for a nested one (an item).  An action is the stretch of a   *)
(* handler between two nested calls.  Expressions are opaque: the code of  *)
(* one is the instruction "act", that of a condition and its comparison    *)
(* is "test".  A return's or throw's value is an act before it.            *)
(***************************************************************************)
EXTENDS Integers, Sequences

CONSTANTS Statement,   \* the nodes of the trees
          Name,        \* the names of functions and variables
          Programs,    \* translation units
          Reach        \* a conditional branch reaches Reach words: 2^13 in the code

(* What the parser builds.  A missing part is an empty sequence.           *)
IsStatement(s, nodes) ==
  \/ s.kind = "act" /\ s.id \in Int
  \/ s.kind = "declare" /\ s.id \in Int /\ s.name \in Name
  \/ s.kind = "call" /\ s.name \in Name
  \/ s.kind = "block" /\ s.body \in Seq(nodes)
  \/ s.kind = "if" /\ s.id \in Int /\ s.then \in nodes /\ s.otherwise \in Seq(nodes)
  \/ s.kind \in {"while", "dowhile"} /\ s.id \in Int /\ s.body \in nodes
  \/ /\ s.kind = "for" /\ s.init \in Seq(nodes) /\ s.body \in nodes
     /\ s.test \in Seq(Int) /\ s.step \in Seq(Int)
  \/ s.kind = "try" /\ s.body \in nodes /\ s.clauses \in Seq(nodes)
  \/ s.kind \in {"break", "continue", "return", "throw", "other"}

FunctionType == [name : Name, body : Statement]
IsProgram(p) == p \in Seq(FunctionType) /\ \A i \in DOMAIN p : p[i].body.kind = "block"
AreStatements(nodes) == \A s \in nodes : IsStatement(s, nodes)

ASSUME StatementAssumption == AreStatements(Statement)
ASSUME ProgramsAssumption == \A p \in Programs : IsProgram(p)
ASSUME ReachAssumption == Reach \in Nat \ {0}

VARIABLES program,     \* the functions, prototypes among them, in source order
          current,     \* the number of functions begun
          scan,        \* pre_scan_locals: statements still to be looked at
          todo,        \* the items, the innermost first
          out,         \* instructions_, labels_ and patches_
          counter,     \* label_counter_
          breakLabel, continueLabel, catchLabel,   \* current_exception_label_ is the last
          locals,      \* the names regs_ has a place for
          offsets,     \* function_offsets_: 0 until the function is begun
          externals,   \* external_calls_
          patched      \* patch_branches has run

targets == <<breakLabel, continueLabel, catchLabel>>
symbols == <<offsets, externals>>
vars == <<program, current, scan, todo, out, counter, targets, locals, symbols, patched>>

NoLabel == -1
Label == Nat \cup {NoLabel}

(* What a branch names: a label of new_label, the epilogue of a function,  *)
(* a function of the unit, or one that is not in it.                       *)
Local(n) == [sort |-> "label", id |-> n]
Epilogue(f) == [sort |-> "epilogue", id |-> f]
Function(f) == [sort |-> "function", id |-> f]
Extern(f) == [sort |-> "extern", id |-> f]

-----------------------------------------------------------------------------
(* emit, a branch to be filled in, and a label at the next instruction.    *)
Emit(o, op, arg) == [o EXCEPT !.code = Append(@, [op |-> op, arg |-> arg])]
Branch(o, when, target) ==
  [code |-> Append(o.code, [op |-> "nop", arg |-> 0]), labels |-> o.labels,
   patches |-> o.patches \cup {[at |-> Len(o.code) + 1, when |-> when, to |-> target]}]
Bind(o, target) ==
  [o EXCEPT !.labels = [t \in DOMAIN @ \cup {target} |->
                          IF t = target THEN Len(o.code) + 1 ELSE @[t]]]

(* An item remembers the targets that held when it was pushed.             *)
Item(at, node, head, step, end) ==
  [at |-> at, node |-> node, head |-> head, step |-> step, end |-> end, clause |-> 0,
   savedBreak |-> breakLabel, savedContinue |-> continueLabel, savedCatch |-> catchLabel]
Do(s) == Item("statement", s, NoLabel, NoLabel, NoLabel)
Sequence(statements) == [i \in DOMAIN statements |-> Do(statements[i])]

Top == Head(todo)
Node == Top.node
Below == Tail(todo)

At(point) == scan = << >> /\ todo # << >> /\ Top.at = point
AtStatement(kinds) == At("statement") /\ Node.kind \in kinds

RestoreLoop ==
  /\ breakLabel' = Top.savedBreak
  /\ continueLabel' = Top.savedContinue
  /\ UNCHANGED catchLabel

Init ==
  /\ program \in Programs
  /\ current = 0
  /\ scan = << >> /\ todo = << >>
  /\ out = [code |-> << >>, labels |-> << >>, patches |-> {}]
  /\ counter = 0
  /\ breakLabel = NoLabel /\ continueLabel = NoLabel /\ catchLabel = NoLabel
  /\ locals = {}
  /\ offsets = [f \in {program[i].name : i \in DOMAIN program} |-> 0]
  /\ externals = << >>
  /\ patched = FALSE

-----------------------------------------------------------------------------
(* generate_function: the prologue is emitted when the scan is over; no    *)
(* label depends on that order.  A prototype is a function with an empty   *)
(* body (Parser::parse_function_definition).                               *)
BeginFunction ==
  /\ todo = << >> /\ current < Len(program)
  /\ current' = current + 1
  /\ LET func == program[current + 1]
     IN  /\ offsets' = [offsets EXCEPT ![func.name] = Len(out.code) + 1]
         /\ scan' = func.body.body
         /\ todo' = Sequence(func.body.body)
                      \o <<Item("epilogue", func.body, NoLabel, NoLabel, NoLabel)>>
  /\ out' = Emit(out, "enter", 0)
  /\ locals' = {}
  /\ UNCHANGED <<program, counter, targets, externals, patched>>

EndFunction ==
  /\ At("epilogue")
  /\ out' = Emit(Bind(out, Epilogue(program[current].name)), "leave", 0)
  /\ todo' = Below
  /\ UNCHANGED <<program, current, scan, counter, targets, locals, symbols, patched>>

(* pre_scan_locals looks into blocks and into the blocks of if, while and  *)
(* for statements, and nowhere else.                                       *)
InBlock(s) == IF s.kind = "block" THEN s.body ELSE << >>
Scanned(s) ==
  CASE s.kind = "block" -> s.body
    [] s.kind = "if" -> InBlock(s.then) \o (IF s.otherwise = << >> THEN << >> ELSE InBlock(s.otherwise[1]))
    [] s.kind = "while" -> InBlock(s.body)
    [] s.kind = "for" ->
         (IF s.init # << >> /\ s.init[1].kind = "declare" THEN s.init ELSE << >>) \o InBlock(s.body)
    [] OTHER -> << >>

ScanDeclaration ==
  /\ scan # << >> /\ Head(scan).kind = "declare"
  /\ locals' = locals \cup {Head(scan).name}
  /\ scan' = Tail(scan)
  /\ UNCHANGED <<program, current, todo, out, counter, targets, symbols, patched>>

ScanStatement ==
  /\ scan # << >> /\ Head(scan).kind # "declare"
  /\ scan' = Scanned(Head(scan)) \o Tail(scan)
  /\ UNCHANGED <<program, current, todo, out, counter, targets, locals, symbols, patched>>

-----------------------------------------------------------------------------
(* generate_statement.                                                     *)
Generated ==
  /\ todo' = Below
  /\ UNCHANGED <<program, current, scan, targets, locals, offsets, patched>>

GenerateExpression ==
  /\ AtStatement({"act"})
  /\ out' = Emit(out, "act", Node.id)
  /\ Generated /\ UNCHANGED <<counter, externals>>

(* Nothing is generated for a variable the scan did not find.              *)
GenerateDeclaration ==
  /\ AtStatement({"declare"})
  /\ out' = IF Node.name \in locals THEN Emit(out, "act", Node.id) ELSE out
  /\ Generated /\ UNCHANGED <<counter, externals>>

GenerateCall ==
  /\ AtStatement({"call"})
  /\ IF Node.name \in DOMAIN offsets
     THEN out' = Branch(out, "call", Function(Node.name)) /\ UNCHANGED externals
     ELSE out' = Branch(out, "call", Extern(Node.name)) /\ externals' = Append(externals, Node.name)
  /\ Generated /\ UNCHANGED counter

GenerateReturn ==
  /\ AtStatement({"return"})
  /\ out' = Branch(out, "always", Epilogue(program[current].name))
  /\ Generated /\ UNCHANGED <<counter, externals>>

GenerateBreak ==
  /\ AtStatement({"break"})
  /\ out' = IF breakLabel = NoLabel THEN out ELSE Branch(out, "always", Local(breakLabel))
  /\ Generated /\ UNCHANGED <<counter, externals>>

(* A variant of GenerateContinue that leaves the loop.                     *)
GenerateContinueAsBreak ==
  /\ AtStatement({"continue"})
  /\ out' = IF continueLabel = NoLabel THEN out ELSE Branch(out, "always", Local(breakLabel))
  /\ Generated /\ UNCHANGED <<counter, externals>>

GenerateContinue ==
  /\ AtStatement({"continue"})
  /\ out' = IF continueLabel = NoLabel THEN out ELSE Branch(out, "always", Local(continueLabel))
  /\ Generated /\ UNCHANGED <<counter, externals>>

(* Without a handler around it a throw is a branch to itself.              *)
GenerateThrow ==
  /\ AtStatement({"throw"})
  /\ IF catchLabel # NoLabel
     THEN out' = Branch(out, "always", Local(catchLabel)) /\ UNCHANGED counter
     ELSE out' = Branch(Bind(out, Local(counter)), "always", Local(counter)) /\ counter' = counter + 1
  /\ Generated /\ UNCHANGED externals

(* Local types and switch statements generate nothing.                     *)
GenerateNothing ==
  /\ AtStatement({"other"})
  /\ Generated /\ UNCHANGED <<out, counter, externals>>

GenerateBlock ==
  /\ AtStatement({"block"})
  /\ todo' = Sequence(Node.body) \o Below
  /\ UNCHANGED <<program, current, scan, out, counter, targets, locals, symbols, patched>>

-----------------------------------------------------------------------------
(* Statements with statements in them.                                     *)
Nesting == UNCHANGED <<program, current, scan, locals, symbols, patched>>

GenerateIf ==
  /\ AtStatement({"if"})
  /\ LET else == counter
         end == counter + 1
         last == Node.otherwise = << >>
     IN  /\ out' = Branch(Emit(out, "test", Node.id), "equal", Local(IF last THEN end ELSE else))
         /\ todo' = <<Do(Node.then), Item(IF last THEN "endif" ELSE "else", Node, else, NoLabel, end)>>
                      \o Below
  /\ counter' = counter + 2
  /\ Nesting /\ UNCHANGED targets

GenerateElse ==
  /\ At("else")
  /\ out' = Bind(Branch(out, "always", Local(Top.end)), Local(Top.head))
  /\ todo' = <<Do(Node.otherwise[1]), [Top EXCEPT !.at = "endif"]>> \o Below
  /\ Nesting /\ UNCHANGED <<counter, targets>>

EndIf ==
  /\ At("endif")
  /\ out' = Bind(out, Local(Top.end))
  /\ todo' = Below
  /\ Nesting /\ UNCHANGED <<counter, targets>>

(* A variant of GenerateWhile that takes one label number for its two.     *)
GenerateWhileOneNumber ==
  /\ AtStatement({"while"})
  /\ LET loop == counter
         end == counter + 1
     IN  /\ out' = Branch(Emit(Bind(out, Local(loop)), "test", Node.id), "equal", Local(end))
         /\ todo' = <<Do(Node.body), Item("while", Node, loop, NoLabel, end)>> \o Below
         /\ breakLabel' = end /\ continueLabel' = loop /\ UNCHANGED catchLabel
  /\ counter' = counter + 1
  /\ Nesting

(* A variant of GenerateWhile that goes back to behind the condition.      *)
GenerateWhileUntested ==
  /\ AtStatement({"while"})
  /\ LET loop == counter
         end == counter + 1
     IN  /\ out' = Bind(Branch(Emit(out, "test", Node.id), "equal", Local(end)), Local(loop))
         /\ todo' = <<Do(Node.body), Item("while", Node, loop, NoLabel, end)>> \o Below
         /\ breakLabel' = end /\ continueLabel' = loop /\ UNCHANGED catchLabel
  /\ counter' = counter + 2
  /\ Nesting

GenerateWhile ==
  /\ AtStatement({"while"})
  /\ LET loop == counter
         end == counter + 1
     IN  /\ out' = Branch(Emit(Bind(out, Local(loop)), "test", Node.id), "equal", Local(end))
         /\ todo' = <<Do(Node.body), Item("while", Node, loop, NoLabel, end)>> \o Below
         /\ breakLabel' = end /\ continueLabel' = loop /\ UNCHANGED catchLabel
  /\ counter' = counter + 2
  /\ Nesting

EndWhile ==
  /\ At("while")
  /\ out' = Bind(Branch(out, "always", Local(Top.head)), Local(Top.end))
  /\ todo' = Below
  /\ RestoreLoop /\ Nesting /\ UNCHANGED counter

GenerateDoWhile ==
  /\ AtStatement({"dowhile"})
  /\ LET loop == counter
         end == counter + 1
         cond == counter + 2
     IN  /\ out' = Bind(out, Local(loop))
         /\ todo' = <<Do(Node.body), Item("dowhile", Node, loop, cond, end)>> \o Below
         /\ breakLabel' = end /\ continueLabel' = cond /\ UNCHANGED catchLabel
  /\ counter' = counter + 3
  /\ Nesting

(* A variant of EndDoWhile that never places the label of the condition.   *)
EndDoWhileUnplaced ==
  /\ At("dowhile")
  /\ out' = Bind(Branch(Emit(out, "test", Node.id), "notequal", Local(Top.head)), Local(Top.end))
  /\ todo' = Below
  /\ RestoreLoop /\ Nesting /\ UNCHANGED counter

EndDoWhile ==
  /\ At("dowhile")
  /\ out' = Bind(Branch(Emit(Bind(out, Local(Top.step)), "test", Node.id), "notequal", Local(Top.head)),
                 Local(Top.end))
  /\ todo' = Below
  /\ RestoreLoop /\ Nesting /\ UNCHANGED counter

GenerateFor ==
  /\ AtStatement({"for"})
  /\ LET loop == counter
         end == counter + 1
         incr == counter + 2
     IN  /\ todo' = Sequence(Node.init) \o <<Item("for", Node, loop, incr, end)>> \o Below
         /\ breakLabel' = end /\ continueLabel' = incr /\ UNCHANGED catchLabel
  /\ counter' = counter + 3
  /\ Nesting /\ UNCHANGED out

ForTest ==
  /\ At("for")
  /\ LET looped == Bind(out, Local(Top.head))
     IN  out' = IF Node.test = << >> THEN looped
                ELSE Branch(Emit(looped, "test", Node.test[1]), "equal", Local(Top.end))
  /\ todo' = <<Do(Node.body), [Top EXCEPT !.at = "step"]>> \o Below
  /\ Nesting /\ UNCHANGED <<counter, targets>>

EndFor ==
  /\ At("step")
  /\ LET body == Bind(out, Local(Top.step))
         step == IF Node.step = << >> THEN body ELSE Emit(body, "act", Node.step[1])
     IN  out' = Bind(Branch(step, "always", Local(Top.head)), Local(Top.end))
  /\ todo' = Below
  /\ RestoreLoop /\ Nesting /\ UNCHANGED counter

GenerateTry ==
  /\ AtStatement({"try"})
  /\ LET catch == counter
         end == counter + 1
     IN  /\ todo' = <<Do(Node.body), Item("catch", Node, catch, NoLabel, end)>> \o Below
         /\ catchLabel' = catch /\ UNCHANGED <<breakLabel, continueLabel>>
  /\ counter' = counter + 2
  /\ Nesting /\ UNCHANGED out

(* After the body and after each clause: the jump to the end; after the    *)
(* body, the catch label; then the next clause, or the end.                *)
GenerateCatch ==
  /\ At("catch")
  /\ LET left == Branch(out, "always", Local(Top.end))
         entered == IF Top.clause = 0 THEN Bind(left, Local(Top.head)) ELSE left
     IN  IF Top.clause = Len(Node.clauses)
         THEN /\ out' = Bind(entered, Local(Top.end))
              /\ todo' = Below
              /\ catchLabel' = Top.savedCatch /\ UNCHANGED <<breakLabel, continueLabel>>
         ELSE /\ out' = entered
              /\ todo' = <<Do(Node.clauses[Top.clause + 1]), [Top EXCEPT !.clause = @ + 1]>> \o Below
              /\ UNCHANGED targets
  /\ Nesting /\ UNCHANGED counter

-----------------------------------------------------------------------------
(* patch_branches: labels first, then functions; a branch to neither stays *)
(* a nop.  A conditional offset is cut to 16 bits.                         *)
Short(offset) == ((offset + Reach) % (2 * Reach)) - Reach
Filled(o, p) ==
  IF p.to \in DOMAIN o.labels
  THEN LET offset == o.labels[p.to] - p.at
       IN  [op |-> p.when, arg |-> IF p.when \in {"equal", "notequal"} THEN Short(offset) ELSE offset]
  ELSE IF p.to.sort = "function" /\ p.to.id \in DOMAIN offsets /\ offsets[p.to.id] > 0
       THEN [op |-> "call", arg |-> offsets[p.to.id] - p.at]
       ELSE o.code[p.at]

PatchBranches ==
  /\ todo = << >> /\ current = Len(program) /\ ~patched
  /\ out' = [out EXCEPT !.code =
               [i \in DOMAIN @ |->
                  IF \E p \in out.patches : p.at = i
                  THEN Filled(out, CHOOSE p \in out.patches : p.at = i) ELSE @[i]]]
  /\ patched' = TRUE
  /\ UNCHANGED <<program, current, scan, todo, counter, targets, locals, symbols>>

Statements ==
  \/ GenerateExpression \/ GenerateDeclaration \/ GenerateCall \/ GenerateReturn
  \/ GenerateBreak \/ GenerateContinue \/ GenerateThrow \/ GenerateNothing \/ GenerateBlock
Conditionals == GenerateIf \/ GenerateElse \/ EndIf
Loops ==
  \/ GenerateWhile \/ EndWhile \/ GenerateDoWhile \/ EndDoWhile
  \/ GenerateFor \/ ForTest \/ EndFor
Handlers == GenerateTry \/ GenerateCatch
Next ==
  \/ BeginFunction \/ EndFunction \/ ScanDeclaration \/ ScanStatement
  \/ Statements \/ Conditionals \/ Loops \/ Handlers \/ PatchBranches

Spec == Init /\ [][Next]_vars

-----------------------------------------------------------------------------
Instruction ==
  [op : {"act", "test", "enter", "leave", "nop", "always", "equal", "notequal", "call"}, arg : Int]
Target ==
  [sort : {"label"}, id : Nat] \cup [sort : {"epilogue", "function", "extern"}, id : Name]
Patch == [at : Nat \ {0}, when : {"always", "equal", "notequal", "call"}, to : Target]
Points == {"statement", "epilogue", "else", "endif", "while", "dowhile", "for", "step", "catch"}
Trees == Seq(Statement)
ItemType ==
  [at : Points, node : Statement, head : Label, step : Label, end : Label, clause : Nat,
   savedBreak : Label, savedContinue : Label, savedCatch : Label]

(* The variables have their types: no branch ever names a label that was   *)
(* not issued, and no item resumes at an unknown point.                    *)
TypeOK ==
  /\ IsProgram(program) /\ current \in 0..Len(program)
  /\ scan \in Trees /\ todo \in Seq(ItemType)
  /\ out.code \in Seq(Instruction) /\ out.patches \subseteq Patch
  /\ DOMAIN out.labels \subseteq Target /\ \A t \in DOMAIN out.labels : out.labels[t] \in Nat \ {0}
  /\ counter \in Nat
  /\ breakLabel \in Label /\ continueLabel \in Label /\ catchLabel \in Label
  /\ locals \subseteq Name
  /\ DOMAIN offsets = {program[i].name : i \in DOMAIN program}
  /\ \A f \in DOMAIN offsets : offsets[f] \in Nat
  /\ externals \in Seq(Name) /\ patched \in BOOLEAN

(* Once the branches are filled in, each of them has somewhere to go: every*)
(* label that break, continue, throw, return or a loop jumped to while it  *)
(* was still to come has been placed, whatever the nesting.  Only calls of *)
(* functions outside the unit are left to the linker.                      *)
EveryBranchLands ==
  patched => \A p \in out.patches :
    \/ p.to \in DOMAIN out.labels
    \/ p.to.sort = "function" /\ p.to.id \in DOMAIN offsets /\ offsets[p.to.id] > 0
    \/ p.to.sort = "extern"

(* A label that was placed stays where it is: no construct ever issues the *)
(* number of another one, however they nest.                               *)
LabelsStay ==
  [][\A t \in DOMAIN out.labels : t.sort = "label" =>
       t \in DOMAIN out'.labels /\ out'.labels[t] = out.labels[t]]_vars
=============================================================================
