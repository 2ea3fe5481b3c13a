---------------------------- MODULE CompiledCode ----------------------------
(***************************************************************************)
(* The code that CodeGenerator made for a unit, run side by side with the  *)
(* meaning of the statements it was made from.  The meaning is a stack of  *)
(* what is still to be executed; the code has a program counter and a      *)
(* stack of return addresses.  Both go on by themselves to the next thing  *)
(* that shows (an expression, a condition, the end) and take that step     *)
(* together, a condition with either result.                               *)
(***************************************************************************)
EXTENDS CodeGenerator

CONSTANT main   \* the function the run starts with

(* There is such a function in every unit.                                 *)
ASSUME MainAssumption == \A p \in Programs : \E i \in DOMAIN p : p[i].name = main

VARIABLES pc, returns, flag,   \* the machine: 0 while the code is generated
          rest                 \* the meaning: what is still to be executed

machine == <<pc, returns, flag>>
runvars == <<vars, machine, rest>>

-----------------------------------------------------------------------------
(* The meaning of statements.  Beside statements the stack holds the end   *)
(* of a branch or catch clause, of a loop's body, of a try body and of a   *)
(* function, and the condition of a do or for loop.                        *)
Todo(at, node) == [at |-> at, node |-> node]
Each(statements) == [i \in DOMAIN statements |-> Todo("statement", statements[i])]
Then(s, at, node) == <<Todo("statement", s), Todo(at, node)>>
First(points) ==
  CHOOSE i \in 0..Len(rest) :
    /\ i > 0 => rest[i].at \in points
    /\ i = 0 => \A j \in DOMAIN rest : rest[j].at \notin points
    /\ \A j \in 1..(i - 1) : rest[j].at \notin points
From(i) == SubSeq(rest, i, Len(rest))
InLoop == First({"loop", "dotest"})

(* A function and its prototypes, which come before it.                    *)
Defined(i) == \A j \in DOMAIN program : program[j].name = program[i].name => j <= i
Called(name) ==
  LET body == program[CHOOSE i \in DOMAIN program : program[i].name = name /\ Defined(i)].body
  IN  Append(Each(body.body), Todo("frame", body))

Now == IF rest[1].at = "statement" THEN rest[1].node.kind ELSE rest[1].at

(* What the meaning shows next; "silent" when it goes on by itself.        *)
Meaning ==
  LET event(op, n) == [op |-> op, arg |-> n]
      node == rest[1].node
  IN  CASE Now \in {"act", "declare"} -> event("act", node.id)
        [] Now = "loop" /\ node.kind = "for" /\ node.step # << >> -> event("act", node.step[1])
        [] Now \in {"if", "while", "dotest"} -> event("test", node.id)
        [] Now = "fortest" /\ node.test # << >> -> event("test", node.test[1])
        [] Now = "throw" /\ First({"handler"}) = 0 -> event("trap", 0)
        [] Now = "frame" /\ Len(rest) = 1 -> event("end", 0)
        [] OTHER -> event("silent", 0)

(* The stack after a silent step.                                          *)
Unfolded ==
  LET node == rest[1].node
  IN  CASE Now = "block" -> Each(node.body) \o From(2)
        [] Now = "call" -> Called(node.name) \o From(2)
        [] Now = "return" -> From(First({"frame"}))
        [] Now = "break" -> From(InLoop + 1)
        [] Now = "continue" -> From(InLoop)
        [] Now = "throw" ->
             LET try == rest[First({"handler"})].node
             IN  (IF try.clauses = << >> THEN << >> ELSE Then(try.clauses[1], "join", try))
                   \o From(First({"handler"}) + 1)
        [] Now = "dowhile" -> Then(node.body, "dotest", node) \o From(2)
        [] Now = "for" -> Append(Each(node.init), Todo("fortest", node)) \o From(2)
        [] Now = "fortest" -> Then(node.body, "loop", node) \o From(2)
        [] Now = "try" -> Then(node.body, "handler", node) \o From(2)
        [] Now = "loop" /\ node.kind = "while" -> <<Todo("statement", node)>> \o From(2)
        [] Now = "loop" /\ node.kind = "for" -> <<Todo("fortest", node)>> \o From(2)
        [] OTHER -> From(2)

(* The stack after an expression, or after a condition with this result.   *)
Taken(result) ==
  LET node == rest[1].node
  IN  (CASE Now = "if" /\ result -> Then(node.then, "join", node)
         [] Now = "if" /\ ~result /\ node.otherwise # << >> -> Then(node.otherwise[1], "join", node)
         [] Now \in {"while", "fortest"} /\ result -> Then(node.body, "loop", node)
         [] Now = "dotest" /\ result -> <<Todo("statement", node)>>
         [] Now = "loop" -> <<Todo("fortest", node)>>
         [] OTHER -> << >>)
        \o From(2)

-----------------------------------------------------------------------------
(* The machine.                                                            *)
Running == patched
Instr == out.code[pc]
Shown ==
  CASE Instr.op \in {"act", "test"} -> Instr
    [] Instr.op = "always" /\ Instr.arg = 0 -> [op |-> "trap", arg |-> 0]
    [] Instr.op = "leave" /\ returns = << >> -> [op |-> "end", arg |-> 0]
    [] OTHER -> [op |-> "silent", arg |-> 0]

MachineStep ==
  /\ Running /\ Shown.op = "silent"
  /\ pc' = CASE Instr.op = "always" -> pc + Instr.arg
             [] Instr.op = "equal" /\ ~flag -> pc + Instr.arg
             [] Instr.op = "notequal" /\ flag -> pc + Instr.arg
             [] Instr.op = "call" -> pc + Instr.arg
             [] Instr.op = "leave" -> Head(returns)
             [] OTHER -> pc + 1
  /\ returns' = CASE Instr.op = "call" -> <<pc + 1>> \o returns
                  [] Instr.op = "leave" -> Tail(returns)
                  [] OTHER -> returns
  /\ UNCHANGED <<vars, flag, rest>>

MeaningStep ==
  /\ Running /\ Shown.op # "silent" /\ Meaning.op = "silent"
  /\ rest' = Unfolded
  /\ UNCHANGED <<vars, machine>>

Together ==
  /\ Running /\ Shown.op \in {"act", "test"} /\ Meaning = Shown
  /\ flag' \in IF Shown.op = "test" THEN BOOLEAN ELSE {flag}
  /\ pc' = pc + 1 /\ rest' = Taken(flag')
  /\ UNCHANGED <<vars, returns>>

Start ==
  /\ patched' /\ ~patched
  /\ pc' = offsets[main]
  /\ rest' = Called(main)
  /\ UNCHANGED <<returns, flag>>

RunInit == Init /\ pc = 0 /\ returns = << >> /\ flag = FALSE /\ rest = << >>
RunNext ==
  \/ Next /\ (Start \/ (~patched' /\ UNCHANGED <<machine, rest>>))
  \/ (MachineStep \/ MeaningStep \/ Together)
RunSpec == RunInit /\ [][RunNext]_runvars /\ WF_runvars(RunNext)

-----------------------------------------------------------------------------
(* What the generator expects of a unit.  A variable was found by the scan;*)
(* a function that is called is in the unit; break and continue stand in   *)
(* the body of a loop; a throw stands in no catch clause, unless in a try  *)
(* body there, and leaves no function for a handler of its caller; a       *)
(* conditional branch reaches its label.                                   *)
LoopPoints == {"while", "dowhile", "for", "step"}
Innermost(points, i) ==
  /\ i \in DOMAIN todo /\ todo[i].at \in points
  /\ \A j \in 1..(i - 1) : todo[j].at \notin points
Expected ==
  /\ AtStatement({"declare"}) => Node.name \in locals
  /\ AtStatement({"call"}) => Node.name \in DOMAIN offsets
  /\ AtStatement({"break", "continue"}) => \E i \in DOMAIN todo : Innermost(LoopPoints, i) /\ todo[i].at # "for"
  /\ AtStatement({"throw"}) => \A i \in DOMAIN todo : Innermost({"catch"}, i) => todo[i].clause = 0
  /\ Running /\ Now = "throw" =>
       First({"handler"}) = 0 \/ First({"handler"}) < First({"frame"})
  /\ \A p \in out.patches : p.when \in {"equal", "notequal"} /\ p.to \in DOMAIN out.labels =>
       out.labels[p.to] - p.at \in (-Reach)..(Reach - 1)

(* The code does what the statements say: whatever the results of the      *)
(* conditions, it evaluates the same expressions and conditions in the     *)
(* same order, and ends, or hangs for want of a handler, when they do.     *)
SameBehaviour ==
  (Running /\ Shown.op # "silent" /\ Meaning.op # "silent") => Shown = Meaning

(* The code never loops without evaluating anything: code generation comes *)
(* to an end, and then the machine always gets to the next thing that      *)
(* shows.                                                                  *)
Progress == []<>(Running /\ Shown.op # "silent")
=============================================================================
