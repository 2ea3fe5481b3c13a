------------------------------ MODULE Execution ------------------------------
(***************************************************************************)
(* What the emitted code does when it runs: the stubs of StandardLibrary   *)
(* and functions compiled by Expressions, on PpcMachine.  A task is code,  *)
(* where it is entered, the registers and the memory at that moment, and   *)
(* what it is meant to leave behind:                                       *)
(*   own      the addresses it may store to                                *)
(*   promise  address -> the value it is to put there in the end           *)
(*   returns  whether it is to come back to its caller                     *)
(*   result   the value of r3 then, if there is one: a sequence            *)
(***************************************************************************)
EXTENDS PpcMachine

CONSTANTS Tasks, Entry       \* Entry: r1 when a task is entered

ASSUME EntryAssumption == Entry \in Nat \ {0}

VARIABLES task, machine
vars == <<task, machine>>

Start(t) == [pc |-> t.enter, r |-> t.r, lr |-> Outside, cr |-> 2, mem |-> t.mem]

Init == task \in Tasks /\ machine = Start(task)

Returned == machine.pc = Outside
InCode == machine.pc \in DOMAIN task.code
Instruction == task.code[machine.pc]

(* One instruction.  The kinds are actions of their own.                   *)
Step(ops) ==
  /\ InCode /\ Instruction.op \in ops /\ Runs(machine, Instruction)
  /\ machine' = After(machine, Instruction)
  /\ UNCHANGED task

Compute == Step({11, 14, 15, 24, 31})
Branch == Step({16, 18, 19})
LoadWord == Step({32, 34})
StoreWord == Step({36, 37, 38})

Next == Compute \/ Branch \/ LoadWord \/ StoreWord

(* A processor that is running goes on.                                    *)
Spec == Init /\ [][Next]_vars /\ WF_vars(Next)

-----------------------------------------------------------------------------
(* The caller's state is safe: the code runs nowhere but in itself until   *)
(* it is back at its caller, with the stack pointer it was entered with,   *)
(* and it stores in its own frame and destination and nowhere else.        *)
CallerKept ==
  /\ InCode \/ Returned
  /\ Returned => machine.r[1] = Entry
  /\ \A a \in DOMAIN task.mem \ task.own : machine.mem[a] = task.mem[a]

(* When the code is back at its caller, what it was to leave behind is     *)
(* there: the bytes, the variables, and the value it returns.              *)
Kept == \A a \in DOMAIN task.promise : machine.mem[a] = task.promise[a]
ResultRight ==
  Returned => Kept /\ (task.result # << >> => machine.r[3] = task.result[1])

(* What the code was called for is done in the end and stays so, and a     *)
(* routine that is to come back to its caller does.                        *)
Delivers == <>[](Kept /\ (task.returns => Returned))
=============================================================================
