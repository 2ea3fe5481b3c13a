---------------------------- MODULE MCDocumented ----------------------------
(***************************************************************************)
(* What the comments of the back end say its code does, tried call by      *)
(* call, as a test session does it: each call runs until it is back,       *)
(* cannot go on, or has taken MaxSteps instructions, and its outcome is    *)
(* written down.  The expectations are those of the comments and of the    *)
(* language, never of the code.                                            *)
(***************************************************************************)
EXTENDS MCExecution

CONSTANT MaxSteps     \* no call below needs as many instructions

Copied(d, s, n) == [a \in Area(d, n) |-> Text[s + a - d]]
Call(of, t) == [of |-> of, task |-> t]
Stub(of, name, arguments, own, promise, result) ==
  Call(of, StubTask(name, arguments, own, promise, TRUE, result))
Difference == Binary("-", Name("x"), Name("y"))

Documented ==
  << Stub("memset", "memset", <<100, 7, 3>>, Area(100, 3), [a \in Area(100, 3) |-> 7], << >>),
     (* "save dest for return"                                             *)
     Stub("memcpy", "memcpy", <<100, 104, 2>>, Area(100, 2), Copied(100, 104, 2), <<100>>),
     (* "same as memcpy for now"                                           *)
     Stub("memmove", "memmove", <<100, 104, 2>>, Area(100, 2), Copied(100, 104, 2), <<100>>),
     (* "returns 0 if equal": nothing, and one character                   *)
     Stub("memcmp of 0", "memcmp", <<100, 104, 0>>, {}, << >>, <<0>>),
     Stub("memcmp of 1", "memcmp", <<100, 104, 1>>, {}, << >>, <<0>>),
     (* "count bytes until null"                                           *)
     Stub("strlen", "strlen", <<100>>, {}, << >>, <<2>>),
     (* without a word, so what their names say                            *)
     Stub("strcpy", "strcpy", <<100, 104>>, Area(100, 3), Copied(100, 104, 3), <<100>>),
     Stub("strcmp", "strcmp", <<100, 100>>, {}, << >>, <<0>>),
     (* "abs(x) = x < 0 ? -x : x"                                          *)
     Stub("abs of -2", "abs", <<-2>>, {}, << >>, <<Magnitude(-2)>>),
     Stub("abs of 1", "abs", <<1>>, {}, << >>, <<Magnitude(1)>>),
     (* "return NULL"                                                      *)
     Stub("malloc", "malloc", <<4>>, {}, << >>, <<0>>),
     (* "reuse temps for deeply nested expressions": x - y is none; and    *)
     (* one that is, whose value is that of the language still             *)
     Call("x - y", MainTask(<<Difference, Lit(0)>>, {"first"})),
     Call("x - (x - ...)", MainTask(<<Difference, Deep[10]>>, {"second"})),
     (* "lr save + back chain": room that is not the variables'            *)
     Call("x and a call", MainTask(<<Lit(0), Calls("negate", <<Name("y")>>)>>, {"variables"})) >>

DocumentedTasks == {Documented[i].task : i \in DOMAIN Documented}

-----------------------------------------------------------------------------
VARIABLES
  turn,        \* the call being made, or one past the last
  steps,       \* instructions it has taken
  outcome      \* what became of the calls made so far

sessionVars == <<vars, turn, steps, outcome>>
Finished == turn > Len(Documented)

(* A call that has taken MaxSteps instructions is given up.                *)
Stays == CallerKept /\ (InCode => Runs(machine, Instruction))
GoesOn == InCode /\ Stays /\ steps < MaxSteps

Outcome ==
  IF ~Stays THEN "leaves its memory"
  ELSE IF ~Returned THEN "does not return"
  ELSE IF ~ResultRight THEN "wrong value"
  ELSE "as documented"

SessionInit ==
  /\ task = Documented[1].task /\ machine = Start(task)
  /\ turn = 1 /\ steps = 0 /\ outcome = << >>

Proceed ==
  /\ ~Finished /\ GoesOn
  /\ Next
  /\ steps' = steps + 1
  /\ UNCHANGED <<turn, outcome>>

NoteOutcome ==
  /\ ~Finished /\ ~GoesOn
  /\ outcome' = outcome @@ (Documented[turn].of :> Outcome)
  /\ turn' = turn + 1
  /\ steps' = 0
  /\ IF turn = Len(Documented) THEN UNCHANGED vars
     ELSE task' = Documented[turn'].task /\ machine' = Start(task')

SessionNext == Proceed \/ NoteOutcome
SessionSpec == SessionInit /\ [][SessionNext]_sessionVars /\ WF_sessionVars(SessionNext)

(* At the end of the session every call has done what is said of it.       *)
AsDocumented == Finished => \A call \in DOMAIN outcome : outcome[call] = "as documented"
=============================================================================
