-------------------------- MODULE MCCodeGenerator --------------------------
(***************************************************************************)
(* Programs for CompiledCode: every kind of statement in every other, and  *)
(* jumps after a nested statement.  What the generator expects of a unit   *)
(* holds of all of them: TLC stops where it does not.                      *)
(***************************************************************************)
EXTENDS CompiledCode, SequencesExt

CONSTANTS f, v   \* names

(* Trees.                                                                  *)
Act(n) == [kind |-> "act", id |-> n]
Declare(n, name) == [kind |-> "declare", id |-> n, name |-> name]
Call(name) == [kind |-> "call", name |-> name]
Leaf(kind) == [kind |-> kind]
Block(body) == [kind |-> "block", body |-> body]
If(n, s, otherwise) == [kind |-> "if", id |-> n, then |-> s, otherwise |-> otherwise]
While(n, s) == [kind |-> "while", id |-> n, body |-> s]
DoWhile(n, s) == [kind |-> "dowhile", id |-> n, body |-> s]
For(init, test, step, s) == [kind |-> "for", init |-> init, test |-> test, step |-> step, body |-> s]
Try(s, clauses) == [kind |-> "try", body |-> s, clauses |-> clauses]

(* Small statements with numbers from n on, in a loop or not, and where a  *)
(* throw may stand or not.  A for statement declares its variable only     *)
(* where pre_scan_locals looks.                                            *)
Leaves(n, loop, throw) ==
  {Act(n), Call(f), Leaf("return")}
    \cup (IF loop THEN {Leaf("break"), Leaf("continue")} ELSE {})
    \cup (IF throw THEN {Leaf("throw")} ELSE {})

Small(n, loop, throw, scanned) ==
  {If(n, s, e) : s \in Leaves(n + 1, loop, throw), e \in {<< >>, <<Act(n + 2)>>}}
    \cup {While(n, s) : s \in Leaves(n + 1, TRUE, throw)}
    \cup {DoWhile(n, s) : s \in Leaves(n + 1, TRUE, throw)}
    \cup {For(<<IF scanned THEN Declare(n, v) ELSE Act(n)>>, <<n + 1>>, <<n + 2>>, s) :
            s \in Leaves(n + 3, TRUE, throw)}
    \cup {For(<< >>, << >>, << >>, Block(<<Act(n), s>>)) : s \in Leaves(n + 3, TRUE, throw)}
    \cup {Try(Block(<<s>>), <<Block(<<c>>)>>) :
            s \in Leaves(n, loop, TRUE), c \in Leaves(n + 1, loop, FALSE)}

(* Two levels, with something after the inner statement in each body.      *)
Large(n) ==
  LET unseen(s) == Block(<<s, Act(n + 6)>>)
      seen(s) == Block(<<s, Leaf("other"), Declare(n + 6, v)>>)
  IN  {If(n, seen(s), e) : s \in Small(n + 1, FALSE, TRUE, TRUE),
                              e \in {<< >>, <<Act(n + 7)>>}}
        \cup {If(n, Act(n + 7), <<seen(s)>>) : s \in Small(n + 1, FALSE, TRUE, TRUE)}
        \cup {While(n, seen(s)) : s \in Small(n + 1, TRUE, TRUE, TRUE)}
        \cup {DoWhile(n, unseen(s)) : s \in Small(n + 1, TRUE, TRUE, FALSE)}
        \cup {For(<<Act(n + 7)>>, t, <<n + 8>>, seen(s)) :
                s \in Small(n + 1, TRUE, TRUE, TRUE), t \in {<< >>, <<n>>}}
        \cup {Try(unseen(s), c) : s \in Small(n + 1, FALSE, TRUE, FALSE),
                c \in {<< >>, <<Block(<<Act(n + 7)>>), Block(<<Act(n + 8)>>)>>}}
        \cup {Try(Block(<<Leaf("throw")>>), <<unseen(s)>>) : s \in Small(n + 1, FALSE, FALSE, FALSE)}

(* A small statement and, after it, a jump: the targets are restored.      *)
Pairs(n) ==
  LET jump(loop) == {If(n + 8, s, << >>) : s \in Leaves(n + 9, loop, TRUE)}
  IN  {While(n, Block(<<s, j>>)) : s \in Small(n + 1, TRUE, TRUE, TRUE), j \in jump(TRUE)}
        \cup {Try(Block(<<s, j>>), <<Block(<<Act(n + 7)>>)>>) :
                s \in Small(n + 1, FALSE, TRUE, FALSE), j \in jump(FALSE)}
        \cup {Block(<<s, j>>) : s \in Small(n + 1, FALSE, TRUE, TRUE), j \in jump(FALSE)}

Helper == Block(<<Declare(50, v), If(51, Leaf("return"), << >>), Act(52)>>)
Unit(s) ==
  <<[name |-> main, body |-> Block(<<s, Act(40)>>)], [name |-> f, body |-> Helper]>>
MCPrograms ==
  {p : p \in {Unit(s) : s \in Large(1) \cup Pairs(1)}
           \cup {Reverse(Unit(s)) : s \in Small(1, FALSE, TRUE, TRUE)}}

(* The nodes of these trees: five levels below a function's body.          *)
Children(s) ==
  LET parts == CASE s.kind = "block" -> s.body
                 [] s.kind = "if" -> <<s.then>> \o s.otherwise
                 [] s.kind \in {"while", "dowhile"} -> <<s.body>>
                 [] s.kind = "for" -> s.init \o <<s.body>>
                 [] s.kind = "try" -> <<s.body>> \o s.clauses
                 [] OTHER -> << >>
  IN  {parts[i] : i \in DOMAIN parts}
WithChildren(nodes) == nodes \cup UNION {Children(s) : s \in nodes}
MCStatement ==
  LET bodies == {p[i].body : p \in MCPrograms, i \in {1, 2}}
  IN  {s : s \in WithChildren(WithChildren(WithChildren(WithChildren(WithChildren(WithChildren(bodies))))))}

UnitsExpected == Assert(Expected, "the unit is not what the generator expects")
=============================================================================
