----------------------------- MODULE MCExecution -----------------------------
(***************************************************************************)
(* Tasks for Execution: calls of every stub on small memories, and units   *)
(* of a main function with a list of two expressions and two helpers.      *)
(* Eval is the meaning of expressions: what the language says of a value,  *)
(* without registers.                                                      *)
(***************************************************************************)
EXTENDS Execution, StandardLibrary, Expressions

Filled == [n \in 0..12 |-> 77]     \* what the registers hold before
Stack == {Entry - 4 * n : n \in -2..30}
Bytes == 100..107

-----------------------------------------------------------------------------
(* Stubs, on a memory with "AA" at 100, "AB" at 104 and zeros between.      *)
Text == [a \in Bytes |-> IF a \in {100, 101, 104} THEN 65 ELSE IF a = 105 THEN 66 ELSE 0]
StubTask(name, arguments, own, promise, returns, result) ==
  [code |-> Stubs[name], enter |-> 1,
   r |-> [n \in 0..12 |-> IF n = 1 THEN Entry
                          ELSE IF n - 2 \in DOMAIN arguments THEN arguments[n - 2] ELSE Filled[n]],
   mem |-> [a \in Stack |-> 55] @@ Text,
   own |-> own \cup {Entry + 4, Entry - FrameSize}, promise |-> promise,
   returns |-> returns, result |-> result]

Area(d, n) == d..(d + n - 1)

Memsets ==
  {StubTask("memset", <<d, v, n>>, Area(d, n), [a \in Area(d, n) |-> v % 256], TRUE, << >>) :
     d \in {100, 103}, v \in {0, 7, 300}, n \in 0..5}

(* What a stub gives back is what the comment in front of it says.  Those  *)
(* that do otherwise, the other six with a loop and abs of a positive      *)
(* number, are called in MCDocumented.  pure_virtual does not return: it   *)
(* is an "infinite loop (self-branch)".                                    *)
Magnitudes == {StubTask("abs", <<x>>, {}, << >>, TRUE, <<Magnitude(x)>>) : x \in -2..0}
Others ==
  {StubTask(f, <<3>>, {}, << >>, TRUE, <<0>>) :
     f \in {"printf", "sprintf", "malloc", "calloc", "realloc", "operator_new"}}
    \cup {StubTask(f, <<3>>, {}, << >>, TRUE, << >>) : f \in {"free", "operator_delete"}}
    \cup {StubTask("pure_virtual", << >>, {}, << >>, FALSE, << >>)}

-----------------------------------------------------------------------------
(* The meaning of an expression in a memory: its value and the memory      *)
(* after it.  at is where the variables are.                               *)
Num(b) == IF b THEN 1 ELSE 0
Applied(op, x, y) ==
  CASE op = "+" -> x + y [] op = "-" -> x - y [] op = "*" -> x * y
    [] op = "/" -> Quotient(x, y) [] op = "%" -> x - y * Quotient(x, y)
    [] op = "&" -> And32(x, y) [] op = "|" -> Or32(x, y) [] op = "^" -> Xor32(x, y)
    [] op = "<<" -> x * 2^y [] op = ">>" -> x \div 2^y
    [] op = "==" -> Num(x = y) [] op = "!=" -> Num(x # y) [] op = "<" -> Num(x < y)
    [] op = ">" -> Num(x > y) [] op = "<=" -> Num(x <= y) [] op = ">=" -> Num(x >= y)
    [] op = "&&" -> Num(x # 0 /\ y # 0) [] op = "||" -> Num(x # 0 \/ y # 0)
Means(v, mem) == [v |-> v, mem |-> mem]
Become(a, v, mem) == Means(v, [mem EXCEPT ![a] = v])

RECURSIVE Eval(_, _, _)
Eval(e, mem, at) ==
  CASE e.kind \in {"int", "bool", "char", "sizeof"} -> Means(e.value, mem)
    [] e.kind = "name" -> Means(mem[at[e.name]], mem)
    [] e.kind = "cast" -> Eval(e.operand, mem, at)
    [] e.kind = "ternary" ->
         LET test == Eval(e.test, mem, at)
         IN  Eval(IF test.v # 0 THEN e.then ELSE e.otherwise, test.mem, at)
    [] e.kind = "index" ->
         LET object == Eval(e.object, mem, at)
             index == Eval(e.index, object.mem, at)
         IN  Means(index.mem[object.v + 4 * index.v], index.mem)
    [] e.kind = "call" ->      \* negate(n) and second(n, m)
         LET v(i) == Eval(e.arguments[i], mem, at).v
         IN  Means(IF e.callee = "negate" THEN -v(1) ELSE v(2), mem)
    [] e.kind = "unary" /\ e.op = "&" -> Means(at[e.operand.name], mem)
    [] e.kind = "unary" /\ e.op # "&" ->
         LET x == Eval(e.operand, mem, at)
         IN (CASE e.op = "-" -> Means(-x.v, x.mem)
               [] e.op = "~" -> Means(-1 - x.v, x.mem)
               [] e.op = "!" -> Means(Num(x.v = 0), x.mem)
               [] e.op = "*" -> Means(x.mem[x.v], x.mem)
               [] e.op = "++" -> Become(at[e.operand.name], x.v + 1, x.mem)
               [] e.op = "--" -> Become(at[e.operand.name], x.v - 1, x.mem))
    [] e.kind = "binary" /\ e.op = "=" ->
         LET x == Eval(e.right, mem, at) IN Become(at[e.left.name], x.v, x.mem)
    [] e.kind = "binary" /\ e.op \in Compound ->
         LET x == Eval(e.right, mem, at)
         IN  Become(at[e.left.name], Applied(BaseOf[e.op], mem[at[e.left.name]], x.v), x.mem)
    [] e.kind = "binary" /\ e.op \notin Compound \cup {"="} ->
         LET x == Eval(e.left, mem, at)
             y == Eval(e.right, x.mem, at)
         IN  Means(Applied(e.op, x.v, y.v), y.mem)

(* How many temporaries an expression takes.                               *)
RECURSIVE Uses(_)
Uses(e) ==
  CASE e.kind = "binary" /\ e.op = "=" -> Uses(e.right)
    [] e.kind = "binary" /\ e.op # "=" -> Uses(e.left) + Uses(e.right) + (IF e.op = "%" THEN 2 ELSE 1)
    [] e.kind = "index" -> Uses(e.object) + Uses(e.index) + 2
    [] e.kind \in {"unary", "cast"} -> Uses(e.operand)
    [] e.kind = "ternary" -> Uses(e.test) + Uses(e.then) + Uses(e.otherwise)
    [] e.kind = "call" -> FoldLeft(LAMBDA sum, a : sum + Uses(a), 0, e.arguments)
    [] OTHER -> 0

-----------------------------------------------------------------------------
(* Units:  int main() { int x = 5; int y = 3; int p = &x;                  *)
(*                      int a[2] = { first, second }; return y; }          *)
Lit(n) == [kind |-> "int", value |-> n]
Name(v) == [kind |-> "name", name |-> v]
Binary(op, l, r) == [kind |-> "binary", op |-> op, left |-> l, right |-> r]
Unary(op, e) == [kind |-> "unary", op |-> op, operand |-> e]
Calls(f, arguments) == [kind |-> "call", callee |-> f, arguments |-> arguments]
Ternary(c, t, f) == [kind |-> "ternary", test |-> c, then |-> t, otherwise |-> f]
Index(o, i) == [kind |-> "index", object |-> o, index |-> i]

Declared(name, init, list) ==
  [kind |-> "declare", name |-> name, init |-> init, list |-> list,
   length |-> IF list = << >> THEN 1 ELSE Len(list)]
Returns(e) == [kind |-> "return", init |-> e]
Main(list) ==
  [name |-> "main", parameters |-> << >>,
   body |-> <<Declared("x", <<Lit(5)>>, << >>), Declared("y", <<Lit(3)>>, << >>),
              Declared("p", <<Unary("&", Name("x"))>>, << >>), Declared("a", << >>, list),
              Returns(<<Name("y")>>)>>]
Helpers ==
  <<[name |-> "second", parameters |-> <<"n", "m">>, body |-> <<Returns(<<Name("m")>>)>>],
    [name |-> "negate", parameters |-> <<"n">>, body |-> <<Returns(<<Unary("-", Name("n"))>>)>>]>>

(* main with a list of two expressions; told says what is promised of it:  *)
(* "first" and "second", the values of the two, the second's with what it  *)
(* assigns, and "variables", that x, y and p are in their places after it. *)
MainTask(list, told) ==
  LET functions == <<Helpers[1], Main(list), Helpers[2]>>
      unit == Unit(functions)
      r1 == Entry - FrameOf(functions[2])
      at == [v \in {"x", "y", "p", "a"} |-> r1 + Places(functions[2]).vars[v].at]
      declared == [[a \in Stack |-> 55] EXCEPT ![at.x] = 5, ![at.y] = 3, ![at.p] = at.x]
      one == Eval(list[1], declared, at)
      two == Eval(list[2], one.mem, at)
      promised == (IF "first" \in told THEN {at.a} ELSE {})
                    \cup (IF "second" \in told THEN {at.a + 4} ELSE {})
                    \cup (IF "variables" \in told THEN {at.x, at.y, at.p} ELSE {})
  IN  [code |-> unit.code, enter |-> unit.offsets["main"], r |-> [Filled EXCEPT ![1] = Entry],
       mem |-> [a \in Stack |-> 55],
       own |-> {a \in Stack : a < Entry} \cup {Entry + 4},
       promise |-> [a \in promised |->
                      CASE a = at.a -> one.v [] a = at.a + 4 -> two.v [] OTHER -> two.mem[a]],
       returns |-> TRUE,
       result |-> IF "second" \in told THEN <<two.mem[at.y]>> ELSE << >>]

(* Three defects of the code (MCDocumented has each) bound what can hold   *)
(* of a list: its first temporary is r3, where the value itself is made,   *)
(* the eleventh is r3 again, and a call overwrites x.  So an element is    *)
(* told of if it takes no temporary, or begins behind the first and ends   *)
(* before the eleventh, and the variables if there is no call.             *)
Before(list, i) == FoldLeft(LAMBDA sum, e : sum + Uses(e), 0, SubSeq(list, 1, i - 1))
BehindFirst(list, i) ==
  Uses(list[i]) = 0 \/ (Before(list, i) > 0 /\ Before(list, i) + Uses(list[i]) <= TempGprCount)
IsCall(e) == e.kind = "call"
Told(list) ==
  {t \in {"first", "second", "variables"} :
     /\ BehindFirst(list, IF t = "first" THEN 1 ELSE 2)
     /\ t = "variables" => ~IsCall(list[2])}

Variables == {Name("x"), Name("y")}
Atoms == Variables \cup {Lit(2)}
Operators == {"+", "-", "*", "/", "%", "&", "|", "^", "<<", ">>", "==", "!=", "<", ">", "<=", ">=", "&&", "||"}
Simple == {Binary(op, l, r) : op \in Operators, l, r \in Atoms}
Nested ==
  {Binary(op, Binary(inner, l, Lit(2)), r) : op \in {"-", "/", "%", "<<", "<", "&&", "||"},
     inner \in {"-", "*", "%", "=="}, l, r \in Variables}
    \cup {Binary(op, l, Binary(inner, r, Lit(2))) : op \in {"-", "*", "<", "&&", "||", "^"},
     inner \in {"-", "/", "%", "<<", "=="}, l, r \in Variables}

(* x + (y + (x + ...)), with n temporaries.                                *)
Deep[n \in Nat] == IF n = 0 THEN Name("y") ELSE Binary("-", Name("x"), Deep[n - 1])

Assignments ==
  {Binary(op, Name("y"), e) : op \in Compound \cup {"="}, e \in {Lit(2), Binary("-", Name("x"), Lit(2))}}
    \cup {Unary(op, Name("x")) : op \in {"++", "--"}}
    \cup {Binary("-", Unary("++", Name("y")), Name("y"))}
Plain ==
  {Lit(n) : n \in {0, 32767, 32768, 65535, 65536, 98304, 305419896}}
    \cup {Unary(op, e) : op \in {"-", "~", "!"}, e \in Atoms \cup {Lit(0), Lit(40000)}}
    \cup {Unary("*", Name("p")), Unary("&", Name("y")), [kind |-> "sizeof", value |-> 4],
          [kind |-> "cast", operand |-> Name("x")], [kind |-> "char", value |-> 65],
          [kind |-> "bool", value |-> 1]}
    \cup {Ternary(c, Lit(40000), Unary("-", Name("y"))) : c \in {Lit(0), Name("x")}}
Branching ==
  {Ternary(Binary("<", l, r), Binary("-", l, r), Ternary(l, Binary("*", l, r), r)) : l, r \in Atoms \cup {Lit(0)}}
Indexed == {Index(Name("p"), Lit(0)), Binary("-", Index(Name("p"), Binary("-", Lit(1), Lit(1))), Name("y"))}
Called ==
  {Calls("negate", <<e>>) : e \in Atoms} \cup {Calls("second", <<l, r>>) : l, r \in Atoms}

Lists ==
  {<<Deep[n], e>> : n \in {1, 8}, e \in Simple \cup Nested \cup Assignments \cup Branching}
    \cup {<<Deep[n], e>> : n \in {1, 6}, e \in Indexed}
    \cup {<<Deep[m], Deep[n]>> : m, n \in 0..11}
    \cup {<<e, d>> : e, d \in Plain}
    \cup {<<d, e>> : e \in Called, d \in {Lit(1), Deep[3]}}
    \cup {<<Name("y"), Binary("-", e, Name("y"))>> : e \in Called}

MCTasks == Memsets \cup Magnitudes \cup Others \cup {MainTask(list, Told(list)) : list \in Lists}
=============================================================================
