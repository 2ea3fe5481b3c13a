------------------------- MODULE MCSemanticAnalyzer -------------------------
(***************************************************************************)
(* Units for SemanticAnalyzer, and what it must say of them.  The bodies   *)
(* are all the trees the grammar allows with a few nodes of the kinds in   *)
(* Alphabet; some larger units bring the declarations and the expressions. *)
(* The reference below knows no order of visits and no counters: it goes   *)
(* from a node to the nodes around it and to the declarations before it.   *)
(***************************************************************************)
EXTENDS SemanticAnalyzer

CONSTANTS MaxNodes,    \* of the body of the function under test
          Alphabet     \* the kinds of statements in it

(* Building units.                                                         *)
N(kind, in, role) ==
  [kind |-> kind, in |-> in, role |-> role, name |-> "", owner |-> "", type |-> IntType,
   special |-> FALSE, hoisted |-> FALSE]
Named(kind, in, role, name) == [N(kind, in, role) EXCEPT !.name = name]
Typed(node, base, depth) == [node EXCEPT !.type = [base |-> base, depth |-> depth]]
Of(node, class) == [node EXCEPT !.owner = class]
Void(node) == Typed(node, "void", 0)

Children(t, p) == {k \in DOMAIN t : t[k].in = p /\ t[k].role \notin {"cond", "step"}}
OnPath(t, p) == \A k \in (p + 1)..Len(t) : t[k].in >= p
Loops == {"while", "do", "for"}

(* Where the parser accepts a statement or a declaration of a kind.        *)
Accepts(t, p, kind) ==
  LET before == {t[k].kind : k \in Children(t, p)}
  IN  CASE t[p].kind \in {"function", "block", "case", "catch"} -> kind \notin {"case", "catch"}
        [] t[p].kind \in {"while", "do"} -> before = {} /\ kind \notin {"case", "catch", "variable"}
        [] t[p].kind = "for" -> before \subseteq {"variable"} /\ kind \notin {"case", "catch"}
                                 /\ (kind = "variable" => before = {})
        [] t[p].kind = "if" -> Cardinality(Children(t, p)) < 2 /\ kind \notin {"case", "catch", "variable"}
        [] t[p].kind = "switch" -> kind = "case"
        [] t[p].kind = "try" -> IF before = {} THEN kind = "block" ELSE kind = "catch"
        [] OTHER -> FALSE

(* A use of x is the statement `*x;`, so that it tells a pointer x from an *)
(* int x; declarations of both come about.  Conditions use x too.          *)
Added(p, kind, last, parent) ==
  CASE kind = "use" -> <<N("statement", p, "body"), N("dereference", last + 1, "part"), Named("use", last + 2, "part", "x")>>
    [] kind \in {"while", "do", "if", "switch"} ->
         <<N(kind, p, "body"), Named("use", last + 1, "cond", "x")>>
    [] kind = "for" ->
         <<N(kind, p, "body"), Named("use", last + 1, "cond", "x"), Named("use", last + 1, "step", "x")>>
    [] kind = "variable" -> <<Typed(Named(kind, p, IF parent = "for" THEN "init" ELSE "body", "x"), "int", last % 2)>>
    [] OTHER -> <<N(kind, p, "body")>>

RECURSIVE Trees(_, _)
Trees(t, n) ==
  {t} \cup
  IF n = 0 THEN {}
  ELSE UNION {Trees(t \o Added(p, kind, Len(t), t[p].kind), n - 1) :
                <<p, kind>> \in {<<p, kind>> \in (1..Len(t)) \X Alphabet :
                                   OnPath(t, p) /\ Accepts(t, p, kind)}}

(* The function under test: a free one, with or without a parameter x, or  *)
(* an operator or a method of class C, which has a member x; and another   *)
(* one after it, to which nothing of the first may leak.                   *)
Prologues ==
  {<<Void(Named("function", 0, "body", "f"))>>,
   <<Named("function", 0, "body", "f"), Named("parameter", 1, "part", "x")>>}
  \cup
  {<<Of(Named("class", 0, "body", "C"), "C"), Typed(Named("member", 1, "part", "x"), "int", 1),
      [Of(Named("function", 0, "body", "f"), "C") EXCEPT !.special = s]>> : s \in BOOLEAN}
Epilogue(n) ==
  <<Void(Named("function", 0, "body", "g")), N("break", n + 1, "body"), N("continue", n + 1, "body"),
    N("return", n + 1, "body"), Named("use", n + 4, "part", "x")>>
Bodies == UNION {Trees(p, MaxNodes) : p \in Prologues}
Tested == {b \o Epilogue(Len(b)) : b \in Bodies}

(* Registration: an enum in a namespace, one in a typedef and one in a     *)
(* template; classes with bases, one of them defined inside a typedef; a   *)
(* prototype and the function; globals used before their declaration.      *)
Registration(hoisted, alias) ==
  <<Of(Named("class", 0, "body", "B"), "B"),                                     \* 1
    Typed(Named("member", 1, "part", "m"), "C", 1),
    [Of(Named("class", 0, "body", "C"), "C") EXCEPT !.hoisted = hoisted],        \* 3
    Of(N("base", 3, "init"), "B"), Named("member", 3, "part", "n"),
    Typed(Named("typedef", 0, "body", "A"), "C", alias),                         \* 6
    Named("namespace", 0, "body", "N"),                                          \* 7
    Named("enum", 7, "body", "E"), Named("enumerator", 8, "part", "e"),
    Named("variable", 7, "body", "v"),                                           \* 10
    Named("function", 7, "body", "h"), N("return", 11, "body"),
    Named("use", 12, "part", "v"),
    Named("function", 0, "body", "h"),                                           \* 14: a prototype
    Void(Named("parameter", 14, "part", "")),
    N("template", 0, "body"), N("enum", 16, "body"), Named("enumerator", 17, "part", "t"),
    [N("enum", 0, "body") EXCEPT !.hoisted = hoisted],                           \* 19
    Named("enumerator", 19, "part", "v"),
    Of(N("union", 0, "body"), "U"), Named("member", 21, "part", "m"),
    Void(Named("function", 0, "body", "f")),                                     \* 23
    Typed(Named("parameter", 23, "part", "a"), "A", 0),
    Typed(Named("parameter", 23, "part", "u"), "U", 0),
    N("if", 23, "body"), Named("use", 26, "cond", "x"),                          \* 26
    N("throw", 26, "body"), Named("use", 28, "part", "e"),
    N("return", 26, "body"), Named("use", 30, "part", "t"),                      \* 30
    N("try", 23, "body"), N("block", 32, "body"),                                \* 32
    N("class", 33, "body"),
    Named("variable", 33, "body", "y"), Named("use", 35, "init", "y"),           \* 35
    N("catch", 32, "body"), Typed(Named("parameter", 37, "part", "y"), "C", 0),
    N("statement", 37, "body"),                                                  \* 39
    Named("dot", 39, "part", "m"), Named("use", 40, "part", "y"),
    N("statement", 23, "body"),                                                  \* 42
    Named("arrow", 42, "part", "n"), Named("arrow", 43, "part", "m"), Named("use", 44, "part", "a"),
    N("statement", 23, "body"),                                                  \* 46
    Named("dot", 46, "part", "k"), Named("use", 47, "part", "u"),
    N("statement", 23, "body"),                                                  \* 49
    N("call", 49, "part"), Named("use", 50, "cond", "h"), Named("use", 50, "part", "y"),
    N("statement", 23, "body"), Named("use", 53, "part", "v"),
    Named("variable", 0, "body", "x")>>

(* Expressions from a function with an int i and a pointer p to class C,   *)
(* whose member n is a pointer to C; q is not declared, h is the function. *)
RECURSIVE ExpressionsAt(_, _, _, _)
ExpressionsAt(at, in, role, deep) ==
  LET inner(p, n) == ExpressionsAt(n, p, "part", deep - 1)
      one(kind) == {<<Typed(Named(kind, in, role, "n"), "C", 1)>> \o e : e \in inner(at, at + 1)}
      two(kind) == {<<N(kind, in, role)>> \o e \o <<Named("use", at, "part", n)>> :
                      e \in inner(at, at + 1), n \in {"i", "p"}}
      call(f) == {<<N("call", in, role), Named("use", at, "cond", f)>> \o e :
                    e \in {<< >>} \cup inner(at, at + 2)}
  IN  {<<Named("use", in, role, n)>> : n \in {"i", "p", "q"}} \cup {<<N("this", in, role)>>}
      \cup IF deep = 0 THEN {}
           ELSE UNION {one(k) : k \in {"address", "dereference", "cast", "new", "sizeof", "dot", "arrow"}}
                \cup UNION {two(k) : k \in {"assign", "compare", "index"}} \cup call("h") \cup call("q")

Expressions ==
  {<<Of(Named("class", 0, "body", "C"), "C"), Typed(Named("member", 1, "part", "n"), "C", 1),
     Typed(Named("function", 0, "body", "h"), "C", 1), Named("parameter", 3, "part", "i"),
     Typed(Named("function", 0, "body", "f"), "C", 0), Named("parameter", 5, "part", "i"),
     Typed(Named("parameter", 5, "part", "p"), "C", 1), N("statement", 5, "body")>> \o e :
       e \in ExpressionsAt(9, 8, "part", 2)}
  \cup {<<Void(Named("function", 0, "body", "f")), N("return", 1, "body"), N("ternary", 2, "part"),
          N("literal", 3, "part")>> \o <<N("literal", 3, "part"), N("literal", 3, "part")>>}

MCUnits == Tested \cup Expressions \cup {Registration(h, d) : h \in BOOLEAN, d \in 0..1}

-----------------------------------------------------------------------------
(* The reference.  Nodes around a node; what is not looked into.           *)
RECURSIVE Around(_)
Around(i) == IF i = 0 THEN {} ELSE {unit[i].in} \cup Around(unit[i].in)
Under(i, kinds, role) ==       \* i lies in the part role of a node of these kinds
  \E a \in Around(i) \ {0} : unit[a].kind \in kinds /\ \E k \in (Around(i) \cup {i}) \ {0} :
                               unit[k].in = a /\ unit[k].role = role
FunctionAround(i) == CHOOSE a \in Around(i) \ {0} : unit[a].kind = "function"
ScopeOf(i) ==     \* the innermost node around i with a scope of its own; a switch has none
  LET s == {a \in Around(i) \ {0} : unit[a].kind \in {"function", "block", "namespace", "catch", "for"}}
  IN  IF s = {} THEN 0 ELSE CHOOSE a \in s : \A b \in s : b <= a

(* Declarations: enumerators outside of functions belong to the unit.      *)
Global(i) == \A a \in Around(i) \ {0} : unit[a].kind \in {"namespace", "template", "enum"}
Declares(d) ==
  \/ unit[d].kind \in {"function", "variable", "parameter", "typedef"}
  \/ unit[d].kind \in {"enumerator", "class"} /\ Global(d)
DeclaredIn(d) == CASE unit[d].kind = "parameter" -> unit[d].in
                   [] unit[d].kind = "enumerator" -> 0
                   [] OTHER -> ScopeOf(d)
Place(d) == IF unit[d].kind = "enumerator" THEN d - 1000 ELSE IF unit[d].hoisted THEN d + 1000 ELSE d

(* Aliases; the members of a class, with those of the bases defined before.*)
RECURSIVE Real(_)
Real(t) ==
  IF \E d \in DOMAIN unit : unit[d].kind = "typedef" /\ unit[d].name = t.base
  THEN LET a == CHOOSE d \in DOMAIN unit : unit[d].kind = "typedef" /\ unit[d].name = t.base
           r == Real(unit[a].type)
       IN  [r EXCEPT !.depth = @ + t.depth]
  ELSE t
Definition(c) == CHOOSE d \in DOMAIN unit : unit[d].kind \in {"class", "union"} /\ unit[d].owner = c /\ Global(d)
IsClass(c) == \E d \in DOMAIN unit : unit[d].kind \in {"class", "union"} /\ unit[d].owner = c /\ Global(d)
RECURSIVE MemberOf(_, _)
MemberOf(c, n) ==     \* the nodes that declare n in class c or, if none does, in its bases
  LET own == {m \in DOMAIN unit : unit[m].kind = "member" /\ unit[m].in = Definition(c) /\ unit[m].name = n}
      bases == {unit[b].owner : b \in {k \in DOMAIN unit : unit[k].kind = "base" /\ unit[k].in = Definition(c)}}
  IN  IF own # {} THEN own
      ELSE UNION {MemberOf(b, n) : b \in {b \in bases : IsClass(b) /\ Place(Definition(b)) < Place(Definition(c))}}
HasMember(c, n) == IsClass(c) /\ MemberOf(c, n) # {}
TypeOfMember(c, n) == Real(unit[CHOOSE m \in MemberOf(c, n) : TRUE].type)

(* What name n means at node i: the declaration in the innermost scope     *)
(* that has one before i, in the unit one anywhere.                        *)
Before(d, i) ==     \* the init of a for comes before all of it
  \/ d < i /\ (d \notin Around(i) \/ unit[d].kind = "function")
  \/ unit[d].role = "init" /\ unit[d].in \in Around(i) /\ d \notin Around(i) \cup {i}
In(s, n, i) ==
  {d \in DOMAIN unit : /\ Declares(d) /\ unit[d].name = n /\ ~unit[d].special
                       /\ DeclaredIn(d) = s /\ (s # 0 => Before(d, i))}
OwnMember(s, n) == s # 0 /\ unit[s].special /\ HasMember(unit[s].owner, n)
Holding(n, i) == {s \in {0} \cup {ScopeOf(k) : k \in (Around(i) \cup {i}) \ {0}} : In(s, n, i) # {} \/ OwnMember(s, n)}
Innermost(n, i) == CHOOSE s \in Holding(n, i) : \A r \in Holding(n, i) : r <= s
Declaration(n, i) ==
  LET ds == In(Innermost(n, i), n, i) IN CHOOSE d \in ds : \A e \in ds : Place(d) <= Place(e)
MeansFunction(n, i) ==
  /\ Holding(n, i) # {} /\ ~OwnMember(Innermost(n, i), n)
  /\ unit[Declaration(n, i)].kind = "function"
TypeOfName(n, i) ==
  IF Holding(n, i) = {} THEN IntType
  ELSE IF OwnMember(Innermost(n, i), n) THEN TypeOfMember(unit[Innermost(n, i)].owner, n)
  ELSE LET d == Declaration(n, i)
       IN  IF unit[d].kind = "class" THEN [base |-> unit[d].owner, depth |-> 0] ELSE Real(unit[d].type)

PartOf(i, j) == Kids(i, {"part"})[j]
Arity(f) == Cardinality({k \in DOMAIN unit : unit[k].in = f /\ unit[k].kind = "parameter"})
CalleeName(c) == unit[Kids(c, {"cond"})[1]].name
Calls(c) == MeansFunction(CalleeName(c), c)
WrongCall(c) ==
  unit[c].kind = "call" /\ Calls(c) /\ Arity(Declaration(CalleeName(c), c)) # Len(Kids(c, {"part"}))

RECURSIVE Meaning(_)
Meaning(i) ==       \* the type of an expression
  LET n == unit[i]
      part == Meaning(PartOf(i, 1))
  IN  CASE n.kind \in {"literal"} -> n.type
        [] n.kind = "this" -> [base |-> "void", depth |-> 1]
        [] n.kind \in {"compare", "sizeof"} -> IntType
        [] n.kind = "use" -> TypeOfName(n.name, i)
        [] n.kind = "call" -> IF Calls(i) THEN TypeOfName(CalleeName(i), i) ELSE IntType
        [] n.kind = "assign" -> part
        [] n.kind = "ternary" -> Meaning(PartOf(i, 2))
        [] n.kind = "address" -> [part EXCEPT !.depth = @ + 1]
        [] n.kind \in {"dereference", "index"} -> [part EXCEPT !.depth = IF @ = 0 THEN 0 ELSE @ - 1]
        [] n.kind = "cast" -> Real(n.type)
        [] n.kind = "new" -> [Real(n.type) EXCEPT !.depth = @ + 1]
        [] n.kind \in {"dot", "arrow"} -> IF HasMember(part.base, n.name) THEN TypeOfMember(part.base, n.name)
                                          ELSE IntType

Examined(i) ==      \* not in a local type, a template, a sizeof or a refused call
  ~\E a \in Around(i) \ {0} :
     \/ unit[a].kind \in {"enum", "class", "union", "template", "sizeof"}
     \/ WrongCall(a) /\ \E k \in (Around(i) \cup {i}) \ {0} : unit[k].in = a /\ unit[k].role = "part"

ExpectedErrors ==
  {[what |-> w, node |-> i] : <<w, i>> \in
    {<<w, i>> \in {"break", "continue", "redefined", "return_value", "needs_pointer"} \X DOMAIN unit :
      /\ Examined(i)
      /\ CASE w = "break" -> unit[i].kind = "break" /\ ~Under(i, Loops \cup {"switch"}, "body")
           [] w = "continue" -> unit[i].kind = "continue" /\ ~Under(i, Loops, "body")
           [] w = "redefined" -> unit[i].kind = "variable" /\ ScopeOf(i) # 0
                                  /\ (In(ScopeOf(i), unit[i].name, i) # {} \/ OwnMember(ScopeOf(i), unit[i].name))
           [] w = "return_value" -> unit[i].kind = "return" /\ Kids(i, {"part"}) # << >>
                                     /\ Real(unit[FunctionAround(i)].type) = VoidType
           [] w = "needs_pointer" -> unit[i].kind = "arrow" /\ Meaning(PartOf(i, 1)).depth = 0}}

ExpectedWarnings ==
  {[what |-> w, node |-> i] : <<w, i>> \in
    {<<w, i>> \in {"undeclared", "arguments", "not_a_pointer", "no_member"} \X DOMAIN unit :
      /\ Examined(i)
      /\ CASE w = "undeclared" -> unit[i].kind = "use" /\ Holding(unit[i].name, i) = {}
           [] w = "arguments" -> WrongCall(i)
           [] w = "not_a_pointer" -> unit[i].kind \in {"dereference", "index"} /\ Meaning(PartOf(i, 1)).depth = 0
           [] w = "no_member" -> unit[i].kind \in {"dot", "arrow"} /\ IsClass(Meaning(PartOf(i, 1)).base)
                                  /\ ~HasMember(Meaning(PartOf(i, 1)).base, unit[i].name)}}

(* analyze() reports exactly what the places of the nodes and the          *)
(* declarations around them call for, each once: nothing is reported for   *)
(* a correct node, whatever was analysed before it, and nothing is missed. *)
Exactly(list, set) == ToSet(list) = set /\ Len(list) = Cardinality(set)
DiagnosticsRight ==
  todo = << >> => Exactly(errors_, ExpectedErrors) /\ Exactly(warnings_, ExpectedWarnings)

(* The analyser's comment on out-of-class methods: "Inject class members   *)
(* for out-of-class methods" (semantic_analyzer.cpp:370).  In a method     *)
(* whose class has a member of a name, no use of that name is undeclared.  *)
MethodsSeeMembers ==
  \A r \in ToSet(warnings_) :
    r.what = "undeclared" => ~HasMember(unit[FunctionAround(r.node)].owner, unit[r.node].name)

=============================================================================
