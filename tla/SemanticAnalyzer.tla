-------------------------- MODULE SemanticAnalyzer --------------------------
(***************************************************************************)
(* SemanticAnalyzer::analyze (src/src/semantic_analyzer.cpp) with the      *)
(* scopes of src/src/symbol_table.cpp: enumerators are collected, then the *)
(* declarations of the unit are registered, then every node is analysed.   *)
(*                                                                         *)
(* A unit is a sequence of nodes in source order; a node knows the node it *)
(* lies in (0: the unit itself) and which part of it it is.  The recursion *)
(* of the analyser over the tree is a stack of what is left to do; what a  *)
(* handler does after a recursive call is an item of its own.  A type is   *)
(* its base name and the depth of its pointers.  The diagnostics that ask  *)
(* whether one type can be assigned to another, or whether one is const or *)
(* an integer, are left out, as are arithmetic operators.                  *)
(***************************************************************************)
EXTENDS Integers, FiniteSets, SequencesExt

CONSTANTS Name,        \* identifiers, and "" for none
          Class,       \* names of classes and unions, and "" for none
          Units        \* the units analyze() may be called with

VARIABLES unit,                        \* the unit being analysed, fixed
          todo,                        \* what is left to do, the next first
          scopes,                      \* current_scope_ and its parents, the innermost first
          struct_members_,             \* class -> member -> type
          typedef_map_,                \* alias -> type
          types,                       \* what analyze_expression returned, by node
          loop_depth_, switch_depth_,
          return_type,                 \* *current_function_return_type_, NoType for null
          errors_, warnings_           \* what was raised at which node, in that order

vars == <<unit, todo, scopes, struct_members_, typedef_map_, types, loop_depth_, switch_depth_,
          return_type, errors_, warnings_>>
reports == <<errors_, warnings_>>
tables == <<unit, struct_members_, typedef_map_>>     \* what the full analysis leaves alone
depths == <<loop_depth_, switch_depth_, return_type>>

Type == [base : Class \cup Name \cup {"int", "void", "none"}, depth : Nat]
NoType == [base |-> "none", depth |-> 0]
IntType == [base |-> "int", depth |-> 0]
VoidType == [base |-> "void", depth |-> 0]
PointerTo(t) == [t EXCEPT !.depth = @ + 1]

Expression == {"literal", "use", "this", "call", "assign", "compare", "ternary", "address",
               "dereference", "index", "dot", "arrow", "cast", "new", "sizeof"}
Kind == Expression \cup
        {"function", "parameter", "variable", "enum", "enumerator", "namespace", "class", "base",
         "member", "union", "typedef", "template", "block", "if", "while", "do", "for", "switch", "case",
         "try", "catch", "return", "throw", "statement", "break", "continue"}

(* role: the part of the node around it that a node is.  name: what it     *)
(* declares or uses.  owner: the class before `::`, the base class, or     *)
(* the class it defines.  special: a destructor or an operator.  hoisted:  *)
(* a class or an enum defined inside a typedef.  type: "none" only where   *)
(* there is no type to write; a function and a typedef have one.           *)
Node == [kind : Kind, in : Nat, role : {"part", "init", "cond", "step", "body"}, name : Name,
         owner : Class, type : Type, special : BOOLEAN, hoisted : BOOLEAN]

ASSUME UnitsAssumption ==
  \A u \in Units :
    /\ u \in Seq(Node) /\ \A i \in DOMAIN u : u[i].in < i
    /\ \A i \in DOMAIN u : u[i].kind \in {"function", "typedef"} => u[i].type.base # "none"

(* The kinds whose type is that of a part.  The parser makes them of       *)
(* operands it has parsed, which are expressions.                          *)
TypedByPart == {"assign", "ternary", "address", "dereference", "index", "dot", "arrow"}
ASSUME OperandsAssumption ==
  \A u \in Units : \A i \in DOMAIN u : u[i].kind \in TypedByPart =>
    LET operands == {k \in DOMAIN u : u[k].in = i /\ u[k].role = "part"}
    IN  /\ Cardinality(operands) >= IF u[i].kind = "ternary" THEN 2 ELSE 1
        /\ \A k \in operands : u[k].kind \in Expression

(* What a scope maps to symbols: an identifier, or a class and a name.     *)
Key == {<<n>> : n \in Name} \cup {<<c, n>> : c \in Class, n \in Name}
Symbol == [type : Type, arity : Nat \cup {-1}]     \* -1: no func_signature
IsTable(table, keys, values) == DOMAIN table \subseteq keys /\ table \in [DOMAIN table -> values]

Item == [step : {"collect", "forward", "node", "define", "enter_loop", "leave_loop",
                 "enter_switch", "leave_switch", "leave_scope", "leave_function", "returned",
                 "arguments", "type"},
         node : Nat, saved : Type]

-----------------------------------------------------------------------------
(* The tree.                                                               *)
KidsOf(i, roles) == {k \in DOMAIN unit : unit[k].in = i /\ unit[k].role \in roles}
InOrder(nodes) ==
  [j \in 1..Cardinality(nodes) |-> CHOOSE k \in nodes : Cardinality({m \in nodes : m <= k}) = j]
Kids(i, roles) == InOrder(KidsOf(i, roles))
Parts(i, kind) == {k \in DOMAIN unit : unit[k].in = i /\ unit[k].kind = kind}

(* Parser::parse leaves what a typedef defines to the end of the unit.     *)
TopLevel ==
  LET top == KidsOf(0, {"body"})
  IN  InOrder({k \in top : ~unit[k].hoisted})
        \o InOrder({k \in top : unit[k].hoisted /\ unit[k].kind = "enum"})
        \o InOrder({k \in top : unit[k].hoisted /\ unit[k].kind # "enum"})

Do(step, i) == [step |-> step, node |-> i, saved |-> NoType]
Each(step, nodes) == [k \in DOMAIN nodes |-> Do(step, nodes[k])]

(* The parser names a method after its own name only; the class stays in   *)
(* the names of destructors and operators.                                 *)
FunctionName(i) == IF unit[i].special THEN <<unit[i].owner, unit[i].name>> ELSE <<unit[i].name>>

-----------------------------------------------------------------------------
(* Scope::lookup: the innermost scope that has the name.                   *)
Found(key) == \E s \in DOMAIN scopes : key \in DOMAIN scopes[s]
LookupOutermost(key) ==
  LET s == CHOOSE s \in DOMAIN scopes :
             key \in DOMAIN scopes[s] /\ \A r \in (s + 1)..Len(scopes) : key \notin DOMAIN scopes[r]
  IN  scopes[s][key]

Lookup(key) ==
  LET s == CHOOSE s \in DOMAIN scopes :
             key \in DOMAIN scopes[s] /\ \A r \in 1..(s - 1) : key \notin DOMAIN scopes[r]
  IN  scopes[s][key]

(* Scope::define for several symbols: the first one of a name stays.       *)
Joined(f, g) == [x \in DOMAIN f \cup DOMAIN g |-> IF x \in DOMAIN f THEN f[x] ELSE g[x]]
Defining(symbols) == [scopes EXCEPT ![1] = Joined(@, symbols)]

resolve_type(t) ==
  IF t.base \in DOMAIN typedef_map_
  THEN [base |-> typedef_map_[t.base].base, depth |-> typedef_map_[t.base].depth + t.depth]
  ELSE t

(* The symbols that nodes declare, the first node of a name winning.       *)
NamesOf(nodes) == {unit[k].name : k \in nodes} \ {""}
FirstNamed(nodes, n) ==
  CHOOSE k \in nodes : unit[k].name = n /\ \A m \in nodes : unit[m].name = n => k <= m
Symbols(nodes) ==
  [key \in {<<n>> : n \in NamesOf(nodes)} |->
     [type |-> resolve_type(unit[FirstNamed(nodes, key[1])].type), arity |-> -1]]

Signature(i) ==
  [key \in {FunctionName(i)} |->
     [type |-> resolve_type(unit[i].type), arity |-> Cardinality(Parts(i, "parameter"))]]

-----------------------------------------------------------------------------
This == Head(todo).node
At(step, kinds) == todo # << >> /\ Head(todo).step = step /\ unit[This].kind \in kinds
Next_(items) == todo' = items \o Tail(todo)
Raised(list, what, condition) ==
  IF condition THEN Append(list, [what |-> what, node |-> This]) ELSE list
error(what, condition) == errors_' = Raised(errors_, what, condition)
warning(what, condition) == warnings_' = Raised(warnings_, what, condition)
Mapped(map, key, value) ==      \* map[key] = value
  [k \in DOMAIN map \cup {key} |-> IF k = key THEN value ELSE map[k]]

Init ==
  /\ unit \in Units
  /\ todo = Each("collect", TopLevel) \o Each("forward", TopLevel) \o Each("node", TopLevel)
  /\ scopes = <<[key \in {} |-> NoType]>>
  /\ struct_members_ = [c \in {} |-> NoType]
  /\ typedef_map_ = [a \in {} |-> NoType]
  /\ types = [i \in {} |-> NoType]
  /\ loop_depth_ = 0 /\ switch_depth_ = 0
  /\ return_type = NoType
  /\ errors_ = << >> /\ warnings_ = << >>

(* collect_all_enums                                                       *)
(* register_enum_values: an enumerator yields to any name already visible. *)
CollectEnum ==
  /\ At("collect", {"enum"})
  /\ LET new == Symbols(Parts(This, "enumerator"))
     IN  scopes' = Defining([key \in {k \in DOMAIN new : ~Found(k)} |-> new[key]])
  /\ typedef_map_' = IF unit[This].name = "" THEN typedef_map_
                     ELSE Mapped(typedef_map_, unit[This].name, IntType)
  /\ Next_(<< >>)
  /\ UNCHANGED <<unit, struct_members_, types, depths, reports>>

CollectNamespace ==
  /\ At("collect", {"namespace"})
  /\ Next_(Each("collect", Kids(This, {"body"})))
  /\ UNCHANGED <<tables, scopes, types, depths, reports>>

(* A template is looked into for an enum only.                             *)
CollectTemplate ==
  /\ At("collect", {"template"})
  /\ Next_(Each("collect", InOrder({k \in KidsOf(This, {"body"}) : unit[k].kind = "enum"})))
  /\ UNCHANGED <<tables, scopes, types, depths, reports>>

CollectNothing ==
  /\ At("collect", Kind \ {"enum", "namespace", "template"})
  /\ Next_(<< >>)
  /\ UNCHANGED <<tables, scopes, types, depths, reports>>

-----------------------------------------------------------------------------
(* register_forward_declaration                                            *)
ForwardFunction ==
  /\ At("forward", {"function"})
  /\ scopes' = Defining(Signature(This))
  /\ Next_(<< >>)
  /\ UNCHANGED <<tables, types, depths, reports>>

ForwardEnum ==
  /\ At("forward", {"enum"})
  /\ scopes' = Defining(Symbols(Parts(This, "enumerator")))
  /\ typedef_map_' = IF unit[This].name = "" THEN typedef_map_
                     ELSE Mapped(typedef_map_, unit[This].name, IntType)
  /\ Next_(<< >>)
  /\ UNCHANGED <<unit, struct_members_, types, depths, reports>>

ForwardVariable ==
  /\ At("forward", {"variable"})
  /\ scopes' = Defining(Symbols({This}))
  /\ Next_(<< >>)
  /\ UNCHANGED <<tables, types, depths, reports>>

(* What a namespace registers is dropped with its scope.                   *)
ForwardNamespace ==
  /\ At("forward", {"namespace"})
  /\ scopes' = <<[key \in {} |-> NoType]>> \o scopes
  /\ Next_(Each("forward", Kids(This, {"body"})) \o <<Do("leave_scope", This)>>)
  /\ UNCHANGED <<tables, types, depths, reports>>

(* The members of a class: its own, then those of its bases that it does   *)
(* not hide, as far as the bases are registered by now.                    *)
Giving(bases, n) == {j \in DOMAIN bases : /\ bases[j] \in DOMAIN struct_members_
                                          /\ n \in DOMAIN struct_members_[bases[j]]}
First(places) == CHOOSE j \in places : \A k \in places : j <= k
Inherited(bases, own) ==
  Joined(own, [n \in {n \in Name : Giving(bases, n) # {}} |->
                 struct_members_[bases[First(Giving(bases, n))]][n]])
OwnMembers(i) ==
  LET own == Parts(i, "member")
  IN  [n \in NamesOf(own) |-> resolve_type(unit[FirstNamed(own, n)].type)]
Bases(i) == [j \in DOMAIN Kids(i, {"init"}) |-> unit[Kids(i, {"init"})[j]].owner]

ForwardClass ==
  /\ At("forward", {"class"})
  /\ struct_members_' = Mapped(struct_members_, unit[This].owner, Inherited(Bases(This), OwnMembers(This)))
  /\ scopes' = Defining([key \in {<<unit[This].name>>} |->
                        [type |-> [base |-> unit[This].owner, depth |-> 0], arity |-> -1]])
  /\ Next_(<< >>)
  /\ UNCHANGED <<unit, typedef_map_, types, depths, reports>>

ForwardUnion ==
  /\ At("forward", {"union"})
  /\ struct_members_' = Mapped(struct_members_, unit[This].owner, OwnMembers(This))
  /\ Next_(<< >>)
  /\ UNCHANGED <<unit, typedef_map_, scopes, types, depths, reports>>

ForwardTypedef ==
  /\ At("forward", {"typedef"})
  /\ typedef_map_' = Mapped(typedef_map_, unit[This].name, resolve_type(unit[This].type))
  /\ scopes' = Defining(Symbols({This}))
  /\ Next_(<< >>)
  /\ UNCHANGED <<unit, struct_members_, types, depths, reports>>

ForwardNothing ==
  /\ At("forward", {"template"})
  /\ Next_(<< >>)
  /\ UNCHANGED <<tables, scopes, types, depths, reports>>

-----------------------------------------------------------------------------
(* analyze_function: the members of the class in the function's name come  *)
(* before its parameters, and its body shares the scope of both.           *)
ClassMembers(i) ==
  IF unit[i].special /\ unit[i].owner \in DOMAIN struct_members_
  THEN [key \in {<<m>> : m \in DOMAIN struct_members_[unit[i].owner]} |->
          [type |-> struct_members_[unit[i].owner][key[1]], arity |-> -1]]
  ELSE [key \in {} |-> NoType]

Function ==
  /\ At("node", {"function"})
  /\ scopes' = <<Joined(ClassMembers(This), Symbols(Parts(This, "parameter")))>> \o Defining(Signature(This))
  /\ return_type' = resolve_type(unit[This].type)
  /\ Next_(Each("node", Kids(This, {"body"}))
             \o <<[step |-> "leave_function", node |-> This, saved |-> return_type]>>)
  /\ UNCHANGED <<tables, types, loop_depth_, switch_depth_, reports>>

LeaveFunctionKeeping ==
  /\ At("leave_function", {"function"})
  /\ scopes' = Tail(scopes)
  /\ Next_(<< >>)
  /\ UNCHANGED <<tables, types, depths, reports>>

LeaveFunction ==
  /\ At("leave_function", {"function"})
  /\ return_type' = Head(todo).saved
  /\ scopes' = Tail(scopes)
  /\ Next_(<< >>)
  /\ UNCHANGED <<tables, types, loop_depth_, switch_depth_, reports>>

(* analyze_variable_declaration: the initializer does not see the name.    *)
Variable ==
  /\ At("node", {"variable"})
  /\ Next_(Each("node", Kids(This, {"init"})) \o <<Do("define", This)>>)
  /\ UNCHANGED <<tables, scopes, types, depths, reports>>

DefineVariable ==
  /\ At("define", {"variable"})
  /\ error("redefined", <<unit[This].name>> \in DOMAIN scopes[1] /\ Len(scopes) > 1)
  /\ scopes' = Defining(Symbols({This}))
  /\ Next_(<< >>)
  /\ UNCHANGED <<tables, types, depths, warnings_>>

(* A block or a namespace, and the clauses of a try with their variable.   *)
Block ==
  /\ At("node", {"block", "namespace", "catch"})
  /\ scopes' = <<Symbols(Parts(This, "parameter"))>> \o scopes
  /\ Next_(Each("node", Kids(This, {"body"})) \o <<Do("leave_scope", This)>>)
  /\ UNCHANGED <<tables, types, depths, reports>>

LeaveScope ==
  /\ At("leave_scope", {"block", "namespace", "catch", "for"})
  /\ scopes' = Tail(scopes)
  /\ Next_(<< >>)
  /\ UNCHANGED <<tables, types, depths, reports>>

While ==
  /\ At("node", {"while"})
  /\ Next_(Each("node", Kids(This, {"cond"})) \o <<Do("enter_loop", This)>>)
  /\ UNCHANGED <<tables, scopes, types, depths, reports>>

DoWhile ==
  /\ At("node", {"do"})
  /\ Next_(<<Do("enter_loop", This)>> \o Each("node", Kids(This, {"cond"})))
  /\ UNCHANGED <<tables, scopes, types, depths, reports>>

For ==
  /\ At("node", {"for"})
  /\ scopes' = <<[key \in {} |-> NoType]>> \o scopes
  /\ Next_(Each("node", Kids(This, {"init"}) \o Kids(This, {"cond"}) \o Kids(This, {"step"}))
             \o <<Do("enter_loop", This), Do("leave_scope", This)>>)
  /\ UNCHANGED <<tables, types, depths, reports>>

EnterLoop ==
  /\ At("enter_loop", {"while", "do", "for"})
  /\ loop_depth_' = loop_depth_ + 1
  /\ Next_(Each("node", Kids(This, {"body"})) \o <<Do("leave_loop", This)>>)
  /\ UNCHANGED <<tables, scopes, types, switch_depth_, return_type, reports>>

LeaveLoop ==
  /\ At("leave_loop", {"while", "do", "for"})
  /\ loop_depth_' = loop_depth_ - 1
  /\ Next_(<< >>)
  /\ UNCHANGED <<tables, scopes, types, switch_depth_, return_type, reports>>

(* analyze_switch opens no scope for its cases.                            *)
Switch ==
  /\ At("node", {"switch"})
  /\ Next_(Each("node", Kids(This, {"cond"})) \o <<Do("enter_switch", This)>>)
  /\ UNCHANGED <<tables, scopes, types, depths, reports>>

EnterSwitch ==
  /\ At("enter_switch", {"switch"})
  /\ switch_depth_' = switch_depth_ + 1
  /\ Next_(Each("node", Kids(This, {"body"})) \o <<Do("leave_switch", This)>>)
  /\ UNCHANGED <<tables, scopes, types, loop_depth_, return_type, reports>>

LeaveSwitch ==
  /\ At("leave_switch", {"switch"})
  /\ switch_depth_' = switch_depth_ - 1
  /\ Next_(<< >>)
  /\ UNCHANGED <<tables, scopes, types, loop_depth_, return_type, reports>>

Break ==
  /\ At("node", {"break"})
  /\ error("break", loop_depth_ = 0 /\ switch_depth_ = 0)
  /\ Next_(<< >>)
  /\ UNCHANGED <<tables, scopes, types, depths, warnings_>>

Continue ==
  /\ At("node", {"continue"})
  /\ error("continue", loop_depth_ = 0)
  /\ Next_(<< >>)
  /\ UNCHANGED <<tables, scopes, types, depths, warnings_>>

(* analyze_return: the value is looked at before the type it must have.    *)
Return ==
  /\ At("node", {"return"})
  /\ error("return_outside", return_type = NoType)
  /\ Next_(IF return_type = NoType THEN << >>
           ELSE Each("node", Kids(This, {"part"})) \o <<Do("returned", This)>>)
  /\ UNCHANGED <<tables, scopes, types, depths, warnings_>>

Returned ==
  /\ At("returned", {"return"})
  /\ error("return_value", return_type = VoidType /\ Kids(This, {"part"}) # << >>)
  /\ Next_(<< >>)
  /\ UNCHANGED <<tables, scopes, types, depths, warnings_>>

(* if, case, throw, try and expression statements: their parts in turn.    *)
Parted ==
  /\ At("node", {"if", "case", "throw", "try", "statement"})
  /\ Next_(Each("node", Kids(This, {"cond"}) \o Kids(This, {"part", "body"})))
  /\ UNCHANGED <<tables, scopes, types, depths, reports>>

(* Types and templates, local ones too, are passed over.                   *)
NotAnalyzed ==
  /\ At("node", {"enum", "class", "union", "typedef", "template"})
  /\ Next_(<< >>)
  /\ UNCHANGED <<tables, scopes, types, depths, reports>>

-----------------------------------------------------------------------------
(* analyze_expression: the type a node has is kept for the node around it. *)
Returning(t) == types' = Mapped(types, This, t)
TypeOfPart(j) == types[Kids(This, {"part"})[j]]

(* A literal has the type its node says; the operand of sizeof is skipped. *)
Literal ==
  /\ At("node", {"literal", "this", "sizeof"})
  /\ Returning(CASE unit[This].kind = "literal" -> unit[This].type
                 [] unit[This].kind = "this" -> PointerTo(VoidType)
                 [] unit[This].kind = "sizeof" -> IntType)
  /\ Next_(<< >>)
  /\ UNCHANGED <<tables, scopes, depths, reports>>

(* analyze_identifier: an unknown name passes for an int.                  *)
Use ==
  /\ At("node", {"use"})
  /\ warning("undeclared", ~Found(<<unit[This].name>>))
  /\ Returning(IF Found(<<unit[This].name>>) THEN Lookup(<<unit[This].name>>).type ELSE IntType)
  /\ Next_(<< >>)
  /\ UNCHANGED <<tables, scopes, depths, errors_>>

Operator ==
  /\ At("node", {"assign", "compare", "ternary", "address", "dereference", "index", "dot", "arrow",
                 "cast", "new"})
  /\ Next_(Each("node", Kids(This, {"part"})) \o <<Do("type", This)>>)
  /\ UNCHANGED <<tables, scopes, types, depths, reports>>

OperatorType ==
  /\ At("type", {"assign", "compare", "ternary", "address", "cast", "new"})
  /\ Returning(CASE unit[This].kind = "assign" -> TypeOfPart(1)
                 [] unit[This].kind = "compare" -> IntType
                 [] unit[This].kind = "ternary" -> TypeOfPart(2)
                 [] unit[This].kind = "address" -> PointerTo(TypeOfPart(1))
                 [] unit[This].kind = "cast" -> resolve_type(unit[This].type)
                 [] unit[This].kind = "new" -> PointerTo(resolve_type(unit[This].type)))
  /\ Next_(<< >>)
  /\ UNCHANGED <<tables, scopes, depths, reports>>

(* Unary * and analyze_index take a level of pointers off.                 *)
Dereference ==
  /\ At("type", {"dereference", "index"})
  /\ LET t == TypeOfPart(1)
     IN  /\ warning("not_a_pointer", t.depth = 0)
         /\ Returning(IF t.depth = 0 THEN t ELSE [t EXCEPT !.depth = @ - 1])
  /\ Next_(<< >>)
  /\ UNCHANGED <<tables, scopes, depths, errors_>>

(* analyze_call: a function with another number of parameters is reported, *)
(* and then its arguments are not looked at.                               *)
Call ==
  /\ At("node", {"call"})
  /\ Next_(Each("node", Kids(This, {"cond"})) \o <<Do("arguments", This)>>)
  /\ UNCHANGED <<tables, scopes, types, depths, reports>>

Callee(i) == Kids(i, {"cond"})[1]
HasSignature ==
  LET callee == unit[Callee(This)]
  IN  callee.kind = "use" /\ Found(<<callee.name>>) /\ Lookup(<<callee.name>>).arity # -1

Arguments ==
  /\ At("arguments", {"call"})
  /\ LET args == Kids(This, {"part"})
         wrong == HasSignature /\ Lookup(<<unit[Callee(This)].name>>).arity # Len(args)
     IN  /\ warning("arguments", wrong)
         /\ Next_((IF wrong THEN << >> ELSE Each("node", args)) \o <<Do("type", This)>>)
  /\ UNCHANGED <<tables, scopes, types, depths, errors_>>

CallType ==
  /\ At("type", {"call"})
  /\ Returning(IF HasSignature THEN Lookup(<<unit[Callee(This)].name>>).type ELSE IntType)
  /\ Next_(<< >>)
  /\ UNCHANGED <<tables, scopes, depths, reports>>

(* analyze_member_access: the class behind a type, through aliases that    *)
(* were not known when the type was resolved.                              *)
ClassOf(base) ==
  LET step[k \in 0..10] ==
        IF k = 0 THEN base
        ELSE IF step[k - 1] \in DOMAIN struct_members_ \/ step[k - 1] \notin DOMAIN typedef_map_
             THEN step[k - 1] ELSE typedef_map_[step[k - 1]].base
  IN  step[10]

Access ==
  /\ At("type", {"dot", "arrow"})
  /\ LET t == TypeOfPart(1)
         class == ClassOf(t.base)
         known == class \in DOMAIN struct_members_
         has == known /\ unit[This].name \in DOMAIN struct_members_[class]
     IN  /\ error("needs_pointer", unit[This].kind = "arrow" /\ t.depth = 0)
         /\ warning("no_member", known /\ ~has)
         /\ Returning(IF has THEN struct_members_[class][unit[This].name] ELSE IntType)
  /\ Next_(<< >>)
  /\ UNCHANGED <<tables, scopes, depths>>

-----------------------------------------------------------------------------
Done == todo = << >> /\ UNCHANGED vars

Collect == CollectEnum \/ CollectNamespace \/ CollectTemplate \/ CollectNothing
Forward ==
  \/ ForwardFunction \/ ForwardEnum \/ ForwardVariable \/ ForwardNamespace \/ ForwardClass
  \/ ForwardUnion \/ ForwardTypedef \/ ForwardNothing
Statement ==
  \/ Function \/ LeaveFunction \/ Variable \/ DefineVariable \/ Block \/ LeaveScope
  \/ While \/ DoWhile \/ For \/ EnterLoop \/ LeaveLoop \/ Switch \/ EnterSwitch \/ LeaveSwitch
  \/ Break \/ Continue \/ Return \/ Returned \/ Parted \/ NotAnalyzed
Evaluate ==
  \/ Literal \/ Use \/ Operator \/ OperatorType \/ Dereference \/ Call \/ Arguments \/ CallType
  \/ Access

Next == Collect \/ Forward \/ Statement \/ Evaluate \/ Done
Spec == Init /\ [][Next]_vars /\ WF_vars(Next)

-----------------------------------------------------------------------------
(* Type correctness of the analyser's state.                               *)
Report == [what : {"break", "continue", "redefined", "return_outside", "return_value",
                   "needs_pointer", "undeclared", "arguments", "not_a_pointer", "no_member"},
           node : Nat]

TypeOK ==
  /\ unit \in Seq(Node)
  /\ todo \in Seq(Item) /\ \A k \in DOMAIN todo : todo[k].node \in DOMAIN unit
  /\ Len(scopes) > 0 /\ \A s \in DOMAIN scopes : IsTable(scopes[s], Key, Symbol)
  /\ DOMAIN struct_members_ \subseteq Class
  /\ \A c \in DOMAIN struct_members_ : IsTable(struct_members_[c], Name, Type)
  /\ IsTable(typedef_map_, Name, Type)
  /\ IsTable(types, DOMAIN unit, Type)
  /\ loop_depth_ \in Nat /\ switch_depth_ \in Nat
  /\ return_type \in Type
  /\ errors_ \in Seq(Report) /\ warnings_ \in Seq(Report)

(* The context of the analysis is the one of the node it has reached: a    *)
(* scope, a loop or a switch is counted exactly as long as its end is      *)
(* still to come, and a return type is there exactly inside a function     *)
(* (push_scope, loop_depth_ and switch_depth_ and what undoes them).       *)
Ends(step) == {k \in DOMAIN todo : todo[k].step = step}
ContextsMatch ==
  /\ Len(scopes) = 1 + Cardinality(Ends("leave_scope")) + Cardinality(Ends("leave_function"))
  /\ loop_depth_ = Cardinality(Ends("leave_loop"))
  /\ switch_depth_ = Cardinality(Ends("leave_switch"))
  /\ (return_type = NoType) = (Ends("leave_function") = {})

=============================================================================
