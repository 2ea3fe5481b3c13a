-------------------------------- MODULE Syntax --------------------------------
(***************************************************************************)
(* The recursive descent of src/src/parser.cpp over the tokens of the      *)
(* lexer, one operator for each parse_ method.  A method takes the state   *)
(* of the parser and returns it:                                           *)
(*   at                   pos_                                             *)
(*   ok                   FALSE from the throw of a ParseError on, until a *)
(*                        catch clause; nothing moves in between           *)
(*   types, templates     known_types_ and template_names_                 *)
(*   enums, structs       typedef_enums_ and typedef_structs_              *)
(*   out                  what the method returns, a tree                  *)
(* A tree is a tuple that starts with the kind of its node; positions, and *)
(* the names made up for anonymous types, are left out.                    *)
(***************************************************************************)
EXTENDS Lexer, FiniteSetsExt

Kind(s, n) == IF s.at + n <= Len(tokens) THEN tokens[s.at + n].kind ELSE "Eof"
K(s) == Kind(s, 0)
Value(s) == tokens[s.at].value

Step(s) == IF ~s.ok \/ K(s) = "Eof" THEN s ELSE [s EXCEPT !.at = @ + 1]
Fail(s) == [s EXCEPT !.ok = FALSE]
Give(s, tree) == [s EXCEPT !.out = tree]
Expect(s, kind) == IF K(s) = kind THEN Step(s) ELSE Fail(s)
Accept(s, kinds) == IF K(s) \in kinds THEN Step(s) ELSE s
Register(s, names) == IF s.ok THEN [s EXCEPT !.types = @ \cup (names \ {None})] ELSE s

(* What follows a call, unless the call threw.                             *)
Then(s, rest(_)) == IF s.ok THEN rest(s) ELSE s

MoveTo(s, places) == IF s.ok THEN [s EXCEPT !.at = Min({i \in places : i >= s.at})] ELSE s
SkipTo(s, kinds) == MoveTo(s, {i \in DOMAIN tokens : tokens[i].kind \in kinds \cup {"Eof"}})
SkipOver(s, kinds) == MoveTo(s, {i \in DOMAIN tokens : tokens[i].kind \notin kinds})

(* From behind an opening token to the token that closes it; a ">>" closes *)
(* two.                                                                    *)
Count(s, i, kind) == Cardinality({j \in s.at..i : tokens[j].kind = kind})
Closing(s, open, close, twice) ==
  MoveTo(s, {i \in DOMAIN tokens : \/ tokens[i].kind = "Eof"
                                   \/ 1 + Count(s, i, open) <= Count(s, i, close) + 2 * Count(s, i, twice)})
SkipGroup(s, open, close) == Accept(Closing(Step(s), open, close, "none"), {close})
StrictGroup(s, open, close) == Expect(Closing(Step(s), open, close, "none"), close)
SkipAngles(s) == Accept(Closing(Step(s), "<", ">", ">>"), {">"})

RECURSIVE Brackets(_, _)
Brackets(s, strict) ==
  IF ~s.ok \/ K(s) # "[" THEN s
  ELSE Brackets(IF strict THEN StrictGroup(s, "[", "]") ELSE SkipGroup(s, "[", "]"), strict)

(* The catch clauses: on to the end of the statement.                      *)
ToSemicolon(s) == Accept(SkipTo(s, {";", "}"}), {";"})
ResumePastError(s) == ToSemicolon(Step([s EXCEPT !.ok = TRUE]))
Resume(s) == ToSemicolon([s EXCEPT !.ok = TRUE])

Named(s) == Give(Expect(s, "Identifier"), Value(s))
MaybeNamed(s) == IF K(s) = "Identifier" THEN Named(s) ELSE Give(s, None)

Qualifier == {"const", "volatile"}
BasicType == {"void", "bool", "char", "short", "int", "long", "float", "double", "wchar_t"}
TagWord == {"struct", "class", "union", "enum"}
TypeKeyword == BasicType \cup Qualifier \cup {"signed", "unsigned", "struct", "class", "enum"}
Convention == {"__cdecl", "__stdcall", "__fastcall", "CALLBACK", "WINAPI"}
AtConvention(s) == K(s) = "Identifier" /\ Text(Value(s)) \in Convention
SkipConventions(s) ==
  MoveTo(s, {i \in DOMAIN tokens : tokens[i].kind # "Identifier" \/ Text(tokens[i].value) \notin Convention})

(* is_at_type_specifier, with its guess for names it does not know.        *)
AtType(s) ==
  \/ K(s) \in TypeKeyword \cup {"::"}
  \/ K(s) = "Identifier" /\ (Value(s) \in s.types \/ Kind(s, 1) \in {"*", "Identifier", "&"})

(* looks_like_cast: base is what was seen of the type's name.              *)
RECURSIVE CastFrom(_, _, _, _)
CastFrom(s, i, base, pointer) ==
  LET kind == Kind(s, i) IN
  CASE kind \in Qualifier \cup {"signed", "unsigned", "static", "extern", "register", "inline"} ->
         CastFrom(s, i + 1, base, pointer)
    [] kind \in TypeKeyword \ (Qualifier \cup {"signed", "unsigned"}) ->
         CastFrom(s, i + 1, "word", pointer)
    [] kind = "union" /\ base = "none" ->
         CastFrom(s, IF Kind(s, i + 1) = "Identifier" THEN i + 2 ELSE i + 1, "word", pointer)
    [] kind = "Identifier" /\ base = "none" -> CastFrom(s, i + 1, "name", pointer)
    [] kind = "::" /\ base = "name" /\ Kind(s, i + 1) = "Identifier" -> CastFrom(s, i + 2, base, pointer)
    [] kind \in {"*", "&"} /\ base # "none" -> CastFrom(s, i + 1, "word", TRUE)
    [] OTHER -> /\ kind = ")" /\ base # "none"
                /\ \/ pointer \/ K(s) \in TypeKeyword
                   \/ K(s) = "Identifier" /\ Value(s) \in s.types
LooksLikeCast(s) == CastFrom(s, 0, "none", FALSE)

-----------------------------------------------------------------------------
(* The methods that call each other in circles; Parse finds them below.    *)
RECURSIVE Parse(_, _)
Type(s) == Parse(s, "type")
Assignment(s) == Parse(s, "assignment")
Expression(s) == Assignment(s)
Unary(s) == Parse(s, "unary")
Primary(s) == Parse(s, "primary")
Block(s) == Parse(s, "block")
Statement(s) == Parse(s, "statement")
StatementOrDeclaration(s) == Parse(s, "statement or declaration")
Declaration(s) == Parse(s, "declaration")
TaggedDefinition(s, fromTypedef) == Parse(s, IF fromTypedef THEN "tag of a typedef" ELSE "tag")
Typedef(s) == Parse(s, "typedef")
TemplateParameters(s) == Parse(s, "template parameters")
Definition(s) == Parse(s, "definition")
GlobalOperator(s) == Parse(s, "operator")

(* do ... while (match(Comma)), for each kind of item.                     *)
RECURSIVE Items(_, _, _)
Items(s, what, items) ==
  IF K(s) = "}" /\ what \in {"value", "enumerator"} THEN Give(s, items)
  ELSE Then(Parse(s, what), LAMBDA r :
         IF K(r) = "," /\ K(s) # "..." THEN Items(Step(r), what, Append(items, r.out))
         ELSE Give(r, Append(items, r.out)))
Parens(s, what) ==
  Then(Expect(s, "("), LAMBDA o :
    Expect(IF K(o) = ")" THEN Give(o, None) ELSE Items(o, what, None), ")"))

(* parse_brace_initializer, and the list of a variable's initializer.      *)
Braces(s) ==
  Then(Expect(s, "{"), LAMBDA o :
  Then(Expect(Items(o, "value", None), "}"), LAMBDA l : Give(l, <<"list", l.out>>)))
ParseValue(s) == IF K(s) = "{" THEN Braces(s) ELSE Assignment(s)

-----------------------------------------------------------------------------
(* parse_type.  The tree: the words of the name, the marks, the number of  *)
(* stars, and the template arguments.                                      *)
RECURSIVE ScopedName(_, _), PathRest(_, _), TypeWords(_, _, _)
ScopedName(s, base) ==
  IF K(s) # "::" \/ (Kind(s, 1) = "Identifier" /\ Kind(s, 2) = "(") \/ Kind(s, 1) \in {"~", "operator"}
  THEN Give(s, base)
  ELSE Then(MaybeNamed(Step(s)), LAMBDA n : ScopedName(n, IF n.out = None THEN base ELSE <<n.out>>))

(* The last name of a path that starts with "::".                          *)
PathRest(s, name) ==
  IF K(s) # "::" THEN Give(s, name)
  ELSE Then(MaybeNamed(Step(s)), LAMBDA n : PathRest(n, IF n.out = None THEN name ELSE n.out))
GlobalName(s) ==
  Then(MaybeNamed(Step(s)), LAMBDA n :
    IF n.out = None THEN n ELSE Then(PathRest(n, n.out), LAMBDA r : Give(r, <<r.out>>)))

Tagged(s, base) ==
  Then(MaybeNamed(Step(s)), LAMBDA n :
    IF n.out # None THEN Give(Register(n, {n.out}), <<n.out>>)
    ELSE IF K(n) = "{" THEN Give(SkipGroup(n, "{", "}"), <<<<"anonymous">>>>)
    ELSE Give(n, base))

TypeWords(s, base, marks) ==
  LET Done(r) == Give(r, <<r.out, marks>>) IN
  CASE K(s) = "volatile" -> TypeWords(Step(s), base, marks)
    [] K(s) \in {"const", "unsigned", "signed"} -> TypeWords(Step(s), base, marks \cup {K(s)})
    [] K(s) \in {"static", "extern", "inline", "register"} -> TypeWords(Step(s), base, marks)
    [] K(s) \in BasicType -> TypeWords(Step(s), Append(base, Value(s)), marks)
    [] K(s) \in TagWord -> Done(Tagged(s, base))
    [] K(s) = "Identifier" /\ base = None -> Done(ScopedName(Step(s), <<Value(s)>>))
    [] K(s) = "::" /\ base = None -> Done(GlobalName(s))
    [] OTHER -> Give(s, <<base, marks>>)

(* try_parse_template_arguments: back to the "<" when they cannot be read. *)
ReadTemplateArguments(s) ==
  Then(Expect(s, "<"), LAMBDA o :
    IF K(o) = ">" THEN Give(Step(o), None)
    ELSE Then(Items(o, "template argument", None), LAMBDA l :
           IF K(l) = ">>" THEN Step(l) ELSE Expect(l, ">")))
Committed(s, r) ==
  IF r.ok THEN Give(r, <<r.out>>) ELSE [s EXCEPT !.types = r.types, !.out = None]

TypeOrNot(s, t) ==
  IF t.ok /\ K(t) \in {",", ">", ">>"} THEN t ELSE Assignment([s EXCEPT !.types = t.types])
ParseTemplateArgument(s) == IF AtType(s) THEN TypeOrNot(s, Type(s)) ELSE Assignment(s)

(* The stars, marks and reference behind the name; a holds the arguments.  *)
TypeTail(a, e, base, marks) ==
  LET passed == {i \in a.at..e.at - 1 : tokens[i].kind = "*"}
      const == {tokens[i].kind : i \in a.at..e.at - 1} \cap {"const"}
      ref == {K(e)} \cap {"&"}
  IN  Give(Accept(e, {"&"}), <<"type", base, marks \cup const \cup ref, Cardinality(passed), a.out>>)
TypeRest(w, base, marks) ==
  IF base = None THEN Fail(w)
  ELSE Then(IF K(w) = "<" /\ Last(base) \in w.types \cup w.templates
            THEN Committed(w, ReadTemplateArguments(w)) ELSE Give(w, None),
            LAMBDA a : TypeTail(a, SkipOver(a, Qualifier \cup {"*"}), base, marks))
ParseType(s) ==
  Then(TypeWords(s, None, {}), LAMBDA w :
    TypeRest(w, IF w.out[1] = None /\ w.out[2] \cap {"unsigned", "signed"} # {}
                THEN <<<<"i", "n", "t">>>> ELSE w.out[1], w.out[2]))

-----------------------------------------------------------------------------
(* Expressions: one level of the ladder for each of the methods from       *)
(* parse_logical_or to parse_multiplicative.                               *)
LadderAndBeforeXor == << {"||"}, {"&&"}, {"|"}, {"&"}, {"^"}, {"==", "!="}, {"<", ">", "<=", ">="},
             {"<<", ">>"}, {"+", "-"}, {"*", "/", "%"} >>
Ladder == << {"||"}, {"&&"}, {"|"}, {"^"}, {"&"}, {"==", "!="}, {"<", ">", "<=", ">="},
             {"<<", ">>"}, {"+", "-"}, {"*", "/", "%"} >>
AssignmentOp == {"=", "+=", "-=", "*=", "/=", "%=", "&=", "|=", "^=", "<<=", ">>="}
PrefixOp == {"!", "~", "-", "+", "++", "--", "*", "&"}

RECURSIVE Binary(_, _), BinaryRest(_, _), Ternary(_), CommaRest(_), PostfixRest(_)
Binary(s, level) ==
  IF level > Len(Ladder) THEN Unary(s) ELSE Then(Binary(s, level + 1), LAMBDA l : BinaryRest(l, level))
BinaryRest(s, level) ==
  IF K(s) \notin Ladder[level] THEN s
  ELSE Then(Binary(Step(s), level + 1), LAMBDA r :
         BinaryRest(Give(r, <<"binary", K(s), s.out, r.out>>), level))

Ternary(s) ==
  Then(Binary(s, 1), LAMBDA c :
    IF K(c) # "?" THEN c
    ELSE Then(Expression(Step(c)), LAMBDA t :
         Then(Expect(t, ":"), LAMBDA colon :
         Then(Ternary(colon), LAMBDA e : Give(e, <<"ternary", c.out, t.out, e.out>>)))))

ParseAssignment(s) ==
  Then(Ternary(s), LAMBDA t :
    IF K(t) \notin AssignmentOp THEN t
    ELSE Then(Assignment(Step(t)), LAMBDA r : Give(r, <<"binary", K(t), t.out, r.out>>)))

CommaRest(s) ==
  IF K(s) # "," THEN s
  ELSE Then(Assignment(Step(s)), LAMBDA r : CommaRest(Give(r, <<"binary", ",", s.out, r.out>>)))
Comma(s) == Then(Assignment(s), LAMBDA e : CommaRest(e))

Sizeof(s) ==
  Then(Expect(Step(s), "("), LAMBDA o :
  Then(IF AtType(o) THEN Type(o) ELSE Expression(o), LAMBDA r : Give(Expect(r, ")"), <<"sizeof", r.out>>)))

ParseUnary(s) ==
  IF K(s) \in PrefixOp THEN Then(Unary(Step(s)), LAMBDA r : Give(r, <<"unary", K(s), r.out>>))
  ELSE IF K(s) = "sizeof" THEN Sizeof(s)
  ELSE Then(Primary(s), LAMBDA p : PostfixRest(p))

MemberAccess(s, e) ==
  Then(Named(Accept(Step(s), {"~"})), LAMBDA n : Give(n, <<"member", K(s), e, Kind(s, 1) = "~", n.out>>))

(* An identifier that is also the name of a type or of a template takes a  *)
(* "<" for its template arguments.                                         *)
Postfix(s, e) ==
  CASE K(s) = "<" -> Give(SkipAngles(s), e)
    [] K(s) = "(" -> Then(Parens(s, "argument"), LAMBDA a : Give(a, <<"call", e, a.out>>))
    [] K(s) = "[" -> Then(Expression(Step(s)), LAMBDA i : Give(Expect(i, "]"), <<"index", e, i.out>>))
    [] K(s) \in {".", "->"} -> MemberAccess(s, e)
    [] K(s) \in {"++", "--"} -> Give(Step(s), <<"postfix", K(s), e>>)
PostfixRest(s) ==
  IF \/ K(s) \in {"(", "[", ".", "->", "++", "--"}
     \/ K(s) = "<" /\ s.out[1] = "name" /\ s.out[2] \in s.types \cup s.templates
  THEN Then(Postfix(s, s.out), LAMBDA p : PostfixRest(p)) ELSE s

New(s) ==
  Then(Type(Step(s)), LAMBDA t :
    IF K(t) = "[" THEN Then(Expression(Step(t)), LAMBDA i : Give(Expect(i, "]"), <<"new array", t.out, i.out>>))
    ELSE Then(IF K(t) = "(" THEN Parens(t, "argument") ELSE Give(t, None), LAMBDA a :
           Give(a, <<"new", t.out, a.out>>)))

Delete(s) ==
  LET array == Kind(s, 1) = "[" IN
  Then(IF array THEN Expect(Step(Step(s)), "]") ELSE Step(s), LAMBDA b :
  Then(Unary(b), LAMBDA e : Give(e, <<"delete", array, e.out>>)))

(* "::name": the last name of the path, or new and delete.                 *)
Global(s) ==
  IF K(s) \in {"new", "delete"} THEN Primary(s)
  ELSE Then(Named(s), LAMBDA n : Then(PathRest(n, n.out), LAMBDA r : Give(r, <<"name", r.out>>)))

NamedCast(s) ==
  Then(Expect(Step(s), "<"), LAMBDA o :
  Then(Type(o), LAMBDA t :
  Then(Expect(Expect(t, ">"), "("), LAMBDA p :
  Then(Expression(p), LAMBDA e : Give(Expect(e, ")"), <<"cast", t.out, e.out>>)))))

(* "(": a cast, or an expression in parentheses.                           *)
Parenthesized(s) ==
  Then(Step(s), LAMBDA o :
    IF AtType(o) /\ LooksLikeCast(o)
    THEN Then(Type(o), LAMBDA t :
         Then(Expect(t, ")"), LAMBDA c :
         Then(Unary(c), LAMBDA e : Give(e, <<"cast", t.out, e.out>>))))
    ELSE Then(Expression(o), LAMBDA e : Expect(e, ")")))

ParsePrimary(s) ==
  CASE K(s) \in {"IntegerLiteral", "FloatLiteral", "StringLiteral", "CharLiteral"} ->
         Give(Step(s), <<K(s), Value(s)>>)
    [] K(s) \in {"true", "false", "this"} -> Give(Step(s), <<K(s)>>)
    [] K(s) = "Identifier" ->
         IF Kind(s, 1) = "::" THEN Then(Named(Step(Step(s))), LAMBDA n : Give(n, <<"scoped", Value(s), n.out>>))
         ELSE Give(Step(s), <<"name", Value(s)>>)
    [] K(s) = "::" -> Global(Step(s))
    [] K(s) \in {"static_cast", "reinterpret_cast", "dynamic_cast", "const_cast"} -> NamedCast(s)
    [] K(s) = "new" -> New(s)
    [] K(s) = "delete" -> Delete(s)
    [] K(s) = "(" -> Parenthesized(s)
    [] OTHER -> Fail(s)

-----------------------------------------------------------------------------
(* Variables.                                                              *)
RECURSIVE Dimensions(_, _), ExtraDeclarators(_, _)
Dimensions(s, size) ==
  IF K(s) # "[" THEN Give(s, size)
  ELSE Then(IF Kind(s, 1) = "]" THEN Give(Step(s), <<"IntegerLiteral", <<"0">>>>) ELSE Expression(Step(s)), LAMBDA e :
       Then(Expect(e, "]"), LAMBDA c : Dimensions(c, IF size = None THEN e.out ELSE size)))

(* The declarators after the first are read and dropped.                   *)
ExtraInitializer(s, inClass) ==
  IF K(s) # "=" THEN s
  ELSE IF ~inClass /\ Kind(s, 1) = "{" THEN SkipGroup(Step(s), "{", "}") ELSE Assignment(Step(s))
ExtraDeclarators(s, inClass) ==
  IF K(s) # "," THEN s
  ELSE Then(Brackets(Accept(SkipOver(Step(s), {"*"}), {"Identifier"}), FALSE), LAMBDA b :
       Then(IF inClass /\ K(b) = ":" THEN Expression(Step(b)) ELSE b, LAMBDA w :
       Then(ExtraInitializer(w, inClass), LAMBDA i : ExtraDeclarators(i, inClass))))

VariableDeclaration(s, type, name) ==
  Then(Dimensions(s, None), LAMBDA d :
  Then(CASE K(d) # "=" -> Give(d, None)
         [] K(d) = "=" -> IF Kind(d, 1) = "{" THEN Braces(Step(d)) ELSE Expression(Step(d)), LAMBDA i :
  Then(ExtraDeclarators(i, FALSE), LAMBDA x :
    Give(ToSemicolon(x), <<"variable", type, name, d.out, i.out>>))))

-----------------------------------------------------------------------------
(* Statements.                                                             *)
RECURSIVE Statements(_, _), CaseBody(_, _), Cases(_, _), Catches(_, _)
Statements(s, list) ==
  IF K(s) \in {"}", "Eof"} THEN Give(s, list)
  ELSE LET Continue(r) == IF r.ok THEN Statements(r, Append(list, r.out)) ELSE Statements(Resume(r), list)
       IN  Continue(StatementOrDeclaration(s))

ParseBlock(s) ==
  Then(Expect(s, "{"), LAMBDA o :
  Then(Statements(o, None), LAMBDA l : Give(Expect(l, "}"), <<"block", l.out>>)))

BodyOrSemicolon(s) == IF K(s) = "{" THEN Block(s) ELSE Give(Expect(s, ";"), None)

Condition(s) ==
  Then(Expect(s, "("), LAMBDA o : Then(Expression(o), LAMBDA c : Expect(c, ")")))

Return(s) ==
  Then(IF Kind(s, 1) = ";" THEN Give(Step(s), None) ELSE Expression(Step(s)), LAMBDA e :
    Give(Expect(e, ";"), <<K(s), e.out>>))

If(s) ==
  Then(Condition(Step(s)), LAMBDA c :
  Then(Statement(c), LAMBDA t :
  Then(IF K(t) = "else" THEN Statement(Step(t)) ELSE Give(t, None), LAMBDA e :
    Give(e, <<"if", c.out, t.out, e.out>>))))

While(s) ==
  Then(Condition(Step(s)), LAMBDA c : Then(Statement(c), LAMBDA b : Give(b, <<"while", c.out, b.out>>)))

DoWhile(s) ==
  Then(Statement(Step(s)), LAMBDA b :
  Then(Condition(Expect(b, "while")), LAMBDA c : Give(Expect(c, ";"), <<"do", b.out, c.out>>)))

ForInit(s) ==
  IF K(s) = ";" THEN Give(Step(s), None)
  ELSE IF AtType(s)
  THEN Then(Type(s), LAMBDA t : Then(Named(t), LAMBDA n : VariableDeclaration(n, t.out, n.out)))
  ELSE Then(Comma(s), LAMBDA e : Expect(e, ";"))

For(s) ==
  Then(Expect(Step(s), "("), LAMBDA o :
  Then(ForInit(o), LAMBDA i :
  Then(IF K(i) = ";" THEN Give(i, None) ELSE Expression(i), LAMBDA c :
  Then(Expect(c, ";"), LAMBDA e :
  Then(IF K(e) = ")" THEN Give(e, None) ELSE Comma(e), LAMBDA a :
  Then(Statement(Expect(a, ")")), LAMBDA b :
    Give(b, <<"for", i.out, c.out, a.out, b.out>>)))))))

CaseBody(s, list) ==
  IF K(s) \in {"case", "default", "}", "Eof"} THEN Give(s, list)
  ELSE Then(StatementOrDeclaration(s), LAMBDA r : CaseBody(r, Append(list, r.out)))

Cases(s, list) ==
  IF K(s) \in {"}", "Eof"} THEN Give(s, list)
  ELSE IF K(s) \notin {"case", "default"} THEN Fail(s)
  ELSE Then(IF K(s) = "case" THEN Expression(Step(s)) ELSE Give(Step(s), None), LAMBDA v :
       Then(Expect(v, ":"), LAMBDA c :
       Then(CaseBody(c, None), LAMBDA b : Cases(b, Append(list, <<v.out, b.out>>)))))

Switch(s) ==
  Then(Condition(Step(s)), LAMBDA c :
  Then(Expect(c, "{"), LAMBDA o :
  Then(Cases(o, None), LAMBDA l : Give(Expect(l, "}"), <<"switch", c.out, l.out>>))))

CatchClause(s) ==
  Then(Expect(Step(s), "("), LAMBDA o :
  Then(IF K(o) = "..." THEN Give(Step(o), None) ELSE Type(o), LAMBDA t :
  Then(IF K(o) = "..." THEN t ELSE MaybeNamed(t), LAMBDA n :
  Then(Block(Expect(n, ")")), LAMBDA b : Give(b, <<t.out, n.out, b.out>>)))))

Catches(s, list) ==
  IF K(s) # "catch" THEN Give(s, list)
  ELSE Then(CatchClause(s), LAMBDA c : Catches(c, Append(list, c.out)))

TryCatch(s) ==
  Then(Block(Step(s)), LAMBDA b :
    IF K(b) # "catch" THEN Fail(b)
    ELSE Then(Catches(b, None), LAMBDA l : Give(l, <<"try", b.out, l.out>>)))

ParseStatement(s) ==
  CASE K(s) = "{" -> Block(s)
    [] K(s) \in {"return", "throw"} -> Return(s)
    [] K(s) = "if" -> If(s)
    [] K(s) = "while" -> While(s)
    [] K(s) = "do" -> DoWhile(s)
    [] K(s) = "for" -> For(s)
    [] K(s) = "switch" -> Switch(s)
    [] K(s) \in {"break", "continue"} -> Give(Expect(Step(s), ";"), <<K(s)>>)
    [] K(s) = "try" -> TryCatch(s)
    [] OTHER -> Then(Expression(s), LAMBDA e : Expect(e, ";"))

(* parse_statement_or_declaration                                          *)
Declares(s) ==
  CASE K(s) \in {"static", "extern", "volatile"} /\ Kind(s, 1) # ";" -> TRUE
    [] K(s) = "::" /\ (Kind(s, 1) \in {"new", "delete"} \/ (Kind(s, 1) = "Identifier" /\ Kind(s, 2) = "(")) -> FALSE
    [] K(s) = "Identifier" /\ Kind(s, 1) \notin {"Identifier", "*", "&", "::", "const", "volatile"} -> FALSE
    [] OTHER -> AtType(s)
ParseStatementOrDeclaration(s) ==
  IF K(s) \in TagWord THEN TaggedDefinition(s, FALSE)
  ELSE IF Declares(s) THEN Declaration(s) ELSE Statement(s)

-----------------------------------------------------------------------------
(* Functions and declarations.                                             *)
FunctionPointer(s) ==
  LET stars == MoveTo(Step(s), {i \in DOMAIN tokens :
                   /\ tokens[i].kind \notin {"*", "const", "volatile"}
                   /\ tokens[i].kind # "Identifier" \/ Text(tokens[i].value) \notin Convention})
  IN  Then(MaybeNamed(stars), LAMBDA n :
      Then(Expect(n, ")"), LAMBDA p :
      Then(IF K(p) = "(" THEN StrictGroup(p, "(", ")") ELSE p, LAMBDA a :
        Give(Brackets(a, TRUE), n.out))))

Parameter(s) ==
  Then(Type(s), LAMBDA t :
  Then(IF K(t) = "(" THEN FunctionPointer(t) ELSE MaybeNamed(t), LAMBDA n :
  Then(IF K(t) = "(" THEN n ELSE Dimensions(n, None), LAMBDA d :
  Then(IF K(d) = "=" THEN Assignment(Step(d)) ELSE d, LAMBDA v :
    Give(v, <<"parameter", t.out, n.out>>)))))
ParseParameter(s) == IF K(s) = "..." THEN Give(Step(s), <<"variadic">>) ELSE Parameter(s)

SkipThrow(s) ==
  IF K(s) # "throw" THEN s ELSE IF Kind(s, 1) = "(" THEN SkipGroup(Step(s), "(", ")") ELSE Step(s)
SkipInitializers(s) == IF K(s) = ":" THEN SkipTo(Step(s), {"{", ";"}) ELSE s

FunctionDefinition(s, type, name) ==
  Then(Parens(s, "parameter"), LAMBDA p :
  Then(SkipInitializers(SkipThrow(SkipOver(p, Qualifier))), LAMBDA i :
  Then(IF K(i) = ";" THEN Give(Step(i), EmptyBlock) ELSE Block(i), LAMBDA b :
    Give(b, <<"function", type, name, p.out, b.out>>))))

Defined(s, type, name) ==
  IF K(s) = "(" THEN FunctionDefinition(s, type, name) ELSE VariableDeclaration(s, type, name)

Overloadable ==
  {"+", "-", "*", "/", "%", "==", "!=", "<", ">", "<=", ">=", "&&", "||", "!", "&", "|", "^", "~",
   "<<", ">>", "++", "--", "=", "+=", "-=", "*=", "/=", "%=", "&=", "|=", "^=", "<<=", ">>=", "->",
   "->*", "[]", "()", ",", "new", "delete", "new[]", "delete[]"}
Symbol(o, one, two) ==
  CASE K(o) = "(" -> Give(Expect(Step(o), ")"), Append(one, ")"))
    [] K(o) = "[" -> Give(Expect(Step(o), "]"), Append(one, "]"))
    [] K(o) \in {"new", "delete"} ->
         IF Kind(o, 1) = "[" THEN Give(Expect(Step(Step(o)), "]"), one \o <<"[", "]">>) ELSE Give(Step(o), one)
    [] OTHER ->
         IF Text(two) \in Overloadable THEN Give(Step(Step(o)), two)
         ELSE IF Text(one) \in Overloadable THEN Give(Step(o), one)
         ELSE IF K(o) \notin TypeKeyword \cup {"Identifier"} THEN Fail(o)
         ELSE Then(Type(o), LAMBDA t : Give(t, FlattenSeq(t.out[2])))
OperatorSymbol(s) ==
  Then(Expect(s, "operator"), LAMBDA o : Symbol(o, Value(o), Value(o) \o Value(Step(o))))

RECURSIVE StrictPath(_)
StrictPath(s) == Then(Named(s), LAMBDA n : IF K(n) = "::" THEN StrictPath(Step(n)) ELSE n)

(* A function or variable named behind "::": a destructor, an operator, or *)
(* a path of which the last name counts.                                   *)
Destructor(s, type, name) ==
  LET d == Accept(s, {"Identifier"}) IN
  Then(IF K(d) = "(" THEN SkipGroup(d, "(", ")") ELSE d, LAMBDA p :
  Then(IF K(p) = "{" THEN Block(p) ELSE Give(Accept(p, {";"}), EmptyBlock), LAMBDA b :
    Give(b, <<"function", type, name \o <<"::~">> \o name, None, b.out>>)))
OperatorMethod(s, type, name) ==
  Then(OperatorSymbol(s), LAMBDA op :
    IF K(op) = "(" THEN FunctionDefinition(op, type, name \o <<"::operator">> \o op.out)
    ELSE Then(Expect(op, ";"), LAMBDA e :
           Give(e, <<"function", type, name \o <<"::operator">> \o op.out, None, EmptyBlock>>)))
Method(s, type, name) ==
  CASE Kind(s, 1) = "~" -> Destructor(Step(Step(s)), type, name)
    [] Kind(s, 1) = "operator" -> OperatorMethod(Step(s), type, name)
    [] OTHER -> Then(StrictPath(Step(s)), LAMBDA n : Defined(n, type, n.out))

ParseDeclaration(s) ==
  Then(Type(SkipOver(s, {"static", "extern", "volatile", "inline"})), LAMBDA t :
  Then(SkipConventions(t), LAMBDA c :
    IF K(c) = "::" THEN Method(c, t.out, Last(t.out[2]))
    ELSE Then(Named(c), LAMBDA n :
         IF K(n) = "::" THEN Method(n, t.out, n.out)
         ELSE Defined(IF K(n) = "<" THEN SkipAngles(n) ELSE n, t.out, n.out))))

-----------------------------------------------------------------------------
(* Enumerations, unions and classes.                                       *)
EndOfDefinition(s, fromTypedef) ==
  Then(Expect(s, "}"), LAMBDA e : IF fromTypedef THEN e ELSE Expect(e, ";"))

ParseEnumerator(s) ==
  Then(Named(s), LAMBDA n :
  Then(IF K(n) = "=" THEN Expression(Step(n)) ELSE Give(n, None), LAMBDA v : Give(v, <<n.out, v.out>>)))

EnumDefinition(s, fromTypedef) ==
  Then(MaybeNamed(Step(s)), LAMBDA n :
  Then(Expect(Register(n, {n.out}), "{"), LAMBDA o :
  Then(Items(o, "enumerator", None), LAMBDA l :
    Give(EndOfDefinition(l, fromTypedef), <<"enum", n.out, l.out>>))))

UnionMember(s) ==
  Then(Type(s), LAMBDA t :
  Then(Named(t), LAMBDA n : Give(Expect(Brackets(n, TRUE), ";"), <<"variable", t.out, n.out, None, None>>)))

RECURSIVE UnionMembers(_, _)
UnionMembers(s, list) ==
  LET Continue(m) == IF m.ok THEN UnionMembers(m, Append(list, m.out)) ELSE UnionMembers(Resume(m), list)
  IN  IF K(s) \in {"}", "Eof"} THEN Give(s, list) ELSE Continue(UnionMember(s))

UnionBody(s, fromTypedef, name) ==
  IF K(s) = ";" THEN Give(Step(s), <<"union", name, None>>)
  ELSE Then(Expect(s, "{"), LAMBDA o :
       Then(UnionMembers(o, None), LAMBDA l : Give(EndOfDefinition(l, fromTypedef), <<"union", name, l.out>>)))
UnionDefinition(s, fromTypedef) ==
  Then(MaybeNamed(Step(s)), LAMBDA n : UnionBody(Register(n, {n.out}), fromTypedef, n.out))

ParseInitializer(s) ==
  Then(Named(s), LAMBDA n : Then(Parens(n, "argument"), LAMBDA a : Give(a, <<n.out, a.out>>)))
Constructor(s) ==
  Then(Parens(Step(s), "parameter"), LAMBDA p :
  Then(IF K(p) = ":" THEN Items(Step(p), "initializer", None) ELSE Give(p, None), LAMBDA i :
  Then(BodyOrSemicolon(i), LAMBDA b : Give(b, <<"constructor", p.out, i.out, b.out>>))))

AtPure(s) == K(s) = "=" /\ Kind(s, 1) = "IntegerLiteral" /\ Value(Step(s)) = <<"0">>
MemberFunction(s, type, name) ==
  Then(Parens(s, "parameter"), LAMBDA p :
  Then(Accept(p, {"const"}), LAMBDA c :
  Then(BodyOrSemicolon(IF AtPure(c) THEN Step(Step(c)) ELSE c), LAMBDA b :
    Give(b, <<"method", type, name, p.out, b.out, AtPure(c)>>))))

MemberVariable(s, type, name) ==
  Then(Brackets(s, TRUE), LAMBDA b :
  Then(IF K(b) = ":" THEN Expression(Step(b)) ELSE b, LAMBDA w :
  Then(IF K(w) = "=" THEN Expression(Step(w)) ELSE Give(w, None), LAMBDA v :
    Give(Expect(ExtraDeclarators(v, TRUE), ";"), <<"variable", type, name, None, v.out>>))))

OperatorMember(s, type) ==
  Then(OperatorSymbol(s), LAMBDA op :
  Then(Parens(op, "parameter"), LAMBDA p :
  Then(BodyOrSemicolon(Accept(p, {"const"})), LAMBDA b :
    Give(b, <<"operator", type, op.out, p.out, b.out>>))))

TypedMember(t, type) ==
  CASE K(t) = ":" ->
         Then(Expression(Step(t)), LAMBDA w : Give(Expect(w, ";"), <<"variable", type, None, None, None>>))
    [] K(t) = "operator" -> OperatorMember(t, type)
    [] OTHER -> Then(Named(t), LAMBDA n :
                  IF K(n) = "(" THEN MemberFunction(n, type, n.out) ELSE MemberVariable(n, type, n.out))

RECURSIVE Member(_, _), Members(_, _, _, _)
MemberAfter(s, class) ==
  CASE K(s) = "typedef" -> Typedef(s)
    [] K(s) = "template" ->
         Then(TemplateParameters(s), LAMBDA ps :
         Then(Member(ps, class), LAMBDA m : Give(m, <<"template", ps.out, m.out>>)))
    [] K(s) = "~" ->
         Then(BodyOrSemicolon(Expect(Expect(Expect(Step(s), "Identifier"), "("), ")")), LAMBDA d :
           Give(d, <<"destructor", d.out>>))
    [] OTHER -> IF K(s) = "Identifier" /\ Value(s) = class /\ Kind(s, 1) = "(" THEN Constructor(s)
                ELSE Then(Type(s), LAMBDA t : TypedMember(t, t.out))
Member(s, class) ==
  MemberAfter(SkipOver(s, {"virtual", "static", "explicit", "inline", "friend", "volatile", "const", "extern"}), class)

Members(s, class, access, list) ==
  LET Continue(m) == IF m.ok THEN Members(m, class, access, Append(list, <<access, m.out>>))
                     ELSE Members(Resume(m), class, access, list)
  IN  CASE K(s) \in {"}", "Eof"} -> Give(s, list)
        [] K(s) = ";" -> Members(Step(s), class, access, list)
        [] K(s) \in {"public", "protected", "private"} ->
             Then(Expect(Step(s), ":"), LAMBDA c : Members(c, class, K(s), list))
        [] OTHER -> Continue(Member(s, class))

ParseBase(s) ==
  Named(Accept(Accept(Accept(s, {"virtual"}), {"public", "protected", "private"}), {"virtual"}))

ClassBody(s, fromTypedef, name, bases, access) ==
  IF K(s) = ";" THEN Give(Step(s), <<"class", name, bases, None>>)
  ELSE Then(Expect(s, "{"), LAMBDA o :
       Then(Members(o, name, access, None), LAMBDA l :
         Give(EndOfDefinition(l, fromTypedef), <<"class", name, bases, l.out>>)))
ClassBases(s) == IF K(s) = ":" THEN Items(Step(s), "base", None) ELSE Give(s, None)
ClassDefinition(s, fromTypedef) ==
  Then(IF fromTypedef THEN MaybeNamed(Step(s)) ELSE Named(Step(s)), LAMBDA n :
  Then(ClassBases(Register(n, {n.out})), LAMBDA b :
    ClassBody(b, fromTypedef, n.out, b.out, IF K(s) = "struct" THEN "public" ELSE "private")))

ParseTaggedDefinition(s, fromTypedef) ==
  CASE K(s) = "enum" -> EnumDefinition(s, fromTypedef)
    [] K(s) = "union" -> UnionDefinition(s, fromTypedef)
    [] K(s) \in {"class", "struct"} -> ClassDefinition(s, fromTypedef)

-----------------------------------------------------------------------------
(* Typedefs: every alias becomes a known type, except that of a pointer to *)
(* a function.                                                             *)
Alias(s) == IF K(s) \in {";", "Eof"} THEN Fail(s) ELSE Give(Register(Step(s), {Value(s)}), Value(s))
SkipBounds(s, arrays) == IF arrays /\ K(s) = "[" THEN SkipTo(s, {";", ","}) ELSE s

RECURSIVE Aliases(_, _), PointerAlias(_, _)
Aliases(s, arrays) ==
  IF K(s) # "," THEN s
  ELSE Then(SkipOver(Step(s), {"*"}), LAMBDA p :
         Aliases(IF K(p) \in {";", "Eof"} THEN p ELSE SkipBounds(Alias(p), arrays), arrays))

PointerAlias(s, depth) ==
  LET d == depth + (IF K(s) = "(" THEN 1 ELSE 0) - (IF K(s) = ")" THEN 1 ELSE 0)
      On(behind) == IF K(s) = "Eof" \/ (d <= 0 /\ K(behind) = ";") THEN behind ELSE PointerAlias(behind, d)
  IN  On(IF d <= 0 THEN Accept(Step(s), {")"}) ELSE Step(s))

TypedefBody(s) ==
  Then(TaggedDefinition(s, TRUE), LAMBDA c :
    IF K(s) = "enum" THEN [c EXCEPT !.enums = Append(@, c.out)] ELSE [c EXCEPT !.structs = Append(@, c.out)])
TypedefOfTag(s, n) ==
  Then(IF K(n) = "{" \/ (K(n) = ":" /\ K(s) \in {"struct", "class"}) THEN TypedefBody(s)
       ELSE Then(Alias(IF K(s) = "enum" THEN n ELSE SkipOver(n, {"*"})), LAMBDA a : Register(a, {n.out})), LAMBDA b :
    Give(ToSemicolon(Aliases(b, FALSE)), <<"typedef", None, None>>))

WithoutAlias(type) ==   \* the alias was read as the last word of the type
  IF Len(type[2]) = 1 THEN type ELSE [type EXCEPT ![2] = Front(type[2])]
TypedefOfType(t, type) ==
  CASE K(t) = "(" -> Give(ToSemicolon(PointerAlias(t, 0)), <<"typedef", type, None>>)
    [] K(t) = ";" -> Give(Register(Step(t), {Last(type[2])}),
                          <<"typedef", WithoutAlias(type), Last(type[2])>>)
    [] OTHER -> Then(SkipBounds(Alias(PathRest(t, None)), TRUE), LAMBDA a :
                  Give(ToSemicolon(Aliases(a, TRUE)), <<"typedef", type, a.out>>))

ParseTypedef(s) ==
  IF Kind(s, 1) \in TagWord THEN TypedefOfTag(Step(s), MaybeNamed(Step(Step(s))))
  ELSE Then(Type(Step(s)), LAMBDA t : TypedefOfType(t, t.out))

-----------------------------------------------------------------------------
(* Templates.                                                              *)
TypeParameter(s) ==
  Then(MaybeNamed(Step(s)), LAMBDA n :
  Then(Register(n, {n.out}), LAMBDA r :
  Then(IF K(r) = "=" THEN Type(Step(r)) ELSE r, LAMBDA d : Give(d, <<"type parameter", n.out>>))))
ValueParameter(s) ==
  Then(Type(s), LAMBDA t :
  Then(MaybeNamed(t), LAMBDA v :
  Then(IF K(v) = "=" THEN Expression(Step(v)) ELSE v, LAMBDA e :
    Give(e, <<"value parameter", t.out, v.out>>))))
ParseTemplateParameter(s) ==
  CASE K(s) = "template" ->
         Then(TemplateParameters(s), LAMBDA inner :
         Then(MaybeNamed(Accept(inner, {"class", "typename"})), LAMBDA i : Give(i, <<"template parameter", i.out>>)))
    [] K(s) \in {"typename", "class"} -> TypeParameter(s)
    [] OTHER -> ValueParameter(s)

ParseTemplateParameters(s) ==
  Then(Expect(Expect(s, "template"), "<"), LAMBDA o :
    IF K(o) = ">" THEN Give(Step(o), None) ELSE Expect(Items(o, "template parameter", None), ">"))

TemplateNames(d) ==
  CASE d[1] = "class" -> {d[2]}
    [] d[1] = "function" -> {d[3]}
    [] OTHER -> {}
TemplateDeclaration(s) ==
  Then(TemplateParameters(s), LAMBDA p :
  Then(IF K(p) \in {"class", "struct", "enum"} THEN TaggedDefinition(p, FALSE) ELSE Declaration(p), LAMBDA d :
    Give([d EXCEPT !.templates = @ \cup TemplateNames(d.out)], <<"template", p.out, d.out>>)))

-----------------------------------------------------------------------------
(* Namespaces and using.                                                   *)
RECURSIVE Names(_, _), NamespaceItems(_, _)
Names(s, list) ==
  Then(Named(s), LAMBDA n :
    IF K(n) = "::" THEN Names(Step(n), Append(list, n.out)) ELSE Give(n, Append(list, n.out)))
Using(s) ==
  Then(Names(Accept(Step(s), {"namespace"}), None), LAMBDA n :
    Give(Expect(n, ";"), <<"using", Kind(s, 1) = "namespace", n.out>>))

Definable == {"namespace", "using", "typedef", "template"} \cup TagWord
NamespaceItem(s) ==
  CASE K(s) = "Preprocessor" -> Give(Step(s), <<"directive", Value(s)>>)
    [] K(s) \in Definable -> Definition(s)
    [] OTHER -> Declaration(s)
NamespaceItems(s, list) ==
  CASE K(s) \in {"}", "Eof"} -> Give(s, list)
    [] K(s) \in {";", "static", "volatile", "inline", "extern"} -> NamespaceItems(Step(s), list)
    [] OTHER -> Then(NamespaceItem(s), LAMBDA d : NamespaceItems(d, Append(list, d.out)))
Namespace(s) ==
  Then(Named(Step(s)), LAMBDA n :
  Then(Expect(n, "{"), LAMBDA o :
  Then(NamespaceItems(o, None), LAMBDA l : Give(Expect(l, "}"), <<"namespace", n.out, l.out>>))))

ParseDefinition(s) ==
  CASE K(s) = "namespace" -> Namespace(s)
    [] K(s) = "using" -> Using(s)
    [] K(s) = "typedef" -> Typedef(s)
    [] K(s) \in TagWord -> TaggedDefinition(s, FALSE)
    [] K(s) = "template" -> TemplateDeclaration(s)

ParseGlobalOperator(s) ==
  Then(Type(s), LAMBDA t :
  Then(OperatorSymbol(t), LAMBDA op :
  Then(Parens(op, "parameter"), LAMBDA p :
  Then(BodyOrSemicolon(p), LAMBDA b : Give(b, <<"operator", t.out, op.out, p.out, b.out>>)))))

-----------------------------------------------------------------------------
(* One call of a method of the parser.                                     *)
Parse(s, what) ==
  IF ~s.ok THEN s
  ELSE CASE what = "type" -> ParseType(s)
         [] what \in {"assignment", "argument"} -> ParseAssignment(s)
         [] what = "unary" -> ParseUnary(s)
         [] what = "primary" -> ParsePrimary(s)
         [] what = "value" -> ParseValue(s)
         [] what = "parameter" -> ParseParameter(s)
         [] what = "template argument" -> ParseTemplateArgument(s)
         [] what = "template parameter" -> ParseTemplateParameter(s)
         [] what = "enumerator" -> ParseEnumerator(s)
         [] what = "base" -> ParseBase(s)
         [] what = "initializer" -> ParseInitializer(s)
         [] what = "block" -> ParseBlock(s)
         [] what = "statement" -> ParseStatement(s)
         [] what = "statement or declaration" -> ParseStatementOrDeclaration(s)
         [] what = "declaration" -> ParseDeclaration(s)
         [] what \in {"tag", "tag of a typedef"} -> ParseTaggedDefinition(s, what = "tag of a typedef")
         [] what = "typedef" -> ParseTypedef(s)
         [] what = "template parameters" -> ParseTemplateParameters(s)
         [] what = "definition" -> ParseDefinition(s)
         [] what = "operator" -> ParseGlobalOperator(s)
===============================================================================
