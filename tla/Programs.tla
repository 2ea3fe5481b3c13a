------------------------------ MODULE Programs --------------------------------
(***************************************************************************)
(* Instances of the front end.  A program is a list of words; Layout makes *)
(* a text of it, with blanks, comments and line ends between the words, or *)
(* with nothing where the words keep apart by themselves.                  *)
(*                                                                         *)
(*   Printed   trees, printed with the parentheses that the precedence of  *)
(*             C++ asks for: every construct of an expression in every     *)
(*             operand of every other one, and the same for statements     *)
(*   Declared  declarations of every kind, in every order of two           *)
(*   Damaged   every short sequence of words where a statement or a        *)
(*             declaration should be                                       *)
(*   Raw       every short sequence of a few characters                    *)
(***************************************************************************)
EXTENDS Vocabulary, TLC

CONSTANT MaxRaw, MaxDamage   \* the length of a raw text, and of the damage

Chars(word) ==
  CASE word = "int" -> <<"i", "n", "t">>
    [] word = "if" -> <<"i", "f">> [] word = "else" -> <<"e", "l", "s", "e">>
    [] word = "while" -> <<"w", "h", "i", "l", "e">> [] word = "do" -> <<"d", "o">>
    [] word = "for" -> <<"f", "o", "r">> [] word = "switch" -> <<"s", "w", "i", "t", "c", "h">>
    [] word = "case" -> <<"c", "a", "s", "e">> [] word = "default" -> <<"d", "e", "f", "a", "u", "l", "t">>
    [] word = "try" -> <<"t", "r", "y">> [] word = "catch" -> <<"c", "a", "t", "c", "h">>
    [] word = "throw" -> <<"t", "h", "r", "o", "w">> [] word = "return" -> <<"r", "e", "t", "u", "r", "n">>
    [] word = "break" -> <<"b", "r", "e", "a", "k">> [] word = "new" -> <<"n", "e", "w">>
    [] word = "delete" -> <<"d", "e", "l", "e", "t", "e">>
    [] word = "sizeof" -> <<"s", "i", "z", "e", "o", "f">>
    [] word = "struct" -> <<"s", "t", "r", "u", "c", "t">> [] word = "class" -> <<"c", "l", "a", "s", "s">>
    [] word = "public" -> <<"p", "u", "b", "l", "i", "c">> [] word = "enum" -> <<"e", "n", "u", "m">>
    [] word = "union" -> <<"u", "n", "i", "o", "n">>
    [] word = "typedef" -> <<"t", "y", "p", "e", "d", "e", "f">>
    [] word = "const" -> <<"c", "o", "n", "s", "t">>
    [] word = "template" -> <<"t", "e", "m", "p", "l", "a", "t", "e">>
    [] word = "typename" -> <<"t", "y", "p", "e", "n", "a", "m", "e">>
    [] word = "namespace" -> <<"n", "a", "m", "e", "s", "p", "a", "c", "e">>
    [] word = "using" -> <<"u", "s", "i", "n", "g">>
    [] word = "operator" -> <<"o", "p", "e", "r", "a", "t", "o", "r">>
    [] word = "unsigned" -> <<"u", "n", "s", "i", "g", "n", "e", "d">>
    [] word = "extern" -> <<"e", "x", "t", "e", "r", "n">>
    [] word = "static" -> <<"s", "t", "a", "t", "i", "c">>
    [] word = "virtual" -> <<"v", "i", "r", "t", "u", "a", "l">>
    [] word = "static_cast" -> <<"s", "t", "a", "t", "i", "c", "_", "c", "a", "s", "t">>
    [] word = "this" -> <<"t", "h", "i", "s">> [] word = "WINAPI" -> <<"W", "I", "N", "A", "P", "I">>
    [] word = "\"s" -> <<"\"", "s", "\"">> [] word = "\"t" -> <<"\"", "\\", "\"", "\"">>
    [] word = "\"C" -> <<"\"", "C", "\"">> [] word = "\"C++" -> <<"\"", "C", "+", "+", "\"">>
    [] word = "'c" -> <<"'", "\\", "n", "'">> [] word = "0x1" -> <<"0", "x", "1", "F", "u">>
    [] word = "1.5" -> <<"1", ".", "5", "e", "-", "3", "f">> [] word = "7i64" -> <<"7", "i", "6", "4">>
    [] word = "#" -> <<"#", "p", " ", "\\", Newline, "q", " ", Newline>> [] word = "||" -> <<"|", "|">>
    [] word = "&&" -> <<"&", "&">> [] word = "==" -> <<"=", "=">> [] word = "!=" -> <<"!", "=">>
    [] word = "<=" -> <<"<", "=">> [] word = "<<" -> <<"<", "<">> [] word = ">>" -> <<">", ">">>
    [] word = "+=" -> <<"+", "=">> [] word = ">>=" -> <<">", ">", "=">> [] word = "++" -> <<"+", "+">>
    [] word = "--" -> <<"-", "-">> [] word = "->" -> <<"-", ">">> [] word = "::" -> <<":", ":">>
    [] word = "..." -> <<".", ".", ".">> [] OTHER -> <<word>>

-----------------------------------------------------------------------------
(* The characters that need nothing next to them.                          *)
Apart == {"(", ")", "{", "}", "[", "]", ";", ","}
Alone(left, right) ==
  LET l == Last(Chars(left))
      r == Head(Chars(right))
      word == Letter \cup Digit \cup {"\"", "'", "#", "."}
  IN  l \in Apart \/ r \in Apart \/ l = Newline \/ ((l \in word) # (r \in word))

Between(layout, i, left, right) ==
  CASE layout = "spaced" -> <<" ">>
    [] layout = "tight" -> IF Alone(left, right) THEN << >> ELSE <<" ">>
    [] layout = "commented" ->
        (CASE i % 4 = 0 -> <<" ", "/", "*", "\"", "*", "/">>
           [] i % 4 = 1 -> <<" ", "/", "/", "*", Newline>>
           [] i % 4 = 2 -> <<Newline, "\t">>
           [] i % 4 = 3 -> <<Newline, "/", "*", Newline, "*", "*", "/">>)

Layout(words, layout) ==
  FlattenSeq([i \in 1..Len(words) |->
    IF i = 1 THEN Chars(words[1])
    ELSE Between(layout, i, words[i - 1], words[i]) \o Chars(words[i])])

-----------------------------------------------------------------------------
(* Trees of expressions.                                                   *)
N(name) == <<"name", <<name>>>>
One == <<"IntegerLiteral", <<"1">>>>
IntType(stars) == <<"type", <<Chars("int")>>, {}, stars, None>>
Named1(name, stars) == <<"type", <<<<name>>>>, {}, stars, None>>

Level(e) ==
  CASE e[1] = "binary" ->
        (CASE e[2] = "," -> 0
           [] e[2] \in {"=", "+=", ">>="} -> 1
           [] e[2] = "||" -> 3 [] e[2] = "&&" -> 4 [] e[2] = "|" -> 5 [] e[2] = "^" -> 6
           [] e[2] = "&" -> 7 [] e[2] \in {"==", "!="} -> 8 [] e[2] \in {"<", ">", "<="} -> 9
           [] e[2] \in {"<<", ">>"} -> 10 [] e[2] \in {"+", "-"} -> 11 [] e[2] \in {"*", "/", "%"} -> 12)
    [] e[1] = "ternary" -> 2
    [] e[1] \in {"unary", "cast", "sizeof", "delete", "new array"} -> 13
    [] OTHER -> 14

(* A list of lists of words, separated.                                    *)
Listed(items, separator) ==
  FlattenSeq([i \in 1..Len(items) |-> (IF i = 1 THEN << >> ELSE <<separator>>) \o items[i]])

RECURSIVE Shown(_, _)
Shown(e, least) ==
  LET level == Level(e)
      words ==
        CASE e[1] = "name" -> <<e[2][1]>>
          [] e[1] = "IntegerLiteral" -> IF e[2] = <<"1">> THEN <<"1">> ELSE IF e[2] = <<"7">> THEN <<"7i64">> ELSE <<"0x1">>
          [] e[1] = "FloatLiteral" -> <<"1.5">>
          [] e[1] = "StringLiteral" -> <<"\"s", "\"t">>
          [] e[1] = "CharLiteral" -> <<"'c">>
          [] e[1] = "this" -> <<"this">>
          [] e[1] = "scoped" -> <<"T", "::", "a">>
          [] e[1] = "binary" /\ level <= 1 -> Shown(e[3], IF level = 1 THEN 3 ELSE 0) \o <<e[2]>> \o Shown(e[4], 1)
          [] e[1] = "binary" /\ level > 1 -> Shown(e[3], level) \o <<e[2]>> \o Shown(e[4], level + 1)
          [] e[1] = "ternary" -> Shown(e[2], 3) \o <<"?">> \o Shown(e[3], 1) \o <<":">> \o Shown(e[4], 2)
          [] e[1] = "unary" -> <<e[2]>> \o Shown(e[3], 13)
          [] e[1] = "postfix" -> Shown(e[3], 14) \o <<e[2]>>
          [] e[1] = "call" -> Shown(e[2], 14) \o <<"(">> \o Listed([i \in 1..Len(e[3]) |-> Shown(e[3][i], 1)], ",") \o <<")">>
          [] e[1] = "index" -> Shown(e[2], 14) \o <<"[">> \o Shown(e[3], 1) \o <<"]">>
          [] e[1] = "member" -> Shown(e[3], 14) \o <<e[2]>> \o <<e[5][1]>>
          [] e[1] = "cast" -> <<"(", "int", "*", ")">> \o Shown(e[3], 13)
          [] e[1] = "sizeof" -> <<"sizeof", "(">> \o Shown(e[2], 1) \o <<")">>
          [] e[1] = "new array" -> <<"new", "int", "[">> \o Shown(e[3], 1) \o <<"]">>
          [] e[1] = "new" -> <<"new", "T", "(">> \o Listed([i \in 1..Len(e[3]) |-> Shown(e[3][i], 1)], ",") \o <<")">>
          [] e[1] = "delete" -> (IF e[2] THEN <<"delete", "[", "]">> ELSE <<"delete">>) \o Shown(e[3], 13)
  IN  IF level < least THEN <<"(">> \o words \o <<")">> ELSE words

BinaryOps == {"=", ">>=", "||", "&&", "|", "^", "&", "!=", "<", ">", ">>", "-", "*", "%"}
Around(e) ==
  UNION {{<<"binary", op, e, N("b")>>, <<"binary", op, N("b"), e>>} : op \in BinaryOps}
  \cup {<<"unary", op, e>> : op \in {"-", "*", "&", "++"}}
  \cup {<<"ternary", e, N("b"), One>>, <<"ternary", N("b"), e, One>>, <<"ternary", N("b"), One, e>>,
        <<"postfix", "++", e>>, <<"call", e, << >>>>, <<"call", N("b"), <<One, e>>>>,
        <<"index", e, One>>, <<"index", N("b"), e>>, <<"member", "->", e, FALSE, <<"m">>>>,
        <<"cast", IntType(1), e>>, <<"new array", IntType(0), e>>, <<"new", Named1("T", 0), <<e, N("b")>>>>,
        <<"delete", TRUE, e>>}
Leaves == {N("a"), One, <<"StringLiteral", <<"s", "\\", "\"">>>>, <<"CharLiteral", <<"\\", "n">>>>,
           <<"FloatLiteral", Chars("1.5")>>, <<"IntegerLiteral", Chars("0x1")>>,
           <<"IntegerLiteral", <<"7">>>>, <<"this">>, <<"scoped", <<"T">>, <<"a">>>>,
           <<"sizeof", One>>, <<"call", N("f"), <<N("a"), One>>>>, <<"member", ".", N("a"), FALSE, <<"m">>>>,
           <<"unary", "~", N("a")>>, <<"postfix", "--", N("a")>>, <<"delete", FALSE, N("a")>>}
Deep == UNION {Around(e) : e \in Around(N("a"))}
Shallow == UNION {Around(e) : e \in Leaves}

-----------------------------------------------------------------------------
(* Trees of statements.                                                    *)
RECURSIVE Printed(_)
PrintedAll(list) == FlattenSeq([i \in 1..Len(list) |-> Printed(list[i])])
Braced(list) == <<"{">> \o PrintedAll(list) \o <<"}">>
Value0(v) == IF v = None THEN << >> ELSE Shown(v, 1)

Printed(t) ==
  CASE t[1] = "block" -> Braced(t[2])
    [] t[1] = "if" -> <<"if", "(">> \o Shown(t[2], 1) \o <<")">> \o Printed(t[3])
                      \o (IF t[4] = None THEN << >> ELSE <<"else">> \o Printed(t[4]))
    [] t[1] = "while" -> <<"while", "(">> \o Shown(t[2], 1) \o <<")">> \o Printed(t[3])
    [] t[1] = "do" -> <<"do">> \o Printed(t[2]) \o <<"while", "(">> \o Shown(t[3], 1) \o <<")", ";">>
    [] t[1] = "for" -> <<"for", "(">> \o (IF t[2] = None THEN <<";">> ELSE Printed(t[2]))
                       \o Value0(t[3]) \o <<";">> \o (IF t[4] = None THEN << >> ELSE Shown(t[4], 0))
                       \o <<")">> \o Printed(t[5])
    [] t[1] = "switch" ->
         <<"switch", "(">> \o Shown(t[2], 1) \o <<")", "{">>
         \o FlattenSeq([i \in 1..Len(t[3]) |->
              (IF t[3][i][1] = None THEN <<"default">> ELSE <<"case">> \o Shown(t[3][i][1], 1)) \o <<":">>
              \o PrintedAll(t[3][i][2])]) \o <<"}">>
    [] t[1] = "try" -> <<"try">> \o Printed(t[2])
                       \o <<"catch", "(", "int", "e", ")">> \o Printed(t[3][1][3])
                       \o <<"catch", "(", "...", ")">> \o Printed(t[3][2][3])
    [] t[1] \in {"return", "throw"} -> <<t[1]>> \o Value0(t[2]) \o <<";">>
    [] t[1] \in {"break", "continue"} -> <<t[1], ";">>
    [] t[1] = "variable" -> <<"int", t[3][1]>> \o (IF t[4] = None THEN << >> ELSE <<"[">> \o Shown(t[4], 1) \o <<"]">>)
                            \o (IF t[5] = None THEN << >> ELSE <<"=">> \o Shown(t[5], 1)) \o <<";">>
    [] OTHER -> Shown(t, 1) \o <<";">>

Assign(x) == <<"binary", "=", N(x), One>>
Local(x) == <<"variable", IntType(0), <<x>>, None, One>>
Simple == {Assign("a"), <<"return", None>>, <<"return", N("a")>>, <<"throw", One>>, <<"break">>}
Inner == Simple \cup {Local("a"), <<"variable", IntType(0), <<"a">>, One, None>>}
Direct(h) ==   \* h where no declaration may stand
  {<<"if", N("a"), h, None>>, <<"if", N("a"), Assign("b"), h>>, <<"while", N("a"), h>>, <<"do", h, N("a")>>,
   <<"for", None, None, None, h>>,
   <<"for", Local("i"), <<"binary", "<", N("i"), One>>,
     <<"binary", ",", <<"postfix", "++", N("i")>>, Assign("b")>>, h>>,
   <<"for", Assign("i"), N("i"), None, h>>}
  \cup (IF h[1] = "if" /\ h[4] = None THEN {} ELSE {<<"if", N("a"), h, Assign("b")>>})
Within(h) ==
  {<<"block", <<Assign("c"), h, Assign("b")>>>>,
   <<"switch", N("a"), <<<<One, <<h, <<"break">>>>>>, <<None, <<h>>>>>>>>,
   <<"try", <<"block", <<h>>>>, <<<<IntType(0), <<"e">>, <<"block", <<Assign("b")>>>>>>,
                                  <<None, None, <<"block", <<h>>>>>>>>>>}
Compound == UNION ({Direct(h) : h \in Simple} \cup {Within(h) : h \in Inner})
Bodies == Compound \cup UNION {Direct(h) \cup Within(h) :
                               h \in Direct(Assign("a")) \cup Within(Local("a"))}

(* A function f with the statement in it; the one before it shows that the *)
(* names it uses are no types.                                             *)
Function(list) == <<"function", IntType(0), <<"f">>, None, <<"block", list>>>>
InFunction(words) == <<"int", "f", "(", ")", "{">> \o words \o <<"}">>

PrintedExpression(e, layout) ==
  [text |-> Layout(InFunction(<<"return">> \o Shown(e, 1) \o <<";">>), layout),
   decls |-> <<Function(<<<<"return", e>>>>)>>]
PrintedStatement(b, layout) ==
  [text |-> Layout(InFunction(Printed(b)), layout), decls |-> <<Function(<<b>>)>>]
Layouts == {"spaced", "tight", "commented"}
PrintedCases ==
  {PrintedExpression(e, "tight") : e \in Deep}
  \cup {PrintedExpression(e, l) : e \in Shallow, l \in Layouts}
  \cup {PrintedStatement(b, l) : b \in Bodies, l \in Layouts}

-----------------------------------------------------------------------------
(* Declarations.                                                           *)
Variable(type, name) == <<"variable", type, <<name>>, None, None>>
Param(type, name) == <<"parameter", type, <<name>>>>
Read(words, list) == [words |-> words, decls |-> list, enums |-> None, structs |-> None]
Method0(name) == <<"method", IntType(0), <<name>>, None, None, FALSE>>

Declared ==
  << Read(<<"int", "a", ";">>, <<Variable(IntType(0), "a")>>),
     Read(<<"int", "*", "a", "[", "1", "]", "=", "{", "1", ",", "{", "b", "}", "}", ";">>,
          <<<<"variable", IntType(1), <<"a">>, One, <<"list", <<One, <<"list", <<N("b")>>>>>>>>>>>>),
     Read(<<"int", "a", ",", "*", "b", "[", "1", "]", "=", "{", "1", "}", ",", "c", "=", "1", ";">>,
          <<Variable(IntType(0), "a")>>),
     Read(<<"const", "unsigned", "int", "&", "a", "=", "static_cast", "<", "int", ">", "(", "b", ")", ";">>,
          <<<<"variable", <<"type", <<Chars("int")>>, {"const", "unsigned", "&"}, 0, None>>, <<"a">>, None,
              <<"cast", IntType(0), N("b")>>>>>>),
     Read(<<"int", "f", "(", "int", "a", ",", "T", "*", ",", "int", "b", "[", "]", ",",
            "int", "(", "WINAPI", "*", "g", ")", "(", "int", ")", ",", "...", ")", ";">>,
          <<<<"function", IntType(0), <<"f">>,
              <<Param(IntType(0), "a"), <<"parameter", Named1("T", 1), None>>, Param(IntType(0), "b"),
                Param(IntType(0), "g"), <<"variadic">>>>, EmptyBlock>>>>),
     Read(<<"static", "int", "WINAPI", "f", "(", "int", "a", "=", "1", ")", "throw", "(", "int", ")",
            "{", "return", ";", "}">>,
          <<<<"function", IntType(0), <<"f">>, <<Param(IntType(0), "a")>>, <<"block", <<<<"return", None>>>>>>>>>>),
     Read(<<"struct", "S", "{", "int", "a", ";", "virtual", "int", "f", "(", ")", "=", "0", ";",
            "S", "(", "int", "b", ")", ":", "m", "(", "b", ",", "1", ")", "{", "}", "~", "S", "(", ")", ";",
            "int", "m", "[", "1", "]", ",", "*", "n", "=", "1", ";", "int", "c", ":", "1", ";",
            "T", "operator", "==", "(", "int", "b", ")", "{", "}", "}", ";">>,
          <<<<"class", <<"S">>, None,
              <<<<"public", Variable(IntType(0), "a")>>,
                <<"public", <<"method", IntType(0), <<"f">>, None, None, TRUE>>>>,
                <<"public", <<"constructor", <<Param(IntType(0), "b")>>, <<<<<<"m">>, <<N("b"), One>>>>>>, EmptyBlock>>>>,
                <<"public", <<"destructor", None>>>>,
                <<"public", Variable(IntType(0), "m")>>, <<"public", Variable(IntType(0), "c")>>,
                <<"public", <<"operator", Named1("T", 0), Chars("=="), <<Param(IntType(0), "b")>>, EmptyBlock>>>>>>>>>>),
     Read(<<"class", "C", ":", "public", "S", ",", "D", "{", "int", "f", "(", ")", ";", "public", ":",
            "int", "g", "(", ")", ";", "}", ";">>,
          <<<<"class", <<"C">>, <<<<"S">>, <<"D">>>>,
              <<<<"private", Method0("f")>>, <<"public", Method0("g")>>>>>>>>),
     Read(<<"class", "C", ";">>, <<<<"class", <<"C">>, None, None>>>>),
     Read(<<"enum", "E", "{", "a", ",", "b", "=", "1", ",", "}", ";">>,
          <<<<"enum", <<"E">>, <<<<<<"a">>, None>>, <<<<"b">>, One>>>>>>>>),
     Read(<<"union", "U", "{", "int", "a", ";", "T", "*", "b", "[", "1", "]", ";", "}", ";">>,
          <<<<"union", <<"U">>, <<Variable(IntType(0), "a"), Variable(Named1("T", 1), "b")>>>>>>),
     Read(<<"typedef", "int", "V", ",", "*", "W", ";", "V", "a", ";">>,
          <<<<"typedef", IntType(0), <<"V">>>>, Variable(Named1("V", 0), "a")>>),
     [words |-> <<"typedef", "struct", "S", "{", "int", "a", ";", "}", "A", ",", "*", "B", ";">>,
      decls |-> <<<<"typedef", None, None>>>>, enums |-> None,
      structs |-> <<<<"class", <<"S">>, None, <<<<"public", Variable(IntType(0), "a")>>>>>>>>],
     [words |-> <<"typedef", "enum", "{", "a", "}", "E", ";">>,
      decls |-> <<<<"typedef", None, None>>>>, enums |-> <<<<"enum", None, <<<<<<"a">>, None>>>>>>>>, structs |-> None],
     Read(<<"typedef", "int", "(", "*", "F", ")", "(", "int", ")", ";">>, <<<<"typedef", IntType(0), None>>>>),
     Read(<<"namespace", "L", "{", "int", "a", ";", "namespace", "M", "{", "}", "using", "L", "::", "a", ";", "}">>,
          <<<<"namespace", <<"L">>, <<Variable(IntType(0), "a"), <<"namespace", <<"M">>, None>>,
                                      <<"using", FALSE, <<<<"L">>, <<"a">>>>>>>>>>>>),
     Read(<<"using", "namespace", "L", "::", "M", ";">>, <<<<"using", TRUE, <<<<"L">>, <<"M">>>>>>>>),
     Read(<<"template", "<", "typename", "X", ",", "int", "n", ">", "class", "P", "{", "X", "a", ";", "}", ";",
            "P", "<", "int", ",", "X", ">>", "a", ";">>,
          <<<<"template", <<<<"type parameter", <<"X">>>>, <<"value parameter", IntType(0), <<"n">>>>>>,
              <<"class", <<"P">>, None, <<<<"private", Variable(Named1("X", 0), "a")>>>>>>>>,
            <<"variable", <<"type", <<<<"P">>>>, {}, 0, <<<<IntType(0), Named1("X", 0)>>>>>>, <<"a">>, None, None>>>>),
     Read(<<"template", "<", "class", "X", ">", "X", "g", "(", "X", "a", ")", "{", "return", "a", ";", "}">>,
          <<<<"template", <<<<"type parameter", <<"X">>>>>>,
              <<"function", Named1("X", 0), <<"g">>, <<Param(Named1("X", 0), "a")>>, <<"block", <<<<"return", N("a")>>>>>>>>>>>>),
     Read(<<"int", "operator", "+", "(", "T", "a", ",", "T", "b", ")", ";">>,
          <<<<"operator", IntType(0), <<"+">>, <<Param(Named1("T", 0), "a"), Param(Named1("T", 0), "b")>>, None>>>>),
     Read(<<"int", "C", "::", "f", "(", ")", "const", "{", "return", "this", ";", "}">>,
          <<Function(<<<<"return", <<"this">>>>>>)>>),
     Read(<<"C", "::", "~", "C", "(", ")", "{", "}">>,
          <<<<"function", Named1("C", 0), <<"C", "::~", "C">>, None, EmptyBlock>>>>),
     Read(<<"C", "::", "C", "(", "int", "a", ")", ":", "m", "(", "a", ")", "{", "}">>,
          <<<<"function", Named1("C", 0), <<"C">>, <<Param(IntType(0), "a")>>, EmptyBlock>>>>),
     Read(<<"extern", "\"C", "{", "int", "a", ";", "}">>, <<Variable(IntType(0), "a")>>),
     Read(<<"extern", "\"C++", "{", "int", "a", ";", "}">>, None),
     Read(<<"extern", "\"C++", "int", "f", "(", ")", "{", "return", ";", "}", ";">>, None),
     Read(<<"#">>, <<<<"directive", <<"#", "p", " ", "\\", Newline, "q">>>>>>),
     Read(<<"[", "a", "]", "int", "a", ";">>, <<Variable(IntType(0), "a")>>) >>

DeclaredCase(d, e, layout) ==
  [text |-> Layout(d.words \o e.words, layout),
   decls |-> d.decls \o e.decls \o d.enums \o e.enums \o d.structs \o e.structs]
DeclaredCases ==
  LET n == Len(Declared) IN
  {DeclaredCase(Declared[i], Declared[j], <<"spaced", "tight", "commented">>[((i + j) % 3) + 1]) : i, j \in 1..n}

-----------------------------------------------------------------------------
(* Damage: what does not belong there, up to its own ";".                  *)
Junk == {"a", "1", "(", ")", "=", ",", "+", "*", "&", "::", "~", "?", ".", "->", "int", "const", "if", "else", "while", "case",
         "return", "throw", "class", "enum", "operator", "new", "sizeof", "typedef", "switch", "try", "'c"}
Few == {"a", "(", ")", "=", ",", "*", "::", "int", "if", "return"}
Damages ==
  UNION {[1..n -> Junk] : n \in 1..MaxDamage - 1} \cup [1..MaxDamage -> Few]

InBody(damage) == Layout(InFunction(Printed(Assign("b")) \o damage \o <<";">> \o Printed(Assign("c"))), "tight")
Between2(damage) == Layout(<<"int", "b", ";">> \o damage \o <<";", "int", "c", ";">>, "tight")
DamagedBodies == {InBody(d) : d \in Damages}
DamagedUnits == {Between2(d) : d \in Damages}

(* Texts of the lexer's own, by the characters that its cases turn on.     *)
Alphabets ==
  { {"/", "*", Newline, "a"}, {"\"", "\\", Newline, " ", "/"}, {"'", "\\", Newline, "a"},
    {"#", "\\", Newline, " ", "a"}, {"0", "1", "x", ".", "e", "-"}, {"1", "f", "l", "u", "i", "6"},
    {"<", ">", "=", "-", "*"}, {"&", "|", "+", ":", "."} }
Raw == UNION {UNION {[1..n -> chars] : n \in 0..MaxRaw} : chars \in Alphabets}

-----------------------------------------------------------------------------
Known == PrintedCases \cup DeclaredCases
Texts == {c.text : c \in Known}
MCSources == Texts \cup DamagedBodies \cup DamagedUnits \cup Raw
===============================================================================
