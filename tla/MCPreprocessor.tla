--------------------------- MODULE MCPreprocessor ---------------------------
(***************************************************************************)
(* Programs for Preprocessor.  A well-formed file is given as a tree, in   *)
(* which a conditional group holds its branches; Lay writes it out as the  *)
(* lines the preprocessor reads, and Run walks the tree the way the        *)
(* language defines it: the first branch whose condition holds, else the   *)
(* #else branch.  What the line-by-line walk emits is compared with it.    *)
(*                                                                         *)
(* Expanded is the expansion of macros as the language defines it, on      *)
(* tokens that each know the macros they come from (their hide set), with  *)
(* the arguments expanded before they are put in.                          *)
(***************************************************************************)
EXTENDS PreprocessedText

CONSTANTS main, h, k, missing, A, B, M, N, F, G

VARIABLE program      \* the trees behind content, << >> for ill-formed files

mcvars == <<textVars, program>>

(* Trees.                                                                  *)
Leaf(kind) == [kind |-> kind]
TextNode(tag) == [kind |-> "text", tag |-> tag]
DefineNode(name, value) == [kind |-> "define", name |-> name, value |-> value]
UndefNode(name) == [kind |-> "undef", name |-> name]
IncludeNode(path) == [kind |-> "include", path |-> path]
Branch(cond, body) == [cond |-> cond, body |-> body]
GroupNode(branches, otherwise) ==
  [kind |-> "group", branches |-> branches, otherwise |-> otherwise]

Defined(name) == [test |-> "defined", name |-> name, negated |-> FALSE]
Value(name) == [Defined(name) EXCEPT !.test = "value"]
Not(cond) == [cond EXCEPT !.negated = ~@]

(* The lines of a tree.                                                    *)
RECURSIVE Lay(_)
Lay(nodes) ==
  FlattenSeq([i \in DOMAIN nodes |->
    LET n == nodes[i]
        branch(b) == <<[kind |-> IF b = 1 THEN "if" ELSE "elif", cond |-> n.branches[b].cond]>>
                       \o Lay(n.branches[b].body)
    IN  IF n.kind # "group" THEN <<n>>
        ELSE FlattenSeq([b \in DOMAIN n.branches |-> branch(b)])
               \o (IF n.otherwise = << >> THEN << >> ELSE <<Leaf("else")>> \o Lay(n.otherwise))
               \o <<Leaf("endif")>>])

(* The meaning of a tree: nodes of file p, from the state s.               *)
True(cond, s) ==
  (cond.name \in DOMAIN s.macros /\ (cond.test = "defined" \/ s.macros[cond.name])) # cond.negated

RECURSIVE Run(_, _, _, _)
Run(files, p, nodes, s) ==
  IF nodes = << >> \/ s.end # "done" THEN s
  ELSE LET n == Head(nodes)
           go(t) == Run(files, p, Tail(nodes), t)
       IN  CASE n.kind = "text" ->
                  go([s EXCEPT !.output = Append(@, [path |-> p, tag |-> n.tag, table |-> s.macros])])
             [] n.kind = "define" ->
                  go([s EXCEPT !.macros = [m \in DOMAIN @ \cup {n.name} |->
                                             IF m = n.name THEN n.value ELSE @[m]]])
             [] n.kind = "undef" ->
                  go([s EXCEPT !.macros = [m \in DOMAIN @ \ {n.name} |-> @[m]]])
             [] n.kind = "once" -> go([s EXCEPT !.included = @ \cup {p}])
             [] n.kind = "error" -> [s EXCEPT !.end = "error"]
             [] n.kind = "other" -> go(s)
             [] n.kind = "include" ->
                  IF n.path \in s.included \/ n.path \notin DOMAIN files THEN go(s)
                  ELSE go(Run(files, n.path, files[n.path],
                              [s EXCEPT !.included = @ \cup {n.path}]))
             [] n.kind = "group" ->
                  LET true == {b \in DOMAIN n.branches : True(n.branches[b].cond, s)}
                      first == CHOOSE b \in true : \A c \in true : b <= c
                  IN  go(Run(files, p, IF true = {} THEN n.otherwise ELSE n.branches[first].body, s))

Meaning(files) ==
  Run(files, Main, files[Main],
      [output |-> << >>, macros |-> CHOOSE m \in Predefined : TRUE, included |-> {}, end |-> "done"])

-----------------------------------------------------------------------------
(* The programs: a main file, a header h and sometimes a second, k.        *)
Tests == {Defined(A), Not(Defined(A)), Value(B), Not(Value(B))}
Bodies == {<<TextNode(1)>>, <<DefineNode(A, TRUE), TextNode(1)>>, <<UndefNode(A)>>,
           <<IncludeNode(h)>>, <<Leaf("error")>>}
OneGroup(tag) ==
  {GroupNode(<<Branch(c, b)>>, e) : c \in Tests, b \in Bodies, e \in {<< >>, <<TextNode(tag)>>}}
  \cup {GroupNode(<<Branch(c, <<TextNode(tag)>>), Branch(d, b)>>, <<TextNode(tag + 1)>>) :
          c \in Tests, d \in Tests, b \in Bodies}
InnerGroups == {GroupNode(<<Branch(c, <<TextNode(5)>>)>>, <<TextNode(6)>>) : c \in Tests}
Nested ==
  {GroupNode(<<Branch(c, <<g>>)>>, e) : c \in Tests, g \in InnerGroups, e \in {<< >>} \cup {<<i>> : i \in InnerGroups}}
Mains == {<<d, g, e, TextNode(9)>> :
            d \in {Leaf("other"), DefineNode(A, FALSE), DefineNode(B, TRUE), IncludeNode(h)},
            g \in OneGroup(2) \cup Nested,
            e \in {IncludeNode(h), IncludeNode(missing)}}

Guarded == <<GroupNode(<<Branch(Not(Defined(A)), <<DefineNode(A, TRUE), TextNode(1)>>)>>, << >>)>>
Headers == {Guarded,
            <<Leaf("once"), TextNode(1), IncludeNode(h), UndefNode(B)>>,
            <<TextNode(1), IncludeNode(main), DefineNode(B, FALSE)>>}
SecondHeaders == {<<Leaf("once"), TextNode(1), IncludeNode(h), IncludeNode(main)>>, Guarded}

Trees ==
  {(main :> m @@ h :> t) : m \in Mains, t \in Headers}
  \cup {(main :> <<IncludeNode(k), TextNode(9)>> @@ h :> t @@ k :> u) :
          t \in Headers \cup {<<IncludeNode(k), TextNode(1), IncludeNode(main)>>},
          u \in SecondHeaders}

(* Files with directives in any order.                                     *)
Directives == {[kind |-> "if", cond |-> Defined(A)], [kind |-> "elif", cond |-> Not(Defined(A))],
               Leaf("else"), Leaf("endif"), TextNode(1)}
IllFormed == {(main :> s) : s \in BoundedSeq(Directives, 4)}


-----------------------------------------------------------------------------
(* Lines of text to expand, behind the definitions of some macros.         *)
Parameter(p) == <<p>>
Object(body) == Definition(FALSE, << >>, body)
OfX(body) == Definition(TRUE, <<Parameter("x")>>, body)
OfXY(body) == Definition(TRUE, <<Parameter("x"), Parameter("y")>>, body)
OfXRest(body) == Definition(TRUE, <<Parameter("x"), Parameter("__VA_ARGS__")>>, body)

MCNameOf == (A :> <<"A">> @@ B :> <<"B">> @@ M :> <<"M">> @@ N :> <<"N">> @@ F :> <<"F">> @@ G :> <<"G">>)
Either(true, false) == [b \in BOOLEAN |-> IF b THEN true ELSE false]
MCDefinitionOf ==
  (A :> Either(Object(<<"1">>), Object(<<"0">>))
   @@ B :> Either(Object(<<"1">>), Object(<<"0">>))
   @@ M :> Either(Object(<<"N", "+", "1">>), Object(<<"M", "-", "N">>))
   @@ N :> Either(Object(<<"M">>), Object(<<"2">>))
   @@ F :> Either(OfX(<<"x", "*", "x", "M", " ", "M", "x", "#", "x">>),      \* x*xM Mx#x
                  OfX(<<"G", "(", "N", ",", "x", ")", "+", "x">>))           \* G(N,x)+x
   @@ G :> Either(OfXY(<<"[", "y", "-", "x", "]">>),                         \* [y-x]
                  OfXRest(<<"x", "#", "#", "1", "(", "__VA_ARGS__", ")">>))) \* x##1(__VA_ARGS__)

In(f, argument) == f \o <<"(">> \o argument \o <<")">>
Two(a, b) == a \o <<",", " ">> \o b
Names == {<<"M">>, <<"N">>}
Simple == Names \cup {<<"1">>, <<"M", "N">>}
Texts ==
  {<<"\"", "M", "\\", "\"", "N", "\"", "M">>, <<"'", "M", "'", "1", "+", "N">>,
   <<"F">>, <<"F", "+", "G">>}
    \cup {a \o <<" ">> \o b : a, b \in Names}
    \cup {In(<<"F">>, a) : a \in Simple} \cup {In(<<"F", " ">>, <<" ">> \o a) : a \in Names}
    \cup {In(<<"G">>, Two(a, b)) : a, b \in Simple}
    \cup {In(<<"F">>, a) \o b : a, b \in Names}
(* Calls in the arguments of others.                                       *)
NestedTexts ==
  {In(<<"G">>, Two(In(<<"F">>, a), b)) : a, b \in Names}
    \cup {In(<<"F">>, In(<<"G">>, Two(a, b))) : a, b \in Names}
    \cup {In(<<"F">>, <<"(">> \o Two(a, b) \o <<")">>) : a, b \in Names}
    \cup {In(<<"G">>, Two(<<"(">> \o Two(a, <<"[">>) \o <<"]", ")">>, b)) : a, b \in Names}

TextList == FoldSet(LAMBDA t, list : Append(list, t), << >>, Texts \cup NestedTexts)
MCTextOf == [tag \in 1..9 |-> <<"A", "-", "B">>]
              @@ [tag \in {100 + i : i \in DOMAIN TextList} |-> TextList[tag - 100]]
TagsOf(set) == {100 + i : i \in {i \in DOMAIN TextList : TextList[i] \in set}}

Definings(name, values) == {<<DefineNode(name, v)>> : v \in values} \cup {<< >>}
Expansions ==
  {(main :> m \o n \o f \o g \o <<TextNode(tag)>>) :
      m \in Definings(M, BOOLEAN), n \in Definings(N, BOOLEAN),
      f \in Definings(F, BOOLEAN), g \in Definings(G, BOOLEAN), tag \in TagsOf(Texts)}
    \cup {(main :> m \o n \o <<DefineNode(F, TRUE), DefineNode(G, TRUE), TextNode(tag)>>) :
            m \in Definings(M, BOOLEAN), n \in Definings(N, BOOLEAN), tag \in TagsOf(NestedTexts)}

Written(files) == [p \in DOMAIN files |-> Lay(files[p])]
MCContents == {Written(t) : t \in Trees \cup Expansions} \cup IllFormed
MCPredefined == {B :> TRUE}

MCInit ==
  /\ \/ program \in Trees \cup Expansions /\ content = Written(program)
     \/ program = << >> /\ content \in IllFormed
  /\ Begin /\ BeginText
MCNext == TextNext /\ UNCHANGED program
MCSpec == MCInit /\ [][MCNext]_mcvars /\ WF_mcvars(MCNext)

(* On a well-formed program, a walk that is not cut short by the depth     *)
(* limit emits the lines the language selects, each with the macros        *)
(* defined at that point, and ends in the same way.                        *)
SelectionIsRight ==
  (program # << >> /\ pc \notin {"reading", "depth"}) =>
    LET meaning == Meaning(program)
        emitted == [i \in DOMAIN output |->
                      [path |-> output[i].path, table |-> output[i].table,
                       tag |-> content[output[i].path][output[i].line].tag]]
    IN  pc = meaning.end /\ emitted = meaning.output

-----------------------------------------------------------------------------
(* The meaning of a text.  A token is its characters and its hide set.     *)
Token(chars) == [chars |-> chars, hide |-> {}]
Hide(tokens, macro_names) == [i \in DOMAIN tokens |-> [tokens[i] EXCEPT !.hide = @ \cup macro_names]]

RECURSIVE TokensOf(_)
TokensOf(text) ==
  IF text = << >> THEN << >>
  ELSE LET end == CASE text[1] \in Letter \cup Digit -> EndOfIdentifier(text, 1)
                    [] text[1] \in {"\"", "'"} -> EndOfQuoted(text, 1)
                    [] OTHER -> 2
       IN  <<Token(SubSeq(text, 1, end - 1))>> \o TokensOf(SubSeq(text, end, Len(text)))
CharsOf(tokens) == FlattenSeq([i \in DOMAIN tokens |-> tokens[i].chars])
Is(token, char) == token.chars = <<char>>

(* The arguments of a call whose parenthesis is tokens[open], trimmed, and *)
(* the place of the closing parenthesis.                                   *)
TokenDepthAt(tokens, open, i) ==
  Cardinality({j \in open..i : Is(tokens[j], "(") \/ Is(tokens[j], "[")})
    - Cardinality({j \in open..i : Is(tokens[j], ")") \/ Is(tokens[j], "]")})
TokenCloseOf(tokens, open) == Min({i \in open..Len(tokens) : TokenDepthAt(tokens, open, i) = 0})
Trimmed(tokens) ==
  LET solid == {i \in DOMAIN tokens : ~Is(tokens[i], " ")}
  IN  IF solid = {} THEN << >> ELSE SubSeq(tokens, Min(solid), Max(solid))
SplitAt(tokens, open, close) ==
  LET cut(i) == i \in {open, close} \/ (i \in open..close /\ Is(tokens[i], ",") /\ TokenDepthAt(tokens, open, i) = 1)
      cuts == SelectSeq([i \in DOMAIN tokens |-> i], cut)
  IN  [n \in 1..(Len(cuts) - 1) |-> Trimmed(SubSeq(tokens, cuts[n] + 1, cuts[n + 1] - 1))]

(* The body of a function-like macro with its arguments: #x is a string,   *)
(* x##w one token, and any other x is the argument after its expansion.    *)
RECURSIVE Std(_, _)
Filled(m, args, defs) ==
  LET body == TokensOf(m.body)
      hash(i) == i \in DOMAIN body /\ Is(body[i], "#")
      parameter(i) == {n \in DOMAIN m.parameters : m.parameters[n] = body[i].chars}
      argument(i) == args[CHOOSE n \in parameter(i) : TRUE]
      piece(i) ==
        CASE hash(i - 1) -> << >>
          [] hash(i) /\ ~hash(i - 1) /\ ~hash(i + 1) ->
               <<Token(<<"\"">> \o CharsOf(argument(i + 1)) \o <<"\"">>)>>
          [] hash(i) /\ ~hash(i - 1) /\ hash(i + 1) -> << >>
          [] ~hash(i) /\ ~hash(i - 1) /\ parameter(i) # {} /\ hash(i + 1) ->
               <<Token(CharsOf(argument(i)) \o body[i + 3].chars)>>
          [] ~hash(i) /\ ~hash(i - 1) /\ parameter(i) # {} /\ ~hash(i + 1) -> Std(argument(i), defs)
          [] OTHER -> <<body[i]>>
  IN  FlattenSeq([i \in DOMAIN body |-> piece(i)])

Std(tokens, defs) ==
  IF tokens = << >> THEN << >>
  ELSE LET t == Head(tokens)
           solid == {i \in 2..Len(tokens) : ~Is(tokens[i], " ")}
           called == solid # {} /\ Is(tokens[Min(solid)], "(")
       IN  IF t.chars \notin DOMAIN defs \/ t.chars \in t.hide \/ (defs[t.chars].function /\ ~called)
           THEN <<t>> \o Std(Tail(tokens), defs)
           ELSE IF ~defs[t.chars].function
           THEN Std(Hide(TokensOf(defs[t.chars].body), t.hide \cup {t.chars}) \o Tail(tokens), defs)
           ELSE LET close == TokenCloseOf(tokens, Min(solid))
                    args == SplitAt(tokens, Min(solid), close)
                IN  Std(Hide(Filled(defs[t.chars], args, defs),
                             (t.hide \cap tokens[close].hide) \cup {t.chars})
                          \o SubSeq(tokens, close + 1, Len(tokens)), defs)

(* Every line of text is expanded as the language says, with the macros    *)
(* that are defined where it stands.  The texts of the run keep away from  *)
(* what expand_macros does otherwise.                                      *)
ExpansionRight ==
  \A i \in DOMAIN texts :
    texts[i] = CharsOf(Std(TokensOf(MCTextOf[content[output[i].path][output[i].line].tag]),
                           Definitions(output[i].table)))
=============================================================================
