------------------------------ MODULE Vocabulary ------------------------------
(***************************************************************************)
(* The characters and words of the language, as the tables of              *)
(* src/src/lexer.cpp have them.                                            *)
(***************************************************************************)
EXTENDS Integers, Sequences, SequencesExt

End == ""
Newline == "\n"

Digit == {"0", "1", "2", "3", "4", "5", "6", "7", "8", "9"}
HexDigit == Digit \cup {"a", "b", "c", "d", "e", "f", "A", "B", "C", "D", "E", "F"}
Letter == {"a", "b", "c", "d", "e", "f", "g", "h", "i", "j", "k", "l", "m", "n", "o", "p", "q",
           "r", "s", "t", "u", "v", "w", "x", "y", "z", "A", "B", "C", "D", "E", "F", "G", "H",
           "I", "J", "K", "L", "M", "N", "O", "P", "Q", "R", "S", "T", "U", "V", "W", "X", "Y",
           "Z", "_"}
Blank == {" ", "\t", Newline, "\r", "\f"}

Keyword ==
  {"auto", "bool", "break", "case", "catch", "char", "class", "const", "const_cast", "continue",
   "default", "delete", "do", "double", "dynamic_cast", "else", "enum", "explicit", "extern",
   "false", "float", "for", "friend", "goto", "if", "inline", "int", "long", "mutable",
   "namespace", "new", "operator", "private", "protected", "public", "register",
   "reinterpret_cast", "return", "short", "signed", "sizeof", "static", "static_cast", "struct",
   "switch", "template", "this", "throw", "true", "try", "typedef", "typeid", "typename",
   "union", "unsigned", "using", "virtual", "void", "volatile", "wchar_t", "while"}

Operator1 == {"+", "-", "*", "/", "%", "=", "<", ">", "!", "&", "|", "^", "~", "?", ".", "(", ")",
              "{", "}", "[", "]", ";", ":", ","}
Operator2 ==
  {<<"=", "=">>, <<"!", "=">>, <<"<", "=">>, <<">", "=">>, <<"&", "&">>, <<"|", "|">>,
   <<"<", "<">>, <<">", ">">>, <<"+", "=">>, <<"-", "=">>, <<"*", "=">>, <<"/", "=">>,
   <<"%", "=">>, <<"&", "=">>, <<"|", "=">>, <<"^", "=">>, <<"+", "+">>, <<"-", "-">>,
   <<"-", ">">>, <<":", ":">>, <<".", "*">>}
Operator3 == {<<".", ".", ".">>, <<"<", "<", "=">>, <<">", ">", "=">>, <<"-", ">", "*">>}

Text(chars) == FoldLeft(LAMBDA t, c : t \o c, "", chars)

(* What a tree has where a part of it is missing, and an empty body.        *)
None == << >>
EmptyBlock == <<"block", None>>
===============================================================================
