------------------------------ MODULE MCFrontend ------------------------------
(***************************************************************************)
(* The front end on the texts of Programs.                                 *)
(***************************************************************************)
EXTENDS Parser, Programs

(* What is read is what was written: the lexer and the parser undo the     *)
(* printing of a tree, in every layout, and a declaration is read the same *)
(* whatever declaration stands before it (parse, the ladder from           *)
(* parse_assignment to parse_primary, parse_statement).                    *)
RoundTrip == Over /\ src \in Texts => phase = "parsed" /\ [text |-> src, decls |-> decls] \in Known

(* A syntax error costs the statement it is in and no other: the recovery  *)
(* of parse_block and of parse() ends at the ";" of what it skips.  In a   *)
(* body nothing else can happen; between declarations, a definition of a   *)
(* class, an enumeration or an operator may end the compilation.           *)
RecoveryLocal ==
  Over =>
  /\ src \in DamagedBodies =>
       /\ phase = "parsed" /\ Len(decls) = 1
       /\ LET body == decls[1][5][2] IN Len(body) >= 2 /\ Head(body) = Assign("b") /\ Last(body) = Assign("c")
  /\ src \in DamagedUnits =>
       /\ mode = "done"
       /\ phase = "parsed" => Head(decls) = Variable(IntType(0), "b") /\ Last(decls) = Variable(IntType(0), "c")

(* Every text is read to its end or refused: neither the lexer's loops nor *)
(* the parser's recovery comes back to where it was (tokenize, parse).     *)
Terminates == <>Over
===============================================================================
