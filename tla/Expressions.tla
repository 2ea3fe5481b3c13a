----------------------------- MODULE Expressions -----------------------------
(***************************************************************************)
(* The expressions of CodeGenerator (src/src/code_generator.cpp), and as   *)
(* much of a function around them as gives them variables, temporaries and *)
(* a frame: declarations, expression statements and return.  Control       *)
(* statements are the subject of module CodeGenerator.                     *)
(*                                                                         *)
(* A generator g is a record: the code so far, next_temp_gpr_, the string  *)
(* literals, and the places of the variables.  Each generate_ function     *)
(* takes one and gives the next.  A branch whose target is known when the  *)
(* expression is finished is filled in there, with what patch_branches     *)
(* makes of it; calls and returns wait for the end.                        *)
(***************************************************************************)
EXTENDS PpcInstructions, Sequences, SequencesExt

TempGprCount == 10
FirstTemp == 3          \* TEMP_GPRS is r3 to r12
MaxArguments == 8

(* get_temp_gpr: after the last one the first again.                       *)
TempIndexNine(g) == IF g.temp >= TempGprCount - 1 THEN 0 ELSE g.temp     \* a variant
TempIndex(g) == IF g.temp >= TempGprCount THEN 0 ELSE g.temp
Temp(g) == FirstTemp + TempIndex(g)
Take(g) == [g EXCEPT !.temp = TempIndex(g) + 1]
ResetTemps(g) == [g EXCEPT !.temp = 0]

Emit(g, instructions) == [g EXCEPT !.code = @ \o instructions]
Pending(target) == [Nop EXCEPT !.op = 0, !.d = target]     \* patches_
Awaits(instruction, target) == instruction.op = 0 /\ instruction.d = target
Here(g) == Len(g.code) + 1
By(branch, offset) == [branch EXCEPT !.imm = offset]
Fill(g, at, branch) == [g EXCEPT !.code[at] = By(branch, (Here(g) - at) * 4)]

Half16 == 65536
Int16(x) == ((x + Half16 \div 2) % Half16) - Half16 \div 2

(* generate_int_literal and generate_string_literal.                       *)
IntLiteral(v, dest) ==
  IF v \in -32768..32767 THEN <<Li(dest, v)>>
  ELSE <<Lis(dest, Int16(v \div Half16))>>
         \o (IF v % Half16 # 0 THEN <<Ori(dest, dest, v % Half16)>> ELSE << >>)

Padded(size) == ((size + 1 + 3) \div 4) * 4
StringOffset(strings, n) == FoldLeft(LAMBDA sum, s : sum + Padded(s.size), 0, SubSeq(strings, 1, n - 1))
Pooled(strings, s) == IF s \in ToSet(strings) THEN strings ELSE Append(strings, s)
StringLiteral(g, s, dest) ==
  LET pool == Pooled(g.strings, s)
      offset == StringOffset(pool, CHOOSE i \in DOMAIN pool : pool[i] = s)
  IN  Emit([g EXCEPT !.strings = pool],
           <<Lis(dest, Int16(offset \div Half16)), Ori(dest, dest, offset % Half16)>>)

-----------------------------------------------------------------------------
(* Variables: in a register, or at a displacement from r1.                 *)
LoadVariable(g, name, dest) ==
  IF name \notin DOMAIN g.vars THEN <<Li(dest, 0)>>
  ELSE LET loc == g.vars[name]
       IN  IF loc.kind = "stack" THEN <<Lwz(dest, loc.at, 1)>>
           ELSE IF loc.at # dest THEN <<Mr(dest, loc.at)>> ELSE << >>
StoreVariable(g, name, source) ==
  IF name \notin DOMAIN g.vars THEN << >>
  ELSE LET loc == g.vars[name]
       IN  IF loc.kind = "stack" THEN <<Stw(source, loc.at, 1)>>
           ELSE IF loc.at # source THEN <<Mr(loc.at, source)>> ELSE << >>

(* A condition to a number: branch over "0" to "1".                        *)
Truth(d, branch) == <<branch, Li(d, 0), B(8), Li(d, 1)>>
Connective(d, rr, branch, short) ==
  <<Cmpwi(d, 0), By(branch, 20), Cmpwi(rr, 0), By(branch, 12), Li(d, 1 - short), B(8), Li(d, short)>>

(* The instructions of an operator on d and rr.  "%" has a temporary td    *)
(* of its own; an operator that is not listed has none.                    *)
Operation(op, d, rr, td) ==
  CASE op = "+" -> <<Add(d, d, rr)>>
    [] op = "-" -> <<Sub(d, d, rr)>>
    [] op = "*" -> <<Mullw(d, d, rr)>>
    [] op = "/" -> <<Divw(d, d, rr)>>
    [] op = "%" -> <<Divw(td, d, rr), Mullw(td, td, rr), Sub(d, d, td)>>
    [] op = "&" -> <<AndOp(d, d, rr)>>
    [] op = "|" -> <<OrOp(d, d, rr)>>
    [] op = "^" -> <<XorOp(d, d, rr)>>
    [] op = "<<" -> <<Slw(d, d, rr)>>
    [] op = ">>" -> <<Sraw(d, d, rr)>>
    [] op = "==" -> <<Cmpw(d, rr)>> \o Truth(d, Beq(12))
    [] op = "!=" -> <<Cmpw(d, rr)>> \o Truth(d, Bne(12))
    [] op = "<" -> <<Cmpw(d, rr)>> \o Truth(d, Blt(12))
    [] op = ">" -> <<Cmpw(d, rr)>> \o Truth(d, Bgt(12))
    [] op = "<=" -> <<Cmpw(d, rr)>> \o Truth(d, Ble(12))
    [] op = ">=" -> <<Cmpw(d, rr)>> \o Truth(d, Bge(12))
    [] op = "&&" -> Connective(d, rr, Beq(0), 0)
    [] op = "||" -> Connective(d, rr, Bne(0), 1)
    [] OTHER -> << >>

Compound == {"+=", "-=", "*=", "/=", "&=", "|=", "^=", "<<=", ">>="}
BaseOf == [op \in Compound |->
  CASE op = "+=" -> "+" [] op = "-=" -> "-" [] op = "*=" -> "*" [] op = "/=" -> "/" [] op = "&=" -> "&"
    [] op = "|=" -> "|" [] op = "^=" -> "^" [] op = "<<=" -> "<<" [] op = ">>=" -> ">>"]
IsName(e) == e.kind = "name"

(* The operator of a unary expression, after its operand is in dest.       *)
UnaryOperation(e, g, dest) ==
  CASE e.op = "-" -> <<Neg(dest, dest)>>
    [] e.op = "~" -> <<Nor(dest, dest, dest)>>
    [] e.op = "!" -> <<Cmpwi(dest, 0)>> \o Truth(dest, Beq(12))
    [] e.op \in {"++", "--"} ->
         <<Addi(dest, dest, IF e.op = "++" THEN 1 ELSE -1)>>
           \o (IF IsName(e.operand) THEN StoreVariable(g, e.operand.name, dest) ELSE << >>)
    [] e.op = "*" -> <<Lwz(dest, 0, dest)>>
    [] e.op = "&" /\ IsName(e.operand) /\ e.operand.name \in DOMAIN g.vars ->
         LET loc == g.vars[e.operand.name]
         IN  IF loc.kind = "stack" THEN <<Addi(dest, 1, loc.at)>> ELSE << >>
    [] OTHER -> << >>

-----------------------------------------------------------------------------
(* generate_expression: the value of e to register dest.                   *)
RECURSIVE Gen(_, _, _), GenArguments(_, _, _)

GenAssignment(e, dest, g) ==
  LET value == Gen(e.right, dest, g)
  IN  Emit(value, StoreVariable(value, e.left.name, dest))

GenCompound(e, dest, g) ==
  LET loaded == Emit(g, LoadVariable(g, e.left.name, dest))
      value == Gen(e.right, Temp(loaded), Take(loaded))
  IN  Emit(value, Operation(BaseOf[e.op], dest, Temp(loaded), dest)
                    \o StoreVariable(value, e.left.name, dest))

GenOperands(e, dest, g) ==
  LET left == Gen(e.left, dest, g)
      right == Gen(e.right, Temp(left), Take(left))
  IN  Emit(IF e.op = "%" THEN Take(right) ELSE right, Operation(e.op, dest, Temp(left), Temp(right)))

GenBinary(e, dest, g) ==
  IF e.op = "=" /\ IsName(e.left) THEN GenAssignment(e, dest, g)
  ELSE IF e.op \in Compound /\ IsName(e.left) THEN GenCompound(e, dest, g)
  ELSE GenOperands(e, dest, g)

GenUnary(e, dest, g) ==
  LET operand == Gen(e.operand, dest, g)
  IN  Emit(operand, UnaryOperation(e, operand, dest))

(* generate_call: eight arguments at most; the branch is pending.          *)
GenCall(e, dest, g) ==
  Emit(GenArguments(SubSeq(e.arguments, 1, IF Len(e.arguments) < MaxArguments
                                           THEN Len(e.arguments) ELSE MaxArguments), FirstTemp, g),
       <<Pending(e.callee)>> \o (IF dest # 3 THEN <<Mr(dest, 3)>> ELSE << >>))

GenIndex(e, dest, g) ==
  LET object == Gen(e.object, dest, g)
      index == Gen(e.index, Temp(object), Take(object))
      ir == Temp(object)
      sr == Temp(index)
  IN  Emit(Take(index), <<Li(sr, 4), Mullw(ir, ir, sr), Add(dest, dest, ir), Lwz(dest, 0, dest)>>)

GenTernary(e, dest, g) ==
  LET test == Emit(Gen(e.test, dest, g), <<Cmpwi(dest, 0), Nop>>)
      then == Emit(Gen(e.then, dest, test), <<Nop>>)
      else == Gen(e.otherwise, dest, Fill(then, Len(test.code), Beq(0)))
  IN  Fill(else, Len(then.code), B(0))

Gen(e, dest, g) ==
  CASE e.kind = "int" -> Emit(g, IntLiteral(e.value, dest))
    [] e.kind \in {"bool", "char", "sizeof"} -> Emit(g, <<Li(dest, e.value)>>)
    [] e.kind = "string" -> StringLiteral(g, e.text, dest)
    [] e.kind = "name" -> Emit(g, LoadVariable(g, e.name, dest))
    [] e.kind = "binary" -> GenBinary(e, dest, g)
    [] e.kind = "unary" -> GenUnary(e, dest, g)
    [] e.kind = "call" -> GenCall(e, dest, g)
    [] e.kind = "index" -> GenIndex(e, dest, g)
    [] e.kind = "ternary" -> GenTernary(e, dest, g)
    [] e.kind = "cast" -> Gen(e.operand, dest, g)
    [] OTHER -> Emit(g, <<Li(dest, 0)>>)

GenArguments(arguments, register, g) ==
  IF arguments = << >> THEN g
  ELSE GenArguments(Tail(arguments), register + 1, Gen(Head(arguments), register, g))

-----------------------------------------------------------------------------
(* Statements.  The elements of an initializer list go to consecutive      *)
(* words; the temporaries are not reset between them.                      *)
GenElements(g, elements, at) ==
  FoldLeftDomain(LAMBDA h, i : Emit(Gen(elements[i], 3, h), <<Stw(3, at + 4 * (i - 1), 1)>>), g, elements)

GenDeclaration(g, s) ==
  IF s.list # << >> THEN GenElements(g, s.list, g.vars[s.name].at)
  ELSE IF s.init # << >>
  THEN LET value == Gen(s.init[1], 3, g) IN Emit(value, StoreVariable(value, s.name, 3))
  ELSE g

GenStatement(g, s) ==
  LET fresh == ResetTemps(g)
  IN  CASE s.kind = "declare" -> GenDeclaration(fresh, s)
        [] s.kind = "expression" -> Gen(s.value, 3, fresh)
        [] s.kind = "return" -> Emit(IF s.init = << >> THEN fresh ELSE Gen(s.init[1], 3, fresh),
                                     <<Pending("epilogue")>>)

(* allocate_parameter and pre_scan_locals, for words: parameters in r3 and *)
(* up, locals downwards from r1 + 8.  Allocated bytes come back with them. *)
Place(kind, at) == [kind |-> kind, at |-> at]
Places(f) ==
  LET declared == SelectSeq(f.body, LAMBDA s : s.kind = "declare")
      parameters == [p \in ToSet(f.parameters) |->
                       Place("gpr", FirstTemp - 1 + CHOOSE i \in DOMAIN f.parameters : f.parameters[i] = p)]
      allocate(sofar, s) ==
        LET bytes == sofar.bytes + 4 * s.length
        IN  [bytes |-> bytes, vars |-> (s.name :> Place("stack", 8 - bytes)) @@ sofar.vars]
  IN  FoldLeft(allocate, [bytes |-> 0, vars |-> parameters], declared)
FrameOf(f) == ((Places(f).bytes + 8 + 15) \div 16) * 16

(* generate_function, with the returns filled in.  Strings are shared by   *)
(* the functions of the unit.                                              *)
Opening(frame) == <<Mflr(0), Stw(0, 4, 1), Stwu(1, -frame, 1)>>
ReturnsFilled(body) ==
  [i \in DOMAIN body.code |->
     IF Awaits(body.code[i], "epilogue") THEN B((Here(body) - i) * 4) ELSE body.code[i]]
Completed(body, frame) ==
  [code |-> ReturnsFilled(body) \o <<Addi(1, 1, frame), Lwz(0, 4, 1), Mtlr(0), Blr>>,
   strings |-> body.strings]
GenFunction(f, strings) ==
  LET start == [code |-> Opening(FrameOf(f)), temp |-> 0, strings |-> strings, vars |-> Places(f).vars]
  IN  Completed(FoldLeft(GenStatement, start, f.body), FrameOf(f))

(* generate: the functions one after another; calls are filled in when all *)
(* offsets are known, and stay nops when the unit has no such function.    *)
AddFunction(u, name, made) ==
  [code |-> u.code \o made.code, strings |-> made.strings,
   offsets |-> (name :> Len(u.code) + 1) @@ u.offsets]
PatchCall(instruction, i, offsets) ==
  IF instruction.op # 0 THEN instruction
  ELSE IF instruction.d \in DOMAIN offsets THEN Bl((offsets[instruction.d] - i) * 4)
  ELSE Nop
Patched(u) ==
  [code |-> [i \in DOMAIN u.code |-> PatchCall(u.code[i], i, u.offsets)], offsets |-> u.offsets]
Unit(functions) ==
  Patched(FoldLeft(LAMBDA u, f : AddFunction(u, f.name, GenFunction(f, u.strings)),
                   [code |-> << >>, strings |-> << >>, offsets |-> << >>], functions))
=============================================================================
