--------------------------- MODULE PpcInstructions ---------------------------
(***************************************************************************)
(* The encoders of src/src/ppc_instructions.cpp that the code generator    *)
(* and the standard library use.  An instruction is the fields of its      *)
(* word; which of a word's fields is the target and which the source is    *)
(* the encoder's choice and kept.  Displacements are in bytes, from the    *)
(* branch itself.                                                          *)
(***************************************************************************)
EXTENDS Integers

Register == 0..31

(* The formats: encode_d, encode_x and encode_xo, and the two branches.    *)
EncodeD(opcode, rd, ra, imm) ==
  [op |-> opcode, d |-> rd, a |-> ra, b |-> 0, xo |-> 0, imm |-> imm, link |-> FALSE]
EncodeX(opcode, rs, ra, rb, xo) ==
  [op |-> opcode, d |-> rs, a |-> ra, b |-> rb, xo |-> xo, imm |-> 0, link |-> FALSE]
EncodeXO(opcode, rd, ra, rb, xo) == EncodeX(opcode, rd, ra, rb, xo)

Addi(rd, ra, imm) == EncodeD(14, rd, ra, imm)
Addis(rd, ra, imm) == EncodeD(15, rd, ra, imm)
Add(rd, ra, rb) == EncodeXO(31, rd, ra, rb, 266)
Sub(rd, ra, rb) == EncodeXO(31, rd, rb, ra, 40)
Mullw(rd, ra, rb) == EncodeXO(31, rd, ra, rb, 235)
Divw(rd, ra, rb) == EncodeXO(31, rd, ra, rb, 491)
Neg(rd, ra) == EncodeXO(31, rd, ra, 0, 104)
AndOp(ra, rs, rb) == EncodeX(31, rs, ra, rb, 28)
OrOp(ra, rs, rb) == EncodeX(31, rs, ra, rb, 444)
XorOp(ra, rs, rb) == EncodeX(31, rs, ra, rb, 316)
Nor(ra, rs, rb) == EncodeX(31, rs, ra, rb, 124)
Ori(ra, rs, imm) == EncodeD(24, rs, ra, imm)
Slw(ra, rs, rb) == EncodeX(31, rs, ra, rb, 24)
Sraw(ra, rs, rb) == EncodeX(31, rs, ra, rb, 792)

Cmpw(ra, rb) == EncodeX(31, 0, ra, rb, 0)
Cmpwi(ra, imm) == EncodeD(11, 0, ra, imm)

Lwz(rd, offset, ra) == EncodeD(32, rd, ra, offset)
Lbz(rd, offset, ra) == EncodeD(34, rd, ra, offset)
Stw(rs, offset, ra) == EncodeD(36, rs, ra, offset)
Stb(rs, offset, ra) == EncodeD(38, rs, ra, offset)
Stwu(rs, offset, ra) == EncodeD(37, rs, ra, offset)

B(offset) == EncodeD(18, 0, 0, offset)
Bl(offset) == [B(offset) EXCEPT !.link = TRUE]
Bc(bo, bi, offset) == EncodeD(16, bo, bi, offset)
Beq(offset) == Bc(12, 2, offset)
Bne(offset) == Bc(4, 2, offset)
Blt(offset) == Bc(12, 0, offset)
Bgt(offset) == Bc(12, 1, offset)
Ble(offset) == Bc(4, 1, offset)
Bge(offset) == Bc(4, 0, offset)
Blr == EncodeX(19, 20, 0, 0, 16)

Mflr(rd) == EncodeX(31, rd, 8, 0, 339)
Mtlr(rs) == EncodeX(31, rs, 8, 0, 467)
Mr(rd, rs) == OrOp(rd, rs, rs)
Li(rd, imm) == Addi(rd, 0, imm)
Lis(rd, imm) == Addis(rd, 0, imm)
Nop == Ori(0, 0, 0)
=============================================================================
