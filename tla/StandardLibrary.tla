--------------------------- MODULE StandardLibrary ---------------------------
(***************************************************************************)
(* StandardLibrary (src/src/standard_library.cpp): the routines that are   *)
(* written out instruction by instruction and put into every program.  A   *)
(* stub is the sequence of its instructions.  Arguments come in r3, r4 and *)
(* r5, results go back in r3.                                              *)
(***************************************************************************)
EXTENDS PpcInstructions, Sequences

FrameSize == 64     \* the default of emit_prologue and emit_epilogue

Prologue(frameSize) == <<Mflr(0), Stw(0, 4, 1), Stwu(1, -frameSize, 1)>>
EpilogueShort(frameSize) == <<Addi(1, 1, frameSize - 4), Lwz(0, 4, 1), Mtlr(0), Blr>>   \* a variant
Epilogue(frameSize) == <<Addi(1, 1, frameSize), Lwz(0, 4, 1), Mtlr(0), Blr>>
Function(body) == Prologue(FrameSize) \o body \o Epilogue(FrameSize)

-----------------------------------------------------------------------------
(* generate_memory_stubs.                                                  *)
MemsetEndless ==   \* a variant whose way out stops at the branch back
  <<Li(6, 0), Cmpw(6, 5), Bge(16), Stb(4, 0, 3), Addi(3, 3, 1), Addi(6, 6, 1), B(-20)>>
Memset ==
  <<Li(6, 0), Cmpw(6, 5), Bge(20), Stb(4, 0, 3), Addi(3, 3, 1), Addi(6, 6, 1), B(-20)>>
Memcpy ==
  <<Mr(7, 3), Li(6, 0), Cmpw(6, 5), Bge(24), Lbz(8, 0, 4), Stb(8, 0, 3),
    Addi(3, 3, 1), Addi(4, 4, 1), Addi(6, 6, 1), B(-28), Mr(3, 7)>>
Memmove == Memcpy
Memcmp ==
  <<Li(6, 0), Li(3, 0), Cmpw(6, 5), Bge(28), Lbz(7, 0, 3), Lbz(8, 0, 4), Sub(3, 7, 8),
    Cmpwi(3, 0), Bne(12), Addi(3, 3, 1), Addi(4, 4, 1), Addi(6, 6, 1), B(-36)>>

(* generate_string_stubs.                                                  *)
Strlen ==
  <<Li(4, 0), Lbz(5, 0, 3), Cmpwi(5, 0), Beq(12), Addi(4, 4, 1), Addi(3, 3, 1), B(-16), Mr(3, 4)>>
Strcpy ==
  <<Mr(5, 3), Lbz(6, 0, 4), Stb(6, 0, 3), Cmpwi(6, 0), Beq(8), Addi(3, 3, 1), Addi(4, 4, 1),
    B(-20), Mr(3, 5)>>
Strcmp ==
  <<Lbz(5, 0, 3), Lbz(6, 0, 4), Sub(7, 5, 6), Cmpwi(7, 0), Bne(16), Cmpwi(5, 0), Beq(8),
    Addi(3, 3, 1), Addi(4, 4, 1), B(-28), Mr(3, 7)>>

(* generate_math_stubs, generate_io_stubs, generate_utility_stubs and      *)
(* generate_cpp_runtime_stubs.                                             *)
Abs == <<Cmpwi(3, 0), Bge(4), Neg(3, 3)>>
ReturnsZero == <<Li(3, 0)>>
ReturnsNothing == << >>
PureVirtual == <<B(0)>>

(* build: the stubs, in any order, under the names of                      *)
(* get_provided_functions.                                                 *)
Stubs ==
  [memset |-> Function(Memset), memcpy |-> Function(Memcpy), memmove |-> Function(Memmove),
   memcmp |-> Function(Memcmp), strlen |-> Function(Strlen), strcpy |-> Function(Strcpy),
   strcmp |-> Function(Strcmp), abs |-> Function(Abs),
   printf |-> Function(ReturnsZero), sprintf |-> Function(ReturnsZero),
   malloc |-> Function(ReturnsZero), calloc |-> Function(ReturnsZero),
   realloc |-> Function(ReturnsZero), free |-> Function(ReturnsNothing),
   pure_virtual |-> Function(PureVirtual),
   operator_new |-> Function(ReturnsZero), operator_delete |-> Function(ReturnsNothing)]
=============================================================================
