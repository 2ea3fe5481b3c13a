----------------------------- MODULE PpcMachine -----------------------------
(***************************************************************************)
(* The processor the instructions are for, as far as the compiler's code   *)
(* needs it: the general registers, the link register, one condition       *)
(* field and a memory of words and bytes.  External: the repository only   *)
(* writes the words down.                                                  *)
(*                                                                         *)
(* Instructions are numbered from 1; the caller of the code is at Outside. *)
(* Numbers are signed 32-bit integers; none of the programs overflows.  A  *)
(* word is kept under the address of its first byte, and nothing mixes     *)
(* words and bytes at one place.                                           *)
(***************************************************************************)
EXTENDS PpcInstructions, Sequences, Bitwise

Outside == 0

(* Machine states: r holds r0 to r12.  An access outside the memory stops  *)
(* the machine.                                                            *)
Half == 65536
Signed(half) == IF half >= Half \div 2 THEN half - Half ELSE half
Hi(x) == (x \div Half) % Half
Lo(x) == x % Half
And32(x, y) == Signed(Hi(x) & Hi(y)) * Half + (Lo(x) & Lo(y))
Or32(x, y) == Signed(Hi(x) | Hi(y)) * Half + (Lo(x) | Lo(y))
Xor32(x, y) == Signed(Hi(x) ^^ Hi(y)) * Half + (Lo(x) ^^ Lo(y))

Magnitude(x) == IF x < 0 THEN -x ELSE x
(* Rounded towards zero.  A division by zero gives an undefined result:    *)
(* none is specified, and no program here depends on it.                   *)
Quotient(x, y) ==
  IF y = 0 THEN 0
  ELSE IF (x < 0) = (y < 0) THEN Magnitude(x) \div Magnitude(y)
  ELSE -(Magnitude(x) \div Magnitude(y))
Compared(x, y) == IF x < y THEN 0 ELSE IF x > y THEN 1 ELSE 2     \* the bit that is set

Set(m, rd, value) == [m EXCEPT !.r[rd] = value, !.pc = @ + 1]
Base(m, i) == IF i.a = 0 THEN 0 ELSE m.r[i.a]
Jump(m, i) == [m EXCEPT !.pc = @ + i.imm \div 4, !.lr = IF i.link THEN m.pc + 1 ELSE @]

Register3(m, i) ==     \* opcode 31
  LET d == m.r[i.d]
      a == m.r[i.a]
      b == m.r[i.b]
  IN  CASE i.xo = 266 -> Set(m, i.d, a + b)
        [] i.xo = 40 -> Set(m, i.d, b - a)
        [] i.xo = 235 -> Set(m, i.d, a * b)
        [] i.xo = 491 -> Set(m, i.d, Quotient(a, b))
        [] i.xo = 104 -> Set(m, i.d, -a)
        [] i.xo = 28 -> Set(m, i.a, And32(d, b))
        [] i.xo = 444 -> Set(m, i.a, IF i.d = i.b THEN d ELSE Or32(d, b))
        [] i.xo = 316 -> Set(m, i.a, Xor32(d, b))
        [] i.xo = 124 -> Set(m, i.a, -1 - Or32(d, b))
        [] i.xo = 24 -> Set(m, i.a, d * 2^b)
        [] i.xo = 792 -> Set(m, i.a, d \div 2^b)
        [] i.xo = 0 -> [m EXCEPT !.cr = Compared(a, b), !.pc = @ + 1]
        [] i.xo = 339 -> Set(m, i.d, m.lr)
        [] i.xo = 467 -> [m EXCEPT !.lr = d, !.pc = @ + 1]

IsLoad(i) == i.op \in {32, 34}
IsStore(i) == i.op \in {36, 37, 38}
Address(m, i) == Base(m, i) + i.imm

Load(m, i) == Set(m, i.d, m.mem[Address(m, i)])
Store(m, i) ==
  [m EXCEPT !.mem[Address(m, i)] = IF i.op = 38 THEN m.r[i.d] % 256 ELSE m.r[i.d],
            !.r[i.a] = IF i.op = 37 THEN Address(m, i) ELSE @,
            !.pc = @ + 1]

(* Whether the machine can go on, and its next state.                      *)
Runs(m, i) == IsLoad(i) \/ IsStore(i) => Address(m, i) \in DOMAIN m.mem
After(m, i) ==
  CASE i.op = 31 -> Register3(m, i)
    [] i.op = 14 -> Set(m, i.d, Base(m, i) + i.imm)
    [] i.op = 15 -> Set(m, i.d, Base(m, i) + i.imm * Half)
    [] i.op = 24 -> Set(m, i.a, Or32(m.r[i.d], i.imm))
    [] i.op = 11 -> [m EXCEPT !.cr = Compared(m.r[i.a], i.imm), !.pc = @ + 1]
    [] i.op = 18 -> Jump(m, i)
    [] i.op = 16 -> IF (m.cr = i.a) = (i.d = 12) THEN Jump(m, i) ELSE [m EXCEPT !.pc = @ + 1]
    [] i.op = 19 -> [m EXCEPT !.pc = m.lr]
    [] IsLoad(i) -> Load(m, i)
    [] IsStore(i) -> Store(m, i)
=============================================================================
