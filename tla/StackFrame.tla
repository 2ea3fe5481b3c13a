----------------------------- MODULE StackFrame -----------------------------
(***************************************************************************)
(* RegisterAllocator (src/src/register_allocator.cpp) and the frame that   *)
(* CodeGenerator::generate_function builds with it: where the parameters   *)
(* and locals of one function live, and what the words of the stack hold   *)
(* while the function runs, stores into its locals and calls others.       *)
(*                                                                         *)
(* Addresses are relative to r1 at the entry of the function.  The memory  *)
(* keeps for each word written who wrote it last.  used_callee_saved_gprs_ *)
(* and used_callee_saved_fprs_ are never filled and are left out.          *)
(***************************************************************************)
EXTENDS Integers, FiniteSets

CONSTANTS Name,        \* names of parameters and locals
          Type,        \* types: bytes, and whether they are floating-point or pointers
          Lengths,     \* what an array may have for its length
          Registers,   \* TEMP_GPR_COUNT, 10
          FloatRegisters,   \* TEMP_FPR_COUNT, 8
          HalfRange    \* a displacement has 16 bits: 2^15

ASSUME TypeAssumption == Type \subseteq [size : Nat, float : BOOLEAN, pointer : BOOLEAN]
ASSUME LengthsAssumption == Lengths \subseteq Nat \ {0}
ASSUME RegistersAssumption ==
  Registers \in Nat \ {0} /\ FloatRegisters \in Nat \ {0} /\ HalfRange \in Nat \ {0}

VARIABLES stage,       \* "parameters", "locals", "running" or "returned"
          parameters,  \* how many parameters were allocated
          next,        \* next_stack_offset_
          variables,   \* variables_, and the bytes the type needs and the elements it has
          r1,          \* the stack pointer
          memory       \* word address -> its last writer

vars == <<stage, parameters, next, variables, r1, memory>>

(* The words written by the compiler's own code.                           *)
ReturnAddress == [writer |-> "return address"]
BackChain == [writer |-> "back chain"]
Callee == [writer |-> "callee"]
Local(v) == [writer |-> "local", name |-> v]

Align(value, alignment) == ((value + alignment - 1) \div alignment) * alignment
Short(x) == ((x + HalfRange) % (2 * HalfRange)) - HalfRange

FrameSizeBare == Align(next, 16)            \* a variant without room for the linkage
FrameSize == Align(next + 8, 16)            \* calculate_frame_size
LocalsBase == 8                             \* locals_base_offset

(* Where variable v is: the address the displacement off r1 leads to.      *)
Address(v) == r1 + Short(variables[v].offset + LocalsBase)
OnStack == {v \in DOMAIN variables : variables[v].kind = "stack"}

Put(m, addresses, writer) ==
  [a \in DOMAIN m \cup addresses |-> IF a \in addresses THEN writer ELSE m[a]]

Init ==
  /\ stage = "parameters"
  /\ parameters = 0
  /\ next = 0
  /\ variables = << >>
  /\ r1 = 0
  /\ memory = << >>

-----------------------------------------------------------------------------
(* The bytes allocated for a type: a word for a pointer, and for an array  *)
(* of pointers; the elements count only where the length is written out.   *)
Bytes(type, length, written) ==
  IF type.pointer THEN 4 ELSE IF written THEN type.size * length ELSE type.size

(* The bytes a slot takes: at least a word.                                *)
Slot(size) == IF size < 4 THEN 4 ELSE size
Grown(size) == Align(next + Slot(size), 4)

Declare(v, location) ==
  variables' = [w \in DOMAIN variables \cup {v} |-> IF w = v THEN location ELSE variables[w]]
InStack(size, elements) ==
  [kind |-> "stack", register |-> 0, offset |-> -Grown(size), size |-> size, elements |-> elements]
InRegister(kind, register) ==
  [kind |-> kind, register |-> register, offset |-> 0, size |-> 4, elements |-> 1]

InFloat(type) == type.float /\ ~type.pointer

(* A variant of AllocateParameter that starts over when registers run out. *)
AllocateParameterWrapped(v, type) ==
  /\ stage = "parameters"
  /\ parameters' = parameters + 1
  /\ Declare(v, InRegister(IF InFloat(type) THEN "fpr" ELSE "gpr",
                           parameters % (IF InFloat(type) THEN FloatRegisters ELSE Registers)))
  /\ UNCHANGED <<stage, next, r1, memory>>

(* allocate_parameter: the register of the parameter's position, whatever  *)
(* the parameters before it took; a slot when there are no more.  Several  *)
(* parameters without a name share the empty one: the last one counts.     *)
AllocateParameter(v, type) ==
  /\ stage = "parameters"
  /\ parameters' = parameters + 1
  /\ IF parameters >= (IF InFloat(type) THEN FloatRegisters ELSE Registers)
     THEN next' = Grown(Bytes(type, 1, TRUE)) /\ Declare(v, InStack(Bytes(type, 1, TRUE), 1))
     ELSE /\ Declare(v, InRegister(IF InFloat(type) THEN "fpr" ELSE "gpr", parameters))
          /\ UNCHANGED next
  /\ UNCHANGED <<stage, r1, memory>>

(* A variant of AllocateLocal that takes a word whatever the size.         *)
AllocateLocalWord(v, type, length, written) ==
  /\ stage \in {"parameters", "locals"}
  /\ stage' = "locals"
  /\ next' = Grown(4)
  /\ Declare(v, [InStack(4, length) EXCEPT !.size = Bytes(type, length, written)])
  /\ UNCHANGED <<parameters, r1, memory>>

(* allocate_local, as pre_scan_locals calls it.  A second declaration of a *)
(* name replaces the first.                                                *)
AllocateLocal(v, type, length, written) ==
  /\ stage \in {"parameters", "locals"}
  /\ stage' = "locals"
  /\ next' = Grown(Bytes(type, length, written))
  /\ Declare(v, InStack(Bytes(type, length, written), length))
  /\ UNCHANGED <<parameters, r1, memory>>

(* The prologue: the return address goes into the caller's frame, then the *)
(* stack pointer moves and the old one is stored where it points.          *)
Enter ==
  /\ stage \in {"parameters", "locals"}
  /\ stage' = "running"
  /\ r1' = Short(-FrameSize)
  /\ memory' = Put(Put(memory, {4}, ReturnAddress), {Short(-FrameSize)}, BackChain)
  /\ UNCHANGED <<parameters, next, variables>>

(* generate_var_decl and assignment: a word, or a word for each element of *)
(* an initializer list.                                                    *)
Store(v, count) ==
  /\ stage = "running" /\ v \in OnStack /\ count \in 1..variables[v].elements
  /\ memory' = Put(memory, {Address(v) + 4 * i : i \in 0..(count - 1)}, Local(v))
  /\ UNCHANGED <<stage, parameters, next, variables, r1>>

(* Another function runs: its prologue stores above r1, its frame is below.*)
Call ==
  /\ stage = "running"
  /\ memory' = Put(memory, {4 + r1} \cup {a \in DOMAIN memory : a < r1}, Callee)
  /\ UNCHANGED <<stage, parameters, next, variables, r1>>

Leave ==
  /\ stage = "running"
  /\ stage' = "returned"
  /\ r1' = r1 + Short(FrameSize)
  /\ UNCHANGED <<parameters, next, variables, memory>>

Next ==
  \/ \E v \in Name, type \in Type : AllocateParameter(v, type)
  \/ \E v \in Name, type \in Type, length \in Lengths, written \in BOOLEAN :
       AllocateLocal(v, type, length, written)
  \/ Enter
  \/ \E v \in OnStack : \E count \in 1..variables[v].elements : Store(v, count)
  \/ Call \/ Leave

Spec == Init /\ [][Next]_vars

-----------------------------------------------------------------------------
Location ==
  [kind : {"gpr", "fpr", "stack"}, register : Nat, offset : Int, size : Nat, elements : Nat \ {0}]
Writers == {ReturnAddress, BackChain, Callee} \cup {Local(v) : v \in Name}

(* The variables have their types, and no register is numbered that the    *)
(* tables TEMP_GPRS and TEMP_FPRS do not have.                             *)
TypeOK ==
  /\ stage \in {"parameters", "locals", "running", "returned"}
  /\ parameters \in Nat /\ next \in Nat /\ r1 \in Int
  /\ DOMAIN variables \subseteq Name
  /\ \A v \in DOMAIN variables :
       /\ variables[v] \in Location
       /\ variables[v].kind = "gpr" => variables[v].register < Registers
       /\ variables[v].kind = "fpr" => variables[v].register < FloatRegisters
  /\ DOMAIN memory \subseteq Int /\ \A a \in DOMAIN memory : memory[a] \in Writers

(* The slots of two variables never overlap, and every slot is inside the  *)
(* bytes counted for the frame.                                            *)
SlotsDisjoint ==
  \A v \in OnStack :
    /\ -next <= variables[v].offset /\ variables[v].offset + Slot(variables[v].size) <= 0
    /\ \A w \in OnStack \ {v} :
         \/ variables[v].offset + Slot(variables[v].size) <= variables[w].offset
         \/ variables[w].offset + Slot(variables[w].size) <= variables[v].offset

(* Two parameters never share a register.                                  *)
RegistersDistinct ==
  \A v, w \in DOMAIN variables :
    v # w /\ variables[v].kind \in {"gpr", "fpr"} /\ variables[v].kind = variables[w].kind
      => variables[v].register # variables[w].register

(* Whatever the function stores in its locals, and whatever it calls, its  *)
(* return address is there when it leaves, and the stack pointer is back.  *)
(* The elements of its arrays are words and the frame's size fits the      *)
(* displacement of an instruction.                                         *)
Plain == FrameSize < HalfRange /\ \A v \in OnStack : 4 * variables[v].elements <= Slot(variables[v].size)
ReturnAddressKept ==
  Plain => /\ stage = "running" => memory[4] = ReturnAddress
           /\ stage = "returned" => memory[4] = ReturnAddress /\ r1 = 0
=============================================================================
