-------------------------- MODULE StackFrameProofs --------------------------
(***************************************************************************)
(* Proofs about StackFrame, for every set of names and types, any number   *)
(* of registers, and any width of a displacement.                          *)
(***************************************************************************)
EXTENDS StackFrame, TLAPS

-----------------------------------------------------------------------------
(* Arithmetic of slots and displacements.                                  *)
LEMMA AlignFacts ==
  ASSUME NEW n \in Nat
  PROVE  /\ Align(n, 4) \in Nat /\ Align(n, 4) >= n
         /\ Align(n, 16) \in Nat /\ Align(n, 16) >= n
BY DEF Align

LEMMA GrownFacts ==
  ASSUME NEW size \in Nat, next \in Nat
  PROVE  /\ Slot(size) \in Nat /\ Slot(size) >= 4
         /\ Grown(size) \in Nat /\ Grown(size) >= next + Slot(size)
<1>1. Slot(size) \in Nat /\ Slot(size) >= 4
  BY DEF Slot
<1>2. next + Slot(size) \in Nat
  BY <1>1
<1> QED BY <1>1, <1>2, AlignFacts DEF Grown

LEMMA FrameFacts ==
  ASSUME next \in Nat
  PROVE  FrameSize \in Nat /\ FrameSize >= next + 8
<1>1. next + 8 \in Nat
  OBVIOUS
<1> QED BY <1>1, AlignFacts DEF FrameSize

LEMMA ShortFits ==
  ASSUME NEW x \in Int, -HalfRange <= x, x < HalfRange
  PROVE  Short(x) = x
<1>1. HalfRange \in Nat \ {0}
  BY RegistersAssumption
<1>2. /\ x + HalfRange \in Int /\ 2 * HalfRange \in Int
      /\ 0 <= x + HalfRange /\ x + HalfRange < 2 * HalfRange
  BY <1>1
<1>3. \A a, m \in Int : 0 <= a /\ a < m => a % m = a
  OBVIOUS
<1>4. (x + HalfRange) % (2 * HalfRange) = x + HalfRange
  BY <1>2, <1>3
<1> QED BY <1>1, <1>4 DEF Short

LEMMA BytesFact ==
  ASSUME NEW type \in Type, NEW length \in Nat \ {0}, NEW written \in BOOLEAN
  PROVE  Bytes(type, length, written) \in Nat
<1>1. type.size \in Nat
  BY TypeAssumption
<1>2. \A a, b \in Nat : a * b \in Nat
  OBVIOUS
<1>3. type.size * length \in Nat
  BY <1>1, <1>2
<1> QED BY <1>1, <1>3 DEF Bytes
-----------------------------------------------------------------------------
(* What an allocation does to the table, and a write to the memory.        *)
Allocated(v, location) ==
  /\ DOMAIN variables' = DOMAIN variables \cup {v}
  /\ variables'[v] = location
  /\ \A w \in DOMAIN variables \ {v} : variables'[w] = variables[w]

LEMMA DeclareFacts ==
  ASSUME NEW v \in Name, NEW location, Declare(v, location)
  PROVE  Allocated(v, location)
BY DEF Declare, Allocated

LEMMA PutFacts ==
  ASSUME NEW m, NEW addresses, NEW writer
  PROVE  /\ DOMAIN Put(m, addresses, writer) = DOMAIN m \cup addresses
         /\ \A a \in addresses : Put(m, addresses, writer)[a] = writer
         /\ \A a \in DOMAIN m \ addresses : Put(m, addresses, writer)[a] = m[a]
BY DEF Put

(* The words of a memory have addresses and known writers.                 *)
Written(m) == DOMAIN m \subseteq Int /\ \A a \in DOMAIN m : m[a] \in Writers

LEMMA PutWritten ==
  ASSUME NEW m, Written(m), NEW addresses \in SUBSET Int, NEW writer \in Writers
  PROVE  Written(Put(m, addresses, writer))
BY DEF Written, Put

LEMMA AddressFact ==
  ASSUME TypeOK, NEW v \in DOMAIN variables
  PROVE  Address(v) \in Int
<1>1. variables[v].offset \in Int /\ r1 \in Int
  BY DEF TypeOK, Location
<1>2. HalfRange \in Nat \ {0}
  BY RegistersAssumption
<1>3. \A a, m \in Int : m > 0 => a % m \in Int
  OBVIOUS
<1>4. (variables[v].offset + LocalsBase + HalfRange) % (2 * HalfRange) \in Int
  BY <1>1, <1>2, <1>3 DEF LocalsBase
<1> QED BY <1>1, <1>2, <1>4 DEF Address, Short

LEMMA ShortInt == ASSUME NEW x \in Int PROVE Short(x) \in Int
<1>1. HalfRange \in Nat \ {0}
  BY RegistersAssumption
<1>2. \A a, m \in Int : m > 0 => a % m \in Int
  OBVIOUS
<1>3. (x + HalfRange) % (2 * HalfRange) \in Int
  BY <1>1, <1>2
<1> QED BY <1>1, <1>3 DEF Short

-----------------------------------------------------------------------------
(* The variables have their types in every reachable state, whatever the   *)
(* types, and no parameter gets a register the tables do not have.         *)
LEMMA LocationsKept ==
  ASSUME TypeOK, NEW v \in Name, NEW location \in Location, Allocated(v, location),
         location.kind = "gpr" => location.register < Registers,
         location.kind = "fpr" => location.register < FloatRegisters
  PROVE  /\ DOMAIN variables' \subseteq Name
         /\ \A w \in DOMAIN variables' :
              /\ variables'[w] \in Location
              /\ variables'[w].kind = "gpr" => variables'[w].register < Registers
              /\ variables'[w].kind = "fpr" => variables'[w].register < FloatRegisters
<1> SUFFICES ASSUME NEW w \in DOMAIN variables'
             PROVE  /\ variables'[w] \in Location
                    /\ variables'[w].kind = "gpr" => variables'[w].register < Registers
                    /\ variables'[w].kind = "fpr" => variables'[w].register < FloatRegisters
  BY DEF Allocated, TypeOK
<1>1. CASE w = v
  BY <1>1 DEF Allocated
<1>2. CASE w # v
  BY <1>2 DEF Allocated, TypeOK
<1> QED BY <1>1, <1>2

LEMMA InStackFacts ==
  ASSUME next \in Nat, NEW size \in Nat, NEW elements \in Nat \ {0}
  PROVE  InStack(size, elements) \in Location
<1>1. Grown(size) \in Nat
  BY GrownFacts
<1>2. -Grown(size) \in Int
  BY <1>1
<1> QED BY <1>2 DEF InStack, Location

LEMMA ParameterTyped ==
  ASSUME TypeOK, NEW v \in Name, NEW type \in Type, AllocateParameter(v, type)
  PROVE  TypeOK'
<1>1. Bytes(type, 1, TRUE) \in Nat /\ 1 \in Nat \ {0}
  <2>1. 1 \in Nat \ {0} /\ TRUE \in BOOLEAN
    OBVIOUS
  <2> QED BY <2>1, BytesFact
<1>2. CASE parameters >= IF InFloat(type) THEN FloatRegisters ELSE Registers
  <2>1. Declare(v, InStack(Bytes(type, 1, TRUE), 1)) /\ next' = Grown(Bytes(type, 1, TRUE))
    BY <1>2 DEF AllocateParameter
  <2>2. InStack(Bytes(type, 1, TRUE), 1) \in Location
    BY <1>1, InStackFacts DEF TypeOK
  <2>3. InStack(Bytes(type, 1, TRUE), 1).kind = "stack"
    BY DEF InStack
  <2>4. next' \in Nat
    BY <1>1, <2>1, GrownFacts DEF TypeOK
  <2>5. /\ DOMAIN variables' \subseteq Name
        /\ \A w \in DOMAIN variables' :
              /\ variables'[w] \in Location
              /\ variables'[w].kind = "gpr" => variables'[w].register < Registers
              /\ variables'[w].kind = "fpr" => variables'[w].register < FloatRegisters
    BY <2>1, <2>2, <2>3, DeclareFacts, LocationsKept
  <2> QED BY <2>4, <2>5 DEF TypeOK, AllocateParameter
<1>3. CASE ~(parameters >= IF InFloat(type) THEN FloatRegisters ELSE Registers)
  <2> DEFINE location == InRegister(IF InFloat(type) THEN "fpr" ELSE "gpr", parameters)
  <2>1. Declare(v, location) /\ next' = next
    BY <1>3 DEF AllocateParameter
  <2>2. /\ location \in Location
        /\ location.kind = "gpr" => location.register < Registers
        /\ location.kind = "fpr" => location.register < FloatRegisters
    BY <1>3, RegistersAssumption DEF InRegister, Location, TypeOK
  <2> HIDE DEF location
  <2>3. /\ DOMAIN variables' \subseteq Name
        /\ \A w \in DOMAIN variables' :
              /\ variables'[w] \in Location
              /\ variables'[w].kind = "gpr" => variables'[w].register < Registers
              /\ variables'[w].kind = "fpr" => variables'[w].register < FloatRegisters
    BY <2>1, <2>2, DeclareFacts, LocationsKept
  <2> QED BY <2>1, <2>3 DEF TypeOK, AllocateParameter
<1> QED BY <1>2, <1>3

LEMMA LocalTyped ==
  ASSUME TypeOK, NEW v \in Name, NEW type \in Type, NEW length \in Lengths,
         NEW written \in BOOLEAN, AllocateLocal(v, type, length, written)
  PROVE  TypeOK'
<1> DEFINE size == Bytes(type, length, written)
<1>1. size \in Nat /\ length \in Nat \ {0}
  BY BytesFact, LengthsAssumption
<1>2. Declare(v, InStack(size, length)) /\ next' = Grown(size)
  BY DEF AllocateLocal
<1> HIDE DEF size
<1>3. InStack(size, length) \in Location /\ InStack(size, length).kind = "stack"
  BY <1>1, InStackFacts DEF TypeOK, InStack
<1>4. next' \in Nat
  BY <1>1, <1>2, GrownFacts DEF TypeOK
<1>5. /\ DOMAIN variables' \subseteq Name
      /\ \A w \in DOMAIN variables' :
            /\ variables'[w] \in Location
            /\ variables'[w].kind = "gpr" => variables'[w].register < Registers
            /\ variables'[w].kind = "fpr" => variables'[w].register < FloatRegisters
  BY <1>2, <1>3, DeclareFacts, LocationsKept
<1> QED BY <1>4, <1>5 DEF TypeOK, AllocateLocal

LEMMA FrameTyped ==
  ASSUME TypeOK
  PROVE  /\ Enter => TypeOK'
         /\ Leave => TypeOK'
         /\ Call => TypeOK'
         /\ \A v \in OnStack, count \in Nat \ {0} : Store(v, count) => TypeOK'
<1>1. /\ FrameSize \in Nat /\ -FrameSize \in Int
      /\ Short(-FrameSize) \in Int /\ Short(FrameSize) \in Int
  BY FrameFacts, ShortInt DEF TypeOK
<1>2. Written(memory)
  BY DEF TypeOK, Written
<1>3. ReturnAddress \in Writers /\ BackChain \in Writers /\ Callee \in Writers
  BY DEF Writers
<1>4. ASSUME Written(memory'), r1' \in Int, UNCHANGED <<parameters, next, variables>>,
             stage' \in {"parameters", "locals", "running", "returned"}
      PROVE  TypeOK'
  BY <1>4 DEF TypeOK, Written
<1>5. Enter => TypeOK'
  <2> SUFFICES ASSUME Enter PROVE TypeOK'
    OBVIOUS
  <2>1. memory' = Put(Put(memory, {4}, ReturnAddress), {Short(-FrameSize)}, BackChain)
    BY DEF Enter
  <2>2. Written(Put(memory, {4}, ReturnAddress))
    BY <1>2, <1>3, PutWritten
  <2>3. Written(memory')
    BY <1>1, <1>3, <2>1, <2>2, PutWritten
  <2> QED BY <1>1, <1>4, <2>3 DEF Enter
<1>6. Leave => TypeOK'
  BY <1>1, <1>2, <1>4 DEF Leave, TypeOK, Written
<1>7. Call => TypeOK'
  <2> SUFFICES ASSUME Call PROVE TypeOK'
    OBVIOUS
  <2>1. {4 + r1} \cup {a \in DOMAIN memory : a < r1} \in SUBSET Int
    BY DEF TypeOK
  <2>2. Written(memory')
    BY <1>2, <1>3, <2>1, PutWritten DEF Call
  <2> QED BY <1>4, <2>2 DEF Call, TypeOK
<1>8. \A v \in OnStack, count \in Nat \ {0} : Store(v, count) => TypeOK'
  <2> SUFFICES ASSUME NEW v \in OnStack, NEW count \in Nat \ {0}, Store(v, count) PROVE TypeOK'
    OBVIOUS
  <2>1. v \in Name /\ Address(v) \in Int
    BY AddressFact DEF OnStack, TypeOK
  <2>2. {Address(v) + 4 * i : i \in 0..(count - 1)} \in SUBSET Int
    BY <2>1
  <2>3. Written(memory')
    BY <1>2, <2>1, <2>2, PutWritten DEF Store, Writers
  <2> QED BY <1>4, <2>3 DEF Store, TypeOK
<1> QED BY <1>5, <1>6, <1>7, <1>8

THEOREM TypeCorrect == Spec => []TypeOK
<1>1. Init => TypeOK
  BY DEF Init, TypeOK
<1>2. TypeOK /\ [Next]_vars => TypeOK'
  <2> SUFFICES ASSUME TypeOK, [Next]_vars PROVE TypeOK'
    OBVIOUS
  <2>1. CASE UNCHANGED vars
    BY <2>1 DEF vars, TypeOK
  <2>2. ASSUME NEW v \in OnStack, NEW count \in 1..variables[v].elements, Store(v, count)
        PROVE  TypeOK'
    <3>1. variables[v].elements \in Nat \ {0}
      BY DEF OnStack, TypeOK, Location
    <3> QED BY <2>2, <3>1, FrameTyped
  <2> QED BY <2>1, <2>2, ParameterTyped, LocalTyped, FrameTyped DEF Next
<1> QED BY <1>1, <1>2, PTL DEF Spec

-----------------------------------------------------------------------------
(* No two slots overlap, and each is inside the bytes counted for the      *)
(* frame, whatever the sizes.  A new slot starts at or below the bytes     *)
(* counted so far, which hold every older slot.                            *)
LEMMA NewSlot ==
  ASSUME TypeOK, SlotsDisjoint, NEW v \in Name, NEW size \in Nat, NEW elements \in Nat \ {0},
         Declare(v, InStack(size, elements)), next' = Grown(size)
  PROVE  SlotsDisjoint'
<1>1. /\ next \in Nat /\ Grown(size) \in Nat /\ Slot(size) \in Nat
      /\ Grown(size) >= next + Slot(size)
  BY GrownFacts DEF TypeOK
<1>2. Allocated(v, InStack(size, elements))
  BY DeclareFacts
<1>3. /\ variables'[v].kind = "stack"
      /\ variables'[v].offset = -Grown(size) /\ variables'[v].size = size
  BY <1>2 DEF Allocated, InStack
<1>4. ASSUME NEW w \in OnStack \ {v}
      PROVE  /\ variables[w].offset \in Int /\ Slot(variables[w].size) \in Nat
             /\ -next <= variables[w].offset
             /\ variables[w].offset + Slot(variables[w].size) <= 0
  <2>1. variables[w].offset \in Int /\ variables[w].size \in Nat
    BY DEF OnStack, TypeOK, Location
  <2> QED BY <2>1, GrownFacts DEF SlotsDisjoint, TypeOK
<1>5. \A w \in OnStack' \ {v} : w \in OnStack /\ variables'[w] = variables[w]
  BY <1>2 DEF Allocated, OnStack
<1>6. -next' <= variables'[v].offset /\ variables'[v].offset + Slot(variables'[v].size) <= 0
  BY <1>1, <1>3
<1>7. ASSUME NEW w \in OnStack' \ {v}
      PROVE  /\ variables'[v].offset + Slot(variables'[v].size) <= variables'[w].offset
             /\ -next' <= variables'[w].offset
             /\ variables'[w].offset + Slot(variables'[w].size) <= 0
  <2>1. w \in OnStack \ {v} /\ variables'[w] = variables[w]
    BY <1>5
  <2>2. -next <= variables[w].offset /\ variables[w].offset \in Int
    BY <1>4, <2>1
  <2>3. -Grown(size) + Slot(size) <= variables[w].offset /\ -Grown(size) <= variables[w].offset
    BY <1>1, <2>2
  <2> QED BY <1>3, <1>4, <2>1, <2>3
<1>8. ASSUME NEW u \in OnStack' \ {v}, NEW w \in OnStack' \ {v}, u # w
      PROVE  \/ variables'[u].offset + Slot(variables'[u].size) <= variables'[w].offset
             \/ variables'[w].offset + Slot(variables'[w].size) <= variables'[u].offset
  BY <1>5, <1>8 DEF SlotsDisjoint
<1> QED BY <1>6, <1>7, <1>8 DEF SlotsDisjoint, Slot

LEMMA SlotsKept ==
  ASSUME TypeOK, SlotsDisjoint, [Next]_vars
  PROVE  SlotsDisjoint'
<1>1. CASE UNCHANGED <<next, variables>>
  BY <1>1 DEF SlotsDisjoint, OnStack, Slot
<1>2. ASSUME NEW v \in Name, NEW type \in Type, AllocateParameter(v, type)
      PROVE  SlotsDisjoint'
  <2>1. Bytes(type, 1, TRUE) \in Nat /\ 1 \in Nat \ {0}
    <3>1. 1 \in Nat \ {0} /\ TRUE \in BOOLEAN
      OBVIOUS
    <3> QED BY <3>1, BytesFact
  <2>2. CASE parameters >= IF InFloat(type) THEN FloatRegisters ELSE Registers
    BY <1>2, <2>1, <2>2, NewSlot DEF AllocateParameter
  <2>3. CASE ~(parameters >= IF InFloat(type) THEN FloatRegisters ELSE Registers)
    <3> DEFINE location == InRegister(IF InFloat(type) THEN "fpr" ELSE "gpr", parameters)
    <3>1. Declare(v, location) /\ next' = next
      BY <1>2, <2>3 DEF AllocateParameter
    <3>2. location.kind # "stack"
      BY DEF InRegister
    <3> HIDE DEF location
    <3>3. OnStack' \subseteq OnStack /\ \A w \in OnStack' : variables'[w] = variables[w]
      BY <3>1, <3>2, DeclareFacts DEF OnStack, Allocated
    <3> QED BY <3>1, <3>3 DEF SlotsDisjoint, Slot
  <2> QED BY <2>2, <2>3
<1>3. ASSUME NEW v \in Name, NEW type \in Type, NEW length \in Lengths, NEW written \in BOOLEAN,
             AllocateLocal(v, type, length, written)
      PROVE  SlotsDisjoint'
  <2>1. Bytes(type, length, written) \in Nat /\ length \in Nat \ {0}
    BY BytesFact, LengthsAssumption
  <2> QED BY <1>3, <2>1, NewSlot DEF AllocateLocal
<1> QED BY <1>1, <1>2, <1>3 DEF Next, vars, Enter, Store, Call, Leave

THEOREM SlotsNeverOverlap == Spec => []SlotsDisjoint
<1>1. Init => SlotsDisjoint
  BY DEF Init, SlotsDisjoint, OnStack
<1> QED BY <1>1, SlotsKept, TypeCorrect, PTL DEF Spec

-----------------------------------------------------------------------------
(* No two parameters share a register: each has the number of its own      *)
(* position, and later positions have larger numbers.                      *)
InARegister(location) == location.kind \in {"gpr", "fpr"}
RegistersUsed ==
  /\ \A v \in DOMAIN variables : InARegister(variables[v]) => variables[v].register < parameters
  /\ RegistersDistinct

LEMMA NewLocation ==
  ASSUME TypeOK, RegistersUsed, NEW v \in Name, NEW location, Allocated(v, location),
         parameters' \in Nat, parameters' >= parameters,
         InARegister(location) => location.register = parameters /\ parameters' = parameters + 1
  PROVE  RegistersUsed'
<1>1. \A w \in DOMAIN variables' \ {v} :
        /\ w \in DOMAIN variables /\ variables'[w] = variables[w]
        /\ variables[w].register \in Nat
  BY DEF Allocated, TypeOK, Location
<1>2. variables'[v] = location
  BY DEF Allocated
<1>3. ASSUME NEW w \in DOMAIN variables', InARegister(variables'[w])
      PROVE  variables'[w].register < parameters'
  <2>1. CASE w = v
    BY <1>2, <1>3, <2>1 DEF TypeOK
  <2>2. CASE w # v
    <3>1. variables'[w].register < parameters /\ variables'[w].register \in Nat
      BY <1>1, <1>3, <2>2 DEF RegistersUsed
    <3> QED BY <3>1 DEF TypeOK
  <2> QED BY <2>1, <2>2
<1>4. \A w \in DOMAIN variables' \ {v} :
        InARegister(variables'[w]) => variables'[w].register < parameters
  BY <1>1 DEF RegistersUsed
<1>5. ASSUME NEW u \in DOMAIN variables', NEW w \in DOMAIN variables', u # w,
             InARegister(variables'[u]), variables'[u].kind = variables'[w].kind
      PROVE  variables'[u].register # variables'[w].register
  <2>1. InARegister(variables'[w])
    BY <1>5 DEF InARegister
  <2>2. CASE u # v /\ w # v
    BY <1>1, <1>5, <2>2 DEF RegistersUsed, RegistersDistinct, InARegister
  <2>3. CASE u = v \/ w = v
    BY <1>1, <1>2, <1>4, <1>5, <2>1, <2>3 DEF TypeOK
  <2> QED BY <2>2, <2>3
<1> QED BY <1>3, <1>5 DEF RegistersUsed, RegistersDistinct, InARegister

LEMMA RegistersKept ==
  ASSUME TypeOK, RegistersUsed, [Next]_vars
  PROVE  RegistersUsed'
<1>1. CASE UNCHANGED <<parameters, variables>>
  BY <1>1 DEF RegistersUsed, RegistersDistinct, InARegister
<1>2. ASSUME NEW v \in Name, NEW type \in Type, AllocateParameter(v, type)
      PROVE  RegistersUsed'
  <2> DEFINE slot == InStack(Bytes(type, 1, TRUE), 1)
             register == InRegister(IF InFloat(type) THEN "fpr" ELSE "gpr", parameters)
  <2>1. parameters' = parameters + 1 /\ parameters' \in Nat /\ parameters' >= parameters
    BY <1>2 DEF AllocateParameter, TypeOK
  <2>2. Declare(v, slot) \/ Declare(v, register)
    BY <1>2 DEF AllocateParameter
  <2>3. ~InARegister(slot)
    BY DEF InStack, InARegister
  <2>4. register.register = parameters
    BY DEF InRegister
  <2> HIDE DEF slot, register
  <2>5. CASE Declare(v, slot)
    BY <2>1, <2>3, <2>5, DeclareFacts, NewLocation
  <2>6. CASE Declare(v, register)
    BY <2>1, <2>4, <2>6, DeclareFacts, NewLocation
  <2> QED BY <2>2, <2>5, <2>6
<1>3. ASSUME NEW v \in Name, NEW type \in Type, NEW length \in Lengths, NEW written \in BOOLEAN,
             AllocateLocal(v, type, length, written)
      PROVE  RegistersUsed'
  <2> DEFINE slot == InStack(Bytes(type, length, written), length)
  <2>1. Declare(v, slot) /\ parameters' = parameters /\ parameters \in Nat
    BY <1>3 DEF AllocateLocal, TypeOK
  <2>2. ~InARegister(slot)
    BY DEF InStack, InARegister
  <2> HIDE DEF slot
  <2>3. parameters' \in Nat /\ parameters' >= parameters
    BY <2>1
  <2> QED BY <2>1, <2>2, <2>3, DeclareFacts, NewLocation
<1> QED BY <1>1, <1>2, <1>3 DEF Next, vars, Enter, Store, Call, Leave

THEOREM RegistersNeverShared == Spec => []RegistersDistinct
<1>1. Init => RegistersUsed
  BY DEF Init, RegistersUsed, RegistersDistinct
<1>2. Spec => []RegistersUsed
  BY <1>1, RegistersKept, TypeCorrect, PTL DEF Spec
<1>3. RegistersUsed => RegistersDistinct
  BY DEF RegistersUsed
<1> QED BY <1>2, <1>3, PTL

-----------------------------------------------------------------------------
(* The return address survives every store into a local and every call, in *)
(* a frame of any size a displacement can hold.  All of them write below   *)
(* the word at 4: the frame is longer than the locals by eight bytes.      *)
Framed ==
  Plain => /\ stage = "running" => r1 = -FrameSize
           /\ stage = "returned" => r1 = 0
           /\ stage \in {"running", "returned"} => 4 \in DOMAIN memory /\ memory[4] = ReturnAddress

LEMMA PutBelow ==
  ASSUME NEW m, 4 \in DOMAIN m, m[4] = ReturnAddress, NEW addresses, 4 \notin addresses, NEW writer
  PROVE  4 \in DOMAIN Put(m, addresses, writer) /\ Put(m, addresses, writer)[4] = ReturnAddress
BY DEF Put

LEMMA StoreBelow ==
  ASSUME TypeOK, SlotsDisjoint, Plain, r1 = -FrameSize,
         NEW v \in OnStack, NEW count \in 1..variables[v].elements
  PROVE  4 \notin {Address(v) + 4 * i : i \in 0..(count - 1)}
<1> DEFINE offset == variables[v].offset
           slot == Slot(variables[v].size)
<1>1. /\ offset \in Int /\ slot \in Nat /\ slot >= 4
      /\ next \in Nat /\ FrameSize \in Nat /\ FrameSize >= next + 8
      /\ variables[v].elements \in Nat \ {0} /\ HalfRange \in Nat
  BY FrameFacts, GrownFacts, RegistersAssumption DEF OnStack, TypeOK, Location
<1>2. /\ -next <= offset /\ offset + slot <= 0
      /\ 4 * variables[v].elements <= slot /\ FrameSize < HalfRange
  BY DEF SlotsDisjoint, Plain
<1>3. Address(v) = r1 + Short(offset + 8)
  BY DEF Address, LocalsBase
<1> HIDE DEF offset, slot
<1>4. offset + 8 \in Int /\ -HalfRange <= offset + 8 /\ offset + 8 < HalfRange
  BY <1>1, <1>2
<1>5. Address(v) = offset + 8 - FrameSize
  BY <1>1, <1>3, <1>4, ShortFits
<1>6. ASSUME NEW i \in 0..(count - 1)
      PROVE  Address(v) + 4 * i < 4
  <2>1. i \in Int /\ i <= variables[v].elements - 1
    BY <1>1
  <2>2. 4 * i <= slot - 4
    BY <1>1, <1>2, <2>1
  <2> QED BY <1>1, <1>2, <1>5, <2>1, <2>2
<1> QED BY <1>6

LEMMA FramedKept ==
  ASSUME TypeOK, SlotsDisjoint, Framed, [Next]_vars
  PROVE  Framed'
<1>1. CASE UNCHANGED vars
  BY <1>1 DEF vars, Framed, Plain, OnStack, FrameSize, Align, Slot
<1>2. CASE stage' \in {"parameters", "locals"}
  BY <1>2 DEF Framed
<1>3. ASSUME UNCHANGED <<next, variables>>, Plain'
      PROVE  Plain /\ FrameSize' = FrameSize
  BY <1>3 DEF Plain, OnStack, FrameSize, Align, Slot
<1>4. FrameSize \in Nat /\ FrameSize >= 8 /\ HalfRange \in Nat
  BY FrameFacts, RegistersAssumption DEF TypeOK
<1>5. Plain => Short(FrameSize) = FrameSize /\ Short(-FrameSize) = -FrameSize
  <2> SUFFICES ASSUME FrameSize < HalfRange
               PROVE  Short(FrameSize) = FrameSize /\ Short(-FrameSize) = -FrameSize
    BY DEF Plain
  <2>1. /\ -HalfRange <= FrameSize /\ -FrameSize \in Int
        /\ -HalfRange <= -FrameSize /\ -FrameSize < HalfRange
    BY <1>4
  <2> QED BY <1>4, <2>1, ShortFits
<1>6. CASE Enter
  <2> SUFFICES ASSUME Plain' PROVE Framed'
    BY DEF Framed
  <2>1. Plain /\ FrameSize' = FrameSize
    BY <1>3, <1>6 DEF Enter
  <2>2. stage' = "running" /\ r1' = -FrameSize
    BY <1>5, <1>6, <2>1 DEF Enter
  <2> DEFINE saved == Put(memory, {4}, ReturnAddress)
  <2>3. memory' = Put(saved, {-FrameSize}, BackChain)
    BY <1>5, <1>6, <2>1 DEF Enter
  <2>4. 4 \in DOMAIN saved /\ saved[4] = ReturnAddress
    BY DEF Put
  <2>5. 4 \notin {-FrameSize}
    BY <1>4
  <2> HIDE DEF saved
  <2>6. 4 \in DOMAIN memory' /\ memory'[4] = ReturnAddress
    BY <2>3, <2>4, <2>5, PutBelow
  <2> QED BY <2>1, <2>2, <2>6 DEF Framed, ReturnAddress
<1>7. ASSUME NEW v \in OnStack, NEW count \in 1..variables[v].elements, Store(v, count)
      PROVE  Framed'
  <2> SUFFICES ASSUME Plain' PROVE Framed'
    BY DEF Framed
  <2>1. /\ Plain /\ FrameSize' = FrameSize
        /\ stage = "running" /\ stage' = "running" /\ r1' = r1
    BY <1>3, <1>7 DEF Store
  <2>2. r1 = -FrameSize /\ 4 \in DOMAIN memory /\ memory[4] = ReturnAddress
    BY <2>1 DEF Framed
  <2>3. 4 \notin {Address(v) + 4 * i : i \in 0..(count - 1)}
    BY <2>1, <2>2, StoreBelow
  <2>4. memory' = Put(memory, {Address(v) + 4 * i : i \in 0..(count - 1)}, Local(v))
    BY <1>7 DEF Store
  <2>5. 4 \in DOMAIN memory' /\ memory'[4] = ReturnAddress
    BY <2>2, <2>3, <2>4, PutBelow
  <2> QED BY <2>1, <2>2, <2>5 DEF Framed, ReturnAddress
<1>8. CASE Call
  <2> SUFFICES ASSUME Plain' PROVE Framed'
    BY DEF Framed
  <2>1. /\ Plain /\ FrameSize' = FrameSize
        /\ stage = "running" /\ stage' = "running" /\ r1' = r1
    BY <1>3, <1>8 DEF Call
  <2>2. r1 = -FrameSize /\ 4 \in DOMAIN memory /\ memory[4] = ReturnAddress
    BY <2>1 DEF Framed
  <2> DEFINE words == {4 + r1} \cup {a \in DOMAIN memory : a < r1}
  <2>3. 4 \notin words
    BY <1>4, <2>2
  <2>4. memory' = Put(memory, words, Callee)
    BY <1>8 DEF Call
  <2> HIDE DEF words
  <2>5. 4 \in DOMAIN memory' /\ memory'[4] = ReturnAddress
    BY <2>2, <2>3, <2>4, PutBelow
  <2> QED BY <2>1, <2>2, <2>5 DEF Framed, ReturnAddress
<1>9. CASE Leave
  <2> SUFFICES ASSUME Plain' PROVE Framed'
    BY DEF Framed
  <2>1. /\ Plain /\ stage = "running" /\ stage' = "returned"
        /\ r1' = r1 + Short(FrameSize) /\ memory' = memory
    BY <1>3, <1>9 DEF Leave
  <2>2. r1 = -FrameSize /\ 4 \in DOMAIN memory /\ memory[4] = ReturnAddress
    BY <2>1 DEF Framed
  <2>3. r1' = 0
    BY <1>4, <1>5, <2>1, <2>2
  <2> QED BY <2>1, <2>2, <2>3 DEF Framed, ReturnAddress
<1> QED BY <1>1, <1>2, <1>6, <1>7, <1>8, <1>9 DEF Next, TypeOK, AllocateParameter, AllocateLocal

THEOREM ReturnAddressIsKept == Spec => []ReturnAddressKept
<1>1. Init => Framed
  BY DEF Init, Framed
<1>2. Spec => []Framed
  BY <1>1, FramedKept, SlotsNeverOverlap, TypeCorrect, PTL DEF Spec
<1>3. Framed => ReturnAddressKept
  BY DEF Framed, ReturnAddressKept
<1> QED BY <1>2, <1>3, PTL
=============================================================================
