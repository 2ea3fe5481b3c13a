------------------------ MODULE CodeGeneratorProofs ------------------------
(***************************************************************************)
(* Proofs about CodeGenerator and CompiledCode, for every translation unit.*)
(*                                                                         *)
(* A label number is placed once the generator has come to its place, and  *)
(* owed while a handler that waits on the stack will come there.  Whatever *)
(* a branch, a target in force or a target saved by a handler names is one *)
(* or the other (Ahead), and stays so: a handler that goes on either       *)
(* places what it owes or owes it still.  No number is owed twice, or owed *)
(* and placed (Issued), so no place is ever taken from a label.            *)
(*                                                                         *)
(* The rest of the module proves that the code means what the statements   *)
(* mean.  While it is generated, every place the generator has come to is  *)
(* remembered with what was left to do there (History), and what the step  *)
(* taken there wrote is known (Done): which instruction, branch and label, *)
(* and the places from which its parts and what follows are generated.     *)
(* Each handler is shown to keep this, then the filling in of the branches *)
(* (Finished).  The code so known is then run: a stack of statements       *)
(* stands at a place if it means, item by item, what was left to do there, *)
(* and the rest of it stands at the return addresses (Stands).  The        *)
(* machine agrees with the meaning if it goes by itself to a place where   *)
(* the meaning's stack stands (Agrees), which every step keeps, one lemma  *)
(* for each kind of statement and each item that waits.                    *)
(***************************************************************************)
EXTENDS CompiledCode, SequenceTheorems, WellFoundedInduction, TLAPS

(* What generate_function and the handlers have written so far.            *)
Placements == UNION {[D -> Nat \ {0}] : D \in SUBSET Target}
Output ==
  {o \in [code : Seq(Instruction), labels : Placements, patches : SUBSET Patch] :
     \A p \in o.patches : p.at \in 1..Len(o.code)}

(* From o to r labels are placed and branches with the given targets added.*)
Writes(o, r, placed, to) ==
  /\ r \in Output
  /\ DOMAIN r.labels = DOMAIN o.labels \cup placed
  /\ \A t \in DOMAIN o.labels : t \notin placed => r.labels[t] = o.labels[t]
  /\ \A p \in r.patches : p \in o.patches \/ p.to \in to

-----------------------------------------------------------------------------
(* The items that wait.                                                    *)
Waiting == {"else", "endif", "while", "dowhile", "for", "step", "catch"}

(* An item resumes a handler of its own kind, with labels of its own.      *)
ItemRight(x) ==
  /\ x.at \in Waiting => x.head \in Nat /\ x.end \in Nat /\ x.head # x.end
  /\ x.at \in {"dowhile", "for", "step"} => x.step \in Nat /\ x.step # x.head /\ x.step # x.end
  /\ x.at = "else" => x.node.kind = "if" /\ x.node.otherwise # << >>
  /\ x.at = "dowhile" => x.node.kind = "dowhile"
  /\ x.at \in {"for", "step"} => x.node.kind = "for"
  /\ x.at = "catch" => x.node.kind = "try" /\ x.clause <= Len(x.node.clauses)

(* The numbers whose labels an item will place.                            *)
Owes(x, n) ==
  \/ x.at \in Waiting /\ n = x.end
  \/ x.at \in {"dowhile", "for", "step"} /\ n = x.step
  \/ x.at \in {"else", "for"} /\ n = x.head
  \/ x.at = "catch" /\ x.clause = 0 /\ n = x.head

(* The numbers an item will name without placing them.                     *)
Refers(x, n) ==
  \/ x.at \in {"while", "dowhile", "step"} /\ n = x.head
  \/ n \in {x.savedBreak, x.savedContinue, x.savedCatch} /\ n # NoLabel

Placed(n) == Local(n) \in DOMAIN out.labels
Ahead(n) == Placed(n) \/ \E i \in DOMAIN todo : Owes(todo[i], n)
EpilogueAhead(f) ==
  \/ Epilogue(f) \in DOMAIN out.labels
  \/ f = program[current].name /\ \E i \in DOMAIN todo : todo[i].at = "epilogue"

Lands(t) ==
  /\ t.sort = "label" => Ahead(t.id)
  /\ t.sort = "epilogue" => EpilogueAhead(t.id)
  /\ t.sort = "function" => t.id \in DOMAIN offsets

-----------------------------------------------------------------------------
Typed ==
  /\ IsProgram(program) /\ current \in 0..Len(program)
  /\ scan \in Trees /\ todo \in Seq(ItemType)
  /\ out \in Output /\ counter \in Nat
  /\ breakLabel \in Label /\ continueLabel \in Label /\ catchLabel \in Label
  /\ locals \subseteq Name
  /\ DOMAIN offsets = {program[i].name : i \in DOMAIN program}
  /\ \A f \in DOMAIN offsets : offsets[f] \in Nat
  /\ externals \in Seq(Name) /\ patched \in BOOLEAN

ItemsRight == \A i \in DOMAIN todo : ItemRight(todo[i])

(* The numbers given out are below the counter; each is placed or owed by  *)
(* one item, or was never used.                                            *)
Issued ==
  /\ \A n \in Nat : Placed(n) => n < counter
  /\ \A i \in DOMAIN todo : \A n \in Nat : Owes(todo[i], n) => n < counter /\ ~Placed(n)
  /\ \A i, j \in DOMAIN todo : \A n \in Nat : Owes(todo[i], n) /\ Owes(todo[j], n) => i = j

Landing ==
  /\ \A p \in out.patches : Lands(p.to)
  /\ \A n \in {breakLabel, continueLabel, catchLabel} : n # NoLabel => Ahead(n)
  /\ \A i \in DOMAIN todo : \A n \in Nat : Refers(todo[i], n) => Ahead(n)

Begun ==
  /\ todo # << >> => current > 0
  /\ current > 0 => EpilogueAhead(program[current].name)
  /\ \A i \in 1..current : offsets[program[i].name] > 0
  /\ patched => todo = << >> /\ current = Len(program)

Inv == Typed /\ ItemsRight /\ Issued /\ Landing /\ Begun

-----------------------------------------------------------------------------
(* What the three writers do to the output.                                *)
LEMMA OutputParts ==
  ASSUME NEW o, NEW code, NEW labels, NEW patches,
         o = [code |-> code, labels |-> labels, patches |-> patches],
         code \in Seq(Instruction), labels \in Placements, patches \subseteq Patch,
         \A p \in patches : p.at \in 1..Len(code)
  PROVE  o \in Output
BY DEF Output

LEMMA OutputTyped ==
  ASSUME NEW o \in Output
  PROVE  /\ o = [code |-> o.code, labels |-> o.labels, patches |-> o.patches]
         /\ o.code \in Seq(Instruction) /\ o.labels \in Placements /\ o.patches \subseteq Patch
         /\ \A p \in o.patches : p.at \in 1..Len(o.code)
BY DEF Output

LEMMA EmitWrites ==
  ASSUME NEW o \in Output, NEW op, NEW arg, [op |-> op, arg |-> arg] \in Instruction
  PROVE  Writes(o, Emit(o, op, arg), {}, {})
<1> DEFINE r == Emit(o, op, arg)
           code == Append(o.code, [op |-> op, arg |-> arg])
<1>1. r = [code |-> code, labels |-> o.labels, patches |-> o.patches]
  BY OutputTyped, SMTT(60) DEF Emit
<1>2. code \in Seq(Instruction) /\ Len(code) = Len(o.code) + 1 /\ Len(o.code) \in Nat
  BY OutputTyped, AppendProperties, LenProperties
<1> HIDE DEF r, code
<1>3. \A p \in o.patches : p.at \in 1..Len(code)
  BY <1>2, OutputTyped
<1>4. r \in Output
  BY <1>1, <1>2, <1>3, OutputTyped, OutputParts
<1> QED BY <1>1, <1>4 DEF Writes, r

LEMMA BranchWrites ==
  ASSUME NEW o \in Output, NEW when \in {"always", "equal", "notequal", "call"}, NEW to \in Target
  PROVE  Writes(o, Branch(o, when, to), {}, {to})
<1> DEFINE r == Branch(o, when, to)
           nop == [op |-> "nop", arg |-> 0]
           code == Append(o.code, nop)
           new == [at |-> Len(o.code) + 1, when |-> when, to |-> to]
           patches == o.patches \cup {new}
<1>1. r = [code |-> code, labels |-> o.labels, patches |-> patches]
  BY DEF Branch
<1>2. nop \in Instruction
  BY DEF Instruction
<1>3. code \in Seq(Instruction) /\ Len(code) = Len(o.code) + 1 /\ Len(o.code) \in Nat
  BY <1>2, OutputTyped, AppendProperties, LenProperties
<1>4. new \in Patch /\ new.at = Len(o.code) + 1 /\ new.to = to
  BY <1>3 DEF Patch
<1> HIDE DEF r, code, new, nop
<1>5. patches \subseteq Patch
  BY <1>4, OutputTyped
<1>6. \A p \in patches : p.at \in 1..Len(code)
  BY <1>3, <1>4, OutputTyped
<1>7. \A p \in patches : p \in o.patches \/ p.to \in {to}
  BY <1>4
<1> HIDE DEF patches
<1>8. r \in Output
  BY <1>1, <1>3, <1>5, <1>6, OutputTyped, OutputParts
<1> QED BY <1>1, <1>7, <1>8 DEF Writes, r

LEMMA BindWrites ==
  ASSUME NEW o \in Output, NEW to \in Target
  PROVE  Writes(o, Bind(o, to), {to}, {})
<1> DEFINE r == Bind(o, to)
           labels == [t \in DOMAIN o.labels \cup {to} |->
                        IF t = to THEN Len(o.code) + 1 ELSE o.labels[t]]
<1>1. r = [code |-> o.code, labels |-> labels, patches |-> o.patches]
  BY OutputTyped DEF Bind
<1>2. Len(o.code) + 1 \in Nat \ {0}
  BY OutputTyped, LenProperties
<1>3. PICK D \in SUBSET Target : o.labels \in [D -> Nat \ {0}]
  BY OutputTyped DEF Placements
<1>4. labels \in [D \cup {to} -> Nat \ {0}]
  BY <1>2, <1>3
<1>5. labels \in Placements
  BY <1>4 DEF Placements
<1>6. DOMAIN labels = DOMAIN o.labels \cup {to}
      /\ \A t \in DOMAIN o.labels : t \notin {to} => labels[t] = o.labels[t]
  OBVIOUS
<1> HIDE DEF r, labels
<1>7. r \in Output
  BY <1>1, <1>5, OutputTyped, OutputParts
<1> QED BY <1>1, <1>6, <1>7 DEF Writes, r

LEMMA WritesNothing ==
  ASSUME NEW o \in Output
  PROVE  Writes(o, o, {}, {})
BY DEF Writes

LEMMA WritesThen ==
  ASSUME NEW o, NEW q, NEW r, NEW P, NEW Q, NEW S, NEW T,
         Writes(o, q, P, S), Writes(q, r, Q, T)
  PROVE  Writes(o, r, P \cup Q, S \cup T)
BY DEF Writes

-----------------------------------------------------------------------------
(* The top of the stack is replaced by other items.                        *)
LEMMA ReplacedTop ==
  ASSUME NEW T, NEW s \in Seq(T), s # << >>, NEW f \in Seq(T)
  PROVE  LET r == f \o Tail(s)
         IN  /\ r \in Seq(T) /\ Len(f) \in Nat /\ Len(s) \in Nat \ {0}
             /\ DOMAIN f = 1..Len(f) /\ DOMAIN s = 1..Len(s) /\ DOMAIN r = 1..(Len(f) + Len(s) - 1)
             /\ \A i \in 1..Len(f) : r[i] = f[i]
             /\ \A j \in 2..Len(s) : r[Len(f) + j - 1] = s[j]
             /\ \A i \in (Len(f) + 1)..(Len(f) + Len(s) - 1) : r[i] = s[i - Len(f) + 1]
<1> DEFINE t == Tail(s)
           r == f \o t
<1>1. Len(f) \in Nat /\ Len(s) \in Nat \ {0} /\ DOMAIN f = 1..Len(f) /\ DOMAIN s = 1..Len(s)
  BY EmptySeq, LenProperties
<1>2. /\ t \in Seq(T) /\ Len(t) = Len(s) - 1
      /\ \A i \in 1..(Len(s) - 1) : t[i] = s[i + 1]
  BY HeadTailProperties
<1> HIDE DEF t
<1>3. /\ r \in Seq(T) /\ Len(r) = Len(f) + Len(t)
      /\ \A i \in 1..(Len(f) + Len(t)) : r[i] = IF i <= Len(f) THEN f[i] ELSE t[i - Len(f)]
  BY <1>2, ConcatProperties
<1>4. DOMAIN r = 1..(Len(f) + Len(s) - 1)
  BY <1>1, <1>2, <1>3, LenProperties
<1> HIDE DEF r
<1>5. \A i \in 1..Len(f) : r[i] = f[i]
  BY <1>1, <1>2, <1>3
<1>6. \A i \in (Len(f) + 1)..(Len(f) + Len(s) - 1) : r[i] = s[i - Len(f) + 1]
  BY <1>1, <1>2, <1>3, SMTT(60)
<1>7. \A j \in 2..Len(s) : r[Len(f) + j - 1] = s[j]
  BY <1>1, <1>6
<1> QED BY <1>1, <1>3, <1>4, <1>5, <1>6, <1>7 DEF r, t

(* Items for statements.                                                   *)
LEMMA DoRight ==
  ASSUME Typed, NEW s \in Statement
  PROVE  /\ Do(s) \in ItemType /\ Do(s).at = "statement" /\ Do(s).node = s
         /\ ItemRight(Do(s))
         /\ \A n \in Nat : ~Owes(Do(s), n)
         /\ \A n \in Nat : Refers(Do(s), n) => n \in {breakLabel, continueLabel, catchLabel} /\ n # NoLabel
<1>1. Do(s) \in ItemType /\ Do(s).at = "statement" /\ Do(s).node = s
      /\ Do(s).savedBreak = breakLabel /\ Do(s).savedContinue = continueLabel
      /\ Do(s).savedCatch = catchLabel
  BY DEF Do, Item, ItemType, Points, Typed, Label, NoLabel
<1>2. ItemRight(Do(s)) /\ \A n \in Nat : ~Owes(Do(s), n)
  BY <1>1 DEF ItemRight, Owes, Waiting
<1>3. \A n \in Nat : Refers(Do(s), n) => n \in {breakLabel, continueLabel, catchLabel} /\ n # NoLabel
  BY <1>1 DEF Refers
<1> QED BY <1>1, <1>2, <1>3

LEMMA SequenceRight ==
  ASSUME Typed, NEW body \in Seq(Statement)
  PROVE  /\ Sequence(body) \in Seq(ItemType) /\ Len(Sequence(body)) = Len(body)
         /\ \A i \in 1..Len(body) : \E s \in Statement : Sequence(body)[i] = Do(s)
<1>1. DOMAIN body = 1..Len(body) /\ Len(body) \in Nat /\ \A i \in 1..Len(body) : body[i] \in Statement
  BY LenProperties, ElementOfSeq
<1>2. Sequence(body) = [i \in 1..Len(body) |-> Do(body[i])]
  BY <1>1 DEF Sequence
<1>3. \A i \in 1..Len(body) : Do(body[i]) \in ItemType
  BY <1>1, DoRight
<1>4. Sequence(body) \in [1..Len(body) -> ItemType]
  BY <1>2, <1>3
<1>5. Sequence(body) \in Seq(ItemType) /\ Len(Sequence(body)) = Len(body)
  BY <1>1, <1>4, SeqDef, LenProperties
<1> QED BY <1>1, <1>2, <1>5

-----------------------------------------------------------------------------
(* A handler goes on: its item is replaced by others, statements and       *)
(* perhaps, behind them, an item x that waits, with what the top owes or   *)
(* new numbers; the rest of what the top owes is placed.                   *)
New(n) == counter <= n /\ n < counter'
IsLast(front, x) == Len(front) > 0 /\ front[Len(front)] = x
Fronts(front, x) ==
  /\ front \in Seq(ItemType)
  /\ \A i \in 1..Len(front) : (i = Len(front) /\ front[i] = x) \/ \E s \in Statement : front[i] = Do(s)
Replaces(front, x, placed) ==
  /\ todo # << >> /\ (Top.at = "epilogue" => Epilogue(program[current].name) \in placed)
  /\ Fronts(front, x) /\ todo' = front \o Below
  /\ counter' \in Nat /\ counter <= counter'
  /\ ItemRight(x)
  /\ \A n \in Nat : Owes(x, n) => Owes(Top, n) \/ New(n)
  /\ \A n \in Nat : Owes(x, n) => Local(n) \notin placed
  /\ \A n \in Nat : Owes(Top, n) => Local(n) \in placed \/ (Owes(x, n) /\ IsLast(front, x))
  /\ \A n \in Nat : Local(n) \in placed => Owes(Top, n) \/ New(n)

(* What becomes of the stack, element by element.                          *)
Shifted(front, x) ==
  /\ Len(front) \in Nat /\ Len(todo) \in Nat \ {0}
  /\ todo' \in Seq(ItemType)
  /\ DOMAIN todo = 1..Len(todo) /\ DOMAIN todo' = 1..(Len(front) + Len(todo) - 1)
  /\ \A i \in 1..Len(front) :
       (i = Len(front) /\ todo'[i] = x) \/ \E s \in Statement : todo'[i] = Do(s)
  /\ IsLast(front, x) => todo'[Len(front)] = x
  /\ \A j \in 2..Len(todo) : todo'[Len(front) + j - 1] = todo[j]
  /\ \A i \in (Len(front) + 1)..(Len(front) + Len(todo) - 1) : todo'[i] = todo[i - Len(front) + 1]

LEMMA StackShifts ==
  ASSUME Typed, NEW front, NEW x, NEW placed, Replaces(front, x, placed)
  PROVE  Shifted(front, x)
<1>1. todo \in Seq(ItemType) /\ todo # << >> /\ front \in Seq(ItemType) /\ todo' = front \o Tail(todo)
  BY DEF Typed, Replaces, Fronts, Below
<1>2. /\ todo' \in Seq(ItemType) /\ Len(front) \in Nat /\ Len(todo) \in Nat \ {0}
      /\ DOMAIN todo = 1..Len(todo) /\ DOMAIN todo' = 1..(Len(front) + Len(todo) - 1)
      /\ \A i \in 1..Len(front) : todo'[i] = front[i]
      /\ \A j \in 2..Len(todo) : todo'[Len(front) + j - 1] = todo[j]
      /\ \A i \in (Len(front) + 1)..(Len(front) + Len(todo) - 1) : todo'[i] = todo[i - Len(front) + 1]
  BY <1>1, ReplacedTop
<1>3. \A i \in 1..Len(front) : (i = Len(front) /\ todo'[i] = x) \/ \E s \in Statement : todo'[i] = Do(s)
  BY <1>2 DEF Replaces, Fronts
<1>4. IsLast(front, x) => todo'[Len(front)] = x
  BY <1>2 DEF IsLast
<1> QED BY <1>2, <1>3, <1>4 DEF Shifted

(* The top is the first element.                                           *)
LEMMA TopFirst ==
  ASSUME Typed, todo # << >>
  PROVE  /\ Top \in ItemType /\ Len(todo) \in Nat \ {0} /\ DOMAIN todo = 1..Len(todo)
         /\ 1 \in DOMAIN todo /\ Top = todo[1]
         /\ ItemsRight => ItemRight(Top)
<1>1. todo \in Seq(ItemType)
  BY DEF Typed
<1>2. Len(todo) \in Nat \ {0} /\ DOMAIN todo = 1..Len(todo) /\ 1 \in DOMAIN todo
  BY <1>1, EmptySeq, LenProperties
<1>3. Top = todo[1] /\ Top \in ItemType
  BY <1>1, <1>2, HeadTailProperties, ElementOfSeq DEF Top
<1> QED BY <1>2, <1>3 DEF ItemsRight

(* What an item of the new stack owes.                                     *)
LEMMA OwedThen ==
  ASSUME Typed, NEW front, NEW x, NEW placed, Replaces(front, x, placed),
         NEW i \in DOMAIN todo', NEW n \in Nat, Owes(todo'[i], n)
  PROVE  \/ i = Len(front) /\ Owes(x, n)
         \/ /\ i \in (Len(front) + 1)..(Len(front) + Len(todo) - 1)
            /\ i - Len(front) + 1 \in DOMAIN todo /\ Owes(todo[i - Len(front) + 1], n)
<1>1. Shifted(front, x)
  BY StackShifts
<1>2. CASE i \in 1..Len(front)
  <2>1. \A s \in Statement : todo'[i] # Do(s)
    BY DoRight
  <2> QED BY <1>1, <1>2, <2>1 DEF Shifted
<1>3. CASE i \notin 1..Len(front)
  <2>1. i \in (Len(front) + 1)..(Len(front) + Len(todo) - 1)
    BY <1>1, <1>3 DEF Shifted
  <2>2. i - Len(front) + 1 \in DOMAIN todo
    BY <1>1, <2>1 DEF Shifted
  <2> QED BY <1>1, <2>1, <2>2 DEF Shifted
<1> QED BY <1>2, <1>3

LEMMA LocalTarget ==
  /\ \A n \in Nat : Local(n) \in Target /\ Local(n).sort = "label" /\ Local(n).id = n
  /\ \A t \in Target : t.sort = "label" => t.id \in Nat /\ t = Local(t.id)
BY DEF Local, Target

(* Numbers stay apart, labels stay placed, and what is ahead stays ahead.  *)
LEMMA StackStays ==
  ASSUME Typed, ItemsRight, Issued,
         NEW front, NEW x, NEW placed, NEW to,
         Replaces(front, x, placed), Writes(out, out', placed, to)
  PROVE  ItemsRight' /\ Issued'
<1> DEFINE k == Len(front)
<1>1. Shifted(front, x)
  BY StackShifts
<1>2. Top = todo[1] /\ 1 \in DOMAIN todo
  BY TopFirst DEF Replaces
<1>3. counter \in Nat /\ counter' \in Nat /\ counter <= counter'
  BY DEF Typed, Replaces
<1>4. \A n \in Nat : Owes(Top, n) => n < counter /\ ~Placed(n)
  BY <1>2 DEF Issued
<1>5. \A n \in Nat : Placed(n)' => Placed(n) \/ Owes(Top, n) \/ New(n)
  BY DEF Writes, Placed, Replaces
<1>6. ItemsRight'
  <2>1. \A i \in 1..k : ItemRight(todo'[i])
    BY <1>1, DoRight DEF Shifted, Replaces
  <2>2. \A i \in (k + 1)..(k + Len(todo) - 1) : ItemRight(todo'[i])
    BY <1>1, SMTT(60) DEF Shifted, ItemsRight
  <2>3. \A i \in DOMAIN todo' : ItemRight(todo'[i])
    BY <1>1, <2>1, <2>2 DEF Shifted
  <2> QED BY <2>3 DEF ItemsRight, ItemRight, Waiting
<1>7. \A n \in Nat : Placed(n)' => n < counter'
  BY <1>3, <1>4, <1>5 DEF Issued, New
<1>8. ASSUME NEW i \in DOMAIN todo', NEW n \in Nat, Owes(todo'[i], n)
      PROVE  n < counter' /\ ~Placed(n)'
  <2>1. CASE i = k /\ Owes(x, n)
    <3>1. Local(n) \notin placed /\ (Owes(Top, n) \/ New(n))
      BY <2>1 DEF Replaces
    <3>2. ~Placed(n)
      BY <1>3, <1>4, <3>1 DEF New, Issued
    <3>3. n < counter'
      BY <1>3, <1>4, <3>1 DEF New
    <3> QED BY <3>1, <3>2, <3>3 DEF Placed, Writes
  <2>2. CASE /\ i \in (k + 1)..(k + Len(todo) - 1)
             /\ i - k + 1 \in DOMAIN todo /\ Owes(todo[i - k + 1], n)
    <3>1. n < counter /\ ~Placed(n)
      BY <2>2 DEF Issued
    <3>2. ~Owes(Top, n)
      <4>1. i - k + 1 # 1
        BY <1>1, <2>2 DEF Shifted
      <4> QED BY <1>2, <2>2, <4>1 DEF Issued
    <3> QED BY <1>3, <1>5, <3>1, <3>2 DEF New
  <2> QED BY <1>8, <2>1, <2>2, OwedThen
<1>9. ASSUME NEW i \in DOMAIN todo', NEW j \in DOMAIN todo', NEW n \in Nat,
             Owes(todo'[i], n), Owes(todo'[j], n)
      PROVE  i = j
  <2> DEFINE Old(m) == /\ m \in (k + 1)..(k + Len(todo) - 1)
                       /\ m - k + 1 \in DOMAIN todo /\ Owes(todo[m - k + 1], n)
             Carried(m) == m = k /\ Owes(x, n)
  <2>1. Carried(i) \/ Old(i)
    BY <1>9, OwedThen
  <2>2. Carried(j) \/ Old(j)
    BY <1>9, OwedThen
  <2>3. CASE Carried(i) /\ Carried(j)
    BY <2>3
  <2>4. CASE Old(i) /\ Old(j)
    <3>1. i - k + 1 = j - k + 1
      BY <2>4 DEF Issued
    <3> QED BY <1>1, <2>4, <3>1 DEF Shifted
  <2>5. ASSUME NEW m \in DOMAIN todo', Owes(x, n), Old(m)
        PROVE  FALSE
    <3>1. n < counter
      BY <2>5 DEF Issued
    <3>2. Owes(Top, n)
      BY <1>3, <2>5, <3>1 DEF Replaces, New
    <3>3. m - k + 1 = 1
      BY <1>2, <2>5, <3>2 DEF Issued
    <3> QED BY <1>1, <2>5, <3>3 DEF Shifted
  <2> QED BY <2>1, <2>2, <2>3, <2>4, <2>5
<1>10. Issued'
  BY <1>7, <1>8, <1>9 DEF Issued, Owes, Waiting
<1> QED BY <1>6, <1>10

LEMMA PlacedStays ==
  ASSUME Typed, Issued, NEW front, NEW x, NEW placed, NEW to,
         Replaces(front, x, placed), Writes(out, out', placed, to),
         NEW t \in DOMAIN out.labels, t.sort = "label"
  PROVE  t \in DOMAIN out'.labels /\ out'.labels[t] = out.labels[t]
<1>1. t \in Target
  BY OutputTyped DEF Typed, Placements
<1>2. t.id \in Nat /\ t = Local(t.id)
  BY <1>1, LocalTarget
<1>3. Placed(t.id)
  BY <1>2 DEF Placed
<1>4. t.id < counter /\ counter \in Nat
  BY <1>2, <1>3 DEF Issued, Typed
<1>5. ~Owes(Top, t.id)
  BY <1>2, <1>3, TopFirst DEF Issued, Replaces
<1>6. t \notin placed
  BY <1>2, <1>4, <1>5 DEF Replaces, New
<1> QED BY <1>6 DEF Writes

LEMMA AheadStays ==
  ASSUME Typed, NEW front, NEW x, NEW placed, NEW to,
         Replaces(front, x, placed), Writes(out, out', placed, to), NEW n \in Nat,
         Ahead(n) \/ Local(n) \in placed \/ (Owes(x, n) /\ IsLast(front, x))
  PROVE  Ahead(n)'
<1>1. Shifted(front, x)
  BY StackShifts
<1>2. Top = todo[1] /\ 1 \in DOMAIN todo
  BY TopFirst DEF Replaces
<1>3. CASE Placed(n) \/ Local(n) \in placed
  BY <1>3 DEF Ahead, Placed, Writes
<1>4. CASE Owes(x, n) /\ IsLast(front, x)
  <2>1. Len(front) \in DOMAIN todo' /\ todo'[Len(front)] = x
    BY <1>1, <1>4 DEF Shifted, IsLast
  <2>2. \E i \in DOMAIN todo' : Owes(todo'[i], n)
    BY <1>4, <2>1
  <2> QED BY <2>2 DEF Ahead, Owes, Waiting
<1>5. ASSUME NEW j \in DOMAIN todo, Owes(todo[j], n)
      PROVE  Ahead(n)'
  <2>1. CASE j = 1
    BY <1>2, <1>3, <1>4, <1>5, <2>1 DEF Replaces
  <2>2. CASE j # 1
    <3>1. Len(front) + j - 1 \in DOMAIN todo' /\ todo'[Len(front) + j - 1] = todo[j]
      BY <1>1, <2>2 DEF Shifted
    <3>2. \E i \in DOMAIN todo' : Owes(todo'[i], n)
      BY <1>5, <3>1
    <3> QED BY <3>2 DEF Ahead, Owes, Waiting
  <2> QED BY <2>1, <2>2
<1> QED BY <1>3, <1>4, <1>5 DEF Ahead

LEMMA EpilogueStays ==
  ASSUME Typed, NEW front, NEW x, NEW placed, NEW to, NEW f,
         Replaces(front, x, placed), Writes(out, out', placed, to),
         program' = program, current' = current, EpilogueAhead(f)
  PROVE  EpilogueAhead(f)'
<1>1. Shifted(front, x)
  BY StackShifts
<1>2. Top = todo[1] /\ (Top.at = "epilogue" => Epilogue(program[current].name) \in placed)
  BY TopFirst DEF Replaces
<1>3. CASE Epilogue(f) \in DOMAIN out.labels
  BY <1>3 DEF EpilogueAhead, Writes
<1>4. ASSUME f = program[current].name, NEW j \in DOMAIN todo, todo[j].at = "epilogue"
      PROVE  EpilogueAhead(f)'
  <2>1. CASE j = 1
    BY <1>2, <1>4, <2>1 DEF EpilogueAhead, Writes
  <2>2. CASE j # 1
    <3>1. Len(front) + j - 1 \in DOMAIN todo' /\ todo'[Len(front) + j - 1] = todo[j]
      BY <1>1, <2>2 DEF Shifted
    <3>2. \E i \in DOMAIN todo' : todo'[i].at = "epilogue"
      BY <1>4, <3>1
    <3> QED BY <1>4, <3>2 DEF EpilogueAhead
  <2> QED BY <2>1, <2>2
<1> QED BY <1>3, <1>4 DEF EpilogueAhead

(* A step keeps the invariant and leaves every placed label where it is.   *)
LabelsKept ==
  \A t \in DOMAIN out.labels : t.sort = "label" =>
    t \in DOMAIN out'.labels /\ out'.labels[t] = out.labels[t]
Kept == Inv' /\ LabelsKept

(* All that a step of a handler has to show for that.                      *)
LEMMA HandlerStays ==
  ASSUME Inv, NEW front, NEW x, NEW placed, NEW to,
         Replaces(front, x, placed), Writes(out, out', placed, to),
         UNCHANGED <<program, current, scan, locals, offsets, patched>>, externals' \in Seq(Name),
         breakLabel' \in Label, continueLabel' \in Label, catchLabel' \in Label,
         \A n \in Nat : n \in {breakLabel', continueLabel', catchLabel'} => Ahead(n)',
         \A n \in Nat : Refers(x, n) => Ahead(n)',
         \A t \in to : Lands(t)'
  PROVE  Kept
<1>1. Typed /\ ItemsRight /\ Issued /\ Landing /\ Begun
  BY DEF Inv
<1>2. ItemsRight' /\ Issued'
  BY <1>1, StackStays
<1>3. Shifted(front, x)
  BY <1>1, StackShifts
<1>4. Typed'
  BY <1>1, <1>3 DEF Typed, Writes, Replaces, Shifted
<1>5. \A n \in Nat : Ahead(n) => Ahead(n)'
  BY <1>1, AheadStays
<1>6. \A f : EpilogueAhead(f) => EpilogueAhead(f)'
  BY <1>1, EpilogueStays
<1>7. \A p \in out'.patches : Lands(p.to)'
  <2>1. ASSUME NEW p \in out.patches
        PROVE  Lands(p.to)'
    <3>1. p.to \in Target
      BY <1>1, OutputTyped DEF Typed, Patch
    <3>2. PICK t \in Target : t = p.to
      BY <3>1
    <3>3. Lands(t)
      BY <1>1, <3>2 DEF Landing
    <3>4. t.sort = "label" => t.id \in Nat
      BY LocalTarget
    <3>5. Lands(t)'
      BY <1>5, <1>6, <3>3, <3>4 DEF Lands
    <3> QED BY <3>2, <3>5
  <2> QED BY <2>1 DEF Writes
<1>8. \A n \in {breakLabel', continueLabel', catchLabel'} : n # NoLabel => Ahead(n)'
  BY DEF Label
<1>9. ASSUME NEW i \in DOMAIN todo', NEW n \in Nat, Refers(todo'[i], n)
      PROVE  Ahead(n)'
  <2>1. CASE i \in 1..Len(front) /\ todo'[i] = x
    BY <1>9, <2>1
  <2>2. ASSUME NEW s \in Statement, todo'[i] = Do(s)
        PROVE  Ahead(n)'
    <3>1. n \in {breakLabel, continueLabel, catchLabel} /\ n # NoLabel
      BY <1>1, <1>9, <2>2, DoRight
    <3> QED BY <1>1, <1>5, <3>1 DEF Landing
  <2>3. CASE i \notin 1..Len(front)
    <3>1. i - Len(front) + 1 \in DOMAIN todo /\ todo'[i] = todo[i - Len(front) + 1]
      BY <1>3, <2>3 DEF Shifted
    <3> QED BY <1>1, <1>5, <1>9, <3>1 DEF Landing
  <2> QED BY <1>3, <2>1, <2>2, <2>3 DEF Shifted
<1>10. Landing'
  BY <1>7, <1>8, <1>9 DEF Landing, Refers
<1>11. Begun'
  BY <1>1, <1>6 DEF Begun, Replaces
<1>12. LabelsKept
  BY <1>1, PlacedStays DEF LabelsKept
<1> QED BY <1>2, <1>4, <1>10, <1>11, <1>12 DEF Inv, Kept

-----------------------------------------------------------------------------
(* The three forms of what comes instead of the top.                       *)
LEMMA FrontOfStatements ==
  ASSUME Typed, NEW x, NEW body \in Seq(Statement)
  PROVE  Fronts(Sequence(body), x)
BY SequenceRight DEF Fronts

LEMMA FrontOfTwo ==
  ASSUME Typed, NEW x \in ItemType, NEW s \in Statement
  PROVE  Fronts(<<Do(s), x>>, x) /\ IsLast(<<Do(s), x>>, x)
<1> DEFINE d == Do(s)
           front == <<d, x>>
<1>1. d \in ItemType
  BY DoRight
<1> HIDE DEF d
<1>2. front \in Seq(ItemType) /\ Len(front) = 2 /\ front[1] = d /\ front[2] = x
  BY <1>1
<1> QED BY <1>2 DEF Fronts, IsLast, d

LEMMA FrontOfInit ==
  ASSUME Typed, NEW x \in ItemType, NEW body \in Seq(Statement)
  PROVE  LET front == Sequence(body) \o <<x>> IN Fronts(front, x) /\ IsLast(front, x)
<1> DEFINE b == Sequence(body)
           l == <<x>>
           front == b \o l
<1>1. b \in Seq(ItemType) /\ Len(b) = Len(body) /\ \A i \in 1..Len(body) : \E s \in Statement : b[i] = Do(s)
  BY SequenceRight
<1>2. l \in Seq(ItemType) /\ Len(l) = 1 /\ l[1] = x
  OBVIOUS
<1> HIDE DEF b, l
<1>3. /\ front \in Seq(ItemType) /\ Len(front) = Len(b) + Len(l)
      /\ \A i \in 1..(Len(b) + Len(l)) : front[i] = IF i <= Len(b) THEN b[i] ELSE l[i - Len(b)]
  BY <1>1, <1>2, ConcatProperties
<1>4. Len(b) \in Nat
  BY <1>1, LenProperties
<1> HIDE DEF front
<1>5. front[Len(front)] = x /\ Len(front) > 0
  BY <1>2, <1>3, <1>4
<1>6. \A i \in 1..Len(front) : i # Len(front) => front[i] = b[i] /\ i \in 1..Len(body)
  BY <1>1, <1>2, <1>3, <1>4
<1> QED BY <1>1, <1>3, <1>5, <1>6 DEF Fronts, IsLast, front, b, l

(* Items for the rest of a handler.                                        *)
LEMMA ItemTyped ==
  ASSUME Typed, NEW at \in Points, NEW node \in Statement,
         NEW head \in Label, NEW step \in Label, NEW end \in Label
  PROVE  LET x == Item(at, node, head, step, end)
         IN  /\ x \in ItemType /\ x.at = at /\ x.node = node
             /\ x.head = head /\ x.step = step /\ x.end = end /\ x.clause = 0
             /\ \A n \in Nat : Refers(x, n) => \/ n = head /\ at \in {"while", "dowhile", "step"}
                                              \/ n \in {breakLabel, continueLabel, catchLabel}
<1> DEFINE x == Item(at, node, head, step, end)
<1>1. /\ x \in ItemType /\ x.at = at /\ x.node = node
      /\ x.head = head /\ x.step = step /\ x.end = end /\ x.clause = 0
      /\ x.savedBreak = breakLabel /\ x.savedContinue = continueLabel /\ x.savedCatch = catchLabel
  BY DEF Item, ItemType, Typed
<1> HIDE DEF x
<1>2. \A n \in Nat : Refers(x, n) => \/ n = head /\ at \in {"while", "dowhile", "step"}
                                   \/ n \in {breakLabel, continueLabel, catchLabel}
  BY <1>1 DEF Refers
<1> QED BY <1>1, <1>2 DEF x

LEMMA ItemResumed ==
  ASSUME NEW y \in ItemType, NEW at \in Points
  PROVE  LET x == [y EXCEPT !.at = at]
         IN  /\ x \in ItemType /\ x.at = at /\ x.node = y.node
             /\ x.head = y.head /\ x.step = y.step /\ x.end = y.end /\ x.clause = y.clause
             /\ \A n \in Nat : Refers(x, n) => (n = y.head /\ at \in {"while", "dowhile", "step"}) \/ Refers(y, n)
<1> DEFINE x == [y EXCEPT !.at = at]
<1>1. /\ x \in ItemType /\ x.at = at /\ x.node = y.node
      /\ x.head = y.head /\ x.step = y.step /\ x.end = y.end /\ x.clause = y.clause
      /\ x.savedBreak = y.savedBreak /\ x.savedContinue = y.savedContinue /\ x.savedCatch = y.savedCatch
  BY DEF ItemType
<1> HIDE DEF x
<1>2. \A n \in Nat : Refers(x, n) => (n = y.head /\ at \in {"while", "dowhile", "step"}) \/ Refers(y, n)
  BY <1>1 DEF Refers
<1> QED BY <1>1, <1>2 DEF x

(* The item that resumes at the next catch clause.                         *)
LEMMA NextClause ==
  ASSUME NEW y \in ItemType
  PROVE  LET x == [y EXCEPT !.clause = @ + 1]
         IN  /\ x \in ItemType /\ x.at = y.at /\ x.node = y.node
             /\ x.head = y.head /\ x.step = y.step /\ x.end = y.end /\ x.clause = y.clause + 1
             /\ y.clause \in Nat
             /\ \A n \in Nat : Refers(x, n) => Refers(y, n)
<1> DEFINE x == [y EXCEPT !.clause = @ + 1]
<1>1. /\ x \in ItemType /\ x.at = y.at /\ x.node = y.node
      /\ x.head = y.head /\ x.step = y.step /\ x.end = y.end /\ x.clause = y.clause + 1 /\ y.clause \in Nat
      /\ x.savedBreak = y.savedBreak /\ x.savedContinue = y.savedContinue /\ x.savedCatch = y.savedCatch
  BY DEF ItemType
<1> HIDE DEF x
<1>2. \A n \in Nat : Refers(x, n) => Refers(y, n)
  BY <1>1 DEF Refers
<1> QED BY <1>1, <1>2 DEF x

-----------------------------------------------------------------------------
(* What the parser has put into the node at hand.                          *)
LEMMA NodeParts ==
  ASSUME Typed, todo # << >>
  PROVE  /\ Node \in Statement
         /\ Node.kind = "block" => Node.body \in Seq(Statement)
         /\ Node.kind \in {"act", "declare", "if", "while", "dowhile"} => Node.id \in Int
         /\ Node.kind \in {"declare", "call"} => Node.name \in Name
         /\ Node.kind = "if" => Node.then \in Statement /\ Node.otherwise \in Seq(Statement)
         /\ Node.kind \in {"while", "dowhile", "for", "try"} => Node.body \in Statement
         /\ Node.kind = "for" => /\ Node.init \in Seq(Statement)
                                 /\ Node.test \in Seq(Int) /\ Node.step \in Seq(Int)
         /\ Node.kind = "try" => Node.clauses \in Seq(Statement)
<1>1. Node \in Statement
  BY TopFirst DEF Node, ItemType
<1>2. IsStatement(Node, Statement)
  BY <1>1, StatementAssumption DEF AreStatements
<1> QED BY <1>1, <1>2 DEF IsStatement

LEMMA FirstOf ==
  ASSUME NEW T, NEW s \in Seq(T), s # << >>
  PROVE  s[1] \in T
BY EmptySeq, LenProperties, ElementOfSeq

LEMMA NothingInstead ==
  ASSUME Typed
  PROVE  << >> \in Seq(Statement) /\ (Below = Sequence(<< >>) \o Below \/ todo = << >>)
<1>1. Sequence(<< >>) = << >>
  <2>1. Sequence(<< >>) \in Seq(ItemType) /\ Len(Sequence(<< >>)) = Len(<< >>)
    BY EmptySeq, SequenceRight
  <2> QED BY <2>1, EmptySeq
<1>2. todo # << >> => Below \in Seq(ItemType)
  BY HeadTailProperties DEF Typed, Below
<1> QED BY <1>1, <1>2, ConcatEmptySeq, EmptySeq

(* A target that was ahead is so still; one that was placed is.            *)
LEMMA LandsStays ==
  ASSUME Typed, NEW front, NEW x, NEW placed, NEW to,
         Replaces(front, x, placed), Writes(out, out', placed, to),
         UNCHANGED <<program, current, offsets>>, NEW t \in Target,
         Lands(t) \/ (t.sort = "label" /\ t \in placed)
  PROVE  Lands(t)'
<1>1. CASE t.sort = "label"
  <2>1. t.id \in Nat /\ t = Local(t.id)
    BY <1>1, LocalTarget
  <2>2. Ahead(t.id) \/ Local(t.id) \in placed
    BY <1>1, <2>1 DEF Lands
  <2>3. Ahead(t.id)'
    BY <2>1, <2>2, AheadStays
  <2> QED BY <1>1, <2>3 DEF Lands
<1>2. CASE t.sort # "label"
  <2>1. Lands(t)
    BY <1>2
  <2>2. t.sort = "epilogue" => EpilogueAhead(t.id)'
    BY <2>1, EpilogueStays DEF Lands
  <2> QED BY <1>2, <2>1, <2>2 DEF Lands
<1> QED BY <1>1, <1>2

(* A statement is done: it may leave others to do, and place new labels.   *)
LEMMA StatementStays ==
  ASSUME Inv, At("statement"), NEW body \in Seq(Statement), todo' = Sequence(body) \o Below,
         NEW placed, NEW to, Writes(out, out', placed, to),
         counter' \in Nat, counter <= counter', \A n \in Nat : Local(n) \in placed => New(n),
         UNCHANGED <<program, current, scan, targets, locals, offsets, patched>>,
         externals' \in Seq(Name),
         \A t \in to : t \in Target /\ (Lands(t) \/ (t.sort = "label" /\ t \in placed))
  PROVE  Kept
<1>1. Typed /\ ItemsRight /\ Issued /\ Landing /\ Begun /\ todo # << >> /\ Top.at = "statement"
  BY DEF Inv, At
<1>2. Top \in ItemType /\ ItemRight(Top) /\ \A n \in Nat : ~Owes(Top, n)
  BY <1>1, TopFirst DEF Owes, Waiting
<1>3. Fronts(Sequence(body), Top)
  BY <1>1, FrontOfStatements
<1>4. Replaces(Sequence(body), Top, placed)
  BY <1>1, <1>2, <1>3 DEF Replaces
<1>5. \A n \in Nat : Ahead(n) => Ahead(n)'
  BY <1>1, <1>4, AheadStays
<1>6. \A t \in to : Lands(t)'
  BY <1>1, <1>4, LandsStays
<1>7. \A n \in Nat : Refers(Top, n) => Ahead(n)'
  BY <1>1, <1>5, TopFirst DEF Landing
<1>8. /\ breakLabel' = breakLabel /\ continueLabel' = continueLabel /\ catchLabel' = catchLabel
      /\ breakLabel \in Label /\ continueLabel \in Label /\ catchLabel \in Label
  BY <1>1 DEF targets, Typed
<1>9. \A n \in Nat : n \in {breakLabel', continueLabel', catchLabel'} => Ahead(n)'
  BY <1>1, <1>5, <1>8 DEF Landing, NoLabel
<1> QED BY <1>4, <1>6, <1>7, <1>8, <1>9, HandlerStays

(* Statements without a label of their own.                                *)
LEMMA ForceLands ==
  ASSUME Inv, NEW n \in {breakLabel, continueLabel, catchLabel}, n # NoLabel
  PROVE  Local(n) \in Target /\ Lands(Local(n)) /\ Local(n).sort = "label"
<1>1. n \in Nat /\ Ahead(n)
  BY DEF Inv, Typed, Landing, Label
<1> QED BY <1>1, LocalTarget DEF Lands

LEMMA LeafStays ==
  ASSUME Inv, At("statement"), Generated, NEW to, Writes(out, out', {}, to),
         counter' = counter, externals' \in Seq(Name), \A t \in to : t \in Target /\ Lands(t)
  PROVE  Kept
<1>1. Typed /\ todo # << >> /\ todo' = Below /\ counter \in Nat
  BY DEF Inv, At, Generated, Typed
<1>2. << >> \in Seq(Statement) /\ todo' = Sequence(<< >>) \o Below
  BY <1>1, NothingInstead, EmptySeq
<1>3. UNCHANGED <<program, current, scan, targets, locals, offsets, patched>>
  BY DEF Generated
<1>4. counter' \in Nat /\ counter <= counter'
  BY <1>1
<1>5. PICK placed : placed = {}
  OBVIOUS
<1>6. Writes(out, out', placed, to) /\ \A n \in Nat : Local(n) \in placed => New(n)
  BY <1>5
<1>7. \A t \in to : t \in Target /\ (Lands(t) \/ (t.sort = "label" /\ t \in placed))
  OBVIOUS
<1> QED BY <1>2, <1>3, <1>4, <1>6, <1>7, StatementStays

LEMMA ExternalsTyped ==
  ASSUME Inv, NEW f \in Name
  PROVE  externals \in Seq(Name) /\ Append(externals, f) \in Seq(Name)
BY AppendProperties DEF Inv, Typed

LEMMA SimpleStays ==
  ASSUME Inv, GenerateExpression \/ GenerateDeclaration \/ GenerateCall \/ GenerateReturn
              \/ GenerateBreak \/ GenerateContinue \/ GenerateNothing
  PROVE  Kept
<1>1. Typed /\ out \in Output /\ externals \in Seq(Name) /\ counter \in Nat
  BY DEF Inv, Typed
<1>3. CASE GenerateExpression \/ (GenerateDeclaration /\ Node.name \in locals)
  <2>1. Generated /\ At("statement") /\ counter' = counter /\ externals' = externals
        /\ out' = Emit(out, "act", Node.id) /\ Node.kind \in {"act", "declare"}
    BY <1>3 DEF GenerateExpression, GenerateDeclaration, AtStatement
  <2>2. [op |-> "act", arg |-> Node.id] \in Instruction
    BY <1>1, <2>1, NodeParts DEF At, Instruction
  <2>3. Writes(out, out', {}, {})
    BY <1>1, <2>1, <2>2, EmitWrites
  <2> QED BY <1>1, <2>1, <2>3, LeafStays
<1>4. CASE GenerateNothing \/ (GenerateDeclaration /\ Node.name \notin locals)
           \/ (GenerateBreak /\ breakLabel = NoLabel) \/ (GenerateContinue /\ continueLabel = NoLabel)
  <2>1. Generated /\ At("statement") /\ counter' = counter /\ externals' = externals /\ out' = out
    BY <1>4 DEF GenerateNothing, GenerateDeclaration, GenerateBreak, GenerateContinue, AtStatement
  <2>2. Writes(out, out', {}, {})
    BY <1>1, <2>1, WritesNothing
  <2> QED BY <1>1, <2>1, <2>2, LeafStays
<1>5. CASE GenerateCall
  <2>1. Generated /\ At("statement") /\ counter' = counter /\ Node.kind = "call"
    BY <1>5 DEF GenerateCall, AtStatement
  <2>2. Node.name \in Name
    BY <1>1, <2>1, NodeParts DEF At
  <2>3. PICK t \in Target : /\ t.sort \in {"function", "extern"} /\ out' = Branch(out, "call", t)
                            /\ t.sort = "function" => t.id \in DOMAIN offsets
    <3>1. CASE Node.name \in DOMAIN offsets
      <4>1. out' = Branch(out, "call", Function(Node.name))
        BY <1>5, <3>1 DEF GenerateCall
      <4>2. Function(Node.name) \in Target /\ Function(Node.name).sort = "function"
            /\ Function(Node.name).id = Node.name
        BY <2>2 DEF Function, Target
      <4> QED BY <3>1, <4>1, <4>2
    <3>2. CASE Node.name \notin DOMAIN offsets
      <4>1. out' = Branch(out, "call", Extern(Node.name))
        BY <1>5, <3>2 DEF GenerateCall
      <4>2. Extern(Node.name) \in Target /\ Extern(Node.name).sort = "extern"
        BY <2>2 DEF Extern, Target
      <4> QED BY <4>1, <4>2
    <3> QED BY <3>1, <3>2
  <2>4. Writes(out, out', {}, {t})
    BY <1>1, <2>3, BranchWrites
  <2>5. externals' \in Seq(Name)
    BY <1>5, <2>2, ExternalsTyped DEF GenerateCall
  <2>6. Lands(t)
    BY <2>3 DEF Lands
  <2> QED BY <2>1, <2>4, <2>5, <2>6, LeafStays
<1>6. CASE GenerateReturn
  <2>1. Generated /\ At("statement") /\ counter' = counter /\ externals' = externals
        /\ out' = Branch(out, "always", Epilogue(program[current].name))
    BY <1>6 DEF GenerateReturn, AtStatement
  <2> DEFINE t == Epilogue(program[current].name)
  <2>2. current \in 1..Len(program) /\ EpilogueAhead(program[current].name)
    BY <2>1 DEF Inv, Begun, Typed, At
  <2>3. program[current].name \in Name
    <3>1. program[current] \in FunctionType
      BY <1>1, <2>2, ElementOfSeq DEF Typed, IsProgram
    <3> QED BY <3>1 DEF FunctionType
  <2>4. t \in Target /\ Lands(t)
    BY <2>2, <2>3 DEF Epilogue, Target, Lands
  <2> HIDE DEF t
  <2>5. Writes(out, out', {}, {t})
    BY <1>1, <2>1, <2>4, BranchWrites DEF t
  <2> QED BY <1>1, <2>1, <2>4, <2>5, LeafStays
<1>7. CASE GenerateBreak /\ breakLabel # NoLabel
  <2>1. Generated /\ At("statement") /\ counter' = counter /\ externals' = externals
        /\ out' = Branch(out, "always", Local(breakLabel))
    BY <1>7 DEF GenerateBreak, AtStatement
  <2>2. Local(breakLabel) \in Target /\ Lands(Local(breakLabel))
    BY <1>7, ForceLands
  <2>3. Writes(out, out', {}, {Local(breakLabel)})
    BY <1>1, <2>1, <2>2, BranchWrites
  <2> QED BY <1>1, <2>1, <2>2, <2>3, LeafStays
<1>8. CASE GenerateContinue /\ continueLabel # NoLabel
  <2>1. Generated /\ At("statement") /\ counter' = counter /\ externals' = externals
        /\ out' = Branch(out, "always", Local(continueLabel))
    BY <1>8 DEF GenerateContinue, AtStatement
  <2>2. Local(continueLabel) \in Target /\ Lands(Local(continueLabel))
    BY <1>8, ForceLands
  <2>3. Writes(out, out', {}, {Local(continueLabel)})
    BY <1>1, <2>1, <2>2, BranchWrites
  <2> QED BY <1>1, <2>1, <2>2, <2>3, LeafStays
<1> QED BY <1>3, <1>4, <1>5, <1>6, <1>7, <1>8

(* A throw without a handler around it branches to itself.                 *)
LEMMA ThrowStays ==
  ASSUME Inv, GenerateThrow
  PROVE  Kept
<1>1. Typed /\ out \in Output /\ externals \in Seq(Name) /\ todo # << >> /\ At("statement")
  BY DEF Inv, Typed, GenerateThrow, AtStatement, At
<1>2. Generated /\ externals' = externals
  BY DEF GenerateThrow
<1>3. CASE catchLabel # NoLabel
  <2>1. counter' = counter /\ out' = Branch(out, "always", Local(catchLabel))
    BY <1>3 DEF GenerateThrow
  <2>2. Local(catchLabel) \in Target /\ Lands(Local(catchLabel))
    BY <1>3, ForceLands
  <2>3. Writes(out, out', {}, {Local(catchLabel)})
    BY <1>1, <2>1, <2>2, BranchWrites
  <2> QED BY <1>1, <1>2, <2>1, <2>2, <2>3, LeafStays
<1>4. CASE catchLabel = NoLabel
  <2>1. PICK c \in Nat : c = counter
    BY <1>1 DEF Typed
  <2>2. counter' = c + 1 /\ out' = Branch(Bind(out, Local(c)), "always", Local(c))
    BY <1>4, <2>1 DEF GenerateThrow
  <2>3. Local(c) \in Target /\ Local(c).sort = "label" /\ \A n \in Nat : Local(n) = Local(c) => n = c
    BY LocalTarget
  <2> DEFINE q == Bind(out, Local(c))
  <2>4. Writes(out, q, {Local(c)}, {})
    BY <1>1, <2>3, BindWrites
  <2>5. Writes(q, out', {}, {Local(c)})
    BY <2>2, <2>3, <2>4, BranchWrites DEF Writes
  <2> HIDE DEF q
  <2>6. Writes(out, out', {Local(c)} \cup {}, {} \cup {Local(c)})
    BY <2>4, <2>5, WritesThen
  <2>7. Writes(out, out', {Local(c)}, {Local(c)})
    BY <2>6
  <2>8. << >> \in Seq(Statement) /\ todo' = Sequence(<< >>) \o Below
    BY <1>1, <1>2, NothingInstead DEF Generated
  <2>9. \A n \in Nat : Local(n) \in {Local(c)} => New(n)
    BY <2>1, <2>2, <2>3 DEF New
  <2>10. UNCHANGED <<program, current, scan, targets, locals, offsets, patched>>
    BY <1>2 DEF Generated
  <2>11. PICK P : P = {Local(c)}
    OBVIOUS
  <2>12. Writes(out, out', P, P) /\ \A n \in Nat : Local(n) \in P => New(n)
    BY <2>7, <2>9, <2>11
  <2>13. \A t \in P : t \in Target /\ (Lands(t) \/ (t.sort = "label" /\ t \in P))
    BY <2>3, <2>11
  <2>14. counter' \in Nat /\ counter <= counter'
    BY <2>1, <2>2
  <2> QED BY <1>1, <1>2, <2>8, <2>10, <2>12, <2>13, <2>14, StatementStays
<1> QED BY <1>3, <1>4

LEMMA BlockStays ==
  ASSUME Inv, GenerateBlock
  PROVE  Kept
<1>1. Typed /\ out \in Output /\ externals \in Seq(Name) /\ todo # << >> /\ At("statement")
      /\ Node.kind = "block" /\ counter \in Nat
  BY DEF Inv, Typed, GenerateBlock, AtStatement, At
<1>2. PICK body \in Seq(Statement) : body = Node.body
  BY <1>1, NodeParts
<1>3. todo' = Sequence(body) \o Below /\ counter' = counter /\ externals' = externals /\ out' = out
      /\ UNCHANGED <<program, current, scan, targets, locals, offsets, patched>>
  BY <1>2 DEF GenerateBlock, symbols
<1>4. PICK none : none = {}
  OBVIOUS
<1>5. Writes(out, out', none, none)
  BY <1>1, <1>3, <1>4, WritesNothing
<1>6. (\A n \in Nat : Local(n) \in none => New(n)) /\ \A t : t \notin none
  BY <1>4
<1> QED BY <1>1, <1>3, <1>5, <1>6, StatementStays

-----------------------------------------------------------------------------
(* One more thing is written.                                              *)
LEMMA ThenEmit ==
  ASSUME NEW o, NEW q, NEW P, NEW S, Writes(o, q, P, S),
         NEW op \in {"act", "test"}, NEW arg \in Int
  PROVE  Writes(o, Emit(q, op, arg), P, S)
<1>1. q \in Output
  BY DEF Writes
<1>2. [op |-> op, arg |-> arg] \in Instruction
  BY DEF Instruction
<1>3. Writes(q, Emit(q, op, arg), {}, {})
  BY <1>1, <1>2, EmitWrites
<1>4. Writes(o, Emit(q, op, arg), P \cup {}, S \cup {})
  BY <1>3, WritesThen
<1>5. P \cup {} = P /\ S \cup {} = S
  OBVIOUS
<1> QED BY <1>4, <1>5

LEMMA ThenBranch ==
  ASSUME NEW o, NEW q, NEW P, NEW S, Writes(o, q, P, S),
         NEW when \in {"always", "equal", "notequal", "call"}, NEW n \in Nat
  PROVE  Writes(o, Branch(q, when, Local(n)), P, S \cup {Local(n)})
<1>1. q \in Output
  BY DEF Writes
<1>2. Writes(q, Branch(q, when, Local(n)), {}, {Local(n)})
  BY <1>1, BranchWrites, LocalTarget
<1>3. Writes(o, Branch(q, when, Local(n)), P \cup {}, S \cup {Local(n)})
  BY <1>2, WritesThen
<1>4. P \cup {} = P
  OBVIOUS
<1> QED BY <1>3, <1>4

LEMMA ThenBind ==
  ASSUME NEW o, NEW q, NEW P, NEW S, Writes(o, q, P, S), NEW n \in Nat
  PROVE  Writes(o, Bind(q, Local(n)), P \cup {Local(n)}, S)
<1>1. q \in Output
  BY DEF Writes
<1>2. Writes(q, Bind(q, Local(n)), {Local(n)}, {})
  BY <1>1, BindWrites, LocalTarget
<1>3. Writes(o, Bind(q, Local(n)), P \cup {Local(n)}, S \cup {})
  BY <1>2, WritesThen
<1>4. S \cup {} = S
  OBVIOUS
<1> QED BY <1>3, <1>4

-----------------------------------------------------------------------------
(* Handlers that wait for a nested one.  A number is known when its label  *)
(* is ahead, is placed by the step or is owed by the new item.             *)
Known(front, x, placed, n) ==
  Ahead(n) \/ Local(n) \in placed \/ (Owes(x, n) /\ IsLast(front, x))

LEMMA HandlerMoves ==
  ASSUME Inv, NEW front, NEW x, NEW placed, NEW to,
         Replaces(front, x, placed), Writes(out, out', placed, to),
         UNCHANGED <<program, current, scan, locals, symbols, patched>>,
         breakLabel' \in Label, continueLabel' \in Label, catchLabel' \in Label,
         \A n \in Nat : n \in {breakLabel', continueLabel', catchLabel'} => Known(front, x, placed, n),
         \A n \in Nat : Refers(x, n) => Known(front, x, placed, n),
         \A t \in to : \E n \in Nat : t = Local(n) /\ Known(front, x, placed, n)
  PROVE  Kept
<1>1. Typed /\ externals' \in Seq(Name) /\ UNCHANGED <<program, current, scan, locals, offsets, patched>>
  BY DEF Inv, Typed, symbols
<1>2. \A n \in Nat : Known(front, x, placed, n) => Ahead(n)'
  BY <1>1, AheadStays DEF Known
<1>3. ASSUME NEW t \in to
      PROVE  Lands(t)'
  <2>1. PICK n \in Nat : t = Local(n) /\ Known(front, x, placed, n)
    OBVIOUS
  <2>2. Ahead(n)' /\ t.sort = "label" /\ t.id = n
    BY <1>2, <2>1, LocalTarget
  <2> QED BY <2>2 DEF Lands
<1>4. \A n \in Nat : n \in {breakLabel', continueLabel', catchLabel'} => Ahead(n)'
  BY <1>2
<1>5. \A n \in Nat : Refers(x, n) => Ahead(n)'
  BY <1>2
<1> QED BY <1>1, <1>3, <1>4, <1>5, HandlerStays

LEMMA AheadNow ==
  ASSUME Inv
  PROVE  /\ \A n \in Nat : n \in {breakLabel, continueLabel, catchLabel} => Ahead(n)
         /\ todo # << >> => \A n \in Nat : Owes(Top, n) \/ Refers(Top, n) => Ahead(n)
<1>1. Typed /\ Landing
  BY DEF Inv
<1>2. \A n \in Nat : n \in {breakLabel, continueLabel, catchLabel} => Ahead(n)
  BY <1>1 DEF Landing, NoLabel
<1>3. ASSUME todo # << >>, NEW n \in Nat, Owes(Top, n) \/ Refers(Top, n)
      PROVE  Ahead(n)
  <2>1. 1 \in DOMAIN todo /\ Top = todo[1]
    BY <1>1, <1>3, TopFirst
  <2> QED BY <1>1, <1>3, <2>1 DEF Landing, Ahead
<1> QED BY <1>2, <1>3

(* What holds where a handler of a statement begins.                       *)
LEMMA AtBegin ==
  ASSUME Inv, At("statement")
  PROVE  /\ Typed /\ todo # << >> /\ Top.at = "statement" /\ out \in Output /\ Node \in Statement
         /\ counter \in Nat /\ breakLabel \in Label /\ continueLabel \in Label /\ catchLabel \in Label
         /\ \A n \in Nat : ~Owes(Top, n)
BY NodeParts DEF Inv, Typed, At, Owes, Waiting

LEMMA IfStays ==
  ASSUME Inv, GenerateIf
  PROVE  Kept
<1>1. At("statement") /\ Node.kind = "if"
  BY DEF GenerateIf, AtStatement, At
<1>2. Typed /\ todo # << >> /\ Top.at = "statement" /\ out \in Output /\ \A n \in Nat : ~Owes(Top, n)
  BY <1>1, AtBegin
<1>3. PICK c \in Nat : c = counter
  BY <1>1, AtBegin
<1>4. PICK s \in Statement, node \in Statement, test \in Int :
        s = Node.then /\ node = Node /\ test = Node.id
  BY <1>1, <1>2, NodeParts
<1>5. PICK at \in {"endif", "else"} :
        at = IF Node.otherwise = << >> THEN "endif" ELSE "else"
  OBVIOUS
<1>6. PICK k \in Nat : k = IF at = "endif" THEN c + 1 ELSE c
  OBVIOUS
<1> DEFINE y == Item(at, node, c, NoLabel, c + 1)
           d == Do(s)
<1>7. PICK x \in ItemType : /\ x = y /\ x.at = at /\ x.node = node /\ x.head = c /\ x.end = c + 1
                            /\ \A n \in Nat : Refers(x, n) => n \in {breakLabel, continueLabel, catchLabel}
  <2>1. at \in Points /\ c \in Label /\ c + 1 \in Label /\ NoLabel \in Label
    BY DEF Points, Label
  <2> QED BY <1>2, <2>1, ItemTyped
<1>8. /\ todo' = <<d, x>> \o Below
      /\ out' = Branch(Emit(out, "test", test), "equal", Local(k))
      /\ counter' = c + 2
      /\ UNCHANGED <<program, current, scan, locals, symbols, patched>>
      /\ UNCHANGED <<breakLabel, continueLabel, catchLabel>>
  BY <1>3, <1>4, <1>5, <1>6, <1>7 DEF GenerateIf, Nesting, targets
<1>9. Fronts(<<d, x>>, x) /\ IsLast(<<d, x>>, x)
  BY <1>2, FrontOfTwo
<1>10. ItemRight(x)
  BY <1>1, <1>4, <1>5, <1>7 DEF ItemRight, Waiting
<1>11. /\ \A n \in Nat : Owes(x, n) => n = c \/ n = c + 1
       /\ Owes(x, k)
  BY <1>5, <1>6, <1>7 DEF Owes, Waiting
<1>12. Writes(out, out', {}, {Local(k)})
  <2>1. Writes(out, Emit(out, "test", test), {}, {})
    BY <1>2, WritesNothing, ThenEmit
  <2>2. Writes(out, out', {}, {} \cup {Local(k)})
    BY <1>8, <2>1, ThenBranch
  <2> QED BY <2>2
<1>13. Replaces(<<d, x>>, x, {})
  BY <1>2, <1>3, <1>8, <1>9, <1>10, <1>11 DEF Replaces, New
<1>14. \A n \in Nat : n \in {breakLabel', continueLabel', catchLabel'} \/ Refers(x, n) \/ n = k
         => Known(<<d, x>>, x, {}, n)
  BY <1>7, <1>8, <1>9, <1>11, AheadNow DEF Known
<1>15. breakLabel' \in Label /\ continueLabel' \in Label /\ catchLabel' \in Label
  BY <1>1, <1>8, AtBegin
<1>16. \A t \in {Local(k)} : \E n \in Nat : t = Local(n) /\ Known(<<d, x>>, x, {}, n)
  BY <1>14
<1> HIDE DEF d, y
<1> QED BY <1>8, <1>12, <1>13, <1>14, <1>15, <1>16, HandlerMoves

LEMMA WhileStays ==
  ASSUME Inv, GenerateWhile
  PROVE  Kept
<1>1. At("statement") /\ Node.kind = "while"
  BY DEF GenerateWhile, AtStatement, At
<1>2. Typed /\ todo # << >> /\ Top.at = "statement" /\ out \in Output /\ \A n \in Nat : ~Owes(Top, n)
  BY <1>1, AtBegin
<1>3. PICK c \in Nat : c = counter
  BY <1>1, AtBegin
<1>4. PICK s \in Statement, node \in Statement, test \in Int :
        s = Node.body /\ node = Node /\ test = Node.id
  BY <1>1, <1>2, NodeParts
<1> DEFINE y == Item("while", node, c, NoLabel, c + 1)
           d == Do(s)
<1>5. PICK x \in ItemType :
        /\ x = y /\ x.at = "while" /\ x.head = c /\ x.end = c + 1
        /\ \A n \in Nat : Refers(x, n) => n = c \/ n \in {breakLabel, continueLabel, catchLabel}
  <2>1. "while" \in Points /\ c \in Label /\ c + 1 \in Label /\ NoLabel \in Label
    BY DEF Points, Label
  <2> QED BY <1>2, <2>1, ItemTyped
<1>6. /\ todo' = <<d, x>> \o Below
      /\ out' = Branch(Emit(Bind(out, Local(c)), "test", test), "equal", Local(c + 1))
      /\ counter' = c + 2
      /\ UNCHANGED <<program, current, scan, locals, symbols, patched>>
      /\ breakLabel' = c + 1 /\ continueLabel' = c /\ catchLabel' = catchLabel
  BY <1>3, <1>4, <1>5 DEF GenerateWhile, Nesting
<1>7. Fronts(<<d, x>>, x) /\ IsLast(<<d, x>>, x)
  BY <1>2, FrontOfTwo
<1>8. ItemRight(x)
  BY <1>5 DEF ItemRight, Waiting
<1>9. \A n \in Nat : Owes(x, n) <=> n = c + 1
  BY <1>5 DEF Owes, Waiting
<1>10. \A n \in Nat : Local(n) \in {Local(c)} <=> n = c
  BY LocalTarget
<1>11. Writes(out, out', {Local(c)}, {Local(c + 1)})
  <2>1. Writes(out, Bind(out, Local(c)), {} \cup {Local(c)}, {})
    BY <1>2, WritesNothing, ThenBind
  <2>2. Writes(out, Emit(Bind(out, Local(c)), "test", test), {} \cup {Local(c)}, {})
    BY <2>1, ThenEmit
  <2>3. Writes(out, out', {} \cup {Local(c)}, {} \cup {Local(c + 1)})
    BY <1>6, <2>2, ThenBranch
  <2> QED BY <2>3
<1>12. Replaces(<<d, x>>, x, {Local(c)})
  BY <1>2, <1>3, <1>6, <1>7, <1>8, <1>9, <1>10 DEF Replaces, New
<1>13. \A n \in Nat : \/ n \in {breakLabel', continueLabel', catchLabel'} \/ Refers(x, n) \/ n = c + 1
         => Known(<<d, x>>, x, {Local(c)}, n)
  BY <1>5, <1>6, <1>7, <1>9, <1>10, AheadNow DEF Known
<1>14. breakLabel' \in Label /\ continueLabel' \in Label /\ catchLabel' \in Label
  BY <1>1, <1>6, AtBegin DEF Label
<1>15. \A t \in {Local(c + 1)} : \E n \in Nat : t = Local(n) /\ Known(<<d, x>>, x, {Local(c)}, n)
  BY <1>13
<1>16. PICK F, P, T : F = <<d, x>> /\ P = {Local(c)} /\ T = {Local(c + 1)}
  OBVIOUS
<1>17. /\ Replaces(F, x, P) /\ Writes(out, out', P, T)
       /\ \A n \in Nat : n \in {breakLabel', continueLabel', catchLabel'} \/ Refers(x, n) => Known(F, x, P, n)
       /\ \A t \in T : \E n \in Nat : t = Local(n) /\ Known(F, x, P, n)
  BY <1>11, <1>12, <1>13, <1>15, <1>16
<1> HIDE DEF d, y
<1> QED BY <1>6, <1>14, <1>17, HandlerMoves

LEMMA DoWhileStays ==
  ASSUME Inv, GenerateDoWhile
  PROVE  Kept
<1>1. At("statement") /\ Node.kind = "dowhile"
  BY DEF GenerateDoWhile, AtStatement, At
<1>2. Typed /\ todo # << >> /\ Top.at = "statement" /\ out \in Output /\ \A n \in Nat : ~Owes(Top, n)
  BY <1>1, AtBegin
<1>3. PICK c \in Nat : c = counter
  BY <1>1, AtBegin
<1>4. PICK s \in Statement, node \in Statement : s = Node.body /\ node = Node
  BY <1>1, <1>2, NodeParts
<1> DEFINE y == Item("dowhile", node, c, c + 2, c + 1)
           d == Do(s)
<1>5. PICK x \in ItemType :
        /\ x = y /\ x.at = "dowhile" /\ x.node = node /\ x.head = c /\ x.step = c + 2 /\ x.end = c + 1
        /\ \A n \in Nat : Refers(x, n) => n = c \/ n \in {breakLabel, continueLabel, catchLabel}
  <2>1. "dowhile" \in Points /\ c \in Label /\ c + 1 \in Label /\ c + 2 \in Label
    BY DEF Points, Label
  <2> QED BY <1>2, <2>1, ItemTyped
<1>6. /\ todo' = <<d, x>> \o Below
      /\ out' = Bind(out, Local(c))
      /\ counter' = c + 3
      /\ UNCHANGED <<program, current, scan, locals, symbols, patched>>
      /\ breakLabel' = c + 1 /\ continueLabel' = c + 2 /\ catchLabel' = catchLabel
  BY <1>3, <1>4, <1>5 DEF GenerateDoWhile, Nesting
<1>7. Fronts(<<d, x>>, x) /\ IsLast(<<d, x>>, x)
  BY <1>2, FrontOfTwo
<1>8. ItemRight(x)
  BY <1>1, <1>4, <1>5 DEF ItemRight, Waiting
<1>9. \A n \in Nat : Owes(x, n) <=> n = c + 1 \/ n = c + 2
  BY <1>5 DEF Owes, Waiting
<1>10. \A n \in Nat : Local(n) \in {Local(c)} <=> n = c
  BY LocalTarget
<1>11. Writes(out, out', {Local(c)}, {})
  <2>1. Writes(out, out', {} \cup {Local(c)}, {})
    BY <1>2, <1>6, WritesNothing, ThenBind
  <2> QED BY <2>1
<1>12. Replaces(<<d, x>>, x, {Local(c)})
  BY <1>2, <1>3, <1>6, <1>7, <1>8, <1>9, <1>10 DEF Replaces, New
<1>13. \A n \in Nat : n \in {breakLabel', continueLabel', catchLabel'} \/ Refers(x, n)
         => Known(<<d, x>>, x, {Local(c)}, n)
  BY <1>5, <1>6, <1>7, <1>9, <1>10, AheadNow DEF Known
<1>14. breakLabel' \in Label /\ continueLabel' \in Label /\ catchLabel' \in Label
  BY <1>1, <1>6, AtBegin DEF Label
<1>15. PICK F, P, T : F = <<d, x>> /\ P = {Local(c)} /\ T = {}
  OBVIOUS
<1>16. /\ Replaces(F, x, P) /\ Writes(out, out', P, T)
       /\ \A n \in Nat : n \in {breakLabel', continueLabel', catchLabel'} \/ Refers(x, n) => Known(F, x, P, n)
       /\ \A t \in T : \E n \in Nat : t = Local(n) /\ Known(F, x, P, n)
  BY <1>11, <1>12, <1>13, <1>15
<1> HIDE DEF d, y
<1> QED BY <1>6, <1>14, <1>16, HandlerMoves

LEMMA ForStays ==
  ASSUME Inv, GenerateFor
  PROVE  Kept
<1>1. At("statement") /\ Node.kind = "for"
  BY DEF GenerateFor, AtStatement, At
<1>2. Typed /\ todo # << >> /\ Top.at = "statement" /\ out \in Output /\ \A n \in Nat : ~Owes(Top, n)
  BY <1>1, AtBegin
<1>3. PICK c \in Nat : c = counter
  BY <1>1, AtBegin
<1>4. PICK init \in Seq(Statement), node \in Statement : init = Node.init /\ node = Node
  BY <1>1, <1>2, NodeParts
<1> DEFINE y == Item("for", node, c, c + 2, c + 1)
<1>5. PICK x \in ItemType :
        /\ x = y /\ x.at = "for" /\ x.node = node /\ x.head = c /\ x.step = c + 2 /\ x.end = c + 1
        /\ \A n \in Nat : Refers(x, n) => n \in {breakLabel, continueLabel, catchLabel}
  <2>1. "for" \in Points /\ c \in Label /\ c + 1 \in Label /\ c + 2 \in Label
    BY DEF Points, Label
  <2> QED BY <1>2, <2>1, ItemTyped, SMTT(60)
<1>6. PICK front : front = Sequence(init) \o <<x>>
  OBVIOUS
<1>7. Fronts(front, x) /\ IsLast(front, x)
  BY <1>2, <1>6, FrontOfInit
<1>8. /\ todo' = front \o Below
      /\ out' = out /\ counter' = c + 3
      /\ UNCHANGED <<program, current, scan, locals, symbols, patched>>
      /\ breakLabel' = c + 1 /\ continueLabel' = c + 2 /\ catchLabel' = catchLabel
  <2>1. todo' = Sequence(init) \o <<y>> \o Below
    BY <1>3, <1>4 DEF GenerateFor
  <2>2. todo' = front \o Below
    BY <1>5, <1>6, <2>1
  <2> QED BY <1>3, <2>2 DEF GenerateFor, Nesting
<1>9. ItemRight(x)
  BY <1>1, <1>4, <1>5 DEF ItemRight, Waiting
<1>10. \A n \in Nat : Owes(x, n) <=> n = c \/ n = c + 1 \/ n = c + 2
  BY <1>5 DEF Owes, Waiting
<1>11. Writes(out, out', {}, {})
  BY <1>2, <1>8, WritesNothing
<1>12. Replaces(front, x, {})
  BY <1>2, <1>3, <1>7, <1>8, <1>9, <1>10 DEF Replaces, New
<1>13. \A n \in Nat : n \in {breakLabel', continueLabel', catchLabel'} \/ Refers(x, n)
         => Known(front, x, {}, n)
  BY <1>5, <1>7, <1>8, <1>10, AheadNow DEF Known
<1>14. breakLabel' \in Label /\ continueLabel' \in Label /\ catchLabel' \in Label
  BY <1>1, <1>8, AtBegin DEF Label
<1> HIDE DEF y
<1> QED BY <1>8, <1>11, <1>12, <1>13, <1>14, HandlerMoves

LEMMA TryStays ==
  ASSUME Inv, GenerateTry
  PROVE  Kept
<1>1. At("statement") /\ Node.kind = "try"
  BY DEF GenerateTry, AtStatement, At
<1>2. Typed /\ todo # << >> /\ Top.at = "statement" /\ out \in Output /\ \A n \in Nat : ~Owes(Top, n)
  BY <1>1, AtBegin
<1>3. PICK c \in Nat : c = counter
  BY <1>1, AtBegin
<1>4. PICK s \in Statement, node \in Statement : s = Node.body /\ node = Node
  BY <1>1, <1>2, NodeParts
<1>5. Len(node.clauses) \in Nat
  BY <1>1, <1>2, <1>4, NodeParts, LenProperties
<1> DEFINE y == Item("catch", node, c, NoLabel, c + 1)
           d == Do(s)
<1>6. PICK x \in ItemType :
        /\ x = y /\ x.at = "catch" /\ x.node = node /\ x.head = c /\ x.end = c + 1 /\ x.clause = 0
        /\ \A n \in Nat : Refers(x, n) => n \in {breakLabel, continueLabel, catchLabel}
  <2>1. "catch" \in Points /\ c \in Label /\ c + 1 \in Label /\ NoLabel \in Label
    BY DEF Points, Label
  <2> QED BY <1>2, <2>1, ItemTyped
<1>7. /\ todo' = <<d, x>> \o Below
      /\ out' = out /\ counter' = c + 2
      /\ UNCHANGED <<program, current, scan, locals, symbols, patched>>
      /\ breakLabel' = breakLabel /\ continueLabel' = continueLabel /\ catchLabel' = c
  BY <1>3, <1>4, <1>6 DEF GenerateTry, Nesting
<1>8. Fronts(<<d, x>>, x) /\ IsLast(<<d, x>>, x)
  BY <1>2, FrontOfTwo
<1>9. ItemRight(x)
  BY <1>1, <1>4, <1>5, <1>6 DEF ItemRight, Waiting
<1>10. \A n \in Nat : Owes(x, n) <=> n = c \/ n = c + 1
  BY <1>6 DEF Owes, Waiting
<1>11. Writes(out, out', {}, {})
  BY <1>2, <1>7, WritesNothing
<1>12. Replaces(<<d, x>>, x, {})
  BY <1>2, <1>3, <1>7, <1>8, <1>9, <1>10 DEF Replaces, New
<1>13. \A n \in Nat : n \in {breakLabel', continueLabel', catchLabel'} \/ Refers(x, n)
         => Known(<<d, x>>, x, {}, n)
  BY <1>6, <1>7, <1>8, <1>10, AheadNow DEF Known
<1>14. breakLabel' \in Label /\ continueLabel' \in Label /\ catchLabel' \in Label
  BY <1>1, <1>7, AtBegin DEF Label
<1>15. PICK F, P, T : F = <<d, x>> /\ P = {} /\ T = {}
  OBVIOUS
<1>16. /\ Replaces(F, x, P) /\ Writes(out, out', P, T)
       /\ \A n \in Nat : n \in {breakLabel', continueLabel', catchLabel'} \/ Refers(x, n) => Known(F, x, P, n)
       /\ \A t \in T : \E n \in Nat : t = Local(n) /\ Known(F, x, P, n)
  BY <1>11, <1>12, <1>13, <1>15
<1> HIDE DEF d, y
<1> QED BY <1>7, <1>14, <1>16, HandlerMoves

(* What holds where a handler goes on or ends.                             *)
LEMMA AtResume ==
  ASSUME Inv, todo # << >>, Top.at \in Waiting
  PROVE  /\ Typed /\ Top.at # "epilogue" /\ out \in Output /\ Node \in Statement /\ Top \in ItemType
         /\ counter \in Nat /\ breakLabel \in Label /\ continueLabel \in Label /\ catchLabel \in Label
         /\ Top.head \in Nat /\ Top.end \in Nat /\ Top.head # Top.end /\ ItemRight(Top)
         /\ Top.savedBreak \in Label /\ Top.savedContinue \in Label /\ Top.savedCatch \in Label
         /\ \A n \in Nat : n \in {Top.savedBreak, Top.savedContinue, Top.savedCatch} => Refers(Top, n)
<1>1. Typed /\ ItemsRight /\ out \in Output /\ counter \in Nat
      /\ breakLabel \in Label /\ continueLabel \in Label /\ catchLabel \in Label
  BY DEF Inv, Typed
<1>2. Top \in ItemType /\ ItemRight(Top) /\ Node \in Statement
  BY <1>1, TopFirst, NodeParts
<1>3. Top.head \in Nat /\ Top.end \in Nat /\ Top.head # Top.end
  BY <1>2 DEF ItemRight
<1>4. Top.savedBreak \in Label /\ Top.savedContinue \in Label /\ Top.savedCatch \in Label
  BY <1>2 DEF ItemType
<1>5. \A n \in Nat : n \in {Top.savedBreak, Top.savedContinue, Top.savedCatch} => Refers(Top, n)
  BY DEF Refers, NoLabel
<1> QED BY <1>1, <1>2, <1>3, <1>4, <1>5 DEF Waiting

(* A handler ends: all it owes is placed.                                  *)
LEMMA EndStays ==
  ASSUME Inv, todo # << >>, Top.at \in Waiting, todo' = Below, counter' = counter,
         NEW P, NEW T, Writes(out, out', P, T),
         UNCHANGED <<program, current, scan, locals, symbols, patched>>,
         breakLabel' \in Label, continueLabel' \in Label, catchLabel' \in Label,
         \A n \in Nat : n \in {breakLabel', continueLabel', catchLabel'}
           => n \in {breakLabel, continueLabel, catchLabel} \/ Refers(Top, n),
         \A n \in Nat : Owes(Top, n) <=> Local(n) \in P,
         \A t \in T : \E n \in Nat : t = Local(n) /\ (Owes(Top, n) \/ Refers(Top, n))
  PROVE  Kept
<1>1. Typed /\ Top.at # "epilogue" /\ Node \in Statement /\ counter \in Nat
  BY AtResume
<1>2. PICK F : F = Sequence(<< >>)
  OBVIOUS
<1>3. PICK x \in ItemType :
        /\ ItemRight(x) /\ Fronts(F, x) /\ \A n \in Nat : ~Owes(x, n)
        /\ \A n \in Nat : Refers(x, n) => n \in {breakLabel, continueLabel, catchLabel}
  <2>1. << >> \in Seq(Statement)
    BY EmptySeq
  <2>2. Fronts(F, Do(Node))
    BY <1>1, <1>2, <2>1, FrontOfStatements
  <2> QED BY <1>1, <2>2, DoRight
<1>4. todo' = F \o Below
  BY <1>1, <1>2, NothingInstead
<1>5. Replaces(F, x, P)
  BY <1>1, <1>3, <1>4 DEF Replaces
<1>6. \A n \in Nat : n \in {breakLabel, continueLabel, catchLabel} \/ Owes(Top, n) \/ Refers(Top, n)
         => Known(F, x, P, n)
  BY AheadNow DEF Known
<1>7. \A n \in Nat : n \in {breakLabel', continueLabel', catchLabel'} \/ Refers(x, n) => Known(F, x, P, n)
  BY <1>3, <1>6
<1>8. \A t \in T : \E n \in Nat : t = Local(n) /\ Known(F, x, P, n)
  BY <1>6
<1> QED BY <1>5, <1>7, <1>8, HandlerMoves

LEMMA EndIfStays ==
  ASSUME Inv, EndIf
  PROVE  Kept
<1>1. todo # << >> /\ Top.at = "endif" /\ Top.at \in Waiting
  BY DEF EndIf, At, Waiting
<1>2. PICK e \in Nat : e = Top.end
  BY <1>1, AtResume
<1>3. PICK P, T : P = {Local(e)} /\ T = {}
  OBVIOUS
<1>4. out' = Bind(out, Local(e)) /\ todo' = Below /\ counter' = counter
      /\ UNCHANGED <<program, current, scan, locals, symbols, patched>>
      /\ UNCHANGED <<breakLabel, continueLabel, catchLabel>>
  BY <1>2 DEF EndIf, Nesting, targets
<1>5. Writes(out, out', P, T)
  <2>1. Writes(out, out', {} \cup {Local(e)}, {})
    BY <1>1, <1>4, AtResume, WritesNothing, ThenBind
  <2> QED BY <1>3, <2>1
<1>6. \A n \in Nat : Owes(Top, n) <=> Local(n) \in P
  BY <1>1, <1>2, <1>3, LocalTarget DEF Owes
<1>7. \A t \in T : \E n \in Nat : t = Local(n) /\ (Owes(Top, n) \/ Refers(Top, n))
  BY <1>3
<1>8. breakLabel' \in Label /\ continueLabel' \in Label /\ catchLabel' \in Label
  BY <1>1, <1>4, AtResume
<1> QED BY <1>1, <1>4, <1>5, <1>6, <1>7, <1>8, EndStays

LEMMA EndWhileStays ==
  ASSUME Inv, EndWhile
  PROVE  Kept
<1>1. todo # << >> /\ Top.at = "while" /\ Top.at \in Waiting
  BY DEF EndWhile, At, Waiting
<1>2. PICK h \in Nat, e \in Nat : h = Top.head /\ e = Top.end
  BY <1>1, AtResume
<1>3. PICK P, T : P = {Local(e)} /\ T = {Local(h)}
  OBVIOUS
<1>4. out' = Bind(Branch(out, "always", Local(h)), Local(e)) /\ todo' = Below /\ counter' = counter
      /\ UNCHANGED <<program, current, scan, locals, symbols, patched>>
      /\ breakLabel' = Top.savedBreak /\ continueLabel' = Top.savedContinue /\ catchLabel' = catchLabel
  BY <1>2 DEF EndWhile, Nesting, RestoreLoop
<1>5. Writes(out, out', P, T)
  <2>1. Writes(out, Branch(out, "always", Local(h)), {}, {} \cup {Local(h)})
    BY <1>1, AtResume, WritesNothing, ThenBranch
  <2>2. Writes(out, out', {} \cup {Local(e)}, {} \cup {Local(h)})
    BY <1>4, <2>1, ThenBind
  <2> QED BY <1>3, <2>2
<1>6. \A n \in Nat : Owes(Top, n) <=> Local(n) \in P
  BY <1>1, <1>2, <1>3, LocalTarget DEF Owes
<1>7. \A t \in T : \E n \in Nat : t = Local(n) /\ (Owes(Top, n) \/ Refers(Top, n))
  BY <1>1, <1>2, <1>3 DEF Refers
<1>8. breakLabel' \in Label /\ continueLabel' \in Label /\ catchLabel' \in Label
  BY <1>1, <1>4, AtResume
<1>9. \A n \in Nat : n \in {breakLabel', continueLabel', catchLabel'}
         => n \in {breakLabel, continueLabel, catchLabel} \/ Refers(Top, n)
  BY <1>1, <1>4, AtResume
<1> QED BY <1>1, <1>4, <1>5, <1>6, <1>7, <1>8, <1>9, EndStays

LEMMA EndDoWhileStays ==
  ASSUME Inv, EndDoWhile
  PROVE  Kept
<1>1. todo # << >> /\ Top.at = "dowhile" /\ Top.at \in Waiting
  BY DEF EndDoWhile, At, Waiting
<1>2. PICK h \in Nat, e \in Nat, s \in Nat : h = Top.head /\ e = Top.end /\ s = Top.step
  BY <1>1, AtResume DEF ItemRight
<1>3. PICK P, T : P = {Local(s), Local(e)} /\ T = {Local(h)}
  OBVIOUS
<1>4. PICK test \in Int : test = Node.id
  BY <1>1, AtResume, NodeParts DEF ItemRight, Node
<1>5. out' = Bind(Branch(Emit(Bind(out, Local(s)), "test", test), "notequal", Local(h)), Local(e))
      /\ todo' = Below /\ counter' = counter
      /\ UNCHANGED <<program, current, scan, locals, symbols, patched>>
      /\ breakLabel' = Top.savedBreak /\ continueLabel' = Top.savedContinue /\ catchLabel' = catchLabel
  BY <1>2, <1>4 DEF EndDoWhile, Nesting, RestoreLoop
<1>6. Writes(out, out', P, T)
  <2>1. Writes(out, Bind(out, Local(s)), {} \cup {Local(s)}, {})
    BY <1>1, AtResume, WritesNothing, ThenBind
  <2>2. Writes(out, Emit(Bind(out, Local(s)), "test", test), {} \cup {Local(s)}, {})
    BY <2>1, ThenEmit
  <2>3. Writes(out, Branch(Emit(Bind(out, Local(s)), "test", test), "notequal", Local(h)),
               {} \cup {Local(s)}, {} \cup {Local(h)})
    BY <2>2, ThenBranch
  <2>4. Writes(out, out', ({} \cup {Local(s)}) \cup {Local(e)}, {} \cup {Local(h)})
    BY <1>5, <2>3, ThenBind
  <2>5. ({} \cup {Local(s)}) \cup {Local(e)} = P /\ {} \cup {Local(h)} = T
    BY <1>3
  <2> QED BY <2>4, <2>5
<1>7. \A n \in Nat : Owes(Top, n) <=> Local(n) \in P
  BY <1>1, <1>2, <1>3, LocalTarget DEF Owes
<1>8. \A t \in T : \E n \in Nat : t = Local(n) /\ (Owes(Top, n) \/ Refers(Top, n))
  BY <1>1, <1>2, <1>3 DEF Refers
<1>9. breakLabel' \in Label /\ continueLabel' \in Label /\ catchLabel' \in Label
  BY <1>1, <1>5, AtResume
<1>10. \A n \in Nat : n \in {breakLabel', continueLabel', catchLabel'}
         => n \in {breakLabel, continueLabel, catchLabel} \/ Refers(Top, n)
  BY <1>1, <1>5, AtResume
<1> QED BY <1>1, <1>5, <1>6, <1>7, <1>8, <1>9, <1>10, EndStays

LEMMA EndForStays ==
  ASSUME Inv, EndFor
  PROVE  Kept
<1>1. todo # << >> /\ Top.at = "step" /\ Top.at \in Waiting
  BY DEF EndFor, At, Waiting
<1>2. PICK h \in Nat, e \in Nat, s \in Nat : h = Top.head /\ e = Top.end /\ s = Top.step
  BY <1>1, AtResume DEF ItemRight
<1>3. PICK P, T : P = {Local(s), Local(e)} /\ T = {Local(h)}
  OBVIOUS
<1>4. Node.step \in Seq(Int)
  BY <1>1, AtResume, NodeParts DEF ItemRight, Node
<1>5. PICK q : /\ q = IF Node.step = << >> THEN Bind(out, Local(s))
                      ELSE Emit(Bind(out, Local(s)), "act", Node.step[1])
  OBVIOUS
<1>6. out' = Bind(Branch(q, "always", Local(h)), Local(e))
      /\ todo' = Below /\ counter' = counter
      /\ UNCHANGED <<program, current, scan, locals, symbols, patched>>
      /\ breakLabel' = Top.savedBreak /\ continueLabel' = Top.savedContinue /\ catchLabel' = catchLabel
  BY <1>2, <1>5 DEF EndFor, Nesting, RestoreLoop
<1>7. Writes(out, out', P, T)
  <2>1. Writes(out, Bind(out, Local(s)), {} \cup {Local(s)}, {})
    BY <1>1, AtResume, WritesNothing, ThenBind
  <2>2. Writes(out, q, {} \cup {Local(s)}, {})
    BY <1>4, <1>5, <2>1, FirstOf, ThenEmit
  <2>3. Writes(out, Branch(q, "always", Local(h)), {} \cup {Local(s)}, {} \cup {Local(h)})
    BY <2>2, ThenBranch
  <2>4. Writes(out, out', ({} \cup {Local(s)}) \cup {Local(e)}, {} \cup {Local(h)})
    BY <1>6, <2>3, ThenBind
  <2>5. ({} \cup {Local(s)}) \cup {Local(e)} = P /\ {} \cup {Local(h)} = T
    BY <1>3
  <2> QED BY <2>4, <2>5
<1>8. \A n \in Nat : Owes(Top, n) <=> Local(n) \in P
  BY <1>1, <1>2, <1>3, LocalTarget DEF Owes
<1>9. \A t \in T : \E n \in Nat : t = Local(n) /\ (Owes(Top, n) \/ Refers(Top, n))
  BY <1>1, <1>2, <1>3 DEF Refers
<1>10. breakLabel' \in Label /\ continueLabel' \in Label /\ catchLabel' \in Label
  BY <1>1, <1>6, AtResume
<1>11. \A n \in Nat : n \in {breakLabel', continueLabel', catchLabel'}
         => n \in {breakLabel, continueLabel, catchLabel} \/ Refers(Top, n)
  BY <1>1, <1>6, AtResume
<1> QED BY <1>1, <1>6, <1>7, <1>8, <1>9, <1>10, <1>11, EndStays

LEMMA ElseStays ==
  ASSUME Inv, GenerateElse
  PROVE  Kept
<1>1. todo # << >> /\ Top.at = "else" /\ Top.at \in Waiting
  BY DEF GenerateElse, At, Waiting
<1>2. PICK h \in Nat, e \in Nat : h = Top.head /\ e = Top.end /\ h # e
  BY <1>1, AtResume
<1>3. Typed /\ Top.at # "epilogue" /\ Top \in ItemType /\ ItemRight(Top) /\ counter \in Nat
  BY <1>1, AtResume
<1>4. PICK s \in Statement : s = Node.otherwise[1]
  BY <1>1, <1>3, NodeParts, FirstOf DEF ItemRight, Node
<1> DEFINE y == [Top EXCEPT !.at = "endif"]
           d == Do(s)
<1>5. PICK x \in ItemType : /\ x = y /\ x.at = "endif" /\ x.head = h /\ x.end = e
                            /\ \A n \in Nat : Refers(x, n) => Refers(Top, n)
  <2>1. "endif" \in Points
    BY DEF Points
  <2> QED BY <1>2, <1>3, <2>1, ItemResumed
<1>6. PICK F, P, T : F = <<d, x>> /\ P = {Local(h)} /\ T = {Local(e)}
  OBVIOUS
<1>7. /\ todo' = F \o Below
      /\ out' = Bind(Branch(out, "always", Local(e)), Local(h)) /\ counter' = counter
      /\ UNCHANGED <<program, current, scan, locals, symbols, patched>>
      /\ UNCHANGED <<breakLabel, continueLabel, catchLabel>>
  BY <1>2, <1>4, <1>5, <1>6 DEF GenerateElse, Nesting, targets
<1>8. Fronts(F, x) /\ IsLast(F, x)
  BY <1>3, <1>6, FrontOfTwo
<1> HIDE DEF d, y
<1>9. ItemRight(x)
  BY <1>2, <1>5 DEF ItemRight, Waiting
<1>10. /\ \A n \in Nat : Owes(Top, n) <=> (n = h \/ n = e)
       /\ \A n \in Nat : Owes(x, n) <=> (n = e)
       /\ \A n \in Nat : Local(n) \in P <=> n = h
  <2>1. \A n \in Nat : Owes(Top, n) <=> (n = h \/ n = e)
    BY <1>1, <1>2 DEF Owes, Waiting
  <2>2. \A n \in Nat : Owes(x, n) <=> (n = e)
    BY <1>5 DEF Owes, Waiting
  <2>3. \A n \in Nat : Local(n) \in P <=> n = h
    BY <1>6, LocalTarget
  <2> QED BY <2>1, <2>2, <2>3
<1>11. Writes(out, out', P, T)
  <2>1. Writes(out, Branch(out, "always", Local(e)), {}, {} \cup {Local(e)})
    BY <1>1, AtResume, WritesNothing, ThenBranch
  <2>2. Writes(out, out', {} \cup {Local(h)}, {} \cup {Local(e)})
    BY <1>7, <2>1, ThenBind
  <2> QED BY <1>6, <2>2
<1>12. Replaces(F, x, P)
  BY <1>1, <1>2, <1>3, <1>7, <1>8, <1>9, <1>10 DEF Replaces
<1>13. \A n \in Nat : n \in {breakLabel', continueLabel', catchLabel'} \/ Refers(x, n) \/ n = e
         => Known(F, x, P, n)
  BY <1>1, <1>5, <1>7, <1>10, AheadNow DEF Known
<1>14. breakLabel' \in Label /\ continueLabel' \in Label /\ catchLabel' \in Label
  BY <1>1, <1>7, AtResume
<1>15. \A t \in T : \E n \in Nat : t = Local(n) /\ Known(F, x, P, n)
  BY <1>6, <1>13
<1> QED BY <1>7, <1>11, <1>12, <1>13, <1>14, <1>15, HandlerMoves

LEMMA ForTestStays ==
  ASSUME Inv, ForTest
  PROVE  Kept
<1>1. todo # << >> /\ Top.at = "for" /\ Top.at \in Waiting
  BY DEF ForTest, At, Waiting
<1>2. PICK h \in Nat, e \in Nat, s \in Nat :
        h = Top.head /\ e = Top.end /\ s = Top.step /\ h # e /\ s # h /\ s # e
  BY <1>1, AtResume DEF ItemRight
<1>3. Typed /\ Top.at # "epilogue" /\ Top \in ItemType /\ ItemRight(Top) /\ counter \in Nat
  BY <1>1, AtResume
<1>4. PICK b \in Statement : b = Node.body /\ Node.test \in Seq(Int) /\ Node.kind = "for"
  BY <1>1, <1>3, NodeParts DEF ItemRight, Node
<1> DEFINE y == [Top EXCEPT !.at = "step"]
           d == Do(b)
<1>5. PICK x \in ItemType : /\ x = y /\ x.at = "step" /\ x.head = h /\ x.end = e /\ x.step = s
                            /\ x.node = Node
                            /\ \A n \in Nat : Refers(x, n) => n = h \/ Refers(Top, n)
  <2>1. "step" \in Points
    BY DEF Points
  <2> QED BY <1>2, <1>3, <2>1, ItemResumed DEF Node
<1>6. PICK F, P : F = <<d, x>> /\ P = {Local(h)}
  OBVIOUS
<1>7. /\ todo' = F \o Below /\ counter' = counter
      /\ UNCHANGED <<program, current, scan, locals, symbols, patched>>
      /\ UNCHANGED <<breakLabel, continueLabel, catchLabel>>
  BY <1>4, <1>5, <1>6 DEF ForTest, Nesting, targets
<1>8. Fronts(F, x) /\ IsLast(F, x)
  BY <1>3, <1>6, FrontOfTwo
<1> HIDE DEF d, y
<1>9. ItemRight(x)
  BY <1>2, <1>4, <1>5 DEF ItemRight, Waiting
<1>10. /\ \A n \in Nat : Owes(Top, n) <=> (n = h \/ n = e \/ n = s)
       /\ \A n \in Nat : Owes(x, n) <=> (n = e \/ n = s)
       /\ \A n \in Nat : Local(n) \in P <=> n = h
  <2>1. \A n \in Nat : Owes(Top, n) <=> (n = h \/ n = e \/ n = s)
    BY <1>1, <1>2 DEF Owes, Waiting
  <2>2. \A n \in Nat : Owes(x, n) <=> (n = e \/ n = s)
    BY <1>5 DEF Owes, Waiting
  <2>3. \A n \in Nat : Local(n) \in P <=> n = h
    BY <1>6, LocalTarget
  <2> QED BY <2>1, <2>2, <2>3
<1>11. PICK T \in SUBSET {Local(e)} : Writes(out, out', P, T)
  <2>1. Writes(out, Bind(out, Local(h)), {} \cup {Local(h)}, {})
    BY <1>1, AtResume, WritesNothing, ThenBind
  <2>2. CASE Node.test = << >>
    <3>1. out' = Bind(out, Local(h))
      BY <1>2, <2>2 DEF ForTest
    <3>2. Writes(out, out', P, {})
      BY <1>6, <2>1, <3>1
    <3> QED BY <3>2
  <2>3. CASE Node.test # << >>
    <3>1. PICK test \in Int : test = Node.test[1]
      BY <1>4, <2>3, FirstOf
    <3>2. out' = Branch(Emit(Bind(out, Local(h)), "test", test), "equal", Local(e))
      BY <1>2, <2>3, <3>1 DEF ForTest
    <3>3. Writes(out, Emit(Bind(out, Local(h)), "test", test), {} \cup {Local(h)}, {})
      BY <2>1, ThenEmit
    <3>4. Writes(out, out', {} \cup {Local(h)}, {} \cup {Local(e)})
      BY <3>2, <3>3, ThenBranch
    <3>5. Writes(out, out', P, {Local(e)})
      BY <1>6, <3>4
    <3> QED BY <3>5
  <2> QED BY <2>2, <2>3
<1>12. Replaces(F, x, P)
  BY <1>1, <1>2, <1>3, <1>7, <1>8, <1>9, <1>10 DEF Replaces
<1>13. \A n \in Nat : n \in {breakLabel', continueLabel', catchLabel'} \/ Refers(x, n) \/ n = e
         => Known(F, x, P, n)
  BY <1>1, <1>5, <1>7, <1>10, AheadNow DEF Known
<1>14. breakLabel' \in Label /\ continueLabel' \in Label /\ catchLabel' \in Label
  BY <1>1, <1>7, AtResume
<1>15. \A t \in T : \E n \in Nat : t = Local(n) /\ Known(F, x, P, n)
  BY <1>13
<1> QED BY <1>7, <1>11, <1>12, <1>13, <1>14, <1>15, HandlerMoves

(* After the body and after each clause.                                   *)
LEMMA CatchStays ==
  ASSUME Inv, GenerateCatch
  PROVE  Kept
<1>1. todo # << >> /\ Top.at = "catch" /\ Top.at \in Waiting
  BY DEF GenerateCatch, At, Waiting
<1>2. PICK h \in Nat, e \in Nat : h = Top.head /\ e = Top.end /\ h # e
  BY <1>1, AtResume
<1>3. Typed /\ Top.at # "epilogue" /\ Top \in ItemType /\ ItemRight(Top) /\ counter \in Nat
  BY <1>1, AtResume
<1>4. Node.kind = "try" /\ Node.clauses \in Seq(Statement) /\ Top.clause <= Len(Node.clauses)
      /\ Len(Node.clauses) \in Nat /\ DOMAIN Node.clauses = 1..Len(Node.clauses)
  BY <1>1, <1>3, NodeParts, LenProperties DEF ItemRight, Node
<1>5. PICK k \in Nat : k = Top.clause
  BY <1>3 DEF ItemType
<1>6. PICK q : q = IF k = 0 THEN Bind(Branch(out, "always", Local(e)), Local(h))
                   ELSE Branch(out, "always", Local(e))
  OBVIOUS
<1>7. PICK Q : Q = {n \in {h} : k = 0}
  OBVIOUS
<1>8. PICK P, T : P = {Local(n) : n \in Q} /\ T = {Local(e)}
  OBVIOUS
<1>9. Writes(out, q, P, T)
  <2>1. Writes(out, Branch(out, "always", Local(e)), {}, {} \cup {Local(e)})
    BY <1>1, AtResume, WritesNothing, ThenBranch
  <2>2. {} \cup {Local(e)} = T
    BY <1>8
  <2>3. CASE k = 0
    <3>1. Writes(out, q, {} \cup {Local(h)}, {} \cup {Local(e)})
      BY <1>6, <2>1, <2>3, ThenBind
    <3>2. P = {} \cup {Local(h)}
      BY <1>7, <1>8, <2>3
    <3> QED BY <2>2, <3>1, <3>2
  <2>4. CASE k # 0
    <3>1. P = {}
      BY <1>7, <1>8, <2>4
    <3> QED BY <1>6, <2>1, <2>2, <2>4, <3>1
  <2> QED BY <2>3, <2>4
<1>10. \A n \in Nat : Local(n) \in P <=> (n = h /\ k = 0)
  BY <1>7, <1>8, LocalTarget
<1>11. \A n \in Nat : Owes(Top, n) <=> (n = e \/ (n = h /\ k = 0))
  BY <1>1, <1>2, <1>5 DEF Owes, Waiting
<1>12. CASE k = Len(Node.clauses)
  <2>1. /\ out' = Bind(q, Local(e)) /\ todo' = Below /\ counter' = counter
        /\ UNCHANGED <<program, current, scan, locals, symbols, patched>>
        /\ catchLabel' = Top.savedCatch /\ UNCHANGED <<breakLabel, continueLabel>>
    BY <1>2, <1>5, <1>6, <1>12 DEF GenerateCatch, Nesting
  <2>2. PICK R : R = P \cup {Local(e)}
    OBVIOUS
  <2>3. Writes(out, out', R, T)
    BY <1>9, <2>1, <2>2, ThenBind
  <2>4. \A n \in Nat : Local(n) \in R <=> (n = e \/ (n = h /\ k = 0))
    BY <1>10, <2>2, LocalTarget
  <2>5. \A n \in Nat : Owes(Top, n) <=> Local(n) \in R
    BY <1>11, <2>4
  <2>6. \A t \in T : \E n \in Nat : t = Local(n) /\ (Owes(Top, n) \/ Refers(Top, n))
    BY <1>8, <1>11
  <2>7. breakLabel' \in Label /\ continueLabel' \in Label /\ catchLabel' \in Label
    BY <1>1, <2>1, AtResume
  <2>8. \A n \in Nat : n \in {breakLabel', continueLabel', catchLabel'}
           => n \in {breakLabel, continueLabel, catchLabel} \/ Refers(Top, n)
    BY <1>1, <2>1, AtResume
  <2> QED BY <1>1, <2>1, <2>3, <2>5, <2>6, <2>7, <2>8, EndStays
<1>13. CASE k # Len(Node.clauses)
  <2>1. k + 1 \in DOMAIN Node.clauses
    BY <1>4, <1>5, <1>13
  <2>2. PICK s \in Statement : s = Node.clauses[k + 1]
    BY <1>4, <2>1, ElementOfSeq
  <2> DEFINE y == [Top EXCEPT !.clause = @ + 1]
             d == Do(s)
  <2>3. PICK x \in ItemType : /\ x = y /\ x.at = "catch" /\ x.head = h /\ x.end = e /\ x.clause = k + 1
                              /\ x.node = Node
                              /\ \A n \in Nat : Refers(x, n) => Refers(Top, n)
    BY <1>1, <1>2, <1>3, <1>5, NextClause DEF Node
  <2>4. PICK F : F = <<d, x>>
    OBVIOUS
  <2>5. /\ todo' = F \o Below /\ counter' = counter /\ out' = q
        /\ UNCHANGED <<program, current, scan, locals, symbols, patched>>
        /\ UNCHANGED <<breakLabel, continueLabel, catchLabel>>
    BY <1>2, <1>5, <1>6, <1>13, <2>2, <2>3, <2>4 DEF GenerateCatch, Nesting, targets
  <2>6. Fronts(F, x) /\ IsLast(F, x)
    BY <1>3, <2>4, FrontOfTwo
  <2> HIDE DEF d, y
  <2>7. ItemRight(x)
    BY <1>2, <1>4, <1>5, <1>13, <2>3 DEF ItemRight, Waiting
  <2>8. \A n \in Nat : Owes(x, n) <=> n = e
    BY <2>3 DEF Owes, Waiting
  <2>9. Replaces(F, x, P)
    BY <1>1, <1>2, <1>3, <1>10, <1>11, <2>5, <2>6, <2>7, <2>8 DEF Replaces
  <2>10. \A n \in Nat : n \in {breakLabel', continueLabel', catchLabel'} \/ Refers(x, n) \/ n = e
           => Known(F, x, P, n)
    BY <1>1, <1>11, <2>3, <2>5, AheadNow DEF Known
  <2>11. breakLabel' \in Label /\ continueLabel' \in Label /\ catchLabel' \in Label
    BY <1>1, <2>5, AtResume
  <2>12. \A t \in T : \E n \in Nat : t = Local(n) /\ Known(F, x, P, n)
    BY <1>8, <2>10
  <2>13. Writes(out, out', P, T)
    BY <1>9, <2>5
  <2> QED BY <2>5, <2>9, <2>10, <2>11, <2>12, <2>13, HandlerMoves
<1> QED BY <1>12, <1>13

-----------------------------------------------------------------------------
(* Functions.                                                              *)
LEMMA EndFunctionStays ==
  ASSUME Inv, EndFunction
  PROVE  Kept
<1>1. Typed /\ todo # << >> /\ Top.at = "epilogue" /\ out \in Output /\ counter \in Nat /\ Begun
      /\ breakLabel \in Label /\ continueLabel \in Label /\ catchLabel \in Label
  BY DEF EndFunction, At, Inv, Typed
<1>2. Node \in Statement
  BY <1>1, NodeParts
<1>3. PICK f \in Name : f = program[current].name
  <2>1. current \in 1..Len(program)
    BY <1>1 DEF Begun, Typed
  <2>2. program[current] \in FunctionType
    BY <1>1, <2>1, ElementOfSeq DEF Typed, IsProgram
  <2> QED BY <2>2 DEF FunctionType
<1>4. Epilogue(f) \in Target /\ \A n \in Nat : Local(n) # Epilogue(f)
  BY <1>3 DEF Epilogue, Local, Target
<1>5. PICK F, P, T : F = Sequence(<< >>) /\ P = {Epilogue(f)} /\ T = {}
  OBVIOUS
<1>6. PICK q : q = Bind(out, Epilogue(f))
  OBVIOUS
<1>7. out' = Emit(q, "leave", 0) /\ todo' = Below /\ counter' = counter
      /\ UNCHANGED <<program, current, scan, locals, symbols, patched>>
      /\ UNCHANGED <<breakLabel, continueLabel, catchLabel>>
  BY <1>3, <1>6 DEF EndFunction, targets
<1>8. Writes(out, out', P, T)
  <2>1. Writes(out, q, {Epilogue(f)}, {})
    BY <1>1, <1>4, <1>6, BindWrites
  <2>2. q \in Output /\ [op |-> "leave", arg |-> 0] \in Instruction
    BY <2>1 DEF Writes, Instruction
  <2>3. Writes(q, out', {}, {})
    BY <1>7, <2>2, EmitWrites
  <2>4. Writes(out, out', {Epilogue(f)} \cup {}, {} \cup {})
    BY <2>1, <2>3, WritesThen
  <2> QED BY <1>5, <2>4
<1>9. PICK x \in ItemType :
        /\ ItemRight(x) /\ Fronts(F, x) /\ \A n \in Nat : ~Owes(x, n)
        /\ \A n \in Nat : Refers(x, n) => n \in {breakLabel, continueLabel, catchLabel}
  <2>1. << >> \in Seq(Statement)
    BY EmptySeq
  <2>2. Fronts(F, Do(Node))
    BY <1>1, <1>2, <1>5, <2>1, FrontOfStatements
  <2> QED BY <1>1, <1>2, <2>2, DoRight
<1>10. todo' = F \o Below
  BY <1>1, <1>5, <1>7, NothingInstead
<1>11. \A n \in Nat : ~Owes(Top, n) /\ Local(n) \notin P
  BY <1>1, <1>4, <1>5 DEF Owes, Waiting
<1>12. Epilogue(program[current].name) \in P
  BY <1>3, <1>5
<1>13. Replaces(F, x, P)
  BY <1>1, <1>7, <1>9, <1>10, <1>11, <1>12 DEF Replaces
<1>14. \A n \in Nat : n \in {breakLabel', continueLabel', catchLabel'} \/ Refers(x, n) => Known(F, x, P, n)
  BY <1>7, <1>9, AheadNow DEF Known
<1>15. \A t \in T : \E n \in Nat : t = Local(n) /\ Known(F, x, P, n)
  BY <1>5
<1>16. breakLabel' \in Label /\ continueLabel' \in Label /\ catchLabel' \in Label
  BY <1>1, <1>7
<1> QED BY <1>7, <1>8, <1>13, <1>14, <1>15, <1>16, HandlerMoves

(* A function begins with nothing left to do of the one before.            *)
LEMMA BeginStays ==
  ASSUME Inv, BeginFunction
  PROVE  Kept
<1>1. /\ Typed /\ Issued /\ Landing /\ Begun /\ out \in Output /\ counter \in Nat
      /\ program \in Seq(FunctionType) /\ current \in 0..Len(program)
      /\ breakLabel \in Label /\ continueLabel \in Label /\ catchLabel \in Label
  BY DEF Inv, Typed, IsProgram
<1>2. todo = << >> /\ DOMAIN todo = {} /\ current < Len(program)
  BY EmptySeq, LenProperties DEF BeginFunction
<1>3. Len(program) \in Nat /\ DOMAIN program = 1..Len(program) /\ current + 1 \in DOMAIN program
  BY <1>1, <1>2, LenProperties
<1>4. PICK func \in FunctionType : func = program[current + 1] /\ func.body.kind = "block"
  BY <1>1, <1>3, ElementOfSeq DEF Typed, IsProgram
<1>5. PICK node \in Statement : node = func.body
  BY <1>4 DEF FunctionType
<1>6. PICK body \in Seq(Statement) : body = node.body
  BY <1>4, <1>5, StatementAssumption DEF AreStatements, IsStatement
<1>7. PICK x \in ItemType :
        /\ x = Item("epilogue", node, NoLabel, NoLabel, NoLabel) /\ x.at = "epilogue"
        /\ \A n \in Nat : Refers(x, n) => n \in {breakLabel, continueLabel, catchLabel}
  <2>1. "epilogue" \in Points /\ NoLabel \in Label
    BY DEF Points, Label
  <2>2. PICK x : x = Item("epilogue", node, NoLabel, NoLabel, NoLabel)
    OBVIOUS
  <2>3. /\ x \in ItemType /\ x.at = "epilogue"
        /\ \A n \in Nat : Refers(x, n) => \/ n = NoLabel
                                         \/ n \in {breakLabel, continueLabel, catchLabel}
    BY <1>1, <2>1, <2>2, ItemTyped
  <2>4. \A n \in Nat : n # NoLabel
    BY DEF NoLabel
  <2> QED BY <2>2, <2>3, <2>4
<1>8. /\ program' = program /\ current' = current + 1
      /\ offsets' = [offsets EXCEPT ![func.name] = Len(out.code) + 1]
      /\ scan' = body /\ todo' = Sequence(body) \o <<x>>
      /\ out' = Emit(out, "enter", 0) /\ locals' = {} /\ counter' = counter
      /\ externals' = externals /\ patched' = patched
      /\ UNCHANGED <<breakLabel, continueLabel, catchLabel>>
  BY <1>4, <1>5, <1>6, <1>7 DEF BeginFunction, targets
<1>9. PICK F : F = Sequence(body) \o <<x>>
  OBVIOUS
<1>10. Fronts(F, x) /\ IsLast(F, x) /\ todo' = F
  BY <1>1, <1>8, <1>9, FrontOfInit
<1>11. /\ todo' \in Seq(ItemType) /\ Len(todo') \in Nat /\ DOMAIN todo' = 1..Len(todo')
       /\ Len(todo') \in DOMAIN todo' /\ todo'[Len(todo')] = x
       /\ \A i \in DOMAIN todo' : todo'[i] = x \/ \E s \in Statement : todo'[i] = Do(s)
  BY <1>10, LenProperties DEF Fronts, IsLast
<1>12. ItemRight(x) /\ \A n \in Nat : ~Owes(x, n)
  BY <1>7 DEF ItemRight, Owes, Waiting
<1>13. Writes(out, out', {}, {})
  <2>1. [op |-> "enter", arg |-> 0] \in Instruction
    BY DEF Instruction
  <2> QED BY <1>1, <1>8, <2>1, EmitWrites
<1>14. out' \in Output /\ DOMAIN out'.labels = DOMAIN out.labels
       /\ (\A t \in DOMAIN out.labels : out'.labels[t] = out.labels[t])
       /\ \A p \in out'.patches : p \in out.patches
  BY <1>13 DEF Writes
<1>15. func.name \in DOMAIN offsets /\ Len(out.code) + 1 \in Nat /\ Len(out.code) + 1 > 0
  <2>1. Len(out.code) \in Nat
    BY <1>1, OutputTyped, LenProperties
  <2> QED BY <1>1, <1>3, <1>4, <2>1 DEF Typed
<1>16. /\ DOMAIN offsets' = DOMAIN offsets
       /\ \A f \in DOMAIN offsets : offsets'[f] = IF f = func.name THEN Len(out.code) + 1 ELSE offsets[f]
  BY <1>8, <1>15
<1>17. Typed'
  <2>1. DOMAIN offsets' = {program'[i].name : i \in DOMAIN program'}
    BY <1>1, <1>8, <1>16 DEF Typed
  <2>2. \A f \in DOMAIN offsets' : offsets'[f] \in Nat
    BY <1>1, <1>15, <1>16 DEF Typed
  <2>3. current' \in 0..Len(program') /\ IsProgram(program') /\ scan' \in Trees
    BY <1>1, <1>2, <1>3, <1>8 DEF Typed, Trees
  <2>4. locals' \subseteq Name /\ externals' \in Seq(Name) /\ patched' \in BOOLEAN /\ counter' \in Nat
    BY <1>1, <1>8 DEF Typed
  <2> QED BY <1>1, <1>8, <1>11, <1>14, <2>1, <2>2, <2>3, <2>4 DEF Typed
<1>18. \A i \in DOMAIN todo' : ItemRight(todo'[i]) /\ \A n \in Nat : ~Owes(todo'[i], n)
  BY <1>1, <1>11, <1>12, DoRight
<1>19. ItemsRight'
  BY <1>18 DEF ItemsRight, ItemRight, Waiting
<1>20. \A n \in Nat : Placed(n)' <=> Placed(n)
  BY <1>14 DEF Placed
<1>21. Issued'
  BY <1>1, <1>8, <1>18, <1>20, SMTT(60) DEF Issued, Owes, Waiting
<1>22. \A n \in Nat : Ahead(n) => Ahead(n)'
  BY <1>2, <1>20 DEF Ahead
<1>23. \A p \in out'.patches : Lands(p.to)'
  <2>1. ASSUME NEW p \in out.patches
        PROVE  Lands(p.to)'
    <3>1. PICK t \in Target : t = p.to
      BY <1>1, OutputTyped DEF Patch
    <3>2. Lands(t) /\ (t.sort = "label" => t.id \in Nat)
      BY <1>1, <3>1, LocalTarget DEF Landing
    <3>3. EpilogueAhead(t.id) => EpilogueAhead(t.id)'
      BY <1>2, <1>14 DEF EpilogueAhead
    <3>4. Lands(t)'
      BY <1>16, <1>22, <3>2, <3>3 DEF Lands
    <3> QED BY <3>1, <3>4
  <2> QED BY <1>14, <2>1
<1>24. \A n \in {breakLabel', continueLabel', catchLabel'} : n # NoLabel => Ahead(n)'
  BY <1>1, <1>8, <1>22 DEF Landing, Label
<1>25. ASSUME NEW i \in DOMAIN todo', NEW n \in Nat, Refers(todo'[i], n)
       PROVE  Ahead(n)'
  <2>1. n \in {breakLabel, continueLabel, catchLabel}
    BY <1>1, <1>7, <1>11, <1>25, DoRight
  <2> QED BY <1>8, <1>24, <2>1 DEF NoLabel
<1>26. Landing'
  BY <1>23, <1>24, <1>25 DEF Landing, Refers
<1>27. EpilogueAhead(program[current].name)'
  <2>1. \E i \in DOMAIN todo' : todo'[i].at = "epilogue"
    BY <1>7, <1>11
  <2> QED BY <1>8, <2>1 DEF EpilogueAhead
<1>28. \A i \in 1..(current + 1) : offsets'[program'[i].name] > 0
  <2>1. ASSUME NEW i \in 1..(current + 1)
        PROVE  offsets'[program[i].name] > 0
    <3>1. program[i].name \in DOMAIN offsets
      BY <1>1, <1>3 DEF Typed
    <3>2. CASE program[i].name = func.name
      BY <1>15, <1>16, <3>1, <3>2
    <3>3. CASE program[i].name # func.name
      <4>1. i \in 1..current
        BY <1>1, <1>4, <3>3
      <4> QED BY <1>1, <1>16, <3>1, <3>3, <4>1 DEF Begun
    <3> QED BY <3>2, <3>3
  <2> QED BY <1>8, <2>1
<1>29. Begun'
  <2>1. ~patched
    BY <1>1, <1>2 DEF Begun, Typed
  <2> QED BY <1>1, <1>8, <1>27, <1>28, <2>1 DEF Begun
<1>30. LabelsKept
  BY <1>14 DEF LabelsKept
<1> QED BY <1>17, <1>19, <1>21, <1>26, <1>29, <1>30 DEF Inv, Kept

-----------------------------------------------------------------------------
(* Steps that leave the stack and the labels alone.                        *)
LEMMA OthersStay ==
  ASSUME Inv, Typed',
         UNCHANGED <<program, current, todo, counter, breakLabel, continueLabel, catchLabel, offsets>>,
         out'.labels = out.labels, out'.patches = out.patches,
         patched' => todo = << >> /\ current = Len(program)
  PROVE  Kept
<1>1. Typed /\ ItemsRight /\ Issued /\ Landing /\ Begun
  BY DEF Inv
<1>2. ItemsRight'
  BY <1>1 DEF ItemsRight, ItemRight, Waiting
<1>3. Issued'
  BY <1>1 DEF Issued, Placed, Owes, Waiting
<1>4. \A n : Ahead(n) => Ahead(n)'
  BY DEF Ahead, Placed, Owes, Waiting
<1>5. \A f : EpilogueAhead(f) => EpilogueAhead(f)'
  BY DEF EpilogueAhead
<1>6. \A t : Lands(t) => Lands(t)'
  BY <1>4, <1>5 DEF Lands
<1>7. Landing'
  BY <1>1, <1>4, <1>6 DEF Landing, Refers
<1>8. Begun'
  BY <1>1, <1>5 DEF Begun
<1>9. LabelsKept
  BY DEF LabelsKept
<1> QED BY <1>2, <1>3, <1>7, <1>8, <1>9 DEF Inv, Kept

LEMMA InBlockTyped ==
  ASSUME NEW s \in Statement
  PROVE  InBlock(s) \in Seq(Statement)
BY EmptySeq, StatementAssumption DEF InBlock, AreStatements, IsStatement

LEMMA ScannedTyped ==
  ASSUME NEW s \in Statement
  PROVE  Scanned(s) \in Seq(Statement)
<1>1. IsStatement(s, Statement)
  BY StatementAssumption DEF AreStatements
<1>2. CASE s.kind = "block"
  BY <1>1, <1>2 DEF Scanned, IsStatement
<1>3. CASE s.kind = "if"
  <2>1. InBlock(s.then) \in Seq(Statement)
    BY <1>1, <1>3, InBlockTyped DEF IsStatement
  <2>2. s.otherwise # << >> => InBlock(s.otherwise[1]) \in Seq(Statement)
    BY <1>1, <1>3, FirstOf, InBlockTyped DEF IsStatement
  <2>3. PICK t \in Seq(Statement) : t = IF s.otherwise = << >> THEN << >> ELSE InBlock(s.otherwise[1])
    BY <2>2, EmptySeq
  <2>4. Scanned(s) = InBlock(s.then) \o t
    BY <1>3, <2>3 DEF Scanned
  <2> QED BY <2>1, <2>4, ConcatProperties
<1>4. CASE s.kind = "while"
  BY <1>1, <1>4, InBlockTyped DEF Scanned, IsStatement
<1>5. CASE s.kind = "for"
  <2>1. InBlock(s.body) \in Seq(Statement)
    BY <1>1, <1>5, InBlockTyped DEF IsStatement
  <2>2. PICK t \in Seq(Statement) :
          t = IF s.init # << >> /\ s.init[1].kind = "declare" THEN s.init ELSE << >>
    BY <1>1, <1>5, EmptySeq DEF IsStatement
  <2>3. Scanned(s) = t \o InBlock(s.body)
    BY <1>5, <2>2 DEF Scanned
  <2> QED BY <2>1, <2>3, ConcatProperties
<1>6. CASE s.kind \notin {"block", "if", "while", "for"}
  BY <1>6, EmptySeq DEF Scanned
<1> QED BY <1>2, <1>3, <1>4, <1>5, <1>6

LEMMA ScanStays ==
  ASSUME Inv, ScanDeclaration \/ ScanStatement
  PROVE  Kept
<1>1. Typed /\ Begun /\ scan \in Seq(Statement) /\ scan # << >>
  BY DEF Inv, Typed, Trees, ScanDeclaration, ScanStatement
<1>2. Head(scan) \in Statement /\ Tail(scan) \in Seq(Statement)
  BY <1>1, HeadTailProperties
<1>3. UNCHANGED <<program, current, todo, out, counter, targets, symbols, patched>>
  BY DEF ScanDeclaration, ScanStatement
<1>4. scan' \in Seq(Statement) /\ locals' \subseteq Name
  <2>1. CASE ScanDeclaration
    <3>1. Head(scan).name \in Name
      BY <1>2, <2>1, StatementAssumption DEF ScanDeclaration, AreStatements, IsStatement
    <3> QED BY <1>1, <1>2, <2>1, <3>1 DEF ScanDeclaration, Typed
  <2>2. CASE ScanStatement
    BY <1>1, <1>2, <2>2, ScannedTyped, ConcatProperties DEF ScanStatement, Typed
  <2> QED BY <2>1, <2>2
<1>5. Typed'
  BY <1>1, <1>3, <1>4 DEF Typed, Trees, targets, symbols
<1> QED BY <1>1, <1>3, <1>5, OthersStay DEF Begun, targets, symbols

LEMMA RemainderInt ==
  ASSUME NEW a \in Int, NEW b \in Nat \ {0}
  PROVE  a % b \in Int
OBVIOUS

LEMMA FilledTyped ==
  ASSUME Typed, NEW p \in out.patches
  PROVE  Filled(out, p) \in Instruction
<1>1. out \in Output
  BY DEF Typed
<1>2. /\ p \in Patch /\ p.at \in 1..Len(out.code) /\ out.code \in Seq(Instruction)
      /\ out.labels \in Placements
  BY <1>1, OutputTyped
<1>3. p.at \in Int /\ p.when \in {"always", "equal", "notequal", "call"} /\ out.code[p.at] \in Instruction
  BY <1>2, ElementOfSeq DEF Patch
<1>4. \A f \in DOMAIN offsets : offsets[f] \in Int
  BY DEF Typed
<1>5. \A d \in Int : Short(d) \in Int
  <2>1. Reach \in Int /\ 2 * Reach \in Nat \ {0}
    BY ReachAssumption
  <2>2. ASSUME NEW d \in Int
        PROVE  Short(d) \in Int
    <3>1. PICK a \in Int : a = d + Reach
      BY <2>1
    <3>2. PICK b \in Nat \ {0} : b = 2 * Reach
      BY <2>1
    <3>3. a % b \in Int
      BY RemainderInt
    <3> QED BY <2>1, <3>1, <3>2, <3>3 DEF Short
  <2> QED BY <2>2
<1>6. CASE p.to \in DOMAIN out.labels
  <2>1. out.labels[p.to] \in Int
    BY <1>2, <1>6 DEF Placements
  <2>2. PICK d \in Int : d = out.labels[p.to] - p.at
    BY <1>3, <2>1
  <2>3. PICK arg \in Int : arg = IF p.when \in {"equal", "notequal"} THEN Short(d) ELSE d
    BY <1>5
  <2>4. Filled(out, p) = [op |-> p.when, arg |-> arg]
    BY <1>6, <2>2, <2>3 DEF Filled
  <2> QED BY <1>3, <2>4 DEF Instruction
<1>7. CASE p.to \notin DOMAIN out.labels /\ p.to.sort = "function" /\ p.to.id \in DOMAIN offsets
           /\ offsets[p.to.id] > 0
  <2>1. PICK arg \in Int : arg = offsets[p.to.id] - p.at
    BY <1>3, <1>4, <1>7
  <2>2. Filled(out, p) = [op |-> "call", arg |-> arg]
    BY <1>7, <2>1 DEF Filled
  <2> QED BY <2>2 DEF Instruction
<1>8. CASE p.to \notin DOMAIN out.labels
           /\ ~(p.to.sort = "function" /\ p.to.id \in DOMAIN offsets /\ offsets[p.to.id] > 0)
  BY <1>3, <1>8 DEF Filled
<1> QED BY <1>6, <1>7, <1>8

LEMMA PatchStays ==
  ASSUME Inv, PatchBranches
  PROVE  Kept
<1>1. Typed /\ out \in Output
  BY DEF Inv, Typed
<1>2. todo = << >> /\ current = Len(program) /\ patched' = TRUE
      /\ UNCHANGED <<program, current, scan, todo, counter, targets, locals, symbols>>
  BY DEF PatchBranches
<1> DEFINE At1(i) == IF \E p \in out.patches : p.at = i
                     THEN Filled(out, CHOOSE p \in out.patches : p.at = i) ELSE out.code[i]
           code == [i \in DOMAIN out.code |-> At1(i)]
<1>3. out' = [out EXCEPT !.code = code]
  BY DEF PatchBranches
<1>4. out.code \in Seq(Instruction) /\ Len(out.code) \in Nat /\ DOMAIN out.code = 1..Len(out.code)
  BY <1>1, OutputTyped, LenProperties
<1>5. ASSUME NEW i \in 1..Len(out.code)
      PROVE  At1(i) \in Instruction
  <2>1. CASE \E p \in out.patches : p.at = i
    <3>1. PICK p \in out.patches : p = CHOOSE r \in out.patches : r.at = i
      BY <2>1
    <3> QED BY <1>1, <2>1, <3>1, FilledTyped
  <2>2. CASE ~\E p \in out.patches : p.at = i
    BY <1>4, <2>2, ElementOfSeq
  <2> QED BY <2>1, <2>2
<1> HIDE DEF At1
<1>6. code \in [1..Len(out.code) -> Instruction]
  BY <1>4, <1>5
<1>7. code \in Seq(Instruction) /\ Len(code) = Len(out.code)
  BY <1>4, <1>6, SeqDef, LenProperties
<1> HIDE DEF code
<1>8. out' = [code |-> code, labels |-> out.labels, patches |-> out.patches]
  BY <1>1, <1>3, OutputTyped
<1>9. out' \in Output
  BY <1>1, <1>7, <1>8, OutputTyped, OutputParts
<1>10. Typed'
  BY <1>1, <1>2, <1>9 DEF Typed, targets, symbols
<1>11. out'.labels = out.labels /\ out'.patches = out.patches
  BY <1>8
<1> QED BY <1>2, <1>10, <1>11, OthersStay DEF targets, symbols

-----------------------------------------------------------------------------
LEMMA InitHolds == Init => Inv
<1> SUFFICES ASSUME Init
             PROVE  Inv
  OBVIOUS
<1>1. IsProgram(program) /\ Len(program) \in Nat
  BY ProgramsAssumption, LenProperties DEF Init, IsProgram
<1>2. out = [code |-> << >>, labels |-> << >>, patches |-> {}] /\ todo = << >> /\ scan = << >>
  BY DEF Init
<1>3. << >> \in Seq(Instruction) /\ << >> \in Seq(ItemType) /\ << >> \in Seq(Statement)
      /\ << >> \in Seq(Name) /\ DOMAIN << >> = {}
  BY EmptySeq, LenProperties
<1>4. PICK none : none = << >> /\ DOMAIN none = {}
  BY <1>3
<1>5. none \in Placements
  <2>1. none \in [{} -> Nat \ {0}]
    BY <1>4
  <2> QED BY <2>1 DEF Placements
<1>6. out \in Output
  <2>1. PICK P : P = {}
    OBVIOUS
  <2> QED BY <1>2, <1>3, <1>4, <1>5, <2>1, OutputParts
<1>7. Typed
  <2>1. /\ DOMAIN offsets = {program[i].name : i \in DOMAIN program}
        /\ \A f \in DOMAIN offsets : offsets[f] \in Nat
    BY DEF Init
  <2>2. scan \in Trees /\ todo \in Seq(ItemType)
    BY <1>2, <1>3 DEF Trees
  <2>3. externals = << >> /\ current = 0 /\ counter = 0 /\ locals = {} /\ patched = FALSE
    BY DEF Init
  <2>4. externals \in Seq(Name) /\ locals \subseteq Name /\ patched \in BOOLEAN
    BY <1>3, <2>3
  <2>5. current \in 0..Len(program) /\ counter \in Nat
    BY <1>1, <2>3
  <2>6. breakLabel \in Label /\ continueLabel \in Label /\ catchLabel \in Label
    BY DEF Init, Label
  <2> QED BY <1>1, <1>6, <2>1, <2>2, <2>4, <2>5, <2>6 DEF Typed
<1>8. DOMAIN out.labels = {} /\ out.patches = {} /\ DOMAIN todo = {}
  BY <1>2, <1>3
<1>9. ItemsRight /\ Issued /\ Landing
  BY <1>8 DEF ItemsRight, Issued, Landing, Placed, Init
<1>10. Begun
  BY <1>2 DEF Begun, Init
<1> QED BY <1>7, <1>9, <1>10 DEF Inv

LEMMA Step == Inv /\ [Next]_vars => Kept
<1> SUFFICES ASSUME Inv, [Next]_vars
             PROVE  Kept
  OBVIOUS
<1>1. CASE Statements
  BY <1>1, SimpleStays, ThrowStays, BlockStays DEF Statements
<1>2. CASE Conditionals
  BY <1>2, IfStays, ElseStays, EndIfStays DEF Conditionals
<1>3. CASE Loops
  BY <1>3, WhileStays, EndWhileStays, DoWhileStays, EndDoWhileStays, ForStays, ForTestStays, EndForStays
     DEF Loops
<1>4. CASE Handlers
  BY <1>4, TryStays, CatchStays DEF Handlers
<1>5. CASE BeginFunction \/ EndFunction
  BY <1>5, BeginStays, EndFunctionStays
<1>6. CASE ScanDeclaration \/ ScanStatement
  BY <1>6, ScanStays
<1>7. CASE PatchBranches
  BY <1>7, PatchStays
<1>8. CASE UNCHANGED vars
  <2>1. UNCHANGED <<program, current, scan, todo, out, counter, targets, locals, symbols, patched>>
    BY <1>8 DEF vars
  <2>2. Typed'
    BY <2>1 DEF Inv, Typed, targets, symbols
  <2> QED BY <2>1, <2>2, OthersStay DEF Inv, Begun, targets, symbols
<1> QED BY <1>1, <1>2, <1>3, <1>4, <1>5, <1>6, <1>7, <1>8 DEF Next

LEMMA Invariant == Spec => []Inv
<1>1. Inv /\ [Next]_vars => Inv'
  BY Step DEF Kept
<1> QED BY <1>1, InitHolds, PTL DEF Spec

(* The variables have their types (TypeOK).                                *)
THEOREM TypeCorrect == Spec => []TypeOK
<1>1. Inv => TypeOK
  <2> SUFFICES ASSUME Typed
               PROVE  TypeOK
    BY DEF Inv
  <2>1. out.code \in Seq(Instruction) /\ out.labels \in Placements /\ out.patches \subseteq Patch
    BY OutputTyped DEF Typed
  <2>2. DOMAIN out.labels \subseteq Target /\ \A t \in DOMAIN out.labels : out.labels[t] \in Nat \ {0}
    BY <2>1 DEF Placements
  <2> QED BY <2>1, <2>2 DEF Typed, TypeOK
<1> QED BY <1>1, Invariant, PTL

(* Once patch_branches has run, every branch has somewhere to go           *)
(* (EveryBranchLands): nothing waits any more, so whatever was ahead is    *)
(* placed, and every function has been begun.                              *)
THEOREM BranchesLand == Spec => []EveryBranchLands
<1>1. Inv => EveryBranchLands
  <2> SUFFICES ASSUME Inv, patched, NEW p \in out.patches
               PROVE  \/ p.to \in DOMAIN out.labels
                      \/ p.to.sort = "function" /\ p.to.id \in DOMAIN offsets /\ offsets[p.to.id] > 0
                      \/ p.to.sort = "extern"
    BY DEF EveryBranchLands
  <2>1. Typed /\ Landing /\ Begun
    BY DEF Inv
  <2>2. todo = << >> /\ DOMAIN todo = {} /\ current = Len(program)
    BY <2>1, EmptySeq, LenProperties DEF Begun
  <2>3. PICK t \in Target : t = p.to /\ Lands(t)
    BY <2>1, OutputTyped DEF Typed, Landing, Patch
  <2>4. CASE t.sort = "label"
    BY <2>2, <2>3, <2>4, LocalTarget DEF Lands, Ahead, Placed
  <2>5. CASE t.sort = "epilogue"
    <3>1. t = Epilogue(t.id)
      BY <2>5 DEF Target, Epilogue
    <3> QED BY <2>2, <2>3, <2>5, <3>1 DEF Lands, EpilogueAhead
  <2>6. CASE t.sort = "function"
    <3>1. t.id \in DOMAIN offsets
      BY <2>3, <2>6 DEF Lands
    <3>2. PICK i \in DOMAIN program : t.id = program[i].name
      BY <2>1, <3>1 DEF Typed
    <3>3. i \in 1..current
      BY <2>1, <2>2, LenProperties DEF Typed, IsProgram
    <3> QED BY <2>1, <2>3, <2>6, <3>1, <3>2, <3>3 DEF Begun
  <2>7. t.sort \in {"label", "epilogue", "function", "extern"}
    BY DEF Target
  <2> QED BY <2>3, <2>4, <2>5, <2>6, <2>7
<1> QED BY <1>1, Invariant, PTL

(* A label once placed keeps its place (LabelsStay): its number is below   *)
(* the counter and owed by no handler, and a step places new numbers or    *)
(* those owed.                                                             *)
THEOREM LabelsAreFixed == Spec => LabelsStay
<1>1. Inv /\ [Next]_vars =>
        [\A t \in DOMAIN out.labels : t.sort = "label" =>
           t \in DOMAIN out'.labels /\ out'.labels[t] = out.labels[t]]_vars
  BY Step DEF Kept, LabelsKept
<1> QED BY <1>1, Invariant, PTL DEF Spec, LabelsStay

-----------------------------------------------------------------------------
(* Sequences from a place on.                                              *)
Suffix(t, i) == SubSeq(t, i, Len(t))

(* Where the generator is: the next instruction, what is left to do, and   *)
(* the function.                                                           *)
Place == [at : Nat \ {0}, todo : Seq(ItemType), fn : Nat]
Here == [at |-> Len(out.code) + 1, todo |-> todo, fn |-> current]
Comes(H, p, t, fn) == [at |-> p, todo |-> t, fn |-> fn] \in H

(* What is written.                                                        *)
Emitted(o, p, op, arg) ==
  p \in 1..Len(o.code) /\ o.code[p] = [op |-> op, arg |-> arg] /\ \A q \in o.patches : q.at # p
Jumps(o, p, when, to) == [at |-> p, when |-> when, to |-> to] \in o.patches
LabelAt(o, n, p) == Local(n) \in DOMAIN o.labels /\ o.labels[Local(n)] = p

(* Items.                                                                  *)
Stmt(d, s) == d \in ItemType /\ d.at = "statement" /\ d.node = s
Stmts(g, body) ==
  g \in Seq(ItemType) /\ Len(g) = Len(body) /\ \A i \in 1..Len(body) : Stmt(g[i], body[i])
Waits(x, at, node) == x \in ItemType /\ x.at = at /\ x.node = node

(* From a place to the ones after its item, or after its new items.        *)
Leaves(H, c, p) == Comes(H, p, Suffix(c.todo, 2), c.fn)
Opens(H, c, p, s, x) ==
  \E d \in ItemType : Stmt(d, s) /\ Comes(H, p, <<d, x>> \o Suffix(c.todo, 2), c.fn)

(* What is written for an item.                                            *)
TopItem(c) == c.todo[1]
TopIs(c, at) == TopItem(c).at = at
TopKind(c, kinds) == TopIs(c, "statement") /\ TopItem(c).node.kind \in kinds
FirstAt(t, points, i) ==
  i \in 1..Len(t) /\ t[i].at \in points /\ \A j \in 1..(i - 1) : t[j].at \notin points
Latest(unit, f) == \A j \in DOMAIN unit : unit[j].name = unit[f].name => j <= f

WroteAct(o, H, c) == Emitted(o, c.at, "act", TopItem(c).node.id) /\ Leaves(H, c, c.at + 1)
WroteCall(o, H, c) == Jumps(o, c.at, "call", Function(TopItem(c).node.name)) /\ Leaves(H, c, c.at + 1)
WroteReturn(unit, o, c) == Jumps(o, c.at, "always", Epilogue(unit[c.fn].name))
WroteBreak(o, c) ==
  \E i \in 1..Len(c.todo) :
    /\ FirstAt(c.todo, LoopPoints, i) /\ c.todo[i].at # "for"
    /\ Jumps(o, c.at, "always", Local(c.todo[i].end))
WroteContinue(o, c) ==
  \E i \in 1..Len(c.todo) :
    /\ FirstAt(c.todo, LoopPoints, i) /\ c.todo[i].at # "for"
    /\ Jumps(o, c.at, "always", Local(IF c.todo[i].at = "while" THEN c.todo[i].head ELSE c.todo[i].step))
WroteThrow(o, c) ==
  \/ /\ \A i \in 1..Len(c.todo) : c.todo[i].at # "catch"
     /\ \E n \in Nat : Jumps(o, c.at, "always", Local(n)) /\ LabelAt(o, n, c.at)
  \/ \E i \in 1..Len(c.todo) :
       /\ FirstAt(c.todo, {"catch"}, i) /\ c.todo[i].clause = 0
       /\ Jumps(o, c.at, "always", Local(c.todo[i].head))
WroteNothing(H, c) == Leaves(H, c, c.at)
WroteBlock(H, c) ==
  \E g \in Seq(ItemType) :
    Stmts(g, TopItem(c).node.body) /\ Comes(H, c.at, g \o Suffix(c.todo, 2), c.fn)
WroteIf(o, H, c) ==
  LET n == TopItem(c).node
  IN  \E x \in ItemType :
        /\ Waits(x, IF n.otherwise = << >> THEN "endif" ELSE "else", n)
        /\ Emitted(o, c.at, "test", n.id)
        /\ Jumps(o, c.at + 1, "equal", Local(IF n.otherwise = << >> THEN x.end ELSE x.head))
        /\ Opens(H, c, c.at + 2, n.then, x)
WroteElse(o, H, c) ==
  LET x == TopItem(c)
  IN  \E y \in ItemType :
        /\ Waits(y, "endif", x.node)
        /\ Jumps(o, c.at, "always", Local(x.end)) /\ LabelAt(o, x.head, c.at + 1)
        /\ Opens(H, c, c.at + 1, x.node.otherwise[1], y)
WroteEndIf(H, c) == Leaves(H, c, c.at)
WroteWhile(o, H, c) ==
  LET n == TopItem(c).node
  IN  \E x \in ItemType :
        /\ Waits(x, "while", n)
        /\ LabelAt(o, x.head, c.at) /\ Emitted(o, c.at, "test", n.id)
        /\ Jumps(o, c.at + 1, "equal", Local(x.end))
        /\ Opens(H, c, c.at + 2, n.body, x)
WroteEndWhile(o, H, c) ==
  Jumps(o, c.at, "always", Local(TopItem(c).head)) /\ Leaves(H, c, c.at + 1)
WroteDoWhile(o, H, c) ==
  LET n == TopItem(c).node
  IN  \E x \in ItemType :
        Waits(x, "dowhile", n) /\ LabelAt(o, x.head, c.at) /\ Opens(H, c, c.at, n.body, x)
WroteEndDoWhile(o, H, c) ==
  LET x == TopItem(c)
  IN  /\ LabelAt(o, x.step, c.at) /\ Emitted(o, c.at, "test", x.node.id)
      /\ Jumps(o, c.at + 1, "notequal", Local(x.head)) /\ Leaves(H, c, c.at + 2)
WroteFor(H, c) ==
  LET n == TopItem(c).node
  IN  \E x \in ItemType, g \in Seq(ItemType) :
        /\ Waits(x, "for", n) /\ Stmts(g, n.init)
        /\ Comes(H, c.at, (g \o <<x>>) \o Suffix(c.todo, 2), c.fn)
WroteForTest(o, H, c) ==
  LET x == TopItem(c)
  IN  \E y \in ItemType :
        /\ Waits(y, "step", x.node) /\ y.end = x.end
        /\ LabelAt(o, x.head, c.at)
        /\ IF x.node.test = << >> THEN Opens(H, c, c.at, x.node.body, y)
           ELSE /\ Emitted(o, c.at, "test", x.node.test[1])
                /\ Jumps(o, c.at + 1, "equal", Local(x.end))
                /\ Opens(H, c, c.at + 2, x.node.body, y)
WroteEndFor(o, H, c) ==
  LET x == TopItem(c)
  IN  /\ LabelAt(o, x.step, c.at)
      /\ IF x.node.step = << >> THEN Jumps(o, c.at, "always", Local(x.head))
         ELSE Emitted(o, c.at, "act", x.node.step[1]) /\ Jumps(o, c.at + 1, "always", Local(x.head))
WroteTry(H, c) ==
  LET n == TopItem(c).node
  IN  \E x \in ItemType : Waits(x, "catch", n) /\ x.clause = 0 /\ Opens(H, c, c.at, n.body, x)
WroteCatch(o, H, c) ==
  LET x == TopItem(c)
  IN  /\ Jumps(o, c.at, "always", Local(x.end))
      /\ x.clause = 0 => LabelAt(o, x.head, c.at + 1)
      /\ x.clause = Len(x.node.clauses) => Leaves(H, c, c.at + 1)
      /\ x.clause # Len(x.node.clauses) =>
           \E y \in ItemType :
             /\ Waits(y, "catch", x.node) /\ y.clause = x.clause + 1
             /\ Opens(H, c, c.at + 1, x.node.clauses[x.clause + 1], y)
WroteEpilogue(unit, o, c) ==
  /\ Emitted(o, c.at, "leave", 0)
  /\ Latest(unit, c.fn) =>
       /\ Epilogue(unit[c.fn].name) \in DOMAIN o.labels
       /\ o.labels[Epilogue(unit[c.fn].name)] = c.at

DoneStatement(unit, o, H, c) ==
  /\ TopKind(c, {"act", "declare"}) => WroteAct(o, H, c)
  /\ TopKind(c, {"call"}) => WroteCall(o, H, c)
  /\ TopKind(c, {"return"}) => WroteReturn(unit, o, c)
  /\ TopKind(c, {"break"}) => WroteBreak(o, c)
  /\ TopKind(c, {"continue"}) => WroteContinue(o, c)
  /\ TopKind(c, {"throw"}) => WroteThrow(o, c)
  /\ TopKind(c, {"other"}) => WroteNothing(H, c)
  /\ TopKind(c, {"block"}) => WroteBlock(H, c)
  /\ TopKind(c, {"if"}) => WroteIf(o, H, c)
  /\ TopKind(c, {"while"}) => WroteWhile(o, H, c)
  /\ TopKind(c, {"dowhile"}) => WroteDoWhile(o, H, c)
  /\ TopKind(c, {"for"}) => WroteFor(H, c)
  /\ TopKind(c, {"try"}) => WroteTry(H, c)
DoneItem(unit, o, H, c) ==
  /\ TopIs(c, "else") => WroteElse(o, H, c)
  /\ TopIs(c, "endif") => WroteEndIf(H, c)
  /\ TopIs(c, "while") => WroteEndWhile(o, H, c)
  /\ TopIs(c, "dowhile") => WroteEndDoWhile(o, H, c)
  /\ TopIs(c, "for") => WroteForTest(o, H, c)
  /\ TopIs(c, "step") => WroteEndFor(o, H, c)
  /\ TopIs(c, "catch") => WroteCatch(o, H, c)
  /\ TopIs(c, "epilogue") => WroteEpilogue(unit, o, c)
Done(unit, o, H, c) == DoneStatement(unit, o, H, c) /\ DoneItem(unit, o, H, c)

-----------------------------------------------------------------------------
(* The places the generator has come to.                                   *)
StackRight(t, unit, fn) ==
  /\ t \in Seq(ItemType) /\ \A i \in 1..Len(t) : ItemRight(t[i])
  /\ \A i \in 1..Len(t) : t[i].at = "epilogue" <=> i = Len(t)
  /\ t # << >> => t[Len(t)].node = unit[fn].body
PlaceRight(c, unit, n) ==
  /\ c \in Place /\ c.fn \in 1..n /\ StackRight(c.todo, unit, c.fn)

(* What is left at a place is left now, or was done.                       *)
Suffixed(H, c, i) ==
  \/ c.fn = current /\ \E j \in 1..Len(todo) : Suffix(todo, j) = Suffix(c.todo, i)
  \/ \E p \in Nat : Comes(H, p, Suffix(c.todo, i), c.fn)

(* The end of an item that waits is still to come, or was placed.          *)
Exits(o, H, c, i) ==
  \/ /\ c.fn = current
     /\ \E j \in 1..Len(todo) :
          /\ todo[j].at \in Waiting /\ todo[j].end = c.todo[i].end
          /\ Suffix(todo, j + 1) = Suffix(c.todo, i + 1)
  \/ \E p \in Nat : LabelAt(o, c.todo[i].end, p) /\ Comes(H, p, Suffix(c.todo, i + 1), c.fn)

(* A loop goes back to where it was begun.                                 *)
BornWith(o, H, x, K, fn) ==
  /\ x.at \in {"while", "dowhile"} =>
       /\ x.node.kind = x.at
       /\ \E q \in Nat, d \in ItemType :
            Stmt(d, x.node) /\ LabelAt(o, x.head, q) /\ Comes(H, q, <<d>> \o K, fn)
  /\ x.at = "step" =>
       \E q \in Nat, y \in ItemType :
         Waits(y, "for", x.node) /\ LabelAt(o, x.head, q) /\ Comes(H, q, <<y>> \o K, fn)
Born(o, H, c, i) == BornWith(o, H, c.todo[i], Suffix(c.todo, i + 1), c.fn)

(* A function that counts starts at its offset.                            *)
Entered(o, H, unit, f, p) ==
  /\ Emitted(o, p, "enter", 0)
  /\ \E g \in Seq(ItemType), e \in ItemType :
       /\ Stmts(g, unit[f].body.body) /\ Waits(e, "epilogue", unit[f].body)
       /\ Comes(H, p + 1, g \o <<e>>, f)

PlacesRight(H) == \A c \in H : PlaceRight(c, program, current)
AllDone(H) == \A c \in H : c.todo # << >> => c = Here \/ Done(program, out, H, c)
AllSuffixed(H) == \A c \in H : \A i \in 1..Len(c.todo) : Suffixed(H, c, i)
AllExit(H) == \A c \in H : \A i \in 1..Len(c.todo) : c.todo[i].at \in Waiting => Exits(out, H, c, i)
AllBorn(H) == \A c \in H : \A i \in 1..Len(c.todo) : Born(out, H, c, i)
EpilogueLast(H) ==
  \A c \in H : c.fn = current /\ c.todo # << >> /\ TopIs(c, "epilogue") => c = Here \/ todo = << >>
AllEntered(H) ==
  \A f \in 1..current : Latest(program, f) => Entered(out, H, program, f, offsets[program[f].name])
History(H) ==
  /\ current > 0 => Here \in H
  /\ PlacesRight(H) /\ AllDone(H) /\ AllSuffixed(H) /\ AllExit(H) /\ AllBorn(H)
  /\ EpilogueLast(H) /\ AllEntered(H)

(* The targets in force, and the ones saved, are those of the loop and the *)
(* try statement around.                                                   *)
Governs(t, i, points, j) ==
  j \in 1..Len(t) /\ i < j /\ t[j].at \in points /\ \A k \in (i + 1)..(j - 1) : t[k].at \notin points
ResumeOf(x) == IF x.at = "while" THEN x.head ELSE x.step
LoopTargets(t, i, b, c) ==
  \A j \in 1..Len(t) : Governs(t, i, LoopPoints, j) => b = t[j].end /\ c = ResumeOf(t[j])
CatchTarget(t, i, h) ==
  /\ \A j \in 1..Len(t) : Governs(t, i, {"catch"}, j) => h = t[j].head
  /\ (\A j \in 1..Len(t) : i < j => t[j].at # "catch") => h = NoLabel
TargetsRight ==
  /\ LoopTargets(todo, 0, breakLabel, continueLabel) /\ CatchTarget(todo, 0, catchLabel)
  /\ \A i \in 1..Len(todo) :
       /\ todo[i].at \in LoopPoints => LoopTargets(todo, i, todo[i].savedBreak, todo[i].savedContinue)
       /\ todo[i].at = "catch" => CatchTarget(todo, i, todo[i].savedCatch)

(* One branch at a place; only labels and epilogues are placed.            *)
Apart(o) == \A p, q \in o.patches : p.at = q.at => p = q
Sorted(o) == \A t \in DOMAIN o.labels : t.sort \in {"label", "epilogue"}

(* The branches are filled in.                                             *)
Landed(o, p, offs) ==
  /\ p.to \in DOMAIN o.labels => LET offset == o.labels[p.to] - p.at
                                 IN o.code[p.at] = [op |-> p.when, arg |-> offset]
  /\ p.to \notin DOMAIN o.labels /\ p.to.sort = "function" /\ p.to.id \in DOMAIN offs /\ offs[p.to.id] > 0 =>
       o.code[p.at] = [op |-> "call", arg |-> offs[p.to.id] - p.at]
AllLanded == patched => \A p \in out.patches : Landed(out, p, offsets)

GenInv == Inv /\ TargetsRight /\ Apart(out) /\ Sorted(out) /\ AllLanded /\ \E H : History(H)

-----------------------------------------------------------------------------
(* The machine on given code: the next state, unless something shows, and  *)
(* states with the same next things that show.                             *)
Quiet(code, p, r) ==
  LET i == code[p]
  IN  ~(i.op \in {"act", "test"}) /\ ~(i.op = "always" /\ i.arg = 0) /\ ~(i.op = "leave" /\ r = << >>)
Moved(code, p, r, b) ==
  LET i == code[p]
  IN  << CASE i.op = "always" -> p + i.arg
           [] i.op = "equal" /\ ~b -> p + i.arg
           [] i.op = "notequal" /\ b -> p + i.arg
           [] i.op = "call" -> p + i.arg
           [] i.op = "leave" -> Head(r)
           [] OTHER -> p + 1,
         CASE i.op = "call" -> <<p + 1>> \o r
           [] i.op = "leave" -> Tail(r)
           [] OTHER -> r,
         b >>
ClosedUnder(code, C) ==
  \A p, r, b : <<p, r, b>> \in C /\ Quiet(code, p, r) => Moved(code, p, r, b) \in C
Leads(code, x, y) == \A C : ClosedUnder(code, C) /\ x \in C => y \in C
Meets(code, x, y) ==
  \A p, r, b : ~Quiet(code, p, r) => (Leads(code, x, <<p, r, b>>) <=> Leads(code, y, <<p, r, b>>))

(* What is left to be executed stands at a place.                          *)
RestPoints == {"statement", "join", "loop", "dotest", "fortest", "handler", "frame"}
RestType == [at : RestPoints, node : Statement]
PointOf(x) ==
  CASE x.at = "statement" -> "statement"
    [] x.at \in {"else", "endif"} -> "join"
    [] x.at \in {"while", "step"} -> "loop"
    [] x.at = "dowhile" -> "dotest"
    [] x.at = "for" -> "fortest"
    [] x.at = "catch" -> (IF x.clause = 0 THEN "handler" ELSE "join")
    [] OTHER -> "frame"
Means(x, y) == y \in RestType /\ y.at = PointOf(x) /\ (y.at # "join" => y.node = x.node)
Meant(t, s) == Len(t) <= Len(s) /\ \A i \in 1..Len(t) : Means(t[i], s[i])
Beside(H, unit, c, s) ==
  /\ c \in H /\ c.todo # << >> /\ Latest(unit, c.fn)
  /\ s \in Seq(RestType) /\ Meant(c.todo, s)
State(p, r, s) == [at |-> p, returns |-> r, rest |-> s]
Standing(H, unit, S, z) ==
  \E c \in H :
    /\ Beside(H, unit, c, z.rest) /\ z.at = c.at
    /\ \/ z.returns = << >> /\ Len(z.rest) = Len(c.todo)
       \/ /\ z.returns \in Seq(Int) /\ z.returns # << >>
          /\ State(Head(z.returns), Tail(z.returns), Suffix(z.rest, Len(c.todo) + 1)) \in S
Stands(H, unit, p, r, s) ==
  \E S : State(p, r, s) \in S /\ \A z \in S : Standing(H, unit, S, z)

(* The machine is where a stack stands, or goes there by itself.           *)
Agrees(H, unit, o, p, r, b, s) ==
  \E q, w : Stands(H, unit, q, w, s) /\ Meets(o.code, <<p, r, b>>, <<q, w, b>>)

-----------------------------------------------------------------------------
(* The machine.                                                            *)
LEMMA LeadsSelf ==
  ASSUME NEW code, NEW x
  PROVE  Leads(code, x, x)
BY DEF Leads

LEMMA LeadsBack ==
  ASSUME NEW code, NEW p, NEW r, NEW b, NEW y, Quiet(code, p, r), Leads(code, Moved(code, p, r, b), y)
  PROVE  Leads(code, <<p, r, b>>, y)
<1> SUFFICES ASSUME NEW C, ClosedUnder(code, C), <<p, r, b>> \in C
             PROVE  y \in C
  BY DEF Leads
<1> DEFINE m == Moved(code, p, r, b)
<1>1. m \in C
  BY DEF ClosedUnder
<1> HIDE DEF m
<1> QED BY <1>1 DEF Leads, m

LEMMA LeadsPast ==
  ASSUME NEW code, NEW p, NEW r, NEW b, NEW q, NEW s, NEW d,
         Quiet(code, p, r), Leads(code, <<p, r, b>>, <<q, s, d>>), ~Quiet(code, q, s)
  PROVE  Leads(code, Moved(code, p, r, b), <<q, s, d>>)
<1> DEFINE x == <<p, r, b>>
           y == <<q, s, d>>
           m == Moved(code, p, r, b)
<1> SUFFICES ASSUME NEW C, ClosedUnder(code, C), m \in C
             PROVE  y \in C
  BY DEF Leads
<1>1. x # y
  OBVIOUS
<1>2. ClosedUnder(code, C \cup {x})
  <2> SUFFICES ASSUME NEW p1, NEW r1, NEW b1, <<p1, r1, b1>> \in C \cup {x}, Quiet(code, p1, r1)
               PROVE  Moved(code, p1, r1, b1) \in C \cup {x}
    BY DEF ClosedUnder
  <2>1. CASE <<p1, r1, b1>> \in C
    BY <2>1 DEF ClosedUnder
  <2>2. CASE <<p1, r1, b1>> = x
    <3>1. p1 = p /\ r1 = r /\ b1 = b
      BY <2>2
    <3> QED BY <3>1
  <2> QED BY <2>1, <2>2
<1> HIDE DEF x, y, m
<1>3. y \in C \cup {x}
  BY <1>2 DEF Leads, x, y
<1> QED BY <1>1, <1>3

LEMMA LeadsStill ==
  ASSUME NEW code, NEW p, NEW r, NEW b, NEW y, ~Quiet(code, p, r), Leads(code, <<p, r, b>>, y)
  PROVE  y = <<p, r, b>>
<1>1. ClosedUnder(code, {<<p, r, b>>})
  <2> SUFFICES ASSUME NEW p1, NEW r1, NEW b1, <<p1, r1, b1>> \in {<<p, r, b>>}, Quiet(code, p1, r1)
               PROVE  FALSE
    BY DEF ClosedUnder
  <2>1. p1 = p /\ r1 = r
    OBVIOUS
  <2> QED BY <2>1
<1> QED BY <1>1 DEF Leads

(* States that show the same next: a state and the next one.               *)
LEMMA MeetsSelf ==
  ASSUME NEW code, NEW x
  PROVE  Meets(code, x, x)
BY DEF Meets

LEMMA MeetsBack ==
  ASSUME NEW code, NEW x, NEW y, Meets(code, x, y)
  PROVE  Meets(code, y, x)
BY DEF Meets

LEMMA MeetsThen ==
  ASSUME NEW code, NEW x, NEW y, NEW z, Meets(code, x, y), Meets(code, y, z)
  PROVE  Meets(code, x, z)
BY DEF Meets

LEMMA MeetsMoved ==
  ASSUME NEW code, NEW p, NEW r, NEW b, Quiet(code, p, r)
  PROVE  Meets(code, <<p, r, b>>, Moved(code, p, r, b))
<1> SUFFICES ASSUME NEW q, NEW s, NEW d, ~Quiet(code, q, s)
             PROVE  Leads(code, <<p, r, b>>, <<q, s, d>>) <=> Leads(code, Moved(code, p, r, b), <<q, s, d>>)
  BY DEF Meets
<1>1. Leads(code, Moved(code, p, r, b), <<q, s, d>>) => Leads(code, <<p, r, b>>, <<q, s, d>>)
  BY LeadsBack
<1>2. Leads(code, <<p, r, b>>, <<q, s, d>>) => Leads(code, Moved(code, p, r, b), <<q, s, d>>)
  BY LeadsPast
<1> QED BY <1>1, <1>2

(* Of two states that show something, each is the next of the other.       *)
LEMMA MeetsStill ==
  ASSUME NEW code, NEW p, NEW r, NEW b, NEW q, NEW s, NEW d,
         ~Quiet(code, p, r), ~Quiet(code, q, s), Meets(code, <<p, r, b>>, <<q, s, d>>)
  PROVE  p = q /\ r = s /\ b = d
<1>1. Leads(code, <<p, r, b>>, <<p, r, b>>)
  BY LeadsSelf
<1>2. Leads(code, <<q, s, d>>, <<p, r, b>>)
  BY <1>1 DEF Meets
<1>3. <<p, r, b>> = <<q, s, d>>
  BY <1>2, LeadsStill
<1> QED BY <1>3

(* What one instruction does.                                              *)
LEMMA Falls ==
  ASSUME NEW code, NEW p \in Int, NEW r, NEW b, code[p].op \in {"enter", "nop"}
  PROVE  Meets(code, <<p, r, b>>, <<p + 1, r, b>>)
<1>1. Quiet(code, p, r)
  BY DEF Quiet
<1>2. Moved(code, p, r, b) = <<p + 1, r, b>>
  BY DEF Moved
<1> QED BY <1>1, <1>2, MeetsMoved

LEMMA Branches0 ==
  ASSUME NEW code, NEW p \in Int, NEW q \in Int, NEW r, NEW b,
         code[p] = [op |-> "always", arg |-> q - p]
  PROVE  Meets(code, <<p, r, b>>, <<q, r, b>>)
<1>1. CASE q = p
  BY <1>1, MeetsSelf
<1>2. CASE q # p
  <2>1. Quiet(code, p, r)
    BY <1>2 DEF Quiet
  <2>2. Moved(code, p, r, b) = <<q, r, b>>
    BY <1>2 DEF Moved
  <2> QED BY <2>1, <2>2, MeetsMoved
<1> QED BY <1>1, <1>2

LEMMA BranchesIf ==
  ASSUME NEW code, NEW p \in Int, NEW q \in Int, NEW r, NEW b \in BOOLEAN, NEW when \in {"equal", "notequal"},
         code[p] = [op |-> when, arg |-> q - p]
  PROVE  Meets(code, <<p, r, b>>, <<IF b <=> (when = "notequal") THEN q ELSE p + 1, r, b>>)
<1>1. Quiet(code, p, r)
  BY DEF Quiet
<1>2. Moved(code, p, r, b) = <<IF b <=> (when = "notequal") THEN q ELSE p + 1, r, b>>
  BY DEF Moved
<1> QED BY <1>1, <1>2, MeetsMoved

LEMMA ReturnsTo ==
  ASSUME NEW code, NEW p, NEW r, NEW b, code[p].op = "leave", r # << >>
  PROVE  Meets(code, <<p, r, b>>, <<Head(r), Tail(r), b>>)
<1>1. Quiet(code, p, r)
  BY DEF Quiet
<1>2. Moved(code, p, r, b) = <<Head(r), Tail(r), b>>
  BY DEF Moved
<1> QED BY <1>1, <1>2, MeetsMoved

-----------------------------------------------------------------------------
(* The writers, once more: exactly what is added.                          *)
Sound(o) == o \in Output /\ Apart(o) /\ Sorted(o)
Emits(o, r, op, arg) ==
  /\ Sound(r) /\ Len(o.code) \in Nat /\ Len(r.code) = Len(o.code) + 1
  /\ \A i \in 1..Len(o.code) : r.code[i] = o.code[i]
  /\ r.code[Len(o.code) + 1] = [op |-> op, arg |-> arg]
  /\ r.labels = o.labels /\ r.patches = o.patches
  /\ \A p \in o.patches : p.at \in 1..Len(o.code)
Branches(o, r, when, to) ==
  /\ Sound(r) /\ Len(o.code) \in Nat /\ Len(r.code) = Len(o.code) + 1
  /\ \A i \in 1..Len(o.code) : r.code[i] = o.code[i]
  /\ r.labels = o.labels
  /\ r.patches = o.patches \cup {[at |-> Len(o.code) + 1, when |-> when, to |-> to]}
  /\ \A p \in o.patches : p.at \in 1..Len(o.code)
Binds(o, r, to) ==
  /\ Sound(r) /\ Len(o.code) \in Nat /\ r.code = o.code /\ r.patches = o.patches
  /\ DOMAIN r.labels = DOMAIN o.labels \cup {to} /\ r.labels[to] = Len(o.code) + 1
  /\ \A t \in DOMAIN o.labels : t # to => r.labels[t] = o.labels[t]
  /\ \A p \in o.patches : p.at \in 1..Len(o.code)

LEMMA SoundParts ==
  ASSUME NEW o, Sound(o)
  PROVE  /\ o \in Output /\ o.code \in Seq(Instruction) /\ Len(o.code) \in Nat
         /\ \A p \in o.patches : p \in Patch /\ p.at \in 1..Len(o.code)
BY OutputTyped, LenProperties DEF Sound

LEMMA EmitAdds ==
  ASSUME NEW o, Sound(o), NEW op, NEW arg, [op |-> op, arg |-> arg] \in Instruction
  PROVE  Emits(o, Emit(o, op, arg), op, arg)
<1> DEFINE i == [op |-> op, arg |-> arg]
           r == Emit(o, op, arg)
           code == Append(o.code, i)
<1>1. o \in Output /\ o.code \in Seq(Instruction) /\ i \in Instruction
  BY SoundParts
<1>2. r = [code |-> code, labels |-> o.labels, patches |-> o.patches]
  BY <1>1, OutputTyped, SMTT(60) DEF Emit
<1>3. r \in Output
  BY <1>1, EmitWrites DEF Writes
<1> HIDE DEF i, r
<1>4. /\ Len(code) = Len(o.code) + 1 /\ Len(o.code) \in Nat
      /\ \A k \in 1..Len(o.code) : code[k] = o.code[k]
      /\ code[Len(o.code) + 1] = i
  BY <1>1, AppendProperties, LenProperties
<1>5. Sound(r)
  BY <1>2, <1>3 DEF Sound, Apart, Sorted
<1>6. \A p \in o.patches : p.at \in 1..Len(o.code)
  BY SoundParts
<1> HIDE DEF code
<1> QED BY <1>2, <1>4, <1>5, <1>6 DEF Emits, r, i

LEMMA BranchAdds ==
  ASSUME NEW o, Sound(o), NEW when \in {"always", "equal", "notequal", "call"}, NEW to \in Target
  PROVE  Branches(o, Branch(o, when, to), when, to)
<1> DEFINE nop == [op |-> "nop", arg |-> 0]
           r == Branch(o, when, to)
           code == Append(o.code, nop)
           new == [at |-> Len(o.code) + 1, when |-> when, to |-> to]
<1>1. o \in Output /\ o.code \in Seq(Instruction) /\ nop \in Instruction
  BY SoundParts DEF Instruction
<1>2. r = [code |-> code, labels |-> o.labels, patches |-> o.patches \cup {new}]
  BY DEF Branch
<1>3. r \in Output
  BY <1>1, BranchWrites DEF Writes
<1>n. new.at = Len(o.code) + 1
  OBVIOUS
<1> HIDE DEF nop, r, new
<1>4. /\ Len(code) = Len(o.code) + 1 /\ Len(o.code) \in Nat
      /\ \A k \in 1..Len(o.code) : code[k] = o.code[k]
  BY <1>1, AppendProperties, LenProperties
<1>6. \A p \in o.patches : p.at \in 1..Len(o.code)
  BY SoundParts
<1>7. r.labels = o.labels /\ r.patches = o.patches \cup {new} /\ r.code = code
  BY <1>2
<1>8. Apart(r)
  <2> SUFFICES ASSUME NEW p \in o.patches \cup {new}, NEW q \in o.patches \cup {new}, p.at = q.at
               PROVE  p = q
    BY <1>7 DEF Apart
  <2>1. CASE p \in o.patches /\ q \in o.patches
    BY <2>1 DEF Sound, Apart
  <2>2. CASE p = new \/ q = new
    BY <1>4, <1>6, <1>n, <2>2
  <2> QED BY <2>1, <2>2
<1>9. Sorted(r)
  BY <1>7 DEF Sound, Sorted
<1> HIDE DEF code
<1> QED BY <1>3, <1>4, <1>6, <1>7, <1>8, <1>9 DEF Branches, Sound, r, new

LEMMA BindAdds ==
  ASSUME NEW o, Sound(o), NEW to \in Target, to.sort \in {"label", "epilogue"}
  PROVE  Binds(o, Bind(o, to), to)
<1> DEFINE r == Bind(o, to)
           labels == [t \in DOMAIN o.labels \cup {to} |->
                        IF t = to THEN Len(o.code) + 1 ELSE o.labels[t]]
<1>1. o \in Output /\ Len(o.code) \in Nat
  BY SoundParts
<1>2. r = [code |-> o.code, labels |-> labels, patches |-> o.patches]
  BY <1>1, OutputTyped DEF Bind
<1>3. r \in Output
  BY <1>1, BindWrites DEF Writes
<1>4. /\ DOMAIN labels = DOMAIN o.labels \cup {to} /\ labels[to] = Len(o.code) + 1
      /\ \A t \in DOMAIN o.labels : t # to => labels[t] = o.labels[t]
  OBVIOUS
<1> HIDE DEF r, labels
<1>5. r.code = o.code /\ r.labels = labels /\ r.patches = o.patches
  BY <1>2
<1>6. Apart(r) /\ Sorted(r)
  BY <1>4, <1>5 DEF Sound, Apart, Sorted
<1>7. \A p \in o.patches : p.at \in 1..Len(o.code)
  BY SoundParts
<1> QED BY <1>1, <1>3, <1>4, <1>5, <1>6, <1>7 DEF Binds, Sound, r

(* What was written stays.                                                 *)
Grew(o, r) ==
  /\ Sound(r) /\ Len(o.code) \in Nat /\ Len(r.code) \in Nat /\ Len(o.code) <= Len(r.code)
  /\ \A i \in 1..Len(o.code) : r.code[i] = o.code[i]
  /\ o.patches \subseteq r.patches
  /\ \A p \in r.patches : p \notin o.patches => p.at > Len(o.code)
Keeps(o, r, names) ==
  \A t \in DOMAIN o.labels : t.sort = "label" \/ (t.sort = "epilogue" /\ t.id \notin names) =>
    t \in DOMAIN r.labels /\ r.labels[t] = o.labels[t]

LEMMA GrewSelf ==
  ASSUME NEW o, Sound(o)
  PROVE  Grew(o, o)
BY SoundParts DEF Grew

LEMMA GrewThen ==
  ASSUME NEW o, NEW q, NEW r, Grew(o, q), Grew(q, r)
  PROVE  Grew(o, r)
<1>1. \A i \in 1..Len(o.code) : r.code[i] = o.code[i]
  BY DEF Grew
<1>2. o.patches \subseteq r.patches
  BY DEF Grew
<1>3. \A p \in r.patches : p \notin o.patches => p.at > Len(o.code)
  <2> SUFFICES ASSUME NEW p \in r.patches, p \notin o.patches PROVE p.at > Len(o.code)
    OBVIOUS
  <2>1. p \in Patch
    BY SoundParts DEF Grew
  <2>2. p.at \in Nat
    BY <2>1 DEF Patch
  <2> QED BY <2>2 DEF Grew
<1> QED BY <1>1, <1>2, <1>3 DEF Grew

LEMMA EmitsGrew ==
  ASSUME NEW o, NEW r, NEW op, NEW arg, Emits(o, r, op, arg)
  PROVE  Grew(o, r)
BY DEF Emits, Grew

LEMMA BranchesGrew ==
  ASSUME NEW o, NEW r, NEW when, NEW to, Branches(o, r, when, to)
  PROVE  Grew(o, r)
BY DEF Branches, Grew

LEMMA BindsGrew ==
  ASSUME NEW o, NEW r, NEW to, Binds(o, r, to)
  PROVE  Grew(o, r)
BY DEF Binds, Grew

LEMMA EmittedStays ==
  ASSUME NEW o, NEW r, Grew(o, r), NEW p, NEW op, NEW arg, Emitted(o, p, op, arg)
  PROVE  Emitted(r, p, op, arg)
BY DEF Grew, Emitted

LEMMA JumpsStay ==
  ASSUME NEW o, NEW r, Grew(o, r), NEW p, NEW when, NEW to, Jumps(o, p, when, to)
  PROVE  Jumps(r, p, when, to)
BY DEF Grew, Jumps

Carries(o, r) ==
  /\ \A p, op, arg : Emitted(o, p, op, arg) => Emitted(r, p, op, arg)
  /\ \A p, when, to : Jumps(o, p, when, to) => Jumps(r, p, when, to)

LEMMA GrewCarries ==
  ASSUME NEW o, NEW r, Grew(o, r)
  PROVE  Carries(o, r)
BY EmittedStays, JumpsStay DEF Carries

LEMMA EmittedCarried ==
  ASSUME NEW o, NEW r, Carries(o, r), NEW p, NEW op, NEW arg, Emitted(o, p, op, arg)
  PROVE  Emitted(r, p, op, arg)
BY DEF Carries

LEMMA JumpsCarried ==
  ASSUME NEW o, NEW r, Carries(o, r), NEW p, NEW when, NEW to, Jumps(o, p, when, to)
  PROVE  Jumps(r, p, when, to)
BY DEF Carries

LEMMA LabelStays ==
  ASSUME NEW o, NEW r, NEW B, Keeps(o, r, B), NEW n, NEW p, LabelAt(o, n, p)
  PROVE  LabelAt(r, n, p)
<1> DEFINE t == Local(n)
<1>1. t.sort = "label"
  BY DEF Local
<1> HIDE DEF t
<1> QED BY <1>1 DEF Keeps, LabelAt, t

-----------------------------------------------------------------------------
(* What is done stays done.                                                *)
LEMMA OpensStays ==
  ASSUME NEW H, NEW G, H \subseteq G, NEW c, NEW p, NEW s, NEW x, Opens(H, c, p, s, x)
  PROVE  Opens(G, c, p, s, x)
BY DEF Opens, Comes

LEMMA ComesStays ==
  ASSUME NEW H, NEW G, H \subseteq G, NEW p, NEW t, NEW f, Comes(H, p, t, f)
  PROVE  Comes(G, p, t, f)
BY DEF Comes

LEMMA DoneStatementStays ==
  ASSUME NEW unit, NEW o, NEW r, NEW H, NEW G, NEW c, NEW B, H \subseteq G, Carries(o, r), Keeps(o, r, B),
         DoneStatement(unit, o, H, c)
  PROVE  DoneStatement(unit, r, G, c)
<1>1. TopKind(c, {"act", "declare"}) => WroteAct(r, G, c)
  BY ComesStays, EmittedCarried DEF DoneStatement, WroteAct, Leaves
<1>2. TopKind(c, {"call"}) => WroteCall(r, G, c)
  BY ComesStays, JumpsCarried DEF DoneStatement, WroteCall, Leaves
<1>3. TopKind(c, {"return"}) => WroteReturn(unit, r, c)
  BY JumpsCarried DEF DoneStatement, WroteReturn
<1>4. TopKind(c, {"break"}) => WroteBreak(r, c)
  BY JumpsCarried DEF DoneStatement, WroteBreak
<1>5. TopKind(c, {"continue"}) => WroteContinue(r, c)
  BY JumpsCarried DEF DoneStatement, WroteContinue
<1>6. TopKind(c, {"throw"}) => WroteThrow(r, c)
  BY JumpsCarried, LabelStays DEF DoneStatement, WroteThrow
<1>7. TopKind(c, {"other"}) => WroteNothing(G, c)
  BY ComesStays DEF DoneStatement, WroteNothing, Leaves
<1>8. TopKind(c, {"block"}) => WroteBlock(G, c)
  BY ComesStays DEF DoneStatement, WroteBlock
<1>9. TopKind(c, {"if"}) => WroteIf(r, G, c)
  BY OpensStays, EmittedCarried, JumpsCarried DEF DoneStatement, WroteIf
<1>10. TopKind(c, {"while"}) => WroteWhile(r, G, c)
  BY OpensStays, EmittedCarried, JumpsCarried, LabelStays DEF DoneStatement, WroteWhile
<1>11. TopKind(c, {"dowhile"}) => WroteDoWhile(r, G, c)
  BY OpensStays, LabelStays DEF DoneStatement, WroteDoWhile
<1>12. TopKind(c, {"for"}) => WroteFor(G, c)
  BY ComesStays DEF DoneStatement, WroteFor
<1>13. TopKind(c, {"try"}) => WroteTry(G, c)
  BY OpensStays DEF DoneStatement, WroteTry
<1> QED BY <1>1, <1>2, <1>3, <1>4, <1>5, <1>6, <1>7, <1>8, <1>9, <1>10, <1>11, <1>12, <1>13 DEF DoneStatement

LEMMA DoneItemStays ==
  ASSUME NEW unit, NEW o, NEW r, NEW H, NEW G, NEW c, NEW B, H \subseteq G, Carries(o, r), Keeps(o, r, B),
         DoneItem(unit, o, H, c), TopIs(c, "epilogue") /\ Latest(unit, c.fn) => unit[c.fn].name \notin B
  PROVE  DoneItem(unit, r, G, c)
<1>1. TopIs(c, "else") => WroteElse(r, G, c)
  BY OpensStays, JumpsCarried, LabelStays DEF DoneItem, WroteElse
<1>2. TopIs(c, "endif") => WroteEndIf(G, c)
  BY ComesStays DEF DoneItem, WroteEndIf, Leaves
<1>3. TopIs(c, "while") => WroteEndWhile(r, G, c)
  BY ComesStays, JumpsCarried DEF DoneItem, WroteEndWhile, Leaves
<1>4. TopIs(c, "dowhile") => WroteEndDoWhile(r, G, c)
  BY ComesStays, EmittedCarried, JumpsCarried, LabelStays DEF DoneItem, WroteEndDoWhile, Leaves
<1>5. TopIs(c, "for") => WroteForTest(r, G, c)
  BY OpensStays, EmittedCarried, JumpsCarried, LabelStays DEF DoneItem, WroteForTest
<1>6. TopIs(c, "step") => WroteEndFor(r, G, c)
  BY EmittedCarried, JumpsCarried, LabelStays DEF DoneItem, WroteEndFor
<1>7. TopIs(c, "catch") => WroteCatch(r, G, c)
  BY OpensStays, ComesStays, JumpsCarried, LabelStays DEF DoneItem, WroteCatch, Leaves
<1>8. TopIs(c, "epilogue") => WroteEpilogue(unit, r, c)
  <2> SUFFICES ASSUME TopIs(c, "epilogue") PROVE WroteEpilogue(unit, r, c)
    OBVIOUS
  <2> DEFINE t == Epilogue(unit[c.fn].name)
  <2>1. t.sort = "epilogue" /\ t.id = unit[c.fn].name
    BY DEF Epilogue
  <2>2. WroteEpilogue(unit, o, c)
    BY DEF DoneItem
  <2>3. Emitted(r, c.at, "leave", 0)
    BY <2>2, EmittedCarried DEF WroteEpilogue
  <2> HIDE DEF t
  <2>4. Latest(unit, c.fn) => t \in DOMAIN r.labels /\ r.labels[t] = c.at
    <3> SUFFICES ASSUME Latest(unit, c.fn) PROVE t \in DOMAIN r.labels /\ r.labels[t] = c.at
      OBVIOUS
    <3>1. t \in DOMAIN o.labels /\ o.labels[t] = c.at
      BY <2>2 DEF WroteEpilogue, t
    <3>2. t.id \notin B
      BY <2>1
    <3> QED BY <2>1, <3>1, <3>2 DEF Keeps
  <2> QED BY <2>3, <2>4 DEF WroteEpilogue, t
<1> QED BY <1>1, <1>2, <1>3, <1>4, <1>5, <1>6, <1>7, <1>8 DEF DoneItem

LEMMA BornStays ==
  ASSUME NEW o, NEW r, NEW H, NEW G, NEW B, H \subseteq G, Keeps(o, r, B), NEW x, NEW K, NEW f,
         BornWith(o, H, x, K, f)
  PROVE  BornWith(r, G, x, K, f)
BY ComesStays, LabelStays DEF BornWith

LEMMA EnteredStays ==
  ASSUME NEW o, NEW r, NEW H, NEW G, H \subseteq G, Carries(o, r), NEW unit, NEW f, NEW p,
         Entered(o, H, unit, f, p)
  PROVE  Entered(r, G, unit, f, p)
BY ComesStays, EmittedCarried DEF Entered

-----------------------------------------------------------------------------
(* The top of the stack is replaced: what is left from each place on.      *)
LEMMA SuffixTyped ==
  ASSUME NEW T, NEW t \in Seq(T), NEW i \in 1..(Len(t) + 1)
  PROVE  /\ Suffix(t, i) \in Seq(T) /\ Len(Suffix(t, i)) = Len(t) - i + 1 /\ Len(t) \in Nat
         /\ \A k \in 1..(Len(t) - i + 1) : Suffix(t, i)[k] = t[i + k - 1]
<1>1. Len(t) \in Nat /\ \A k \in i..Len(t) : t[k] \in T
  BY LenProperties, ElementOfSeq
<1> DEFINE n == Len(t)
           s == SubSeq(t, i, n)
<1>2. i \in Int /\ n \in Int /\ \A k \in i..n : t[k] \in T
  BY <1>1
<1> HIDE DEF n
<1>3. /\ s \in Seq(T) /\ Len(s) = IF i <= n THEN n - i + 1 ELSE 0
      /\ \A k \in 1..(n - i + 1) : s[k] = t[i + k - 1]
  BY <1>2, SubSeqProperties
<1> HIDE DEF s
<1> QED BY <1>1, <1>3 DEF Suffix, s, n

TopReplaced(t, f, r) ==
  /\ Len(f) \in Nat /\ Len(t) \in Nat \ {0} /\ Len(r) = Len(f) + Len(t) - 1
  /\ \A i \in 1..Len(f) : r[i] = f[i]
  /\ \A j \in 2..Len(t) : r[Len(f) + j - 1] = t[j]
  /\ \A j \in 2..(Len(t) + 1) : Suffix(r, Len(f) + j - 1) = Suffix(t, j)
  /\ Suffix(t, 1) = t /\ Suffix(t, 2) = Tail(t)
LEMMA SuffixShifts ==
  ASSUME NEW T, NEW t \in Seq(T), t # << >>, NEW f \in Seq(T)
  PROVE  f \o Tail(t) \in Seq(T) /\ TopReplaced(t, f, f \o Tail(t))
<1> DEFINE r == f \o Tail(t)
<1>1. /\ r \in Seq(T) /\ Len(f) \in Nat /\ Len(t) \in Nat \ {0}
      /\ DOMAIN r = 1..(Len(f) + Len(t) - 1)
      /\ \A i \in 1..Len(f) : r[i] = f[i]
      /\ \A j \in 2..Len(t) : r[Len(f) + j - 1] = t[j]
  BY ReplacedTop
<1> HIDE DEF r
<1>2. Len(r) = Len(f) + Len(t) - 1
  <2>1. Len(r) \in Nat /\ DOMAIN r = 1..Len(r)
    BY <1>1, LenProperties
  <2> QED BY <1>1, <2>1
<1>3. \A j \in 2..(Len(t) + 1) : Suffix(r, Len(f) + j - 1) = Suffix(t, j)
  <2> SUFFICES ASSUME NEW j \in 2..(Len(t) + 1)
               PROVE  Suffix(r, Len(f) + j - 1) = Suffix(t, j)
    OBVIOUS
  <2> DEFINE i == Len(f) + j - 1
  <2>1. i \in 1..(Len(r) + 1) /\ j \in 1..(Len(t) + 1)
    BY <1>1, <1>2
  <2>2. /\ Suffix(t, j) \in Seq(T) /\ Len(Suffix(t, j)) = Len(t) - j + 1
        /\ \A k \in 1..(Len(t) - j + 1) : Suffix(t, j)[k] = t[j + k - 1]
    BY <2>1, SuffixTyped
  <2> HIDE DEF i
  <2>3. /\ Suffix(r, i) \in Seq(T) /\ Len(Suffix(r, i)) = Len(r) - i + 1
        /\ \A k \in 1..(Len(r) - i + 1) : Suffix(r, i)[k] = r[i + k - 1]
    BY <1>1, <2>1, SuffixTyped
  <2>4. Len(r) - i + 1 = Len(t) - j + 1
    BY <1>1, <1>2, <2>1 DEF i
  <2>5. \A k \in 1..(Len(t) - j + 1) : Suffix(r, i)[k] = Suffix(t, j)[k]
    <3> SUFFICES ASSUME NEW k \in 1..(Len(t) - j + 1) PROVE r[i + k - 1] = t[j + k - 1]
      BY <2>2, <2>3, <2>4
    <3>1. j + k - 1 \in 2..Len(t)
      BY <1>1, <2>1
    <3>2. Len(f) + (j + k - 1) - 1 = i + k - 1
      BY <1>1, <2>1 DEF i
    <3> QED BY <1>1, <3>1, <3>2
  <2> DEFINE a == Suffix(r, i)
             b == Suffix(t, j)
  <2> HIDE DEF a, b
  <2>6. a \in Seq(T) /\ b \in Seq(T) /\ Len(a) = Len(b) /\ \A k \in 1..Len(a) : a[k] = b[k]
    BY <2>2, <2>3, <2>4, <2>5 DEF a, b
  <2>7. a = b
    BY <2>6, SeqEqual
  <2> QED BY <2>7 DEF a, b, i
<1>4. Suffix(t, 1) = t
  BY SubSeqFull DEF Suffix
<1>5. Suffix(t, 2) = Tail(t)
  BY TailIsSubSeq DEF Suffix
<1>6. TopReplaced(t, f, r)
  BY <1>1, <1>2, <1>3, <1>4, <1>5 DEF TopReplaced
<1> QED BY <1>1, <1>6 DEF r

-----------------------------------------------------------------------------
(* A step of a handler: its item is replaced by statements and, behind     *)
(* them, perhaps an item that waits.                                       *)
Handled(H, G, front, B) ==
  /\ Inv /\ Inv' /\ History(H) /\ todo # << >>
  /\ UNCHANGED <<program, current, offsets>>
  /\ front \in Seq(ItemType) /\ todo' = front \o Tail(todo)
  /\ Grew(out, out') /\ Keeps(out, out', B) /\ B \subseteq {program[current].name}
  /\ G = H \cup {Here'}
  /\ \A i \in 1..Len(front) : front[i].at # "epilogue" /\ (front[i].at \in Waiting => i = Len(front))
  /\ Top.at = "epilogue" => front = << >>
  /\ Top.at \in Waiting =>
       \/ front = << >> /\ LabelAt(out', Top.end, Len(out'.code) + 1)
       \/ Len(front) > 0 /\ front[Len(front)].at \in Waiting /\ front[Len(front)].end = Top.end
  /\ Len(front) > 0 => BornWith(out', G, front[Len(front)], Suffix(todo, 2), current)
  /\ Done(program, out', G, Here)

LEMMA HereIs ==
  /\ Here.at = Len(out.code) + 1 /\ Here.todo = todo /\ Here.fn = current
  /\ \A H : Here \in H => Comes(H, Len(out.code) + 1, todo, current)
BY DEF Here, Comes

Handles(H, G, front) ==
  /\ todo' \in Seq(ItemType) /\ Len(front) \in Nat /\ Len(todo) \in Nat \ {0}
  /\ Len(todo') = Len(front) + Len(todo) - 1 /\ Top = todo[1]
  /\ \A i \in 1..Len(front) : todo'[i] = front[i]
  /\ \A j \in 2..Len(todo) : todo'[Len(front) + j - 1] = todo[j]
  /\ \A j \in 2..(Len(todo) + 1) : Suffix(todo', Len(front) + j - 1) = Suffix(todo, j)
  /\ Suffix(todo, 1) = todo /\ Suffix(todo, 2) = Tail(todo)
  /\ current \in 1..Len(program) /\ Here \in H /\ H \subseteq G /\ Here' \in G
  /\ Len(out.code) \in Nat /\ Len(out'.code) \in Nat
LEMMA HandledShifts ==
  ASSUME NEW H, NEW G, NEW front, NEW B, Handled(H, G, front, B)
  PROVE  Handles(H, G, front)
<1>1. todo \in Seq(ItemType) /\ current \in 0..Len(program) /\ todo # << >> /\ front \in Seq(ItemType)
      /\ todo' = front \o Tail(todo)
  BY DEF Handled, Inv, Typed
<1>2. todo' \in Seq(ItemType) /\ TopReplaced(todo, front, todo')
  BY <1>1, SuffixShifts
<1>3. current > 0
  BY DEF Handled, Inv, Begun
<1>4. Here \in H /\ H \subseteq G /\ Here' \in G
  BY <1>3 DEF Handled, History
<1>5. Top = todo[1]
  BY TopFirst DEF Handled, Inv
<1>6. Len(out.code) \in Nat /\ Len(out'.code) \in Nat
  BY DEF Handled, Grew
<1> QED BY <1>1, <1>2, <1>3, <1>4, <1>5, <1>6 DEF Handles, TopReplaced

LEMMA HandledPlaces ==
  ASSUME NEW H, NEW G, NEW front, NEW B, Handled(H, G, front, B)
  PROVE  PlacesRight(G)'
<1>0. Handles(H, G, front)
  BY HandledShifts
<1>1. \A c \in H : PlaceRight(c, program', current')
  BY DEF Handled, History, PlacesRight
<1>2. StackRight(todo, program, current)
  BY <1>0, HereIs DEF Handled, Handles, History, PlacesRight, PlaceRight
<1>3. \A i \in 1..Len(todo') : ItemRight(todo'[i])
  BY <1>0, LenProperties DEF Handled, Handles, Inv, ItemsRight
<1>s. Len(todo) \in Nat \ {0}
  BY <1>0 DEF Handles
<1>6. StackRight(todo', program', current')
  <2>4. CASE Len(todo) = 1
    <3>1. Top.at = "epilogue"
      BY <1>0, <1>2, <2>4 DEF StackRight, Handles
    <3>2. front = << >>
      BY <3>1 DEF Handled
    <3>3. Len(todo') = 0 /\ todo' = << >>
      BY <1>0, <2>4, <3>2, EmptySeq DEF Handles
    <3>4. StackRight(todo', program', current')
      BY <1>0, <1>3, <3>3 DEF StackRight, Handles
    <3> QED BY <3>4
  <2>5. CASE Len(todo) > 1
    <3>1. \A i \in 1..Len(todo') : todo'[i].at = "epilogue" <=> i = Len(todo')
      <4> SUFFICES ASSUME NEW i \in 1..Len(todo') PROVE todo'[i].at = "epilogue" <=> i = Len(todo')
        OBVIOUS
      <4>1. CASE i <= Len(front)
        BY <1>0, <2>5, <4>1 DEF Handled, Handles
      <4>2. CASE i > Len(front)
        <5> DEFINE j == i - Len(front) + 1
        <5>1. j \in 2..Len(todo) /\ Len(front) + j - 1 = i
          BY <1>0, <4>2 DEF Handles
        <5>2. todo'[i] = todo[j]
          BY <1>0, <5>1 DEF Handles
        <5>3. todo[j].at = "epilogue" <=> j = Len(todo)
          BY <1>2, <5>1 DEF StackRight
        <5> QED BY <1>0, <4>2, <5>1, <5>2, <5>3 DEF Handles
      <4> QED BY <4>1, <4>2
    <3>2. todo'[Len(todo')] = todo[Len(todo)]
      BY <1>0, <2>5 DEF Handles
    <3>3. StackRight(todo', program', current')
      <4>1. program' = program /\ current' = current
        BY DEF Handled
      <4>2. todo[Len(todo)].node = program[current].body
        BY <1>0, <1>2 DEF StackRight, Handles
      <4> QED BY <1>0, <1>3, <3>1, <3>2, <4>1, <4>2 DEF StackRight, Handles
    <3> QED BY <3>3
  <2>6. Len(todo) = 1 \/ Len(todo) > 1
    BY <1>s
  <2> QED BY <2>4, <2>5, <2>6
<1>7. PlaceRight(Here', program', current')
  <2>1. Here' \in Place
    BY <1>0 DEF Here, Place, Handled, Handles
  <2>2. Here'.todo = todo' /\ Here'.fn = current'
    BY DEF Here
  <2> QED BY <1>0, <1>6, <2>1, <2>2 DEF PlaceRight, Handled, Handles
<1> QED BY <1>1, <1>7 DEF PlacesRight, Handled

LEMMA HandledDone ==
  ASSUME NEW H, NEW G, NEW front, NEW B, Handled(H, G, front, B)
  PROVE  AllDone(G)'
<1>0. Handles(H, G, front)
  BY HandledShifts
<1> SUFFICES ASSUME NEW c \in H, c.todo # << >>, c # Here
             PROVE  Done(program, out', G, c)
  BY DEF AllDone, Handled
<1>1. Done(program, out, H, c)
  BY DEF Handled, History, AllDone
<1>2. TopIs(c, "epilogue") /\ Latest(program, c.fn) => program[c.fn].name \notin B
  <2> SUFFICES ASSUME TopIs(c, "epilogue"), Latest(program, c.fn), program[c.fn].name \in B
               PROVE  FALSE
    OBVIOUS
  <2>1. program[c.fn].name = program[current].name
    BY DEF Handled
  <2>2. c.fn \in 1..current
    BY DEF Handled, History, PlacesRight, PlaceRight
  <2>3. DOMAIN program = 1..Len(program)
    BY LenProperties DEF Handled, Inv, Typed, IsProgram
  <2>4. current <= c.fn
    BY <1>0, <2>1, <2>3 DEF Latest, Handles
  <2>5. c.fn = current
    BY <1>0, <2>2, <2>4 DEF Handles
  <2> QED BY <1>0, <2>5 DEF Handled, History, EpilogueLast
<1>3. Carries(out, out') /\ Keeps(out, out', B)
  BY GrewCarries DEF Handled
<1>4. H \subseteq G
  BY <1>0 DEF Handles
<1> QED BY <1>1, <1>2, <1>3, <1>4, DoneStatementStays, DoneItemStays DEF Done

LEMMA HandledSuffixed ==
  ASSUME NEW H, NEW G, NEW front, NEW B, Handled(H, G, front, B)
  PROVE  AllSuffixed(G)'
<1>0. Handles(H, G, front)
  BY HandledShifts
<1>1. ASSUME NEW c \in H, NEW i \in 1..Len(c.todo)
      PROVE  Suffixed(G, c, i)'
  <2>1. Suffixed(H, c, i)
    BY DEF Handled, History, AllSuffixed
  <2>2. ASSUME NEW p \in Nat, Comes(H, p, Suffix(c.todo, i), c.fn)
        PROVE  Suffixed(G, c, i)'
    BY <1>0, <2>2, ComesStays DEF Suffixed, Handles
  <2>3. ASSUME c.fn = current, NEW j \in 1..Len(todo), Suffix(todo, j) = Suffix(c.todo, i)
        PROVE  Suffixed(G, c, i)'
    <3>1. CASE j = 1
      <4>1. Comes(G, Len(out.code) + 1, Suffix(c.todo, i), c.fn)
        BY <1>0, <2>3, <3>1, HereIs, ComesStays DEF Handles
      <4> QED BY <1>0, <4>1 DEF Suffixed, Handles
    <3>2. CASE j > 1
      <4>1. Len(front) + j - 1 \in 1..Len(todo') /\ Suffix(todo', Len(front) + j - 1) = Suffix(c.todo, i)
        BY <1>0, <2>3, <3>2 DEF Handles
      <4> QED BY <2>3, <4>1 DEF Suffixed, Handled
    <3> QED BY <3>1, <3>2, <1>0 DEF Handles
  <2> QED BY <2>1, <2>2, <2>3 DEF Suffixed
<1>2. ASSUME NEW c, c = Here', NEW i \in 1..Len(c.todo)
      PROVE  Suffixed(G, c, i)'
  BY <1>2 DEF Suffixed, Here
<1> QED BY <1>1, <1>2 DEF AllSuffixed, Handled

LEMMA HandledExits ==
  ASSUME NEW H, NEW G, NEW front, NEW B, Handled(H, G, front, B)
  PROVE  AllExit(G)'
<1>0. Handles(H, G, front)
  BY HandledShifts
<1>1. ASSUME NEW c \in H, NEW i \in 1..Len(c.todo), c.todo[i].at \in Waiting
      PROVE  Exits(out, G, c, i)'
  <2>1. Exits(out, H, c, i)
    BY <1>1 DEF Handled, History, AllExit
  <2>2. ASSUME NEW p \in Nat, LabelAt(out, c.todo[i].end, p), Comes(H, p, Suffix(c.todo, i + 1), c.fn)
        PROVE  Exits(out, G, c, i)'
    <3>1. LabelAt(out', c.todo[i].end, p)
      BY <2>2, LabelStays DEF Handled
    <3>2. Comes(G, p, Suffix(c.todo, i + 1), c.fn)
      BY <1>0, <2>2, ComesStays DEF Handles
    <3> QED BY <3>1, <3>2 DEF Exits
  <2>3. ASSUME c.fn = current, NEW j \in 1..Len(todo), todo[j].at \in Waiting, todo[j].end = c.todo[i].end,
               Suffix(todo, j + 1) = Suffix(c.todo, i + 1)
        PROVE  Exits(out, G, c, i)'
    <3>0. current' = current
      BY DEF Handled
    <3>1. CASE j = 1
      <4>1. Top.at \in Waiting /\ Top.end = c.todo[i].end /\ Suffix(todo, 2) = Suffix(c.todo, i + 1)
        BY <1>0, <2>3, <3>1 DEF Handles
      <4>2. CASE front = << >> /\ LabelAt(out', Top.end, Len(out'.code) + 1)
        <5>1. Len(front) = 0 /\ Suffix(todo', 1) = Suffix(todo, 2)
          BY <1>0, <4>2, EmptySeq DEF Handles
        <5>2. todo' = Suffix(todo', 1)
          BY <1>0, SubSeqFull DEF Handles, Suffix
        <5>3. Comes(G, Len(out'.code) + 1, todo', current)
          BY <1>0, <3>0 DEF Handles, Here, Comes
        <5>4. Comes(G, Len(out'.code) + 1, Suffix(c.todo, i + 1), c.fn)
          BY <2>3, <4>1, <5>1, <5>2, <5>3
        <5>5. Len(out'.code) + 1 \in Nat /\ LabelAt(out', c.todo[i].end, Len(out'.code) + 1)
          BY <1>0, <4>1, <4>2 DEF Handles
        <5> QED BY <5>4, <5>5 DEF Exits
      <4>3. CASE Len(front) > 0 /\ front[Len(front)].at \in Waiting /\ front[Len(front)].end = Top.end
        <5> DEFINE k == Len(front)
        <5>1. k \in 1..Len(todo') /\ todo'[k] = front[k]
          BY <1>0, <4>3 DEF Handles
        <5>2. k + 1 = Len(front) + 2 - 1 /\ 2 \in 2..(Len(todo) + 1)
          BY <1>0 DEF Handles
        <5>3. Suffix(todo', k + 1) = Suffix(todo, 2)
          BY <1>0, <5>2 DEF Handles
        <5> HIDE DEF k
        <5> QED BY <2>3, <3>0, <4>1, <4>3, <5>1, <5>3 DEF Exits, k
      <4> QED BY <4>1, <4>2, <4>3 DEF Handled
    <3>2. CASE j > 1
      <4> DEFINE k == Len(front) + j - 1
      <4>1. k \in 1..Len(todo') /\ todo'[k] = todo[j]
        BY <1>0, <2>3, <3>2 DEF Handles
      <4>2. k + 1 = Len(front) + (j + 1) - 1 /\ j + 1 \in 2..(Len(todo) + 1)
        BY <1>0, <2>3, <3>2 DEF Handles
      <4>3. Suffix(todo', k + 1) = Suffix(todo, j + 1)
        BY <1>0, <4>2 DEF Handles
      <4> HIDE DEF k
      <4> QED BY <2>3, <3>0, <4>1, <4>3 DEF Exits
    <3>3. j = 1 \/ j > 1
      BY <2>3
    <3> QED BY <3>1, <3>2, <3>3
  <2> QED BY <2>1, <2>2, <2>3 DEF Exits
<1>2. ASSUME NEW c, c = Here', NEW i \in 1..Len(c.todo), c.todo[i].at \in Waiting
      PROVE  Exits(out, G, c, i)'
  BY <1>2 DEF Exits, Here
<1> QED BY <1>1, <1>2 DEF AllExit, Handled

LEMMA HandledBorn ==
  ASSUME NEW H, NEW G, NEW front, NEW B, Handled(H, G, front, B)
  PROVE  AllBorn(G)'
<1>0. Handles(H, G, front)
  BY HandledShifts
<1>1. Keeps(out, out', B) /\ H \subseteq G
  BY <1>0 DEF Handled, Handles
<1>2. ASSUME NEW c \in H, NEW i \in 1..Len(c.todo)
      PROVE  Born(out', G, c, i)
  BY <1>1, BornStays DEF Handled, History, AllBorn, Born
<1>3. ASSUME NEW c, c = Here', NEW i \in 1..Len(c.todo)
      PROVE  Born(out', G, c, i)
  <2>0. c.todo = todo' /\ c.fn = current /\ i \in 1..Len(todo')
    BY <1>3 DEF Here, Handled
  <2> DEFINE x == c.todo[i]
             K == Suffix(c.todo, i + 1)
  <2>1. CASE i <= Len(front)
    <3>1. x = front[i]
      BY <1>0, <2>0, <2>1 DEF Handles
    <3>2. CASE x.at \notin Waiting
      <4>1. x.at \notin {"while", "dowhile", "step"}
        BY <3>2 DEF Waiting
      <4> QED BY <4>1 DEF Born, BornWith
    <3>3. CASE x.at \in Waiting
      <4>1. i = Len(front)
        BY <2>0, <2>1, <3>1, <3>3 DEF Handled
      <4>2. i + 1 = Len(front) + 2 - 1 /\ 2 \in 2..(Len(todo) + 1)
        BY <1>0, <4>1 DEF Handles
      <4>3. K = Suffix(todo, 2)
        BY <1>0, <2>0, <4>2 DEF Handles
      <4>4. Len(front) > 0
        BY <1>0, <2>0, <4>1 DEF Handles
      <4>5. BornWith(out', G, x, K, c.fn)
        BY <2>0, <3>1, <4>1, <4>3, <4>4 DEF Handled
      <4> QED BY <4>5 DEF Born
    <3> QED BY <3>2, <3>3
  <2>2. CASE i > Len(front)
    <3> DEFINE j == i - Len(front) + 1
    <3>1. j \in 2..Len(todo) /\ j \in 1..Len(todo) /\ Len(front) + j - 1 = i
      BY <1>0, <2>0, <2>2 DEF Handles
    <3>2. x = todo[j]
      BY <1>0, <2>0, <3>1 DEF Handles
    <3>3. i + 1 = Len(front) + (j + 1) - 1 /\ j + 1 \in 2..(Len(todo) + 1)
      BY <1>0, <3>1 DEF Handles
    <3> HIDE DEF j
    <3>4. K = Suffix(todo, j + 1)
      BY <1>0, <2>0, <3>3 DEF Handles
    <3>5. Here \in H /\ Here.todo = todo /\ Here.fn = current
      BY <1>0, HereIs DEF Handles
    <3>6. BornWith(out, H, todo[j], Suffix(todo, j + 1), current)
      BY <3>1, <3>5 DEF Handled, History, AllBorn, Born
    <3>7. BornWith(out', G, x, K, c.fn)
      BY <1>1, <2>0, <3>2, <3>4, <3>6, BornStays
    <3> QED BY <3>7 DEF Born
  <2>3. i <= Len(front) \/ i > Len(front)
    BY <1>0, <2>0 DEF Handles
  <2> QED BY <2>1, <2>2, <2>3
<1> QED BY <1>2, <1>3 DEF AllBorn, Handled

LEMMA HandledStays ==
  ASSUME NEW H, NEW G, NEW front, NEW B, Handled(H, G, front, B)
  PROVE  History(G)'
<1>0. Handles(H, G, front)
  BY HandledShifts
<1>1. EpilogueLast(G)'
  <2> SUFFICES ASSUME NEW c \in H, c.fn = current', c.todo # << >>, TopIs(c, "epilogue"), todo' # << >>
               PROVE  FALSE
    BY DEF EpilogueLast, Handled
  <2>1. c = Here
    BY DEF Handled, History, EpilogueLast
  <2>2. Top.at = "epilogue"
    BY <1>0, <2>1, HereIs DEF TopIs, TopItem, Handles
  <2>3. Len(front) = 0
    BY <2>2, EmptySeq DEF Handled
  <2>4. StackRight(todo, program, current)
    BY <1>0, HereIs DEF Handled, Handles, History, PlacesRight, PlaceRight
  <2>5. Len(todo) = 1
    <3>1. 1 \in 1..Len(todo) /\ todo[1].at = "epilogue"
      BY <1>0, <2>2 DEF Handles
    <3>2. \A i \in 1..Len(todo) : todo[i].at = "epilogue" <=> i = Len(todo)
      BY <2>4 DEF StackRight
    <3> QED BY <3>1, <3>2
  <2> QED BY <1>0, <2>3, <2>5, EmptySeq DEF Handles
<1>2. AllEntered(G)'
  <2> SUFFICES ASSUME NEW f \in 1..current, Latest(program, f)
               PROVE  Entered(out', G, program, f, offsets[program[f].name])
    BY DEF AllEntered, Handled
  <2>1. Entered(out, H, program, f, offsets[program[f].name])
    BY DEF Handled, History, AllEntered
  <2>2. Carries(out, out')
    BY GrewCarries DEF Handled
  <2> QED BY <1>0, <2>1, <2>2, EnteredStays DEF Handled, Handles
<1> QED BY <1>0, <1>1, <1>2, HandledPlaces, HandledDone, HandledSuffixed, HandledExits, HandledBorn
        DEF History, Handles

-----------------------------------------------------------------------------
(* What was written and the epilogues stay, whatever is written then.      *)
Wide(o, r, B) ==
  /\ Grew(o, r)
  /\ \A t \in DOMAIN o.labels : t.sort = "epilogue" /\ t.id \notin B =>
       t \in DOMAIN r.labels /\ r.labels[t] = o.labels[t]
SameLabels(o, r) == \A n, p : LabelAt(o, n, p) => LabelAt(r, n, p)

LEMMA WideSelf ==
  ASSUME NEW o, Sound(o), NEW B
  PROVE  Wide(o, o, B)
BY GrewSelf DEF Wide

LEMMA WideThen ==
  ASSUME NEW o, NEW q, NEW r, NEW B, Wide(o, q, B), Wide(q, r, B)
  PROVE  Wide(o, r, B)
BY GrewThen DEF Wide

LEMMA EmitGoesOn ==
  ASSUME NEW o, Sound(o), NEW op \in {"act", "test", "enter", "leave"}, NEW arg \in Int, NEW B
  PROVE  LET r == Emit(o, op, arg)
         IN  /\ Wide(o, r, B) /\ Sound(r) /\ Len(o.code) \in Nat /\ Len(r.code) = Len(o.code) + 1
             /\ Emitted(r, Len(o.code) + 1, op, arg) /\ SameLabels(o, r)
<1> DEFINE r == Emit(o, op, arg)
<1>1. [op |-> op, arg |-> arg] \in Instruction
  BY DEF Instruction
<1>2. Emits(o, r, op, arg)
  BY <1>1, EmitAdds
<1> HIDE DEF r
<1>3. Wide(o, r, B)
  BY <1>2, EmitsGrew DEF Wide, Emits
<1>4. Emitted(r, Len(o.code) + 1, op, arg)
  BY <1>2, SoundParts DEF Emits, Emitted
<1>5. SameLabels(o, r)
  BY <1>2 DEF Emits, SameLabels, LabelAt
<1> QED BY <1>2, <1>3, <1>4, <1>5 DEF Emits, r

LEMMA BranchGoesOn ==
  ASSUME NEW o, Sound(o), NEW when \in {"always", "equal", "notequal", "call"}, NEW to \in Target, NEW B
  PROVE  LET r == Branch(o, when, to)
         IN  /\ Wide(o, r, B) /\ Sound(r) /\ Len(o.code) \in Nat /\ Len(r.code) = Len(o.code) + 1
             /\ Jumps(r, Len(o.code) + 1, when, to) /\ SameLabels(o, r)
<1> DEFINE r == Branch(o, when, to)
<1>2. Branches(o, r, when, to)
  BY BranchAdds
<1> HIDE DEF r
<1>3. Wide(o, r, B)
  BY <1>2, BranchesGrew DEF Wide, Branches
<1>4. Jumps(r, Len(o.code) + 1, when, to)
  BY <1>2 DEF Branches, Jumps
<1>5. SameLabels(o, r)
  BY <1>2 DEF Branches, SameLabels, LabelAt
<1> QED BY <1>2, <1>3, <1>4, <1>5 DEF Branches, r

LEMMA BindGoesOn ==
  ASSUME NEW o, Sound(o), NEW n \in Nat, NEW B
  PROVE  LET r == Bind(o, Local(n))
         IN  /\ Wide(o, r, B) /\ Sound(r) /\ Len(o.code) \in Nat /\ Len(r.code) = Len(o.code)
             /\ LabelAt(r, n, Len(o.code) + 1)
             /\ \A m \in Nat : \A p : m # n /\ LabelAt(o, m, p) => LabelAt(r, m, p)
<1> DEFINE t == Local(n)
           r == Bind(o, t)
<1>1. t \in Target /\ t.sort = "label" /\ \A m \in Nat : Local(m) = t => m = n
  BY LocalTarget
<1> HIDE DEF t
<1>2. Binds(o, r, t)
  BY <1>1, BindAdds
<1> HIDE DEF r
<1>3. Wide(o, r, B)
  BY <1>1, <1>2, BindsGrew DEF Wide, Binds
<1>4. LabelAt(r, n, Len(o.code) + 1)
  BY <1>2 DEF Binds, LabelAt, t
<1>5. \A m \in Nat : \A p : m # n /\ LabelAt(o, m, p) => LabelAt(r, m, p)
  BY <1>1, <1>2 DEF Binds, LabelAt
<1> QED BY <1>2, <1>3, <1>4, <1>5 DEF Binds, r, t

LEMMA WideKeeps ==
  ASSUME Wide(out, out', {}), LabelsKept
  PROVE  Keeps(out, out', {})
BY DEF Wide, LabelsKept, Keeps

LEMMA WideKeepsBut ==
  ASSUME NEW B, Wide(out, out', B), LabelsKept
  PROVE  Keeps(out, out', B)
BY DEF Wide, LabelsKept, Keeps

-----------------------------------------------------------------------------
(* The targets, when the top of the stack is replaced.                     *)
AimedAt(front, x) ==
  /\ IF IsLast(front, x) /\ x.at \in LoopPoints
     THEN /\ LoopTargets(todo, 1, x.savedBreak, x.savedContinue)
          /\ breakLabel' = x.end /\ continueLabel' = ResumeOf(x)
     ELSE LoopTargets(todo, 1, breakLabel', continueLabel')
  /\ IF IsLast(front, x) /\ x.at = "catch"
     THEN CatchTarget(todo, 1, x.savedCatch) /\ catchLabel' = x.head
     ELSE CatchTarget(todo, 1, catchLabel')

LEMMA TargetsBelow ==
  ASSUME Inv, TargetsRight, todo # << >>
  PROVE  /\ Top.at \in LoopPoints => LoopTargets(todo, 1, Top.savedBreak, Top.savedContinue)
         /\ Top.at \notin LoopPoints => LoopTargets(todo, 1, breakLabel, continueLabel)
         /\ Top.at = "catch" => CatchTarget(todo, 1, Top.savedCatch)
         /\ Top.at # "catch" => CatchTarget(todo, 1, catchLabel)
<1>1. Len(todo) \in Nat \ {0} /\ Top = todo[1]
  BY TopFirst DEF Inv
<1>2. Top.at \in LoopPoints => LoopTargets(todo, 1, Top.savedBreak, Top.savedContinue)
  BY <1>1 DEF TargetsRight
<1>3. Top.at = "catch" => CatchTarget(todo, 1, Top.savedCatch)
  BY <1>1 DEF TargetsRight
<1>4. \A P : Top.at \notin P => \A j \in 1..Len(todo) : Governs(todo, 1, P, j) => Governs(todo, 0, P, j)
  <2> SUFFICES ASSUME NEW P, Top.at \notin P, NEW j \in 1..Len(todo), Governs(todo, 1, P, j)
               PROVE  Governs(todo, 0, P, j)
    OBVIOUS
  <2>1. \A k \in 1..(j - 1) : todo[k].at \notin P
    BY <1>1 DEF Governs
  <2> QED BY <2>1 DEF Governs
<1>5. Top.at \notin LoopPoints => LoopTargets(todo, 1, breakLabel, continueLabel)
  BY <1>4 DEF TargetsRight, LoopTargets
<1>6. Top.at # "catch" => CatchTarget(todo, 1, catchLabel)
  <2> SUFFICES ASSUME Top.at # "catch" PROVE CatchTarget(todo, 1, catchLabel)
    OBVIOUS
  <2>1. CatchTarget(todo, 0, catchLabel)
    BY DEF TargetsRight
  <2>2. \A j \in 1..Len(todo) : Governs(todo, 1, {"catch"}, j) => catchLabel = todo[j].head
    BY <1>4, <2>1 DEF CatchTarget
  <2>3. (\A j \in 1..Len(todo) : 1 < j => todo[j].at # "catch") => catchLabel = NoLabel
    <3> SUFFICES ASSUME \A j \in 1..Len(todo) : 1 < j => todo[j].at # "catch" PROVE catchLabel = NoLabel
      OBVIOUS
    <3>1. \A j \in 1..Len(todo) : 0 < j => todo[j].at # "catch"
      BY <1>1
    <3> QED BY <2>1, <3>1 DEF CatchTarget
  <2> QED BY <2>2, <2>3 DEF CatchTarget
<1> QED BY <1>2, <1>3, <1>5, <1>6

(* Which item governs, in the new stack.                                   *)
Shifts(front) ==
  /\ Len(front) \in Nat /\ Len(todo) \in Nat \ {0} /\ Len(todo') = Len(front) + Len(todo) - 1
  /\ \A i \in 1..Len(front) : todo'[i] = front[i]
  /\ \A j \in 2..Len(todo) : todo'[Len(front) + j - 1] = todo[j]

LEMMA GovernsLater ==
  ASSUME NEW front, Shifts(front), NEW i \in 1..Len(todo), NEW P, NEW k, Governs(todo', Len(front) + i - 1, P, k)
  PROVE  LET j == k - Len(front) + 1
         IN  j \in 1..Len(todo) /\ Governs(todo, i, P, j) /\ todo'[k] = todo[j]
<1> DEFINE n == Len(front)
           j == k - n + 1
<1>1. /\ k \in 1..Len(todo') /\ n + i - 1 < k /\ todo'[k].at \in P
      /\ \A m \in (n + i - 1 + 1)..(k - 1) : todo'[m].at \notin P
  BY DEF Governs
<1>2. n \in Nat /\ Len(todo) \in Nat /\ Len(todo') = n + Len(todo) - 1
  BY DEF Shifts
<1>3. \A m \in 2..Len(todo) : todo'[n + m - 1] = todo[m]
  BY DEF Shifts
<1> HIDE DEF n
<1>4. j \in 2..Len(todo) /\ i < j /\ n + j - 1 = k
  BY <1>1, <1>2
<1>5. todo'[k] = todo[j]
  BY <1>3, <1>4
<1>6. ASSUME NEW m \in (i + 1)..(j - 1)
      PROVE  todo[m].at \notin P
  <2>1. n + m - 1 \in (n + i - 1 + 1)..(k - 1) /\ m \in 2..Len(todo)
    BY <1>2, <1>4
  <2>2. todo'[n + m - 1] = todo[m]
    BY <1>3, <2>1
  <2> QED BY <1>1, <2>1, <2>2
<1> QED BY <1>1, <1>4, <1>5, <1>6 DEF Governs, n

LEMMA GovernsFirst ==
  ASSUME NEW front, Shifts(front), NEW P, NEW k, Governs(todo', 0, P, k),
         \A i \in 1..(Len(front) - 1) : front[i].at \notin P
  PROVE  \/ Len(front) > 0 /\ front[Len(front)].at \in P /\ k = Len(front) /\ todo'[k] = front[k]
         \/ /\ Len(front) > 0 => front[Len(front)].at \notin P
            /\ Governs(todo', Len(front) + 1 - 1, P, k)
<1> DEFINE n == Len(front)
<1>1. k \in 1..Len(todo') /\ 0 < k /\ todo'[k].at \in P /\ \A m \in 1..(k - 1) : todo'[m].at \notin P
  BY DEF Governs
<1>2. n \in Nat /\ Len(todo') \in Nat /\ \A i \in 1..n : todo'[i] = front[i]
  BY DEF Shifts
<1>3. CASE k <= n
  <2>1. k \in 1..n /\ todo'[k] = front[k]
    BY <1>1, <1>2, <1>3
  <2>2. k = n
    BY <1>1, <1>2, <2>1
  <2> QED BY <1>1, <2>1, <2>2
<1>4. CASE k > n
  <2>1. n > 0 => front[n].at \notin P
    BY <1>1, <1>2, <1>4
  <2>2. Governs(todo', n + 1 - 1, P, k)
    BY <1>1, <1>2, <1>4 DEF Governs
  <2> QED BY <2>1, <2>2
<1> QED BY <1>1, <1>2, <1>3, <1>4

LEMMA NoCatchLater ==
  ASSUME NEW front, Shifts(front), NEW i \in 1..Len(todo),
         \A k \in 1..Len(todo') : Len(front) + i - 1 < k => todo'[k].at # "catch"
  PROVE  \A j \in 1..Len(todo) : i < j => todo[j].at # "catch"
<1> SUFFICES ASSUME NEW j \in 1..Len(todo), i < j PROVE todo[j].at # "catch"
  OBVIOUS
<1> DEFINE k == Len(front) + j - 1
<1>1. k \in 1..Len(todo') /\ Len(front) + i - 1 < k /\ todo'[k] = todo[j]
  BY DEF Shifts
<1> QED BY <1>1

LEMMA TargetsAbove ==
  ASSUME NEW front, NEW x, Shifts(front), TargetsRight, todo # << >>, AimedAt(front, x),
         \A i \in 1..(Len(front) - 1) : front[i].at \notin LoopPoints \cup {"catch"},
         ~IsLast(front, x) /\ Len(front) > 0 => front[Len(front)].at \notin LoopPoints \cup {"catch"}
  PROVE  TargetsRight'
<1> DEFINE n == Len(front)
<1>1. n \in Nat /\ Len(todo) \in Nat \ {0} /\ Len(todo') = n + Len(todo) - 1
  BY DEF Shifts
<1>2. ASSUME NEW i \in 1..Len(todo), NEW b, NEW c, LoopTargets(todo, i, b, c)
      PROVE  LoopTargets(todo', n + i - 1, b, c)
  <2> SUFFICES ASSUME NEW k \in 1..Len(todo'), Governs(todo', n + i - 1, LoopPoints, k)
               PROVE  b = todo'[k].end /\ c = ResumeOf(todo'[k])
    BY DEF LoopTargets
  <2> DEFINE j == k - n + 1
  <2>1. j \in 1..Len(todo) /\ Governs(todo, i, LoopPoints, j) /\ todo'[k] = todo[j]
    BY GovernsLater
  <2> HIDE DEF j
  <2> QED BY <1>2, <2>1 DEF LoopTargets
<1>3. ASSUME NEW i \in 1..Len(todo), NEW h, CatchTarget(todo, i, h)
      PROVE  CatchTarget(todo', n + i - 1, h)
  <2>1. ASSUME NEW k \in 1..Len(todo'), Governs(todo', n + i - 1, {"catch"}, k)
        PROVE  h = todo'[k].head
    <3> DEFINE j == k - n + 1
    <3>1. j \in 1..Len(todo) /\ Governs(todo, i, {"catch"}, j) /\ todo'[k] = todo[j]
      BY <2>1, GovernsLater
    <3> HIDE DEF j
    <3> QED BY <1>3, <3>1 DEF CatchTarget
  <2>2. ASSUME \A k \in 1..Len(todo') : n + i - 1 < k => todo'[k].at # "catch"
        PROVE  h = NoLabel
    BY <1>3, <2>2, NoCatchLater DEF CatchTarget
  <2> QED BY <2>1, <2>2 DEF CatchTarget
<1>a. PICK one \in 1..Len(todo) : one = 1 /\ n + one - 1 = n /\ n + 1 - 1 = n
  BY <1>1
<1>b. \A b, c : LoopTargets(todo, 1, b, c) => LoopTargets(todo', n, b, c)
  <2> SUFFICES ASSUME NEW b, NEW c, LoopTargets(todo, one, b, c) PROVE LoopTargets(todo', n, b, c)
    BY <1>a
  <2>1. LoopTargets(todo', n + one - 1, b, c)
    BY <1>2
  <2> QED BY <1>a, <2>1
<1>c. \A h : CatchTarget(todo, 1, h) => CatchTarget(todo', n, h)
  <2> SUFFICES ASSUME NEW h, CatchTarget(todo, one, h) PROVE CatchTarget(todo', n, h)
    BY <1>a
  <2>1. CatchTarget(todo', n + one - 1, h)
    BY <1>3
  <2> QED BY <1>a, <2>1
<1>4. LoopTargets(todo', 0, breakLabel', continueLabel')
  <2> SUFFICES ASSUME NEW k \in 1..Len(todo'), Governs(todo', 0, LoopPoints, k)
               PROVE  breakLabel' = todo'[k].end /\ continueLabel' = ResumeOf(todo'[k])
    BY DEF LoopTargets, ResumeOf
  <2>1. CASE n > 0 /\ front[n].at \in LoopPoints /\ k = n /\ todo'[k] = front[k]
    <3>1. IsLast(front, x) /\ front[n] = x
      BY <2>1 DEF IsLast
    <3> QED BY <2>1, <3>1 DEF AimedAt
  <2>2. CASE (n > 0 => front[n].at \notin LoopPoints) /\ Governs(todo', n + 1 - 1, LoopPoints, k)
    <3>1. LoopTargets(todo, 1, breakLabel', continueLabel')
      BY <2>2 DEF AimedAt, IsLast
    <3>2. LoopTargets(todo', n, breakLabel', continueLabel')
      BY <1>b, <3>1
    <3>3. Governs(todo', n, LoopPoints, k)
      BY <1>a, <2>2
    <3> QED BY <3>2, <3>3 DEF LoopTargets
  <2> QED BY <2>1, <2>2, GovernsFirst
<1>5. CatchTarget(todo', 0, catchLabel')
  <2>1. ASSUME NEW k \in 1..Len(todo'), Governs(todo', 0, {"catch"}, k)
        PROVE  catchLabel' = todo'[k].head
    <3>1. CASE n > 0 /\ front[n].at \in {"catch"} /\ k = n /\ todo'[k] = front[k]
      <4>1. IsLast(front, x) /\ front[n] = x
        BY <3>1 DEF IsLast
      <4> QED BY <3>1, <4>1 DEF AimedAt
    <3>2. CASE (n > 0 => front[n].at \notin {"catch"}) /\ Governs(todo', n + 1 - 1, {"catch"}, k)
      <4>1. CatchTarget(todo, 1, catchLabel')
        BY <3>2 DEF AimedAt, IsLast
      <4> QED BY <1>a, <1>c, <3>2, <4>1 DEF CatchTarget
    <3> QED BY <2>1, <3>1, <3>2, GovernsFirst
  <2>2. ASSUME \A k \in 1..Len(todo') : 0 < k => todo'[k].at # "catch"
        PROVE  catchLabel' = NoLabel
    <3>1. n > 0 => front[n].at # "catch"
      <4> SUFFICES ASSUME n > 0 PROVE front[n].at # "catch"
        OBVIOUS
      <4>1. n \in 1..Len(todo') /\ todo'[n] = front[n]
        BY <1>1 DEF Shifts
      <4> QED BY <2>2, <4>1
    <3>2. CatchTarget(todo, 1, catchLabel')
      BY <3>1 DEF AimedAt, IsLast
    <3>3. \A k \in 1..Len(todo') : n + 1 - 1 < k => todo'[k].at # "catch"
      BY <1>1, <2>2
    <3>4. CatchTarget(todo', n + 1 - 1, catchLabel')
      BY <1>a, <1>c, <3>2
    <3> QED BY <3>3, <3>4 DEF CatchTarget
  <2> QED BY <2>1, <2>2 DEF CatchTarget
<1>6. ASSUME NEW k \in 1..Len(todo')
      PROVE  /\ todo'[k].at \in LoopPoints => LoopTargets(todo', k, todo'[k].savedBreak, todo'[k].savedContinue)
             /\ todo'[k].at = "catch" => CatchTarget(todo', k, todo'[k].savedCatch)
  <2>1. CASE k <= n
    <3>1. k \in 1..n /\ todo'[k] = front[k]
      BY <1>1, <2>1 DEF Shifts
    <3>2. k = n + 1 - 1 \/ k \in 1..(n - 1)
      BY <1>1, <3>1
    <3>3. CASE k \in 1..(n - 1)
      BY <3>1, <3>3
    <3>4. CASE k = n + 1 - 1 /\ ~IsLast(front, x)
      <4>1. n > 0 /\ k = n
        BY <1>1, <3>1, <3>4
      <4> QED BY <3>1, <3>4, <4>1
    <3>5. CASE k = n + 1 - 1 /\ IsLast(front, x)
      <4>1. todo'[k] = x
        BY <1>1, <3>1, <3>5 DEF IsLast
      <4>2. x.at \in LoopPoints => LoopTargets(todo', k, todo'[k].savedBreak, todo'[k].savedContinue)
        <5> SUFFICES ASSUME x.at \in LoopPoints
                     PROVE  LoopTargets(todo', k, todo'[k].savedBreak, todo'[k].savedContinue)
          OBVIOUS
        <5>1. LoopTargets(todo, 1, x.savedBreak, x.savedContinue)
          BY <3>5 DEF AimedAt
        <5> QED BY <1>1, <1>2, <3>5, <4>1, <5>1
      <4>3. x.at = "catch" => CatchTarget(todo', k, todo'[k].savedCatch)
        <5> SUFFICES ASSUME x.at = "catch" PROVE CatchTarget(todo', k, todo'[k].savedCatch)
          OBVIOUS
        <5>1. CatchTarget(todo, 1, x.savedCatch)
          BY <3>5 DEF AimedAt
        <5> QED BY <1>1, <1>3, <3>5, <4>1, <5>1
      <4> QED BY <4>1, <4>2, <4>3
    <3> QED BY <3>2, <3>3, <3>4, <3>5
  <2>2. CASE k > n
    <3> DEFINE j == k - n + 1
    <3>1. j \in 1..Len(todo) /\ j \in 2..Len(todo) /\ n + j - 1 = k
      BY <1>1, <2>2
    <3>2. todo'[k] = todo[j]
      BY <3>1 DEF Shifts
    <3> HIDE DEF j
    <3>3. todo[j].at \in LoopPoints => LoopTargets(todo', k, todo'[k].savedBreak, todo'[k].savedContinue)
      <4> SUFFICES ASSUME todo[j].at \in LoopPoints
                   PROVE  LoopTargets(todo', k, todo'[k].savedBreak, todo'[k].savedContinue)
        OBVIOUS
      <4>1. LoopTargets(todo, j, todo[j].savedBreak, todo[j].savedContinue)
        BY <3>1 DEF TargetsRight
      <4> QED BY <1>2, <3>1, <3>2, <4>1
    <3>4. todo[j].at = "catch" => CatchTarget(todo', k, todo'[k].savedCatch)
      <4> SUFFICES ASSUME todo[j].at = "catch" PROVE CatchTarget(todo', k, todo'[k].savedCatch)
        OBVIOUS
      <4>1. CatchTarget(todo, j, todo[j].savedCatch)
        BY <3>1 DEF TargetsRight
      <4> QED BY <1>3, <3>1, <3>2, <4>1
    <3> QED BY <3>2, <3>3, <3>4
  <2> QED BY <1>1, <2>1, <2>2
<1> HIDE DEF n
<1> QED BY <1>4, <1>5, <1>6 DEF TargetsRight

-----------------------------------------------------------------------------
(* All that a step of a handler has to show.                               *)
Ready(H) ==
  /\ Inv /\ Inv' /\ LabelsKept /\ TargetsRight /\ Sound(out) /\ Expected /\ History(H)
  /\ UNCHANGED <<program, current, offsets>> /\ todo # << >>
Stepped == Sound(out') /\ TargetsRight' /\ \E G : History(G)'

(* The place of the step and the next one.                                 *)
Came(G) ==
  /\ Comes(G, Len(out'.code) + 1, todo', current)
  /\ TopItem(Here) = Top /\ Here.at = Len(out.code) + 1 /\ Here.todo = todo /\ Here.fn = current
  /\ Suffix(todo, 2) = Tail(todo)

LEMMA ReadyCame ==
  ASSUME NEW H, Ready(H)
  PROVE  Came(H \cup {Here'})
<1>1. todo \in Seq(ItemType) /\ todo # << >> /\ current' = current
  BY DEF Ready, Inv, Typed
<1>2. Suffix(todo, 2) = Tail(todo)
  BY <1>1, TailIsSubSeq DEF Suffix
<1>3. Top = todo[1]
  BY <1>1, TopFirst DEF Ready, Inv
<1> QED BY <1>1, <1>2, <1>3 DEF Came, Comes, Here, TopItem

LEMMA Assembled ==
  ASSUME NEW H, Ready(H), NEW front, NEW x, Fronts(front, x), todo' = front \o Tail(todo),
         NEW B, B \subseteq {program[current].name}, Wide(out, out', B),
         Top.at = "epilogue" => front = << >>,
         Top.at \in Waiting => \/ front = << >> /\ LabelAt(out', Top.end, Len(out'.code) + 1)
                               \/ IsLast(front, x) /\ x.at \in Waiting /\ x.end = Top.end,
         IsLast(front, x) => /\ x.at # "epilogue"
                             /\ BornWith(out', H \cup {Here'}, x, Tail(todo), current),
         AimedAt(front, x), Done(program, out', H \cup {Here'}, Here)
  PROVE  Stepped
<1>0. PICK G : G = H \cup {Here'}
  OBVIOUS
<1>1. Typed /\ todo \in Seq(ItemType) /\ front \in Seq(ItemType) /\ todo # << >>
  BY DEF Ready, Inv, Typed, Fronts
<1>2. Len(front) \in Nat /\ (Len(front) = 0 => front = << >>)
  BY <1>1, LenProperties, EmptySeq
<1>3. \A i \in 1..Len(front) : (i = Len(front) /\ front[i] = x) \/ front[i].at = "statement"
  BY <1>1, DoRight DEF Fronts
<1>4. \A i \in 1..Len(front) : front[i].at # "epilogue" /\ (front[i].at \in Waiting => i = Len(front))
  BY <1>3 DEF IsLast, Waiting
<1>5. Len(front) > 0 => BornWith(out', G, front[Len(front)], Suffix(todo, 2), current)
  <2> SUFFICES ASSUME Len(front) > 0 PROVE BornWith(out', G, front[Len(front)], Suffix(todo, 2), current)
    OBVIOUS
  <2>1. Suffix(todo, 2) = Tail(todo)
    BY ReadyCame DEF Came
  <2>2. CASE IsLast(front, x)
    BY <1>0, <2>1, <2>2 DEF IsLast
  <2>3. CASE front[Len(front)].at = "statement"
    BY <2>3 DEF BornWith
  <2>4. Len(front) \in 1..Len(front)
    BY <1>2
  <2> QED BY <1>3, <2>2, <2>3, <2>4 DEF IsLast
<1>6. Top.at \in Waiting =>
        \/ front = << >> /\ LabelAt(out', Top.end, Len(out'.code) + 1)
        \/ Len(front) > 0 /\ front[Len(front)].at \in Waiting /\ front[Len(front)].end = Top.end
  BY DEF IsLast
<1>7. Handled(H, G, front, B)
  BY <1>0, <1>1, <1>4, <1>5, <1>6, WideKeepsBut DEF Handled, Ready, Wide
<1>8. Shifts(front)
  BY <1>7, HandledShifts DEF Shifts, Handles
<1>9. /\ \A i \in 1..(Len(front) - 1) : front[i].at \notin LoopPoints \cup {"catch"}
      /\ ~IsLast(front, x) /\ Len(front) > 0 => front[Len(front)].at \notin LoopPoints \cup {"catch"}
  BY <1>2, <1>3 DEF IsLast, LoopPoints
<1>10. TargetsRight'
  BY <1>8, <1>9, TargetsAbove DEF Ready
<1>11. History(G)' /\ Sound(out')
  <2>1. History(G)'
    BY <1>7, HandledStays
  <2>2. Sound(out')
    BY DEF Wide, Grew
  <2> QED BY <2>1, <2>2
<1> QED BY <1>10, <1>11 DEF Stepped

-----------------------------------------------------------------------------
(* Statements without a label of their own.                                *)
LEMMA OnlyStatement ==
  ASSUME NEW unit, NEW o, NEW G, NEW c, TopItem(c).at = "statement", DoneStatement(unit, o, G, c)
  PROVE  Done(unit, o, G, c)
BY DEF Done, DoneItem, TopIs

LEMMA BodyLeft ==
  ASSUME NEW H, Ready(H), At("statement"), NEW body \in Seq(Statement), todo' = Sequence(body) \o Tail(todo),
         Wide(out, out', {}), UNCHANGED <<breakLabel, continueLabel, catchLabel>>,
         DoneStatement(program, out', H \cup {Here'}, Here)
  PROVE  Stepped
<1>1. Inv /\ Typed /\ todo # << >> /\ Top.at = "statement"
  BY DEF Ready, Inv, At
<1>2. Fronts(Sequence(body), Top)
  BY <1>1, FrontOfStatements
<1>3. Top.at \notin LoopPoints /\ Top.at # "catch" /\ Top.at \notin Waiting
  BY <1>1 DEF LoopPoints, Waiting
<1>4. AimedAt(Sequence(body), Top)
  BY <1>1, <1>3, TargetsBelow DEF AimedAt, Ready
<1>5. TopItem(Here).at = "statement"
  BY <1>1, ReadyCame DEF Came
<1>6. PICK G : G = H \cup {Here'}
  OBVIOUS
<1>7. Done(program, out', G, Here)
  BY <1>5, <1>6, OnlyStatement
<1>8. BornWith(out', G, Top, Tail(todo), current)
  BY <1>1 DEF BornWith
<1>9. PICK B, F : B = {} /\ F = Sequence(body)
  OBVIOUS
<1>10. Wide(out, out', B) /\ B \subseteq {program[current].name} /\ Fronts(F, Top) /\ AimedAt(F, Top)
       /\ todo' = F \o Tail(todo)
  BY <1>2, <1>4, <1>9
<1>11. Done(program, out', H \cup {Here'}, Here) /\ BornWith(out', H \cup {Here'}, Top, Tail(todo), current)
  BY <1>6, <1>7, <1>8
<1> QED BY <1>1, <1>3, <1>10, <1>11, Assembled

LEMMA LeafLeft ==
  ASSUME NEW H, Ready(H), At("statement"), Generated, Wide(out, out', {}),
         DoneStatement(program, out', H \cup {Here'}, Here)
  PROVE  Stepped
<1>1. Typed /\ todo' = Below /\ todo # << >> /\ UNCHANGED <<breakLabel, continueLabel, catchLabel>>
  BY DEF Ready, Inv, Generated, targets
<1>2. PICK none \in Seq(Statement) : none = << >> /\ todo' = Sequence(none) \o Tail(todo)
  BY <1>1, NothingInstead DEF Below
<1> QED BY <1>1, <1>2, BodyLeft

LEMMA ExpressionLeft ==
  ASSUME NEW H, Ready(H), GenerateExpression \/ GenerateDeclaration
  PROVE  Stepped
<1>1. Generated /\ At("statement") /\ Node.kind \in {"act", "declare"} /\ out' = Emit(out, "act", Node.id)
  <2>1. CASE GenerateExpression
    BY <2>1 DEF GenerateExpression, AtStatement
  <2>2. CASE GenerateDeclaration
    <3>1. AtStatement({"declare"}) /\ Node.name \in locals
      BY <2>2 DEF GenerateDeclaration, Ready, Expected
    <3> QED BY <2>2, <3>1 DEF GenerateDeclaration, AtStatement
  <2> QED BY <2>1, <2>2
<1>2. Typed /\ todo # << >>
  BY DEF Ready, Inv
<1>3. Node.id \in Int
  BY <1>1, <1>2, NodeParts
<1>4. PICK G : G = H \cup {Here'}
  OBVIOUS
<1>5. Came(G)
  BY <1>4, ReadyCame
<1>6. /\ Wide(out, out', {}) /\ Len(out.code) \in Nat /\ Len(out'.code) = Len(out.code) + 1
      /\ Emitted(out', Len(out.code) + 1, "act", Node.id)
  BY <1>1, <1>3, EmitGoesOn DEF Ready
<1>7. todo' = Tail(todo)
  BY <1>1 DEF Generated, Below
<1>8. WroteAct(out', G, Here)
  BY <1>5, <1>6, <1>7 DEF WroteAct, Leaves, Came, Node
<1>9. DoneStatement(program, out', G, Here)
  BY <1>1, <1>5, <1>8 DEF DoneStatement, TopKind, TopIs, Came, Node
<1> QED BY <1>1, <1>4, <1>6, <1>9, LeafLeft

-----------------------------------------------------------------------------
(* The first of the items of some kind.                                    *)
LEMMA Least ==
  ASSUME NEW S, S \subseteq Nat, S # {}
  PROVE  \E n \in S : \A m \in S : n <= m
<1>1. PICK R : (\A x, y \in Nat : <<y, x>> \in R <=> y < x) /\ IsWellFoundedOn(R, Nat)
  <2>1. \A x, y \in Nat : <<y, x>> \in OpToRel(<, Nat) <=> y < x
    BY DEF OpToRel
  <2>2. IsWellFoundedOn(OpToRel(<, Nat), Nat)
    BY NatLessThanWellFounded
  <2> QED BY <2>1, <2>2
<1>2. PICK x \in S : \A y \in S : ~ (<<y, x>> \in R)
  BY <1>1, WFMin
<1>3. \A y \in S : x <= y
  <2> SUFFICES ASSUME NEW y \in S PROVE x <= y
    OBVIOUS
  <2>1. x \in Nat /\ y \in Nat /\ ~(y < x)
    BY <1>1, <1>2
  <2> QED BY <2>1
<1> QED BY <1>3

LEMMA FirstThere ==
  ASSUME NEW t, Len(t) \in Nat, NEW P, NEW k \in 1..Len(t), t[k].at \in P
  PROVE  \E i \in 1..Len(t) : FirstAt(t, P, i)
<1> DEFINE S == {i \in 1..Len(t) : t[i].at \in P}
<1>1. S \subseteq Nat /\ S # {}
  OBVIOUS
<1>2. PICK i \in S : \A m \in S : i <= m
  BY <1>1, Least
<1>3. i \in 1..Len(t) /\ t[i].at \in P /\ \A j \in 1..(i - 1) : t[j].at \notin P
  BY <1>2
<1> QED BY <1>3 DEF FirstAt

LEMMA FirstOnce ==
  ASSUME NEW t, Len(t) \in Nat, NEW P, NEW i, NEW j, FirstAt(t, P, i), FirstAt(t, P, j)
  PROVE  i = j
BY DEF FirstAt

(* break and continue stand in a loop, whose labels are in force.          *)
LEMMA LoopAround ==
  ASSUME NEW H, Ready(H), AtStatement({"break", "continue"})
  PROVE  \E i \in 1..Len(todo) :
           /\ FirstAt(todo, LoopPoints, i) /\ todo[i].at # "for"
           /\ breakLabel = todo[i].end /\ breakLabel \in Nat
           /\ continueLabel = ResumeOf(todo[i]) /\ continueLabel \in Nat
<1>1. PICK i \in DOMAIN todo : Innermost(LoopPoints, i) /\ todo[i].at # "for"
  BY DEF Ready, Expected
<1>2. Len(todo) \in Nat /\ DOMAIN todo = 1..Len(todo)
  BY TopFirst DEF Ready, Inv
<1>3. FirstAt(todo, LoopPoints, i) /\ Governs(todo, 0, LoopPoints, i)
  BY <1>1, <1>2 DEF Innermost, FirstAt, Governs
<1>4. breakLabel = todo[i].end /\ continueLabel = ResumeOf(todo[i])
  BY <1>2, <1>3 DEF Ready, TargetsRight, LoopTargets
<1>5. todo[i].at \in {"while", "dowhile", "step"}
  BY <1>1 DEF Innermost, LoopPoints
<1>6. ItemRight(todo[i])
  BY <1>2 DEF Ready, Inv, ItemsRight
<1>7. todo[i].end \in Nat /\ ResumeOf(todo[i]) \in Nat
  BY <1>5, <1>6 DEF ItemRight, ResumeOf, Waiting
<1> QED BY <1>1, <1>2, <1>3, <1>4, <1>7

LEMMA JumpLeft ==
  ASSUME NEW H, Ready(H), At("statement"), Generated,
         NEW when \in {"always", "call"}, NEW to \in Target, out' = Branch(out, when, to),
         NEW G, G = H \cup {Here'}, Jumps(out', Len(out.code) + 1, when, to) /\ Came(G)
           /\ Leaves(G, Here, Len(out.code) + 2) => DoneStatement(program, out', G, Here)
  PROVE  Stepped
<1>1. Came(G)
  BY ReadyCame
<1>2. /\ Wide(out, out', {}) /\ Len(out.code) \in Nat /\ Len(out'.code) = Len(out.code) + 1
      /\ Jumps(out', Len(out.code) + 1, when, to)
  BY BranchGoesOn DEF Ready
<1>3. todo' = Tail(todo)
  BY DEF Generated, Below
<1>4. Len(out'.code) + 1 = Len(out.code) + 2
  BY <1>2
<1>5. Leaves(G, Here, Len(out.code) + 2)
  BY <1>1, <1>3, <1>4 DEF Leaves, Came
<1> QED BY <1>1, <1>2, <1>5, LeafLeft

LEMMA CallLeft ==
  ASSUME NEW H, Ready(H), GenerateCall
  PROVE  Stepped
<1>1. Generated /\ At("statement") /\ Node.kind = "call" /\ Node.name \in DOMAIN offsets
  BY DEF GenerateCall, AtStatement, Ready, Expected
<1>2. out' = Branch(out, "call", Function(Node.name))
  BY <1>1 DEF GenerateCall
<1>3. Typed /\ todo # << >>
  BY DEF Ready, Inv
<1>4. Function(Node.name) \in Target
  BY <1>1, <1>3, NodeParts DEF Function, Target
<1>5. PICK G : G = H \cup {Here'}
  OBVIOUS
<1>6. Jumps(out', Len(out.code) + 1, "call", Function(Node.name)) /\ Came(G) /\ Leaves(G, Here, Len(out.code) + 2)
        => DoneStatement(program, out', G, Here)
  <2> SUFFICES ASSUME Jumps(out', Len(out.code) + 1, "call", Function(Node.name)), Came(G),
                      Leaves(G, Here, Len(out.code) + 2)
               PROVE  DoneStatement(program, out', G, Here)
    OBVIOUS
  <2>1. Here.at = Len(out.code) + 1 /\ Here.at + 1 = Len(out.code) + 2
    BY SoundParts DEF Came, Ready
  <2>2. WroteCall(out', G, Here)
    BY <2>1 DEF WroteCall, Came, Node
  <2> QED BY <1>1, <2>2 DEF DoneStatement, TopKind, TopIs, Came, Node
<1> QED BY <1>1, <1>2, <1>4, <1>5, <1>6, JumpLeft

LEMMA ReturnLeft ==
  ASSUME NEW H, Ready(H), GenerateReturn
  PROVE  Stepped
<1>1. Generated /\ At("statement") /\ Node.kind = "return"
      /\ out' = Branch(out, "always", Epilogue(program[current].name))
  BY DEF GenerateReturn, AtStatement
<1>2. current \in 1..Len(program) /\ program \in Seq(FunctionType)
  BY DEF Ready, Inv, Begun, Typed, IsProgram
<1>3. Epilogue(program[current].name) \in Target
  <2>1. program[current] \in FunctionType
    BY <1>2, ElementOfSeq
  <2> QED BY <2>1 DEF Epilogue, Target, FunctionType
<1>4. PICK G : G = H \cup {Here'}
  OBVIOUS
<1>5. Jumps(out', Len(out.code) + 1, "always", Epilogue(program[current].name)) /\ Came(G)
        => DoneStatement(program, out', G, Here)
  <2> SUFFICES ASSUME Jumps(out', Len(out.code) + 1, "always", Epilogue(program[current].name)), Came(G)
               PROVE  DoneStatement(program, out', G, Here)
    OBVIOUS
  <2>1. WroteReturn(program, out', Here)
    BY DEF WroteReturn, Came
  <2> QED BY <1>1, <2>1 DEF DoneStatement, TopKind, TopIs, Came, Node
<1> QED BY <1>1, <1>3, <1>4, <1>5, JumpLeft

LEMMA BreakLeft ==
  ASSUME NEW H, Ready(H), GenerateBreak
  PROVE  Stepped
<1>1. Generated /\ At("statement") /\ Node.kind = "break" /\ AtStatement({"break", "continue"})
  BY DEF GenerateBreak, AtStatement
<1>2. PICK i \in 1..Len(todo) : /\ FirstAt(todo, LoopPoints, i) /\ todo[i].at # "for"
                                /\ breakLabel = todo[i].end /\ breakLabel \in Nat
  BY <1>1, LoopAround
<1>3. out' = Branch(out, "always", Local(breakLabel)) /\ Local(breakLabel) \in Target
  BY <1>2, LocalTarget DEF GenerateBreak, NoLabel
<1>4. PICK G : G = H \cup {Here'}
  OBVIOUS
<1>5. Jumps(out', Len(out.code) + 1, "always", Local(breakLabel)) /\ Came(G)
        => DoneStatement(program, out', G, Here)
  <2> SUFFICES ASSUME Jumps(out', Len(out.code) + 1, "always", Local(breakLabel)), Came(G)
               PROVE  DoneStatement(program, out', G, Here)
    OBVIOUS
  <2>1. WroteBreak(out', Here)
    BY <1>2 DEF WroteBreak, Came
  <2> QED BY <1>1, <2>1 DEF DoneStatement, TopKind, TopIs, Came, Node
<1> QED BY <1>1, <1>3, <1>4, <1>5, JumpLeft

LEMMA ContinueLeft ==
  ASSUME NEW H, Ready(H), GenerateContinue
  PROVE  Stepped
<1>1. Generated /\ At("statement") /\ Node.kind = "continue" /\ AtStatement({"break", "continue"})
  BY DEF GenerateContinue, AtStatement
<1>2. PICK i \in 1..Len(todo) : /\ FirstAt(todo, LoopPoints, i) /\ todo[i].at # "for"
                                /\ continueLabel = ResumeOf(todo[i]) /\ continueLabel \in Nat
  BY <1>1, LoopAround
<1>3. out' = Branch(out, "always", Local(continueLabel)) /\ Local(continueLabel) \in Target
  BY <1>2, LocalTarget DEF GenerateContinue, NoLabel
<1>4. PICK G : G = H \cup {Here'}
  OBVIOUS
<1>5. Jumps(out', Len(out.code) + 1, "always", Local(continueLabel)) /\ Came(G)
        => DoneStatement(program, out', G, Here)
  <2> SUFFICES ASSUME Jumps(out', Len(out.code) + 1, "always", Local(continueLabel)), Came(G)
               PROVE  DoneStatement(program, out', G, Here)
    OBVIOUS
  <2>1. WroteContinue(out', Here)
    BY <1>2 DEF WroteContinue, Came, ResumeOf
  <2> QED BY <1>1, <2>1 DEF DoneStatement, TopKind, TopIs, Came, Node
<1> QED BY <1>1, <1>3, <1>4, <1>5, JumpLeft

(* A throw goes to the clauses of the try statement around, or hangs.      *)
LEMMA CatchAround ==
  ASSUME NEW H, Ready(H), AtStatement({"throw"})
  PROVE  \/ catchLabel = NoLabel /\ \A i \in 1..Len(todo) : todo[i].at # "catch"
         \/ /\ catchLabel \in Nat
            /\ \E i \in 1..Len(todo) :
                 FirstAt(todo, {"catch"}, i) /\ todo[i].clause = 0 /\ catchLabel = todo[i].head
<1>1. Len(todo) \in Nat /\ DOMAIN todo = 1..Len(todo)
  BY TopFirst DEF Ready, Inv
<1>2. CASE \A i \in 1..Len(todo) : todo[i].at # "catch"
  BY <1>2 DEF Ready, TargetsRight, CatchTarget
<1>3. CASE ~ \A i \in 1..Len(todo) : todo[i].at # "catch"
  <2>1. PICK k \in 1..Len(todo) : todo[k].at \in {"catch"}
    BY <1>3
  <2>2. PICK i \in 1..Len(todo) : FirstAt(todo, {"catch"}, i)
    BY <1>1, <2>1, FirstThere
  <2>3. Governs(todo, 0, {"catch"}, i) /\ Innermost({"catch"}, i) /\ todo[i].at = "catch"
    BY <1>1, <2>2 DEF Governs, FirstAt, Innermost
  <2>4. catchLabel = todo[i].head
    BY <2>3 DEF Ready, TargetsRight, CatchTarget
  <2>5. todo[i].clause = 0
    BY <1>1, <2>3 DEF Ready, Expected
  <2>6. ItemRight(todo[i])
    BY <1>1 DEF Ready, Inv, ItemsRight
  <2>7. todo[i].head \in Nat
    BY <2>3, <2>6 DEF ItemRight, Waiting
  <2> QED BY <2>2, <2>4, <2>5, <2>7
<1> QED BY <1>2, <1>3

LEMMA ThrowLeft ==
  ASSUME NEW H, Ready(H), GenerateThrow
  PROVE  Stepped
<1>1. Generated /\ At("statement") /\ Node.kind = "throw" /\ AtStatement({"throw"})
  BY DEF GenerateThrow, AtStatement
<1>2. PICK G : G = H \cup {Here'}
  OBVIOUS
<1>3. ASSUME catchLabel \in Nat, NEW i \in 1..Len(todo),
             FirstAt(todo, {"catch"}, i), todo[i].clause = 0, catchLabel = todo[i].head
      PROVE  Stepped
  <2>1. out' = Branch(out, "always", Local(catchLabel)) /\ Local(catchLabel) \in Target
    BY <1>3, LocalTarget DEF GenerateThrow, NoLabel
  <2>2. Jumps(out', Len(out.code) + 1, "always", Local(catchLabel)) /\ Came(G)
          => DoneStatement(program, out', G, Here)
    <3> SUFFICES ASSUME Jumps(out', Len(out.code) + 1, "always", Local(catchLabel)), Came(G)
                 PROVE  DoneStatement(program, out', G, Here)
      OBVIOUS
    <3>1. WroteThrow(out', Here)
      BY <1>3 DEF WroteThrow, Came
    <3> QED BY <1>1, <3>1 DEF DoneStatement, TopKind, TopIs, Came, Node
  <2> QED BY <1>1, <1>2, <2>1, <2>2, JumpLeft
<1>4. CASE catchLabel = NoLabel /\ \A i \in 1..Len(todo) : todo[i].at # "catch"
  <2>1. PICK c \in Nat : c = counter
    BY DEF Ready, Inv, Typed
  <2>2. PICK q : q = Bind(out, Local(c))
    OBVIOUS
  <2>3. out' = Branch(q, "always", Local(c)) /\ Local(c) \in Target
    BY <1>4, <2>1, <2>2, LocalTarget DEF GenerateThrow
  <2>4. /\ Wide(out, q, {}) /\ Sound(q) /\ Len(out.code) \in Nat /\ Len(q.code) = Len(out.code)
        /\ LabelAt(q, c, Len(out.code) + 1)
    BY <2>2, BindGoesOn DEF Ready
  <2>5. Wide(q, out', {}) /\ Jumps(out', Len(q.code) + 1, "always", Local(c)) /\ SameLabels(q, out')
    BY <2>3, <2>4, BranchGoesOn
  <2>6. Wide(out, out', {})
    BY <2>4, <2>5, WideThen
  <2>7. Came(G)
    BY <1>2, ReadyCame
  <2>8. WroteThrow(out', Here)
    BY <1>4, <2>4, <2>5, <2>7 DEF WroteThrow, Came, SameLabels
  <2>9. DoneStatement(program, out', G, Here)
    BY <1>1, <2>7, <2>8 DEF DoneStatement, TopKind, TopIs, Came, Node
  <2> QED BY <1>1, <1>2, <2>6, <2>9, LeafLeft
<1> QED BY <1>1, <1>3, <1>4, CatchAround

LEMMA NothingLeft ==
  ASSUME NEW H, Ready(H), GenerateNothing
  PROVE  Stepped
<1>1. Generated /\ At("statement") /\ Node.kind = "other" /\ out' = out
  BY DEF GenerateNothing, AtStatement
<1>2. PICK G : G = H \cup {Here'}
  OBVIOUS
<1>3. Came(G) /\ todo' = Tail(todo)
  BY <1>1, <1>2, ReadyCame DEF Generated, Below
<1>4. WroteNothing(G, Here)
  BY <1>1, <1>3 DEF WroteNothing, Leaves, Came
<1>5. DoneStatement(program, out', G, Here)
  BY <1>1, <1>3, <1>4 DEF DoneStatement, TopKind, TopIs, Came, Node
<1>6. Wide(out, out', {})
  BY <1>1, WideSelf DEF Ready
<1> QED BY <1>1, <1>2, <1>5, <1>6, LeafLeft

LEMMA BodyItems ==
  ASSUME Typed, NEW body \in Seq(Statement)
  PROVE  Stmts(Sequence(body), body)
<1>1. Sequence(body) \in Seq(ItemType) /\ Len(Sequence(body)) = Len(body)
  BY SequenceRight
<1>2. ASSUME NEW i \in 1..Len(body)
      PROVE  Stmt(Sequence(body)[i], body[i])
  <2>1. i \in DOMAIN body /\ body[i] \in Statement
    BY LenProperties, ElementOfSeq
  <2>2. Sequence(body)[i] = Do(body[i])
    BY <2>1 DEF Sequence
  <2> QED BY <2>1, <2>2, DoRight DEF Stmt
<1> QED BY <1>1, <1>2 DEF Stmts

LEMMA BlockLeft ==
  ASSUME NEW H, Ready(H), GenerateBlock
  PROVE  Stepped
<1>1. At("statement") /\ Node.kind = "block" /\ out' = out /\ UNCHANGED <<breakLabel, continueLabel, catchLabel>>
  BY DEF GenerateBlock, AtStatement, targets
<1>2. Typed /\ todo # << >>
  BY DEF Ready, Inv
<1>3. PICK body \in Seq(Statement) : body = Node.body
  BY <1>1, <1>2, NodeParts
<1>4. todo' = Sequence(body) \o Tail(todo)
  BY <1>3 DEF GenerateBlock, Below
<1>5. PICK G : G = H \cup {Here'}
  OBVIOUS
<1>6. Came(G)
  BY <1>5, ReadyCame
<1>7. PICK g \in Seq(ItemType) : g = Sequence(body) /\ Stmts(g, body)
  BY <1>2, BodyItems, SequenceRight
<1>8. WroteBlock(G, Here)
  BY <1>1, <1>3, <1>4, <1>6, <1>7 DEF WroteBlock, Came, Node
<1>9. DoneStatement(program, out', G, Here)
  BY <1>1, <1>6, <1>8 DEF DoneStatement, TopKind, TopIs, Came, Node
<1>10. Wide(out, out', {})
  BY <1>1, WideSelf DEF Ready
<1> QED BY <1>1, <1>4, <1>5, <1>9, <1>10, BodyLeft

-----------------------------------------------------------------------------
(* Statements with statements in them.                                     *)
LEMMA ItemSaves ==
  ASSUME NEW at, NEW node, NEW head, NEW step, NEW end
  PROVE  LET x == Item(at, node, head, step, end)
         IN  x.savedBreak = breakLabel /\ x.savedContinue = continueLabel /\ x.savedCatch = catchLabel
BY DEF Item

LEMMA NestedLeft ==
  ASSUME NEW H, Ready(H), At("statement"), NEW front, NEW x, Fronts(front, x), IsLast(front, x), x.at \in Waiting,
         todo' = front \o Tail(todo), Wide(out, out', {}), AimedAt(front, x), NEW G, G = H \cup {Here'},
         BornWith(out', G, x, Tail(todo), current), DoneStatement(program, out', G, Here)
  PROVE  Stepped
<1>1. Top.at = "statement" /\ Top.at \notin Waiting
  BY DEF At, Waiting
<1>2. TopItem(Here).at = "statement"
  BY <1>1, ReadyCame DEF Came
<1>3. Done(program, out', H \cup {Here'}, Here) /\ BornWith(out', H \cup {Here'}, x, Tail(todo), current)
  BY <1>2, OnlyStatement
<1>4. PICK B : B = {}
  OBVIOUS
<1>5. B \subseteq {program[current].name} /\ Wide(out, out', B)
  BY <1>4
<1>6. x.at # "epilogue"
  BY DEF Waiting
<1> QED BY <1>1, <1>3, <1>5, <1>6, Assembled

(* A loop is begun here.                                                   *)
LEMMA BornHere ==
  ASSUME NEW H, Ready(H), NEW G, G = H \cup {Here'}, NEW x, x.node = Node,
         LabelAt(out', x.head, Len(out.code) + 1),
         \/ x.at \in {"while", "dowhile"} /\ Top.at = "statement" /\ Node.kind = x.at
         \/ x.at = "step" /\ Top.at = "for"
  PROVE  BornWith(out', G, x, Tail(todo), current)
<1>1. Typed /\ todo # << >> /\ todo \in Seq(ItemType)
  BY DEF Ready, Inv, Typed
<1>2. PICK d \in ItemType : d = Top
  BY <1>1, TopFirst
<1>3. PICK p \in Nat : p = Len(out.code) + 1
  BY SoundParts DEF Ready
<1>4. todo = <<d>> \o Tail(todo)
  BY <1>1, <1>2, HeadTailProperties DEF Top
<1>5. Here \in H
  BY <1>1 DEF Ready, History, Inv, Begun
<1>6. Comes(G, p, <<d>> \o Tail(todo), current)
  BY <1>3, <1>4, <1>5, HereIs, ComesStays
<1>7. d.node = x.node
  BY <1>2 DEF Node
<1>8. CASE x.at \in {"while", "dowhile"} /\ Top.at = "statement" /\ Node.kind = x.at
  BY <1>2, <1>3, <1>6, <1>7, <1>8 DEF BornWith, Stmt
<1>9. CASE x.at = "step" /\ Top.at = "for"
  BY <1>2, <1>3, <1>6, <1>7, <1>9 DEF BornWith, Waits
<1> QED BY <1>8, <1>9

LEMMA IfLeft ==
  ASSUME NEW H, Ready(H), GenerateIf
  PROVE  Stepped
<1>1. At("statement") /\ Node.kind = "if" /\ Inv /\ Sound(out)
  BY DEF GenerateIf, AtStatement, At, Ready
<1>2. Typed /\ todo # << >> /\ Top.at = "statement"
  BY <1>1, AtBegin
<1>3. PICK c \in Nat : c = counter
  BY <1>1, AtBegin
<1>4. PICK s \in Statement, node \in Statement, test \in Int :
        s = Node.then /\ node = Node /\ test = Node.id
  BY <1>1, <1>2, NodeParts
<1>5. PICK at \in {"endif", "else"} :
        at = IF Node.otherwise = << >> THEN "endif" ELSE "else"
  OBVIOUS
<1>6. PICK k \in Nat : k = IF at = "endif" THEN c + 1 ELSE c
  OBVIOUS
<1>7. PICK x \in ItemType : /\ x = Item(at, node, c, NoLabel, c + 1)
                            /\ x.at = at /\ x.node = node /\ x.head = c /\ x.end = c + 1
  <2>1. at \in Points /\ c \in Label /\ c + 1 \in Label /\ NoLabel \in Label
    BY DEF Points, Label
  <2> QED BY <1>2, <2>1, ItemTyped
<1>8. PICK d \in ItemType : d = Do(s) /\ Stmt(d, s)
  BY <1>2, DoRight DEF Stmt
<1>9. PICK front : front = <<d, x>>
  OBVIOUS
<1>10. /\ todo' = front \o Tail(todo)
       /\ out' = Branch(Emit(out, "test", test), "equal", Local(k))
       /\ UNCHANGED <<breakLabel, continueLabel, catchLabel>>
  BY <1>3, <1>4, <1>5, <1>6, <1>7, <1>8, <1>9 DEF GenerateIf, Nesting, targets, Below
<1>11. Fronts(front, x) /\ IsLast(front, x)
  BY <1>2, <1>8, <1>9, FrontOfTwo
<1>12. PICK q : q = Emit(out, "test", test)
  OBVIOUS
<1>13. /\ Wide(out, q, {}) /\ Sound(q) /\ Len(out.code) \in Nat /\ Len(q.code) = Len(out.code) + 1
       /\ Emitted(q, Len(out.code) + 1, "test", test)
  BY <1>1, <1>12, EmitGoesOn
<1>14. Wide(q, out', {}) /\ Len(out'.code) = Len(q.code) + 1 /\ Jumps(out', Len(q.code) + 1, "equal", Local(k))
  BY <1>10, <1>12, <1>13, BranchGoesOn, LocalTarget
<1>15. Wide(out, out', {}) /\ Emitted(out', Len(out.code) + 1, "test", test)
  BY <1>13, <1>14, WideThen, EmittedStays DEF Wide
<1>16. PICK G : G = H \cup {Here'}
  OBVIOUS
<1>17. Came(G)
  BY <1>16, ReadyCame
<1>18. WroteIf(out', G, Here)
  <2>1. Here.at = Len(out.code) + 1 /\ Here.at + 1 = Len(q.code) + 1 /\ Here.at + 2 = Len(out'.code) + 1
    BY <1>13, <1>14, <1>17 DEF Came
  <2>2. Opens(G, Here, Here.at + 2, s, x)
    BY <1>8, <1>9, <1>10, <1>17, <2>1 DEF Opens, Came
  <2>3. Waits(x, IF node.otherwise = << >> THEN "endif" ELSE "else", node)
    BY <1>4, <1>5, <1>7 DEF Waits
  <2>4. k = IF node.otherwise = << >> THEN x.end ELSE x.head
    BY <1>4, <1>5, <1>6, <1>7
  <2>5. TopItem(Here).node = node
    BY <1>4, <1>17 DEF Came, Node
  <2> QED BY <1>4, <1>14, <1>15, <2>1, <2>2, <2>3, <2>4, <2>5 DEF WroteIf
<1>19. DoneStatement(program, out', G, Here)
  BY <1>1, <1>2, <1>17, <1>18 DEF DoneStatement, TopKind, TopIs, Came, Node
<1>20. AimedAt(front, x)
  <2>1. x.at \notin LoopPoints /\ x.at # "catch" /\ Top.at \notin LoopPoints /\ Top.at # "catch"
    BY <1>2, <1>7 DEF LoopPoints
  <2> QED BY <1>2, <1>10, <2>1, TargetsBelow DEF AimedAt, Ready
<1>21. BornWith(out', G, x, Tail(todo), current) /\ x.at \in Waiting
  BY <1>7 DEF BornWith, Waiting
<1> QED BY <1>1, <1>10, <1>11, <1>15, <1>16, <1>19, <1>20, <1>21, NestedLeft

LEMMA WhileLeft ==
  ASSUME NEW H, Ready(H), GenerateWhile
  PROVE  Stepped
<1>1. At("statement") /\ Node.kind = "while" /\ Inv /\ Sound(out)
  BY DEF GenerateWhile, AtStatement, At, Ready
<1>2. Typed /\ todo # << >> /\ Top.at = "statement"
  BY <1>1, AtBegin
<1>3. PICK c \in Nat : c = counter
  BY <1>1, AtBegin
<1>4. PICK s \in Statement, node \in Statement, test \in Int :
        s = Node.body /\ node = Node /\ test = Node.id
  BY <1>1, <1>2, NodeParts
<1>5. PICK x \in ItemType : /\ x = Item("while", node, c, NoLabel, c + 1)
                            /\ x.at = "while" /\ x.node = node /\ x.head = c /\ x.end = c + 1
  <2>1. "while" \in Points /\ c \in Label /\ c + 1 \in Label /\ NoLabel \in Label
    BY DEF Points, Label
  <2> QED BY <1>2, <2>1, ItemTyped
<1>6. PICK d \in ItemType : d = Do(s) /\ Stmt(d, s)
  BY <1>2, DoRight DEF Stmt
<1>7. PICK front, e : front = <<d, x>> /\ e = c + 1
  OBVIOUS
<1>8. /\ todo' = front \o Tail(todo)
      /\ out' = Branch(Emit(Bind(out, Local(c)), "test", test), "equal", Local(e))
      /\ breakLabel' = c + 1 /\ continueLabel' = c /\ catchLabel' = catchLabel
  BY <1>3, <1>4, <1>5, <1>6, <1>7 DEF GenerateWhile, Below
<1>9. Fronts(front, x) /\ IsLast(front, x)
  BY <1>2, <1>6, <1>7, FrontOfTwo
<1>10. PICK q, r : q = Bind(out, Local(c)) /\ r = Emit(q, "test", test)
  OBVIOUS
<1>11. /\ Wide(out, q, {}) /\ Sound(q) /\ Len(out.code) \in Nat /\ Len(q.code) = Len(out.code)
       /\ LabelAt(q, c, Len(out.code) + 1)
  BY <1>1, <1>10, BindGoesOn
<1>12. /\ Wide(q, r, {}) /\ Sound(r) /\ Len(r.code) = Len(q.code) + 1
       /\ Emitted(r, Len(q.code) + 1, "test", test) /\ SameLabels(q, r)
  BY <1>10, <1>11, EmitGoesOn
<1>13. e \in Nat /\ e = c + 1
  BY <1>7
<1>14. /\ Wide(r, out', {}) /\ Len(out'.code) = Len(r.code) + 1
       /\ Jumps(out', Len(r.code) + 1, "equal", Local(e)) /\ SameLabels(r, out')
  BY <1>8, <1>10, <1>12, <1>13, BranchGoesOn, LocalTarget
<1>15. Wide(out, out', {})
  BY <1>11, <1>12, <1>14, WideThen
<1>16. Emitted(out', Len(out.code) + 1, "test", test) /\ LabelAt(out', c, Len(out.code) + 1)
  BY <1>11, <1>12, <1>14, EmittedStays DEF Wide, SameLabels
<1>17. PICK G : G = H \cup {Here'}
  OBVIOUS
<1>18. Came(G)
  BY <1>17, ReadyCame
<1>19. TopItem(Here).node = node /\ Here.at = Len(out.code) + 1 /\ Here.at + 1 = Len(r.code) + 1
       /\ Here.at + 2 = Len(out'.code) + 1
  BY <1>4, <1>11, <1>12, <1>14, <1>18 DEF Came, Node
<1>20. WroteWhile(out', G, Here)
  <2>1. Opens(G, Here, Here.at + 2, s, x)
    BY <1>6, <1>7, <1>8, <1>18, <1>19 DEF Opens, Came
  <2>2. Waits(x, "while", node)
    BY <1>5 DEF Waits
  <2> QED BY <1>4, <1>5, <1>13, <1>14, <1>16, <1>19, <2>1, <2>2 DEF WroteWhile
<1>21. DoneStatement(program, out', G, Here)
  BY <1>1, <1>2, <1>18, <1>20 DEF DoneStatement, TopKind, TopIs, Came, Node
<1>22. AimedAt(front, x)
  <2>1. x.at \in LoopPoints /\ x.at # "catch" /\ Top.at \notin LoopPoints /\ Top.at # "catch"
    BY <1>2, <1>5 DEF LoopPoints
  <2>2. x.savedBreak = breakLabel /\ x.savedContinue = continueLabel
    BY <1>5, ItemSaves
  <2> QED BY <1>2, <1>5, <1>8, <1>9, <2>1, <2>2, TargetsBelow DEF AimedAt, Ready, ResumeOf
<1>23. BornWith(out', G, x, Tail(todo), current)
  <2>1. x.node = Node /\ LabelAt(out', x.head, Len(out.code) + 1) /\ Node.kind = x.at
    BY <1>1, <1>4, <1>5, <1>16
  <2> QED BY <1>2, <1>5, <1>17, <2>1, BornHere
<1>24. x.at \in Waiting
  BY <1>5 DEF Waiting
<1> QED BY <1>1, <1>8, <1>9, <1>15, <1>17, <1>21, <1>22, <1>23, <1>24, NestedLeft

LEMMA DoWhileLeft ==
  ASSUME NEW H, Ready(H), GenerateDoWhile
  PROVE  Stepped
<1>1. At("statement") /\ Node.kind = "dowhile" /\ Inv /\ Sound(out)
  BY DEF GenerateDoWhile, AtStatement, At, Ready
<1>2. Typed /\ todo # << >> /\ Top.at = "statement"
  BY <1>1, AtBegin
<1>3. PICK c \in Nat : c = counter
  BY <1>1, AtBegin
<1>4. PICK s \in Statement, node \in Statement : s = Node.body /\ node = Node
  BY <1>1, <1>2, NodeParts
<1>5. PICK x \in ItemType : /\ x = Item("dowhile", node, c, c + 2, c + 1)
                            /\ x.at = "dowhile" /\ x.node = node /\ x.head = c /\ x.step = c + 2 /\ x.end = c + 1
  <2>1. "dowhile" \in Points /\ c \in Label /\ c + 1 \in Label /\ c + 2 \in Label
    BY DEF Points, Label
  <2> QED BY <1>2, <2>1, ItemTyped
<1>6. PICK d \in ItemType : d = Do(s) /\ Stmt(d, s)
  BY <1>2, DoRight DEF Stmt
<1>7. PICK front : front = <<d, x>>
  OBVIOUS
<1>8. /\ todo' = front \o Tail(todo) /\ out' = Bind(out, Local(c))
      /\ breakLabel' = c + 1 /\ continueLabel' = c + 2 /\ catchLabel' = catchLabel
  BY <1>3, <1>4, <1>5, <1>6, <1>7 DEF GenerateDoWhile, Below
<1>9. Fronts(front, x) /\ IsLast(front, x)
  BY <1>2, <1>6, <1>7, FrontOfTwo
<1>10. /\ Wide(out, out', {}) /\ Len(out.code) \in Nat /\ Len(out'.code) = Len(out.code)
       /\ LabelAt(out', c, Len(out.code) + 1)
  BY <1>1, <1>8, BindGoesOn
<1>11. PICK G : G = H \cup {Here'}
  OBVIOUS
<1>12. Came(G)
  BY <1>11, ReadyCame
<1>13. WroteDoWhile(out', G, Here)
  <2>1. TopItem(Here).node = node /\ Here.at = Len(out.code) + 1 /\ Here.at = Len(out'.code) + 1
    BY <1>4, <1>10, <1>12 DEF Came, Node
  <2>2. Opens(G, Here, Here.at, s, x)
    BY <1>6, <1>7, <1>8, <1>12, <2>1 DEF Opens, Came
  <2>3. Waits(x, "dowhile", node)
    BY <1>5 DEF Waits
  <2> QED BY <1>4, <1>5, <1>10, <2>1, <2>2, <2>3 DEF WroteDoWhile
<1>14. DoneStatement(program, out', G, Here)
  BY <1>1, <1>2, <1>12, <1>13 DEF DoneStatement, TopKind, TopIs, Came, Node
<1>15. AimedAt(front, x)
  <2>1. x.at \in LoopPoints /\ x.at # "catch" /\ Top.at \notin LoopPoints /\ Top.at # "catch"
    BY <1>2, <1>5 DEF LoopPoints
  <2>2. x.savedBreak = breakLabel /\ x.savedContinue = continueLabel
    BY <1>5, ItemSaves
  <2> QED BY <1>2, <1>5, <1>8, <1>9, <2>1, <2>2, TargetsBelow DEF AimedAt, Ready, ResumeOf
<1>16. BornWith(out', G, x, Tail(todo), current)
  <2>1. x.node = Node /\ LabelAt(out', x.head, Len(out.code) + 1) /\ Node.kind = x.at
    BY <1>1, <1>4, <1>5, <1>10
  <2> QED BY <1>2, <1>5, <1>11, <2>1, BornHere
<1>17. x.at \in Waiting
  BY <1>5 DEF Waiting
<1> QED BY <1>1, <1>8, <1>9, <1>10, <1>11, <1>14, <1>15, <1>16, <1>17, NestedLeft

LEMMA ForLeft ==
  ASSUME NEW H, Ready(H), GenerateFor
  PROVE  Stepped
<1>1. At("statement") /\ Node.kind = "for" /\ Inv /\ Sound(out)
  BY DEF GenerateFor, AtStatement, At, Ready
<1>2. Typed /\ todo # << >> /\ Top.at = "statement"
  BY <1>1, AtBegin
<1>3. PICK c \in Nat : c = counter
  BY <1>1, AtBegin
<1>4. PICK init \in Seq(Statement), node \in Statement : init = Node.init /\ node = Node
  BY <1>1, <1>2, NodeParts
<1>5. PICK x \in ItemType : /\ x = Item("for", node, c, c + 2, c + 1)
                            /\ x.at = "for" /\ x.node = node /\ x.head = c /\ x.step = c + 2 /\ x.end = c + 1
  <2>1. "for" \in Points /\ c \in Label /\ c + 1 \in Label /\ c + 2 \in Label
    BY DEF Points, Label
  <2> QED BY <1>2, <2>1, ItemTyped
<1>6. PICK g \in Seq(ItemType) : g = Sequence(init) /\ Stmts(g, init)
  BY <1>2, BodyItems, SequenceRight
<1>7. PICK front : front = g \o <<x>>
  OBVIOUS
<1>8. /\ todo' = front \o Tail(todo) /\ out' = out
      /\ breakLabel' = c + 1 /\ continueLabel' = c + 2 /\ catchLabel' = catchLabel
  <2>1. todo' = g \o <<x>> \o Tail(todo)
    BY <1>3, <1>4, <1>5, <1>6 DEF GenerateFor, Below
  <2> QED BY <1>3, <1>7, <2>1 DEF GenerateFor
<1>9. Fronts(front, x) /\ IsLast(front, x)
  BY <1>2, <1>6, <1>7, FrontOfInit
<1>10. Wide(out, out', {})
  BY <1>1, <1>8, WideSelf
<1>11. PICK G : G = H \cup {Here'}
  OBVIOUS
<1>12. Came(G)
  BY <1>11, ReadyCame
<1>13. WroteFor(G, Here)
  <2>1. TopItem(Here).node = node /\ Here.at = Len(out.code) + 1 /\ Here.at = Len(out'.code) + 1
    BY <1>4, <1>8, <1>12 DEF Came, Node
  <2>2. Comes(G, Here.at, (g \o <<x>>) \o Suffix(Here.todo, 2), Here.fn)
    BY <1>7, <1>8, <1>12, <2>1 DEF Came
  <2>3. Waits(x, "for", node)
    BY <1>5 DEF Waits
  <2> QED BY <1>4, <1>6, <2>1, <2>2, <2>3 DEF WroteFor
<1>14. DoneStatement(program, out', G, Here)
  BY <1>1, <1>2, <1>12, <1>13 DEF DoneStatement, TopKind, TopIs, Came, Node
<1>15. AimedAt(front, x)
  <2>1. x.at \in LoopPoints /\ x.at # "catch" /\ Top.at \notin LoopPoints /\ Top.at # "catch"
    BY <1>2, <1>5 DEF LoopPoints
  <2>2. x.savedBreak = breakLabel /\ x.savedContinue = continueLabel
    BY <1>5, ItemSaves
  <2> QED BY <1>2, <1>5, <1>8, <1>9, <2>1, <2>2, TargetsBelow DEF AimedAt, Ready, ResumeOf
<1>16. BornWith(out', G, x, Tail(todo), current) /\ x.at \in Waiting
  BY <1>5 DEF BornWith, Waiting
<1> QED BY <1>1, <1>8, <1>9, <1>10, <1>11, <1>14, <1>15, <1>16, NestedLeft

LEMMA TryLeft ==
  ASSUME NEW H, Ready(H), GenerateTry
  PROVE  Stepped
<1>1. At("statement") /\ Node.kind = "try" /\ Inv /\ Sound(out)
  BY DEF GenerateTry, AtStatement, At, Ready
<1>2. Typed /\ todo # << >> /\ Top.at = "statement"
  BY <1>1, AtBegin
<1>3. PICK c \in Nat : c = counter
  BY <1>1, AtBegin
<1>4. PICK s \in Statement, node \in Statement : s = Node.body /\ node = Node
  BY <1>1, <1>2, NodeParts
<1>5. PICK x \in ItemType : /\ x = Item("catch", node, c, NoLabel, c + 1)
                            /\ x.at = "catch" /\ x.node = node /\ x.head = c /\ x.end = c + 1 /\ x.clause = 0
  <2>1. "catch" \in Points /\ c \in Label /\ c + 1 \in Label /\ NoLabel \in Label
    BY DEF Points, Label
  <2> QED BY <1>2, <2>1, ItemTyped
<1>6. PICK d \in ItemType : d = Do(s) /\ Stmt(d, s)
  BY <1>2, DoRight DEF Stmt
<1>7. PICK front : front = <<d, x>>
  OBVIOUS
<1>8. /\ todo' = front \o Tail(todo) /\ out' = out
      /\ breakLabel' = breakLabel /\ continueLabel' = continueLabel /\ catchLabel' = c
  BY <1>3, <1>4, <1>5, <1>6, <1>7 DEF GenerateTry, Below
<1>9. Fronts(front, x) /\ IsLast(front, x)
  BY <1>2, <1>6, <1>7, FrontOfTwo
<1>10. Wide(out, out', {})
  BY <1>1, <1>8, WideSelf
<1>11. PICK G : G = H \cup {Here'}
  OBVIOUS
<1>12. Came(G)
  BY <1>11, ReadyCame
<1>13. WroteTry(G, Here)
  <2>1. TopItem(Here).node = node /\ Here.at = Len(out.code) + 1 /\ Here.at = Len(out'.code) + 1
    BY <1>4, <1>8, <1>12 DEF Came, Node
  <2>2. Opens(G, Here, Here.at, s, x)
    BY <1>6, <1>7, <1>8, <1>12, <2>1 DEF Opens, Came
  <2>3. Waits(x, "catch", node)
    BY <1>5 DEF Waits
  <2> QED BY <1>4, <1>5, <2>1, <2>2, <2>3 DEF WroteTry
<1>14. DoneStatement(program, out', G, Here)
  BY <1>1, <1>2, <1>12, <1>13 DEF DoneStatement, TopKind, TopIs, Came, Node
<1>15. AimedAt(front, x)
  <2>1. x.at \notin LoopPoints /\ Top.at \notin LoopPoints /\ Top.at # "catch"
    BY <1>2, <1>5 DEF LoopPoints
  <2>2. x.savedCatch = catchLabel
    BY <1>5, ItemSaves
  <2> QED BY <1>2, <1>5, <1>8, <1>9, <2>1, <2>2, TargetsBelow DEF AimedAt, Ready
<1>16. BornWith(out', G, x, Tail(todo), current) /\ x.at \in Waiting
  BY <1>5 DEF BornWith, Waiting
<1> QED BY <1>1, <1>8, <1>9, <1>10, <1>11, <1>14, <1>15, <1>16, NestedLeft

-----------------------------------------------------------------------------
(* Handlers that go on.                                                    *)
LEMMA OnlyItem ==
  ASSUME NEW unit, NEW o, NEW G, NEW c, TopItem(c).at # "statement", DoneItem(unit, o, G, c)
  PROVE  Done(unit, o, G, c)
BY DEF Done, DoneStatement, TopKind, TopIs

LEMMA EndLeft ==
  ASSUME NEW H, Ready(H), Top.at \in Waiting, todo' = Tail(todo), Wide(out, out', {}),
         LabelAt(out', Top.end, Len(out'.code) + 1),
         LoopTargets(todo, 1, breakLabel', continueLabel'), CatchTarget(todo, 1, catchLabel'),
         NEW G, G = H \cup {Here'}, DoneItem(program, out', G, Here)
  PROVE  Stepped
<1>1. Typed /\ todo # << >> /\ todo \in Seq(ItemType)
  BY DEF Ready, Inv, Typed
<1>2. PICK F, B : F = << >> /\ B = {}
  OBVIOUS
<1>3. Len(F) = 0 /\ F \in Seq(ItemType) /\ todo' = F \o Tail(todo)
  BY <1>1, <1>2, EmptySeq, ConcatEmptySeq, HeadTailProperties
<1>4. Fronts(F, Top) /\ ~IsLast(F, Top)
  BY <1>3 DEF Fronts, IsLast
<1>5. AimedAt(F, Top)
  BY <1>4 DEF AimedAt
<1>6. Top.at # "statement" /\ Top.at # "epilogue"
  BY DEF Waiting
<1>7. TopItem(Here) = Top
  BY ReadyCame DEF Came
<1>8. Done(program, out', H \cup {Here'}, Here)
  BY <1>6, <1>7, OnlyItem
<1>9. Wide(out, out', B) /\ B \subseteq {program[current].name}
  BY <1>2
<1> QED BY <1>2, <1>3, <1>4, <1>5, <1>6, <1>8, <1>9, Assembled

LEMMA GoesOnLeft ==
  ASSUME NEW H, Ready(H), Top.at \in Waiting, NEW front, NEW x, Fronts(front, x), IsLast(front, x),
         x.at \in Waiting, x.end = Top.end, todo' = front \o Tail(todo), Wide(out, out', {}),
         AimedAt(front, x), NEW G, G = H \cup {Here'},
         BornWith(out', G, x, Tail(todo), current), DoneItem(program, out', G, Here)
  PROVE  Stepped
<1>1. PICK B : B = {}
  OBVIOUS
<1>2. Top.at # "statement" /\ Top.at # "epilogue" /\ x.at # "epilogue"
  BY DEF Waiting
<1>3. TopItem(Here) = Top
  BY ReadyCame DEF Came
<1>4. Done(program, out', H \cup {Here'}, Here) /\ BornWith(out', H \cup {Here'}, x, Tail(todo), current)
  BY <1>2, <1>3, OnlyItem
<1>5. Wide(out, out', B) /\ B \subseteq {program[current].name} /\ todo # << >>
  BY <1>1 DEF Ready
<1> QED BY <1>2, <1>4, <1>5, Assembled

LEMMA EndIfLeft ==
  ASSUME NEW H, Ready(H), EndIf
  PROVE  Stepped
<1>1. Top.at = "endif" /\ Top.at \in Waiting /\ todo # << >> /\ Inv /\ Sound(out)
      /\ todo' = Tail(todo) /\ UNCHANGED <<breakLabel, continueLabel, catchLabel>>
  BY DEF EndIf, At, Waiting, Below, targets, Ready
<1>2. PICK e \in Nat : e = Top.end
  BY <1>1, AtResume
<1>3. out' = Bind(out, Local(e))
  BY <1>2 DEF EndIf
<1>4. /\ Wide(out, out', {}) /\ Len(out.code) \in Nat /\ Len(out'.code) = Len(out.code)
      /\ LabelAt(out', e, Len(out.code) + 1)
  BY <1>1, <1>3, BindGoesOn
<1>5. PICK G : G = H \cup {Here'}
  OBVIOUS
<1>6. Came(G)
  BY <1>5, ReadyCame
<1>7. DoneItem(program, out', G, Here)
  <2>1. WroteEndIf(G, Here)
    BY <1>1, <1>4, <1>6 DEF WroteEndIf, Leaves, Came
  <2> QED BY <1>1, <1>6, <2>1 DEF DoneItem, TopIs, Came
<1>8. LoopTargets(todo, 1, breakLabel', continueLabel') /\ CatchTarget(todo, 1, catchLabel')
  <2>1. Top.at \notin LoopPoints /\ Top.at # "catch"
    BY <1>1 DEF LoopPoints
  <2> QED BY <1>1, <2>1, TargetsBelow DEF Ready
<1> QED BY <1>1, <1>2, <1>4, <1>5, <1>7, <1>8, EndLeft

LEMMA Restored ==
  ASSUME NEW H, Ready(H), Top.at \in LoopPoints, RestoreLoop
  PROVE  LoopTargets(todo, 1, breakLabel', continueLabel') /\ CatchTarget(todo, 1, catchLabel')
<1>1. Top.at # "catch"
  BY DEF LoopPoints
<1> QED BY <1>1, TargetsBelow DEF Ready, RestoreLoop

LEMMA EndWhileLeft ==
  ASSUME NEW H, Ready(H), EndWhile
  PROVE  Stepped
<1>1. Top.at = "while" /\ Top.at \in Waiting /\ Top.at \in LoopPoints /\ todo # << >> /\ Inv /\ Sound(out)
      /\ todo' = Tail(todo) /\ RestoreLoop
  BY DEF EndWhile, At, Waiting, LoopPoints, Below, Ready
<1>2. PICK h \in Nat, e \in Nat : h = Top.head /\ e = Top.end
  BY <1>1, AtResume
<1>3. PICK q : q = Branch(out, "always", Local(h))
  OBVIOUS
<1>4. out' = Bind(q, Local(e))
  BY <1>2, <1>3 DEF EndWhile
<1>5. /\ Wide(out, q, {}) /\ Sound(q) /\ Len(out.code) \in Nat /\ Len(q.code) = Len(out.code) + 1
      /\ Jumps(q, Len(out.code) + 1, "always", Local(h))
  BY <1>1, <1>3, BranchGoesOn, LocalTarget
<1>6. /\ Wide(q, out', {}) /\ Len(out'.code) = Len(q.code) /\ LabelAt(out', e, Len(q.code) + 1)
  BY <1>4, <1>5, BindGoesOn
<1>7. Wide(out, out', {}) /\ Jumps(out', Len(out.code) + 1, "always", Local(h))
  BY <1>5, <1>6, WideThen, JumpsStay DEF Wide
<1>8. PICK G : G = H \cup {Here'}
  OBVIOUS
<1>9. Came(G)
  BY <1>8, ReadyCame
<1>10. DoneItem(program, out', G, Here)
  <2>1. WroteEndWhile(out', G, Here)
    BY <1>1, <1>2, <1>5, <1>6, <1>7, <1>9 DEF WroteEndWhile, Leaves, Came
  <2> QED BY <1>1, <1>9, <2>1 DEF DoneItem, TopIs, Came
<1>11. LabelAt(out', Top.end, Len(out'.code) + 1)
  BY <1>2, <1>6
<1> QED BY <1>1, <1>7, <1>8, <1>10, <1>11, Restored, EndLeft

LEMMA EndDoWhileLeft ==
  ASSUME NEW H, Ready(H), EndDoWhile
  PROVE  Stepped
<1>1. Top.at = "dowhile" /\ Top.at \in Waiting /\ Top.at \in LoopPoints /\ todo # << >> /\ Inv /\ Sound(out)
      /\ todo' = Tail(todo) /\ RestoreLoop
  BY DEF EndDoWhile, At, Waiting, LoopPoints, Below, Ready
<1>2. PICK h \in Nat, e \in Nat, s \in Nat : h = Top.head /\ e = Top.end /\ s = Top.step /\ s # e
  BY <1>1, AtResume DEF ItemRight
<1>3. PICK test \in Int : test = Node.id
  BY <1>1, AtResume, NodeParts DEF ItemRight, Node
<1>4. PICK q, r, t : q = Bind(out, Local(s)) /\ r = Emit(q, "test", test) /\ t = Branch(r, "notequal", Local(h))
  OBVIOUS
<1>5. out' = Bind(t, Local(e))
  BY <1>2, <1>3, <1>4 DEF EndDoWhile
<1>6. /\ Wide(out, q, {}) /\ Sound(q) /\ Len(out.code) \in Nat /\ Len(q.code) = Len(out.code)
      /\ LabelAt(q, s, Len(out.code) + 1)
  BY <1>1, <1>4, BindGoesOn
<1>7. /\ Wide(q, r, {}) /\ Sound(r) /\ Len(r.code) = Len(q.code) + 1
      /\ Emitted(r, Len(q.code) + 1, "test", test) /\ SameLabels(q, r)
  BY <1>4, <1>6, EmitGoesOn
<1>8. /\ Wide(r, t, {}) /\ Sound(t) /\ Len(t.code) = Len(r.code) + 1
      /\ Jumps(t, Len(r.code) + 1, "notequal", Local(h)) /\ SameLabels(r, t)
  BY <1>4, <1>7, BranchGoesOn, LocalTarget
<1>9. /\ Wide(t, out', {}) /\ Len(out'.code) = Len(t.code) /\ LabelAt(out', e, Len(t.code) + 1)
      /\ \A m \in Nat : \A p : m # e /\ LabelAt(t, m, p) => LabelAt(out', m, p)
  BY <1>5, <1>8, BindGoesOn
<1>10. Wide(out, out', {})
  BY <1>6, <1>7, <1>8, <1>9, WideThen
<1>11. /\ Emitted(out', Len(out.code) + 1, "test", test)
       /\ Jumps(out', Len(r.code) + 1, "notequal", Local(h))
  BY <1>6, <1>7, <1>8, <1>9, EmittedStays, JumpsStay DEF Wide
<1>12. LabelAt(out', s, Len(out.code) + 1)
  BY <1>2, <1>6, <1>7, <1>8, <1>9 DEF SameLabels
<1>13. PICK G : G = H \cup {Here'}
  OBVIOUS
<1>14. Came(G)
  BY <1>13, ReadyCame
<1>15. DoneItem(program, out', G, Here)
  <2>1. /\ Here.at = Len(out.code) + 1 /\ Here.at + 1 = Len(r.code) + 1 /\ Here.at + 2 = Len(out'.code) + 1
        /\ TopItem(Here) = Top /\ TopItem(Here).node.id = test
    BY <1>3, <1>6, <1>7, <1>8, <1>9, <1>14 DEF Came, Node
  <2>2. Leaves(G, Here, Here.at + 2)
    BY <1>1, <1>14, <2>1 DEF Leaves, Came
  <2>3. WroteEndDoWhile(out', G, Here)
    BY <1>2, <1>11, <1>12, <2>1, <2>2 DEF WroteEndDoWhile
  <2> QED BY <1>1, <1>14, <2>3 DEF DoneItem, TopIs, Came
<1>16. LabelAt(out', Top.end, Len(out'.code) + 1)
  BY <1>2, <1>9
<1> QED BY <1>1, <1>10, <1>13, <1>15, <1>16, Restored, EndLeft

LEMMA EndForLeft ==
  ASSUME NEW H, Ready(H), EndFor
  PROVE  Stepped
<1>1. Top.at = "step" /\ Top.at \in Waiting /\ Top.at \in LoopPoints /\ todo # << >> /\ Inv /\ Sound(out)
      /\ todo' = Tail(todo) /\ RestoreLoop
  BY DEF EndFor, At, Waiting, LoopPoints, Below, Ready
<1>2. PICK h \in Nat, e \in Nat, s \in Nat : h = Top.head /\ e = Top.end /\ s = Top.step /\ s # e
  BY <1>1, AtResume DEF ItemRight
<1>3. PICK steps \in Seq(Int) : steps = Node.step
  BY <1>1, AtResume, NodeParts DEF ItemRight, Node
<1>4. PICK q : q = Bind(out, Local(s))
  OBVIOUS
<1>5. /\ Wide(out, q, {}) /\ Sound(q) /\ Len(out.code) \in Nat /\ Len(q.code) = Len(out.code)
      /\ LabelAt(q, s, Len(out.code) + 1)
  BY <1>1, <1>4, BindGoesOn
<1>6. PICK r : r = IF steps = << >> THEN q ELSE Emit(q, "act", steps[1])
  OBVIOUS
<1>7. /\ Wide(q, r, {}) /\ Sound(r) /\ SameLabels(q, r)
      /\ steps = << >> => Len(r.code) = Len(q.code)
      /\ steps # << >> => Len(r.code) = Len(q.code) + 1 /\ Emitted(r, Len(q.code) + 1, "act", steps[1])
  <2>1. CASE steps = << >>
    <3>1. r = q
      BY <1>6, <2>1
    <3> QED BY <1>5, <2>1, <3>1, WideSelf DEF SameLabels
  <2>2. CASE steps # << >>
    <3>1. PICK step \in Int : step = steps[1]
      BY <2>2, FirstOf
    <3>2. r = Emit(q, "act", step)
      BY <1>6, <2>2, <3>1
    <3> QED BY <1>5, <2>2, <3>1, <3>2, EmitGoesOn
  <2> QED BY <2>1, <2>2
<1>8. PICK t : t = Branch(r, "always", Local(h))
  OBVIOUS
<1>9. out' = Bind(t, Local(e))
  BY <1>2, <1>3, <1>4, <1>6, <1>8 DEF EndFor
<1>10. /\ Wide(r, t, {}) /\ Sound(t) /\ Len(r.code) \in Nat /\ Len(t.code) = Len(r.code) + 1
       /\ Jumps(t, Len(r.code) + 1, "always", Local(h)) /\ SameLabels(r, t)
  BY <1>7, <1>8, BranchGoesOn, LocalTarget
<1>11. /\ Wide(t, out', {}) /\ Len(out'.code) = Len(t.code) /\ LabelAt(out', e, Len(t.code) + 1)
       /\ \A m \in Nat : \A p : m # e /\ LabelAt(t, m, p) => LabelAt(out', m, p)
  BY <1>9, <1>10, BindGoesOn
<1>12. Wide(out, out', {})
  BY <1>5, <1>7, <1>10, <1>11, WideThen
<1>13. /\ steps # << >> => Emitted(out', Len(out.code) + 1, "act", steps[1])
       /\ Jumps(out', Len(r.code) + 1, "always", Local(h))
  BY <1>5, <1>7, <1>10, <1>11, EmittedStays, JumpsStay DEF Wide
<1>14. LabelAt(out', s, Len(out.code) + 1)
  BY <1>2, <1>5, <1>7, <1>10, <1>11 DEF SameLabels
<1>15. PICK G : G = H \cup {Here'}
  OBVIOUS
<1>16. Came(G)
  BY <1>15, ReadyCame
<1>17. DoneItem(program, out', G, Here)
  <2>1. /\ Here.at = Len(out.code) + 1 /\ TopItem(Here) = Top /\ TopItem(Here).node.step = steps
        /\ steps = << >> => Here.at = Len(r.code) + 1
        /\ steps # << >> => Here.at + 1 = Len(r.code) + 1
    BY <1>3, <1>5, <1>7, <1>16 DEF Came, Node
  <2>2. WroteEndFor(out', G, Here)
    BY <1>2, <1>13, <1>14, <2>1 DEF WroteEndFor
  <2> QED BY <1>1, <1>16, <2>2 DEF DoneItem, TopIs, Came
<1>18. LabelAt(out', Top.end, Len(out'.code) + 1)
  BY <1>2, <1>11
<1> QED BY <1>1, <1>12, <1>15, <1>17, <1>18, Restored, EndLeft

LEMMA ElseLeft ==
  ASSUME NEW H, Ready(H), GenerateElse
  PROVE  Stepped
<1>1. Top.at = "else" /\ Top.at \in Waiting /\ todo # << >> /\ Inv /\ Sound(out)
  BY DEF GenerateElse, At, Waiting, Ready
<1>2. PICK h \in Nat, e \in Nat : h = Top.head /\ e = Top.end /\ h # e
  BY <1>1, AtResume
<1>3. Typed /\ Top \in ItemType /\ ItemRight(Top)
  BY <1>1, AtResume
<1>4. PICK s \in Statement : s = Node.otherwise[1]
  BY <1>1, <1>3, NodeParts, FirstOf DEF ItemRight, Node
<1>5. PICK x \in ItemType : /\ x = [Top EXCEPT !.at = "endif"] /\ x.at = "endif" /\ x.node = Top.node
                            /\ x.head = h /\ x.end = e
  <2>1. "endif" \in Points
    BY DEF Points
  <2> QED BY <1>2, <1>3, <2>1, ItemResumed
<1>6. PICK d \in ItemType : d = Do(s) /\ Stmt(d, s)
  BY <1>3, DoRight DEF Stmt
<1>7. PICK front, q : front = <<d, x>> /\ q = Branch(out, "always", Local(e))
  OBVIOUS
<1>8. /\ todo' = front \o Tail(todo) /\ out' = Bind(q, Local(h))
      /\ UNCHANGED <<breakLabel, continueLabel, catchLabel>>
  BY <1>2, <1>4, <1>5, <1>6, <1>7 DEF GenerateElse, targets, Below
<1>9. Fronts(front, x) /\ IsLast(front, x)
  BY <1>3, <1>6, <1>7, FrontOfTwo
<1>10. /\ Wide(out, q, {}) /\ Sound(q) /\ Len(out.code) \in Nat /\ Len(q.code) = Len(out.code) + 1
       /\ Jumps(q, Len(out.code) + 1, "always", Local(e))
  BY <1>1, <1>7, BranchGoesOn, LocalTarget
<1>11. /\ Wide(q, out', {}) /\ Len(out'.code) = Len(q.code) /\ LabelAt(out', h, Len(q.code) + 1)
  BY <1>8, <1>10, BindGoesOn
<1>12. Wide(out, out', {}) /\ Jumps(out', Len(out.code) + 1, "always", Local(e))
  BY <1>10, <1>11, WideThen, JumpsStay DEF Wide
<1>13. PICK G : G = H \cup {Here'}
  OBVIOUS
<1>14. Came(G)
  BY <1>13, ReadyCame
<1>15. DoneItem(program, out', G, Here)
  <2>1. /\ Here.at = Len(out.code) + 1 /\ Here.at + 1 = Len(q.code) + 1 /\ Here.at + 1 = Len(out'.code) + 1
        /\ TopItem(Here) = Top
    BY <1>10, <1>11, <1>14 DEF Came
  <2>2. Opens(G, Here, Here.at + 1, s, x)
    BY <1>6, <1>7, <1>8, <1>14, <2>1 DEF Opens, Came
  <2>3. WroteElse(out', G, Here)
    BY <1>2, <1>4, <1>5, <1>11, <1>12, <2>1, <2>2 DEF WroteElse, Waits, Node
  <2> QED BY <1>1, <1>14, <2>3 DEF DoneItem, TopIs, Came
<1>16. AimedAt(front, x)
  <2>1. x.at \notin LoopPoints /\ x.at # "catch" /\ Top.at \notin LoopPoints /\ Top.at # "catch"
    BY <1>1, <1>5 DEF LoopPoints
  <2> QED BY <1>1, <1>8, <2>1, TargetsBelow DEF AimedAt, Ready
<1>17. BornWith(out', G, x, Tail(todo), current) /\ x.at \in Waiting /\ x.end = Top.end
  BY <1>2, <1>5 DEF BornWith, Waiting
<1> QED BY <1>1, <1>8, <1>9, <1>12, <1>13, <1>15, <1>16, <1>17, GoesOnLeft

(* A resumed item keeps what it saved.                                     *)
LEMMA ResumedSaves ==
  ASSUME NEW y \in ItemType, NEW at
  PROVE  LET x == [y EXCEPT !.at = at]
         IN  x.savedBreak = y.savedBreak /\ x.savedContinue = y.savedContinue /\ x.savedCatch = y.savedCatch
BY DEF ItemType
LEMMA ClauseSaves ==
  ASSUME NEW y \in ItemType
  PROVE  LET x == [y EXCEPT !.clause = @ + 1]
         IN  x.savedBreak = y.savedBreak /\ x.savedContinue = y.savedContinue /\ x.savedCatch = y.savedCatch
BY DEF ItemType

(* The targets in force are those of the item at the top.                  *)
LEMMA TargetsOfTop ==
  ASSUME Inv, TargetsRight, todo # << >>
  PROVE  /\ Top.at \in LoopPoints => breakLabel = Top.end /\ continueLabel = ResumeOf(Top)
         /\ Top.at = "catch" => catchLabel = Top.head
<1>1. PICK one \in 1..Len(todo) : one = 1 /\ Top = todo[one] /\ Len(todo) \in Nat
  BY TopFirst DEF Inv
<1>2. \A P : Top.at \in P => Governs(todo, 0, P, one)
  BY <1>1 DEF Governs
<1>3. Top.at = "catch" => Top.at \in {"catch"}
  OBVIOUS
<1> QED BY <1>1, <1>2, <1>3 DEF TargetsRight, LoopTargets, CatchTarget

LEMMA ForTestLeft ==
  ASSUME NEW H, Ready(H), ForTest
  PROVE  Stepped
<1>1. Top.at = "for" /\ Top.at \in Waiting /\ todo # << >> /\ Inv /\ Sound(out) /\ TargetsRight
  BY DEF ForTest, At, Waiting, Ready
<1>2. PICK h \in Nat, e \in Nat, s \in Nat : h = Top.head /\ e = Top.end /\ s = Top.step
  BY <1>1, AtResume DEF ItemRight
<1>3. Typed /\ Top \in ItemType /\ ItemRight(Top)
  BY <1>1, AtResume
<1>4. PICK b \in Statement, tests \in Seq(Int) : b = Node.body /\ tests = Node.test
  BY <1>1, <1>3, NodeParts DEF ItemRight, Node
<1>5. PICK x \in ItemType : /\ x = [Top EXCEPT !.at = "step"] /\ x.at = "step" /\ x.node = Top.node
                            /\ x.head = h /\ x.end = e /\ x.step = s
  <2>1. "step" \in Points
    BY DEF Points
  <2> QED BY <1>2, <1>3, <2>1, ItemResumed
<1>6. PICK d \in ItemType : d = Do(b) /\ Stmt(d, b)
  BY <1>3, DoRight DEF Stmt
<1>7. PICK front, q : front = <<d, x>> /\ q = Bind(out, Local(h))
  OBVIOUS
<1>8. /\ todo' = front \o Tail(todo)
      /\ out' = IF tests = << >> THEN q ELSE Branch(Emit(q, "test", tests[1]), "equal", Local(e))
      /\ UNCHANGED <<breakLabel, continueLabel, catchLabel>>
  BY <1>2, <1>4, <1>5, <1>6, <1>7 DEF ForTest, targets, Below
<1>9. Fronts(front, x) /\ IsLast(front, x)
  BY <1>3, <1>6, <1>7, FrontOfTwo
<1>10. /\ Wide(out, q, {}) /\ Sound(q) /\ Len(out.code) \in Nat /\ Len(q.code) = Len(out.code)
       /\ LabelAt(q, h, Len(out.code) + 1)
  BY <1>1, <1>7, BindGoesOn
<1>11. /\ Wide(q, out', {}) /\ SameLabels(q, out')
       /\ tests = << >> => Len(out'.code) = Len(q.code)
       /\ tests # << >> => /\ Len(out'.code) = Len(q.code) + 2
                           /\ Emitted(out', Len(q.code) + 1, "test", tests[1])
                           /\ Jumps(out', Len(q.code) + 2, "equal", Local(e))
  <2>1. CASE tests = << >>
    <3>1. out' = q
      BY <1>8, <2>1
    <3> QED BY <1>10, <2>1, <3>1, WideSelf DEF SameLabels
  <2>2. CASE tests # << >>
    <3>1. PICK test \in Int : test = tests[1]
      BY <2>2, FirstOf
    <3>2. PICK r : r = Emit(q, "test", test)
      OBVIOUS
    <3>3. out' = Branch(r, "equal", Local(e))
      BY <1>8, <2>2, <3>1, <3>2
    <3>4. /\ Wide(q, r, {}) /\ Sound(r) /\ Len(r.code) = Len(q.code) + 1 /\ SameLabels(q, r)
          /\ Emitted(r, Len(q.code) + 1, "test", test)
      BY <1>10, <3>2, EmitGoesOn
    <3>5. /\ Wide(r, out', {}) /\ Len(out'.code) = Len(r.code) + 1 /\ SameLabels(r, out')
          /\ Jumps(out', Len(r.code) + 1, "equal", Local(e))
      BY <3>3, <3>4, BranchGoesOn, LocalTarget
    <3>6. Wide(q, out', {}) /\ SameLabels(q, out')
      BY <3>4, <3>5, WideThen DEF SameLabels
    <3>7. Emitted(out', Len(q.code) + 1, "test", test)
      BY <3>4, <3>5, EmittedStays DEF Wide
    <3>8. Len(r.code) + 1 = Len(q.code) + 2 /\ Len(out'.code) = Len(q.code) + 2
      BY <1>10, <3>4, <3>5
    <3> QED BY <2>2, <3>1, <3>5, <3>6, <3>7, <3>8
  <2> QED BY <2>1, <2>2
<1>12. Wide(out, out', {}) /\ LabelAt(out', h, Len(out.code) + 1)
  BY <1>10, <1>11, WideThen DEF SameLabels
<1>13. PICK G : G = H \cup {Here'}
  OBVIOUS
<1>14. Came(G)
  BY <1>13, ReadyCame
<1>15. DoneItem(program, out', G, Here)
  <2>1. /\ Here.at = Len(out.code) + 1 /\ TopItem(Here) = Top /\ Here.at = Len(q.code) + 1
        /\ Here.at + 1 = Len(q.code) + 2
        /\ tests = << >> => Here.at = Len(out'.code) + 1
        /\ tests # << >> => Here.at + 2 = Len(out'.code) + 1
    BY <1>10, <1>11, <1>14 DEF Came
  <2>2. Opens(G, Here, IF tests = << >> THEN Here.at ELSE Here.at + 2, b, x)
    BY <1>6, <1>7, <1>8, <1>14, <2>1 DEF Opens, Came
  <2>3. Waits(x, "step", Top.node) /\ x.end = Top.end
    BY <1>2, <1>5 DEF Waits
  <2>4. WroteForTest(out', G, Here)
    BY <1>2, <1>4, <1>11, <1>12, <2>1, <2>2, <2>3 DEF WroteForTest, Node
  <2> QED BY <1>1, <1>14, <2>4 DEF DoneItem, TopIs, Came
<1>16. AimedAt(front, x)
  <2>1. x.at \in LoopPoints /\ x.at # "catch" /\ Top.at \in LoopPoints /\ Top.at # "catch"
    BY <1>1, <1>5 DEF LoopPoints
  <2>2. x.savedBreak = Top.savedBreak /\ x.savedContinue = Top.savedContinue
    BY <1>3, <1>5, ResumedSaves
  <2>3. ResumeOf(x) = ResumeOf(Top) /\ x.end = Top.end
    BY <1>1, <1>2, <1>5 DEF ResumeOf
  <2> QED BY <1>1, <1>8, <1>9, <2>1, <2>2, <2>3, TargetsBelow, TargetsOfTop DEF AimedAt
<1>17. BornWith(out', G, x, Tail(todo), current)
  <2>1. x.node = Node /\ LabelAt(out', x.head, Len(out.code) + 1)
    BY <1>5, <1>12 DEF Node
  <2> QED BY <1>1, <1>5, <1>13, <2>1, BornHere
<1>18. x.at \in Waiting /\ x.end = Top.end
  BY <1>2, <1>5 DEF Waiting
<1> QED BY <1>1, <1>8, <1>9, <1>12, <1>13, <1>15, <1>16, <1>17, <1>18, GoesOnLeft

LEMMA CatchLeft ==
  ASSUME NEW H, Ready(H), GenerateCatch
  PROVE  Stepped
<1>1. Top.at = "catch" /\ Top.at \in Waiting /\ todo # << >> /\ Inv /\ Sound(out) /\ TargetsRight
  BY DEF GenerateCatch, At, Waiting, Ready
<1>2. PICK h \in Nat, e \in Nat : h = Top.head /\ e = Top.end /\ h # e
  BY <1>1, AtResume
<1>3. Typed /\ Top \in ItemType /\ ItemRight(Top)
  BY <1>1, AtResume
<1>4. PICK clauses \in Seq(Statement), k \in Nat : clauses = Node.clauses /\ k = Top.clause /\ k <= Len(clauses)
  <2>1. Node.clauses \in Seq(Statement) /\ Top.clause <= Len(Node.clauses)
    BY <1>1, <1>3, NodeParts DEF ItemRight, Node
  <2>2. Top.clause \in Nat
    BY <1>3 DEF ItemType
  <2> QED BY <2>1, <2>2
<1>5. PICK q, r : q = Branch(out, "always", Local(e)) /\ r = IF k = 0 THEN Bind(q, Local(h)) ELSE q
  OBVIOUS
<1>6. /\ Wide(out, q, {}) /\ Sound(q) /\ Len(out.code) \in Nat /\ Len(q.code) = Len(out.code) + 1
      /\ Jumps(q, Len(out.code) + 1, "always", Local(e))
  BY <1>1, <1>5, BranchGoesOn, LocalTarget
<1>7. /\ Wide(q, r, {}) /\ Sound(r) /\ Len(r.code) = Len(q.code)
      /\ k = 0 => LabelAt(r, h, Len(q.code) + 1)
  <2>1. CASE k = 0
    <3>1. r = Bind(q, Local(h))
      BY <1>5, <2>1
    <3> QED BY <1>6, <3>1, BindGoesOn
  <2>2. CASE k # 0
    <3>1. r = q
      BY <1>5, <2>2
    <3> QED BY <1>6, <2>2, <3>1, WideSelf
  <2> QED BY <2>1, <2>2
<1>8. Wide(out, r, {}) /\ Jumps(r, Len(out.code) + 1, "always", Local(e))
  BY <1>6, <1>7, WideThen, JumpsStay DEF Wide
<1>9. PICK G : G = H \cup {Here'}
  OBVIOUS
<1>10. Came(G)
  BY <1>9, ReadyCame
<1>11. /\ Here.at = Len(out.code) + 1 /\ Here.at + 1 = Len(q.code) + 1 /\ Here.at + 1 = Len(r.code) + 1
       /\ TopItem(Here) = Top
  BY <1>6, <1>7, <1>10 DEF Came
<1>12. Top.at \notin LoopPoints
  BY <1>1 DEF LoopPoints
<1>13. CASE k = Len(clauses)
  <2>1. /\ out' = Bind(r, Local(e)) /\ todo' = Tail(todo)
        /\ catchLabel' = Top.savedCatch /\ UNCHANGED <<breakLabel, continueLabel>>
    BY <1>2, <1>4, <1>5, <1>13 DEF GenerateCatch, Below
  <2>2. /\ Wide(r, out', {}) /\ Len(out'.code) = Len(r.code) /\ LabelAt(out', e, Len(r.code) + 1)
        /\ \A m \in Nat : \A p : m # e /\ LabelAt(r, m, p) => LabelAt(out', m, p)
    BY <1>7, <2>1, BindGoesOn
  <2>3. Wide(out, out', {}) /\ Jumps(out', Len(out.code) + 1, "always", Local(e))
    BY <1>8, <2>2, WideThen, JumpsStay DEF Wide
  <2>4. k = 0 => LabelAt(out', h, Len(q.code) + 1)
    BY <1>2, <1>7, <2>2
  <2>5. Leaves(G, Here, Here.at + 1)
    BY <1>10, <1>11, <2>1, <2>2 DEF Leaves, Came
  <2>6. DoneItem(program, out', G, Here)
    <3>1. WroteCatch(out', G, Here)
      BY <1>2, <1>4, <1>11, <1>13, <2>3, <2>4, <2>5 DEF WroteCatch, Node
    <3> QED BY <1>1, <1>10, <3>1 DEF DoneItem, TopIs, Came
  <2>7. LabelAt(out', Top.end, Len(out'.code) + 1)
    BY <1>2, <2>2
  <2>8. LoopTargets(todo, 1, breakLabel', continueLabel') /\ CatchTarget(todo, 1, catchLabel')
    BY <1>1, <1>12, <2>1, TargetsBelow
  <2> QED BY <1>1, <1>9, <2>1, <2>3, <2>6, <2>7, <2>8, EndLeft
<1>14. CASE k # Len(clauses)
  <2>1. PICK s \in Statement : s = clauses[k + 1]
    <3>1. Len(clauses) \in Nat
      BY LenProperties
    <3>2. k + 1 \in 1..Len(clauses)
      BY <1>4, <1>14, <3>1
    <3> QED BY <3>2, ElementOfSeq
  <2>2. PICK x \in ItemType : /\ x = [Top EXCEPT !.clause = @ + 1] /\ x.at = "catch" /\ x.node = Top.node
                              /\ x.head = h /\ x.end = e /\ x.clause = k + 1 /\ x.savedCatch = Top.savedCatch
    BY <1>1, <1>2, <1>3, <1>4, NextClause, ClauseSaves
  <2>3. PICK d \in ItemType : d = Do(s) /\ Stmt(d, s)
    BY <1>3, DoRight DEF Stmt
  <2>4. PICK front : front = <<d, x>>
    OBVIOUS
  <2>5. out' = r /\ todo' = front \o Tail(todo) /\ UNCHANGED <<breakLabel, continueLabel, catchLabel>>
    BY <1>2, <1>4, <1>5, <1>14, <2>1, <2>2, <2>3, <2>4 DEF GenerateCatch, Below, targets
  <2>6. Fronts(front, x) /\ IsLast(front, x)
    BY <1>3, <2>3, <2>4, FrontOfTwo
  <2>7. Wide(out, out', {}) /\ Jumps(out', Len(out.code) + 1, "always", Local(e))
    BY <1>8, <2>5
  <2>8. Opens(G, Here, Here.at + 1, s, x)
    BY <1>10, <1>11, <2>3, <2>4, <2>5 DEF Opens, Came
  <2>9. DoneItem(program, out', G, Here)
    <3>1. WroteCatch(out', G, Here)
      BY <1>2, <1>4, <1>7, <1>11, <1>14, <2>1, <2>2, <2>5, <2>7, <2>8 DEF WroteCatch, Waits, Node
    <3> QED BY <1>1, <1>10, <3>1 DEF DoneItem, TopIs, Came
  <2>10. AimedAt(front, x)
    <3>1. x.at \notin LoopPoints
      BY <2>2 DEF LoopPoints
    <3> QED BY <1>1, <1>2, <1>12, <2>2, <2>5, <2>6, <3>1, TargetsBelow, TargetsOfTop DEF AimedAt
  <2>11. BornWith(out', G, x, Tail(todo), current) /\ x.at \in Waiting /\ x.end = Top.end
    BY <1>2, <2>2 DEF BornWith, Waiting
  <2> QED BY <1>1, <1>9, <2>5, <2>6, <2>7, <2>9, <2>10, <2>11, GoesOnLeft
<1> QED BY <1>13, <1>14

-----------------------------------------------------------------------------
(* The end of a function.                                                  *)
LEMMA EpilogueGoesOn ==
  ASSUME NEW o, Sound(o), NEW f \in Name, NEW B, B = {f}
  PROVE  LET r == Bind(o, Epilogue(f))
         IN  /\ Wide(o, r, B) /\ Sound(r) /\ Len(o.code) \in Nat /\ Len(r.code) = Len(o.code)
             /\ Epilogue(f) \in DOMAIN r.labels /\ r.labels[Epilogue(f)] = Len(o.code) + 1
<1> DEFINE t == Epilogue(f)
           r == Bind(o, t)
<1>1. t \in Target /\ t.sort = "epilogue" /\ t.id = f
  BY DEF Epilogue, Target
<1> HIDE DEF t
<1>2. Binds(o, r, t)
  BY <1>1, BindAdds
<1> HIDE DEF r
<1>3. Wide(o, r, B)
  BY <1>1, <1>2, BindsGrew DEF Wide, Binds
<1> QED BY <1>2, <1>3 DEF Binds, r, t

LEMMA EndFunctionLeft ==
  ASSUME NEW H, Ready(H), EndFunction
  PROVE  Stepped
<1>1. /\ Top.at = "epilogue" /\ todo # << >> /\ Sound(out) /\ Inv /\ TargetsRight /\ todo' = Tail(todo)
      /\ UNCHANGED <<breakLabel, continueLabel, catchLabel>>
      /\ out' = Emit(Bind(out, Epilogue(program[current].name)), "leave", 0)
  BY DEF EndFunction, At, Below, Ready, targets
<1>2. Typed /\ current \in 1..Len(program) /\ program \in Seq(FunctionType) /\ todo \in Seq(ItemType)
  BY <1>1 DEF Inv, Begun, Typed, IsProgram
<1>3. PICK f, B : f \in Name /\ f = program[current].name /\ B = {f}
  <2>1. program[current] \in FunctionType
    BY <1>2, ElementOfSeq
  <2> QED BY <2>1 DEF FunctionType
<1>4. PICK q, none : q = Bind(out, Epilogue(f)) /\ none = {}
  OBVIOUS
<1>5. /\ Wide(out, q, B) /\ Sound(q) /\ Len(out.code) \in Nat /\ Len(q.code) = Len(out.code)
      /\ Epilogue(f) \in DOMAIN q.labels /\ q.labels[Epilogue(f)] = Len(out.code) + 1
  BY <1>1, <1>3, <1>4, EpilogueGoesOn
<1>6. out' = Emit(q, "leave", 0)
  BY <1>1, <1>3, <1>4
<1>7. /\ Wide(q, out', B) /\ Wide(q, out', none) /\ Emitted(out', Len(out.code) + 1, "leave", 0)
  BY <1>5, <1>6, EmitGoesOn
<1>8. Wide(out, out', B)
  BY <1>5, <1>7, WideThen
<1>9. Epilogue(f) \in DOMAIN out'.labels /\ out'.labels[Epilogue(f)] = Len(out.code) + 1
  <2>1. Epilogue(f).sort = "epilogue"
    BY DEF Epilogue
  <2> QED BY <1>4, <1>5, <1>7, <2>1 DEF Wide
<1>10. PICK G : G = H \cup {Here'}
  OBVIOUS
<1>11. Came(G)
  BY <1>10, ReadyCame
<1>12. PICK F : F = << >>
  OBVIOUS
<1>13. Len(F) = 0 /\ F \in Seq(ItemType) /\ todo' = F \o Tail(todo)
  BY <1>1, <1>2, <1>12, EmptySeq, ConcatEmptySeq, HeadTailProperties
<1>14. Fronts(F, Top) /\ ~IsLast(F, Top)
  BY <1>13 DEF Fronts, IsLast
<1>15. AimedAt(F, Top)
  <2>1. Top.at \notin LoopPoints /\ Top.at # "catch"
    BY <1>1 DEF LoopPoints
  <2> QED BY <1>1, <1>14, <2>1, TargetsBelow DEF AimedAt
<1>16. Done(program, out', G, Here)
  <2>1. WroteEpilogue(program, out', Here)
    BY <1>3, <1>7, <1>9, <1>11 DEF WroteEpilogue, Came
  <2>2. DoneItem(program, out', G, Here)
    BY <1>1, <1>11, <2>1 DEF DoneItem, TopIs, Came
  <2>3. TopItem(Here).at # "statement"
    BY <1>1, <1>11 DEF Came
  <2> QED BY <2>2, <2>3, OnlyItem
<1>17. B \subseteq {program[current].name} /\ Top.at \notin Waiting
  BY <1>1, <1>3 DEF Waiting
<1> QED BY <1>1, <1>8, <1>10, <1>12, <1>13, <1>14, <1>15, <1>16, <1>17, Assembled

-----------------------------------------------------------------------------
(* A function begins.                                                      *)
LEMMA BeginLeft ==
  ASSUME Inv, Inv', TargetsRight, Sound(out), NEW H, History(H), BeginFunction
  PROVE  Stepped
<1>1. /\ Typed /\ program \in Seq(FunctionType) /\ current \in 0..Len(program) /\ Len(program) \in Nat
      /\ DOMAIN program = 1..Len(program)
      /\ DOMAIN offsets = {program[i].name : i \in DOMAIN program}
  BY LenProperties DEF Inv, Typed, IsProgram
<1>2. todo = << >> /\ Len(todo) = 0 /\ current < Len(program)
  BY EmptySeq DEF BeginFunction
<1>3. current + 1 \in 1..Len(program) /\ current + 1 \in DOMAIN program
  BY <1>1, <1>2
<1>4. PICK func \in FunctionType : func = program[current + 1] /\ func.body.kind = "block"
  BY <1>1, <1>3, ElementOfSeq DEF Typed, IsProgram
<1>5. PICK node \in Statement : node = func.body
  BY <1>4 DEF FunctionType
<1>6. PICK body \in Seq(Statement) : body = node.body
  BY <1>4, <1>5, StatementAssumption DEF AreStatements, IsStatement
<1>7. PICK x \in ItemType :
        x = Item("epilogue", node, NoLabel, NoLabel, NoLabel) /\ x.at = "epilogue" /\ x.node = node
  <2>1. "epilogue" \in Points /\ NoLabel \in Label
    BY DEF Points, Label
  <2>2. PICK x : x = Item("epilogue", node, NoLabel, NoLabel, NoLabel)
    OBVIOUS
  <2>3. x \in ItemType /\ x.at = "epilogue" /\ x.node = node
    BY <1>1, <2>1, <2>2, ItemTyped
  <2> QED BY <2>2, <2>3
<1>8. PICK g \in Seq(ItemType) : g = Sequence(body) /\ Stmts(g, body)
  BY <1>1, BodyItems, SequenceRight DEF Stmts
<1>9. /\ program' = program /\ current' = current + 1
      /\ offsets' = [offsets EXCEPT ![func.name] = Len(out.code) + 1]
      /\ todo' = g \o <<x>> /\ out' = Emit(out, "enter", 0)
      /\ UNCHANGED <<breakLabel, continueLabel, catchLabel>>
  BY <1>4, <1>5, <1>6, <1>7, <1>8 DEF BeginFunction, targets
<1>10. PICK none : none = {}
  OBVIOUS
<1>11. /\ Wide(out, out', none) /\ Sound(out') /\ Len(out.code) \in Nat /\ Len(out'.code) = Len(out.code) + 1
       /\ Emitted(out', Len(out.code) + 1, "enter", 0) /\ SameLabels(out, out')
  BY <1>9, EmitGoesOn
<1>12. Keeps(out, out', none) /\ Carries(out, out')
  <2>1. Emits(out, out', "enter", 0)
    <3>1. [op |-> "enter", arg |-> 0] \in Instruction
      BY DEF Instruction
    <3> QED BY <1>9, <3>1, EmitAdds
  <2> QED BY <1>11, <2>1, GrewCarries DEF Wide, Emits, Keeps
<1>13. PICK G : G = H \cup {Here'}
  OBVIOUS
<1>14. H \subseteq G /\ Here' \in G
  BY <1>13
<1>15. /\ todo' \in Seq(ItemType) /\ Len(body) \in Nat /\ Len(todo') = Len(body) + 1
       /\ todo'[Len(body) + 1] = x /\ \A i \in 1..Len(body) : Stmt(todo'[i], body[i])
  <2>1. PICK l \in Seq(ItemType) : l = <<x>> /\ Len(l) = 1 /\ l[1] = x
    <3>1. <<x>> \in Seq(ItemType) /\ Len(<<x>>) = 1 /\ <<x>>[1] = x
      OBVIOUS
    <3> QED BY <3>1
  <2>2. Len(g) = Len(body) /\ Len(body) \in Nat
    BY <1>8, LenProperties DEF Stmts
  <2>3. PICK t : t = g \o l
    OBVIOUS
  <2>4. /\ t \in Seq(ItemType) /\ Len(t) = Len(g) + Len(l)
        /\ \A i \in 1..(Len(g) + Len(l)) : t[i] = IF i <= Len(g) THEN g[i] ELSE l[i - Len(g)]
    BY <2>1, <2>3, ConcatProperties
  <2>5. \A i \in 1..Len(body) : t[i] = g[i]
    BY <2>1, <2>2, <2>4
  <2>6. t[Len(body) + 1] = x /\ Len(t) = Len(body) + 1
    BY <2>1, <2>2, <2>4
  <2> QED BY <1>8, <1>9, <2>1, <2>2, <2>3, <2>4, <2>5, <2>6 DEF Stmts
<1>16. \A i \in 1..Len(todo') : IF i = Len(todo') THEN todo'[i] = x ELSE todo'[i].at = "statement"
  BY <1>15 DEF Stmt
<1>17. Here'.at = Len(out'.code) + 1 /\ Here'.todo = todo' /\ Here'.fn = current + 1
  BY <1>9 DEF Here
<1>18. \A c \in H : PlaceRight(c, program, current) /\ c.fn \in 1..current
  BY DEF History, PlacesRight, PlaceRight
<1>19. PlacesRight(G)'
  <2>1. ASSUME NEW c \in H
        PROVE  PlaceRight(c, program', current')
    BY <1>1, <1>9, <1>18 DEF PlaceRight
  <2>2. PlaceRight(Here', program', current')
    <3>1. Here' \in Place
      BY <1>1, <1>9, <1>11, <1>15 DEF Here, Place
    <3>2. \A i \in 1..Len(todo') : ItemRight(todo'[i])
      BY <1>15, LenProperties DEF Inv, ItemsRight
    <3>3. todo'[Len(todo')].node = program[current + 1].body
      BY <1>4, <1>5, <1>7, <1>15
    <3>4. StackRight(todo', program, current + 1)
      BY <1>7, <1>15, <1>16, <3>2, <3>3 DEF StackRight
    <3>5. current + 1 \in 1..(current + 1)
      BY <1>1
    <3>6. StackRight(Here'.todo, program, Here'.fn) /\ Here'.fn \in 1..(current + 1)
      BY <1>17, <3>4, <3>5
    <3> QED BY <1>9, <3>1, <3>6 DEF PlaceRight
  <2> QED BY <1>13, <2>1, <2>2 DEF PlacesRight
<1>20. AllDone(G)'
  <2> SUFFICES ASSUME NEW c \in H, c.todo # << >>
               PROVE  Done(program', out', G, c)
    BY <1>13 DEF AllDone
  <2>1. c # Here
    BY <1>2 DEF Here
  <2>2. Done(program, out, H, c)
    BY <2>1 DEF History, AllDone
  <2>3. TopIs(c, "epilogue") /\ Latest(program, c.fn) => program[c.fn].name \notin none
    BY <1>10
  <2> QED BY <1>9, <1>12, <1>14, <2>2, <2>3, DoneStatementStays, DoneItemStays DEF Done
<1>21. AllSuffixed(G)'
  <2>1. ASSUME NEW c \in H, NEW i \in 1..Len(c.todo)
        PROVE  Suffixed(G, c, i)'
    <3>1. Suffixed(H, c, i)
      BY DEF History, AllSuffixed
    <3>2. PICK p \in Nat : Comes(H, p, Suffix(c.todo, i), c.fn)
      BY <1>2, <3>1 DEF Suffixed
    <3>3. Comes(G, p, Suffix(c.todo, i), c.fn)
      BY <1>14, <3>2, ComesStays
    <3> QED BY <3>3 DEF Suffixed
  <2>2. ASSUME NEW c, c = Here', NEW i \in 1..Len(c.todo)
        PROVE  Suffixed(G, c, i)'
    BY <2>2 DEF Suffixed, Here
  <2> QED BY <1>13, <2>1, <2>2 DEF AllSuffixed
<1>22. AllExit(G)'
  <2>1. ASSUME NEW c \in H, NEW i \in 1..Len(c.todo), c.todo[i].at \in Waiting
        PROVE  Exits(out, G, c, i)'
    <3>1. Exits(out, H, c, i)
      BY <2>1 DEF History, AllExit
    <3>2. PICK p \in Nat : LabelAt(out, c.todo[i].end, p) /\ Comes(H, p, Suffix(c.todo, i + 1), c.fn)
      BY <1>2, <3>1 DEF Exits
    <3>3. Comes(G, p, Suffix(c.todo, i + 1), c.fn) /\ LabelAt(out', c.todo[i].end, p)
      BY <1>11, <1>14, <3>2, ComesStays DEF SameLabels
    <3> QED BY <3>3 DEF Exits
  <2>2. ASSUME NEW c, c = Here', NEW i \in 1..Len(c.todo), c.todo[i].at \in Waiting
        PROVE  Exits(out, G, c, i)'
    BY <2>2 DEF Exits, Here
  <2> QED BY <1>13, <2>1, <2>2 DEF AllExit
<1>23. AllBorn(G)'
  <2>1. ASSUME NEW c \in H, NEW i \in 1..Len(c.todo)
        PROVE  Born(out', G, c, i)
    BY <1>12, <1>14, BornStays DEF History, AllBorn, Born
  <2>2. ASSUME NEW i \in 1..Len(todo')
        PROVE  Born(out', G, Here', i)
    <3>1. todo'[i].at \in {"statement", "epilogue"}
      BY <1>7, <1>16
    <3> QED BY <1>17, <3>1 DEF Born, BornWith
  <2> QED BY <1>13, <1>17, <2>1, <2>2 DEF AllBorn
<1>24. EpilogueLast(G)'
  <2> SUFFICES ASSUME NEW c \in H, c.fn = current'
               PROVE  FALSE
    BY <1>13 DEF EpilogueLast
  <2> QED BY <1>1, <1>9, <1>18
<1>25. AllEntered(G)'
  <2> SUFFICES ASSUME NEW f \in 1..(current + 1), Latest(program, f)
               PROVE  Entered(out', G, program, f, offsets'[program[f].name])
    BY <1>9 DEF AllEntered
  <2>1. program[f].name \in DOMAIN offsets
    BY <1>1, <1>3
  <2>2. CASE f = current + 1
    <3>1. offsets'[program[f].name] = Len(out.code) + 1
      BY <1>4, <1>9, <2>1, <2>2
    <3>2. Stmts(g, program[f].body.body) /\ Waits(x, "epilogue", program[f].body)
      BY <1>4, <1>5, <1>6, <1>7, <1>8, <2>2 DEF Waits
    <3>3. Comes(G, Len(out.code) + 1 + 1, g \o <<x>>, f)
      BY <1>9, <1>11, <1>14, <2>2 DEF Comes, Here
    <3> QED BY <1>11, <3>1, <3>2, <3>3 DEF Entered
  <2>3. CASE f # current + 1
    <3>1. f \in 1..current
      BY <1>1, <2>3
    <3>2. program[f].name # func.name
      BY <1>1, <1>3, <1>4, <3>1 DEF Latest
    <3>3. offsets'[program[f].name] = offsets[program[f].name]
      BY <1>9, <2>1, <3>2
    <3>4. Entered(out, H, program, f, offsets[program[f].name])
      BY <3>1 DEF History, AllEntered
    <3> QED BY <1>12, <1>14, <3>3, <3>4, EnteredStays
  <2> QED BY <2>2, <2>3
<1>26. History(G)'
  BY <1>14, <1>19, <1>20, <1>21, <1>22, <1>23, <1>24, <1>25 DEF History
<1>27. TargetsRight'
  <2>1. \A i \in 1..Len(todo') : todo'[i].at \notin LoopPoints \cup {"catch"}
    BY <1>7, <1>16 DEF LoopPoints
  <2>2. catchLabel = NoLabel
    BY <1>2 DEF TargetsRight, CatchTarget
  <2>3. \A P, i, j : Governs(todo', i, P, j) => j \in 1..Len(todo') /\ todo'[j].at \in P
    BY DEF Governs
  <2>4. LoopTargets(todo', 0, breakLabel', continueLabel')
    BY <2>1, <2>3 DEF LoopTargets
  <2>5. CatchTarget(todo', 0, catchLabel')
    BY <1>9, <2>1, <2>2, <2>3 DEF CatchTarget
  <2> QED BY <2>1, <2>4, <2>5 DEF TargetsRight
<1> QED BY <1>11, <1>26, <1>27 DEF Stepped

-----------------------------------------------------------------------------
(* The scan, and the branches filled in.                                   *)
LEMMA ScanLeft ==
  ASSUME TargetsRight, Sound(out), NEW H, History(H),
         UNCHANGED <<program, current, todo, out, breakLabel, continueLabel, catchLabel, offsets>>
  PROVE  Stepped
<1>1. Here' = Here
  BY DEF Here
<1>2. PlacesRight(H)' /\ AllBorn(H)' /\ AllEntered(H)'
  BY DEF History, PlacesRight, AllBorn, AllEntered
<1>3. AllDone(H)'
  BY <1>1 DEF History, AllDone
<1>4. AllSuffixed(H)'
  BY DEF History, AllSuffixed, Suffixed
<1>5. AllExit(H)'
  BY DEF History, AllExit, Exits
<1>6. EpilogueLast(H)'
  BY <1>1 DEF History, EpilogueLast
<1>7. History(H)'
  BY <1>1, <1>2, <1>3, <1>4, <1>5, <1>6 DEF History
<1>8. TargetsRight'
  BY DEF TargetsRight
<1> QED BY <1>7, <1>8 DEF Stepped

LEMMA ShortStays ==
  ASSUME NEW d \in (-Reach)..(Reach - 1)
  PROVE  Short(d) = d
<1>1. Reach \in Nat /\ Reach # 0
  BY ReachAssumption
<1>2. PICK a, b : a = d + Reach /\ b = 2 * Reach
  OBVIOUS
<1>3. a \in Int /\ b \in Int /\ 0 <= a /\ a < b /\ 0 < b
  BY <1>1, <1>2
<1>4. a % b = a
  BY <1>3
<1> QED BY <1>1, <1>2, <1>4 DEF Short

LEMMA PatchLeft ==
  ASSUME Inv, Inv', TargetsRight, Sound(out), Expected, NEW H, History(H), PatchBranches
  PROVE  Stepped /\ AllLanded'
<1>1. Typed /\ out \in Output /\ Apart(out) /\ Sorted(out) /\ out' \in Output
  BY DEF Inv, Typed, Sound
<1>2. /\ todo = << >> /\ patched'
      /\ UNCHANGED <<program, current, todo, breakLabel, continueLabel, catchLabel, offsets>>
  BY DEF PatchBranches, targets, symbols
<1> DEFINE At1(i) == IF \E p \in out.patches : p.at = i
                     THEN Filled(out, CHOOSE p \in out.patches : p.at = i) ELSE out.code[i]
           code == [i \in DOMAIN out.code |-> At1(i)]
<1>3. out' = [out EXCEPT !.code = code]
  BY DEF PatchBranches
<1>4. out.code \in Seq(Instruction) /\ Len(out.code) \in Nat /\ DOMAIN out.code = 1..Len(out.code)
      /\ \A p \in out.patches : p \in Patch /\ p.at \in 1..Len(out.code)
  BY <1>1, OutputTyped, LenProperties
<1>5. \A p \in out.patches : code[p.at] = Filled(out, p)
  <2> SUFFICES ASSUME NEW p \in out.patches PROVE code[p.at] = Filled(out, p)
    OBVIOUS
  <2>1. (CHOOSE q \in out.patches : q.at = p.at) = p
    BY <1>1 DEF Apart
  <2> QED BY <1>4, <2>1
<1>6. \A i \in 1..Len(out.code) : (\A p \in out.patches : p.at # i) => code[i] = out.code[i]
  BY <1>4
<1>7. DOMAIN code = 1..Len(out.code)
  BY <1>4
<1> HIDE DEF At1, code
<1>8. out'.code = code /\ out'.labels = out.labels /\ out'.patches = out.patches
  BY <1>1, <1>3, OutputTyped
<1>9. Len(out'.code) = Len(out.code)
  <2>1. Len(out'.code) \in Nat /\ DOMAIN out'.code = 1..Len(out'.code)
    BY <1>1, OutputTyped, LenProperties
  <2> QED BY <1>4, <1>7, <1>8, <2>1
<1>10. Sound(out')
  BY <1>1, <1>8 DEF Sound, Apart, Sorted
<1>11. Carries(out, out')
  <2>1. \A p, op, arg : Emitted(out, p, op, arg) => Emitted(out', p, op, arg)
    BY <1>6, <1>8, <1>9 DEF Emitted
  <2>2. \A p, when, to : Jumps(out, p, when, to) => Jumps(out', p, when, to)
    BY <1>8 DEF Jumps
  <2> QED BY <2>1, <2>2 DEF Carries
<1>12. PICK none : none = {}
  OBVIOUS
<1>13. Keeps(out, out', none)
  BY <1>8 DEF Keeps
<1>14. H \subseteq H
  OBVIOUS
<1>15. Here' = Here
  BY <1>2, <1>9 DEF Here
<1>16. PlacesRight(H)'
  BY <1>2 DEF History, PlacesRight
<1>17. AllDone(H)'
  <2> SUFFICES ASSUME NEW c \in H, c.todo # << >>
               PROVE  Done(program, out', H, c)
    BY <1>2 DEF AllDone
  <2>1. c # Here
    BY <1>2 DEF Here
  <2>2. Done(program, out, H, c)
    BY <2>1 DEF History, AllDone
  <2>3. TopIs(c, "epilogue") /\ Latest(program, c.fn) => program[c.fn].name \notin none
    BY <1>12
  <2> QED BY <1>11, <1>13, <1>14, <2>2, <2>3, DoneStatementStays, DoneItemStays DEF Done
<1>18. AllSuffixed(H)'
  BY <1>2 DEF History, AllSuffixed, Suffixed
<1>19. AllExit(H)'
  BY <1>2, <1>8 DEF History, AllExit, Exits, LabelAt
<1>20. AllBorn(H)'
  BY <1>13, <1>14, BornStays DEF History, AllBorn, Born
<1>21. EpilogueLast(H)'
  BY <1>2, <1>15 DEF History, EpilogueLast
<1>22. AllEntered(H)'
  BY <1>2, <1>11, <1>14, EnteredStays DEF History, AllEntered
<1>23. History(H)'
  BY <1>2, <1>15, <1>16, <1>17, <1>18, <1>19, <1>20, <1>21, <1>22 DEF History
<1>24. TargetsRight'
  BY <1>2 DEF TargetsRight
<1>25. AllLanded'
  <2> SUFFICES ASSUME NEW p \in out.patches
               PROVE  Landed(out', p, offsets)
    BY <1>2, <1>8 DEF AllLanded
  <2>1. out'.code[p.at] = Filled(out, p) /\ p.at \in Int
    BY <1>4, <1>5, <1>8
  <2>2. ASSUME p.to \in DOMAIN out.labels
        PROVE  out'.code[p.at] = [op |-> p.when, arg |-> out.labels[p.to] - p.at]
    <3>1. PICK d : d = out.labels[p.to] - p.at
      OBVIOUS
    <3>2. p.when \in {"equal", "notequal"} => Short(d) = d
      <4> SUFFICES ASSUME p.when \in {"equal", "notequal"} PROVE Short(d) = d
        OBVIOUS
      <4>1. d \in (-Reach)..(Reach - 1)
        BY <2>2, <3>1 DEF Expected
      <4> QED BY <4>1, ShortStays
    <3>3. Filled(out, p) = [op |-> p.when, arg |-> d]
      BY <2>2, <3>1, <3>2 DEF Filled
    <3> QED BY <2>1, <3>1, <3>3
  <2>3. ASSUME p.to \notin DOMAIN out.labels, p.to.sort = "function", p.to.id \in DOMAIN offsets,
               offsets[p.to.id] > 0
        PROVE  out'.code[p.at] = [op |-> "call", arg |-> offsets[p.to.id] - p.at]
    BY <2>1, <2>3 DEF Filled
  <2> QED BY <1>8, <2>2, <2>3 DEF Landed
<1> QED BY <1>10, <1>23, <1>24, <1>25 DEF Stepped

-----------------------------------------------------------------------------
(* What holds while code is generated.                                     *)
LEMMA GeneratedFirst == Init => GenInv
<1> SUFFICES ASSUME Init
             PROVE  GenInv
  OBVIOUS
<1>1. Inv
  BY InitHolds
<1>2. /\ todo = << >> /\ current = 0 /\ ~patched /\ catchLabel = NoLabel
      /\ out = [code |-> << >>, labels |-> << >>, patches |-> {}]
  BY DEF Init
<1>3. Len(todo) = 0 /\ DOMAIN out.labels = {} /\ out.patches = {}
  <2>1. PICK none : none = << >> /\ Len(none) = 0 /\ DOMAIN none = {}
    BY EmptySeq, LenProperties
  <2> QED BY <1>2, <2>1
<1>4. Apart(out) /\ Sorted(out) /\ AllLanded
  BY <1>2, <1>3 DEF Apart, Sorted, AllLanded
<1>5. TargetsRight
  BY <1>2, <1>3 DEF TargetsRight, LoopTargets, CatchTarget
<1>6. PICK H : H = {}
  OBVIOUS
<1>7. History(H)
  BY <1>2, <1>6 DEF History, PlacesRight, AllDone, AllSuffixed, AllExit, AllBorn, EpilogueLast, AllEntered
<1> QED BY <1>1, <1>4, <1>5, <1>7 DEF GenInv

LEMMA HandlerLeft ==
  ASSUME NEW H, Ready(H),
         EndFunction \/ Statements \/ Conditionals \/ Loops \/ Handlers
  PROVE  Stepped
<1>1. CASE EndFunction
  BY <1>1, EndFunctionLeft
<1>2. CASE Statements
  BY <1>2, ExpressionLeft, CallLeft, ReturnLeft, BreakLeft, ContinueLeft, ThrowLeft, NothingLeft, BlockLeft
     DEF Statements
<1>3. CASE Conditionals
  BY <1>3, IfLeft, ElseLeft, EndIfLeft DEF Conditionals
<1>4. CASE Loops
  BY <1>4, WhileLeft, EndWhileLeft, DoWhileLeft, EndDoWhileLeft, ForLeft, ForTestLeft, EndForLeft DEF Loops
<1>5. CASE Handlers
  BY <1>5, TryLeft, CatchLeft DEF Handlers
<1> QED BY <1>1, <1>2, <1>3, <1>4, <1>5

LEMMA HandlersAlike ==
  ASSUME EndFunction \/ Statements \/ Conditionals \/ Loops \/ Handlers
  PROVE  todo # << >> /\ UNCHANGED <<program, current, offsets, patched>>
<1>1. CASE EndFunction
  BY <1>1 DEF EndFunction, At, symbols
<1>2. CASE Statements
  <2>1. CASE GenerateExpression \/ GenerateDeclaration \/ GenerateCall \/ GenerateReturn
    BY <2>1 DEF GenerateExpression, GenerateDeclaration, GenerateCall, GenerateReturn, Generated, AtStatement, At
  <2>2. CASE GenerateBreak \/ GenerateContinue \/ GenerateThrow \/ GenerateNothing
    BY <2>2 DEF GenerateBreak, GenerateContinue, GenerateThrow, GenerateNothing, Generated, AtStatement, At
  <2>3. CASE GenerateBlock
    BY <2>3 DEF GenerateBlock, AtStatement, At, symbols
  <2> QED BY <1>2, <2>1, <2>2, <2>3 DEF Statements
<1>3. CASE Conditionals
  BY <1>3 DEF Conditionals, GenerateIf, GenerateElse, EndIf, Nesting, AtStatement, At, symbols
<1>4. CASE Loops
  BY <1>4 DEF Loops, GenerateWhile, EndWhile, GenerateDoWhile, EndDoWhile, GenerateFor, ForTest, EndFor,
              Nesting, AtStatement, At, symbols
<1>5. CASE Handlers
  BY <1>5 DEF Handlers, GenerateTry, GenerateCatch, Nesting, AtStatement, At, symbols
<1> QED BY <1>1, <1>2, <1>3, <1>4, <1>5

LEMMA GeneratedNext ==
  ASSUME GenInv, Expected, [Next]_vars
  PROVE  GenInv'
<1>1. Inv /\ Inv' /\ LabelsKept
  BY Step DEF GenInv, Kept
<1>2. Sound(out) /\ TargetsRight /\ AllLanded
  BY <1>1 DEF GenInv, Sound, Inv, Typed
<1>3. PICK H : History(H)
  BY DEF GenInv
<1>4. ASSUME Stepped, AllLanded'
      PROVE  GenInv'
  BY <1>1, <1>4 DEF GenInv, Stepped, Sound
<1>5. patched => todo = << >> /\ current = Len(program)
  BY <1>1 DEF Inv, Begun
<1>6. CASE EndFunction \/ Statements \/ Conditionals \/ Loops \/ Handlers
  <2>1. todo # << >> /\ UNCHANGED <<program, current, offsets, patched>>
    BY <1>6, HandlersAlike
  <2>2. Ready(H)
    BY <1>1, <1>2, <1>3, <2>1 DEF Ready
  <2>3. ~patched'
    BY <1>5, <2>1
  <2> QED BY <1>4, <1>6, <2>2, <2>3, HandlerLeft DEF AllLanded
<1>7. CASE BeginFunction
  <2>1. ~patched'
    <3>1. current \in Nat /\ Len(program) \in Nat
      BY <1>1, LenProperties DEF Inv, Typed, IsProgram
    <3> QED BY <1>5, <1>7, <3>1 DEF BeginFunction
  <2> QED BY <1>1, <1>2, <1>3, <1>4, <1>7, <2>1, BeginLeft DEF AllLanded
<1>8. CASE ScanDeclaration \/ ScanStatement
  <2>1. UNCHANGED <<program, current, todo, out, breakLabel, continueLabel, catchLabel, offsets, patched>>
    BY <1>8 DEF ScanDeclaration, ScanStatement, targets, symbols
  <2>2. AllLanded'
    BY <1>2, <2>1 DEF AllLanded
  <2> QED BY <1>2, <1>3, <1>4, <2>1, <2>2, ScanLeft
<1>9. CASE PatchBranches
  BY <1>1, <1>2, <1>3, <1>4, <1>9, PatchLeft
<1>10. CASE UNCHANGED vars
  <2>1. UNCHANGED <<program, current, todo, out, breakLabel, continueLabel, catchLabel, offsets, patched>>
    BY <1>10 DEF vars, targets, symbols
  <2>2. AllLanded'
    BY <1>2, <2>1 DEF AllLanded
  <2> QED BY <1>2, <1>3, <1>4, <2>1, <2>2, ScanLeft
<1> QED BY <1>6, <1>7, <1>8, <1>9, <1>10 DEF Next

(* While the code runs, nothing else is left of its generation.            *)
LEMMA PatchedStays ==
  ASSUME Inv, patched, RunNext \/ UNCHANGED runvars
  PROVE  UNCHANGED vars
<1>1. ~Start
  BY DEF Start
<1>2. CASE Next /\ ~patched'
  <2>1. todo = << >> /\ current = Len(program)
    BY DEF Inv, Begun
  <2>2. CASE BeginFunction
    <3>1. current \in Nat /\ Len(program) \in Nat
      BY LenProperties DEF Inv, Typed, IsProgram
    <3> QED BY <2>1, <2>2, <3>1 DEF BeginFunction
  <2>3. CASE EndFunction \/ Statements \/ Conditionals \/ Loops \/ Handlers
    BY <2>1, <2>3, HandlersAlike
  <2>4. CASE ScanDeclaration \/ ScanStatement
    BY <1>2, <2>4 DEF ScanDeclaration, ScanStatement
  <2>5. CASE PatchBranches
    BY <2>5 DEF PatchBranches
  <2> QED BY <1>2, <2>2, <2>3, <2>4, <2>5 DEF Next
<1>3. CASE MachineStep \/ MeaningStep \/ Together
  BY <1>3 DEF MachineStep, MeaningStep, Together
<1>4. CASE UNCHANGED runvars
  BY <1>4 DEF runvars
<1> QED BY <1>1, <1>2, <1>3, <1>4 DEF RunNext

LEMMA RunIsNext ==
  ASSUME RunNext \/ UNCHANGED runvars
  PROVE  [Next]_vars
BY DEF RunNext, runvars, MachineStep, MeaningStep, Together

-----------------------------------------------------------------------------
(* All that is known of the code when the branches are filled in.          *)
Jumped(o, offs) ==
  /\ \A p, when, to : Jumps(o, p, when, to) /\ to \in DOMAIN o.labels =>
       o.code[p] = [op |-> when, arg |-> o.labels[to] - p]
  /\ \A p, f : Jumps(o, p, "call", Function(f)) =>
       f \in DOMAIN offs /\ offs[f] \in Int /\ o.code[p] = [op |-> "call", arg |-> offs[f] - p]
Finished(H, unit, o, offs) ==
  /\ IsProgram(unit) /\ DOMAIN offs = {unit[i].name : i \in DOMAIN unit}
  /\ \A f \in DOMAIN offs : offs[f] \in Nat
  /\ Jumped(o, offs)
  /\ \A c \in H : PlaceRight(c, unit, Len(unit)) /\ (c.todo # << >> => Done(unit, o, H, c))
  /\ \A c \in H : \A i \in 1..Len(c.todo) : \E p \in Nat : Comes(H, p, Suffix(c.todo, i), c.fn)
  /\ \A c \in H : \A i \in 1..Len(c.todo) : c.todo[i].at \in Waiting =>
       \E p \in Nat : LabelAt(o, c.todo[i].end, p) /\ Comes(H, p, Suffix(c.todo, i + 1), c.fn)
  /\ \A c \in H : \A i \in 1..Len(c.todo) : Born(o, H, c, i)
  /\ \A f \in 1..Len(unit) : Latest(unit, f) => Entered(o, H, unit, f, offs[unit[f].name])

RunInv ==
  /\ program \in Programs /\ flag \in BOOLEAN /\ (~patched => returns = << >>)
  /\ patched => \E H : /\ Finished(H, program, out, offsets)
                       /\ Agrees(H, program, out, pc, returns, flag, rest)

LEMMA AllJumped ==
  ASSUME GenInv, patched
  PROVE  Jumped(out, offsets)
<1>1. /\ Typed /\ out \in Output /\ Landing /\ Begun /\ current = Len(program)
      /\ Apart(out) /\ Sorted(out) /\ \A p \in out.patches : Landed(out, p, offsets)
  BY DEF GenInv, Inv, Typed, Begun, AllLanded
<1>2. ASSUME NEW p, NEW when, NEW to, Jumps(out, p, when, to), to \in DOMAIN out.labels
      PROVE  out.code[p] = [op |-> when, arg |-> out.labels[to] - p]
  <2>1. PICK j \in out.patches : j.at = p /\ j.when = when /\ j.to = to
    BY <1>2 DEF Jumps
  <2> QED BY <1>1, <1>2, <2>1 DEF Landed
<1>3. ASSUME NEW p, NEW f, Jumps(out, p, "call", Function(f))
      PROVE  f \in DOMAIN offsets /\ offsets[f] \in Int /\ out.code[p] = [op |-> "call", arg |-> offsets[f] - p]
  <2>1. PICK j \in out.patches : j.at = p /\ j.to = Function(f)
    BY <1>3 DEF Jumps
  <2>2. j.to.sort = "function" /\ j.to.id = f
    BY <2>1 DEF Function
  <2>3. j.to \notin DOMAIN out.labels
    BY <1>1, <2>2 DEF Sorted
  <2>4. f \in DOMAIN offsets
    BY <1>1, <2>2 DEF Landing, Lands
  <2>5. offsets[f] \in Nat /\ offsets[f] > 0
    <3>1. PICK i \in DOMAIN program : f = program[i].name
      BY <1>1, <2>4 DEF Typed
    <3>2. i \in 1..current
      BY <1>1, LenProperties DEF Typed, IsProgram
    <3> QED BY <1>1, <2>4, <3>1, <3>2 DEF Begun, Typed
  <2>6. out.code[j.at] = [op |-> "call", arg |-> offsets[j.to.id] - j.at]
    BY <1>1, <2>2, <2>3, <2>4, <2>5 DEF Landed
  <2> QED BY <2>1, <2>2, <2>4, <2>5, <2>6
<1> QED BY <1>2, <1>3 DEF Jumped

LEMMA FinishedNow ==
  ASSUME GenInv, patched, NEW H, History(H)
  PROVE  Finished(H, program, out, offsets)
<1>1. Typed /\ todo = << >> /\ Len(todo) = 0 /\ current = Len(program)
  BY EmptySeq DEF GenInv, Inv, Begun
<1>2. /\ IsProgram(program) /\ DOMAIN offsets = {program[i].name : i \in DOMAIN program}
      /\ \A f \in DOMAIN offsets : offsets[f] \in Nat
  BY <1>1 DEF Typed
<1>3. \A c \in H : PlaceRight(c, program, Len(program))
  BY <1>1 DEF History, PlacesRight
<1>4. \A c \in H : c.todo # << >> => Done(program, out, H, c)
  BY <1>1 DEF History, AllDone, Here
<1>5. \A c \in H : \A i \in 1..Len(c.todo) : \E p \in Nat : Comes(H, p, Suffix(c.todo, i), c.fn)
  BY <1>1 DEF History, AllSuffixed, Suffixed
<1>6. \A c \in H : \A i \in 1..Len(c.todo) : c.todo[i].at \in Waiting =>
        \E p \in Nat : LabelAt(out, c.todo[i].end, p) /\ Comes(H, p, Suffix(c.todo, i + 1), c.fn)
  BY <1>1 DEF History, AllExit, Exits
<1>7. \A c \in H : \A i \in 1..Len(c.todo) : Born(out, H, c, i)
  BY DEF History, AllBorn
<1>8. \A f \in 1..Len(program) : Latest(program, f) => Entered(out, H, program, f, offsets[program[f].name])
  BY <1>1 DEF History, AllEntered
<1> QED BY <1>2, <1>3, <1>4, <1>5, <1>6, <1>7, <1>8, AllJumped DEF Finished

-----------------------------------------------------------------------------
(* Stacks that stand at a place.                                           *)
Frame(H, unit, c, r, s) ==
  \/ r = << >> /\ Len(s) = Len(c.todo)
  \/ /\ r \in Seq(Int) /\ r # << >>
     /\ Stands(H, unit, Head(r), Tail(r), Suffix(s, Len(c.todo) + 1))
Alive(H, unit, c, r, s) == Beside(H, unit, c, s) /\ Frame(H, unit, c, r, s)

LEMMA StateParts ==
  \A p, r, s : State(p, r, s).at = p /\ State(p, r, s).returns = r /\ State(p, r, s).rest = s
BY DEF State

LEMMA StandsOut ==
  ASSUME NEW H, NEW unit, NEW p, NEW r, NEW s, Stands(H, unit, p, r, s)
  PROVE  \E c \in H : p = c.at /\ Alive(H, unit, c, r, s)
<1>1. PICK S : State(p, r, s) \in S /\ \A z \in S : Standing(H, unit, S, z)
  BY DEF Stands
<1>2. PICK z : z = State(p, r, s) /\ z.at = p /\ z.returns = r /\ z.rest = s
  BY StateParts
<1>3. Standing(H, unit, S, z)
  BY <1>1, <1>2
<1>4. PICK c \in H : /\ Beside(H, unit, c, s) /\ p = c.at
                     /\ \/ r = << >> /\ Len(s) = Len(c.todo)
                        \/ /\ r \in Seq(Int) /\ r # << >>
                           /\ State(Head(r), Tail(r), Suffix(s, Len(c.todo) + 1)) \in S
  BY <1>2, <1>3 DEF Standing
<1>5. Frame(H, unit, c, r, s)
  BY <1>1, <1>4 DEF Frame, Stands
<1> QED BY <1>4, <1>5 DEF Alive

LEMMA StandsIn ==
  ASSUME NEW H, NEW unit, NEW c \in H, NEW r, NEW s, Alive(H, unit, c, r, s)
  PROVE  Stands(H, unit, c.at, r, s)
<1>1. PICK z : z = State(c.at, r, s) /\ z.at = c.at /\ z.returns = r /\ z.rest = s
  BY StateParts
<1>2. Beside(H, unit, c, z.rest)
  BY <1>1 DEF Alive
<1>3. CASE r = << >> /\ Len(s) = Len(c.todo)
  <2>1. PICK S : S = {z}
    OBVIOUS
  <2>2. Standing(H, unit, S, z)
    BY <1>1, <1>2, <1>3 DEF Standing
  <2> QED BY <1>1, <2>1, <2>2 DEF Stands
<1>4. CASE r \in Seq(Int) /\ r # << >> /\ Stands(H, unit, Head(r), Tail(r), Suffix(s, Len(c.todo) + 1))
  <2>1. PICK y : y = State(Head(r), Tail(r), Suffix(s, Len(c.todo) + 1))
    OBVIOUS
  <2>2. PICK T : y \in T /\ \A x \in T : Standing(H, unit, T, x)
    BY <1>4, <2>1 DEF Stands
  <2>3. PICK S : S = T \cup {z}
    OBVIOUS
  <2>4. \A x \in T : Standing(H, unit, S, x)
    BY <2>2, <2>3 DEF Standing
  <2>5. Standing(H, unit, S, z)
    BY <1>1, <1>2, <1>4, <2>1, <2>2, <2>3 DEF Standing
  <2> QED BY <1>1, <2>3, <2>4, <2>5 DEF Stands
<1> QED BY <1>3, <1>4 DEF Alive, Frame

Fronted(T, s, N, j, z) ==
  /\ z \in Seq(T) /\ Len(s) \in Nat /\ Len(N) \in Nat /\ Len(z) = Len(N) + Len(s) - j + 1
  /\ \A i \in 1..Len(N) : z[i] = N[i]
  /\ \A k \in j..Len(s) : z[Len(N) + k - j + 1] = s[k]
  /\ \A k \in j..(Len(s) + 1) : Suffix(z, Len(N) + k - j + 1) = Suffix(s, k)

LEMMA SuffixWithFront ==
  ASSUME NEW T, NEW s \in Seq(T), NEW N \in Seq(T), NEW j \in 1..(Len(s) + 1), NEW z, z = N \o Suffix(s, j)
  PROVE  Fronted(T, s, N, j, z)
<1> DEFINE t == Suffix(s, j)
<1>0. z = N \o t
  OBVIOUS
<1>1. /\ t \in Seq(T) /\ Len(t) = Len(s) - j + 1 /\ Len(s) \in Nat
      /\ \A k \in 1..(Len(s) - j + 1) : t[k] = s[j + k - 1]
  BY SuffixTyped
<1>2. Len(N) \in Nat
  BY LenProperties
<1> HIDE DEF t
<1>3. /\ z \in Seq(T) /\ Len(z) = Len(N) + Len(t)
      /\ \A i \in 1..(Len(N) + Len(t)) : z[i] = IF i <= Len(N) THEN N[i] ELSE t[i - Len(N)]
  <2>1. PICK y : y = N \o t
    OBVIOUS
  <2>2. /\ y \in Seq(T) /\ Len(y) = Len(N) + Len(t)
        /\ \A i \in 1..(Len(N) + Len(t)) : y[i] = IF i <= Len(N) THEN N[i] ELSE t[i - Len(N)]
    BY <1>1, <2>1, ConcatProperties
  <2> QED BY <1>0, <2>1, <2>2
<1>4. Len(z) = Len(N) + Len(s) - j + 1 /\ \A i \in 1..Len(N) : z[i] = N[i]
  BY <1>1, <1>2, <1>3
<1>5. ASSUME NEW k \in j..Len(s)
      PROVE  z[Len(N) + k - j + 1] = s[k]
  <2>1. PICK m : m = k - j + 1
    OBVIOUS
  <2>2. m \in 1..(Len(s) - j + 1) /\ j + m - 1 = k /\ Len(N) + k - j + 1 = Len(N) + m
    BY <1>1, <2>1
  <2>3. PICK h : h = Len(N) + m
    OBVIOUS
  <2>4. h \in 1..(Len(N) + Len(t)) /\ ~(h <= Len(N)) /\ h - Len(N) = m
    BY <1>1, <1>2, <2>2, <2>3
  <2>5. z[h] = t[m]
    BY <1>3, <2>4
  <2> QED BY <1>1, <2>2, <2>3, <2>5
<1>6. ASSUME NEW k \in j..(Len(s) + 1)
      PROVE  Suffix(z, Len(N) + k - j + 1) = Suffix(s, k)
  <2>1. PICK i : i = Len(N) + k - j + 1
    OBVIOUS
  <2>2. i \in 1..(Len(z) + 1) /\ k \in 1..(Len(s) + 1) /\ Len(z) - i + 1 = Len(s) - k + 1
    <3>1. PICK n, m, l : n = Len(s) /\ m = Len(N) /\ l = Len(z)
      OBVIOUS
    <3>2. n \in Nat /\ m \in Nat /\ l = m + n - j + 1 /\ i = m + k - j + 1 /\ j \in 1..(n + 1) /\ k \in j..(n + 1)
      BY <1>1, <1>2, <1>4, <2>1, <3>1
    <3>3. i \in 1..(l + 1) /\ k \in 1..(n + 1) /\ l - i + 1 = n - k + 1
      BY <3>2
    <3> QED BY <3>1, <3>3
  <2>3. PICK a, b : a = Suffix(z, i) /\ b = Suffix(s, k)
    OBVIOUS
  <2>4. /\ a \in Seq(T) /\ Len(a) = Len(s) - k + 1
        /\ \A m \in 1..(Len(s) - k + 1) : a[m] = z[i + m - 1]
    BY <1>3, <2>2, <2>3, SuffixTyped
  <2>5. /\ b \in Seq(T) /\ Len(b) = Len(s) - k + 1
        /\ \A m \in 1..(Len(s) - k + 1) : b[m] = s[k + m - 1]
    BY <2>2, <2>3, SuffixTyped
  <2>6. \A m \in 1..Len(a) : a[m] = b[m]
    <3> SUFFICES ASSUME NEW m \in 1..(Len(s) - k + 1) PROVE a[m] = b[m]
      BY <2>4
    <3>1. PICK h : h = k + m - 1
      OBVIOUS
    <3>2. h \in j..Len(s) /\ i + m - 1 = Len(N) + h - j + 1
      BY <1>1, <1>2, <2>1, <3>1
    <3> QED BY <1>5, <2>4, <2>5, <3>1, <3>2
  <2>7. a = b
    BY <2>4, <2>5, <2>6, SeqEqual
  <2> QED BY <2>1, <2>3, <2>7
<1> QED BY <1>1, <1>2, <1>3, <1>4, <1>5, <1>6 DEF Fronted

-----------------------------------------------------------------------------
(* From a place of the code to another one of the same function.           *)
LEMMA PlaceFacts ==
  ASSUME NEW H, NEW unit, NEW o, NEW offs, Finished(H, unit, o, offs), NEW c \in H, c.todo # << >>
  PROVE  /\ c.todo \in Seq(ItemType) /\ Len(c.todo) \in Nat \ {0} /\ c.at \in Nat \ {0}
         /\ c.fn \in 1..Len(unit) /\ TopItem(c) = c.todo[1] /\ TopItem(c) \in ItemType
         /\ ItemRight(TopItem(c)) /\ Done(unit, o, H, c)
         /\ \A i \in 1..Len(c.todo) : c.todo[i] \in ItemType /\ (c.todo[i].at = "epilogue" <=> i = Len(c.todo))
         /\ TopItem(c).at # "epilogue" => 2 \in 1..Len(c.todo)
         /\ c.todo[Len(c.todo)].node = unit[c.fn].body
<1>1. PlaceRight(c, unit, Len(unit)) /\ Done(unit, o, H, c)
  BY DEF Finished
<1>2. StackRight(c.todo, unit, c.fn) /\ c.at \in Nat \ {0} /\ c.fn \in 1..Len(unit)
  BY <1>1 DEF PlaceRight, Place
<1>3. c.todo \in Seq(ItemType) /\ Len(c.todo) \in Nat \ {0} /\ \A i \in 1..Len(c.todo) : c.todo[i] \in ItemType
  <2>1. c.todo \in Seq(ItemType)
    BY <1>2 DEF StackRight
  <2>2. Len(c.todo) \in Nat \ {0}
    BY <2>1, EmptySeq, LenProperties
  <2> QED BY <2>1, <2>2, ElementOfSeq
<1>4. PICK one : one = 1
  OBVIOUS
<1>5. one \in 1..Len(c.todo) /\ TopItem(c) = c.todo[one]
  BY <1>3, <1>4 DEF TopItem
<1>6. /\ \A i \in 1..Len(c.todo) : ItemRight(c.todo[i]) /\ (c.todo[i].at = "epilogue" <=> i = Len(c.todo))
      /\ c.todo[Len(c.todo)].node = unit[c.fn].body
  BY <1>2 DEF StackRight
<1>7. TopItem(c).at # "epilogue" => 2 \in 1..Len(c.todo)
  BY <1>3, <1>4, <1>5, <1>6
<1> QED BY <1>1, <1>2, <1>3, <1>4, <1>5, <1>6, <1>7

There(H, unit, q, t, fn, r, s) == \E d \in H : d.at = q /\ d.todo = t /\ d.fn = fn /\ Alive(H, unit, d, r, s)

LEMMA NestsAlive ==
  ASSUME NEW H, NEW unit, NEW o, NEW offs, Finished(H, unit, o, offs), NEW c \in H, NEW r, NEW s,
         Alive(H, unit, c, r, s), NEW j \in 1..Len(c.todo),
         NEW g \in Seq(ItemType), NEW N \in Seq(RestType), Meant(g, N), Len(g) = Len(N),
         NEW q, Comes(H, q, g \o Suffix(c.todo, j), c.fn)
  PROVE  There(H, unit, q, g \o Suffix(c.todo, j), c.fn, r, N \o Suffix(s, j))
<1>1. /\ Latest(unit, c.fn) /\ s \in Seq(RestType) /\ Meant(c.todo, s) /\ c.todo # << >>
      /\ Frame(H, unit, c, r, s)
  BY DEF Alive, Beside
<1>2. c.todo \in Seq(ItemType) /\ Len(c.todo) \in Nat \ {0}
  BY <1>1, PlaceFacts
<1>3. PICK t, z : t = g \o Suffix(c.todo, j) /\ z = N \o Suffix(s, j)
  OBVIOUS
<1>4. PICK d \in H : d.at = q /\ d.todo = t /\ d.fn = c.fn
  <2>1. [at |-> q, todo |-> t, fn |-> c.fn] \in H
    BY <1>3 DEF Comes
  <2> QED BY <2>1
<1>5. Len(c.todo) <= Len(s) /\ \A i \in 1..Len(c.todo) : Means(c.todo[i], s[i])
  BY <1>1 DEF Meant
<1>6. j \in 1..(Len(c.todo) + 1)
  BY <1>2
<1>7. /\ t \in Seq(ItemType) /\ Len(g) \in Nat /\ Len(t) = Len(g) + Len(c.todo) - j + 1
      /\ \A i \in 1..Len(g) : t[i] = g[i]
      /\ \A k \in j..Len(c.todo) : t[Len(g) + k - j + 1] = c.todo[k]
  <2>0. PICK T : T = ItemType
    OBVIOUS
  <2>1. PICK u \in Seq(T) : u = c.todo
    BY <1>2, <2>0
  <2>2. j \in 1..(Len(u) + 1) /\ t = g \o Suffix(u, j) /\ g \in Seq(T)
    BY <1>3, <1>6, <2>0, <2>1
  <2>3. Fronted(T, u, g, j, t)
    BY <2>2, SuffixWithFront
  <2> QED BY <2>0, <2>1, <2>3 DEF Fronted
<1>8. Len(s) \in Nat
  BY <1>1, LenProperties
<1>9. j \in 1..(Len(s) + 1)
  BY <1>2, <1>5, <1>8
<1>10. /\ z \in Seq(RestType) /\ Len(z) = Len(N) + Len(s) - j + 1
       /\ \A i \in 1..Len(N) : z[i] = N[i]
       /\ \A k \in j..Len(s) : z[Len(N) + k - j + 1] = s[k]
       /\ \A k \in j..(Len(s) + 1) : Suffix(z, Len(N) + k - j + 1) = Suffix(s, k)
  <2>1. Fronted(RestType, s, N, j, z)
    BY <1>1, <1>3, <1>9, SuffixWithFront
  <2> QED BY <2>1 DEF Fronted
<1>11. Len(t) \in Nat \ {0} /\ t # << >>
  BY <1>2, <1>7, EmptySeq
<1>12. Meant(t, z)
  <2>1. Len(t) <= Len(z)
    BY <1>2, <1>5, <1>7, <1>8, <1>10
  <2>2. ASSUME NEW i \in 1..Len(t)
        PROVE  Means(t[i], z[i])
    <3>1. CASE i <= Len(g)
      BY <1>7, <1>10, <2>2, <3>1 DEF Meant
    <3>2. CASE i > Len(g)
      <4>1. PICK k : k = i - Len(g) + j - 1
        OBVIOUS
      <4>2. k \in j..Len(c.todo) /\ k \in 1..Len(c.todo) /\ k \in j..Len(s) /\ i = Len(g) + k - j + 1
        BY <1>2, <1>5, <1>7, <1>8, <3>2, <4>1
      <4>3. t[i] = c.todo[k] /\ z[i] = s[k]
        BY <1>7, <1>10, <4>2
      <4> QED BY <1>5, <4>2, <4>3
    <3> QED BY <1>7, <3>1, <3>2
  <2> QED BY <2>1, <2>2 DEF Meant
<1>13. Frame(H, unit, d, r, z)
  <2>1. CASE r = << >> /\ Len(s) = Len(c.todo)
    BY <1>4, <1>7, <1>10, <2>1 DEF Frame
  <2>2. CASE r \in Seq(Int) /\ r # << >> /\ Stands(H, unit, Head(r), Tail(r), Suffix(s, Len(c.todo) + 1))
    <3>1. PICK k : k = Len(c.todo) + 1
      OBVIOUS
    <3>2. k \in j..(Len(s) + 1) /\ Len(N) + k - j + 1 = Len(t) + 1
      BY <1>2, <1>5, <1>7, <1>8, <3>1
    <3>3. Suffix(z, Len(t) + 1) = Suffix(s, k)
      BY <1>10, <3>2
    <3> QED BY <1>4, <2>2, <3>1, <3>3 DEF Frame
  <2> QED BY <1>1, <2>1, <2>2 DEF Frame
<1>14. Alive(H, unit, d, r, z)
  BY <1>1, <1>4, <1>10, <1>11, <1>12, <1>13 DEF Alive, Beside
<1> QED BY <1>3, <1>4, <1>14 DEF There

LEMMA Nests ==
  ASSUME NEW H, NEW unit, NEW o, NEW offs, Finished(H, unit, o, offs), NEW c \in H, NEW r, NEW s,
         Alive(H, unit, c, r, s), NEW j \in 1..Len(c.todo),
         NEW g \in Seq(ItemType), NEW N \in Seq(RestType), Meant(g, N), Len(g) = Len(N),
         NEW q, Comes(H, q, g \o Suffix(c.todo, j), c.fn)
  PROVE  Stands(H, unit, q, r, N \o Suffix(s, j))
<1>1. There(H, unit, q, g \o Suffix(c.todo, j), c.fn, r, N \o Suffix(s, j))
  BY NestsAlive
<1> QED BY <1>1, StandsIn DEF There

LEMMA GoesTo ==
  ASSUME NEW H, NEW unit, NEW o, NEW offs, Finished(H, unit, o, offs), NEW c \in H, NEW r, NEW s,
         Alive(H, unit, c, r, s), NEW j \in 1..Len(c.todo), NEW q, Comes(H, q, Suffix(c.todo, j), c.fn)
  PROVE  Stands(H, unit, q, r, Suffix(s, j))
<1>1. c.todo # << >> /\ s \in Seq(RestType) /\ Meant(c.todo, s)
  BY DEF Alive, Beside
<1>2. c.todo \in Seq(ItemType) /\ Len(c.todo) \in Nat
  BY <1>1, PlaceFacts
<1>3. Len(s) \in Nat /\ Len(c.todo) <= Len(s)
  BY <1>1, LenProperties DEF Meant
<1>4. j \in 1..(Len(c.todo) + 1) /\ j \in 1..(Len(s) + 1)
  BY <1>2, <1>3
<1>5. PICK g, N : g = << >> /\ N = << >>
  OBVIOUS
<1>6. g \in Seq(ItemType) /\ N \in Seq(RestType) /\ Len(g) = 0 /\ Len(N) = 0
  BY <1>5, EmptySeq
<1>7. PICK a, z : a = Suffix(c.todo, j) /\ z = Suffix(s, j)
  OBVIOUS
<1>8. a \in Seq(ItemType) /\ z \in Seq(RestType)
  BY <1>1, <1>2, <1>4, <1>7, SuffixTyped
<1>9. g \o a = a /\ N \o z = z
  BY <1>5, <1>8, ConcatEmptySeq
<1>10. Meant(g, N)
  BY <1>6 DEF Meant
<1>11. Stands(H, unit, q, r, N \o Suffix(s, j))
  BY <1>6, <1>7, <1>9, <1>10, Nests
<1> QED BY <1>7, <1>9, <1>11

LEMMA OpensTo ==
  ASSUME NEW H, NEW unit, NEW o, NEW offs, Finished(H, unit, o, offs), NEW c \in H, NEW r, NEW s,
         Alive(H, unit, c, r, s), TopItem(c).at # "epilogue",
         NEW q, NEW x \in ItemType, NEW n \in Statement, Opens(H, c, q, n, x),
         NEW at \in RestPoints, at = PointOf(x), NEW node \in Statement, at # "join" => node = x.node
  PROVE  Stands(H, unit, q, r, Then(n, at, node) \o Suffix(s, 2))
<1>1. c.todo # << >>
  BY DEF Alive, Beside
<1>2. 2 \in 1..Len(c.todo)
  BY <1>1, PlaceFacts
<1>3. PICK d \in ItemType : Stmt(d, n) /\ Comes(H, q, <<d, x>> \o Suffix(c.todo, 2), c.fn)
  BY DEF Opens
<1>4. PICK g : g = <<d, x>>
  OBVIOUS
<1>5. PICK N : N = Then(n, at, node)
  OBVIOUS
<1>6. g \in Seq(ItemType) /\ Len(g) = 2 /\ g[1] = d /\ g[2] = x
  BY <1>4
<1>7. PICK a, b : a = Todo("statement", n) /\ b = Todo(at, node)
  OBVIOUS
<1>8. a \in RestType /\ b \in RestType /\ a.at = "statement" /\ a.node = n /\ b.at = at /\ b.node = node
  BY <1>7 DEF Todo, RestType, RestPoints
<1>9. N \in Seq(RestType) /\ Len(N) = 2 /\ N[1] = a /\ N[2] = b
  BY <1>5, <1>7, <1>8 DEF Then
<1>10. Means(d, a)
  BY <1>3, <1>8 DEF Means, Stmt, PointOf
<1>11. Means(x, b)
  BY <1>8 DEF Means
<1>12. Meant(g, N)
  <2>1. \A i \in 1..2 : i = 1 \/ i = 2
    OBVIOUS
  <2> QED BY <1>6, <1>9, <1>10, <1>11, <2>1 DEF Meant
<1>13. Stands(H, unit, q, r, N \o Suffix(s, 2))
  BY <1>2, <1>3, <1>4, <1>6, <1>9, <1>12, Nests
<1> QED BY <1>5, <1>13

-----------------------------------------------------------------------------
(* A stack stands at a place, and the machine goes on from there.          *)
Runs(H, unit, o, offs, c, r, s) == Finished(H, unit, o, offs) /\ c \in H /\ Alive(H, unit, c, r, s)

LEMMA RunsFacts ==
  ASSUME NEW H, NEW unit, NEW o, NEW offs, NEW c, NEW r, NEW s, Runs(H, unit, o, offs, c, r, s)
  PROVE  /\ Finished(H, unit, o, offs) /\ Jumped(o, offs) /\ c \in H /\ Alive(H, unit, c, r, s)
         /\ c.todo # << >> /\ c.todo \in Seq(ItemType) /\ Len(c.todo) \in Nat \ {0}
         /\ c.at \in Nat \ {0} /\ c.fn \in 1..Len(unit) /\ Latest(unit, c.fn) /\ c.todo # << >>
         /\ TopItem(c) = c.todo[1] /\ TopItem(c) \in ItemType /\ TopItem(c).node \in Statement
         /\ ItemRight(TopItem(c)) /\ Done(unit, o, H, c)
         /\ \A i \in 1..Len(c.todo) : c.todo[i] \in ItemType /\ (c.todo[i].at = "epilogue" <=> i = Len(c.todo))
         /\ TopItem(c).at # "epilogue" => 2 \in 1..Len(c.todo)
         /\ s \in Seq(RestType) /\ Len(s) \in Nat /\ Len(c.todo) <= Len(s)
         /\ \A i \in 1..Len(c.todo) : Means(c.todo[i], s[i])
         /\ s[1] \in RestType /\ Means(TopItem(c), s[1])
<1>1. Finished(H, unit, o, offs) /\ Jumped(o, offs) /\ c \in H /\ Alive(H, unit, c, r, s)
  BY DEF Runs, Finished
<1>2. c.todo # << >> /\ Latest(unit, c.fn) /\ s \in Seq(RestType) /\ Meant(c.todo, s)
  BY <1>1 DEF Alive, Beside
<1>3. /\ c.todo \in Seq(ItemType) /\ Len(c.todo) \in Nat \ {0} /\ c.at \in Nat \ {0}
      /\ c.fn \in 1..Len(unit) /\ TopItem(c) = c.todo[1] /\ TopItem(c) \in ItemType
      /\ ItemRight(TopItem(c)) /\ Done(unit, o, H, c)
      /\ \A i \in 1..Len(c.todo) : c.todo[i] \in ItemType /\ (c.todo[i].at = "epilogue" <=> i = Len(c.todo))
      /\ TopItem(c).at # "epilogue" => 2 \in 1..Len(c.todo)
  BY <1>1, <1>2, PlaceFacts
<1>4. TopItem(c).node \in Statement
  BY <1>3 DEF ItemType
<1>5. /\ Len(s) \in Nat /\ Len(c.todo) <= Len(s)
      /\ \A i \in 1..Len(c.todo) : Means(c.todo[i], s[i])
  BY <1>2, LenProperties DEF Meant
<1>6. PICK one : one = 1
  OBVIOUS
<1>7. one \in 1..Len(c.todo)
  BY <1>3, <1>6
<1>8. Means(c.todo[one], s[one]) /\ TopItem(c) = c.todo[one]
  BY <1>3, <1>5, <1>6, <1>7
<1>9. s[1] \in RestType /\ Means(TopItem(c), s[1])
  BY <1>6, <1>8 DEF Means
<1> QED BY <1>1, <1>2, <1>3, <1>4, <1>5, <1>9

LEMMA AgreesThere ==
  ASSUME NEW H, NEW unit, NEW o, NEW p, NEW r, NEW b, NEW s, Stands(H, unit, p, r, s)
  PROVE  Agrees(H, unit, o, p, r, b, s)
BY MeetsSelf DEF Agrees

LEMMA AgreesAfter ==
  ASSUME NEW H, NEW unit, NEW o, NEW p, NEW r, NEW b, NEW q, NEW w, NEW s,
         Meets(o.code, <<p, r, b>>, <<q, w, b>>), Agrees(H, unit, o, q, w, b, s)
  PROVE  Agrees(H, unit, o, p, r, b, s)
BY MeetsThen DEF Agrees

LEMMA JumpGoes ==
  ASSUME NEW o, NEW offs, Jumped(o, offs), NEW n, NEW p \in Int, NEW q \in Int,
         Jumps(o, p, "always", Local(n)), LabelAt(o, n, q), NEW r, NEW b
  PROVE  Meets(o.code, <<p, r, b>>, <<q, r, b>>)
<1>1. o.code[p] = [op |-> "always", arg |-> q - p]
  BY DEF Jumped, LabelAt
<1> QED BY <1>1, Branches0

LEMMA AgreesJump ==
  ASSUME NEW H, NEW unit, NEW o, NEW offs, Jumped(o, offs), NEW n, NEW p \in Int, NEW q \in Int,
         Jumps(o, p, "always", Local(n)), LabelAt(o, n, q), NEW r, NEW b, NEW s, Stands(H, unit, q, r, s)
  PROVE  Agrees(H, unit, o, p, r, b, s)
BY JumpGoes, AgreesThere, AgreesAfter

LEMMA LeavesOn ==
  ASSUME NEW H, NEW unit, NEW o, NEW offs, NEW c, NEW r, NEW s, Runs(H, unit, o, offs, c, r, s),
         TopItem(c).at # "epilogue", NEW q, Leaves(H, c, q)
  PROVE  Stands(H, unit, q, r, Suffix(s, 2))
<1>1. PICK j : j = 2
  OBVIOUS
<1>2. j \in 1..Len(c.todo) /\ Comes(H, q, Suffix(c.todo, j), c.fn)
  BY <1>1, RunsFacts DEF Leaves
<1>3. Stands(H, unit, q, r, Suffix(s, j))
  BY <1>2, RunsFacts, GoesTo
<1> QED BY <1>1, <1>3

LEMMA OpensOn ==
  ASSUME NEW H, NEW unit, NEW o, NEW offs, NEW c, NEW r, NEW s, Runs(H, unit, o, offs, c, r, s),
         TopItem(c).at # "epilogue",
         NEW q, NEW x \in ItemType, NEW n \in Statement, Opens(H, c, q, n, x),
         NEW at \in RestPoints, at = PointOf(x), NEW node \in Statement, at # "join" => node = x.node
  PROVE  Stands(H, unit, q, r, Then(n, at, node) \o Suffix(s, 2))
BY RunsFacts, OpensTo

LEMMA ExitAt ==
  ASSUME NEW H, NEW unit, NEW o, NEW offs, NEW c, NEW r, NEW s, Runs(H, unit, o, offs, c, r, s),
         NEW i \in 1..Len(c.todo), c.todo[i].at \in Waiting
  PROVE  \E q \in Nat : LabelAt(o, c.todo[i].end, q) /\ Stands(H, unit, q, r, Suffix(s, i + 1))
<1>1. PICK q \in Nat : LabelAt(o, c.todo[i].end, q) /\ Comes(H, q, Suffix(c.todo, i + 1), c.fn)
  BY DEF Runs, Finished
<1>2. i # Len(c.todo) /\ Len(c.todo) \in Nat
  <2>1. c.todo[i].at # "epilogue"
    BY DEF Waiting
  <2> QED BY <2>1, RunsFacts
<1>3. PICK j : j = i + 1
  OBVIOUS
<1>4. j \in 1..Len(c.todo)
  BY <1>2, <1>3
<1>5. Stands(H, unit, q, r, Suffix(s, j))
  BY <1>1, <1>3, <1>4, RunsFacts, GoesTo
<1> QED BY <1>1, <1>3, <1>5

(* What is left at an item that waits, and at one that was opened.         *)
Suffixes(T, t, i, z) ==
  /\ z = Suffix(t, i) /\ z \in Seq(T) /\ Len(t) \in Nat /\ Len(z) = Len(t) - i + 1
  /\ \A k \in 1..(Len(t) - i + 1) : z[k] = t[i + k - 1]

LEMMA SuffixesTyped ==
  ASSUME NEW T, NEW t \in Seq(T), NEW i \in 1..(Len(t) + 1), NEW z, z = Suffix(t, i)
  PROVE  Suffixes(T, t, i, z)
BY SuffixTyped DEF Suffixes

LEMMA SuffixTwice ==
  ASSUME NEW T, NEW t \in Seq(T), NEW i \in 1..(Len(t) + 1), NEW k \in 1..(Len(t) - i + 2)
  PROVE  Suffix(Suffix(t, i), k) = Suffix(t, i + k - 1)
<1>1. PICK u, h : u = Suffix(t, i) /\ h = i + k - 1
  OBVIOUS
<1>2. Suffixes(T, t, i, u)
  BY <1>1, SuffixesTyped
<1>3. /\ u \in Seq(T) /\ Len(t) \in Nat /\ Len(u) = Len(t) - i + 1
      /\ \A m \in 1..(Len(t) - i + 1) : u[m] = t[i + m - 1]
  BY <1>2 DEF Suffixes
<1>4. k \in 1..(Len(u) + 1) /\ h \in 1..(Len(t) + 1)
  BY <1>1, <1>3
<1>5. PICK a, z : a = Suffix(u, k) /\ z = Suffix(t, h)
  OBVIOUS
<1>6. Suffixes(T, u, k, a) /\ Suffixes(T, t, h, z)
  BY <1>3, <1>4, <1>5, SuffixesTyped
<1>7. /\ a \in Seq(T) /\ Len(a) = Len(u) - k + 1 /\ \A m \in 1..(Len(u) - k + 1) : a[m] = u[k + m - 1]
      /\ z \in Seq(T) /\ Len(z) = Len(t) - h + 1 /\ \A m \in 1..(Len(t) - h + 1) : z[m] = t[h + m - 1]
  BY <1>6 DEF Suffixes
<1>8. Len(a) = Len(z)
  BY <1>1, <1>3, <1>7
<1>9. ASSUME NEW m \in 1..Len(a)
      PROVE  a[m] = z[m]
  <2>1. PICK n : n = k + m - 1
    OBVIOUS
  <2>2. n \in 1..(Len(t) - i + 1) /\ i + n - 1 = h + m - 1
    BY <1>1, <1>3, <1>7, <2>1
  <2> QED BY <1>3, <1>7, <1>8, <2>1, <2>2
<1>10. a = z
  BY <1>7, <1>8, <1>9, SeqEqual
<1> QED BY <1>1, <1>5, <1>10

LEMMA ItemPlace ==
  ASSUME NEW H, NEW unit, NEW o, NEW offs, NEW c, NEW r, NEW s, Runs(H, unit, o, offs, c, r, s),
         NEW i \in 1..Len(c.todo)
  PROVE  \E e : /\ Runs(H, unit, o, offs, e, r, Suffix(s, i)) /\ e.todo = Suffix(c.todo, i) /\ e.fn = c.fn
               /\ TopItem(e) = c.todo[i]
               /\ Suffix(Suffix(s, i), 2) = Suffix(s, i + 1) /\ Suffix(Suffix(c.todo, i), 2) = Suffix(c.todo, i + 1)
<1>1. /\ Finished(H, unit, o, offs) /\ c \in H /\ Alive(H, unit, c, r, s)
      /\ c.todo \in Seq(ItemType) /\ s \in Seq(RestType)
      /\ Len(c.todo) \in Nat \ {0} /\ Len(s) \in Nat /\ Len(c.todo) <= Len(s)
  BY RunsFacts
<1>2. PICK q \in Nat : Comes(H, q, Suffix(c.todo, i), c.fn)
  BY <1>1 DEF Finished
<1>3. PICK g, N, a, z : g = << >> /\ N = << >> /\ a = Suffix(c.todo, i) /\ z = Suffix(s, i)
  OBVIOUS
<1>4. g \in Seq(ItemType) /\ N \in Seq(RestType) /\ Len(g) = 0 /\ Len(N) = 0 /\ Meant(g, N)
  <2>1. g \in Seq(ItemType) /\ N \in Seq(RestType) /\ Len(g) = 0 /\ Len(N) = 0
    BY <1>3, EmptySeq
  <2> QED BY <2>1 DEF Meant
<1>5. i \in 1..(Len(c.todo) + 1) /\ i \in 1..(Len(s) + 1)
  BY <1>1
<1>6. PICK u \in Seq(ItemType) : u = c.todo
  BY <1>1
<1>7. i \in 1..(Len(u) + 1) /\ a = Suffix(u, i)
  BY <1>3, <1>5, <1>6
<1>8. Suffixes(ItemType, u, i, a) /\ Suffixes(RestType, s, i, z)
  BY <1>1, <1>3, <1>5, <1>7, SuffixesTyped
<1>9. a \in Seq(ItemType) /\ z \in Seq(RestType)
  BY <1>8 DEF Suffixes
<1>10. g \o a = a /\ N \o z = z
  BY <1>3, <1>9, ConcatEmptySeq
<1>11. Comes(H, q, g \o Suffix(c.todo, i), c.fn)
  BY <1>2, <1>3, <1>10
<1>12. PICK e \in H : /\ e.at = q /\ e.todo = g \o Suffix(c.todo, i) /\ e.fn = c.fn
                      /\ Alive(H, unit, e, r, N \o Suffix(s, i))
  <2>1. There(H, unit, q, g \o Suffix(c.todo, i), c.fn, r, N \o Suffix(s, i))
    BY <1>1, <1>4, <1>11, NestsAlive
  <2> QED BY <2>1 DEF There
<1>13. e.todo = a /\ Runs(H, unit, o, offs, e, r, z)
  BY <1>1, <1>3, <1>10, <1>12 DEF Runs
<1>14. a[1] = c.todo[i]
  <2>1. PICK one : one = 1
    OBVIOUS
  <2>2. one \in 1..(Len(u) - i + 1) /\ i + one - 1 = i
    BY <1>1, <1>6, <2>1
  <2>3. a[one] = u[i]
    BY <1>8, <2>2 DEF Suffixes
  <2> QED BY <1>6, <2>1, <2>3
<1>15. Suffix(z, 2) = Suffix(s, i + 1) /\ Suffix(a, 2) = Suffix(c.todo, i + 1)
  <2>1. PICK k : k = 2
    OBVIOUS
  <2>2. k \in 1..(Len(s) - i + 2) /\ k \in 1..(Len(u) - i + 2) /\ i + k - 1 = i + 1
    BY <1>1, <1>6, <2>1
  <2>3. Suffix(Suffix(s, i), k) = Suffix(s, i + k - 1)
    BY <1>1, <1>5, <2>2, SuffixTwice
  <2>4. Suffix(Suffix(u, i), k) = Suffix(u, i + k - 1)
    BY <1>7, <2>2, SuffixTwice
  <2> QED BY <1>3, <1>6, <2>1, <2>2, <2>3, <2>4
<1> QED BY <1>3, <1>12, <1>13, <1>14, <1>15 DEF TopItem

LEMMA OpensRuns ==
  ASSUME NEW H, NEW unit, NEW o, NEW offs, NEW c, NEW r, NEW s, Runs(H, unit, o, offs, c, r, s),
         TopItem(c).at # "epilogue",
         NEW q, NEW x \in ItemType, NEW n \in Statement, Opens(H, c, q, n, x),
         NEW at \in RestPoints, at = PointOf(x), NEW node \in Statement, at # "join" => node = x.node
  PROVE  \E d, z : /\ Runs(H, unit, o, offs, d, r, z) /\ d.at = q
                  /\ 2 \in 1..Len(d.todo) /\ d.todo[2] = x /\ Suffix(z, 3) = Suffix(s, 2)
<1>1. /\ Finished(H, unit, o, offs) /\ c \in H /\ Alive(H, unit, c, r, s) /\ 2 \in 1..Len(c.todo)
      /\ s \in Seq(RestType) /\ Len(s) \in Nat /\ Len(c.todo) \in Nat /\ Len(c.todo) <= Len(s)
      /\ c.todo \in Seq(ItemType)
  BY RunsFacts
<1>2. PICK i \in ItemType : Stmt(i, n) /\ Comes(H, q, <<i, x>> \o Suffix(c.todo, 2), c.fn)
  BY DEF Opens
<1>3. PICK g, N : g = <<i, x>> /\ N = Then(n, at, node)
  OBVIOUS
<1>4. g \in Seq(ItemType) /\ Len(g) = 2 /\ g[1] = i /\ g[2] = x
  BY <1>3
<1>5. PICK a, y : a = Todo("statement", n) /\ y = Todo(at, node)
  OBVIOUS
<1>6. a \in RestType /\ y \in RestType /\ a.at = "statement" /\ a.node = n /\ y.at = at /\ y.node = node
  BY <1>5 DEF Todo, RestType, RestPoints
<1>7. N \in Seq(RestType) /\ Len(N) = 2 /\ N[1] = a /\ N[2] = y
  BY <1>3, <1>5, <1>6 DEF Then
<1>8. Means(i, a)
  BY <1>2, <1>6 DEF Means, Stmt, PointOf
<1>9. Means(x, y)
  BY <1>6 DEF Means
<1>10. Meant(g, N)
  <2>1. \A k \in 1..2 : k = 1 \/ k = 2
    OBVIOUS
  <2> QED BY <1>4, <1>7, <1>8, <1>9, <2>1 DEF Meant
<1>11. PICK j : j = 2
  OBVIOUS
<1>12. j \in 1..Len(c.todo) /\ Comes(H, q, g \o Suffix(c.todo, j), c.fn) /\ Len(g) = Len(N)
  BY <1>1, <1>2, <1>3, <1>4, <1>7, <1>11
<1>13. PICK d \in H : /\ d.at = q /\ d.todo = g \o Suffix(c.todo, j) /\ d.fn = c.fn
                      /\ Alive(H, unit, d, r, N \o Suffix(s, j))
  <2>1. There(H, unit, q, g \o Suffix(c.todo, j), c.fn, r, N \o Suffix(s, j))
    BY <1>1, <1>4, <1>7, <1>10, <1>12, NestsAlive
  <2> QED BY <2>1 DEF There
<1>14. PICK u, t, z : u = c.todo /\ t = g \o Suffix(u, j) /\ z = N \o Suffix(s, j)
  OBVIOUS
<1>15. u \in Seq(ItemType) /\ j \in 1..(Len(u) + 1) /\ j \in 1..(Len(s) + 1) /\ Len(s) + 1 > 1
  BY <1>1, <1>11, <1>14
<1>16. Fronted(ItemType, u, g, j, t) /\ Fronted(RestType, s, N, j, z)
  BY <1>1, <1>4, <1>7, <1>14, <1>15, SuffixWithFront
<1>17. Len(t) = Len(u) + 1 /\ t[2] = x /\ Len(u) \in Nat
  BY <1>4, <1>11, <1>16 DEF Fronted
<1>18. Suffix(z, 3) = Suffix(s, 2)
  <2>1. j \in j..(Len(s) + 1) /\ Len(N) + j - j + 1 = 3
    BY <1>1, <1>7, <1>11
  <2>2. Suffix(z, Len(N) + j - j + 1) = Suffix(s, j)
    BY <1>16, <2>1 DEF Fronted
  <2> QED BY <1>11, <2>1, <2>2
<1>19. 2 \in 1..Len(d.todo) /\ d.todo[2] = x
  BY <1>1, <1>13, <1>14, <1>17
<1>20. Runs(H, unit, o, offs, d, r, z)
  BY <1>1, <1>13, <1>14 DEF Runs
<1> QED BY <1>13, <1>18, <1>19, <1>20

-----------------------------------------------------------------------------
(* What is next, and the item it was made from.                            *)
Kinds ==
  {"act", "declare", "call", "block", "if", "while", "dowhile", "for", "try",
   "break", "continue", "return", "throw", "other"}
Others == {"join", "loop", "dotest", "fortest", "handler", "frame"}

LEMMA StatementParts ==
  ASSUME NEW n \in Statement
  PROVE  /\ n.kind \in Kinds
         /\ n.kind = "block" => n.body \in Seq(Statement)
         /\ n.kind = "if" => n.then \in Statement /\ n.otherwise \in Seq(Statement)
         /\ n.kind \in {"while", "dowhile", "for", "try"} => n.body \in Statement
         /\ n.kind = "for" => n.init \in Seq(Statement)
         /\ n.kind = "try" => n.clauses \in Seq(Statement)
<1>1. IsStatement(n, Statement)
  BY StatementAssumption DEF AreStatements
<1> QED BY <1>1 DEF IsStatement, Kinds

LEMMA NowFacts ==
  ASSUME NEW H, NEW unit, NEW o, NEW offs, NEW c, NEW r, Runs(H, unit, o, offs, c, r, rest)
  PROVE  /\ rest[1].node \in Statement
         /\ Now \in Kinds \cup Others
         /\ Now \in Kinds => /\ TopIs(c, "statement") /\ TopItem(c).at # "epilogue"
                             /\ rest[1].node = TopItem(c).node /\ TopItem(c).node.kind = Now
         /\ Now = "join" => \/ TopIs(c, "else") \/ TopIs(c, "endif")
                            \/ TopIs(c, "catch") /\ TopItem(c).clause # 0
         /\ Now = "loop" => (TopIs(c, "while") \/ TopIs(c, "step")) /\ rest[1].node = TopItem(c).node
         /\ Now = "dotest" => TopIs(c, "dowhile") /\ rest[1].node = TopItem(c).node
         /\ Now = "fortest" => TopIs(c, "for") /\ rest[1].node = TopItem(c).node
         /\ Now = "handler" => TopIs(c, "catch") /\ TopItem(c).clause = 0 /\ rest[1].node = TopItem(c).node
         /\ Now = "frame" => TopIs(c, "epilogue")
<1>1. PICK y : y = rest[1]
  OBVIOUS
<1>2. PICK x : x = TopItem(c)
  OBVIOUS
<1>3. y \in RestType /\ Means(x, y) /\ x \in ItemType
  BY <1>1, <1>2, RunsFacts
<1>4. y.at = PointOf(x) /\ (y.at # "join" => y.node = x.node) /\ y.node \in Statement /\ y.at \in RestPoints
  BY <1>3 DEF Means, RestType
<1>5. x.at \in Points
  BY <1>3 DEF ItemType
<1>6. y.node.kind \in Kinds
  BY <1>4, StatementParts
<1>7. Now = IF y.at = "statement" THEN y.node.kind ELSE y.at
  BY <1>1 DEF Now
<1>8. /\ y.at = "statement" => x.at = "statement" /\ y.node = x.node
      /\ y.at = "join" => x.at \in {"else", "endif"} \/ (x.at = "catch" /\ x.clause # 0)
      /\ y.at = "loop" => x.at \in {"while", "step"} /\ y.node = x.node
      /\ y.at = "dotest" => x.at = "dowhile" /\ y.node = x.node
      /\ y.at = "fortest" => x.at = "for" /\ y.node = x.node
      /\ y.at = "handler" => x.at = "catch" /\ x.clause = 0 /\ y.node = x.node
      /\ y.at = "frame" => x.at = "epilogue"
  <2>1. CASE x.at = "statement"
    BY <1>4, <2>1 DEF PointOf
  <2>2. CASE x.at \in {"else", "endif"}
    BY <1>4, <2>2 DEF PointOf
  <2>3. CASE x.at \in {"while", "step"}
    BY <1>4, <2>3 DEF PointOf
  <2>4. CASE x.at = "dowhile" \/ x.at = "for" \/ x.at = "epilogue"
    BY <1>4, <2>4 DEF PointOf
  <2>5. CASE x.at = "catch"
    <3>1. CASE x.clause = 0
      BY <1>4, <2>5, <3>1 DEF PointOf
    <3>2. CASE x.clause # 0
      BY <1>4, <2>5, <3>2 DEF PointOf
    <3> QED BY <3>1, <3>2
  <2> QED BY <1>5, <2>1, <2>2, <2>3, <2>4, <2>5 DEF Points
<1>9. /\ Now \in Kinds => y.at = "statement" /\ y.node.kind = Now
      /\ Now \in Others => y.at = Now
      /\ Now \in Kinds \cup Others
  BY <1>4, <1>6, <1>7 DEF Kinds, Others, RestPoints
<1>10. /\ Now \in Kinds => x.at = "statement" /\ y.node = x.node /\ x.node.kind = Now
  BY <1>8, <1>9
<1>11. /\ Now = "join" => y.at = "join"
       /\ Now = "loop" => y.at = "loop"
       /\ Now = "dotest" => y.at = "dotest"
       /\ Now = "fortest" => y.at = "fortest"
       /\ Now = "handler" => y.at = "handler"
       /\ Now = "frame" => y.at = "frame"
  BY <1>9 DEF Others
<1> QED BY <1>1, <1>2, <1>4, <1>8, <1>9, <1>10, <1>11 DEF TopIs

LEMMA StatementNow ==
  ASSUME NEW H, NEW unit, NEW o, NEW offs, NEW c, NEW r, Runs(H, unit, o, offs, c, r, rest), Now \in Kinds
  PROVE  /\ TopIs(c, "statement") /\ TopItem(c).at # "epilogue"
         /\ rest[1].node = TopItem(c).node /\ TopItem(c).node.kind = Now
         /\ TopKind(c, {Now}) /\ DoneStatement(unit, o, H, c)
BY NowFacts, RunsFacts DEF TopKind, Done

LEMMA RestIsTyped ==
  ASSUME NEW H, NEW unit, NEW o, NEW offs, NEW c, NEW r, Runs(H, unit, o, offs, c, r, rest)
  PROVE  From(2) = Suffix(rest, 2) /\ From(2) \in Seq(RestType) /\ << >> \o From(2) = From(2)
<1>1. rest \in Seq(RestType) /\ Len(rest) \in Nat \ {0}
  BY RunsFacts
<1>2. PICK i : i = 2
  OBVIOUS
<1>3. i \in 1..(Len(rest) + 1)
  BY <1>1, <1>2
<1>4. Suffix(rest, i) \in Seq(RestType)
  BY <1>1, <1>3, SuffixTyped
<1>5. From(2) = Suffix(rest, i)
  BY <1>2 DEF From, Suffix
<1> QED BY <1>2, <1>4, <1>5, ConcatEmptySeq

(* The stack of a block.                                                   *)
LEMMA EachMeant ==
  ASSUME NEW body \in Seq(Statement), NEW g, Stmts(g, body)
  PROVE  Each(body) \in Seq(RestType) /\ Len(Each(body)) = Len(body) /\ Len(g) = Len(body) /\ Meant(g, Each(body))
<1>1. PICK N : N = Each(body)
  OBVIOUS
<1>2. Len(body) \in Nat /\ DOMAIN body = 1..Len(body) /\ \A i \in 1..Len(body) : body[i] \in Statement
  BY LenProperties, ElementOfSeq
<1>3. N = [i \in 1..Len(body) |-> Todo("statement", body[i])]
  BY <1>1, <1>2 DEF Each
<1>4. \A i \in 1..Len(body) : /\ N[i] \in RestType /\ N[i].at = "statement" /\ N[i].node = body[i]
  BY <1>2, <1>3 DEF Todo, RestType, RestPoints
<1>5. N \in Seq(RestType) /\ Len(N) = Len(body)
  BY <1>2, <1>3, <1>4
<1>6. \A i \in 1..Len(body) : Means(g[i], N[i])
  BY <1>4 DEF Stmts, Stmt, Means, PointOf
<1> QED BY <1>1, <1>2, <1>5, <1>6 DEF Meant, Stmts

-----------------------------------------------------------------------------
(* Steps that the meaning takes by itself: the machine goes where the new  *)
(* stack stands.                                                           *)
LEMMA NothingRuns ==
  ASSUME NEW H, NEW unit, NEW o, NEW offs, NEW c, NEW r, NEW b, Runs(H, unit, o, offs, c, r, rest), Now = "other"
  PROVE  Agrees(H, unit, o, c.at, r, b, Unfolded)
<1>1. Now \in Kinds
  BY DEF Kinds
<1>2. Leaves(H, c, c.at) /\ TopItem(c).at # "epilogue"
  BY <1>1, StatementNow DEF DoneStatement, WroteNothing
<1>3. Unfolded = Suffix(rest, 2)
  BY RestIsTyped DEF Unfolded
<1> QED BY <1>2, <1>3, LeavesOn, AgreesThere

LEMMA BlockRuns ==
  ASSUME NEW H, NEW unit, NEW o, NEW offs, NEW c, NEW r, NEW b, Runs(H, unit, o, offs, c, r, rest), Now = "block"
  PROVE  Agrees(H, unit, o, c.at, r, b, Unfolded)
<1>1. Now \in Kinds
  BY DEF Kinds
<1>2. PICK n : n = rest[1].node
  OBVIOUS
<1>3. n \in Statement /\ n = TopItem(c).node /\ n.kind = "block" /\ TopItem(c).at # "epilogue"
  BY <1>1, <1>2, StatementNow, NowFacts
<1>4. WroteBlock(H, c)
  BY <1>1, StatementNow DEF DoneStatement
<1>5. PICK g \in Seq(ItemType) : Stmts(g, n.body) /\ Comes(H, c.at, g \o Suffix(c.todo, 2), c.fn)
  BY <1>3, <1>4 DEF WroteBlock
<1>6. n.body \in Seq(Statement)
  BY <1>3, StatementParts
<1>7. PICK N : N = Each(n.body)
  OBVIOUS
<1>8. N \in Seq(RestType) /\ Len(g) = Len(N) /\ Meant(g, N)
  BY <1>5, <1>6, <1>7, EachMeant
<1>9. PICK j : j = 2
  OBVIOUS
<1>10. j \in 1..Len(c.todo) /\ Comes(H, c.at, g \o Suffix(c.todo, j), c.fn)
  BY <1>3, <1>5, <1>9, RunsFacts
<1>11. Stands(H, unit, c.at, r, N \o Suffix(rest, j))
  BY <1>8, <1>10, RunsFacts, Nests
<1>12. Unfolded = N \o Suffix(rest, 2)
  BY <1>2, <1>7, RestIsTyped DEF Unfolded
<1> QED BY <1>9, <1>11, <1>12, AgreesThere

LEMMA ForRuns ==
  ASSUME NEW H, NEW unit, NEW o, NEW offs, NEW c, NEW r, NEW b, Runs(H, unit, o, offs, c, r, rest), Now = "for"
  PROVE  Agrees(H, unit, o, c.at, r, b, Unfolded)
<1>1. Now \in Kinds
  BY DEF Kinds
<1>2. PICK n : n = rest[1].node
  OBVIOUS
<1>3. n \in Statement /\ n = TopItem(c).node /\ n.kind = "for" /\ TopItem(c).at # "epilogue"
  BY <1>1, <1>2, StatementNow, NowFacts
<1>4. WroteFor(H, c)
  BY <1>1, StatementNow DEF DoneStatement
<1>5. PICK x \in ItemType, g \in Seq(ItemType) :
        /\ Waits(x, "for", n) /\ Stmts(g, n.init)
        /\ Comes(H, c.at, (g \o <<x>>) \o Suffix(c.todo, 2), c.fn)
  BY <1>3, <1>4 DEF WroteFor
<1>6. n.init \in Seq(Statement)
  BY <1>3, StatementParts
<1>7. PICK N, y : N = Each(n.init) /\ y = Todo("fortest", n)
  OBVIOUS
<1>8. N \in Seq(RestType) /\ Len(g) = Len(N) /\ Meant(g, N)
  BY <1>5, <1>6, <1>7, EachMeant
<1>9. y \in RestType /\ Means(x, y)
  <2>1. y.at = "fortest" /\ y.node = n /\ y \in RestType
    BY <1>3, <1>7 DEF Todo, RestType, RestPoints
  <2> QED BY <1>5, <2>1 DEF Means, Waits, PointOf
<1>10. PICK k, M : k = g \o <<x>> /\ M = Append(N, y)
  OBVIOUS
<1>11. k \in Seq(ItemType) /\ M \in Seq(RestType) /\ Len(k) = Len(M) /\ Meant(k, M)
  <2>1. PICK h : h = Len(g)
    OBVIOUS
  <2>2. h \in Nat /\ Len(N) = h
    BY <1>8, <2>1, LenProperties
  <2>3. /\ k \in Seq(ItemType) /\ Len(k) = h + 1 /\ (\A i \in 1..h : k[i] = g[i]) /\ k[h + 1] = x
    BY <1>10, <2>1, <2>2
  <2>4. /\ M \in Seq(RestType) /\ Len(M) = h + 1 /\ (\A i \in 1..h : M[i] = N[i]) /\ M[h + 1] = y
    BY <1>8, <1>9, <1>10, <2>2, AppendProperties
  <2>5. ASSUME NEW i \in 1..(h + 1)
        PROVE  Means(k[i], M[i])
    <3>1. i \in 1..h \/ i = h + 1
      BY <2>2
    <3> QED BY <1>8, <1>9, <2>1, <2>3, <2>4, <3>1 DEF Meant
  <2> QED BY <2>2, <2>3, <2>4, <2>5 DEF Meant
<1>12. PICK j : j = 2
  OBVIOUS
<1>13. j \in 1..Len(c.todo) /\ Comes(H, c.at, k \o Suffix(c.todo, j), c.fn)
  BY <1>3, <1>5, <1>10, <1>12, RunsFacts
<1>14. Stands(H, unit, c.at, r, M \o Suffix(rest, j))
  BY <1>11, <1>13, RunsFacts, Nests
<1>15. Unfolded = M \o Suffix(rest, 2)
  BY <1>2, <1>7, <1>10, RestIsTyped DEF Unfolded
<1> QED BY <1>12, <1>14, <1>15, AgreesThere

LEMMA DoWhileRuns ==
  ASSUME NEW H, NEW unit, NEW o, NEW offs, NEW c, NEW r, NEW b, Runs(H, unit, o, offs, c, r, rest), Now = "dowhile"
  PROVE  Agrees(H, unit, o, c.at, r, b, Unfolded)
<1>1. Now \in Kinds
  BY DEF Kinds
<1>2. PICK n : n = rest[1].node
  OBVIOUS
<1>3. n \in Statement /\ n = TopItem(c).node /\ n.kind = "dowhile" /\ TopItem(c).at # "epilogue"
  BY <1>1, <1>2, StatementNow, NowFacts
<1>4. WroteDoWhile(o, H, c)
  BY <1>1, StatementNow DEF DoneStatement
<1>5. PICK x \in ItemType : Waits(x, "dowhile", n) /\ Opens(H, c, c.at, n.body, x)
  BY <1>3, <1>4 DEF WroteDoWhile
<1>6. n.body \in Statement
  BY <1>3, StatementParts
<1>7. PointOf(x) = "dotest" /\ x.node = n /\ "dotest" \in RestPoints
  BY <1>5 DEF Waits, PointOf, RestPoints
<1>8. Stands(H, unit, c.at, r, Then(n.body, "dotest", n) \o Suffix(rest, 2))
  BY <1>3, <1>5, <1>6, <1>7, OpensOn
<1>9. Unfolded = Then(n.body, "dotest", n) \o Suffix(rest, 2)
  BY <1>2, RestIsTyped DEF Unfolded
<1> QED BY <1>8, <1>9, AgreesThere

LEMMA TryRuns ==
  ASSUME NEW H, NEW unit, NEW o, NEW offs, NEW c, NEW r, NEW b, Runs(H, unit, o, offs, c, r, rest), Now = "try"
  PROVE  Agrees(H, unit, o, c.at, r, b, Unfolded)
<1>1. Now \in Kinds
  BY DEF Kinds
<1>2. PICK n : n = rest[1].node
  OBVIOUS
<1>3. n \in Statement /\ n = TopItem(c).node /\ n.kind = "try" /\ TopItem(c).at # "epilogue"
  BY <1>1, <1>2, StatementNow, NowFacts
<1>4. WroteTry(H, c)
  BY <1>1, StatementNow DEF DoneStatement
<1>5. PICK x \in ItemType : Waits(x, "catch", n) /\ x.clause = 0 /\ Opens(H, c, c.at, n.body, x)
  BY <1>3, <1>4 DEF WroteTry
<1>6. n.body \in Statement
  BY <1>3, StatementParts
<1>7. PointOf(x) = "handler" /\ x.node = n /\ "handler" \in RestPoints
  BY <1>5 DEF Waits, PointOf, RestPoints
<1>8. Stands(H, unit, c.at, r, Then(n.body, "handler", n) \o Suffix(rest, 2))
  BY <1>3, <1>5, <1>6, <1>7, OpensOn
<1>9. Unfolded = Then(n.body, "handler", n) \o Suffix(rest, 2)
  BY <1>2, RestIsTyped DEF Unfolded
<1> QED BY <1>8, <1>9, AgreesThere

-----------------------------------------------------------------------------
(* The innermost of some points on the stack, and of the items.            *)
LEMMA FirstIs ==
  ASSUME Len(rest) \in Nat, DOMAIN rest = 1..Len(rest), NEW P, NEW i, FirstAt(rest, P, i)
  PROVE  First(P) = i
<1> DEFINE Q(k) == /\ k > 0 => rest[k].at \in P
                   /\ k = 0 => \A j \in DOMAIN rest : rest[j].at \notin P
                   /\ \A j \in 1..(k - 1) : rest[j].at \notin P
<1>1. i \in 1..Len(rest) /\ rest[i].at \in P /\ \A j \in 1..(i - 1) : rest[j].at \notin P
  BY DEF FirstAt
<1>2. i \in 0..Len(rest) /\ Q(i)
  BY <1>1
<1>3. First(P) = CHOOSE k \in 0..Len(rest) : Q(k)
  BY DEF First
<1>4. ASSUME NEW k \in 0..Len(rest), Q(k)
      PROVE  k = i
  BY <1>1, <1>4
<1> HIDE DEF Q
<1>5. First(P) \in 0..Len(rest) /\ Q(First(P))
  BY <1>2, <1>3
<1> QED BY <1>4, <1>5

LEMMA FirstNone ==
  ASSUME Len(rest) \in Nat, DOMAIN rest = 1..Len(rest), NEW P, \A j \in 1..Len(rest) : rest[j].at \notin P
  PROVE  First(P) = 0
<1> DEFINE Q(k) == /\ k > 0 => rest[k].at \in P
                   /\ k = 0 => \A j \in DOMAIN rest : rest[j].at \notin P
                   /\ \A j \in 1..(k - 1) : rest[j].at \notin P
<1>1. 0 \in 0..Len(rest) /\ Q(0)
  OBVIOUS
<1>2. First(P) = CHOOSE k \in 0..Len(rest) : Q(k)
  BY DEF First
<1>3. ASSUME NEW k \in 0..Len(rest), Q(k)
      PROVE  k = 0
  BY <1>3
<1> HIDE DEF Q
<1>4. First(P) \in 0..Len(rest) /\ Q(First(P))
  BY <1>1, <1>2
<1> QED BY <1>3, <1>4

LEMMA PointsAlike ==
  ASSUME NEW H, NEW unit, NEW o, NEW offs, NEW c, NEW r, NEW s, Runs(H, unit, o, offs, c, r, s)
  PROVE  /\ Len(s) \in Nat /\ DOMAIN s = 1..Len(s) /\ Len(c.todo) \in Nat \ {0} /\ Len(c.todo) <= Len(s)
         /\ \A i \in 1..Len(c.todo) :
              /\ s[i].at = PointOf(c.todo[i]) /\ (s[i].at # "join" => s[i].node = c.todo[i].node)
              /\ c.todo[i].at \in Points
              /\ c.todo[i].at = "epilogue" <=> i = Len(c.todo)
<1>1. /\ s \in Seq(RestType) /\ Len(s) \in Nat /\ Len(c.todo) \in Nat \ {0} /\ Len(c.todo) <= Len(s)
      /\ \A i \in 1..Len(c.todo) : Means(c.todo[i], s[i])
      /\ \A i \in 1..Len(c.todo) : c.todo[i] \in ItemType /\ (c.todo[i].at = "epilogue" <=> i = Len(c.todo))
  BY RunsFacts
<1>2. DOMAIN s = 1..Len(s)
  BY <1>1, LenProperties
<1>3. \A i \in 1..Len(c.todo) : c.todo[i].at \in Points
  BY <1>1 DEF ItemType
<1>4. \A i \in 1..Len(c.todo) : s[i].at = PointOf(c.todo[i]) /\ (s[i].at # "join" => s[i].node = c.todo[i].node)
  BY <1>1 DEF Means
<1> QED BY <1>1, <1>2, <1>3, <1>4

LEMMA PointIs ==
  ASSUME NEW x, x.at \in Points
  PROVE  /\ PointOf(x) \in {"loop", "dotest"} <=> x.at \in {"while", "step", "dowhile"}
         /\ PointOf(x) = "handler" <=> (x.at = "catch" /\ x.clause = 0)
         /\ PointOf(x) = "frame" <=> x.at = "epilogue"
<1>1. CASE x.at = "statement"
  BY <1>1 DEF PointOf
<1>2. CASE x.at \in {"else", "endif"}
  BY <1>2 DEF PointOf
<1>3. CASE x.at \in {"while", "step"}
  BY <1>3 DEF PointOf
<1>4. CASE x.at = "dowhile" \/ x.at = "for" \/ x.at = "epilogue"
  BY <1>4 DEF PointOf
<1>5. CASE x.at = "catch"
  <2>1. CASE x.clause = 0
    BY <1>5, <2>1 DEF PointOf
  <2>2. CASE x.clause # 0
    BY <1>5, <2>2 DEF PointOf
  <2> QED BY <2>1, <2>2
<1> QED BY <1>1, <1>2, <1>3, <1>4, <1>5 DEF Points

LEMMA FrameFirst ==
  ASSUME NEW H, NEW unit, NEW o, NEW offs, NEW c, NEW r, Runs(H, unit, o, offs, c, r, rest)
  PROVE  First({"frame"}) = Len(c.todo)
<1>1. PICK n : n = Len(c.todo)
  OBVIOUS
<1>2. n \in 1..Len(rest) /\ \A j \in 1..n : j \in 1..Len(c.todo)
  BY <1>1, PointsAlike
<1>3. \A j \in 1..n : rest[j].at = "frame" <=> j = n
  BY <1>1, <1>2, PointsAlike, PointIs
<1>4. FirstAt(rest, {"frame"}, n)
  BY <1>2, <1>3, PointsAlike DEF FirstAt
<1> QED BY <1>1, <1>4, PointsAlike, FirstIs

LEMMA LoopFirst ==
  ASSUME NEW H, NEW unit, NEW o, NEW offs, NEW c, NEW r, Runs(H, unit, o, offs, c, r, rest),
         NEW i, FirstAt(c.todo, LoopPoints, i), c.todo[i].at # "for"
  PROVE  InLoop = i /\ i \in 1..Len(c.todo) /\ c.todo[i].at \in {"while", "step", "dowhile"}
<1>1. i \in 1..Len(c.todo) /\ c.todo[i].at \in LoopPoints /\ \A j \in 1..(i - 1) : c.todo[j].at \notin LoopPoints
  BY DEF FirstAt
<1>2. c.todo[i].at \in {"while", "step", "dowhile"}
  BY <1>1 DEF LoopPoints
<1>3. i \in 1..Len(rest) /\ \A j \in 1..(i - 1) : j \in 1..Len(c.todo)
  BY <1>1, PointsAlike
<1>4. rest[i].at \in {"loop", "dotest"}
  BY <1>1, <1>2, PointsAlike, PointIs
<1>5. \A j \in 1..(i - 1) : rest[j].at \notin {"loop", "dotest"}
  <2> SUFFICES ASSUME NEW j \in 1..(i - 1) PROVE rest[j].at \notin {"loop", "dotest"}
    OBVIOUS
  <2>1. c.todo[j].at \notin {"while", "step", "dowhile"}
    BY <1>1 DEF LoopPoints
  <2> QED BY <1>3, <2>1, PointsAlike, PointIs
<1>6. FirstAt(rest, {"loop", "dotest"}, i)
  BY <1>3, <1>4, <1>5 DEF FirstAt
<1>7. InLoop = i
  BY <1>6, PointsAlike, FirstIs DEF InLoop
<1> QED BY <1>1, <1>2, <1>7

LEMMA HandlerFirst ==
  ASSUME NEW H, NEW unit, NEW o, NEW offs, NEW c, NEW r, Runs(H, unit, o, offs, c, r, rest),
         NEW i, FirstAt(c.todo, {"catch"}, i), c.todo[i].clause = 0
  PROVE  First({"handler"}) = i /\ i \in 1..Len(c.todo) /\ c.todo[i].at = "catch" /\ rest[i].node = c.todo[i].node
<1>1. i \in 1..Len(c.todo) /\ c.todo[i].at = "catch" /\ \A j \in 1..(i - 1) : c.todo[j].at # "catch"
  BY DEF FirstAt
<1>2. i \in 1..Len(rest) /\ \A j \in 1..(i - 1) : j \in 1..Len(c.todo)
  BY <1>1, PointsAlike
<1>3. rest[i].at = "handler" /\ rest[i].node = c.todo[i].node
  <2>1. rest[i].at = "handler"
    BY <1>1, PointsAlike, PointIs
  <2> QED BY <1>1, <2>1, PointsAlike
<1>4. \A j \in 1..(i - 1) : rest[j].at # "handler"
  BY <1>1, <1>2, PointsAlike, PointIs
<1>5. FirstAt(rest, {"handler"}, i)
  BY <1>2, <1>3, <1>4 DEF FirstAt
<1> QED BY <1>1, <1>3, <1>5, PointsAlike, FirstIs

LEMMA HandlerNone ==
  ASSUME NEW H, NEW unit, NEW o, NEW offs, NEW c, NEW r, Runs(H, unit, o, offs, c, r, rest),
         \A i \in 1..Len(c.todo) : c.todo[i].at # "catch",
         First({"handler"}) = 0 \/ First({"handler"}) < First({"frame"})
  PROVE  First({"handler"}) = 0
<1>1. \A i \in 1..Len(c.todo) : rest[i].at # "handler"
  BY PointsAlike, PointIs
<1>2. CASE \A j \in 1..Len(rest) : rest[j].at \notin {"handler"}
  BY <1>2, PointsAlike, FirstNone
<1>3. CASE \E j \in 1..Len(rest) : rest[j].at \in {"handler"}
  <2>1. PICK i \in 1..Len(rest) : FirstAt(rest, {"handler"}, i)
    BY <1>3, PointsAlike, FirstThere
  <2>2. First({"handler"}) = i /\ rest[i].at = "handler"
    <3>1. First({"handler"}) = i
      BY <2>1, PointsAlike, FirstIs
    <3>2. rest[i].at = "handler"
      BY <2>1 DEF FirstAt
    <3> QED BY <3>1, <3>2
  <2>3. First({"frame"}) = Len(c.todo) /\ Len(c.todo) \in Nat
    BY FrameFirst, PointsAlike
  <2>4. ~(i \in 1..Len(c.todo))
    BY <1>1, <2>2
  <2> QED BY <2>2, <2>3, <2>4
<1> QED BY <1>2, <1>3

-----------------------------------------------------------------------------
(* Jumps out of statements.                                                *)
LEMMA ExitRuns ==
  ASSUME NEW H, NEW unit, NEW o, NEW offs, NEW c, NEW r, NEW b, NEW s, Runs(H, unit, o, offs, c, r, s),
         NEW i \in 1..Len(c.todo), c.todo[i].at \in Waiting, Jumps(o, c.at, "always", Local(c.todo[i].end))
  PROVE  Agrees(H, unit, o, c.at, r, b, Suffix(s, i + 1))
<1>1. PICK q \in Nat : LabelAt(o, c.todo[i].end, q) /\ Stands(H, unit, q, r, Suffix(s, i + 1))
  BY ExitAt
<1>2. q \in Int /\ c.at \in Int /\ Jumped(o, offs)
  BY RunsFacts
<1> QED BY <1>1, <1>2, AgreesJump

LEMMA BreakRuns ==
  ASSUME NEW H, NEW unit, NEW o, NEW offs, NEW c, NEW r, NEW b, Runs(H, unit, o, offs, c, r, rest), Now = "break"
  PROVE  Agrees(H, unit, o, c.at, r, b, Unfolded)
<1>1. Now \in Kinds
  BY DEF Kinds
<1>2. WroteBreak(o, c)
  BY <1>1, StatementNow DEF DoneStatement
<1>3. PICK i \in 1..Len(c.todo) :
        /\ FirstAt(c.todo, LoopPoints, i) /\ c.todo[i].at # "for"
        /\ Jumps(o, c.at, "always", Local(c.todo[i].end))
  BY <1>2 DEF WroteBreak
<1>4. InLoop = i /\ c.todo[i].at \in Waiting
  <2>1. InLoop = i /\ c.todo[i].at \in {"while", "step", "dowhile"}
    BY <1>3, LoopFirst
  <2> QED BY <2>1 DEF Waiting
<1>5. Unfolded = Suffix(rest, i + 1)
  BY <1>4 DEF Unfolded, From, Suffix
<1> QED BY <1>3, <1>4, <1>5, ExitRuns

LEMMA ContinueRuns ==
  ASSUME NEW H, NEW unit, NEW o, NEW offs, NEW c, NEW r, NEW b, Runs(H, unit, o, offs, c, r, rest),
         Now = "continue"
  PROVE  Agrees(H, unit, o, c.at, r, b, Unfolded)
<1>1. Now \in Kinds
  BY DEF Kinds
<1>2. WroteContinue(o, c)
  BY <1>1, StatementNow DEF DoneStatement
<1>3. PICK i \in 1..Len(c.todo) :
        /\ FirstAt(c.todo, LoopPoints, i) /\ c.todo[i].at # "for"
        /\ Jumps(o, c.at, "always", Local(IF c.todo[i].at = "while" THEN c.todo[i].head ELSE c.todo[i].step))
  BY <1>2 DEF WroteContinue
<1>4. InLoop = i /\ c.todo[i].at \in {"while", "step", "dowhile"}
  BY <1>3, LoopFirst
<1>5. Unfolded = Suffix(rest, i)
  BY <1>4 DEF Unfolded, From, Suffix
<1>6. PICK e : Runs(H, unit, o, offs, e, r, Suffix(rest, i)) /\ TopItem(e) = c.todo[i]
  BY ItemPlace
<1>7. c.at \in Int /\ e.at \in Int /\ Jumped(o, offs) /\ DoneItem(unit, o, H, e) /\ Stands(H, unit, e.at, r, Suffix(rest, i))
  <2>1. c.at \in Int /\ Jumped(o, offs)
    BY RunsFacts
  <2>2. e.at \in Int /\ Done(unit, o, H, e) /\ e \in H /\ Alive(H, unit, e, r, Suffix(rest, i))
    BY <1>6, RunsFacts
  <2> QED BY <2>1, <2>2, StandsIn DEF Done
<1>8. CASE c.todo[i].at = "while"
  <2>1. PICK q \in Nat : LabelAt(o, c.todo[i].head, q)
    <3>1. Born(o, H, c, i)
      BY DEF Runs, Finished
    <3> QED BY <1>8, <3>1 DEF Born, BornWith
  <2>2. Jumps(o, e.at, "always", Local(c.todo[i].head))
    BY <1>6, <1>7, <1>8 DEF DoneItem, TopIs, WroteEndWhile
  <2>3. Jumps(o, c.at, "always", Local(c.todo[i].head))
    BY <1>3, <1>8
  <2>4. PICK n : n = c.todo[i].head
    OBVIOUS
  <2>5. Meets(o.code, <<c.at, r, b>>, <<q, r, b>>) /\ Meets(o.code, <<e.at, r, b>>, <<q, r, b>>)
    BY <1>7, <2>1, <2>2, <2>3, <2>4, JumpGoes
  <2>6. Meets(o.code, <<c.at, r, b>>, <<e.at, r, b>>)
    BY <2>5, MeetsBack, MeetsThen
  <2> QED BY <1>5, <1>7, <2>6, AgreesThere, AgreesAfter
<1>9. CASE c.todo[i].at \in {"step", "dowhile"}
  <2>1. LabelAt(o, c.todo[i].step, e.at)
    BY <1>6, <1>7, <1>9 DEF DoneItem, TopIs, WroteEndFor, WroteEndDoWhile
  <2>2. Jumps(o, c.at, "always", Local(c.todo[i].step))
    BY <1>3, <1>9
  <2> QED BY <1>5, <1>7, <2>1, <2>2, AgreesJump
<1> QED BY <1>4, <1>8, <1>9

LEMMA ThrowRuns ==
  ASSUME NEW H, NEW unit, NEW o, NEW offs, NEW c, NEW r, NEW b, Runs(H, unit, o, offs, c, r, rest),
         Now = "throw", First({"handler"}) # 0, First({"handler"}) < First({"frame"})
  PROVE  Agrees(H, unit, o, c.at, r, b, Unfolded)
<1>1. Now \in Kinds
  BY DEF Kinds
<1>2. WroteThrow(o, c)
  BY <1>1, StatementNow DEF DoneStatement
<1>3. ~ \A i \in 1..Len(c.todo) : c.todo[i].at # "catch"
  BY HandlerNone
<1>4. PICK i \in 1..Len(c.todo) :
        /\ FirstAt(c.todo, {"catch"}, i) /\ c.todo[i].clause = 0
        /\ Jumps(o, c.at, "always", Local(c.todo[i].head))
  BY <1>2, <1>3 DEF WroteThrow
<1>5. First({"handler"}) = i /\ c.todo[i].at = "catch" /\ rest[i].node = c.todo[i].node
  BY <1>4, HandlerFirst
<1>6. PICK e : /\ Runs(H, unit, o, offs, e, r, Suffix(rest, i)) /\ TopItem(e) = c.todo[i]
               /\ Suffix(Suffix(rest, i), 2) = Suffix(rest, i + 1)
  BY ItemPlace
<1>7. c.at \in Int /\ Jumped(o, offs)
  BY RunsFacts
<1>8. e.at \in Nat /\ Done(unit, o, H, e) /\ TopItem(e) \in ItemType /\ ItemRight(TopItem(e)) /\ TopItem(e).node \in Statement
  BY <1>6, RunsFacts
<1>9. PICK x : x = TopItem(e)
  OBVIOUS
<1>10. x.at = "catch" /\ x.clause = 0 /\ x = c.todo[i] /\ TopItem(e).at # "epilogue"
  BY <1>4, <1>5, <1>6, <1>9
<1>11. /\ LabelAt(o, x.head, e.at + 1)
       /\ 0 = Len(x.node.clauses) => Leaves(H, e, e.at + 1)
       /\ 0 # Len(x.node.clauses) =>
            \E y \in ItemType : Waits(y, "catch", x.node) /\ y.clause = 1 /\ Opens(H, e, e.at + 1, x.node.clauses[1], y)
  BY <1>8, <1>9, <1>10 DEF Done, DoneItem, TopIs, WroteCatch
<1>12. x.node \in Statement /\ x.node.clauses \in Seq(Statement)
  BY <1>8, <1>9, <1>10, StatementParts DEF ItemRight
<1>13. Unfolded = (IF x.node.clauses = << >> THEN << >> ELSE Then(x.node.clauses[1], "join", x.node)) \o Suffix(rest, i + 1)
  BY <1>5, <1>10 DEF Unfolded, From, Suffix
<1>14. Stands(H, unit, e.at + 1, r, Unfolded)
  <2>1. CASE x.node.clauses = << >>
    <3>1. Leaves(H, e, e.at + 1)
      BY <1>11, <2>1, EmptySeq
    <3>2. Stands(H, unit, e.at + 1, r, Suffix(rest, i + 1))
      BY <1>6, <1>10, <3>1, LeavesOn
    <3>3. << >> \o Suffix(rest, i + 1) = Suffix(rest, i + 1)
      <4>1. PICK k : k = i + 1
        OBVIOUS
      <4>2. k \in 1..(Len(rest) + 1) /\ rest \in Seq(RestType)
        BY <4>1, RunsFacts
      <4>3. Suffix(rest, k) \in Seq(RestType)
        BY <4>2, SuffixTyped
      <4> QED BY <4>1, <4>3, ConcatEmptySeq
    <3> QED BY <1>13, <2>1, <3>2, <3>3
  <2>2. CASE x.node.clauses # << >>
    <3>1. Len(x.node.clauses) # 0 /\ x.node.clauses[1] \in Statement
      BY <1>12, <2>2, EmptySeq, FirstOf
    <3>2. PICK y \in ItemType : /\ Waits(y, "catch", x.node) /\ y.clause = 1
                                /\ Opens(H, e, e.at + 1, x.node.clauses[1], y)
      BY <1>11, <3>1
    <3>3. PointOf(y) = "join" /\ "join" \in RestPoints
      BY <3>2 DEF Waits, PointOf, RestPoints
    <3>4. Stands(H, unit, e.at + 1, r, Then(x.node.clauses[1], "join", x.node) \o Suffix(Suffix(rest, i), 2))
      BY <1>6, <1>10, <1>12, <3>1, <3>2, <3>3, OpensOn
    <3> QED BY <1>6, <1>13, <2>2, <3>4
  <2> QED BY <2>1, <2>2
<1>15. LabelAt(o, c.todo[i].head, e.at + 1) /\ e.at + 1 \in Int
  BY <1>8, <1>10, <1>11
<1> QED BY <1>4, <1>7, <1>14, <1>15, AgreesJump

LEMMA ReturnRuns ==
  ASSUME NEW H, NEW unit, NEW o, NEW offs, NEW c, NEW r, NEW b, Runs(H, unit, o, offs, c, r, rest), Now = "return"
  PROVE  Agrees(H, unit, o, c.at, r, b, Unfolded)
<1>1. Now \in Kinds
  BY DEF Kinds
<1>2. WroteReturn(unit, o, c)
  BY <1>1, StatementNow DEF DoneStatement
<1>3. PICK i : i = Len(c.todo)
  OBVIOUS
<1>4. /\ i \in 1..Len(c.todo) /\ c.todo[i].at = "epilogue" /\ c.at \in Int /\ Jumped(o, offs)
      /\ Latest(unit, c.fn) /\ First({"frame"}) = i
  BY <1>3, RunsFacts, FrameFirst
<1>5. PICK e : Runs(H, unit, o, offs, e, r, Suffix(rest, i)) /\ TopItem(e) = c.todo[i] /\ e.fn = c.fn
  BY <1>4, ItemPlace
<1>6. Done(unit, o, H, e) /\ e \in H /\ Alive(H, unit, e, r, Suffix(rest, i)) /\ e.at \in Int
  BY <1>5, RunsFacts
<1>7. WroteEpilogue(unit, o, e)
  BY <1>4, <1>5, <1>6 DEF Done, DoneItem, TopIs
<1>8. PICK t : t = Epilogue(unit[c.fn].name)
  OBVIOUS
<1>9. t \in DOMAIN o.labels /\ o.labels[t] = e.at /\ Jumps(o, c.at, "always", t)
  BY <1>2, <1>4, <1>5, <1>7, <1>8 DEF WroteEpilogue, WroteReturn
<1>10. o.code[c.at] = [op |-> "always", arg |-> e.at - c.at]
  BY <1>4, <1>9 DEF Jumped
<1>11. Meets(o.code, <<c.at, r, b>>, <<e.at, r, b>>)
  BY <1>4, <1>6, <1>10, Branches0
<1>12. Unfolded = Suffix(rest, i)
  BY <1>4 DEF Unfolded, From, Suffix
<1> QED BY <1>6, <1>11, <1>12, StandsIn, AgreesThere, AgreesAfter

-----------------------------------------------------------------------------
(* The ends of branches, clauses and loops.                                *)
LEMMA JoinRuns ==
  ASSUME NEW H, NEW unit, NEW o, NEW offs, NEW c, NEW r, NEW b, Runs(H, unit, o, offs, c, r, rest),
         Now \in {"join", "handler"}
  PROVE  Agrees(H, unit, o, c.at, r, b, Unfolded)
<1>1. Unfolded = Suffix(rest, 2)
  BY RestIsTyped DEF Unfolded
<1>2. TopIs(c, "else") \/ TopIs(c, "endif") \/ TopIs(c, "catch")
  BY NowFacts
<1>3. DoneItem(unit, o, H, c) /\ Len(c.todo) \in Nat \ {0} /\ TopItem(c) = c.todo[1]
  BY RunsFacts DEF Done
<1>4. CASE TopIs(c, "endif")
  <2>1. Leaves(H, c, c.at) /\ TopItem(c).at # "epilogue"
    BY <1>3, <1>4 DEF DoneItem, WroteEndIf, TopIs
  <2> QED BY <1>1, <2>1, LeavesOn, AgreesThere
<1>5. CASE TopIs(c, "else") \/ TopIs(c, "catch")
  <2>1. PICK i : i = 1
    OBVIOUS
  <2>2. i \in 1..Len(c.todo) /\ c.todo[i] = TopItem(c) /\ c.todo[i].at \in Waiting
    BY <1>3, <1>5, <2>1 DEF TopIs, Waiting
  <2>3. Jumps(o, c.at, "always", Local(c.todo[i].end))
    BY <1>3, <1>5, <2>2 DEF DoneItem, WroteElse, WroteCatch
  <2>4. Agrees(H, unit, o, c.at, r, b, Suffix(rest, i + 1))
    BY <2>2, <2>3, ExitRuns
  <2> QED BY <1>1, <2>1, <2>4
<1> QED BY <1>2, <1>4, <1>5

LEMMA ForTestRuns ==
  ASSUME NEW H, NEW unit, NEW o, NEW offs, NEW c, NEW r, NEW b, Runs(H, unit, o, offs, c, r, rest),
         Now = "fortest", rest[1].node.test = << >>
  PROVE  Agrees(H, unit, o, c.at, r, b, Unfolded)
<1>1. PICK n : n = rest[1].node
  OBVIOUS
<1>2. TopIs(c, "for") /\ n = TopItem(c).node /\ n \in Statement /\ TopItem(c).at # "epilogue"
  BY <1>1, NowFacts DEF TopIs
<1>3. DoneItem(unit, o, H, c) /\ ItemRight(TopItem(c))
  BY RunsFacts DEF Done
<1>4. PICK y \in ItemType : Waits(y, "step", n) /\ Opens(H, c, c.at, n.body, y)
  BY <1>1, <1>2, <1>3 DEF DoneItem, WroteForTest
<1>5. n.body \in Statement
  BY <1>2, <1>3, StatementParts DEF ItemRight, TopIs
<1>6. PointOf(y) = "loop" /\ y.node = n /\ "loop" \in RestPoints
  BY <1>4 DEF Waits, PointOf, RestPoints
<1>7. Stands(H, unit, c.at, r, Then(n.body, "loop", n) \o Suffix(rest, 2))
  BY <1>2, <1>4, <1>5, <1>6, OpensOn
<1>8. Unfolded = Then(n.body, "loop", n) \o Suffix(rest, 2)
  BY <1>1, RestIsTyped DEF Unfolded
<1> QED BY <1>7, <1>8, AgreesThere

(* Back to the beginning of a loop.                                        *)
LEMMA BackTo ==
  ASSUME NEW H, NEW unit, NEW o, NEW offs, NEW c, NEW r, NEW s, Runs(H, unit, o, offs, c, r, s),
         TopItem(c).at # "epilogue", NEW q, NEW d \in ItemType, Comes(H, q, <<d>> \o Suffix(c.todo, 2), c.fn),
         NEW y \in RestType, Means(d, y)
  PROVE  Stands(H, unit, q, r, <<y>> \o Suffix(s, 2))
<1>1. PICK g, N : g = <<d>> /\ N = <<y>>
  OBVIOUS
<1>2. g \in Seq(ItemType) /\ N \in Seq(RestType) /\ Len(g) = 1 /\ Len(N) = 1 /\ g[1] = d /\ N[1] = y
  BY <1>1
<1>3. Meant(g, N)
  <2>1. \A i \in 1..1 : i = 1
    OBVIOUS
  <2> QED BY <1>2, <2>1 DEF Meant
<1>4. PICK j : j = 2
  OBVIOUS
<1>5. j \in 1..Len(c.todo) /\ Comes(H, q, g \o Suffix(c.todo, j), c.fn) /\ Len(g) = Len(N)
  BY <1>1, <1>2, <1>4, RunsFacts
<1>6. Stands(H, unit, q, r, N \o Suffix(s, j))
  BY <1>2, <1>3, <1>5, RunsFacts, Nests
<1> QED BY <1>1, <1>4, <1>6

LEMMA HeadAt ==
  ASSUME NEW H, NEW unit, NEW o, NEW offs, NEW c, NEW r, NEW s, Runs(H, unit, o, offs, c, r, s),
         TopItem(c).at \in {"while", "dowhile", "step"},
         NEW at, at = IF TopItem(c).at = "step" THEN "fortest" ELSE "statement"
  PROVE  \E q \in Nat : /\ LabelAt(o, TopItem(c).head, q)
                        /\ Stands(H, unit, q, r, <<Todo(at, TopItem(c).node)>> \o Suffix(s, 2))
<1>1. PICK i : i = 1
  OBVIOUS
<1>2. PICK x : x = TopItem(c)
  OBVIOUS
<1>3. i \in 1..Len(c.todo) /\ x = c.todo[i] /\ x.node \in Statement /\ x.at # "epilogue"
  BY <1>1, <1>2, RunsFacts
<1>4. BornWith(o, H, x, Suffix(c.todo, 2), c.fn)
  <2>1. Born(o, H, c, i)
    BY <1>3 DEF Runs, Finished
  <2> QED BY <1>1, <1>3, <2>1 DEF Born
<1>5. PICK y : y = Todo(at, x.node)
  OBVIOUS
<1>6. y \in RestType /\ y.at = at /\ y.node = x.node
  BY <1>3, <1>5 DEF Todo, RestType, RestPoints
<1>7. CASE x.at \in {"while", "dowhile"}
  <2>1. PICK q \in Nat, d \in ItemType :
          Stmt(d, x.node) /\ LabelAt(o, x.head, q) /\ Comes(H, q, <<d>> \o Suffix(c.todo, 2), c.fn)
    BY <1>4, <1>7 DEF BornWith
  <2>2. at = "statement"
    BY <1>2, <1>7
  <2>3. Means(d, y)
    BY <1>6, <2>1, <2>2 DEF Means, Stmt, PointOf
  <2>4. Stands(H, unit, q, r, <<y>> \o Suffix(s, 2))
    BY <1>2, <1>3, <1>6, <2>1, <2>3, BackTo
  <2> QED BY <1>2, <1>5, <2>1, <2>4
<1>8. CASE x.at = "step"
  <2>1. PICK q \in Nat, d \in ItemType :
          Waits(d, "for", x.node) /\ LabelAt(o, x.head, q) /\ Comes(H, q, <<d>> \o Suffix(c.todo, 2), c.fn)
    BY <1>4, <1>8 DEF BornWith, Waits
  <2>2. at = "fortest"
    BY <1>2, <1>8
  <2>3. Means(d, y)
    BY <1>6, <2>1, <2>2 DEF Means, Waits, PointOf
  <2>4. Stands(H, unit, q, r, <<y>> \o Suffix(s, 2))
    BY <1>2, <1>3, <1>6, <2>1, <2>3, BackTo
  <2> QED BY <1>2, <1>5, <2>1, <2>4
<1> QED BY <1>2, <1>7, <1>8

LEMMA LoopKind ==
  ASSUME NEW H, NEW unit, NEW o, NEW offs, NEW c, NEW r, NEW s, Runs(H, unit, o, offs, c, r, s)
  PROVE  /\ TopIs(c, "while") => TopItem(c).node.kind = "while"
         /\ TopIs(c, "step") => TopItem(c).node.kind = "for"
<1>1. PICK i : i = 1
  OBVIOUS
<1>2. i \in 1..Len(c.todo) /\ TopItem(c) = c.todo[i] /\ ItemRight(TopItem(c))
  BY <1>1, RunsFacts
<1>3. Born(o, H, c, i)
  BY <1>2 DEF Runs, Finished
<1> QED BY <1>2, <1>3 DEF Born, BornWith, TopIs, ItemRight

LEMMA LoopRuns ==
  ASSUME NEW H, NEW unit, NEW o, NEW offs, NEW c, NEW r, NEW b, Runs(H, unit, o, offs, c, r, rest),
         Now = "loop", rest[1].node.kind = "for" => rest[1].node.step = << >>
  PROVE  Agrees(H, unit, o, c.at, r, b, Unfolded)
<1>1. PICK n : n = rest[1].node
  OBVIOUS
<1>2. (TopIs(c, "while") \/ TopIs(c, "step")) /\ n = TopItem(c).node
  BY <1>1, NowFacts
<1>3. DoneItem(unit, o, H, c) /\ c.at \in Int /\ Jumped(o, offs)
  BY RunsFacts DEF Done
<1>4. CASE TopIs(c, "while")
  <2>1. n.kind = "while" /\ Jumps(o, c.at, "always", Local(TopItem(c).head))
    BY <1>2, <1>3, <1>4, LoopKind DEF DoneItem, WroteEndWhile
  <2>2. PICK q \in Nat : /\ LabelAt(o, TopItem(c).head, q)
                         /\ Stands(H, unit, q, r, <<Todo("statement", n)>> \o Suffix(rest, 2))
    <3>1. TopItem(c).at \in {"while", "dowhile", "step"} /\ TopItem(c).at # "step"
      BY <1>4 DEF TopIs
    <3> QED BY <1>2, <3>1, HeadAt
  <2>3. Unfolded = <<Todo("statement", n)>> \o Suffix(rest, 2)
    BY <1>1, <2>1, RestIsTyped DEF Unfolded
  <2>4. q \in Int
    OBVIOUS
  <2> QED BY <1>3, <2>1, <2>2, <2>3, <2>4, AgreesJump
<1>5. CASE TopIs(c, "step")
  <2>1. n.kind = "for" /\ n.step = << >>
    BY <1>1, <1>2, <1>5, LoopKind
  <2>2. Jumps(o, c.at, "always", Local(TopItem(c).head))
    BY <1>2, <1>3, <1>5, <2>1 DEF DoneItem, WroteEndFor
  <2>3. PICK q \in Nat : /\ LabelAt(o, TopItem(c).head, q)
                         /\ Stands(H, unit, q, r, <<Todo("fortest", n)>> \o Suffix(rest, 2))
    <3>1. TopItem(c).at \in {"while", "dowhile", "step"} /\ TopItem(c).at = "step"
      BY <1>5 DEF TopIs
    <3> QED BY <1>2, <3>1, HeadAt
  <2>4. Unfolded = <<Todo("fortest", n)>> \o Suffix(rest, 2)
    BY <1>1, <2>1, RestIsTyped DEF Unfolded
  <2>5. q \in Int
    OBVIOUS
  <2> QED BY <1>3, <2>2, <2>3, <2>4, <2>5, AgreesJump
<1> QED BY <1>2, <1>4, <1>5

-----------------------------------------------------------------------------
(* Calls and returns.                                                      *)
LEMMA FrameRuns ==
  ASSUME NEW H, NEW unit, NEW o, NEW offs, NEW c, NEW r, NEW b, Runs(H, unit, o, offs, c, r, rest),
         Now = "frame", Len(rest) # 1
  PROVE  Agrees(H, unit, o, c.at, r, b, Unfolded)
<1>1. Unfolded = Suffix(rest, 2)
  BY RestIsTyped DEF Unfolded
<1>2. TopIs(c, "epilogue") /\ Frame(H, unit, c, r, rest) /\ Len(c.todo) \in Nat \ {0}
  BY NowFacts, RunsFacts DEF Alive
<1>3. Len(c.todo) = 1
  <2>1. PICK i : i = 1
    OBVIOUS
  <2>2. i \in 1..Len(c.todo) /\ c.todo[i].at = "epilogue"
    BY <1>2, <2>1, RunsFacts DEF TopIs
  <2>3. c.todo[i].at = "epilogue" <=> i = Len(c.todo)
    BY <2>2, RunsFacts
  <2> QED BY <2>1, <2>2, <2>3
<1>4. r \in Seq(Int) /\ r # << >> /\ Stands(H, unit, Head(r), Tail(r), Suffix(rest, 2))
  BY <1>2, <1>3 DEF Frame
<1>5. o.code[c.at].op = "leave"
  <2>1. DoneItem(unit, o, H, c)
    BY RunsFacts DEF Done
  <2>2. WroteEpilogue(unit, o, c)
    BY <1>2, <2>1 DEF DoneItem
  <2> QED BY <2>2 DEF WroteEpilogue, Emitted
<1>6. Meets(o.code, <<c.at, r, b>>, <<Head(r), Tail(r), b>>)
  BY <1>4, <1>5, ReturnsTo
<1> QED BY <1>1, <1>4, <1>6, AgreesThere, AgreesAfter

(* A function that is called begins, and all of its statements are left.   *)
LEMMA CalledIs ==
  ASSUME IsProgram(program), NEW name, NEW k \in DOMAIN program, program[k].name = name
  PROVE  \E f \in 1..Len(program) :
           /\ program[f].name = name /\ Latest(program, f)
           /\ Called(name) = Append(Each(program[f].body.body), Todo("frame", program[f].body))
<1>1. program \in Seq(FunctionType) /\ DOMAIN program = 1..Len(program) /\ Len(program) \in Nat
  BY LenProperties DEF IsProgram
<1> DEFINE S == {m \in 0..Len(program) : \E i \in DOMAIN program : program[i].name = name /\ m = Len(program) - i}
           P(i) == program[i].name = name /\ Defined(i)
<1>2. \E i \in DOMAIN program : P(i)
  <2>1. S \subseteq Nat /\ Len(program) - k \in S
    BY <1>1
  <2>2. PICK m \in S : \A h \in S : m <= h
    BY <2>1, Least
  <2>3. PICK i \in DOMAIN program : program[i].name = name /\ m = Len(program) - i
    BY <2>2
  <2>4. ASSUME NEW j \in DOMAIN program, program[j].name = program[i].name
        PROVE  j <= i
    <3>1. Len(program) - j \in S
      BY <1>1, <2>3, <2>4
    <3>2. m <= Len(program) - j
      BY <2>2, <3>1
    <3> QED BY <1>1, <2>3, <3>2
  <2> QED BY <2>3, <2>4 DEF Defined
<1>3. PICK f : f = CHOOSE i \in DOMAIN program : P(i)
  OBVIOUS
<1>4. f \in DOMAIN program /\ P(f)
  BY <1>2, <1>3
<1>5. Latest(program, f)
  BY <1>4 DEF Defined, Latest
<1>6. Called(name) = Append(Each(program[f].body.body), Todo("frame", program[f].body))
  BY <1>3 DEF Called
<1> QED BY <1>1, <1>4, <1>5, <1>6

(* The place behind the prologue, and the stack of the call.               *)
Begins(H, unit, o, p, name, N) ==
  \E d \in H :
    /\ d.at = p + 1 /\ Emitted(o, p, "enter", 0) /\ Latest(unit, d.fn)
    /\ d.todo \in Seq(ItemType) /\ Len(d.todo) \in Nat \ {0}
    /\ N \in Seq(RestType) /\ Len(N) = Len(d.todo) /\ Meant(d.todo, N)

LEMMA CalledBegins ==
  ASSUME NEW H, NEW o, Finished(H, program, o, offsets), NEW name \in DOMAIN offsets
  PROVE  Begins(H, program, o, offsets[name], name, Called(name)) /\ offsets[name] \in Nat
<1>1. /\ IsProgram(program) /\ DOMAIN offsets = {program[i].name : i \in DOMAIN program} /\ offsets[name] \in Nat
      /\ \A f \in 1..Len(program) : Latest(program, f) => Entered(o, H, program, f, offsets[program[f].name])
  BY DEF Finished
<1>2. PICK k \in DOMAIN program : program[k].name = name
  BY <1>1
<1>3. PICK f \in 1..Len(program) :
        /\ program[f].name = name /\ Latest(program, f)
        /\ Called(name) = Append(Each(program[f].body.body), Todo("frame", program[f].body))
  BY <1>1, <1>2, CalledIs
<1>4. PICK body, p : body = program[f].body /\ p = offsets[name]
  OBVIOUS
<1>5. body \in Statement /\ body.body \in Seq(Statement)
  <2>1. program[f] \in FunctionType /\ body.kind = "block"
    BY <1>1, <1>4, LenProperties, ElementOfSeq DEF IsProgram
  <2>2. body \in Statement
    BY <1>4, <2>1 DEF FunctionType
  <2> QED BY <2>1, <2>2, StatementParts
<1>6. PICK g \in Seq(ItemType), e \in ItemType :
        /\ Emitted(o, p, "enter", 0)
        /\ Stmts(g, body.body) /\ Waits(e, "epilogue", body) /\ Comes(H, p + 1, g \o <<e>>, f)
  BY <1>1, <1>3, <1>4 DEF Entered
<1>7. PICK N, y : N = Each(body.body) /\ y = Todo("frame", body)
  OBVIOUS
<1>8. N \in Seq(RestType) /\ Len(g) = Len(N) /\ Meant(g, N)
  BY <1>5, <1>6, <1>7, EachMeant
<1>9. y \in RestType /\ Means(e, y)
  <2>1. y.at = "frame" /\ y.node = body /\ y \in RestType
    BY <1>5, <1>7 DEF Todo, RestType, RestPoints
  <2> QED BY <1>6, <2>1 DEF Means, Waits, PointOf
<1>10. PICK k1, M : k1 = g \o <<e>> /\ M = Append(N, y)
  OBVIOUS
<1>11. k1 \in Seq(ItemType) /\ M \in Seq(RestType) /\ Len(k1) = Len(M) /\ Meant(k1, M) /\ Len(k1) \in Nat \ {0}
  <2>1. PICK h : h = Len(g)
    OBVIOUS
  <2>2. h \in Nat /\ Len(N) = h
    BY <1>8, <2>1, LenProperties
  <2>3. /\ k1 \in Seq(ItemType) /\ Len(k1) = h + 1 /\ (\A i \in 1..h : k1[i] = g[i]) /\ k1[h + 1] = e
    BY <1>10, <2>1, <2>2
  <2>4. /\ M \in Seq(RestType) /\ Len(M) = h + 1 /\ (\A i \in 1..h : M[i] = N[i]) /\ M[h + 1] = y
    BY <1>8, <1>9, <1>10, <2>2, AppendProperties
  <2>5. ASSUME NEW i \in 1..(h + 1)
        PROVE  Means(k1[i], M[i])
    <3>1. i \in 1..h \/ i = h + 1
      BY <2>2
    <3> QED BY <1>8, <1>9, <2>1, <2>3, <2>4, <3>1 DEF Meant
  <2> QED BY <2>2, <2>3, <2>4, <2>5 DEF Meant
<1>12. [at |-> p + 1, todo |-> k1, fn |-> f] \in H
  BY <1>6, <1>10 DEF Comes
<1>13. PICK d \in H : d.at = p + 1 /\ d.todo = k1 /\ d.fn = f
  BY <1>12
<1>14. Called(name) = M
  BY <1>3, <1>4, <1>7, <1>10
<1> QED BY <1>1, <1>3, <1>4, <1>6, <1>11, <1>13, <1>14 DEF Begins

LEMMA EntersOn ==
  ASSUME NEW H, NEW unit, NEW o, NEW p \in Nat, NEW name, NEW N, Begins(H, unit, o, p, name, N), NEW b
  PROVE  Agrees(H, unit, o, p, << >>, b, N)
<1>1. PICK d \in H :
        /\ d.at = p + 1 /\ Emitted(o, p, "enter", 0) /\ Latest(unit, d.fn)
        /\ d.todo \in Seq(ItemType) /\ Len(d.todo) \in Nat \ {0}
        /\ N \in Seq(RestType) /\ Len(N) = Len(d.todo) /\ Meant(d.todo, N)
  BY DEF Begins
<1>2. d.todo # << >>
  BY <1>1, EmptySeq
<1>3. Frame(H, unit, d, << >>, N)
  BY <1>1 DEF Frame
<1>4. Alive(H, unit, d, << >>, N)
  BY <1>1, <1>2, <1>3 DEF Alive, Beside
<1>5. Stands(H, unit, d.at, << >>, N)
  BY <1>4, StandsIn
<1>6. Meets(o.code, <<p, << >>, b>>, <<p + 1, << >>, b>>)
  <2>1. o.code[p].op \in {"enter", "nop"} /\ p \in Int
    BY <1>1 DEF Emitted
  <2> QED BY <2>1, Falls
<1>7. PICK q : q = d.at
  OBVIOUS
<1>8. q = p + 1 /\ Agrees(H, unit, o, q, << >>, b, N)
  BY <1>1, <1>5, <1>7, AgreesThere
<1>9. Meets(o.code, <<p, << >>, b>>, <<q, << >>, b>>)
  BY <1>6, <1>8
<1> QED BY <1>8, <1>9, AgreesAfter

LEMMA CallRuns ==
  ASSUME NEW H, NEW o, NEW c, NEW r, NEW b, Runs(H, program, o, offsets, c, r, rest), Now = "call"
  PROVE  Agrees(H, program, o, c.at, r, b, Unfolded)
<1>1. Now \in Kinds
  BY DEF Kinds
<1>2. PICK n : n = rest[1].node
  OBVIOUS
<1>3. n = TopItem(c).node /\ TopItem(c).at # "epilogue" /\ WroteCall(o, H, c)
  BY <1>1, <1>2, StatementNow DEF DoneStatement
<1>4. /\ Finished(H, program, o, offsets) /\ Jumped(o, offsets) /\ c \in H /\ Frame(H, program, c, r, rest)
      /\ c.at \in Nat /\ rest \in Seq(RestType) /\ Len(rest) \in Nat \ {0}
  BY RunsFacts DEF Alive
<1>5. Jumps(o, c.at, "call", Function(n.name)) /\ Leaves(H, c, c.at + 1)
  BY <1>3 DEF WroteCall
<1>6. PICK p : p = offsets[n.name]
  OBVIOUS
<1>7. n.name \in DOMAIN offsets /\ p \in Int /\ o.code[c.at] = [op |-> "call", arg |-> p - c.at]
  BY <1>4, <1>5, <1>6 DEF Jumped
<1>8. PICK N, k : N = Called(n.name) /\ k = <<c.at + 1>> \o r
  OBVIOUS
<1>9. Begins(H, program, o, p, n.name, N) /\ p \in Nat
  BY <1>4, <1>6, <1>7, <1>8, CalledBegins
<1>10. PICK d \in H :
        /\ d.at = p + 1 /\ Emitted(o, p, "enter", 0) /\ Latest(program, d.fn)
        /\ d.todo \in Seq(ItemType) /\ Len(d.todo) \in Nat \ {0}
        /\ N \in Seq(RestType) /\ Len(N) = Len(d.todo) /\ Meant(d.todo, N)
  BY <1>9 DEF Begins
<1>11. Stands(H, program, c.at + 1, r, Suffix(rest, 2))
  BY <1>3, <1>5, LeavesOn
<1>12. k \in Seq(Int) /\ k # << >> /\ Head(k) = c.at + 1 /\ Tail(k) = r
  <2>1. r \in Seq(Int)
    <3>1. << >> \in Seq(Int)
      BY EmptySeq
    <3> QED BY <1>4, <3>1 DEF Frame
  <2>2. PICK a \in Int : a = c.at + 1
    BY <1>4
  <2>3. k = <<a>> \o r
    BY <1>8, <2>2
  <2> QED BY <2>1, <2>2, <2>3
<1>13. PICK j, z : j = 2 /\ z = N \o Suffix(rest, j)
  OBVIOUS
<1>14. j \in 1..(Len(rest) + 1)
  BY <1>4, <1>13
<1>15. Fronted(RestType, rest, N, j, z)
  BY <1>4, <1>10, <1>13, <1>14, SuffixWithFront
<1>16. /\ z \in Seq(RestType) /\ Len(z) = Len(N) + Len(rest) - 1 /\ Len(N) \in Nat
       /\ \A i \in 1..Len(N) : z[i] = N[i]
  BY <1>13, <1>15 DEF Fronted
<1>17. Suffix(z, Len(d.todo) + 1) = Suffix(rest, 2)
  <2>1. j \in j..(Len(rest) + 1) /\ Len(N) + j - j + 1 = Len(d.todo) + 1
    BY <1>4, <1>10, <1>13, <1>14
  <2>2. Suffix(z, Len(N) + j - j + 1) = Suffix(rest, j)
    BY <1>15, <2>1 DEF Fronted
  <2> QED BY <1>13, <2>1, <2>2
<1>18. Meant(d.todo, z)
  <2>1. Len(d.todo) <= Len(z)
    BY <1>4, <1>10, <1>16
  <2> QED BY <1>10, <1>16, <2>1 DEF Meant
<1>19. Frame(H, program, d, k, z)
  BY <1>11, <1>12, <1>17 DEF Frame
<1>20. d.todo # << >>
  BY <1>10, EmptySeq
<1>21. Alive(H, program, d, k, z)
  BY <1>10, <1>16, <1>18, <1>19, <1>20 DEF Alive, Beside
<1>22. Stands(H, program, p + 1, k, z)
  BY <1>10, <1>21, StandsIn
<1>23. Meets(o.code, <<c.at, r, b>>, <<p, k, b>>)
  <2>1. PICK a, code : a = c.at /\ code = o.code
    OBVIOUS
  <2>2. a \in Int /\ code[a] = [op |-> "call", arg |-> p - a] /\ k = <<a + 1>> \o r
    BY <1>4, <1>7, <1>8, <2>1
  <2>3. Meets(code, <<a, r, b>>, <<p, k, b>>)
    <3>1. Quiet(code, a, r)
      BY <2>2 DEF Quiet
    <3>2. Moved(code, a, r, b) = <<p, k, b>>
      BY <1>7, <2>2 DEF Moved
    <3> QED BY <3>1, <3>2, MeetsMoved
  <2> QED BY <2>1, <2>3
<1>24. Meets(o.code, <<p, k, b>>, <<p + 1, k, b>>)
  <2>1. o.code[p].op \in {"enter", "nop"}
    BY <1>10 DEF Emitted
  <2> QED BY <1>7, <2>1, Falls
<1>25. Unfolded = N \o Suffix(rest, 2)
  BY <1>2, <1>8, RestIsTyped DEF Unfolded
<1>26. Unfolded = z
  BY <1>13, <1>25
<1> QED BY <1>22, <1>23, <1>24, <1>26, AgreesThere, AgreesAfter

-----------------------------------------------------------------------------
(* Every step that the meaning takes by itself.                            *)
LEMMA SilentRuns ==
  ASSUME NEW H, NEW o, NEW c, NEW r, NEW b, Runs(H, program, o, offsets, c, r, rest),
         Meaning.op = "silent",
         Now = "throw" => First({"handler"}) = 0 \/ First({"handler"}) < First({"frame"})
  PROVE  Agrees(H, program, o, c.at, r, b, Unfolded)
<1>1. Now \in Kinds \cup Others
  BY NowFacts
<1>2. ~(Now \in {"act", "declare"})
  BY DEF Meaning
<1>3. ~(Now \in {"if", "while", "dotest"})
  BY DEF Meaning
<1>4. CASE Now = "loop"
  <2>1. ~(rest[1].node.kind = "for" /\ rest[1].node.step # << >>)
    BY <1>4 DEF Meaning
  <2> QED BY <1>4, <2>1, LoopRuns
<1>5. CASE Now = "fortest"
  <2>1. ~(rest[1].node.test # << >>)
    BY <1>5 DEF Meaning
  <2> QED BY <1>5, <2>1, ForTestRuns
<1>6. CASE Now = "throw"
  <2>1. First({"handler"}) # 0
    BY <1>6 DEF Meaning
  <2> QED BY <1>6, <2>1, ThrowRuns
<1>7. CASE Now = "frame"
  <2>1. Len(rest) # 1
    BY <1>7 DEF Meaning
  <2> QED BY <1>7, <2>1, FrameRuns
<1>8. CASE Now \in {"join", "handler"}
  BY <1>8, JoinRuns
<1>9. CASE Now = "block"
  BY <1>9, BlockRuns
<1>10. CASE Now = "call"
  BY <1>10, CallRuns
<1>11. CASE Now = "return"
  BY <1>11, ReturnRuns
<1>12. CASE Now = "break"
  BY <1>12, BreakRuns
<1>13. CASE Now = "continue"
  BY <1>13, ContinueRuns
<1>14. CASE Now = "dowhile"
  BY <1>14, DoWhileRuns
<1>15. CASE Now = "for"
  BY <1>15, ForRuns
<1>16. CASE Now = "try"
  BY <1>16, TryRuns
<1>17. CASE Now = "other"
  BY <1>17, NothingRuns
<1> QED
  BY <1>1, <1>2, <1>3, <1>4, <1>5, <1>6, <1>7, <1>8, <1>9, <1>10, <1>11, <1>12, <1>13, <1>14, <1>15, <1>16, <1>17
     DEF Kinds, Others

-----------------------------------------------------------------------------
(* What shows.                                                             *)
ShownAt(code, p, r) ==
  CASE code[p].op \in {"act", "test"} -> code[p]
    [] code[p].op = "always" /\ code[p].arg = 0 -> [op |-> "trap", arg |-> 0]
    [] code[p].op = "leave" /\ r = << >> -> [op |-> "end", arg |-> 0]
    [] OTHER -> [op |-> "silent", arg |-> 0]

LEMMA ShownHere == Shown = ShownAt(out.code, pc, returns)
BY DEF Shown, ShownAt, Instr

LEMMA SilentQuiet ==
  ASSUME NEW code, NEW p, NEW r
  PROVE  ShownAt(code, p, r).op = "silent" <=> Quiet(code, p, r)
<1>1. CASE code[p].op \in {"act", "test"}
  BY <1>1 DEF ShownAt, Quiet
<1>2. CASE code[p].op = "always" /\ code[p].arg = 0
  BY <1>2 DEF ShownAt, Quiet
<1>3. CASE code[p].op = "leave" /\ r = << >>
  BY <1>3 DEF ShownAt, Quiet
<1>4. CASE Quiet(code, p, r)
  BY <1>4 DEF ShownAt, Quiet
<1> QED BY <1>1, <1>2, <1>3, <1>4 DEF Quiet

(* The code at the place shows this.                                       *)
Shows(code, p, r, op, arg) == ~Quiet(code, p, r) /\ ShownAt(code, p, r) = [op |-> op, arg |-> arg]

LEMMA EmittedShows ==
  ASSUME NEW o, NEW p, NEW r, NEW op \in {"act", "test"}, NEW arg, Emitted(o, p, op, arg)
  PROVE  Shows(o.code, p, r, op, arg)
<1>1. o.code[p] = [op |-> op, arg |-> arg]
  BY DEF Emitted
<1>2. o.code[p].op = op
  BY <1>1
<1> QED BY <1>1, <1>2 DEF Shows, Quiet, ShownAt

LEMMA ShowsAlike ==
  ASSUME NEW H, NEW unit, NEW o, NEW offs, NEW c, NEW r, Runs(H, unit, o, offs, c, r, rest),
         Meaning.op # "silent"
  PROVE  Shows(o.code, c.at, r, Meaning.op, Meaning.arg) /\ Meaning = [op |-> Meaning.op, arg |-> Meaning.arg]
<1>1. PICK n : n = rest[1].node
  OBVIOUS
<1>2. DoneItem(unit, o, H, c) /\ DoneStatement(unit, o, H, c) /\ c.at \in Int /\ Jumped(o, offs) /\ ItemRight(TopItem(c))
  BY RunsFacts DEF Done
<1>3. CASE Now \in {"act", "declare"}
  <2>1. Now \in Kinds
    BY <1>3 DEF Kinds
  <2>2. Emitted(o, c.at, "act", n.id)
    BY <1>1, <1>3, <2>1, StatementNow DEF DoneStatement, TopKind, WroteAct
  <2>3. Meaning = [op |-> "act", arg |-> n.id]
    BY <1>1, <1>3 DEF Meaning
  <2>4. Meaning.op = "act" /\ Meaning.arg = n.id
    BY <2>3
  <2> QED BY <2>2, <2>3, <2>4, EmittedShows
<1>4. CASE Now = "loop"
  <2>1. n.kind = "for" /\ n.step # << >> /\ Meaning = [op |-> "act", arg |-> n.step[1]]
    BY <1>1, <1>4 DEF Meaning
  <2>2. (TopIs(c, "while") \/ TopIs(c, "step")) /\ n = TopItem(c).node
    BY <1>1, <1>4, NowFacts
  <2>3. TopIs(c, "step")
    BY <2>1, <2>2, LoopKind
  <2>4. Emitted(o, c.at, "act", n.step[1])
    BY <1>2, <2>1, <2>2, <2>3 DEF DoneItem, WroteEndFor
  <2>5. Meaning.op = "act" /\ Meaning.arg = n.step[1]
    BY <2>1
  <2> QED BY <2>1, <2>4, <2>5, EmittedShows
<1>5. CASE Now \in {"if", "while"}
  <2>1. Now \in Kinds
    BY <1>5 DEF Kinds
  <2>2. Emitted(o, c.at, "test", n.id)
    BY <1>1, <1>5, <2>1, StatementNow DEF DoneStatement, TopKind, WroteIf, WroteWhile
  <2>3. Meaning = [op |-> "test", arg |-> n.id]
    BY <1>1, <1>5 DEF Meaning
  <2>4. Meaning.op = "test" /\ Meaning.arg = n.id
    BY <2>3
  <2> QED BY <2>2, <2>3, <2>4, EmittedShows
<1>6. CASE Now = "dotest"
  <2>1. TopIs(c, "dowhile") /\ n = TopItem(c).node
    BY <1>1, <1>6, NowFacts
  <2>2. Emitted(o, c.at, "test", n.id)
    BY <1>2, <2>1 DEF DoneItem, WroteEndDoWhile
  <2>3. Meaning = [op |-> "test", arg |-> n.id]
    BY <1>1, <1>6 DEF Meaning
  <2>4. Meaning.op = "test" /\ Meaning.arg = n.id
    BY <2>3
  <2> QED BY <2>2, <2>3, <2>4, EmittedShows
<1>7. CASE Now = "fortest"
  <2>1. TopIs(c, "for") /\ n = TopItem(c).node
    BY <1>1, <1>7, NowFacts
  <2>2. n.test # << >> /\ Meaning = [op |-> "test", arg |-> n.test[1]]
    BY <1>1, <1>7 DEF Meaning
  <2>3. Emitted(o, c.at, "test", n.test[1])
    BY <1>2, <2>1, <2>2 DEF DoneItem, WroteForTest
  <2>4. Meaning.op = "test" /\ Meaning.arg = n.test[1]
    BY <2>2
  <2> QED BY <2>2, <2>3, <2>4, EmittedShows
<1>8. CASE Now = "throw"
  <2>1. First({"handler"}) = 0 /\ Meaning = [op |-> "trap", arg |-> 0]
    BY <1>8 DEF Meaning
  <2>2. Now \in Kinds
    BY <1>8 DEF Kinds
  <2>3. WroteThrow(o, c)
    BY <1>8, <2>2, StatementNow DEF DoneStatement
  <2>4. ~ \E i \in 1..Len(c.todo) : FirstAt(c.todo, {"catch"}, i) /\ c.todo[i].clause = 0
    <3> SUFFICES ASSUME NEW i \in 1..Len(c.todo), FirstAt(c.todo, {"catch"}, i), c.todo[i].clause = 0
                 PROVE  FALSE
      OBVIOUS
    <3>1. First({"handler"}) = i
      BY HandlerFirst
    <3> QED BY <2>1, <3>1
  <2>5. PICK m \in Nat : Jumps(o, c.at, "always", Local(m)) /\ LabelAt(o, m, c.at)
    BY <2>3, <2>4 DEF WroteThrow
  <2>6. o.code[c.at] = [op |-> "always", arg |-> c.at - c.at]
    BY <1>2, <2>5 DEF Jumped, LabelAt
  <2>7. o.code[c.at].op = "always" /\ o.code[c.at].arg = 0
    BY <1>2, <2>6
  <2>8. Shows(o.code, c.at, r, "trap", 0)
    BY <2>7 DEF Shows, Quiet, ShownAt
  <2>9. Meaning.op = "trap" /\ Meaning.arg = 0
    BY <2>1
  <2> QED BY <2>1, <2>8, <2>9
<1>9. CASE Now = "frame"
  <2>1. Len(rest) = 1 /\ Meaning = [op |-> "end", arg |-> 0]
    BY <1>9 DEF Meaning
  <2>2. TopIs(c, "epilogue") /\ Frame(H, unit, c, r, rest) /\ Len(c.todo) = 1 /\ rest \in Seq(RestType)
    BY <1>9, <2>1, NowFacts, RunsFacts DEF Alive
  <2>3. o.code[c.at].op = "leave"
    BY <1>2, <2>2 DEF DoneItem, WroteEpilogue, Emitted
  <2>4. r = << >>
    <3> SUFFICES ASSUME Stands(H, unit, Head(r), Tail(r), Suffix(rest, 2))
                 PROVE  FALSE
      BY <2>2 DEF Frame
    <3>1. PICK d \in H : Alive(H, unit, d, Tail(r), Suffix(rest, 2))
      BY StandsOut
    <3>2. Runs(H, unit, o, offs, d, Tail(r), Suffix(rest, 2))
      BY <3>1, RunsFacts DEF Runs
    <3>3. Len(d.todo) \in Nat \ {0} /\ Len(Suffix(rest, 2)) \in Nat /\ Len(d.todo) <= Len(Suffix(rest, 2))
      BY <3>2, RunsFacts
    <3>4. Len(Suffix(rest, 2)) = 0
      <4>1. PICK i : i = 2
        OBVIOUS
      <4>2. i \in 1..(Len(rest) + 1)
        BY <2>1, <4>1
      <4>3. PICK z : z = Suffix(rest, i)
        OBVIOUS
      <4>4. Suffixes(RestType, rest, i, z)
        BY <2>2, <4>2, <4>3, SuffixesTyped
      <4> QED BY <2>1, <4>1, <4>3, <4>4 DEF Suffixes
    <3> QED BY <3>3, <3>4
  <2>5. Shows(o.code, c.at, r, "end", 0)
    BY <2>3, <2>4 DEF Shows, Quiet, ShownAt
  <2>6. Meaning.op = "end" /\ Meaning.arg = 0
    BY <2>1
  <2> QED BY <2>1, <2>5, <2>6
<1> QED BY <1>3, <1>4, <1>5, <1>6, <1>7, <1>8, <1>9 DEF Meaning

-----------------------------------------------------------------------------
(* Steps that the code and the meaning take together.                      *)
LEMMA TestAgrees ==
  ASSUME NEW H, NEW unit, NEW o, NEW offs, Jumped(o, offs), NEW when \in {"equal", "notequal"},
         NEW n, NEW p \in Int, NEW q \in Int, NEW k, k = p + 1,
         Jumps(o, p, when, Local(n)), LabelAt(o, n, q), NEW b \in BOOLEAN, NEW r, NEW s,
         (b <=> when = "notequal") => Stands(H, unit, q, r, s),
         ~(b <=> when = "notequal") => Stands(H, unit, k, r, s)
  PROVE  Agrees(H, unit, o, p, r, b, s)
<1>1. o.code[p] = [op |-> when, arg |-> q - p]
  BY DEF Jumped, LabelAt
<1>2. PICK m : m = IF b <=> (when = "notequal") THEN q ELSE p + 1
  OBVIOUS
<1>3. Meets(o.code, <<p, r, b>>, <<m, r, b>>)
  BY <1>1, <1>2, BranchesIf
<1>4. Stands(H, unit, m, r, s)
  BY <1>2
<1> QED BY <1>3, <1>4, AgreesThere, AgreesAfter

LEMMA ActTaken ==
  ASSUME NEW H, NEW unit, NEW o, NEW offs, NEW c, NEW r, Runs(H, unit, o, offs, c, r, rest),
         Now \in {"act", "declare"}, NEW b \in BOOLEAN, NEW k, k = c.at + 1
  PROVE  Agrees(H, unit, o, k, r, b, Taken(b))
<1>1. Now \in Kinds
  BY DEF Kinds
<1>2. Leaves(H, c, c.at + 1) /\ TopItem(c).at # "epilogue"
  BY <1>1, StatementNow DEF DoneStatement, TopKind, WroteAct
<1>3. Taken(b) = Suffix(rest, 2)
  BY RestIsTyped DEF Taken
<1>4. Stands(H, unit, k, r, Suffix(rest, 2))
  BY <1>2, LeavesOn
<1> QED BY <1>3, <1>4, AgreesThere

LEMMA StepTaken ==
  ASSUME NEW H, NEW unit, NEW o, NEW offs, NEW c, NEW r, Runs(H, unit, o, offs, c, r, rest),
         Now = "loop", rest[1].node.kind = "for", rest[1].node.step # << >>,
         NEW b \in BOOLEAN, NEW k, k = c.at + 1
  PROVE  Agrees(H, unit, o, k, r, b, Taken(b))
<1>1. PICK n : n = rest[1].node
  OBVIOUS
<1>2. (TopIs(c, "while") \/ TopIs(c, "step")) /\ n = TopItem(c).node
  BY <1>1, NowFacts
<1>3. TopIs(c, "step")
  BY <1>1, <1>2, LoopKind
<1>4. DoneItem(unit, o, H, c) /\ k \in Int /\ Jumped(o, offs)
  BY RunsFacts DEF Done
<1>5. Jumps(o, k, "always", Local(TopItem(c).head))
  BY <1>1, <1>2, <1>3, <1>4 DEF DoneItem, WroteEndFor
<1>6. PICK q \in Nat : /\ LabelAt(o, TopItem(c).head, q)
                       /\ Stands(H, unit, q, r, <<Todo("fortest", n)>> \o Suffix(rest, 2))
  <2>1. TopItem(c).at \in {"while", "dowhile", "step"} /\ TopItem(c).at = "step"
    BY <1>3 DEF TopIs
  <2> QED BY <1>2, <2>1, HeadAt
<1>7. Taken(b) = <<Todo("fortest", n)>> \o Suffix(rest, 2)
  BY <1>1, RestIsTyped DEF Taken
<1>8. q \in Int
  OBVIOUS
<1> QED BY <1>4, <1>5, <1>6, <1>7, <1>8, AgreesJump

LEMMA DoTestTaken ==
  ASSUME NEW H, NEW unit, NEW o, NEW offs, NEW c, NEW r, Runs(H, unit, o, offs, c, r, rest),
         Now = "dotest", NEW b \in BOOLEAN, NEW k, k = c.at + 1
  PROVE  Agrees(H, unit, o, k, r, b, Taken(b))
<1>1. PICK n : n = rest[1].node
  OBVIOUS
<1>2. TopIs(c, "dowhile") /\ n = TopItem(c).node
  BY <1>1, NowFacts
<1>3. DoneItem(unit, o, H, c) /\ c.at \in Int /\ k \in Int /\ Jumped(o, offs)
  BY RunsFacts DEF Done
<1>4. Jumps(o, k, "notequal", Local(TopItem(c).head)) /\ Leaves(H, c, c.at + 2)
  BY <1>2, <1>3 DEF DoneItem, WroteEndDoWhile
<1>5. PICK q \in Nat : /\ LabelAt(o, TopItem(c).head, q)
                       /\ Stands(H, unit, q, r, <<Todo("statement", n)>> \o Suffix(rest, 2))
  <2>1. TopItem(c).at \in {"while", "dowhile", "step"} /\ TopItem(c).at # "step"
    BY <1>2 DEF TopIs
  <2> QED BY <1>2, <2>1, HeadAt
<1>6. PICK m : m = k + 1
  OBVIOUS
<1>7. Stands(H, unit, m, r, Suffix(rest, 2))
  <2>1. m = c.at + 2 /\ TopItem(c).at # "epilogue"
    BY <1>2, <1>3, <1>6 DEF TopIs
  <2> QED BY <1>4, <2>1, LeavesOn
<1>8. /\ b => Taken(b) = <<Todo("statement", n)>> \o Suffix(rest, 2)
      /\ ~b => Taken(b) = Suffix(rest, 2)
  BY <1>1, RestIsTyped DEF Taken
<1>9. PICK s, h, when : s = Taken(b) /\ h = TopItem(c).head /\ when = "notequal"
  OBVIOUS
<1>10. /\ (b <=> when = "notequal") => Stands(H, unit, q, r, s)
       /\ ~(b <=> when = "notequal") => Stands(H, unit, m, r, s)
  BY <1>5, <1>7, <1>8, <1>9
<1>11. when \in {"equal", "notequal"} /\ q \in Int /\ Jumps(o, k, when, Local(h)) /\ LabelAt(o, h, q)
  BY <1>4, <1>5, <1>9
<1> QED BY <1>3, <1>6, <1>9, <1>10, <1>11, TestAgrees

LEMMA ForTestTaken ==
  ASSUME NEW H, NEW unit, NEW o, NEW offs, NEW c, NEW r, Runs(H, unit, o, offs, c, r, rest),
         Now = "fortest", rest[1].node.test # << >>, NEW b \in BOOLEAN, NEW k, k = c.at + 1
  PROVE  Agrees(H, unit, o, k, r, b, Taken(b))
<1>1. PICK n : n = rest[1].node
  OBVIOUS
<1>2. TopIs(c, "for") /\ n = TopItem(c).node /\ n \in Statement /\ TopItem(c).at # "epilogue"
  BY <1>1, NowFacts DEF TopIs
<1>3. /\ DoneItem(unit, o, H, c) /\ c.at \in Int /\ k \in Int /\ Jumped(o, offs) /\ ItemRight(TopItem(c))
      /\ Len(c.todo) \in Nat \ {0} /\ TopItem(c) = c.todo[1]
  BY RunsFacts DEF Done
<1>4. PICK y \in ItemType :
        /\ Waits(y, "step", n) /\ Jumps(o, k, "equal", Local(TopItem(c).end)) /\ Opens(H, c, c.at + 2, n.body, y)
  BY <1>1, <1>2, <1>3 DEF DoneItem, WroteForTest
<1>5. n.body \in Statement
  BY <1>2, <1>3, StatementParts DEF ItemRight, TopIs
<1>6. PICK m : m = k + 1
  OBVIOUS
<1>7. Stands(H, unit, m, r, Then(n.body, "loop", n) \o Suffix(rest, 2))
  <2>1. PointOf(y) = "loop" /\ y.node = n /\ "loop" \in RestPoints
    BY <1>4 DEF Waits, PointOf, RestPoints
  <2>2. m = c.at + 2
    BY <1>3, <1>6
  <2> QED BY <1>2, <1>4, <1>5, <2>1, <2>2, OpensOn
<1>8. PICK q \in Nat : LabelAt(o, TopItem(c).end, q) /\ Stands(H, unit, q, r, Suffix(rest, 2))
  <2>1. PICK i : i = 1
    OBVIOUS
  <2>2. i \in 1..Len(c.todo) /\ c.todo[i] = TopItem(c) /\ c.todo[i].at \in Waiting
    BY <1>2, <1>3, <2>1 DEF TopIs, Waiting
  <2>3. \E q \in Nat : LabelAt(o, c.todo[i].end, q) /\ Stands(H, unit, q, r, Suffix(rest, i + 1))
    BY <2>2, ExitAt
  <2> QED BY <2>1, <2>2, <2>3
<1>9. /\ b => Taken(b) = Then(n.body, "loop", n) \o Suffix(rest, 2)
      /\ ~b => Taken(b) = Suffix(rest, 2)
  BY <1>1, RestIsTyped DEF Taken
<1>10. PICK s, h, when : s = Taken(b) /\ h = TopItem(c).end /\ when = "equal"
  OBVIOUS
<1>11. /\ (b <=> when = "notequal") => Stands(H, unit, q, r, s)
       /\ ~(b <=> when = "notequal") => Stands(H, unit, m, r, s)
  BY <1>7, <1>8, <1>9, <1>10
<1>12. when \in {"equal", "notequal"} /\ q \in Int /\ Jumps(o, k, when, Local(h)) /\ LabelAt(o, h, q)
  BY <1>4, <1>8, <1>10
<1> QED BY <1>3, <1>6, <1>10, <1>11, <1>12, TestAgrees

LEMMA WhileTaken ==
  ASSUME NEW H, NEW unit, NEW o, NEW offs, NEW c, NEW r, Runs(H, unit, o, offs, c, r, rest),
         Now = "while", NEW b \in BOOLEAN, NEW k, k = c.at + 1
  PROVE  Agrees(H, unit, o, k, r, b, Taken(b))
<1>1. PICK n : n = rest[1].node
  OBVIOUS
<1>2. Now \in Kinds
  BY DEF Kinds
<1>3. n = TopItem(c).node /\ n \in Statement /\ n.kind = "while" /\ TopItem(c).at # "epilogue" /\ WroteWhile(o, H, c)
  BY <1>1, <1>2, StatementNow, NowFacts DEF DoneStatement
<1>4. c.at \in Int /\ k \in Int /\ Jumped(o, offs)
  BY RunsFacts
<1>5. PICK x \in ItemType :
        /\ Waits(x, "while", n) /\ Jumps(o, k, "equal", Local(x.end)) /\ Opens(H, c, c.at + 2, n.body, x)
  BY <1>3 DEF WroteWhile
<1>6. n.body \in Statement
  BY <1>3, StatementParts
<1>7. PICK m : m = k + 1
  OBVIOUS
<1>8. PointOf(x) = "loop" /\ x.node = n /\ "loop" \in RestPoints /\ x.at \in Waiting
  BY <1>5 DEF Waits, PointOf, RestPoints, Waiting
<1>9. m = c.at + 2
  BY <1>4, <1>7
<1>10. Stands(H, unit, m, r, Then(n.body, "loop", n) \o Suffix(rest, 2))
  BY <1>3, <1>5, <1>6, <1>8, <1>9, OpensOn
<1>11. PICK d, z : /\ Runs(H, unit, o, offs, d, r, z) /\ 2 \in 1..Len(d.todo) /\ d.todo[2] = x
                   /\ Suffix(z, 3) = Suffix(rest, 2)
  BY <1>3, <1>5, <1>6, <1>8, <1>9, OpensRuns
<1>12. PICK q \in Nat : LabelAt(o, x.end, q) /\ Stands(H, unit, q, r, Suffix(rest, 2))
  <2>1. PICK i : i = 2
    OBVIOUS
  <2>2. i \in 1..Len(d.todo) /\ d.todo[i] = x /\ d.todo[i].at \in Waiting
    BY <1>8, <1>11, <2>1
  <2>3. \E q \in Nat : LabelAt(o, d.todo[i].end, q) /\ Stands(H, unit, q, r, Suffix(z, i + 1))
    BY <1>11, <2>2, ExitAt
  <2> QED BY <1>11, <2>1, <2>2, <2>3
<1>13. /\ b => Taken(b) = Then(n.body, "loop", n) \o Suffix(rest, 2)
       /\ ~b => Taken(b) = Suffix(rest, 2)
  BY <1>1, RestIsTyped DEF Taken
<1>14. PICK s, h, when : s = Taken(b) /\ h = x.end /\ when = "equal"
  OBVIOUS
<1>15. /\ (b <=> when = "notequal") => Stands(H, unit, q, r, s)
       /\ ~(b <=> when = "notequal") => Stands(H, unit, m, r, s)
  BY <1>10, <1>12, <1>13, <1>14
<1>16. when \in {"equal", "notequal"} /\ q \in Int /\ Jumps(o, k, when, Local(h)) /\ LabelAt(o, h, q)
  BY <1>5, <1>12, <1>14
<1> QED BY <1>4, <1>7, <1>14, <1>15, <1>16, TestAgrees

LEMMA IfTaken ==
  ASSUME NEW H, NEW unit, NEW o, NEW offs, NEW c, NEW r, Runs(H, unit, o, offs, c, r, rest),
         Now = "if", NEW b \in BOOLEAN, NEW k, k = c.at + 1
  PROVE  Agrees(H, unit, o, k, r, b, Taken(b))
<1>1. PICK n : n = rest[1].node
  OBVIOUS
<1>2. Now \in Kinds
  BY DEF Kinds
<1>3. n = TopItem(c).node /\ n \in Statement /\ n.kind = "if" /\ TopItem(c).at # "epilogue" /\ WroteIf(o, H, c)
  BY <1>1, <1>2, StatementNow, NowFacts DEF DoneStatement
<1>4. c.at \in Int /\ k \in Int /\ Jumped(o, offs)
  BY RunsFacts
<1>5. PICK x \in ItemType :
        /\ Waits(x, IF n.otherwise = << >> THEN "endif" ELSE "else", n)
        /\ Jumps(o, k, "equal", Local(IF n.otherwise = << >> THEN x.end ELSE x.head))
        /\ Opens(H, c, c.at + 2, n.then, x)
  BY <1>3 DEF WroteIf
<1>6. n.then \in Statement /\ n.otherwise \in Seq(Statement)
  BY <1>3, StatementParts
<1>7. PICK m : m = k + 1
  OBVIOUS
<1>8. PointOf(x) = "join" /\ "join" \in RestPoints /\ x.at \in Waiting
  BY <1>5 DEF Waits, PointOf, RestPoints, Waiting
<1>9. m = c.at + 2
  BY <1>4, <1>7
<1>10. Stands(H, unit, m, r, Then(n.then, "join", n) \o Suffix(rest, 2))
  BY <1>3, <1>5, <1>6, <1>8, <1>9, OpensOn
<1>11. PICK d, z : /\ Runs(H, unit, o, offs, d, r, z) /\ 2 \in 1..Len(d.todo) /\ d.todo[2] = x
                   /\ Suffix(z, 3) = Suffix(rest, 2)
  BY <1>3, <1>5, <1>6, <1>8, <1>9, OpensRuns
<1>12. PICK i : i = 2
  OBVIOUS
<1>13. i \in 1..Len(d.todo) /\ d.todo[i] = x /\ d.todo[i].at \in Waiting /\ Suffix(z, i + 1) = Suffix(rest, 2)
  BY <1>8, <1>11, <1>12
<1>14. PICK s, h, when : /\ s = Taken(b) /\ h = IF n.otherwise = << >> THEN x.end ELSE x.head
                         /\ when = "equal"
  OBVIOUS
<1>15. b => s = Then(n.then, "join", n) \o Suffix(rest, 2)
  BY <1>1, <1>14, RestIsTyped DEF Taken
<1>16. PICK q \in Nat : LabelAt(o, h, q) /\ (~b => Stands(H, unit, q, r, s))
  <2>1. CASE n.otherwise = << >>
    <3>1. PICK q \in Nat : LabelAt(o, d.todo[i].end, q) /\ Stands(H, unit, q, r, Suffix(z, i + 1))
      BY <1>11, <1>13, ExitAt
    <3>2. ~b => s = Suffix(rest, 2)
      BY <1>1, <1>14, <2>1, RestIsTyped DEF Taken
    <3> QED BY <1>13, <1>14, <2>1, <3>1, <3>2
  <2>2. CASE n.otherwise # << >>
    <3>1. PICK e : /\ Runs(H, unit, o, offs, e, r, Suffix(z, i)) /\ TopItem(e) = x
                   /\ Suffix(Suffix(z, i), 2) = Suffix(rest, 2)
      BY <1>11, <1>13, ItemPlace
    <3>2. DoneItem(unit, o, H, e) /\ e.at \in Nat
      BY <3>1, RunsFacts DEF Done
    <3>3. x.at = "else" /\ x.node = n
      BY <1>5, <2>2 DEF Waits
    <3>4. PICK y \in ItemType :
            /\ Waits(y, "endif", n) /\ LabelAt(o, x.head, e.at + 1) /\ Opens(H, e, e.at + 1, n.otherwise[1], y)
      BY <3>1, <3>2, <3>3 DEF DoneItem, TopIs, WroteElse
    <3>5. PointOf(y) = "join" /\ n.otherwise[1] \in Statement /\ TopItem(e).at # "epilogue"
      BY <1>6, <2>2, <3>1, <3>3, <3>4, FirstOf DEF Waits, PointOf
    <3>6. Stands(H, unit, e.at + 1, r, Then(n.otherwise[1], "join", n) \o Suffix(Suffix(z, i), 2))
      BY <1>3, <1>8, <3>1, <3>4, <3>5, OpensOn
    <3>7. ~b => s = Then(n.otherwise[1], "join", n) \o Suffix(rest, 2)
      BY <1>1, <1>14, <2>2, RestIsTyped DEF Taken
    <3>8. e.at + 1 \in Nat
      BY <3>2
    <3> QED BY <1>14, <2>2, <3>1, <3>4, <3>6, <3>7, <3>8
  <2> QED BY <2>1, <2>2
<1>17. /\ (b <=> when = "notequal") => Stands(H, unit, q, r, s)
       /\ ~(b <=> when = "notequal") => Stands(H, unit, m, r, s)
  BY <1>10, <1>14, <1>15, <1>16
<1>18. when \in {"equal", "notequal"} /\ q \in Int /\ Jumps(o, k, when, Local(h)) /\ LabelAt(o, h, q)
  BY <1>5, <1>14, <1>16
<1> QED BY <1>4, <1>7, <1>14, <1>17, <1>18, TestAgrees

LEMMA TakenRuns ==
  ASSUME NEW H, NEW unit, NEW o, NEW offs, NEW c, NEW r, Runs(H, unit, o, offs, c, r, rest),
         Meaning.op \in {"act", "test"}, NEW b \in BOOLEAN, NEW k, k = c.at + 1
  PROVE  Agrees(H, unit, o, k, r, b, Taken(b))
<1>1. CASE Now \in {"act", "declare"}
  BY <1>1, ActTaken
<1>2. CASE Now = "loop" /\ rest[1].node.kind = "for" /\ rest[1].node.step # << >>
  BY <1>2, StepTaken
<1>3. CASE Now = "dotest"
  BY <1>3, DoTestTaken
<1>4. CASE Now = "fortest" /\ rest[1].node.test # << >>
  BY <1>4, ForTestTaken
<1>5. CASE Now = "while"
  BY <1>5, WhileTaken
<1>6. CASE Now = "if"
  BY <1>6, IfTaken
<1> QED BY <1>1, <1>2, <1>3, <1>4, <1>5, <1>6 DEF Meaning

-----------------------------------------------------------------------------
(* The machine and the meaning, side by side.                              *)
Ended == patched => \E H : Finished(H, program, out, offsets)

LEMMA EndedNow == GenInv => Ended
BY FinishedNow DEF GenInv, Ended

LEMMA ProgramStays ==
  ASSUME Next
  PROVE  program' = program
BY DEF Next, BeginFunction, EndFunction, ScanDeclaration, ScanStatement, PatchBranches,
       Statements, GenerateExpression, GenerateDeclaration, GenerateCall, GenerateReturn, GenerateBreak,
       GenerateContinue, GenerateThrow, GenerateNothing, GenerateBlock, Generated,
       Conditionals, GenerateIf, GenerateElse, EndIf, Nesting,
       Loops, GenerateWhile, EndWhile, GenerateDoWhile, EndDoWhile, GenerateFor, ForTest, EndFor,
       Handlers, GenerateTry, GenerateCatch

LEMMA RunsThere ==
  ASSUME NEW H, NEW unit, NEW o, NEW offs, NEW p, NEW r, NEW b, NEW s, Finished(H, unit, o, offs),
         Agrees(H, unit, o, p, r, b, s)
  PROVE  \E c, w : Runs(H, unit, o, offs, c, w, s) /\ Meets(o.code, <<p, r, b>>, <<c.at, w, b>>)
<1>1. PICK q, w : Stands(H, unit, q, w, s) /\ Meets(o.code, <<p, r, b>>, <<q, w, b>>)
  BY DEF Agrees
<1>2. PICK c \in H : q = c.at /\ Alive(H, unit, c, w, s)
  BY <1>1, StandsOut
<1>3. Runs(H, unit, o, offs, c, w, s)
  BY <1>2 DEF Runs
<1> QED BY <1>1, <1>2, <1>3

(* When both show something, it is the same, and the machine is where the  *)
(* stack stands.                                                           *)
LEMMA MeetNow ==
  ASSUME NEW H, Finished(H, program, out, offsets), Agrees(H, program, out, pc, returns, flag, rest),
         Shown.op # "silent", Meaning.op # "silent"
  PROVE  Shown = Meaning /\ \E c : Runs(H, program, out, offsets, c, returns, rest) /\ c.at = pc
<1>1. PICK c, w : /\ Runs(H, program, out, offsets, c, w, rest)
                  /\ Meets(out.code, <<pc, returns, flag>>, <<c.at, w, flag>>)
  BY RunsThere
<1>2. Shows(out.code, c.at, w, Meaning.op, Meaning.arg) /\ Meaning = [op |-> Meaning.op, arg |-> Meaning.arg]
  BY <1>1, ShowsAlike
<1>3. ~Quiet(out.code, c.at, w) /\ ShownAt(out.code, c.at, w) = Meaning
  BY <1>2 DEF Shows
<1>4. ~Quiet(out.code, pc, returns) /\ Shown = ShownAt(out.code, pc, returns)
  BY ShownHere, SilentQuiet
<1>5. PICK p, r, b, q : p = pc /\ r = returns /\ b = flag /\ q = c.at
  OBVIOUS
<1>6. p = q /\ r = w
  BY <1>1, <1>3, <1>4, <1>5, MeetsStill
<1> QED BY <1>1, <1>3, <1>4, <1>5, <1>6

LEMMA MachineHolds ==
  ASSUME NEW H, Agrees(H, program, out, pc, returns, flag, rest), MachineStep
  PROVE  Agrees(H, program, out, pc', returns', flag', rest')
<1>1. PICK p, r, b, s : p = pc /\ r = returns /\ b = flag /\ s = rest
  OBVIOUS
<1>2. PICK q, w : Stands(H, program, q, w, s) /\ Meets(out.code, <<p, r, b>>, <<q, w, b>>)
  BY <1>1 DEF Agrees
<1>3. Quiet(out.code, p, r)
  BY <1>1, ShownHere, SilentQuiet DEF MachineStep
<1>4. PICK m : m = Moved(out.code, p, r, b)
  OBVIOUS
<1>5. m = <<pc', returns', b>> /\ flag' = b /\ rest' = s
  BY <1>1, <1>4 DEF MachineStep, Moved, Instr
<1>6. Meets(out.code, <<p, r, b>>, m)
  BY <1>3, <1>4, MeetsMoved
<1>7. Meets(out.code, m, <<q, w, b>>)
  BY <1>2, <1>6, MeetsBack, MeetsThen
<1>8. PICK p1, r1 : p1 = pc' /\ r1 = returns'
  OBVIOUS
<1>9. Agrees(H, program, out, p1, r1, b, s)
  BY <1>2, <1>5, <1>7, <1>8 DEF Agrees
<1> QED BY <1>5, <1>8, <1>9

LEMMA MeaningHolds ==
  ASSUME NEW H, Finished(H, program, out, offsets), Agrees(H, program, out, pc, returns, flag, rest),
         Expected, MeaningStep
  PROVE  Agrees(H, program, out, pc, returns, flag, Unfolded)
<1>1. PICK c, w : /\ Runs(H, program, out, offsets, c, w, rest)
                  /\ Meets(out.code, <<pc, returns, flag>>, <<c.at, w, flag>>)
  BY RunsThere
<1>2. Meaning.op = "silent" /\ (Now = "throw" => First({"handler"}) = 0 \/ First({"handler"}) < First({"frame"}))
  BY DEF MeaningStep, Expected
<1>3. PICK p, r, b, q : p = pc /\ r = returns /\ b = flag /\ q = c.at
  OBVIOUS
<1>4. Agrees(H, program, out, q, w, b, Unfolded)
  BY <1>1, <1>2, <1>3, SilentRuns
<1>5. Agrees(H, program, out, p, r, b, Unfolded)
  BY <1>1, <1>3, <1>4, AgreesAfter
<1> QED BY <1>3, <1>5

LEMMA TogetherHolds ==
  ASSUME NEW H, Finished(H, program, out, offsets), Agrees(H, program, out, pc, returns, flag, rest),
         flag \in BOOLEAN, Together
  PROVE  Agrees(H, program, out, pc', returns', flag', rest') /\ flag' \in BOOLEAN
<1>1. Shown.op \in {"act", "test"} /\ Meaning = Shown
  BY DEF Together
<1>2. PICK c : Runs(H, program, out, offsets, c, returns, rest) /\ c.at = pc
  BY <1>1, MeetNow
<1>3. flag' \in BOOLEAN /\ pc' = pc + 1 /\ returns' = returns /\ rest' = Taken(flag')
  BY DEF Together
<1>4. PICK b \in BOOLEAN : b = flag'
  BY <1>3
<1>5. PICK k, r : k = pc' /\ r = returns
  OBVIOUS
<1>6. Agrees(H, program, out, k, r, b, Taken(b))
  BY <1>1, <1>2, <1>3, <1>5, TakenRuns
<1>7. Taken(flag') = Taken(b)
  BY <1>4 DEF Taken
<1> QED BY <1>3, <1>4, <1>5, <1>6, <1>7

LEMMA OnlyPatching ==
  ASSUME Next, patched # patched'
  PROVE  offsets' = offsets
BY DEF Next, BeginFunction, EndFunction, ScanDeclaration, ScanStatement, PatchBranches, symbols,
       Statements, GenerateExpression, GenerateDeclaration, GenerateCall, GenerateReturn, GenerateBreak,
       GenerateContinue, GenerateThrow, GenerateNothing, GenerateBlock, Generated,
       Conditionals, GenerateIf, GenerateElse, EndIf, Nesting,
       Loops, GenerateWhile, EndWhile, GenerateDoWhile, EndDoWhile, GenerateFor, ForTest, EndFor,
       Handlers, GenerateTry, GenerateCatch

LEMMA StartHolds ==
  ASSUME NEW H, NEW o, Finished(H, program, o, offsets), program \in Programs, NEW b
  PROVE  Agrees(H, program, o, offsets[main], << >>, b, Called(main))
<1>1. PICK i \in DOMAIN program : program[i].name = main
  BY MainAssumption
<1>2. main \in DOMAIN offsets
  BY <1>1 DEF Finished
<1>3. PICK p, N : p = offsets[main] /\ N = Called(main)
  OBVIOUS
<1>4. Begins(H, program, o, p, main, N) /\ p \in Nat
  BY <1>2, <1>3, CalledBegins
<1> QED BY <1>3, <1>4, EntersOn

LEMMA RunHolds ==
  ASSUME RunInv, GenInv, Ended', Expected, RunNext \/ UNCHANGED runvars
  PROVE  RunInv'
<1>1. /\ program \in Programs /\ flag \in BOOLEAN /\ (~patched => returns = << >>)
      /\ Inv /\ (patched => todo = << >>)
  BY DEF RunInv, GenInv, Inv, Begun
<1>2. CASE ~patched
  <2>1. ~(MachineStep \/ MeaningStep \/ Together)
    BY <1>2 DEF MachineStep, MeaningStep, Together, Running
  <2>2. CASE Next /\ Start
    <3>1. program' = program /\ offsets' = offsets
      BY <1>2, <2>2, ProgramStays, OnlyPatching DEF Start
    <3>2. /\ patched' /\ pc' = offsets[main] /\ rest' = Called(main)
          /\ returns' = << >> /\ flag' = flag
      BY <1>1, <1>2, <2>2 DEF Start
    <3>3. PICK H : Finished(H, program', out', offsets')
      BY <3>2 DEF Ended
    <3>4. PICK o : o = out'
      OBVIOUS
    <3>5. Finished(H, program, o, offsets)
      BY <3>1, <3>3, <3>4
    <3>6. PICK b : b = flag
      OBVIOUS
    <3>7. Agrees(H, program, o, offsets[main], << >>, b, Called(main))
      BY <1>1, <3>5, StartHolds
    <3>8. Agrees(H, program', out', pc', returns', flag', rest')
      BY <3>1, <3>2, <3>4, <3>6, <3>7
    <3> QED BY <1>1, <3>1, <3>2, <3>3, <3>8 DEF RunInv
  <2>3. CASE Next /\ ~patched' /\ UNCHANGED <<machine, rest>>
    <3>1. program' = program
      BY <2>3, ProgramStays
    <3> QED BY <1>1, <1>2, <2>3, <3>1 DEF RunInv, machine
  <2>4. CASE UNCHANGED runvars
    <3>1. program' = program /\ patched' = patched /\ returns' = returns /\ flag' = flag
      BY <2>4 DEF runvars, vars, machine
    <3> QED BY <1>1, <1>2, <3>1 DEF RunInv
  <2> QED BY <2>1, <2>2, <2>3, <2>4 DEF RunNext
<1>3. CASE patched
  <2>1. PICK H : Finished(H, program, out, offsets) /\ Agrees(H, program, out, pc, returns, flag, rest)
    BY <1>3 DEF RunInv
  <2>2. UNCHANGED vars
    BY <1>1, <1>3, PatchedStays
  <2>3. program' = program /\ out' = out /\ offsets' = offsets /\ patched' = patched
    BY <2>2 DEF vars, symbols
  <2>4. ASSUME Agrees(H, program, out, pc', returns', flag', rest'), flag' \in BOOLEAN
        PROVE  RunInv'
    <3>1. Finished(H, program', out', offsets') /\ Agrees(H, program', out', pc', returns', flag', rest')
      BY <2>1, <2>3, <2>4
    <3> QED BY <1>1, <1>3, <2>3, <2>4, <3>1 DEF RunInv
  <2>5. CASE MachineStep
    <3>1. flag' \in BOOLEAN
      BY <1>1, <2>5 DEF MachineStep
    <3> QED BY <2>1, <2>4, <2>5, <3>1, MachineHolds
  <2>6. CASE MeaningStep
    <3>1. Agrees(H, program, out, pc, returns, flag, Unfolded)
      BY <2>1, <2>6, MeaningHolds
    <3>2. pc' = pc /\ returns' = returns /\ flag' = flag /\ rest' = Unfolded
      BY <2>6 DEF MeaningStep, machine
    <3> QED BY <1>1, <2>4, <3>1, <3>2
  <2>7. CASE Together
    BY <1>1, <2>1, <2>4, <2>7, TogetherHolds
  <2>8. CASE UNCHANGED runvars
    <3>1. pc' = pc /\ returns' = returns /\ flag' = flag /\ rest' = rest
      BY <2>8 DEF runvars, machine
    <3> QED BY <1>1, <2>1, <2>4, <3>1
  <2>9. ~(Next /\ (Start \/ (~patched' /\ UNCHANGED <<machine, rest>>)))
    BY <1>3, <2>3 DEF Start
  <2> QED BY <2>5, <2>6, <2>7, <2>8, <2>9 DEF RunNext
<1> QED BY <1>2, <1>3

(* The code does what the statements say (SameBehaviour), whatever the     *)
(* unit and its nesting, if the unit is what the generator expects.        *)
THEOREM CodeMeansTheSame == RunSpec /\ []Expected => []SameBehaviour
<1>1. RunInit => GenInv /\ RunInv
  <2> SUFFICES ASSUME RunInit
               PROVE  GenInv /\ RunInv
    OBVIOUS
  <2>1. GenInv
    BY GeneratedFirst DEF RunInit
  <2>2. program \in Programs /\ patched = FALSE /\ returns = << >> /\ flag = FALSE
    BY DEF RunInit, Init
  <2> QED BY <2>1, <2>2 DEF RunInv
<1>2. GenInv /\ Expected /\ [RunNext]_runvars => GenInv'
  BY RunIsNext, GeneratedNext
<1>3. RunInv /\ GenInv /\ Ended' /\ Expected /\ [RunNext]_runvars => RunInv'
  BY RunHolds
<1>4. RunInv => SameBehaviour
  <2> SUFFICES ASSUME RunInv, Running, Shown.op # "silent", Meaning.op # "silent"
               PROVE  Shown = Meaning
    BY DEF SameBehaviour
  <2>1. PICK H : Finished(H, program, out, offsets) /\ Agrees(H, program, out, pc, returns, flag, rest)
    BY DEF RunInv, Running
  <2> QED BY <2>1, MeetNow
<1> QED BY <1>1, <1>2, <1>3, <1>4, EndedNow, PTL DEF RunSpec
=============================================================================
