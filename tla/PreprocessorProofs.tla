------------------------- MODULE PreprocessorProofs -------------------------
(***************************************************************************)
(* Proofs about Preprocessor, for every file system, set of macros and     *)
(* limit on the depth.                                                     *)
(*                                                                         *)
(* A step of the walk does one of four things to the stack: it goes to the *)
(* next line of the innermost file (Advances), starts a file (Pushes),     *)
(* ends one (Pops), or stops with an error.  What each does to the frames  *)
(* is proved once; the invariants are then proved over the four.           *)
(*                                                                         *)
(* Behind them, proofs about the expansion of the lines, for every set of  *)
(* macros and every text, and about PreprocessedText, the walk and the     *)
(* expansion together.                                                     *)
(***************************************************************************)
EXTENDS PreprocessedText, SequenceTheorems, FiniteSetTheorems, TLAPS

-----------------------------------------------------------------------------
(* What a step does to the stack.                                          *)
Advances(groups) ==
  /\ Len(stack') = Len(stack)
  /\ \A i \in 1..(Len(stack) - 1) : stack'[i] = stack[i]
  /\ stack'[Len(stack)] = [path |-> Top.path, next |-> Top.next + 1, groups |-> groups]

Pushes(p) ==
  /\ Len(stack') = Len(stack) + 1
  /\ \A i \in 1..(Len(stack) - 1) : stack'[i] = stack[i]
  /\ stack'[Len(stack)] = [path |-> Top.path, next |-> Top.next + 1, groups |-> Top.groups]
  /\ stack'[Len(stack) + 1] = Start(p)

Pops ==
  /\ Len(stack') = Len(stack) - 1
  /\ \A i \in 1..(Len(stack) - 1) : stack'[i] = stack[i]

(* The innermost frame of a walk that goes on.                             *)
LEMMA TopTyped ==
  ASSUME TypeOK, stack # << >>
  PROVE  /\ Len(stack) \in Nat \ {0} /\ DOMAIN stack = 1..Len(stack)
         /\ Top \in Frame /\ Top.path \in DOMAIN content
         /\ Top.groups \in Seq(Group) /\ Lines \in Seq(Line)
<1>1. Len(stack) \in Nat \ {0} /\ DOMAIN stack = 1..Len(stack)
  BY EmptySeq, LenProperties DEF TypeOK
<1>2. Top \in Frame /\ Top.path \in DOMAIN content
  BY <1>1, ElementOfSeq DEF TypeOK, Top
<1> QED BY <1>1, <1>2 DEF Frame, TypeOK, IsContent, Lines

LEMMA AdvanceStack ==
  ASSUME TypeOK, stack # << >>, NEW groups \in Seq(Group), Advance(groups)
  PROVE  stack' \in Seq(Frame) /\ Advances(groups)
<1> DEFINE e == [path |-> Top.path, next |-> Top.next + 1, groups |-> groups]
<1>1. stack' = [stack EXCEPT ![Len(stack)] = e]
  BY DEF Advance, Advanced
<1>2. e \in Frame /\ Len(stack) \in 1..Len(stack) /\ stack \in Seq(Frame)
  BY TopTyped DEF Frame, TypeOK
<1> HIDE DEF e
<1>3. /\ stack' \in Seq(Frame) /\ Len(stack') = Len(stack)
      /\ \A j \in 1..Len(stack) : stack'[j] = IF j = Len(stack) THEN e ELSE stack[j]
  BY <1>1, <1>2, ExceptSeq
<1> QED BY <1>3, TopTyped DEF Advances, e

LEMMA PushStack ==
  ASSUME TypeOK, stack # << >>, NEW p \in Path,
         stack' = Append(Advanced(Top.groups), Start(p))
  PROVE  stack' \in Seq(Frame) /\ Pushes(p)
<1> DEFINE e == [path |-> Top.path, next |-> Top.next + 1, groups |-> Top.groups]
           s == [stack EXCEPT ![Len(stack)] = e]
<1>1. stack' = Append(s, Start(p))
  BY DEF Advanced
<1>2. e \in Frame /\ Len(stack) \in 1..Len(stack) /\ stack \in Seq(Frame) /\ Start(p) \in Frame
  BY TopTyped, EmptySeq DEF Frame, TypeOK, Start
<1> HIDE DEF e
<1>3. /\ s \in Seq(Frame) /\ Len(s) = Len(stack)
      /\ \A j \in 1..Len(stack) : s[j] = IF j = Len(stack) THEN e ELSE stack[j]
  BY <1>2, ExceptSeq
<1> HIDE DEF s
<1>4. /\ stack' \in Seq(Frame) /\ Len(stack') = Len(stack) + 1
      /\ \A j \in 1..Len(stack) : stack'[j] = s[j]
      /\ stack'[Len(stack) + 1] = Start(p)
  BY <1>1, <1>2, <1>3, AppendProperties
<1> QED BY <1>3, <1>4, TopTyped DEF Pushes, e

LEMMA PopStack ==
  ASSUME TypeOK, stack # << >>, stack' = SubSeq(stack, 1, Len(stack) - 1)
  PROVE  stack' \in Seq(Frame) /\ Pops
<1>1. \A i \in 1..(Len(stack) - 1) : stack[i] \in Frame
  BY TopTyped, ElementOfSeq DEF TypeOK
<1>2. Len(stack) - 1 \in Int /\ 1 \in Int
  BY TopTyped
<1>3. /\ stack' \in Seq(Frame)
      /\ Len(stack') = IF 1 <= Len(stack) - 1 THEN Len(stack) - 1 - 1 + 1 ELSE 0
      /\ \A i \in 1..(Len(stack) - 1 - 1 + 1) : stack'[i] = stack[1 + i - 1]
  BY <1>1, <1>2, SubSeqProperties
<1> QED BY <1>3, TopTyped DEF Pops

(* The groups of the enclosing level, and a new level on groups.           *)
LEMMA OuterGroups ==
  ASSUME NEW groups \in Seq(Group), groups # << >>
  PROVE  /\ Outer(groups) \in Seq(Group) /\ Len(Outer(groups)) = Len(groups) - 1
         /\ \A i \in 1..(Len(groups) - 1) : Outer(groups)[i] = groups[i]
         /\ Len(groups) \in Nat \ {0} /\ groups[Len(groups)] \in Group
<1>1. Len(groups) \in Nat \ {0} /\ \A i \in 1..Len(groups) : groups[i] \in Group
  BY EmptySeq, ElementOfSeq, LenProperties
<1>2. Len(groups) - 1 \in Int /\ 1 \in Int /\ \A i \in 1..(Len(groups) - 1) : groups[i] \in Group
  BY <1>1
<1>3. /\ Outer(groups) \in Seq(Group)
      /\ Len(Outer(groups)) = IF 1 <= Len(groups) - 1 THEN Len(groups) - 1 - 1 + 1 ELSE 0
      /\ \A i \in 1..(Len(groups) - 1 - 1 + 1) : Outer(groups)[i] = groups[1 + i - 1]
  BY <1>2, SubSeqProperties DEF Outer
<1>4. Len(Outer(groups)) = Len(groups) - 1
  <2>1. CASE Len(groups) = 1
    BY <2>1, <1>3
  <2>2. CASE Len(groups) # 1
    <3>1. \A n \in Nat \ {0} : n # 1 => 1 <= n - 1 /\ n - 1 - 1 + 1 = n - 1
      OBVIOUS
    <3>2. 1 <= Len(groups) - 1 /\ Len(groups) - 1 - 1 + 1 = Len(groups) - 1
      BY <2>2, <1>1, <3>1
    <3> QED BY <3>2, <1>3
  <2> QED BY <2>1, <2>2
<1>5. \A i \in 1..(Len(groups) - 1) : Outer(groups)[i] = groups[i]
  <2> TAKE i \in 1..(Len(groups) - 1)
  <2>1. i \in 1..(Len(groups) - 1 - 1 + 1) /\ 1 + i - 1 = i
    BY <1>1
  <2> QED BY <2>1, <1>3
<1>6. groups[Len(groups)] \in Group
  BY <1>1
<1> QED BY <1>1, <1>3, <1>4, <1>5, <1>6

(* Groups that nest: an active one counts as taken and has active groups   *)
(* around it.                                                              *)
Nests(groups) ==
  \A g \in 1..Len(groups) : groups[g].active =>
    groups[g].taken /\ (g > 1 => groups[g - 1].active)

LEMMA NestsAppend ==
  ASSUME NEW groups \in Seq(Group), Nests(groups), NEW group \in Group,
         group.active => group.taken /\ Open(groups)
  PROVE  Append(groups, group) \in Seq(Group) /\ Nests(Append(groups, group))
<1>1. /\ Append(groups, group) \in Seq(Group)
      /\ Len(Append(groups, group)) = Len(groups) + 1
      /\ \A i \in 1..Len(groups) : Append(groups, group)[i] = groups[i]
      /\ Append(groups, group)[Len(groups) + 1] = group
      /\ Len(groups) \in Nat
  BY AppendProperties, LenProperties
<1>2. Len(groups) > 0 => groups # << >>
  BY EmptySeq
<1> QED BY <1>1, <1>2 DEF Nests, Open

LEMMA NestsOuter ==
  ASSUME NEW groups \in Seq(Group), groups # << >>, Nests(groups)
  PROVE  Outer(groups) \in Seq(Group) /\ Nests(Outer(groups))
<1>1. Outer(groups) \in Seq(Group) /\ Len(groups) \in Nat \ {0}
      /\ Len(Outer(groups)) = Len(groups) - 1
  BY OuterGroups
<1>2. ASSUME NEW g \in 1..Len(Outer(groups)), Outer(groups)[g].active
      PROVE  Outer(groups)[g].taken /\ (g > 1 => Outer(groups)[g - 1].active)
  <2>1. g \in 1..Len(groups) /\ Outer(groups)[g] = groups[g]
    BY <1>1, OuterGroups
  <2>2. g > 1 => Outer(groups)[g - 1] = groups[g - 1]
    <3>1. g > 1 => g - 1 \in 1..(Len(groups) - 1)
      BY <1>1
    <3>2. \A i \in 1..(Len(groups) - 1) : Outer(groups)[i] = groups[i]
      BY OuterGroups
    <3> QED BY <3>1, <3>2
  <2> QED BY <1>2, <2>1, <2>2 DEF Nests
<1> QED BY <1>1, <1>2 DEF Nests

-----------------------------------------------------------------------------
(* The steps, by what they do to the stack.                                *)

(* Every step that stays in a file goes to its next line, with groups that *)
(* nest if the ones before did.                                            *)
StaysIn ==
  /\ stack # << >> /\ pc = "reading" /\ pc' = "reading"
  /\ Top.next <= Len(Lines) /\ content' = content
  /\ \E groups \in Seq(Group) : (Nests(Top.groups) => Nests(groups)) /\ Advance(groups)

(* The groups a conditional directive leaves.                              *)
LEMMA ConditionalStays ==
  ASSUME TypeOK, OpenGroup \/ Elif \/ Else \/ Endif
  PROVE  StaysIn /\ UNCHANGED <<macros, included, output>>
<1>0. /\ stack # << >> /\ pc = "reading" /\ pc' = "reading"
      /\ Top.next <= Len(Lines) /\ content' = content
      /\ UNCHANGED <<macros, included, output>>
  BY DEF OpenGroup, Elif, Else, Endif, AtLine
<1>1. Top.groups \in Seq(Group)
  BY <1>0, TopTyped
<1>2. CASE OpenGroup
  <2> DEFINE result == Open(Top.groups) /\ Holds(Current.cond)
             group == [active |-> result, taken |-> result]
  <2>1. group \in Group
    BY DEF Group
  <2>2. Advance(Append(Top.groups, group))
    BY <1>2 DEF OpenGroup
  <2>3. Append(Top.groups, group) \in Seq(Group)
    BY <1>1, <2>1, AppendProperties
  <2>4. Nests(Top.groups) => Nests(Append(Top.groups, group))
    BY <1>1, <2>1, NestsAppend
  <2> QED BY <1>0, <2>2, <2>3, <2>4 DEF StaysIn
<1>3. CASE Elif
  <2> DEFINE prev == Top.groups[Len(Top.groups)]
             result == Open(Outer(Top.groups)) /\ ~prev.taken /\ Holds(Current.cond)
             group == [active |-> result, taken |-> prev.taken \/ result]
  <2>1. Top.groups # << >> /\ Advance(Append(Outer(Top.groups), group))
    BY <1>3 DEF Elif
  <2>2. group \in Group /\ Outer(Top.groups) \in Seq(Group)
    BY <1>1, <2>1, OuterGroups DEF Group
  <2>3. Append(Outer(Top.groups), group) \in Seq(Group)
    BY <2>2, AppendProperties
  <2>4. Nests(Top.groups) => Nests(Append(Outer(Top.groups), group))
    BY <1>1, <2>1, <2>2, NestsOuter, NestsAppend
  <2> QED BY <1>0, <2>1, <2>3, <2>4 DEF StaysIn
<1>4. CASE Else
  <2> DEFINE prev == Top.groups[Len(Top.groups)]
             active == Open(Outer(Top.groups)) /\ ~prev.taken
             group == [active |-> active, taken |-> TRUE]
  <2>1. Top.groups # << >> /\ Advance(Append(Outer(Top.groups), group))
    BY <1>4 DEF Else
  <2>2. group \in Group /\ Outer(Top.groups) \in Seq(Group)
    BY <1>1, <2>1, OuterGroups DEF Group
  <2>3. Append(Outer(Top.groups), group) \in Seq(Group)
    BY <2>2, AppendProperties
  <2>4. Nests(Top.groups) => Nests(Append(Outer(Top.groups), group))
    BY <1>1, <2>1, <2>2, NestsOuter, NestsAppend
  <2> QED BY <1>0, <2>1, <2>3, <2>4 DEF StaysIn
<1>5. CASE Endif
  <2>1. Top.groups # << >> /\ Advance(Outer(Top.groups))
    BY <1>5 DEF Endif
  <2> QED BY <1>0, <1>1, <2>1, NestsOuter, OuterGroups DEF StaysIn
<1> QED BY <1>2, <1>3, <1>4, <1>5

LEMMA LineStays ==
  ASSUME TypeOK, \/ Define \/ Undef \/ PragmaOnce \/ Unknown \/ IncludeMissing \/ IncludeAgain
                 \/ Skip \/ Text
  PROVE  StaysIn
<1>0. /\ stack # << >> /\ pc = "reading" /\ pc' = "reading"
      /\ Top.next <= Len(Lines) /\ content' = content /\ Advance(Top.groups)
  BY DEF Define, Undef, PragmaOnce, Unknown, IncludeMissing, IncludeAgain, Skip, Text,
         Active, AtLine
<1> QED BY <1>0, TopTyped DEF StaysIn

(* A step that stops with an error, or none at all.                        *)
StopsOrStutters ==
  /\ UNCHANGED <<content, stack, macros, output>>
  /\ included \subseteq included'

LEMMA StepKinds ==
  ASSUME TypeOK, [Next]_vars
  PROVE  StaysIn \/ Include \/ EndFile \/ StopsOrStutters
<1>1. StrayDirective \/ Error \/ IncludeTooDeep \/ UNCHANGED vars => StopsOrStutters
  BY DEF StrayDirective, Error, IncludeTooDeep, vars, StopsOrStutters
<1> QED BY <1>1, ConditionalStays, LineStays DEF Next, Conditional, Directive

LEMMA IncludePushes ==
  ASSUME TypeOK, Include
  PROVE  /\ stack # << >> /\ pc = "reading" /\ pc' = "reading"
         /\ UNCHANGED <<content, macros, output>>
         /\ Current.path \in DOMAIN content \ included /\ Current.path \in Path
         /\ included' = included \cup {Current.path}
         /\ Open(Top.groups) /\ Len(stack) <= MaxDepth /\ Top.next <= Len(Lines)
         /\ stack' \in Seq(Frame) /\ Pushes(Current.path)
<1>1. /\ stack # << >> /\ pc = "reading" /\ pc' = "reading"
      /\ UNCHANGED <<content, macros, output>>
      /\ Current.path \in DOMAIN content \ included
      /\ included' = included \cup {Current.path}
      /\ Open(Top.groups) /\ Len(stack) <= MaxDepth /\ Top.next <= Len(Lines)
      /\ stack' = Append(Advanced(Top.groups), Start(Current.path))
  BY DEF Include, Active, AtLine
<1>2. Current.path \in Path
  BY <1>1 DEF TypeOK, IsContent
<1> QED BY <1>1, <1>2, PushStack

LEMMA EndFilePops ==
  ASSUME TypeOK, EndFile
  PROVE  /\ stack # << >> /\ UNCHANGED <<content, macros, included, output>>
         /\ pc' \in {"reading", "done"} /\ stack' \in Seq(Frame) /\ Pops
<1>1. /\ stack # << >> /\ UNCHANGED <<content, macros, included, output>>
      /\ pc' \in {"reading", "done"} /\ stack' = SubSeq(stack, 1, Len(stack) - 1)
  BY DEF EndFile
<1> QED BY <1>1, PopStack

LEMMA StaysInAdvances ==
  ASSUME TypeOK, StaysIn
  PROVE  /\ stack # << >> /\ content' = content /\ Top.next <= Len(Lines)
         /\ stack' \in Seq(Frame)
         /\ \E groups \in Seq(Group) : (Nests(Top.groups) => Nests(groups)) /\ Advances(groups)
BY AdvanceStack DEF StaysIn

LEMMA CurrentTyped ==
  ASSUME TypeOK, NEW kinds, AtLine(kinds)
  PROVE  Current \in Line /\ Current.kind \in kinds /\ Top \in Frame
<1>1. stack # << >> /\ Top.next <= Len(Lines) /\ Current.kind \in kinds
  BY DEF AtLine, Current
<1>2. Top.next \in Nat \ {0} /\ Lines \in Seq(Line) /\ Top \in Frame
  BY <1>1, TopTyped DEF Frame
<1>3. Top.next \in 1..Len(Lines)
  BY <1>1, <1>2, LenProperties
<1> QED BY <1>1, <1>2, <1>3, ElementOfSeq DEF Current

-----------------------------------------------------------------------------
(* Type correctness.                                                       *)

(* The stack: frames over known paths, within their files and the limit.   *)
LEMMA StackStep ==
  ASSUME TypeOK, [Next]_vars
  PROVE  /\ content' = content
         /\ stack' \in Seq(Frame) /\ Len(stack') <= MaxDepth + 1
         /\ \A i \in DOMAIN stack' : stack'[i].path \in DOMAIN content
                                     /\ stack'[i].next <= Len(content[stack'[i].path]) + 1
<1> DEFINE Within(f) == f.path \in DOMAIN content /\ f.next <= Len(content[f.path]) + 1
<1>0. /\ \A i \in DOMAIN stack : Within(stack[i])
      /\ Len(stack) <= MaxDepth + 1 /\ stack \in Seq(Frame)
      /\ \A p \in DOMAIN content : Len(content[p]) \in Nat
  BY LenProperties DEF TypeOK, IsContent
<1> SUFFICES /\ content' = content
             /\ stack' \in Seq(Frame) /\ Len(stack') <= MaxDepth + 1
             /\ \A i \in 1..Len(stack') : Within(stack'[i])
  BY LenProperties
<1>b. ASSUME stack # << >>, Top.next <= Len(Lines), NEW groups
      PROVE  Within([path |-> Top.path, next |-> Top.next + 1, groups |-> groups])
  BY <1>b, TopTyped, <1>0 DEF Lines, Frame
<1> HIDE DEF Within
<1>c. \A i \in 1..(Len(stack) - 1) : Within(stack[i])
  <2>1. Len(stack) \in Nat /\ DOMAIN stack = 1..Len(stack)
    BY <1>0, LenProperties
  <2> QED BY <2>1, <1>0
<1>1. CASE StaysIn
  <2>1. PICK groups \in Seq(Group) : Advances(groups)
    BY <1>1, StaysInAdvances
  <2>2. stack # << >> /\ content' = content /\ Top.next <= Len(Lines) /\ stack' \in Seq(Frame)
    BY <1>1, StaysInAdvances
  <2>3. Within(stack'[Len(stack)])
    BY <2>1, <2>2, <1>b DEF Advances
  <2>4. \A i \in 1..(Len(stack) - 1) : Within(stack'[i])
    BY <2>1, <2>2, <1>c DEF Advances
  <2>5. Len(stack') = Len(stack) /\ Len(stack) \in Nat \ {0}
    BY <2>1, <2>2, TopTyped DEF Advances
  <2> QED BY <2>2, <2>3, <2>4, <2>5, <1>0
<1>2. CASE Include
  <2> DEFINE p == Current.path
  <2>1. /\ stack # << >> /\ content' = content /\ Top.next <= Len(Lines) /\ stack' \in Seq(Frame)
        /\ p \in DOMAIN content /\ Len(stack) <= MaxDepth /\ Pushes(p)
    BY <1>2, IncludePushes
  <2> HIDE DEF p
  <2>2. Within(stack'[Len(stack)])
    BY <2>1, <1>b DEF Pushes
  <2>3. Within(stack'[Len(stack) + 1])
    <3>1. stack'[Len(stack) + 1] = Start(p) /\ Len(content[p]) \in Nat
      BY <2>1, <1>0 DEF Pushes
    <3> QED BY <3>1, <2>1 DEF Start, Within
  <2>4. \A i \in 1..(Len(stack) - 1) : Within(stack'[i])
    BY <2>1, <1>c DEF Pushes
  <2>5. Len(stack') = Len(stack) + 1 /\ Len(stack) \in Nat \ {0}
    BY <2>1, TopTyped DEF Pushes
  <2> QED BY <2>1, <2>2, <2>3, <2>4, <2>5, PathAssumption
<1>3. CASE EndFile
  <2>1. /\ stack # << >> /\ content' = content /\ stack' \in Seq(Frame) /\ Pops
        /\ Len(stack) \in Nat \ {0}
    BY <1>3, EndFilePops, TopTyped
  <2> QED BY <2>1, <1>0, TopTyped, PathAssumption DEF Pops
<1>4. CASE StopsOrStutters
  BY <1>4, <1>0, LenProperties DEF StopsOrStutters
<1> QED BY <1>1, <1>2, <1>3, <1>4, StepKinds

(* The tables the walk fills.                                              *)
LEMMA TablesStep ==
  ASSUME TypeOK, [Next]_vars
  PROVE  /\ macros' \in Table /\ included' \subseteq Path
         /\ output' \in Seq([path : Path, line : Nat, table : Table])
         /\ pc' \in {"reading", "done", "stray", "error", "depth"}
<1> USE DEF TypeOK
<1>1. CASE Conditional
  BY <1>1 DEF Conditional, OpenGroup, Elif, Else, Endif, StrayDirective
<1>2. CASE Define
  <2>1. Current.name \in Macro /\ Current.value \in BOOLEAN
    BY <1>2, CurrentTyped DEF Define, Active, Line
  <2>2. PICK defined \in SUBSET Macro : macros \in [defined -> BOOLEAN]
    BY DEF Table
  <2>3. macros' \in [defined \cup {Current.name} -> BOOLEAN]
    BY <1>2, <2>1, <2>2 DEF Define
  <2>4. defined \cup {Current.name} \in SUBSET Macro
    BY <2>1
  <2>5. macros' \in Table
    BY <2>3, <2>4 DEF Table
  <2> QED BY <1>2, <2>5 DEF Define
<1>3. CASE Undef
  <2>1. PICK defined \in SUBSET Macro : macros \in [defined -> BOOLEAN]
    BY DEF Table
  <2>2. macros' \in [defined \ {Current.name} -> BOOLEAN]
    BY <1>3, <2>1 DEF Undef
  <2>3. macros' \in Table
    BY <2>2 DEF Table
  <2> QED BY <1>3, <2>3 DEF Undef
<1>4. CASE Text
  <2> DEFINE e == [path |-> Top.path, line |-> Top.next, table |-> macros]
  <2>1. e \in [path : Path, line : Nat, table : Table]
    BY <1>4, CurrentTyped DEF Text, Active, Frame
  <2>2. output' = Append(output, e)
    BY <1>4 DEF Text
  <2> HIDE DEF e
  <2>3. output' \in Seq([path : Path, line : Nat, table : Table])
    BY <2>1, <2>2, AppendProperties
  <2> QED BY <1>4, <2>3 DEF Text
<1>5. CASE PragmaOnce
  BY <1>5, CurrentTyped DEF PragmaOnce, Active, Frame
<1>6. CASE Error \/ Unknown \/ IncludeMissing \/ IncludeAgain \/ Skip
  BY <1>6 DEF Error, Unknown, IncludeMissing, IncludeAgain, Skip, Active, AtLine
<1>7. CASE Include \/ IncludeTooDeep
  BY <1>7 DEF Include, IncludeTooDeep, Active, AtLine, IsContent
<1>8. CASE EndFile
  BY <1>8, EndFilePops
<1>9. CASE UNCHANGED vars
  BY <1>9 DEF vars
<1> QED BY <1>1, <1>2, <1>3, <1>4, <1>5, <1>6, <1>7, <1>8, <1>9 DEF Next, Directive

LEMMA InitTyped == Init => TypeOK
<1> SUFFICES ASSUME Init PROVE TypeOK
  OBVIOUS
<1>1. Start(Main) \in Frame
  BY EmptySeq, PathAssumption DEF Start, Frame
<1>2. /\ stack = <<Start(Main)>> /\ stack \in Seq(Frame) /\ Len(stack) = 1
      /\ DOMAIN stack = {1} /\ stack[1] = Start(Main)
  BY <1>1 DEF Init, Begin
<1>3. IsContent(content)
  BY ContentsAssumption DEF Init
<1>4. /\ stack[1].path \in DOMAIN content
      /\ stack[1].next <= Len(content[stack[1].path]) + 1
  BY <1>2, <1>3, LenProperties DEF Start, IsContent
<1> QED BY <1>2, <1>3, <1>4, PathAssumption, PredefinedAssumption, EmptySeq
        DEF Init, Begin, TypeOK

(* Every state of the walk has the type TypeOK gives it, the limit on the  *)
(* depth included (preprocessor.cpp:170-234).                              *)
THEOREM TypeCorrect == Spec => []TypeOK
<1>1. ASSUME TypeOK, [Next]_vars PROVE TypeOK'
  BY <1>1, StackStep, TablesStep DEF TypeOK, IsContent
<1> QED BY <1>1, InitTyped, PTL DEF Spec

-----------------------------------------------------------------------------
(* Nesting.                                                                *)

(* NestingSound, for the frames one by one.                                *)
FramesNest ==
  \A i \in 1..Len(stack) :
    Nests(stack[i].groups) /\ (i < Len(stack) => Open(stack[i].groups))

LEMMA NestingByFrames == TypeOK => (NestingSound <=> FramesNest)
<1> SUFFICES ASSUME TypeOK PROVE NestingSound <=> FramesNest
  OBVIOUS
<1>1. DOMAIN stack = 1..Len(stack)
  BY LenProperties DEF TypeOK
<1>2. \A i \in 1..Len(stack) : DOMAIN stack[i].groups = 1..Len(stack[i].groups)
  BY LenProperties, ElementOfSeq DEF TypeOK, Frame
<1> QED BY <1>1, <1>2 DEF NestingSound, Nests, FramesNest

LEMMA NestingStep == TypeOK /\ TypeOK' /\ NestingSound /\ [Next]_vars => NestingSound'
<1> SUFFICES ASSUME TypeOK, TypeOK', NestingSound, [Next]_vars PROVE NestingSound'
  OBVIOUS
<1> DEFINE Sound(i) == Nests(stack[i].groups) /\ (i < Len(stack) => Open(stack[i].groups))
<1>0. \A i \in 1..Len(stack) : Sound(i)
  BY NestingByFrames DEF FramesNest
<1>1. SUFFICES \A i \in 1..Len(stack') :
                 Nests(stack'[i].groups) /\ (i < Len(stack') => Open(stack'[i].groups))
  <2>1. TypeOK' => (NestingSound' <=> FramesNest')
    BY NestingByFrames, PTL
  <2> QED BY <1>1, <2>1 DEF FramesNest
<1>2. CASE StaysIn
  <2>1. PICK groups \in Seq(Group) : (Nests(Top.groups) => Nests(groups)) /\ Advances(groups)
    BY <1>2, StaysInAdvances
  <2>2. stack # << >> /\ Len(stack) \in Nat \ {0}
    BY <1>2, StaysInAdvances, TopTyped
  <2>3. Nests(groups) /\ stack'[Len(stack)].groups = groups
    BY <1>0, <2>1, <2>2 DEF Top, Advances
  <2> QED BY <1>0, <2>1, <2>2, <2>3 DEF Advances
<1>3. CASE Include
  <2>1. /\ stack # << >> /\ Len(stack) \in Nat \ {0} /\ Open(Top.groups) /\ Pushes(Current.path)
    BY <1>3, IncludePushes, TopTyped
  <2>2. Nests(stack'[Len(stack)].groups) /\ Open(stack'[Len(stack)].groups)
    BY <1>0, <2>1 DEF Top, Pushes
  <2>3. stack'[Len(stack) + 1].groups = << >> /\ Nests(<< >>)
    BY <2>1, EmptySeq DEF Pushes, Start, Nests
  <2> QED BY <1>0, <2>1, <2>2, <2>3 DEF Pushes
<1>4. CASE EndFile
  <2>1. Len(stack) \in Nat \ {0} /\ Pops
    BY <1>4, EndFilePops, TopTyped
  <2> QED BY <1>0, <2>1 DEF Pops
<1>5. CASE StopsOrStutters
  BY <1>0, <1>5 DEF StopsOrStutters
<1> QED BY <1>2, <1>3, <1>4, <1>5, StepKinds

LEMMA InitNesting == Init => NestingSound
BY DEF Init, Begin, Start, NestingSound

(* Active groups stand in active groups, and files are left at an #include *)
(* that counts: the walk may look at the last group of the innermost file  *)
(* alone (preprocessor.cpp:217-228).                                       *)
THEOREM SkippingNests == Spec => []NestingSound
BY TypeCorrect, InitNesting, NestingStep, PTL DEF Spec

-----------------------------------------------------------------------------
(* The files on the stack.                                                 *)

(* The walk starts with the main file, and every file it met is recorded   *)
(* or the main one.                                                        *)
PathsKnown ==
  /\ stack # << >> => stack[1].path = Main
  /\ \A j \in DOMAIN output : output[j].path \in included \cup {Main}

LEMMA CallsStep == TypeOK /\ CallsDistinct /\ [Next]_vars => CallsDistinct'
<1> SUFFICES ASSUME TypeOK, CallsDistinct, [Next]_vars PROVE CallsDistinct'
  OBVIOUS
<1>0. included \subseteq included'
  BY DEF Next, Conditional, Directive, OpenGroup, Elif, Else, Endif, StrayDirective, Define,
         Undef, PragmaOnce, Error, Unknown, IncludeMissing, IncludeAgain, Include,
         IncludeTooDeep, Skip, Text, EndFile, vars
<1>1. CASE StaysIn
  <2>1. PICK groups \in Seq(Group) : Advances(groups)
    BY <1>1, StaysInAdvances
  <2>2. stack # << >> /\ Len(stack) \in Nat \ {0}
    BY <1>1, StaysInAdvances, TopTyped
  <2>3. \A i \in 1..Len(stack) : stack'[i].path = stack[i].path
    BY <2>1, <2>2 DEF Advances, Top
  <2>4. Len(stack') = Len(stack)
    BY <2>1 DEF Advances
  <2> QED BY <1>0, <2>2, <2>3, <2>4 DEF CallsDistinct
<1>2. CASE Include
  <2> DEFINE p == Current.path
  <2>1. /\ Len(stack) \in Nat \ {0} /\ p \notin included /\ included' = included \cup {p}
        /\ Pushes(p)
    BY <1>2, IncludePushes, TopTyped
  <2> HIDE DEF p
  <2>2. \A i \in 1..Len(stack) : stack'[i].path = stack[i].path
    BY <2>1 DEF Pushes, Top
  <2>3. Len(stack') = Len(stack) + 1 /\ stack'[Len(stack) + 1].path = p
    BY <2>1 DEF Pushes, Start
  <2> QED BY <2>1, <2>2, <2>3, SMTT(60) DEF CallsDistinct
<1>3. CASE EndFile
  <2>1. Len(stack) \in Nat \ {0} /\ Pops
    BY <1>3, EndFilePops, TopTyped
  <2> QED BY <1>0, <2>1 DEF Pops, CallsDistinct
<1>4. CASE StopsOrStutters
  BY <1>4 DEF StopsOrStutters, CallsDistinct
<1> QED BY <1>1, <1>2, <1>3, <1>4, StepKinds

LEMMA InitCalls == Init => CallsDistinct
BY DEF Init, Begin, CallsDistinct

(* No file but the main one is walked by two calls at once, however the    *)
(* files include each other (preprocessor.cpp:371-379).                    *)
THEOREM CallsAreDistinct == Spec => []CallsDistinct
BY TypeCorrect, InitCalls, CallsStep, PTL DEF Spec

(* A stack higher than the limit holds more distinct files than the limit. *)
LEMMA HighStackManyFiles ==
  ASSUME TypeOK, CallsDistinct, Len(stack) > MaxDepth,
         NEW p \in DOMAIN content \ included
  PROVE  Cardinality(DOMAIN content) > MaxDepth
<1> DEFINE Others == DOMAIN content \ {p}
           call == [i \in 2..Len(stack) |-> stack[i].path]
<1>1. Len(stack) = MaxDepth + 1 /\ MaxDepth \in Nat /\ DOMAIN stack = 1..Len(stack)
  BY PathAssumption, LenProperties DEF TypeOK
<1>2. call \in Injection(2..Len(stack), Others)
  <2>1. \A i \in 2..Len(stack) : stack[i].path \in Others
    BY <1>1 DEF TypeOK, CallsDistinct
  <2>2. call \in [2..Len(stack) -> Others]
    BY <2>1
  <2>3. \A i, j \in 2..Len(stack) : call[i] = call[j] => i = j
    BY DEF CallsDistinct
  <2> QED BY <2>2, <2>3 DEF Injection, IsInjective
<1>3. IsFiniteSet(DOMAIN content) /\ IsFiniteSet(Others)
  BY PathAssumption, FS_Subset DEF TypeOK, IsContent
<1>4. Cardinality(2..Len(stack)) <= Cardinality(Others)
  BY <1>2, <1>3, FS_Injection DEF ExistsInjection
<1>5. Cardinality(2..Len(stack)) = MaxDepth
  BY <1>1, FS_Interval
<1>6. Cardinality(DOMAIN content) = Cardinality(Others) + 1
  <2>1. p \in DOMAIN content
    OBVIOUS
  <2> QED BY <1>3, <2>1, FS_RemoveElement, FS_CardinalityType
<1>7. Cardinality(Others) \in Nat
  BY <1>3, FS_CardinalityType
<1> QED BY <1>1, <1>4, <1>5, <1>6, <1>7

LEMMA DepthStep == TypeOK /\ CallsDistinct /\ DepthErrorJustified /\ [Next]_vars => DepthErrorJustified'
<1> SUFFICES ASSUME TypeOK, CallsDistinct, DepthErrorJustified, [Next]_vars
             PROVE  DepthErrorJustified'
  OBVIOUS
<1>0. content' = content
  BY StackStep
<1>1. CASE IncludeTooDeep
  <2>1. Current.path \in DOMAIN content \ included /\ Len(stack) > MaxDepth
    BY <1>1 DEF IncludeTooDeep
  <2> QED BY <1>0, <2>1, HighStackManyFiles DEF DepthErrorJustified
<1>2. ASSUME ~IncludeTooDeep PROVE pc' = pc \/ pc' \in {"done", "stray", "error"}
  BY <1>2 DEF Next, Conditional, Directive, OpenGroup, Elif, Else, Endif, StrayDirective, Define,
         Undef, PragmaOnce, Error, Unknown, IncludeMissing, IncludeAgain, Include, Skip, Text,
         EndFile, vars
<1> QED BY <1>0, <1>1, <1>2 DEF DepthErrorJustified

LEMMA InitDepth == Init => DepthErrorJustified
BY DEF Init, Begin, DepthErrorJustified

(* "Maximum include depth exceeded" is raised only when there are more     *)
(* distinct files than the limit, never by files that include each other   *)
(* for ever (preprocessor.cpp:171, preprocessor.h:61).                     *)
THEOREM DepthErrorsAreJustified == Spec => []DepthErrorJustified
BY TypeCorrect, CallsAreDistinct, InitDepth, DepthStep, PTL DEF Spec

-----------------------------------------------------------------------------
(* Headers are pasted once.                                                *)

(* What a walk of a file on the stack will emit is behind what was emitted *)
(* of it; the main file is excepted once it is recorded.                   *)
Fresh ==
  \A i \in 1..Len(stack), j \in 1..Len(output) :
    (output[j].path = stack[i].path /\ (stack[i].path # Main \/ Main \notin included))
      => output[j].line < stack[i].next

PasteInv == PathsKnown /\ Fresh /\ PastedOnce

LEMMA OutputKept ==
  ASSUME [Next]_vars
  PROVE  included \subseteq included' /\ (~Text => output' = output)
BY DEF Next, Conditional, Directive, OpenGroup, Elif, Else, Endif, StrayDirective, Define,
       Undef, PragmaOnce, Error, Unknown, IncludeMissing, IncludeAgain, Include,
       IncludeTooDeep, Skip, Text, EndFile, vars

(* What the frames of the next state have to do with the ones of this.     *)
LEMMA FramesFollow ==
  ASSUME TypeOK, [Next]_vars, ~Include
  PROVE  \A i \in 1..Len(stack') :
           /\ i \in 1..Len(stack)
           /\ stack'[i].path = stack[i].path
           /\ stack'[i].next = stack[i].next \/ stack'[i].next = stack[i].next + 1
<1>1. CASE StaysIn
  <2>1. PICK groups \in Seq(Group) : Advances(groups)
    BY <1>1, StaysInAdvances
  <2>2. stack # << >> /\ Len(stack) \in Nat \ {0}
    BY <1>1, StaysInAdvances, TopTyped
  <2> QED BY <2>1, <2>2 DEF Advances, Top
<1>2. CASE EndFile
  <2>1. Len(stack) \in Nat \ {0} /\ Pops
    BY <1>2, EndFilePops, TopTyped
  <2> QED BY <2>1 DEF Pops
<1>3. CASE StopsOrStutters
  BY <1>3 DEF StopsOrStutters
<1> QED BY <1>1, <1>2, <1>3, StepKinds

LEMMA OutputAppended ==
  ASSUME TypeOK, NEW e \in [path : Path, line : Nat, table : Table], output' = Append(output, e)
  PROVE  /\ DOMAIN output = 1..Len(output) /\ Len(output) \in Nat
         /\ DOMAIN output' = 1..(Len(output) + 1) /\ Len(output') = Len(output) + 1
         /\ \A j \in DOMAIN output' : (j \in DOMAIN output /\ output'[j] = output[j])
                                      \/ (j = Len(output) + 1 /\ output'[j] = e)
<1>1. Len(output) \in Nat /\ DOMAIN output = 1..Len(output)
  BY LenProperties DEF TypeOK
<1>2. /\ output' \in Seq([path : Path, line : Nat, table : Table])
      /\ Len(output') = Len(output) + 1
      /\ \A i \in 1..Len(output) : output'[i] = output[i]
      /\ output'[Len(output) + 1] = e
  BY AppendProperties DEF TypeOK
<1>3. DOMAIN output' = 1..(Len(output) + 1)
  BY <1>2, LenProperties
<1> QED BY <1>1, <1>2, <1>3

LEMMA PathsStep ==
  TypeOK /\ TypeOK' /\ CallsDistinct /\ PathsKnown /\ [Next]_vars => PathsKnown'
<1> SUFFICES ASSUME TypeOK, TypeOK', CallsDistinct, PathsKnown, [Next]_vars
             PROVE  PathsKnown'
  OBVIOUS
<1>1. stack' # << >> => stack'[1].path = Main
  <2>1. ASSUME stack' # << >> PROVE 1 \in 1..Len(stack')
    BY <2>1, EmptySeq DEF TypeOK
  <2>2. 1 \in 1..Len(stack) => stack # << >>
    OBVIOUS
  <2>3. CASE ~Include
    BY <2>1, <2>2, <2>3, FramesFollow DEF PathsKnown
  <2>4. CASE Include
    BY <2>4, IncludePushes, TopTyped DEF PathsKnown, Pushes, Top
  <2> QED BY <2>3, <2>4
<1>2. \A j \in DOMAIN output' : output'[j].path \in included' \cup {Main}
  <2>1. CASE ~Text
    BY <2>1, OutputKept DEF PathsKnown
  <2>2. CASE Text
    <3> DEFINE e == [path |-> Top.path, line |-> Top.next, table |-> macros]
    <3>1. e \in [path : Path, line : Nat, table : Table] /\ output' = Append(output, e)
      BY <2>2, CurrentTyped DEF Text, Active, TypeOK, Frame
    <3>2. Top.path \in included \cup {Main}
      <4>1. stack # << >> /\ Len(stack) \in Nat \ {0}
        BY <2>2, TopTyped DEF Text, Active, AtLine
      <4>2. CASE Len(stack) = 1
        BY <4>1, <4>2 DEF PathsKnown, Top
      <4>3. CASE Len(stack) # 1
        <5>1. Len(stack) \in 2..Len(stack)
          BY <4>1, <4>3
        <5> QED BY <5>1 DEF CallsDistinct, Top
      <4> QED BY <4>2, <4>3
    <3>3. e.path = Top.path
      OBVIOUS
    <3> HIDE DEF e
    <3>4. \A j \in DOMAIN output' : (j \in DOMAIN output /\ output'[j] = output[j]) \/ output'[j] = e
      BY <3>1, OutputAppended
    <3> QED BY <3>2, <3>3, <3>4, OutputKept DEF PathsKnown
  <2> QED BY <2>1, <2>2
<1> QED BY <1>1, <1>2 DEF PathsKnown

LEMMA FreshStep ==
  TypeOK /\ TypeOK' /\ CallsDistinct /\ PathsKnown /\ Fresh /\ [Next]_vars => Fresh'
<1> SUFFICES ASSUME TypeOK, TypeOK', CallsDistinct, PathsKnown, Fresh, [Next]_vars
             PROVE  Fresh'
  OBVIOUS
<1> SUFFICES ASSUME NEW i \in 1..Len(stack'), NEW j \in 1..Len(output'),
                    output'[j].path = stack'[i].path,
                    stack'[i].path # Main \/ Main \notin included'
             PROVE  output'[j].line < stack'[i].next
  BY DEF Fresh
<1>0. /\ Len(output) \in Nat /\ DOMAIN output = 1..Len(output)
      /\ Len(stack) \in Nat /\ \A n \in 1..Len(stack) : stack[n].next \in Nat
      /\ \A n \in 1..Len(output) : output[n].line \in Nat
  <2>1. /\ Len(output) \in Nat /\ DOMAIN output = 1..Len(output) /\ Len(stack) \in Nat
    BY LenProperties DEF TypeOK
  <2>2. \A n \in 1..Len(stack) : stack[n] \in Frame
    BY ElementOfSeq DEF TypeOK
  <2>3. \A n \in 1..Len(output) : output[n] \in [path : Path, line : Nat, table : Table]
    BY ElementOfSeq DEF TypeOK
  <2> QED BY <2>1, <2>2, <2>3 DEF Frame
<1>1. CASE Include
  <2> DEFINE p == Current.path
  <2>1. /\ Len(stack) \in Nat \ {0} /\ p \notin included /\ included' = included \cup {p}
        /\ Pushes(p) /\ output' = output
    BY <1>1, IncludePushes, TopTyped
  <2> HIDE DEF p
  <2>2. CASE i = Len(stack) + 1
    <3>1. stack'[i].path = p
      BY <2>1, <2>2 DEF Pushes, Start
    <3>2. output[j].path \in included \cup {Main}
      BY <1>0, <2>1 DEF PathsKnown
    <3> QED BY <2>1, <3>1, <3>2
  <2>3. CASE i # Len(stack) + 1
    <3>1. i \in 1..Len(stack) /\ stack'[i].path = stack[i].path
      BY <2>1, <2>3 DEF Pushes, Top
    <3>2. stack'[i].next = stack[i].next \/ stack'[i].next = stack[i].next + 1
      BY <2>1, <3>1 DEF Pushes, Top
    <3>3. output[j].line < stack[i].next
      BY <2>1, <3>1 DEF Fresh
    <3> QED BY <1>0, <2>1, <3>1, <3>2, <3>3
  <2> QED BY <2>2, <2>3
<1>2. CASE ~Include /\ ~Text
  <2>1. /\ i \in 1..Len(stack) /\ stack'[i].path = stack[i].path
        /\ stack'[i].next = stack[i].next \/ stack'[i].next = stack[i].next + 1
    BY <1>2, FramesFollow
  <2>2. output' = output /\ included \subseteq included'
    BY <1>2, OutputKept
  <2>3. output[j].line < stack[i].next
    BY <2>1, <2>2 DEF Fresh
  <2> QED BY <1>0, <2>1, <2>2, <2>3
<1>3. CASE Text
  <2> DEFINE e == [path |-> Top.path, line |-> Top.next, table |-> macros]
  <2>1. /\ e \in [path : Path, line : Nat, table : Table] /\ output' = Append(output, e)
        /\ stack # << >> /\ Advance(Top.groups) /\ included' = included
    BY <1>3, CurrentTyped DEF Text, Active, AtLine, TypeOK, Frame
  <2>2. /\ i \in 1..Len(stack) /\ stack'[i].path = stack[i].path
        /\ stack'[i].next = stack[i].next \/ stack'[i].next = stack[i].next + 1
    <3>1. ~Include
      BY <1>3 DEF Include, Text, Active, AtLine
    <3> QED BY <3>1, FramesFollow
  <2>3. e.path = Top.path /\ e.line = Top.next
    OBVIOUS
  <2>4. Len(stack) \in Nat \ {0} /\ stack'[Len(stack)].next = Top.next + 1
    <3>1. Top.groups \in Seq(Group) /\ Len(stack) \in Nat \ {0}
      BY <2>1, TopTyped
    <3>2. Advances(Top.groups)
      BY <2>1, <3>1, AdvanceStack
    <3> QED BY <3>1, <3>2 DEF Advances
  <2> HIDE DEF e
  <2>5. CASE output'[j] = e
    <3>1. stack[i].path = Top.path
      BY <2>2, <2>3, <2>5
    <3>2. i = Len(stack)
      <4>1. CASE i # 1
        BY <2>2, <2>4, <3>1, <4>1 DEF CallsDistinct, Top
      <4>2. CASE i = 1 /\ Len(stack) # 1
        <5>1. Top.path = Main
          BY <2>1, <3>1, <4>2 DEF PathsKnown
        <5>2. Main \in included
          <6>1. \A n \in Nat \ {0} : n # 1 => n \in 2..n
            OBVIOUS
          <6>2. Len(stack) \in 2..Len(stack)
            BY <2>4, <4>2, <6>1
          <6> QED BY <5>1, <6>2 DEF CallsDistinct, Top
        <5> QED BY <2>1, <2>2, <3>1, <5>1, <5>2
      <4> QED BY <4>1, <4>2
    <3> QED BY <1>0, <2>3, <2>4, <2>5, <3>2 DEF Top
  <2>6. CASE j \in DOMAIN output /\ output'[j] = output[j]
    <3>1. output[j].line < stack[i].next
      BY <1>0, <2>1, <2>2, <2>6 DEF Fresh
    <3> QED BY <1>0, <2>2, <2>6, <3>1
  <2>7. j \in DOMAIN output'
    BY <2>1, OutputAppended
  <2> QED BY <2>1, <2>5, <2>6, <2>7, OutputAppended
<1> QED BY <1>1, <1>2, <1>3

LEMMA PasteStep ==
  TypeOK /\ PathsKnown /\ Fresh /\ PastedOnce /\ [Next]_vars => PastedOnce'
<1> SUFFICES ASSUME TypeOK, PathsKnown, Fresh, PastedOnce, [Next]_vars PROVE PastedOnce'
  OBVIOUS
<1>1. CASE ~Text
  BY <1>1, OutputKept DEF PastedOnce
<1>2. CASE Text
  <2> DEFINE e == [path |-> Top.path, line |-> Top.next, table |-> macros]
  <2>1. /\ e \in [path : Path, line : Nat, table : Table] /\ output' = Append(output, e)
        /\ stack # << >> /\ included' = included
    BY <1>2, CurrentTyped DEF Text, Active, AtLine, TypeOK, Frame
  <2>2. e.path = Top.path /\ e.line = Top.next /\ Top.next \in Nat
    BY <2>1, TopTyped DEF Frame
  <2> HIDE DEF e
  <2>3. /\ DOMAIN output = 1..Len(output) /\ Len(output) \in Nat
        /\ DOMAIN output' = 1..(Len(output) + 1)
        /\ \A j \in DOMAIN output' : (j \in DOMAIN output /\ output'[j] = output[j])
                                     \/ (j = Len(output) + 1 /\ output'[j] = e)
    BY <2>1, OutputAppended
  <2>4. SUFFICES ASSUME NEW i \in DOMAIN output', NEW j \in DOMAIN output', i < j,
                        output'[i].path = output'[j].path, output'[i].line = output'[j].line
                 PROVE  output'[i].path = Main /\ Main \in included'
    BY DEF PastedOnce
  <2>5. i \in DOMAIN output /\ output'[i] = output[i] /\ output[i].line \in Nat
    <3>1. i \in DOMAIN output /\ output'[i] = output[i]
      BY <2>3, <2>4
    <3>2. output[i] \in [path : Path, line : Nat, table : Table]
      BY <2>3, <3>1, ElementOfSeq DEF TypeOK
    <3> QED BY <3>1, <3>2
  <2>6. CASE output'[j] = e
    <3>1. output[i].path = stack[Len(stack)].path /\ output[i].line = stack[Len(stack)].next
      BY <2>2, <2>4, <2>5, <2>6 DEF Top
    <3>2. Len(stack) \in 1..Len(stack) /\ stack[Len(stack)].next \in Nat
      BY <2>1, <2>2, TopTyped DEF Top
    <3>3. ~(output[i].line < stack[Len(stack)].next)
      BY <2>5, <3>1, <3>2
    <3>4. output[i].path = Main /\ Main \in included
      BY <2>3, <2>5, <3>1, <3>2, <3>3 DEF Fresh
    <3> QED BY <2>1, <2>5, <3>4
  <2>7. CASE j \in DOMAIN output /\ output'[j] = output[j]
    BY <2>1, <2>4, <2>5, <2>7 DEF PastedOnce
  <2> QED BY <2>3, <2>6, <2>7
<1> QED BY <1>1, <1>2

LEMMA InitPaste == Init => PasteInv
<1> SUFFICES ASSUME Init PROVE PasteInv
  OBVIOUS
<1>1. stack = <<Start(Main)>> /\ stack[1].path = Main /\ output = << >> /\ DOMAIN output = {}
  BY DEF Init, Begin, Start
<1>2. Len(output) = 0
  BY <1>1, EmptySeq
<1> QED BY <1>1, <1>2 DEF PasteInv, PathsKnown, Fresh, PastedOnce

(* No line of a header is emitted twice, whatever includes whatever; only  *)
(* the main file may be, when a file includes it                           *)
(* (preprocessor.cpp:342-380).                                             *)
THEOREM HeadersPastedOnce == Spec => []PastedOnce
<1>1. TypeOK /\ TypeOK' /\ CallsDistinct /\ PasteInv /\ [Next]_vars => PasteInv'
  BY PathsStep, FreshStep, PasteStep DEF PasteInv
<1>2. PasteInv => PastedOnce
  BY DEF PasteInv
<1> QED BY <1>1, <1>2, TypeCorrect, CallsAreDistinct, InitPaste, PTL DEF Spec
-----------------------------------------------------------------------------
(* The calls of expand_macros are kept in two lists, frames with what each *)
(* has read and names with the macro it is for; one is the other and the   *)
(* outermost call.  What a text is replaced by plays no part: a macro is   *)
(* only called when its name is not in expanding, and every call takes its *)
(* own name away again.                                                    *)
CallsMatch ==
  /\ \E T : frames \in Seq(T)
  /\ names \in Seq(DOMAIN table)
  /\ IF frames = << >> THEN names = << >> ELSE Len(frames) = Len(names) + 1

Inv == CallsMatch /\ NoReentry

-----------------------------------------------------------------------------
(* The last element of a sequence is taken away or replaced.               *)
LEMMA FrontOf ==
  ASSUME NEW T, NEW s \in Seq(T), s # << >>
  PROVE  LET r == SubSeq(s, 1, Len(s) - 1)
         IN  /\ r \in Seq(T) /\ Len(r) = Len(s) - 1 /\ Len(s) \in Nat \ {0}
             /\ \A i \in 1..(Len(s) - 1) : r[i] = s[i]
<1>1. Len(s) \in Nat \ {0} /\ DOMAIN s = 1..Len(s)
  BY EmptySeq, LenProperties
<1>2. \A i \in 1..(Len(s) - 1) : s[i] \in T
  BY <1>1, ElementOfSeq
<1> QED BY <1>1, <1>2, SubSeqProperties

LEMMA LastReplaced ==
  ASSUME NEW T, NEW s \in Seq(T), s # << >>, NEW x
  PROVE  LET r == Append(SubSeq(s, 1, Len(s) - 1), x)
         IN  r \in Seq(T \cup {x}) /\ Len(r) = Len(s)
<1> DEFINE front == SubSeq(s, 1, Len(s) - 1)
<1>1. front \in Seq(T) /\ Len(front) = Len(s) - 1 /\ Len(s) \in Nat \ {0}
  BY FrontOf
<1>2. front \in Seq(T \cup {x})
  BY <1>1, SeqMonotonic
<1> HIDE DEF front
<1>3. Append(front, x) \in Seq(T \cup {x}) /\ Len(Append(front, x)) = Len(front) + 1
  BY <1>2, AppendProperties
<1> QED BY <1>1, <1>3 DEF front

(* A call that reads on leaves the list of the calls as long as it was.    *)
LEMMA PutKeepsCalls ==
  ASSUME CallsMatch, frames # << >>, NEW piece, NEW at, Put(piece, at), UNCHANGED <<table, names>>
  PROVE  CallsMatch'
<1> DEFINE x == Reading(Inner.text, at, Inner.result \o piece)
<1>1. PICK T : frames \in Seq(T)
  BY DEF CallsMatch
<1>2. frames' = Append(SubSeq(frames, 1, Len(frames) - 1), x)
  BY DEF Put, Callers
<1> HIDE DEF x
<1>3. frames' \in Seq(T \cup {x}) /\ Len(frames') = Len(frames)
  BY <1>1, <1>2, LastReplaced
<1>4. frames' # << >>
  BY <1>1, <1>3, EmptySeq
<1> QED BY <1>3, <1>4 DEF CallsMatch

-----------------------------------------------------------------------------
(* A call: its macro is not one of those that are being expanded.          *)
LEMMA CallStays ==
  ASSUME Inv, frames # << >>, Replaced, NEW text, NEW at, Call(text, at)
  PROVE  Inv'
<1> DEFINE x == Reading(Inner.text, at, Inner.result)
           y == Reading(text, 1, << >>)
           front == SubSeq(frames, 1, Len(frames) - 1)
<1>1. PICK T : frames \in Seq(T)
  BY DEF Inv, CallsMatch
<1>2. frames' = front \o <<x, y>> /\ names' = Append(names, Id)
      /\ expanding' = expanding \cup {Id} /\ table' = table
  BY DEF Call, Callers
<1>3. Id \in DOMAIN table /\ Id \notin expanding
  BY DEF Replaced
<1>4. names \in Seq(DOMAIN table) /\ Len(frames) = Len(names) + 1
      /\ Len(names) \in Nat /\ DOMAIN names = 1..Len(names)
  BY LenProperties DEF Inv, CallsMatch
<1>5. front \in Seq(T) /\ Len(front) = Len(frames) - 1
  BY <1>1, FrontOf
<1> HIDE DEF x, y, front
<1>6. CallsMatch'
  <2>1. front \in Seq(T \cup {x, y}) /\ <<x, y>> \in Seq(T \cup {x, y}) /\ Len(<<x, y>>) = 2
    BY <1>5, SeqMonotonic
  <2>2. frames' \in Seq(T \cup {x, y}) /\ Len(frames') = Len(front) + 2
    BY <1>2, <2>1, ConcatProperties
  <2>3. names' \in Seq(DOMAIN table) /\ Len(names') = Len(names) + 1
    BY <1>2, <1>3, <1>4, AppendProperties
  <2>4. frames' # << >> /\ Len(frames') = Len(names') + 1
    BY <1>4, <1>5, <2>2, <2>3, EmptySeq
  <2> QED BY <1>2, <2>2, <2>3, <2>4 DEF CallsMatch
<1>7. NoReentry'
  <2>1. /\ DOMAIN names' = 1..(Len(names) + 1)
        /\ \A i \in 1..Len(names) : names'[i] = names[i]
        /\ names'[Len(names) + 1] = Id
    BY <1>2, <1>3, <1>4, AppendProperties, LenProperties
  <2>2. /\ expanding = {names[i] : i \in 1..Len(names)}
        /\ expanding \subseteq DOMAIN table
        /\ \A i, j \in 1..Len(names) : names[i] = names[j] => i = j
    BY <1>4 DEF Inv, NoReentry
  <2>3. 1..(Len(names) + 1) = 1..Len(names) \cup {Len(names) + 1}
        /\ Len(names) + 1 \notin 1..Len(names)
    BY <1>4
  <2>4. expanding' = {names'[i] : i \in DOMAIN names'}
    BY <1>2, <2>1, <2>2, <2>3, SMTT(60)
  <2>5. \A i, j \in DOMAIN names' : names'[i] = names'[j] => i = j
    BY <1>3, <2>1, <2>2, <2>3
  <2>6. expanding' \subseteq DOMAIN table'
    BY <1>2, <1>3, <2>2
  <2> QED BY <2>4, <2>5, <2>6 DEF NoReentry
<1> QED BY <1>6, <1>7 DEF Inv

(* A return: the names of the calls are distinct, so the one that is taken *)
(* away is not the name of another.                                        *)
LEMMA ReturnStays ==
  ASSUME Inv, Return
  PROVE  Inv'
<1> DEFINE caller == frames[Len(frames) - 1]
           x == Reading(caller.text, caller.at, caller.result \o Inner.result)
<1>1. PICK T : frames \in Seq(T)
  BY DEF Inv, CallsMatch
<1>2. /\ frames' = Append(SubSeq(frames, 1, Len(frames) - 2), x)
      /\ names' = SubSeq(names, 1, Len(names) - 1)
      /\ expanding' = expanding \ {Last(names)} /\ table' = table
  BY DEF Return
<1> HIDE DEF x
<1>3. /\ names \in Seq(DOMAIN table) /\ names # << >>
      /\ Len(names) \in Nat \ {0} /\ DOMAIN names = 1..Len(names)
  BY EmptySeq, LenProperties DEF Inv, CallsMatch, Return
<1>4. Len(frames) = Len(names) + 1
  BY <1>3 DEF Inv, CallsMatch
<1>5. /\ names' \in Seq(DOMAIN table) /\ Len(names') = Len(names) - 1
      /\ \A i \in 1..(Len(names) - 1) : names'[i] = names[i]
  BY <1>2, <1>3, FrontOf
<1>6. CallsMatch'
  <2> DEFINE rest == SubSeq(frames, 1, Len(frames) - 2)
  <2>1. \A i \in 1..(Len(frames) - 2) : frames[i] \in T
    BY <1>1, <1>3, <1>4, ElementOfSeq
  <2>2. rest \in Seq(T) /\ Len(rest) = Len(frames) - 2
    BY <1>1, <1>3, <1>4, <2>1, SubSeqProperties
  <2>3. rest \in Seq(T \cup {x})
    BY <2>2, SeqMonotonic
  <2> HIDE DEF rest
  <2>4. frames' \in Seq(T \cup {x}) /\ Len(frames') = Len(rest) + 1
    BY <1>2, <2>3, AppendProperties DEF rest
  <2>5. frames' # << >> /\ Len(frames') = Len(names') + 1
    BY <1>3, <1>4, <1>5, <2>2, <2>4, EmptySeq
  <2> QED BY <1>2, <1>5, <2>4, <2>5 DEF CallsMatch
<1>7. NoReentry'
  <2>1. DOMAIN names' = 1..(Len(names) - 1)
    BY <1>5, LenProperties
  <2>2. /\ expanding = {names[i] : i \in 1..Len(names)}
        /\ expanding \subseteq DOMAIN table
        /\ \A i, j \in 1..Len(names) : names[i] = names[j] => i = j
    BY <1>3 DEF Inv, NoReentry
  <2>3. 1..Len(names) = 1..(Len(names) - 1) \cup {Len(names)}
        /\ Len(names) \notin 1..(Len(names) - 1)
    BY <1>3
  <2>4. Last(names) = names[Len(names)]
    BY DEF Last
  <2>5. expanding' = {names'[i] : i \in DOMAIN names'}
    <3>1. \A i \in 1..(Len(names) - 1) :
            names[i] \in expanding /\ names[i] # names[Len(names)]
      BY <1>3, <2>2, <2>3
    <3>2. expanding = {names[i] : i \in 1..(Len(names) - 1)} \cup {names[Len(names)]}
      BY <2>2, <2>3
    <3>3. expanding' = {names[i] : i \in 1..(Len(names) - 1)}
      BY <1>2, <2>4, <3>1, <3>2
    <3> QED BY <1>5, <2>1, <3>3
  <2>6. \A i, j \in DOMAIN names' : names'[i] = names'[j] => i = j
    BY <1>5, <2>1, <2>2, <2>3
  <2>7. expanding' \subseteq DOMAIN table'
    BY <1>2, <2>2
  <2> QED BY <2>5, <2>6, <2>7 DEF NoReentry
<1> QED BY <1>6, <1>7 DEF Inv

(* A step of the expansion.                                                *)
LEMMA ExpandStays ==
  ASSUME Inv, Expand
  PROVE  Inv'
<1>1. ASSUME NEW piece, NEW at, frames # << >>, Put(piece, at), UNCHANGED <<table, names, expanding>>
      PROVE  Inv'
  BY <1>1, PutKeepsCalls DEF Inv, NoReentry
<1>2. CASE CopyQuoted
  BY <1>1, <1>2 DEF CopyQuoted, Reads
<1>3. CASE CopyIdentifier
  BY <1>1, <1>3 DEF CopyIdentifier, Reads
<1>4. CASE CopyOther
  BY <1>1, <1>4 DEF CopyOther, Reads
<1>5. CASE ReplaceObject
  BY <1>5, CallStays DEF ReplaceObject, Reads
<1>6. CASE ReplaceFunction
  BY <1>6, CallStays DEF ReplaceFunction, Reads
<1>7. CASE Return
  BY <1>7, ReturnStays
<1> QED BY <1>2, <1>3, <1>4, <1>5, <1>6, <1>7 DEF Expand

-----------------------------------------------------------------------------
(* The steps of the two together.                                          *)
LEMMA TextStays == Inv /\ [TextNext]_textVars => Inv'
<1> SUFFICES ASSUME Inv, [TextNext]_textVars PROVE Inv'
  OBVIOUS
<1>1. CASE StartText
  <2>1. frames = << >> /\ names = << >> /\ names' = << >> /\ expanding' = expanding
    BY <1>1 DEF StartText, Idle, Inv, CallsMatch
  <2> DEFINE r == Reading(TextOf[Current.tag], 1, << >>)
  <2>2. frames' = <<r>>
    BY <1>1 DEF StartText
  <2> HIDE DEF r
  <2>3. frames' \in Seq({r}) /\ Len(frames') = 1 /\ frames' # << >>
    BY <2>2, EmptySeq
  <2>4. names' \in Seq(DOMAIN table') /\ Len(names') = 0 /\ DOMAIN names' = {} /\ DOMAIN names = {}
    BY <2>1, EmptySeq
  <2>5. expanding = {} /\ expanding' = {}
    BY <2>1, <2>4 DEF Inv, NoReentry
  <2> QED BY <2>3, <2>4, <2>5 DEF Inv, CallsMatch, NoReentry
<1>2. CASE ExpandText
  BY <1>2, ExpandStays DEF ExpandText
<1>3. CASE EmitText
  <2>1. Len(frames) = 1 /\ frames' = << >> /\ names' = names /\ expanding' = expanding
    BY <1>3 DEF EmitText, Finished
  <2>2. frames # << >>
    BY <2>1
  <2>3. names \in Seq(DOMAIN table) /\ Len(names) \in Nat /\ Len(names) = 0
    BY <2>1, <2>2, LenProperties DEF Inv, CallsMatch
  <2>4. names = << >> /\ DOMAIN names = {}
    BY <2>3, EmptySeq
  <2>5. names' \in Seq(DOMAIN table') /\ frames' \in Seq({})
    BY <2>1, <2>4, EmptySeq
  <2>6. expanding = {}
    BY <2>4 DEF Inv, NoReentry
  <2> QED BY <2>1, <2>4, <2>5, <2>6 DEF Inv, CallsMatch, NoReentry
<1>4. CASE WalkOn \/ UNCHANGED textVars
  BY <1>4 DEF WalkOn, textVars, mvars, Inv, CallsMatch, NoReentry
<1> QED BY <1>1, <1>2, <1>3, <1>4 DEF TextNext

LEMMA BeginStays == Init /\ BeginText => Inv
<1> SUFFICES ASSUME BeginText PROVE Inv
  OBVIOUS
<1>1. frames = << >> /\ names = << >> /\ expanding = {}
  BY DEF BeginText
<1>2. frames \in Seq({}) /\ names \in Seq(DOMAIN table) /\ DOMAIN names = {}
  BY <1>1, EmptySeq
<1> QED BY <1>1, <1>2 DEF Inv, CallsMatch, NoReentry

LEMMA Invariant == TextSpec => []Inv
BY BeginStays, TextStays, PTL DEF TextSpec

(* No macro is replaced inside its own expansion, whatever the bodies of   *)
(* the macros name and whatever arguments put together: the shared set of  *)
(* expand_macros holds the macros of the calls going on, each once.        *)
THEOREM MacrosNotReentered == TextSpec => []NoReentry
<1>1. Inv => NoReentry
  BY DEF Inv
<1> QED BY Invariant, <1>1, PTL

(* expand_macros calls itself no deeper than there are macros.             *)
THEOREM RecursionBounded == TextSpec => []DepthBounded
<1>1. Inv => DepthBounded
  <2> SUFFICES ASSUME Inv, IsFiniteSet(DOMAIN table)
               PROVE  Len(names) <= Cardinality(DOMAIN table)
    BY DEF DepthBounded
  <2>1. names \in Seq(DOMAIN table) /\ Len(names) \in Nat /\ DOMAIN names = 1..Len(names)
    BY LenProperties DEF Inv, CallsMatch
  <2>2. names \in Injection(1..Len(names), DOMAIN table)
    BY <2>1, ElementOfSeq DEF Inv, NoReentry, Injection, IsInjective
  <2>3. IsFiniteSet(1..Len(names)) /\ Cardinality(1..Len(names)) = Len(names)
    <3>1. /\ IsFiniteSet(1..Len(names))
          /\ Cardinality(1..Len(names)) = IF 1 > Len(names) THEN 0 ELSE Len(names) - 1 + 1
      BY <2>1, FS_Interval
    <3> QED BY <2>1, <3>1
  <2> QED BY <2>2, <2>3, FS_Injection
<1> QED BY Invariant, <1>1, PTL

(* The expansion is hidden from the walk: seen without it, every behaviour *)
(* of the two together is one of the walk alone, so what is proved of the  *)
(* walk holds of the preprocessor whatever the lines of text expand to.    *)
THEOREM WalkIsFollowed == TextSpec => Spec
<1>1. [TextNext]_textVars => [Next]_vars
  <2>1. EmitText => Next
    BY DEF EmitText, Next
  <2>2. WalkOn => Next
    BY DEF WalkOn, Next
  <2>3. StartText \/ ExpandText \/ UNCHANGED textVars => UNCHANGED vars
    BY DEF StartText, ExpandText, textVars
  <2> QED BY <2>1, <2>2, <2>3 DEF TextNext
<1> QED BY <1>1, PTL DEF TextSpec, Spec
=============================================================================
