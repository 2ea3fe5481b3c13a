--------------------------- MODULE SemanticProofs ---------------------------
(***************************************************************************)
(* Proofs about SemanticAnalyzer, for every unit.                          *)
(*                                                                         *)
(* Every step takes the first item off what is left to do and puts some    *)
(* items in its place.  How many items of a kind wait is therefore changed *)
(* by the first one and by those put in its place only (NextCounts), and   *)
(* the counters and scopes of the analyser follow.  The return type that   *)
(* holds is the one the innermost function set, and each function that     *)
(* waits to be left has saved the one of the function around it, or none   *)
(* when there is no such function.                                         *)
(*                                                                         *)
(* The tables map names to types because everything put into them comes    *)
(* from a node or from another table.  An operator takes its type from an  *)
(* operand; that type is there because the operand is visited before the   *)
(* operator is typed (Awaited).                                            *)
(***************************************************************************)
EXTENDS SemanticAnalyzer, SequenceTheorems, FiniteSetTheorems, WellFoundedInduction, TLAPS

-----------------------------------------------------------------------------
(* The nodes of a set in order.                                            *)
LEMMA InOrderRight ==
  ASSUME NEW n \in Nat, NEW nodes \in SUBSET (1..n)
  PROVE  InOrder(nodes) \in Seq(nodes)
<1> DEFINE c == Cardinality(nodes)
           upTo(k) == {m \in nodes : m <= k}
           rank == [k \in nodes |-> Cardinality(upTo(k))]
<1>1. IsFiniteSet(nodes) /\ c \in Nat
  <2>1. IsFiniteSet(1..n)
    BY FS_Interval
  <2> QED BY <2>1, FS_Subset, FS_CardinalityType
<1>2. \A k \in nodes : IsFiniteSet(upTo(k)) /\ Cardinality(upTo(k)) \in Nat /\ Cardinality(upTo(k)) <= c
  <2> SUFFICES ASSUME NEW k \in nodes
               PROVE  IsFiniteSet(upTo(k)) /\ Cardinality(upTo(k)) \in Nat /\ Cardinality(upTo(k)) <= c
    OBVIOUS
  <2>1. upTo(k) \in SUBSET nodes
    OBVIOUS
  <2> HIDE DEF upTo
  <2> QED BY <1>1, <2>1, FS_Subset, FS_CardinalityType
<1>3. \A k \in nodes : Cardinality(upTo(k)) # 0
  <2>1. \A k \in nodes : k \in upTo(k)
    OBVIOUS
  <2> HIDE DEF upTo
  <2> QED BY <1>2, <2>1, FS_EmptySet
<1>4. \A k, m \in nodes : k < m => Cardinality(upTo(k)) # Cardinality(upTo(m))
  <2> SUFFICES ASSUME NEW k \in nodes, NEW m \in nodes, k < m
               PROVE  Cardinality(upTo(k)) # Cardinality(upTo(m))
    OBVIOUS
  <2>0. \A x \in nodes : x \in Nat
    OBVIOUS
  <2>1. upTo(k) \in SUBSET upTo(m) /\ m \in upTo(m) /\ m \notin upTo(k)
    <3>1. \A x \in nodes : x <= k => x <= m
      BY <2>0
    <3>2. m <= m /\ ~(m <= k)
      BY <2>0
    <3> QED BY <3>1, <3>2
  <2>2. IsFiniteSet(upTo(m))
    BY <1>2
  <2> HIDE DEF upTo
  <2> QED BY <2>1, <2>2, FS_Subset
<1> HIDE DEF upTo
<1>5. rank \in [nodes -> 1..c]
  BY <1>1, <1>2, <1>3
<1>6. \A k, m \in nodes : rank[k] = rank[m] => k = m
  <2> SUFFICES ASSUME NEW k \in nodes, NEW m \in nodes, k # m PROVE rank[k] # rank[m]
    OBVIOUS
  <2>1. k < m \/ m < k
    OBVIOUS
  <2> QED BY <1>4, <2>1
<1>7. rank \in Injection(nodes, 1..c)
  BY <1>5, <1>6 DEF Injection, IsInjective
<1>8. IsFiniteSet(1..c) /\ Cardinality(1..c) = c
  BY <1>1, FS_Interval
<1>9. rank \in Surjection(nodes, 1..c)
  BY <1>7, <1>8, FS_Injection
<1>10. \A j \in 1..c : \E k \in nodes : Cardinality(upTo(k)) = j
  BY <1>9 DEF Surjection
<1>11. \A j \in 1..c : (CHOOSE k \in nodes : Cardinality(upTo(k)) = j) \in nodes
  BY <1>10
<1>12. InOrder(nodes) = [j \in 1..c |-> CHOOSE k \in nodes : Cardinality(upTo(k)) = j]
  BY DEF InOrder, upTo
<1>13. InOrder(nodes) \in [1..c -> nodes]
  BY <1>11, <1>12
<1> QED BY <1>1, <1>13, SeqDef

(* InOrder of children.                                                    *)
LEMMA KidsRight ==
  ASSUME NEW n \in Nat, DOMAIN unit = 1..n, NEW i, NEW roles
  PROVE  KidsOf(i, roles) \in SUBSET (1..n) /\ Kids(i, roles) \in Seq(1..n)
<1>1. KidsOf(i, roles) \in SUBSET (1..n)
  BY DEF KidsOf
<1>2. InOrder(KidsOf(i, roles)) \in Seq(KidsOf(i, roles))
  BY <1>1, InOrderRight
<1>3. InOrder(KidsOf(i, roles)) \in Seq(1..n)
  BY <1>1, <1>2, SeqMonotonic
<1> QED BY <1>1, <1>3 DEF Kids

-----------------------------------------------------------------------------
(* How many items of a step wait.                                          *)
Count(s, step) == Cardinality({k \in DOMAIN s : s[k].step = step})
One(x, step) == IF x.step = step THEN 1 ELSE 0

LEMMA CountFinite ==
  ASSUME NEW S, NEW s \in Seq(S), NEW step
  PROVE  IsFiniteSet({k \in DOMAIN s : s[k].step = step}) /\ Count(s, step) \in Nat
<1> DEFINE A == {k \in DOMAIN s : s[k].step = step}
<1>0. Len(s) \in Nat /\ DOMAIN s = 1..Len(s)
  BY LenProperties
<1>1. IsFiniteSet(1..Len(s)) /\ A \in SUBSET (1..Len(s))
  <2>1. IsFiniteSet(1..Len(s))
    BY <1>0, FS_Interval
  <2> QED BY <1>0, <2>1
<1> HIDE DEF A
<1>2. IsFiniteSet(A) /\ Cardinality(A) \in Nat
  BY <1>1, FS_Subset, FS_CardinalityType
<1> QED BY <1>2 DEF A, Count

LEMMA CountNone ==
  ASSUME NEW S, NEW s \in Seq(S), NEW step, \A k \in DOMAIN s : s[k].step # step
  PROVE  Count(s, step) = 0
<1>1. {k \in DOMAIN s : s[k].step = step} = {}
  OBVIOUS
<1> QED BY <1>1, FS_EmptySet DEF Count

LEMMA CountOne ==
  ASSUME NEW x, NEW step
  PROVE  Count(<<x>>, step) = One(x, step)
<1>1. DOMAIN <<x>> = {1} /\ <<x>>[1] = x
  OBVIOUS
<1>2. CASE x.step = step
  <2>1. {k \in DOMAIN <<x>> : <<x>>[k].step = step} = {1}
    BY <1>1, <1>2
  <2> QED BY <1>2, <2>1, FS_Singleton DEF Count, One
<1>3. CASE x.step # step
  <2>1. {k \in DOMAIN <<x>> : <<x>>[k].step = step} = {}
    BY <1>1, <1>3
  <2> QED BY <1>3, <2>1, FS_EmptySet DEF Count, One
<1> QED BY <1>2, <1>3

LEMMA CountConcat ==
  ASSUME NEW S, NEW s \in Seq(S), NEW t \in Seq(S), NEW step
  PROVE  Count(s \o t, step) = Count(s, step) + Count(t, step)
<1>1. PICK m \in Nat, n \in Nat :
        /\ m = Len(s) /\ n = Len(t) /\ DOMAIN s = 1..m /\ DOMAIN t = 1..n
  BY LenProperties
<1>2. PICK r : r = s \o t
  OBVIOUS
<1>3. /\ DOMAIN r = 1..(m + n)
      /\ \A k \in 1..(m + n) : r[k] = IF k <= m THEN s[k] ELSE t[k - m]
  <2>1. r \in Seq(S) /\ Len(r) = m + n
    BY <1>1, <1>2, ConcatProperties
  <2>2. \A k \in 1..(m + n) : r[k] = IF k <= m THEN s[k] ELSE t[k - m]
    BY <1>1, <1>2, ConcatProperties
  <2> QED BY <2>1, <2>2, LenProperties
<1>4. PICK A, B, C :
        /\ A = {k \in DOMAIN s : s[k].step = step}
        /\ B = {k \in DOMAIN t : t[k].step = step}
        /\ C = {k \in DOMAIN r : r[k].step = step}
  OBVIOUS
<1>5. IsFiniteSet(A) /\ IsFiniteSet(B) /\ Cardinality(A) \in Nat /\ Cardinality(B) \in Nat
  BY <1>4, CountFinite, FS_CardinalityType
<1>6. PICK D : D = {k + m : k \in B}
  OBVIOUS
<1>7. IsFiniteSet(D) /\ Cardinality(D) = Cardinality(B)
  <2> DEFINE f == [k \in B |-> k + m]
  <2>1. \A k \in B : k \in Nat
    BY <1>1, <1>4
  <2>2. f \in [B -> D] /\ \A d \in D : \E k \in B : f[k] = d
    BY <1>6
  <2>3. \A k, l \in B : f[k] = f[l] => k = l
    BY <1>1, <2>1
  <2>4. f \in Bijection(B, D)
    BY <2>2, <2>3 DEF Bijection, Injection, Surjection, IsInjective
  <2>5. ExistsBijection(B, D)
    BY <2>4 DEF ExistsBijection
  <2> QED BY <1>5, <2>5, FS_Bijection
<1>8. A \cap D = {}
  BY <1>1, <1>4, <1>6
<1>9. C = A \cup D
  <2>1. ASSUME NEW k \in C PROVE k \in A \cup D
    <3>1. k \in 1..(m + n) /\ r[k].step = step
      BY <1>3, <1>4
    <3>2. CASE k <= m
      BY <1>1, <1>3, <1>4, <3>1, <3>2
    <3>3. CASE ~(k <= m)
      <4>1. k - m \in 1..n /\ (k - m) + m = k /\ r[k] = t[k - m]
        BY <1>3, <3>1, <3>3
      <4> QED BY <1>1, <1>4, <1>6, <3>1, <4>1
    <3> QED BY <3>2, <3>3
  <2>2. ASSUME NEW k \in A PROVE k \in C
    <3>1. k \in 1..(m + n) /\ k <= m /\ s[k].step = step
      BY <1>1, <1>4
    <3> QED BY <1>3, <1>4, <3>1
  <2>3. ASSUME NEW l \in B PROVE l + m \in C
    <3>1. l \in 1..n /\ t[l].step = step
      BY <1>1, <1>4
    <3>2. l + m \in 1..(m + n) /\ ~(l + m <= m) /\ (l + m) - m = l
      BY <3>1
    <3> QED BY <1>3, <1>4, <3>1, <3>2
  <2> QED BY <1>6, <2>1, <2>2, <2>3
<1>10. Cardinality(C) = Cardinality(A) + Cardinality(B)
  <2>1. Cardinality(A \cup D) = Cardinality(A) + Cardinality(D) - Cardinality(A \cap D)
    BY <1>5, <1>7, FS_Union
  <2>2. Cardinality(A \cap D) = 0
    BY <1>8, FS_EmptySet
  <2> QED BY <1>5, <1>7, <1>9, <2>1, <2>2
<1> QED BY <1>2, <1>4, <1>10 DEF Count

LEMMA CountHeadTail ==
  ASSUME NEW S, NEW s \in Seq(S), s # << >>, NEW step
  PROVE  Count(s, step) = One(Head(s), step) + Count(Tail(s), step)
<1>1. Head(s) \in S /\ Tail(s) \in Seq(S) /\ <<Head(s)>> \in Seq(S)
  BY HeadTailProperties
<1>2. s = <<Head(s)>> \o Tail(s)
  BY HeadTailProperties, ConcatProperties, SeqEqual, EmptySeq
<1>3. Count(<<Head(s)>> \o Tail(s), step) = Count(<<Head(s)>>, step) + Count(Tail(s), step)
  BY <1>1, CountConcat
<1> QED BY <1>2, <1>3, CountOne

-----------------------------------------------------------------------------
Leaving == {"leave_scope", "leave_function", "leave_loop", "leave_switch"}
Pending == {x \in Item : x.node \in DOMAIN unit}
Plain == {x \in Pending : x.step \notin Leaving}

Typedefs ==
  \A a \in DOMAIN typedef_map_ : typedef_map_[a] \in Type /\ typedef_map_[a].base # "none"

Counted ==
  /\ scopes \in Seq(ToSet(scopes))
  /\ Len(scopes) = 1 + Count(todo, "leave_scope") + Count(todo, "leave_function")
  /\ loop_depth_ = Count(todo, "leave_loop")
  /\ switch_depth_ = Count(todo, "leave_switch")

(* The functions entered, and the return type each of them saved.          *)
Entered == {k \in DOMAIN todo : todo[k].step = "leave_function"}
Saved ==
  /\ return_type \in Type
  /\ return_type = NoType \/ return_type.base # "none"
  /\ return_type = NoType <=> Entered = {}
  /\ \A k \in Entered : IF \E m \in Entered : k < m
                        THEN todo[k].saved.base # "none" ELSE todo[k].saved = NoType

Inv == unit \in Units /\ todo \in Seq(Pending) /\ Typedefs /\ Counted /\ Saved

-----------------------------------------------------------------------------
LEMMA UnitRight ==
  ASSUME unit \in Units
  PROVE  /\ \E n \in Nat : DOMAIN unit = 1..n
         /\ \A i \in DOMAIN unit : unit[i] \in Node
         /\ \A i \in DOMAIN unit : unit[i].kind \in {"function", "typedef"} => unit[i].type.base # "none"
<1>1. unit \in Seq(Node)
  BY UnitsAssumption
<1>2. Len(unit) \in Nat /\ DOMAIN unit = 1..Len(unit) /\ \A i \in 1..Len(unit) : unit[i] \in Node
  BY <1>1, LenProperties, ElementOfSeq
<1>3. \A i \in DOMAIN unit : unit[i].kind \in {"function", "typedef"} => unit[i].type.base # "none"
  BY UnitsAssumption
<1>4. \E n \in Nat : DOMAIN unit = 1..n
  BY <1>2
<1> HIDE DEF Node
<1> QED BY <1>2, <1>3, <1>4

LEMMA NodeType ==
  ASSUME NEW x \in Node
  PROVE  x.type \in Type
BY DEF Node

(* What is added to the list: nodes to visit, and one item behind them.    *)
LEMMA EachPlain ==
  ASSUME NEW nodes \in Seq(DOMAIN unit), unit \in Units,
         NEW step \in {"collect", "forward", "node"}
  PROVE  Each(step, nodes) \in Seq(Plain)
<1>1. PICK n \in Nat : n = Len(nodes) /\ DOMAIN nodes = 1..n /\ \A k \in 1..n : nodes[k] \in DOMAIN unit
  BY LenProperties, ElementOfSeq
<1>2. \A k \in 1..n : Do(step, nodes[k]) \in Plain
  <2> SUFFICES ASSUME NEW i \in DOMAIN unit PROVE Do(step, i) \in Plain
    BY <1>1
  <2>1. i \in Nat
    BY UnitRight
  <2> QED BY <2>1 DEF Do, Plain, Pending, Item, Leaving, NoType, Type
<1>3. Each(step, nodes) \in [1..n -> Plain]
  BY <1>1, <1>2 DEF Each
<1> QED BY <1>3, SeqDef

LEMMA ChildrenPlain ==
  ASSUME unit \in Units, NEW i, NEW roles, NEW step \in {"collect", "forward", "node"}
  PROVE  Kids(i, roles) \in Seq(DOMAIN unit) /\ Each(step, Kids(i, roles)) \in Seq(Plain)
<1>1. PICK n \in Nat : DOMAIN unit = 1..n
  BY UnitRight
<1>2. Kids(i, roles) \in Seq(DOMAIN unit)
  BY <1>1, KidsRight
<1> QED BY <1>2, EachPlain

LEMMA DoPending ==
  ASSUME unit \in Units, NEW i \in DOMAIN unit
  PROVE  /\ \A step \in {"define", "enter_loop", "enter_switch", "returned", "arguments", "type"} :
              Do(step, i) \in Plain
         /\ \A step \in {"leave_scope", "leave_loop", "leave_switch"} :
              Do(step, i) \in Pending /\ Do(step, i).step = step
         /\ \A t \in Type : [step |-> "leave_function", node |-> i, saved |-> t] \in Pending
<1>1. i \in Nat
  BY UnitRight
<1> QED BY <1>1 DEF Do, Plain, Pending, Item, Leaving, NoType, Type

(* The first item of the list.                                             *)
LEMMA ThisRight ==
  ASSUME unit \in Units, todo \in Seq(Pending), todo # << >>
  PROVE  Head(todo) \in Pending /\ This \in DOMAIN unit
<1>1. Head(todo) \in Pending
  BY HeadTailProperties
<1> QED BY <1>1 DEF This, Pending

-----------------------------------------------------------------------------
(* How the counts change.                                                  *)
LEMMA PlainCounts ==
  ASSUME NEW s \in Seq(Plain), NEW step \in Leaving
  PROVE  s \in Seq(Pending) /\ Count(s, step) = 0
<1>1. \A k \in DOMAIN s : s[k] \in Plain
  BY LenProperties, ElementOfSeq
<1>2. \A k \in DOMAIN s : s[k].step # step
  BY <1>1 DEF Plain
<1>3. Count(s, step) = 0
  BY <1>2, CountNone
<1>4. s \in Seq(Pending)
  BY SeqMonotonic DEF Plain
<1> QED BY <1>3, <1>4

LEMMA CountsPlain ==
  ASSUME todo \in Seq(Pending), todo # << >>, NEW front \in Seq(Plain), Next_(front), unit' = unit
  PROVE  /\ (todo \in Seq(Pending))'
         /\ \A step \in Leaving : /\ Count(todo', step) = Count(todo, step) - One(Head(todo), step)
                                  /\ Count(todo, step) \in Nat /\ Count(todo', step) \in Nat
<1>1. Head(todo) \in Pending /\ Tail(todo) \in Seq(Pending)
  BY HeadTailProperties
<1>2. PICK next : next = todo'
  OBVIOUS
<1>3. front \in Seq(Pending)
  BY SeqMonotonic DEF Plain
<1>4. next = front \o Tail(todo) /\ next \in Seq(Pending)
  BY <1>1, <1>2, <1>3, ConcatProperties DEF Next_
<1>5. ASSUME NEW step \in Leaving
      PROVE  /\ Count(next, step) = Count(todo, step) - One(Head(todo), step)
             /\ Count(todo, step) \in Nat /\ Count(next, step) \in Nat
  <2>1. Count(front, step) = 0
    BY PlainCounts
  <2>2. Count(next, step) = Count(front, step) + Count(Tail(todo), step)
    BY <1>1, <1>3, <1>4, CountConcat
  <2>3. Count(todo, step) = One(Head(todo), step) + Count(Tail(todo), step)
    BY CountHeadTail
  <2>4. Count(todo, step) \in Nat /\ Count(Tail(todo), step) \in Nat /\ Count(next, step) \in Nat
    BY <1>1, <1>4, CountFinite
  <2> QED BY <2>1, <2>2, <2>3, <2>4 DEF One
<1>6. (todo \in Seq(Pending))'
  BY <1>2, <1>4 DEF Pending
<1> QED BY <1>2, <1>5, <1>6

LEMMA CountsOpening ==
  ASSUME todo \in Seq(Pending), todo # << >>, Head(todo).step \notin Leaving, unit' = unit,
         NEW front \in Seq(Plain), NEW x \in Pending, Next_(front \o <<x>>)
  PROVE  /\ (todo \in Seq(Pending))'
         /\ \A step \in Leaving : /\ Count(todo', step) = Count(todo, step) + One(x, step)
                                  /\ Count(todo, step) \in Nat /\ Count(todo', step) \in Nat
<1>1. Head(todo) \in Pending /\ Tail(todo) \in Seq(Pending)
  BY HeadTailProperties
<1>2. PICK next, items : next = todo' /\ items = front \o <<x>>
  OBVIOUS
<1>3. front \in Seq(Pending) /\ <<x>> \in Seq(Pending)
  BY SeqMonotonic DEF Plain
<1>4. items \in Seq(Pending)
  BY <1>2, <1>3, ConcatProperties
<1>5. next = items \o Tail(todo) /\ next \in Seq(Pending)
  BY <1>1, <1>2, <1>4, ConcatProperties DEF Next_
<1>6. ASSUME NEW step \in Leaving
      PROVE  /\ Count(next, step) = Count(todo, step) + One(x, step)
             /\ Count(todo, step) \in Nat /\ Count(next, step) \in Nat
  <2>1. Count(front, step) = 0
    BY PlainCounts
  <2>2. Count(items, step) = Count(front, step) + One(x, step)
    <3>1. Count(front \o <<x>>, step) = Count(front, step) + Count(<<x>>, step)
      BY <1>3, CountConcat
    <3> QED BY <1>2, <3>1, CountOne
  <2>3. Count(next, step) = Count(items, step) + Count(Tail(todo), step)
    BY <1>1, <1>4, <1>5, CountConcat
  <2>4. Count(todo, step) = One(Head(todo), step) + Count(Tail(todo), step)
    BY CountHeadTail
  <2>5. Count(todo, step) \in Nat /\ Count(Tail(todo), step) \in Nat /\ Count(next, step) \in Nat
    BY <1>1, <1>5, CountFinite
  <2>6. One(Head(todo), step) = 0
    BY DEF One
  <2> QED BY <2>1, <2>2, <2>3, <2>4, <2>5, <2>6 DEF One
<1>7. (todo \in Seq(Pending))'
  BY <1>2, <1>5 DEF Pending
<1> QED BY <1>2, <1>6, <1>7

-----------------------------------------------------------------------------
(* Where the ends of functions are after a step.                           *)
LEMMA EnteredMoves ==
  ASSUME todo \in Seq(Pending), todo # << >>, NEW items \in Seq(Pending), Next_(items),
         NEW m, m = Len(items), \A k \in 1..m : items[k].step = "leave_function" => k = m
  PROVE  /\ m \in Nat
         /\ \A k \in Entered : /\ k \in Nat \ {0}
                               /\ k > 1 => k + m - 1 \in Entered' /\ todo'[k + m - 1] = todo[k]
         /\ m > 0 /\ items[m].step = "leave_function" => m \in Entered' /\ todo'[m] = items[m]
         /\ \A j \in Entered' : \/ j = m /\ m > 0 /\ items[m].step = "leave_function"
                                \/ /\ j \in Nat /\ j > m /\ j - m + 1 \in Entered
                                   /\ j - m + 1 > 1 /\ todo'[j] = todo[j - m + 1]
<1>1. PICK n \in Nat \ {0} : n = Len(todo) /\ DOMAIN todo = 1..n
  BY EmptySeq, LenProperties
<1>2. PICK next, rest : next = todo' /\ rest = Tail(todo)
  OBVIOUS
<1>3. m \in Nat /\ rest \in Seq(Pending) /\ Len(rest) = n - 1 /\ \A k \in 1..(n - 1) : rest[k] = todo[k + 1]
  BY <1>1, <1>2, HeadTailProperties, LenProperties
<1>4. next = items \o rest
  BY <1>2 DEF Next_
<1>5. next \in Seq(Pending) /\ Len(next) = m + (n - 1)
  BY <1>3, <1>4, ConcatProperties
<1>6. \A k \in 1..(m + (n - 1)) : next[k] = IF k <= m THEN items[k] ELSE rest[k - m]
  BY <1>3, <1>4, ConcatProperties
<1>7. DOMAIN next = 1..(m + (n - 1))
  BY <1>5, LenProperties
<1>8. \A j : j \in Entered' <=> j \in DOMAIN next /\ next[j].step = "leave_function"
  BY <1>2 DEF Entered
<1>9. ASSUME NEW k \in Entered
      PROVE  k \in Nat \ {0} /\ (k > 1 => k + m - 1 \in Entered' /\ todo'[k + m - 1] = todo[k])
  <2>1. k \in 1..n /\ todo[k].step = "leave_function"
    BY <1>1 DEF Entered
  <2>2. ASSUME k > 1 PROVE k + m - 1 \in Entered' /\ todo'[k + m - 1] = todo[k]
    <3>1. /\ k + m - 1 \in 1..(m + (n - 1)) /\ ~(k + m - 1 <= m)
          /\ (k + m - 1) - m = k - 1 /\ k - 1 \in 1..(n - 1) /\ (k - 1) + 1 = k
      BY <1>3, <2>1, <2>2
    <3>2. next[k + m - 1] = todo[k]
      BY <1>3, <1>6, <3>1
    <3> QED BY <1>2, <1>7, <1>8, <2>1, <3>1, <3>2
  <2> QED BY <2>1, <2>2
<1>10. ASSUME m > 0, items[m].step = "leave_function"
       PROVE  m \in Entered' /\ todo'[m] = items[m]
  <2>1. m \in 1..(m + (n - 1)) /\ m <= m
    BY <1>3, <1>10
  <2> QED BY <1>2, <1>6, <1>7, <1>8, <1>10, <2>1
<1>11. ASSUME NEW j \in Entered'
       PROVE  \/ j = m /\ m > 0 /\ items[m].step = "leave_function"
              \/ /\ j \in Nat /\ j > m /\ j - m + 1 \in Entered
                 /\ j - m + 1 > 1 /\ todo'[j] = todo[j - m + 1]
  <2>1. j \in 1..(m + (n - 1)) /\ next[j].step = "leave_function"
    BY <1>7, <1>8
  <2>2. CASE j <= m
    <3>1. j \in 1..m /\ items[j].step = "leave_function"
      BY <1>3, <1>6, <2>1, <2>2
    <3> QED BY <1>3, <3>1
  <2>3. CASE ~(j <= m)
    <3>1. j \in Nat /\ j > m /\ j - m \in 1..(n - 1) /\ j - m + 1 \in 1..n /\ j - m + 1 > 1
      BY <1>3, <2>1, <2>3
    <3>2. next[j] = todo[j - m + 1]
      BY <1>3, <1>6, <2>1, <2>3, <3>1
    <3> QED BY <1>1, <1>2, <2>1, <3>1, <3>2 DEF Entered
  <2> QED BY <2>2, <2>3
<1> QED BY <1>3, <1>9, <1>10, <1>11

LEMMA PlainItems ==
  ASSUME NEW front \in Seq(Plain), NEW m, m = Len(front)
  PROVE  /\ front \in Seq(Pending) /\ m \in Nat
         /\ \A k \in 1..m : front[k].step \notin Leaving
<1>1. \A k \in 1..m : front[k] \in Plain
  BY ElementOfSeq
<1>2. \A k \in 1..m : front[k].step \notin Leaving
  BY <1>1 DEF Plain
<1>3. front \in Seq(Pending) /\ m \in Nat
  BY SeqMonotonic, LenProperties DEF Plain
<1> QED BY <1>2, <1>3

(* No function is entered or left.                                         *)
LEMMA SavedStays ==
  ASSUME todo \in Seq(Pending), todo # << >>, Saved, Head(todo).step # "leave_function",
         NEW items \in Seq(Pending), Next_(items), NEW m, m = Len(items),
         \A k \in 1..m : items[k].step # "leave_function", return_type' = return_type
  PROVE  Saved'
<1>1. \A k \in Entered : k > 1
  <2>1. Head(todo) = todo[1] /\ DOMAIN todo = 1..Len(todo)
    BY LenProperties
  <2> QED BY <2>1 DEF Entered
<1>2. PICK F : F = Entered'
  OBVIOUS
<1>3. m \in Nat /\ \A k \in Entered : k \in Nat /\ k + m - 1 \in F /\ todo'[k + m - 1] = todo[k]
  BY <1>1, <1>2, EnteredMoves
<1>4. \A j \in F : j \in Nat /\ j > m /\ j - m + 1 \in Entered /\ todo'[j] = todo[j - m + 1]
  <2>1. ASSUME NEW j \in F PROVE j \in Nat /\ j > m /\ j - m + 1 \in Entered /\ todo'[j] = todo[j - m + 1]
    <3>1. \/ j = m /\ m > 0 /\ items[m].step = "leave_function"
          \/ j \in Nat /\ j > m /\ j - m + 1 \in Entered /\ todo'[j] = todo[j - m + 1]
      BY <1>2, EnteredMoves
    <3> QED BY <1>3, <3>1
  <2> QED BY <2>1
<1>5. return_type = NoType <=> F = {}
  BY <1>3, <1>4 DEF Saved
<1>6. ASSUME NEW j \in F
      PROVE  IF \E k \in F : j < k THEN todo'[j].saved.base # "none" ELSE todo'[j].saved = NoType
  <2>1. PICK i \in Entered : i = j - m + 1 /\ todo'[j] = todo[i]
    BY <1>4
  <2>2. (\E k \in F : j < k) <=> \E k \in Entered : i < k
    <3>1. ASSUME NEW k \in F, j < k PROVE \E l \in Entered : i < l
      <4>1. k - m + 1 \in Entered /\ i < k - m + 1
        BY <1>3, <1>4, <2>1, <3>1
      <4> QED BY <4>1
    <3>2. ASSUME NEW l \in Entered, i < l PROVE \E k \in F : j < k
      <4>1. l + m - 1 \in F /\ j < l + m - 1
        BY <1>3, <1>4, <2>1, <3>2
      <4> QED BY <4>1
    <3> QED BY <3>1, <3>2
  <2> QED BY <2>1, <2>2 DEF Saved
<1>7. return_type' = NoType <=> Entered' = {}
  BY <1>2, <1>5
<1>8. /\ (return_type \in Type)'
      /\ (return_type = NoType \/ return_type.base # "none")'
  BY DEF Saved, Type, NoType
<1>9. (\A j \in Entered : IF \E k \in Entered : j < k
                          THEN todo[j].saved.base # "none" ELSE todo[j].saved = NoType)'
  BY <1>2, <1>6 DEF NoType
<1> QED BY <1>7, <1>8, <1>9 DEF Saved, NoType

(* A function is entered: it saves the return type that held.              *)
LEMMA SavedEntering ==
  ASSUME todo \in Seq(Pending), todo # << >>, Saved, Head(todo).step # "leave_function",
         NEW front \in Seq(Plain), NEW x \in Pending, Next_(front \o <<x>>),
         x.step = "leave_function", x.saved = return_type,
         return_type' \in Type, return_type'.base # "none"
  PROVE  Saved'
<1>1. PICK f, items, m : f = Len(front) /\ items = front \o <<x>> /\ m = f + 1
  OBVIOUS
<1>2. front \in Seq(Pending) /\ f \in Nat /\ \A k \in 1..f : front[k].step \notin Leaving
  BY <1>1, PlainItems
<1>3. /\ items \in Seq(Pending) /\ Len(items) = m /\ items[m] = x
      /\ \A k \in 1..f : items[k] = front[k]
  <2>1. <<x>> \in Seq(Pending) /\ Len(<<x>>) = 1 /\ <<x>>[1] = x
    OBVIOUS
  <2>2. /\ items \in Seq(Pending) /\ Len(items) = f + 1
        /\ \A k \in 1..(f + 1) : items[k] = IF k <= f THEN front[k] ELSE <<x>>[k - f]
    BY <1>1, <1>2, <2>1, ConcatProperties
  <2> QED BY <1>1, <1>2, <2>1, <2>2
<1>4. \A k \in 1..m : items[k].step = "leave_function" => k = m
  BY <1>1, <1>2, <1>3 DEF Leaving
<1>5. \A k \in Entered : k > 1
  <2>1. Head(todo) = todo[1] /\ DOMAIN todo = 1..Len(todo)
    BY LenProperties
  <2> QED BY <2>1 DEF Entered
<1>6. PICK F : F = Entered'
  OBVIOUS
<1>7. /\ m \in Nat \ {0} /\ m \in F /\ todo'[m] = x
      /\ \A k \in Entered : k \in Nat /\ k + m - 1 \in F /\ todo'[k + m - 1] = todo[k]
  <2>1. Next_(items)
    BY <1>1
  <2>2. m \in Nat \ {0}
    BY <1>1, <1>2
  <2>3. \A k \in Entered : k \in Nat /\ (k > 1 => k + m - 1 \in F /\ todo'[k + m - 1] = todo[k])
    BY <1>3, <1>4, <1>6, <2>1, EnteredMoves
  <2>4. m > 0 /\ items[m].step = "leave_function" => m \in F /\ todo'[m] = items[m]
    BY <1>3, <1>4, <1>6, <2>1, EnteredMoves
  <2> QED BY <1>3, <1>5, <2>2, <2>3, <2>4
<1>8. \A j \in F : j = m \/ (j \in Nat /\ j > m /\ j - m + 1 \in Entered /\ todo'[j] = todo[j - m + 1])
  <2>1. Next_(items)
    BY <1>1
  <2> QED BY <1>3, <1>4, <1>6, <2>1, EnteredMoves
<1>9. ASSUME NEW j \in F
      PROVE  IF \E k \in F : j < k THEN todo'[j].saved.base # "none" ELSE todo'[j].saved = NoType
  <2>1. CASE j = m
    <3>1. (\E k \in F : j < k) <=> Entered # {}
      <4>1. ASSUME NEW k \in F, j < k PROVE Entered # {}
        BY <1>7, <1>8, <2>1, <4>1
      <4>2. ASSUME NEW l \in Entered PROVE \E k \in F : j < k
        <5>1. l + m - 1 \in F /\ j < l + m - 1
          BY <1>5, <1>7, <2>1
        <5> QED BY <5>1
      <4> QED BY <4>1, <4>2
    <3> QED BY <1>7, <2>1, <3>1 DEF Saved
  <2>2. CASE j # m
    <3>1. PICK i \in Entered : i = j - m + 1 /\ todo'[j] = todo[i] /\ j \in Nat /\ j > m
      BY <1>8, <2>2
    <3>2. (\E k \in F : j < k) <=> \E k \in Entered : i < k
      <4>1. ASSUME NEW k \in F, j < k PROVE \E l \in Entered : i < l
        <5>1. k - m + 1 \in Entered /\ i < k - m + 1
          BY <1>7, <1>8, <3>1, <4>1
        <5> QED BY <5>1
      <4>2. ASSUME NEW l \in Entered, i < l PROVE \E k \in F : j < k
        <5>1. l + m - 1 \in F /\ j < l + m - 1
          BY <1>7, <3>1, <4>2
        <5> QED BY <5>1
      <4> QED BY <4>1, <4>2
    <3> QED BY <3>1, <3>2 DEF Saved
  <2> QED BY <2>1, <2>2
<1>10. return_type' # NoType /\ F # {}
  BY <1>7 DEF NoType
<1>11. (\A j \in Entered : IF \E k \in Entered : j < k
                           THEN todo[j].saved.base # "none" ELSE todo[j].saved = NoType)'
  BY <1>6, <1>9 DEF NoType
<1>12. (return_type = NoType <=> Entered = {})'
  BY <1>6, <1>10 DEF NoType
<1>13. (return_type \in Type)' /\ (return_type = NoType \/ return_type.base # "none")'
  BY DEF Type, NoType
<1> QED BY <1>11, <1>12, <1>13 DEF Saved

(* A function is left: what it saved holds again.                          *)
LEMMA SavedLeaving ==
  ASSUME todo \in Seq(Pending), todo # << >>, Saved, Head(todo).step = "leave_function",
         Next_(<< >>), return_type' = Head(todo).saved
  PROVE  Saved'
<1>0. PICK items, m : items \in Seq(Pending) /\ Next_(items) /\ m = Len(items) /\ m = 0
  BY EmptySeq
<1>1. items \in Seq(Pending) /\ Next_(items) /\ m = Len(items)
  BY <1>0
<1>2. Head(todo) = todo[1] /\ 1 \in Entered /\ Head(todo) \in Pending
  <2>1. DOMAIN todo = 1..Len(todo) /\ Len(todo) \in Nat \ {0} /\ Head(todo) = todo[1]
    BY LenProperties, EmptySeq
  <2> QED BY <2>1, HeadTailProperties DEF Entered
<1>3. PICK F : F = Entered'
  OBVIOUS
<1>4. m = 0
  BY <1>0
<1>5. \A k \in 1..m : items[k].step = "leave_function" => k = m
  BY <1>4
<1>6. \A k \in Entered : k \in Nat \ {0} /\ (k > 1 => k - 1 \in F /\ todo'[k - 1] = todo[k])
  <2>1. \A k \in Entered : k \in Nat \ {0} /\ (k > 1 => k + m - 1 \in F /\ todo'[k + m - 1] = todo[k])
    BY <1>1, <1>3, <1>5, EnteredMoves
  <2>2. \A k \in Entered : k + m - 1 = k - 1
    BY <1>4, <2>1
  <2> QED BY <2>1, <2>2
<1>7. \A j \in F : j \in Nat \ {0} /\ j + 1 \in Entered /\ todo'[j] = todo[j + 1]
  <2>0. \A j \in F : \/ j = m /\ m > 0
                     \/ j \in Nat /\ j > m /\ j - m + 1 \in Entered /\ todo'[j] = todo[j - m + 1]
    BY <1>1, <1>3, <1>5, EnteredMoves
  <2>1. \A j \in F : j \in Nat /\ j > m /\ j - m + 1 \in Entered /\ todo'[j] = todo[j - m + 1]
    BY <1>4, <2>0
  <2>2. \A j \in F : j - m + 1 = j + 1
    BY <1>4, <2>1
  <2> QED BY <1>4, <2>1, <2>2
<1>8. PICK t : t = Head(todo).saved
  OBVIOUS
<1>9. t \in Type
  BY <1>2, <1>8 DEF Pending, Item
<1>10. IF F # {} THEN t.base # "none" ELSE t = NoType
  <2>1. F # {} <=> \E k \in Entered : 1 < k
    <3>1. ASSUME NEW j \in F PROVE \E k \in Entered : 1 < k
      <4>1. j + 1 \in Entered /\ 1 < j + 1
        BY <1>7
      <4> QED BY <4>1
    <3>2. ASSUME NEW k \in Entered, 1 < k PROVE F # {}
      BY <1>6, <3>2
    <3> QED BY <3>1, <3>2
  <2> QED BY <1>2, <1>8, <2>1 DEF Saved
<1>11. t = NoType <=> F = {}
  BY <1>10 DEF NoType
<1>12. ASSUME NEW j \in F
       PROVE  IF \E k \in F : j < k THEN todo'[j].saved.base # "none" ELSE todo'[j].saved = NoType
  <2>1. PICK i \in Entered : i = j + 1 /\ todo'[j] = todo[i] /\ j \in Nat \ {0}
    BY <1>7
  <2>2. (\E k \in F : j < k) <=> \E k \in Entered : i < k
    <3>1. ASSUME NEW k \in F, j < k PROVE \E l \in Entered : i < l
      <4>1. k + 1 \in Entered /\ i < k + 1
        BY <1>7, <2>1, <3>1
      <4> QED BY <4>1
    <3>2. ASSUME NEW l \in Entered, i < l PROVE \E k \in F : j < k
      <4>1. l - 1 \in F /\ j < l - 1
        BY <1>6, <2>1, <3>2
      <4> QED BY <4>1
    <3> QED BY <3>1, <3>2
  <2> QED BY <2>1, <2>2 DEF Saved
<1>13. (\A j \in Entered : IF \E k \in Entered : j < k
                           THEN todo[j].saved.base # "none" ELSE todo[j].saved = NoType)'
  BY <1>3, <1>12 DEF NoType
<1>14. (return_type = NoType <=> Entered = {})'
  BY <1>3, <1>8, <1>11 DEF NoType
<1>15. (return_type \in Type)' /\ (return_type = NoType \/ return_type.base # "none")'
  BY <1>8, <1>9, <1>10 DEF Type, NoType
<1> QED BY <1>13, <1>14, <1>15 DEF Saved

-----------------------------------------------------------------------------
(* The scopes.                                                             *)
LEMMA OverElements ==
  ASSUME NEW S, NEW s \in Seq(S)
  PROVE  s \in Seq(ToSet(s))
BY SeqOfRange DEF ToSet, Range

LEMMA Defines ==
  ASSUME NEW s, s \in Seq(ToSet(s)), s # << >>, NEW table
  PROVE  LET r == [s EXCEPT ![1] = table] IN r \in Seq(ToSet(r)) /\ Len(r) = Len(s)
<1> DEFINE S == ToSet(s) \cup {table}
           r == [s EXCEPT ![1] = table]
<1>1. s \in Seq(S)
  BY SeqMonotonic
<1>2. 1 \in 1..Len(s) /\ table \in S
  BY <1>1, EmptySeq
<1> HIDE DEF S
<1>3. r \in Seq(S) /\ Len(r) = Len(s)
  BY <1>1, <1>2, ExceptSeq
<1> HIDE DEF r
<1>4. r \in Seq(ToSet(r)) /\ Len(r) = Len(s)
  BY <1>3, OverElements
<1> QED BY <1>4 DEF r

LEMMA Pushed ==
  ASSUME NEW s, s \in Seq(ToSet(s)), NEW table
  PROVE  LET r == <<table>> \o s IN r \in Seq(ToSet(r)) /\ Len(r) = Len(s) + 1 /\ Len(s) \in Nat
<1> DEFINE S == ToSet(s) \cup {table}
           r == <<table>> \o s
<1>1. s \in Seq(S) /\ <<table>> \in Seq(S) /\ Len(<<table>>) = 1 /\ Len(s) \in Nat
  BY SeqMonotonic, LenProperties
<1> HIDE DEF S
<1>2. r \in Seq(S) /\ Len(r) = 1 + Len(s)
  BY <1>1, ConcatProperties
<1> HIDE DEF r
<1>3. r \in Seq(ToSet(r)) /\ Len(r) = Len(s) + 1 /\ Len(s) \in Nat
  BY <1>1, <1>2, OverElements
<1> QED BY <1>3 DEF r

LEMMA Popped ==
  ASSUME NEW s, s \in Seq(ToSet(s)), s # << >>
  PROVE  LET r == Tail(s) IN r \in Seq(ToSet(r)) /\ Len(r) = Len(s) - 1 /\ Len(s) \in Nat
BY HeadTailProperties, LenProperties, OverElements

LEMMA ScopesThere ==
  ASSUME Counted, todo \in Seq(Pending)
  PROVE  scopes # << >>
<1>1. Count(todo, "leave_scope") \in Nat /\ Count(todo, "leave_function") \in Nat
  BY CountFinite
<1>2. Len(scopes) # 0
  BY <1>1 DEF Counted
<1> QED BY <1>2, EmptySeq

-----------------------------------------------------------------------------
(* What the steps keep, but for the types behind the aliases.              *)
Kept == (unit \in Units)' /\ (todo \in Seq(Pending))' /\ Counted' /\ Saved'
Defined == scopes' = scopes \/ \E table : scopes' = [scopes EXCEPT ![1] = table]

LEMMA DefinedRight ==
  ASSUME Inv, Defined
  PROVE  scopes' \in Seq(ToSet(scopes')) /\ Len(scopes') = Len(scopes)
<1>1. scopes \in Seq(ToSet(scopes)) /\ scopes # << >>
  BY ScopesThere DEF Inv, Counted
<1> QED BY <1>1, Defines DEF Defined

LEMMA PlainStep ==
  ASSUME Inv, todo # << >>, Head(todo).step \notin Leaving,
         NEW front \in Seq(Plain), Next_(front), Defined, UNCHANGED <<unit, depths>>
  PROVE  Kept
<1>1. todo \in Seq(Pending) /\ unit' = unit /\ return_type' = return_type
      /\ loop_depth_' = loop_depth_ /\ switch_depth_' = switch_depth_
  BY DEF Inv, depths
<1>2. /\ (todo \in Seq(Pending))'
      /\ \A step \in Leaving : Count(todo', step) = Count(todo, step) - One(Head(todo), step)
                               /\ Count(todo, step) \in Nat
  BY <1>1, CountsPlain
<1>3. \A step \in Leaving : Count(todo', step) = Count(todo, step)
  BY <1>2 DEF One
<1>4. scopes' \in Seq(ToSet(scopes')) /\ Len(scopes') = Len(scopes)
  BY DefinedRight
<1>5. Counted'
  BY <1>1, <1>3, <1>4 DEF Counted, Inv, Leaving
<1>6. PICK m : m = Len(front)
  OBVIOUS
<1>7. front \in Seq(Pending) /\ \A k \in 1..m : front[k].step # "leave_function"
  BY <1>6, PlainItems DEF Leaving
<1>8. Saved'
  BY <1>1, <1>6, <1>7, SavedStays DEF Inv, Leaving
<1> QED BY <1>1, <1>2, <1>5, <1>8 DEF Kept, Inv

(* Something is opened, to be closed by x: a scope, a loop or a switch.    *)
LEMMA OpeningStep ==
  ASSUME Inv, todo # << >>, Head(todo).step \notin Leaving, unit' = unit,
         NEW front \in Seq(Plain), NEW x \in Pending, Next_(front \o <<x>>),
         x.step # "leave_function" => return_type' = return_type,
         x.step = "leave_function" => /\ x.saved = return_type
                                      /\ return_type' \in Type /\ return_type'.base # "none",
         scopes' \in Seq(ToSet(scopes')),
         Len(scopes') = Len(scopes) + One(x, "leave_scope") + One(x, "leave_function"),
         loop_depth_' = loop_depth_ + One(x, "leave_loop"),
         switch_depth_' = switch_depth_ + One(x, "leave_switch")
  PROVE  Kept
<1>1. todo \in Seq(Pending) /\ Saved
  BY DEF Inv
<1>2. /\ (todo \in Seq(Pending))'
      /\ \A step \in Leaving : Count(todo', step) = Count(todo, step) + One(x, step)
                               /\ Count(todo, step) \in Nat
  BY <1>1, CountsOpening
<1>3. Counted'
  <2>1. /\ Count(todo', "leave_scope") = Count(todo, "leave_scope") + One(x, "leave_scope")
        /\ Count(todo', "leave_function") = Count(todo, "leave_function") + One(x, "leave_function")
        /\ Count(todo', "leave_loop") = Count(todo, "leave_loop") + One(x, "leave_loop")
        /\ Count(todo', "leave_switch") = Count(todo, "leave_switch") + One(x, "leave_switch")
        /\ Count(todo, "leave_scope") \in Nat /\ Count(todo, "leave_function") \in Nat
    BY <1>2 DEF Leaving
  <2>2. One(x, "leave_scope") \in Nat /\ One(x, "leave_function") \in Nat
    BY DEF One
  <2> QED BY <2>1, <2>2 DEF Counted, Inv
<1>4. Head(todo).step # "leave_function"
  BY DEF Leaving
<1>5. CASE x.step = "leave_function"
  <2>1. Saved'
    BY <1>1, <1>4, <1>5, SavedEntering
  <2> QED BY <1>2, <1>3, <2>1 DEF Kept, Inv
<1>6. CASE x.step # "leave_function"
  <2>1. PICK f, items, m : f = Len(front) /\ items = front \o <<x>> /\ m = f + 1
    OBVIOUS
  <2>2. front \in Seq(Pending) /\ f \in Nat /\ \A k \in 1..f : front[k].step \notin Leaving
    BY <2>1, PlainItems
  <2>3. <<x>> \in Seq(Pending) /\ Len(<<x>>) = 1 /\ <<x>>[1] = x
    OBVIOUS
  <2>4. /\ items \in Seq(Pending) /\ Len(items) = f + 1
        /\ \A k \in 1..(f + 1) : items[k] = IF k <= f THEN front[k] ELSE <<x>>[k - f]
    BY <2>1, <2>2, <2>3, ConcatProperties
  <2>5. \A k \in 1..m : items[k].step # "leave_function"
    <3>1. ASSUME NEW k \in 1..m PROVE items[k].step # "leave_function"
      <4>1. CASE k <= f
        <5>1. k \in 1..f /\ items[k] = front[k]
          BY <2>1, <2>2, <2>4, <4>1
        <5> QED BY <2>2, <5>1 DEF Leaving
      <4>2. CASE ~(k <= f)
        <5>1. k = f + 1 /\ k - f = 1
          BY <2>1, <2>2, <4>2
        <5>2. k \in 1..(f + 1) /\ ~(k <= f)
          BY <2>1, <4>2
        <5>3. items[k] = <<x>>[k - f]
          BY <2>4, <5>2
        <5> QED BY <1>6, <2>3, <5>1, <5>3
      <4> QED BY <4>1, <4>2
    <3> QED BY <3>1
  <2>6. Saved'
    <3>1. Next_(items) /\ return_type' = return_type /\ m = Len(items)
      BY <1>6, <2>1, <2>4
    <3> QED BY <1>1, <1>4, <2>4, <2>5, <3>1, SavedStays
  <2> QED BY <1>2, <1>3, <2>6 DEF Kept, Inv
<1> QED BY <1>5, <1>6

(* It is closed.                                                           *)
LEMMA ClosingStep ==
  ASSUME Inv, todo # << >>, unit' = unit, Next_(<< >>),
         IF Head(todo).step = "leave_function"
           THEN return_type' = Head(todo).saved ELSE return_type' = return_type,
         NEW x, x = Head(todo),
         scopes' \in Seq(ToSet(scopes')),
         Len(scopes') = Len(scopes) - One(x, "leave_scope") - One(x, "leave_function"),
         loop_depth_' = loop_depth_ - One(x, "leave_loop"),
         switch_depth_' = switch_depth_ - One(x, "leave_switch")
  PROVE  Kept
<1>1. todo \in Seq(Pending) /\ Saved
  BY DEF Inv
<1>2. PICK front : front = << >> /\ front \in Seq(Plain) /\ front \in Seq(Pending) /\ Len(front) = 0
  BY EmptySeq
<1>3. Next_(front)
  BY <1>2
<1>4. /\ (todo \in Seq(Pending))'
      /\ \A step \in Leaving : Count(todo', step) = Count(todo, step) - One(x, step)
                               /\ Count(todo, step) \in Nat
  BY <1>1, <1>2, <1>3, CountsPlain
<1>5. Counted'
  <2>1. /\ Count(todo', "leave_scope") = Count(todo, "leave_scope") - One(x, "leave_scope")
        /\ Count(todo', "leave_function") = Count(todo, "leave_function") - One(x, "leave_function")
        /\ Count(todo', "leave_loop") = Count(todo, "leave_loop") - One(x, "leave_loop")
        /\ Count(todo', "leave_switch") = Count(todo, "leave_switch") - One(x, "leave_switch")
        /\ Count(todo, "leave_scope") \in Nat /\ Count(todo, "leave_function") \in Nat
    BY <1>4 DEF Leaving
  <2>2. One(x, "leave_scope") \in Nat /\ One(x, "leave_function") \in Nat
    BY DEF One
  <2> QED BY <2>1, <2>2 DEF Counted, Inv
<1>6. Saved'
  <2>1. CASE Head(todo).step = "leave_function"
    BY <1>1, <2>1, SavedLeaving
  <2>2. CASE Head(todo).step # "leave_function"
    <3>1. \A k \in 1..0 : front[k].step # "leave_function"
      OBVIOUS
    <3>2. return_type' = return_type
      BY <2>2
    <3> QED BY <1>1, <1>2, <1>3, <2>2, <3>1, <3>2, SavedStays
  <2> QED BY <2>1, <2>2
<1> QED BY <1>4, <1>5, <1>6 DEF Kept, Inv

-----------------------------------------------------------------------------
(* The types behind the aliases.                                           *)
LEMMA ResolvedType ==
  ASSUME Typedefs, NEW t \in Type, t.base # "none"
  PROVE  resolve_type(t) \in Type /\ resolve_type(t).base # "none"
<1>1. CASE t.base \in DOMAIN typedef_map_
  <2>1. PICK u \in Type : u = typedef_map_[t.base] /\ u.base # "none"
    BY <1>1 DEF Typedefs
  <2>2. resolve_type(t) = [base |-> u.base, depth |-> u.depth + t.depth]
    BY <1>1, <2>1 DEF resolve_type
  <2> QED BY <2>1, <2>2 DEF Type
<1>2. CASE t.base \notin DOMAIN typedef_map_
  BY <1>2 DEF resolve_type
<1> QED BY <1>1, <1>2

LEMMA Declared ==
  ASSUME Inv, todo # << >>, unit[This].kind \in {"function", "typedef"}
  PROVE  resolve_type(unit[This].type) \in Type /\ resolve_type(unit[This].type).base # "none"
<1>1. This \in DOMAIN unit
  BY ThisRight DEF Inv
<1>2. unit[This].type \in Type /\ unit[This].type.base # "none"
  BY <1>1, UnitRight, NodeType DEF Inv
<1> QED BY <1>2, ResolvedType DEF Inv

LEMMA Aliases ==
  ASSUME Typedefs, NEW a, NEW t \in Type, t.base # "none", typedef_map_' = Mapped(typedef_map_, a, t)
  PROVE  Typedefs'
<1>1. PICK map : map = Mapped(typedef_map_, a, t)
  OBVIOUS
<1>2. DOMAIN map = {a} \cup DOMAIN typedef_map_
      /\ \A b \in DOMAIN map : map[b] = IF b = a THEN t ELSE typedef_map_[b]
  BY <1>1 DEF Mapped
<1>3. \A b \in DOMAIN map : map[b] \in Type /\ map[b].base # "none"
  BY <1>2 DEF Typedefs
<1> QED BY <1>1, <1>3 DEF Typedefs, Type

LEMMA TypedefsStep ==
  ASSUME Inv, [Next]_vars
  PROVE  Typedefs'
<1>1. IntType \in Type /\ IntType.base # "none"
  BY DEF IntType, Type
<1>2. ASSUME UNCHANGED typedef_map_ PROVE Typedefs'
  BY <1>2 DEF Inv, Typedefs, Type
<1>3. CASE CollectEnum
  BY <1>1, <1>2, <1>3, Aliases DEF CollectEnum, Inv
<1>4. CASE ForwardEnum
  BY <1>1, <1>2, <1>4, Aliases DEF ForwardEnum, Inv
<1>5. CASE ForwardTypedef
  <2>1. todo # << >> /\ unit[This].kind \in {"function", "typedef"}
    BY <1>5 DEF ForwardTypedef, At
  <2> QED BY <1>5, <2>1, Declared, Aliases DEF ForwardTypedef, Inv
<1>6. CASE CollectNamespace \/ CollectTemplate \/ CollectNothing
  BY <1>2, <1>6 DEF CollectNamespace, CollectTemplate, CollectNothing, tables
<1>7. CASE ForwardFunction \/ ForwardVariable \/ ForwardNamespace \/ ForwardClass \/ ForwardUnion \/ ForwardNothing
  BY <1>2, <1>7 DEF ForwardFunction, ForwardVariable, ForwardNamespace, ForwardClass, ForwardUnion,
                    ForwardNothing, tables
<1>8. CASE Statement
  BY <1>2, <1>8 DEF Statement, Function, LeaveFunction, Variable, DefineVariable, Block, LeaveScope,
                    While, DoWhile, For, EnterLoop, LeaveLoop, Switch, EnterSwitch, LeaveSwitch,
                    Break, Continue, Return, Returned, Parted, NotAnalyzed, tables
<1>9. CASE Evaluate
  BY <1>2, <1>9 DEF Evaluate, Literal, Use, Operator, OperatorType, Dereference, Call, Arguments,
                    CallType, Access, tables
<1>10. CASE UNCHANGED vars
  BY <1>2, <1>10 DEF vars
<1> QED BY <1>3, <1>4, <1>5, <1>6, <1>7, <1>8, <1>9, <1>10 DEF Next, Collect, Forward, Done

-----------------------------------------------------------------------------
(* What is there when an item is taken.                                    *)
LEMMA Taken ==
  ASSUME NEW step, NEW kinds, At(step, kinds), Inv
  PROVE  /\ todo # << >> /\ Head(todo).step = step
         /\ step \notin Leaving => Head(todo).step \notin Leaving
         /\ This \in DOMAIN unit
BY ThisRight DEF At, Inv

LEMMA NothingLeft ==
  ASSUME Inv, todo # << >>, Head(todo).step \notin Leaving, Next_(<< >>), Defined,
         UNCHANGED <<unit, depths>>
  PROVE  Kept
<1>1. PICK front \in Seq(Plain) : front = << >>
  BY EmptySeq
<1>2. Next_(front)
  BY <1>1
<1> HIDE DEF Next_, Defined
<1> QED BY <1>2, PlainStep

LEMMA DefiningRight == \A symbols : scopes' = Defining(symbols) => Defined
BY DEF Defining, Defined

(* Nodes to visit, and perhaps an item of the node itself behind them.     *)
LEMMA Behind ==
  ASSUME NEW nodes \in Seq(DOMAIN unit), unit \in Units, NEW i \in DOMAIN unit,
         NEW step \in {"define", "enter_loop", "enter_switch", "returned", "arguments", "type"}
  PROVE  /\ Each("node", nodes) \o <<Do(step, i)>> \in Seq(Plain)
         /\ <<Do(step, i)>> \o Each("node", nodes) \in Seq(Plain)
<1>1. <<Do(step, i)>> \in Seq(Plain)
  BY DoPending
<1>2. Each("node", nodes) \in Seq(Plain)
  BY EachPlain
<1> QED BY <1>1, <1>2, ConcatProperties

(* The steps that leave nothing to do behind.                              *)
LEMMA EndingSteps ==
  ASSUME Inv,
         \/ CollectEnum \/ CollectNothing
         \/ ForwardFunction \/ ForwardEnum \/ ForwardVariable \/ ForwardClass \/ ForwardUnion
         \/ ForwardTypedef \/ ForwardNothing
         \/ DefineVariable \/ Break \/ Continue \/ Returned \/ NotAnalyzed
         \/ Literal \/ Use \/ OperatorType \/ Dereference \/ CallType \/ Access
  PROVE  Kept
<1> SUFFICES todo # << >> /\ Head(todo).step \notin Leaving /\ Next_(<< >>) /\ Defined /\ UNCHANGED <<unit, depths>>
  BY NothingLeft
<1> USE DEF tables, depths, reports
<1>1. CASE CollectEnum
  <2>1. \E symbols : scopes' = Defining(symbols)
    BY <1>1 DEF CollectEnum
  <2>2. At("collect", {"enum"}) /\ Next_(<< >>) /\ UNCHANGED <<unit, depths>>
    BY <1>1 DEF CollectEnum
  <2> QED BY <2>1, <2>2, Taken, DefiningRight DEF Leaving
<1>2. CASE CollectNothing
  BY <1>2, Taken, DefiningRight DEF CollectNothing, Leaving, Defined
<1>3. CASE ForwardFunction
  BY <1>3, Taken, DefiningRight DEF ForwardFunction, Leaving
<1>4. CASE ForwardEnum
  <2>1. \E symbols : scopes' = Defining(symbols)
    BY <1>4 DEF ForwardEnum
  <2>2. At("forward", {"enum"}) /\ Next_(<< >>) /\ UNCHANGED <<unit, depths>>
    BY <1>4 DEF ForwardEnum
  <2> QED BY <2>1, <2>2, Taken, DefiningRight DEF Leaving
<1>5. CASE ForwardVariable
  BY <1>5, Taken, DefiningRight DEF ForwardVariable, Leaving
<1>6. CASE ForwardClass
  BY <1>6, Taken, DefiningRight DEF ForwardClass, Leaving
<1>7. CASE ForwardUnion
  BY <1>7, Taken, DefiningRight DEF ForwardUnion, Leaving, Defined
<1>8. CASE ForwardTypedef
  BY <1>8, Taken, DefiningRight DEF ForwardTypedef, Leaving
<1>9. CASE ForwardNothing
  BY <1>9, Taken, DefiningRight DEF ForwardNothing, Leaving, Defined
<1>10. CASE DefineVariable
  BY <1>10, Taken, DefiningRight DEF DefineVariable, Leaving
<1>11. CASE Break
  BY <1>11, Taken, DefiningRight DEF Break, Leaving, Defined
<1>12. CASE Continue
  BY <1>12, Taken, DefiningRight DEF Continue, Leaving, Defined
<1>13. CASE Returned
  BY <1>13, Taken, DefiningRight DEF Returned, Leaving, Defined
<1>14. CASE NotAnalyzed
  BY <1>14, Taken, DefiningRight DEF NotAnalyzed, Leaving, Defined
<1>15. CASE Literal
  BY <1>15, Taken, DefiningRight DEF Literal, Leaving, Defined
<1>16. CASE Use
  BY <1>16, Taken, DefiningRight DEF Use, Leaving, Defined
<1>17. CASE OperatorType
  BY <1>17, Taken, DefiningRight DEF OperatorType, Leaving, Defined
<1>18. CASE Dereference
  BY <1>18, Taken, DefiningRight DEF Dereference, Leaving, Defined
<1>19. CASE CallType
  BY <1>19, Taken, DefiningRight DEF CallType, Leaving, Defined
<1>20. CASE Access
  BY <1>20, Taken, DefiningRight DEF Access, Leaving, Defined
<1> QED BY <1>1, <1>2, <1>3, <1>4, <1>5, <1>6, <1>7, <1>8, <1>9, <1>10, <1>11, <1>12, <1>13, <1>14, <1>15, <1>16, <1>17, <1>18, <1>19, <1>20

(* The steps that leave nodes to visit.                                    *)
LEMMA InOrderThere ==
  ASSUME unit \in Units, NEW nodes \in SUBSET DOMAIN unit
  PROVE  InOrder(nodes) \in Seq(DOMAIN unit)
<1>1. PICK n \in Nat : DOMAIN unit = 1..n
  BY UnitRight
<1>2. InOrder(nodes) \in Seq(nodes)
  BY <1>1, InOrderRight
<1> QED BY <1>2, SeqMonotonic

LEMMA Visits ==
  ASSUME Inv, NEW step, step \notin Leaving, NEW kinds, At(step, kinds),
         NEW front, front \in Seq(Plain), Next_(front), UNCHANGED <<unit, depths, scopes>>
  PROVE  Kept
<1>1. todo # << >> /\ Head(todo).step \notin Leaving
  BY Taken
<1>2. Defined /\ UNCHANGED <<unit, depths>>
  BY DEF Defined
<1> HIDE DEF Next_
<1> QED BY <1>1, <1>2, PlainStep

LEMMA VisitingSteps ==
  ASSUME Inv,
         \/ CollectNamespace \/ CollectTemplate \/ Variable \/ While \/ DoWhile \/ Switch \/ Return
         \/ Parted \/ Operator \/ Call \/ Arguments
  PROVE  Kept
<1>0. unit \in Units
  BY DEF Inv
<1>1. CASE CollectNamespace
  <2>1. PICK front : front = Each("collect", Kids(This, {"body"})) /\ Next_(front)
    BY <1>1 DEF CollectNamespace
  <2>2. At("collect", {"namespace"}) /\ UNCHANGED <<unit, depths, scopes>>
    BY <1>1 DEF CollectNamespace, tables
  <2> QED BY <1>0, <2>1, <2>2, ChildrenPlain, Visits DEF Leaving
<1>2. CASE CollectTemplate
  <2>1. PICK nodes : /\ nodes = {k \in KidsOf(This, {"body"}) : unit[k].kind = "enum"}
                     /\ Next_(Each("collect", InOrder(nodes)))
    BY <1>2 DEF CollectTemplate
  <2>2. At("collect", {"template"}) /\ UNCHANGED <<unit, depths, scopes>>
    BY <1>2 DEF CollectTemplate, tables
  <2>3. nodes \in SUBSET DOMAIN unit
    BY <2>1 DEF KidsOf
  <2>4. Each("collect", InOrder(nodes)) \in Seq(Plain)
    BY <1>0, <2>3, InOrderThere, EachPlain
  <2> QED BY <2>1, <2>2, <2>4, Visits DEF Leaving
<1>3. CASE Variable
  <2>1. PICK front : front = Each("node", Kids(This, {"init"})) \o <<Do("define", This)>> /\ Next_(front)
    BY <1>3 DEF Variable
  <2>2. At("node", {"variable"}) /\ UNCHANGED <<unit, depths, scopes>>
    BY <1>3 DEF Variable, tables
  <2>3. front \in Seq(Plain)
    BY <1>0, <2>1, <2>2, Taken, ChildrenPlain, Behind
  <2> QED BY <2>1, <2>2, <2>3, Visits DEF Leaving
<1>4. CASE While
  <2>1. PICK front : front = Each("node", Kids(This, {"cond"})) \o <<Do("enter_loop", This)>> /\ Next_(front)
    BY <1>4 DEF While
  <2>2. At("node", {"while"}) /\ UNCHANGED <<unit, depths, scopes>>
    BY <1>4 DEF While, tables
  <2>3. front \in Seq(Plain)
    BY <1>0, <2>1, <2>2, Taken, ChildrenPlain, Behind
  <2> QED BY <2>1, <2>2, <2>3, Visits DEF Leaving
<1>5. CASE DoWhile
  <2>1. PICK front : front = <<Do("enter_loop", This)>> \o Each("node", Kids(This, {"cond"})) /\ Next_(front)
    BY <1>5 DEF DoWhile
  <2>2. At("node", {"do"}) /\ UNCHANGED <<unit, depths, scopes>>
    BY <1>5 DEF DoWhile, tables
  <2>3. front \in Seq(Plain)
    BY <1>0, <2>1, <2>2, Taken, ChildrenPlain, Behind
  <2> QED BY <2>1, <2>2, <2>3, Visits DEF Leaving
<1>6. CASE Switch
  <2>1. PICK front : front = Each("node", Kids(This, {"cond"})) \o <<Do("enter_switch", This)>> /\ Next_(front)
    BY <1>6 DEF Switch
  <2>2. At("node", {"switch"}) /\ UNCHANGED <<unit, depths, scopes>>
    BY <1>6 DEF Switch, tables
  <2>3. front \in Seq(Plain)
    BY <1>0, <2>1, <2>2, Taken, ChildrenPlain, Behind
  <2> QED BY <2>1, <2>2, <2>3, Visits DEF Leaving
<1>7. CASE Operator
  <2>1. PICK front : front = Each("node", Kids(This, {"part"})) \o <<Do("type", This)>> /\ Next_(front)
    BY <1>7 DEF Operator
  <2>2. At("node", {"assign", "compare", "ternary", "address", "dereference", "index", "dot", "arrow",
                    "cast", "new"}) /\ UNCHANGED <<unit, depths, scopes>>
    BY <1>7 DEF Operator, tables
  <2>3. front \in Seq(Plain)
    BY <1>0, <2>1, <2>2, Taken, ChildrenPlain, Behind
  <2> QED BY <2>1, <2>2, <2>3, Visits DEF Leaving
<1>8. CASE Call
  <2>1. PICK front : front = Each("node", Kids(This, {"cond"})) \o <<Do("arguments", This)>> /\ Next_(front)
    BY <1>8 DEF Call
  <2>2. At("node", {"call"}) /\ UNCHANGED <<unit, depths, scopes>>
    BY <1>8 DEF Call, tables
  <2>3. front \in Seq(Plain)
    BY <1>0, <2>1, <2>2, Taken, ChildrenPlain, Behind
  <2> QED BY <2>1, <2>2, <2>3, Visits DEF Leaving
<1>9. CASE Return
  <2>1. PICK front : /\ front = IF return_type = NoType THEN << >>
                               ELSE Each("node", Kids(This, {"part"})) \o <<Do("returned", This)>>
                     /\ Next_(front)
    BY <1>9 DEF Return
  <2>2. At("node", {"return"}) /\ UNCHANGED <<unit, depths, scopes>>
    BY <1>9 DEF Return, tables
  <2>3. Each("node", Kids(This, {"part"})) \o <<Do("returned", This)>> \in Seq(Plain) /\ << >> \in Seq(Plain)
    BY <1>0, <2>2, Taken, ChildrenPlain, Behind, EmptySeq
  <2>4. front \in Seq(Plain)
    BY <2>1, <2>3
  <2> QED BY <2>1, <2>2, <2>4, Visits DEF Leaving
<1>10. CASE Parted
  <2>1. PICK nodes, front : /\ nodes = Kids(This, {"cond"}) \o Kids(This, {"part", "body"})
                            /\ front = Each("node", nodes) /\ Next_(front)
    BY <1>10 DEF Parted
  <2>2. At("node", {"if", "case", "throw", "try", "statement"}) /\ UNCHANGED <<unit, depths, scopes>>
    BY <1>10 DEF Parted, tables
  <2>3. nodes \in Seq(DOMAIN unit)
    BY <1>0, <2>1, ChildrenPlain, ConcatProperties
  <2> QED BY <1>0, <2>1, <2>2, <2>3, EachPlain, Visits DEF Leaving
<1>11. CASE Arguments
  <2>1. PICK wrong, args : /\ args = IF wrong THEN << >> ELSE Each("node", Kids(This, {"part"}))
                           /\ Next_(args \o <<Do("type", This)>>)
    BY <1>11 DEF Arguments
  <2>2. At("arguments", {"call"}) /\ UNCHANGED <<unit, depths, scopes>>
    BY <1>11 DEF Arguments, tables
  <2>3. Each("node", Kids(This, {"part"})) \in Seq(Plain) /\ << >> \in Seq(Plain) /\ <<Do("type", This)>> \in Seq(Plain)
    BY <1>0, <2>2, Taken, ChildrenPlain, DoPending, EmptySeq
  <2>4. args \o <<Do("type", This)>> \in Seq(Plain)
    BY <2>1, <2>3, ConcatProperties
  <2> QED BY <2>1, <2>2, <2>4, Visits DEF Leaving
<1> QED BY <1>1, <1>2, <1>3, <1>4, <1>5, <1>6, <1>7, <1>8, <1>9, <1>10, <1>11

-----------------------------------------------------------------------------
(* The steps that open something: a scope, a loop, a switch, a function.   *)
LEMMA Opens ==
  ASSUME Inv, NEW kinds, NEW step, step \notin Leaving, At(step, kinds), unit' = unit, return_type' = return_type,
         NEW front, front \in Seq(Plain), NEW x, x = Do(x.step, This), Next_(front \o <<x>>),
         x.step \in {"leave_scope", "leave_loop", "leave_switch"},
         scopes' \in Seq(ToSet(scopes')),
         Len(scopes') = IF x.step = "leave_scope" THEN Len(scopes) + 1 ELSE Len(scopes),
         loop_depth_' = IF x.step = "leave_loop" THEN loop_depth_ + 1 ELSE loop_depth_,
         switch_depth_' = IF x.step = "leave_switch" THEN switch_depth_ + 1 ELSE switch_depth_
  PROVE  Kept
<1>1. todo # << >> /\ Head(todo).step \notin Leaving /\ unit \in Units /\ This \in DOMAIN unit
  BY Taken DEF Inv
<1>2. x \in Pending /\ x.step # "leave_function"
  BY <1>1, DoPending
<1>3. Len(scopes) \in Nat /\ loop_depth_ \in Nat /\ switch_depth_ \in Nat
  BY CountFinite, LenProperties DEF Inv, Counted
<1>4. Len(scopes') = Len(scopes) + One(x, "leave_scope") + One(x, "leave_function")
  BY <1>3, <1>2 DEF One
<1>5. loop_depth_' = loop_depth_ + One(x, "leave_loop") /\ switch_depth_' = switch_depth_ + One(x, "leave_switch")
  BY <1>3 DEF One
<1> HIDE DEF Next_
<1> QED BY <1>1, <1>2, <1>4, <1>5, OpeningStep

LEMMA TwoBehind ==
  ASSUME NEW S, NEW s \in Seq(S), NEW a \in S, NEW b \in S
  PROVE  s \o <<a, b>> = (s \o <<a>>) \o <<b>>
<1>1. PICK t, u : t = <<a>> /\ u = <<b>>
  OBVIOUS
<1>2. t \in Seq(S) /\ u \in Seq(S) /\ Len(t) = 1 /\ Len(u) = 1 /\ t[1] = a /\ u[1] = b
  BY <1>1
<1>3. PICK v : v = t \o u
  OBVIOUS
<1>4. v \in Seq(S) /\ Len(v) = 2 /\ v[1] = a /\ v[2] = b
  <2>1. v \in Seq(S) /\ Len(v) = 2
    BY <1>2, <1>3, ConcatProperties
  <2>2. PICK m, n : m = Len(t) /\ n = Len(u)
    OBVIOUS
  <2>3. \A i \in 1..(m + n) : v[i] = IF i <= m THEN t[i] ELSE u[i - m]
    BY <1>2, <1>3, <2>2, ConcatProperties
  <2>4. v[1] = t[1] /\ v[2] = u[2 - 1]
    BY <1>2, <2>2, <2>3
  <2> QED BY <1>2, <2>1, <2>4
<1>5. PICK w : w = <<a, b>>
  OBVIOUS
<1>6. w \in Seq(S) /\ Len(w) = 2 /\ w[1] = a /\ w[2] = b
  BY <1>5
<1>7. \A i \in 1..2 : v[i] = w[i]
  BY <1>4, <1>6
<1>8. v = w
  BY <1>4, <1>6, <1>7, SeqEqual
<1>9. (s \o t) \o u = s \o v
  BY <1>2, <1>3, ConcatAssociative
<1> QED BY <1>1, <1>5, <1>8, <1>9

LEMMA ScopePushed ==
  ASSUME Inv, NEW table, NEW outer, outer \in Seq(ToSet(outer)), Len(outer) = Len(scopes),
         scopes' = <<table>> \o outer
  PROVE  scopes' \in Seq(ToSet(scopes')) /\ Len(scopes') = Len(scopes) + 1
BY Pushed

LEMMA OpeningSteps ==
  ASSUME Inv, ForwardNamespace \/ Block \/ For \/ EnterLoop \/ EnterSwitch
  PROVE  Kept
<1>0. unit \in Units /\ scopes \in Seq(ToSet(scopes))
  BY DEF Inv, Counted
<1>1. CASE ForwardNamespace
  <2>1. PICK front, x, table : /\ front = Each("forward", Kids(This, {"body"})) /\ x = Do("leave_scope", This)
                               /\ Next_(front \o <<x>>) /\ scopes' = <<table>> \o scopes
    BY <1>1 DEF ForwardNamespace
  <2>2. At("forward", {"namespace"}) /\ UNCHANGED <<unit, depths>>
    BY <1>1 DEF ForwardNamespace, tables
  <2>3. front \in Seq(Plain)
    BY <1>0, <2>1, ChildrenPlain
  <2>4. x.step = "leave_scope" /\ x = Do(x.step, This)
    BY <2>1 DEF Do
  <2>5. scopes' \in Seq(ToSet(scopes')) /\ Len(scopes') = Len(scopes) + 1
    BY <1>0, <2>1, ScopePushed
  <2> HIDE DEF Next_
  <2> QED BY <2>1, <2>2, <2>3, <2>4, <2>5, Opens DEF Leaving, depths
<1>2. CASE Block
  <2>1. PICK front, x, table : /\ front = Each("node", Kids(This, {"body"})) /\ x = Do("leave_scope", This)
                               /\ Next_(front \o <<x>>) /\ scopes' = <<table>> \o scopes
    BY <1>2 DEF Block
  <2>2. At("node", {"block", "namespace", "catch"}) /\ UNCHANGED <<unit, depths>>
    BY <1>2 DEF Block, tables
  <2>3. front \in Seq(Plain)
    BY <1>0, <2>1, ChildrenPlain
  <2>4. x.step = "leave_scope" /\ x = Do(x.step, This)
    BY <2>1 DEF Do
  <2>5. scopes' \in Seq(ToSet(scopes')) /\ Len(scopes') = Len(scopes) + 1
    BY <1>0, <2>1, ScopePushed
  <2> HIDE DEF Next_
  <2> QED BY <2>1, <2>2, <2>3, <2>4, <2>5, Opens DEF Leaving, depths
<1>3. CASE For
  <2>1. PICK nodes, table, enter, x :
          /\ nodes = Kids(This, {"init"}) \o Kids(This, {"cond"}) \o Kids(This, {"step"})
          /\ enter = Do("enter_loop", This) /\ x = Do("leave_scope", This)
          /\ Next_(Each("node", nodes) \o <<enter, x>>) /\ scopes' = <<table>> \o scopes
    BY <1>3 DEF For
  <2>2. At("node", {"for"}) /\ UNCHANGED <<unit, depths>>
    BY <1>3 DEF For, tables
  <2>3. nodes \in Seq(DOMAIN unit)
    BY <1>0, <2>1, ChildrenPlain, ConcatProperties
  <2>4. PICK front : front = Each("node", nodes) \o <<enter>>
    OBVIOUS
  <2>5. front \in Seq(Plain)
    BY <1>0, <2>1, <2>2, <2>3, <2>4, Taken, Behind
  <2>6. x.step = "leave_scope" /\ x = Do(x.step, This)
    BY <2>1 DEF Do
  <2>7. Next_(front \o <<x>>)
    <3>1. Each("node", nodes) \in Seq(Plain \cup {enter, x})
      BY <1>0, <2>3, EachPlain, SeqMonotonic
    <3>2. PICK S, each : S = Plain \cup {enter, x} /\ each = Each("node", nodes)
      OBVIOUS
    <3>3. each \in Seq(S) /\ enter \in S /\ x \in S
      BY <3>1, <3>2
    <3>4. each \o <<enter, x>> = (each \o <<enter>>) \o <<x>>
      BY <3>3, TwoBehind
    <3> QED BY <2>1, <2>4, <3>2, <3>4
  <2>8. scopes' \in Seq(ToSet(scopes')) /\ Len(scopes') = Len(scopes) + 1
    BY <1>0, <2>1, ScopePushed
  <2> HIDE DEF Next_
  <2> QED BY <2>2, <2>5, <2>6, <2>7, <2>8, Opens DEF Leaving, depths
<1>4. CASE EnterLoop
  <2>1. PICK front, x : /\ front = Each("node", Kids(This, {"body"})) /\ x = Do("leave_loop", This)
                        /\ Next_(front \o <<x>>) /\ loop_depth_' = loop_depth_ + 1
    BY <1>4 DEF EnterLoop
  <2>2. At("enter_loop", {"while", "do", "for"}) /\ UNCHANGED <<unit, scopes, switch_depth_, return_type>>
    BY <1>4 DEF EnterLoop, tables
  <2>3. front \in Seq(Plain)
    BY <1>0, <2>1, ChildrenPlain
  <2>4. x.step = "leave_loop" /\ x = Do(x.step, This)
    BY <2>1 DEF Do
  <2> HIDE DEF Next_
  <2> QED BY <1>0, <2>1, <2>2, <2>3, <2>4, Opens DEF Leaving
<1>5. CASE EnterSwitch
  <2>1. PICK front, x : /\ front = Each("node", Kids(This, {"body"})) /\ x = Do("leave_switch", This)
                        /\ Next_(front \o <<x>>) /\ switch_depth_' = switch_depth_ + 1
    BY <1>5 DEF EnterSwitch
  <2>2. At("enter_switch", {"switch"}) /\ UNCHANGED <<unit, scopes, loop_depth_, return_type>>
    BY <1>5 DEF EnterSwitch, tables
  <2>3. front \in Seq(Plain)
    BY <1>0, <2>1, ChildrenPlain
  <2>4. x.step = "leave_switch" /\ x = Do(x.step, This)
    BY <2>1 DEF Do
  <2> HIDE DEF Next_
  <2> QED BY <1>0, <2>1, <2>2, <2>3, <2>4, Opens DEF Leaving
<1> QED BY <1>1, <1>2, <1>3, <1>4, <1>5

(* analyze_function defines the function outside, then opens its scope and *)
(* puts its return type in the place of the one it saves.                  *)
LEMMA FunctionStep ==
  ASSUME Inv, Function
  PROVE  Kept
<1>1. PICK front, x, table, outer :
        /\ front = Each("node", Kids(This, {"body"}))
        /\ x = [step |-> "leave_function", node |-> This, saved |-> return_type]
        /\ Next_(front \o <<x>>) /\ outer = Defining(Signature(This)) /\ scopes' = <<table>> \o outer
  BY DEF Function
<1>2. /\ At("node", {"function"}) /\ UNCHANGED <<unit, loop_depth_, switch_depth_>>
      /\ return_type' = resolve_type(unit[This].type)
  BY DEF Function, tables
<1>3. todo # << >> /\ Head(todo).step \notin Leaving /\ This \in DOMAIN unit /\ unit[This].kind = "function"
  BY <1>2, Taken DEF Leaving, At
<1>4. unit \in Units /\ return_type \in Type /\ scopes \in Seq(ToSet(scopes)) /\ scopes # << >>
  BY ScopesThere DEF Inv, Saved, Counted
<1>5. front \in Seq(Plain)
  BY <1>1, <1>4, ChildrenPlain
<1>6. x \in Pending /\ x.step = "leave_function" /\ x.saved = return_type
  BY <1>1, <1>3, <1>4, DoPending
<1>7. return_type' \in Type /\ return_type'.base # "none"
  BY <1>2, <1>3, Declared
<1>8. outer \in Seq(ToSet(outer)) /\ Len(outer) = Len(scopes)
  <2>1. PICK first : outer = [scopes EXCEPT ![1] = first]
    BY <1>1 DEF Defining
  <2> QED BY <1>4, <2>1, Defines
<1>9. scopes' \in Seq(ToSet(scopes')) /\ Len(scopes') = Len(scopes) + 1
  BY <1>1, <1>8, ScopePushed
<1>10. Len(scopes) \in Nat /\ loop_depth_ \in Nat /\ switch_depth_ \in Nat
  BY CountFinite, LenProperties DEF Inv, Counted
<1>11. Len(scopes') = Len(scopes) + One(x, "leave_scope") + One(x, "leave_function")
  BY <1>6, <1>9, <1>10 DEF One
<1>12. loop_depth_' = loop_depth_ + One(x, "leave_loop") /\ switch_depth_' = switch_depth_ + One(x, "leave_switch")
  BY <1>2, <1>6, <1>10 DEF One
<1>13. Next_(front \o <<x>>) /\ unit' = unit
  BY <1>1, <1>2
<1> HIDE DEF Next_
<1> QED BY <1>3, <1>5, <1>6, <1>7, <1>9, <1>11, <1>12, <1>13, OpeningStep

-----------------------------------------------------------------------------
(* The steps that close it.                                                *)
LEMMA ClosingSteps ==
  ASSUME Inv, LeaveScope \/ LeaveFunction \/ LeaveLoop \/ LeaveSwitch
  PROVE  Kept
<1>0. PICK x : x = Head(todo)
  OBVIOUS
<1>1. scopes \in Seq(ToSet(scopes)) /\ scopes # << >> /\ Len(scopes) \in Nat
      /\ loop_depth_ \in Nat /\ switch_depth_ \in Nat
  BY ScopesThere, CountFinite, LenProperties DEF Inv, Counted
<1>2. Tail(scopes) \in Seq(ToSet(Tail(scopes))) /\ Len(Tail(scopes)) = Len(scopes) - 1
  BY <1>1, Popped
<1>3. CASE LeaveScope
  <2>1. todo # << >> /\ x.step = "leave_scope" /\ Next_(<< >>) /\ scopes' = Tail(scopes) /\ UNCHANGED <<unit, depths>>
    BY <1>0, <1>3 DEF LeaveScope, At, tables
  <2>2. /\ Len(scopes') = Len(scopes) - One(x, "leave_scope") - One(x, "leave_function")
        /\ loop_depth_' = loop_depth_ - One(x, "leave_loop")
        /\ switch_depth_' = switch_depth_ - One(x, "leave_switch")
    BY <1>1, <1>2, <2>1 DEF One, depths
  <2> QED BY <1>0, <1>2, <2>1, <2>2, ClosingStep DEF depths
<1>4. CASE LeaveFunction
  <2>1. /\ todo # << >> /\ x.step = "leave_function" /\ Next_(<< >>) /\ scopes' = Tail(scopes)
        /\ return_type' = x.saved /\ UNCHANGED <<unit, loop_depth_, switch_depth_>>
    BY <1>0, <1>4 DEF LeaveFunction, At, tables
  <2>2. /\ Len(scopes') = Len(scopes) - One(x, "leave_scope") - One(x, "leave_function")
        /\ loop_depth_' = loop_depth_ - One(x, "leave_loop")
        /\ switch_depth_' = switch_depth_ - One(x, "leave_switch")
    BY <1>1, <1>2, <2>1 DEF One
  <2> QED BY <1>0, <1>2, <2>1, <2>2, ClosingStep
<1>5. CASE LeaveLoop
  <2>1. /\ todo # << >> /\ x.step = "leave_loop" /\ Next_(<< >>) /\ loop_depth_' = loop_depth_ - 1
        /\ UNCHANGED <<unit, scopes, return_type, switch_depth_>>
    BY <1>0, <1>5 DEF LeaveLoop, At, tables
  <2>2. /\ Len(scopes') = Len(scopes) - One(x, "leave_scope") - One(x, "leave_function")
        /\ loop_depth_' = loop_depth_ - One(x, "leave_loop")
        /\ switch_depth_' = switch_depth_ - One(x, "leave_switch")
    BY <1>1, <2>1 DEF One
  <2> QED BY <1>0, <1>1, <2>1, <2>2, ClosingStep
<1>6. CASE LeaveSwitch
  <2>1. /\ todo # << >> /\ x.step = "leave_switch" /\ Next_(<< >>) /\ switch_depth_' = switch_depth_ - 1
        /\ UNCHANGED <<unit, scopes, return_type, loop_depth_>>
    BY <1>0, <1>6 DEF LeaveSwitch, At, tables
  <2>2. /\ Len(scopes') = Len(scopes) - One(x, "leave_scope") - One(x, "leave_function")
        /\ loop_depth_' = loop_depth_ - One(x, "leave_loop")
        /\ switch_depth_' = switch_depth_ - One(x, "leave_switch")
    BY <1>1, <2>1 DEF One
  <2> QED BY <1>0, <1>1, <2>1, <2>2, ClosingStep
<1> QED BY <1>3, <1>4, <1>5, <1>6

-----------------------------------------------------------------------------
LEMMA InvInit ==
  ASSUME Init
  PROVE  Inv
<1>1. unit \in Units /\ typedef_map_ = [a \in {} |-> NoType] /\ return_type = NoType
      /\ loop_depth_ = 0 /\ switch_depth_ = 0
  BY DEF Init
<1>2. PICK top : top = TopLevel /\ todo = Each("collect", top) \o Each("forward", top) \o Each("node", top)
  BY DEF Init
<1>3. top \in Seq(DOMAIN unit)
  <2>1. PICK a, b, c : /\ a \in SUBSET DOMAIN unit /\ b \in SUBSET DOMAIN unit /\ c \in SUBSET DOMAIN unit
                       /\ top = InOrder(a) \o InOrder(b) \o InOrder(c)
    BY <1>2 DEF TopLevel, KidsOf
  <2> QED BY <1>1, <2>1, InOrderThere, ConcatProperties
<1>4. todo \in Seq(Plain)
  BY <1>1, <1>2, <1>3, EachPlain, ConcatProperties
<1>5. todo \in Seq(Pending) /\ \A step \in Leaving : Count(todo, step) = 0
  BY <1>4, PlainCounts, PlainItems
<1>6. Entered = {}
  <2>1. \A k \in 1..Len(todo) : todo[k].step \notin Leaving
    BY <1>4, PlainItems
  <2> QED BY <1>4, <2>1, LenProperties DEF Entered, Leaving
<1>7. Typedefs
  BY <1>1 DEF Typedefs
<1>8. scopes \in Seq(ToSet(scopes)) /\ Len(scopes) = 1
  <2>1. PICK table : scopes = <<table>>
    BY DEF Init
  <2>2. scopes \in Seq({table}) /\ Len(scopes) = 1
    BY <2>1
  <2> QED BY <2>2, OverElements
<1>9. Counted
  BY <1>1, <1>5, <1>8 DEF Counted, Leaving
<1>10. Saved
  <2>1. NoType \in Type
    BY DEF NoType, Type
  <2>2. \A k \in Entered : IF \E m \in Entered : k < m
                           THEN todo[k].saved.base # "none" ELSE todo[k].saved = NoType
    BY <1>6
  <2> QED BY <1>1, <1>6, <2>1, <2>2 DEF Saved
<1> QED BY <1>1, <1>5, <1>7, <1>9, <1>10 DEF Inv

LEMMA InvStutters ==
  ASSUME Inv, UNCHANGED vars
  PROVE  Kept
<1>1. unit' = unit /\ todo' = todo /\ scopes' = scopes /\ loop_depth_' = loop_depth_
      /\ switch_depth_' = switch_depth_ /\ return_type' = return_type
  BY DEF vars
<1>2. Entered' = Entered
  BY <1>1 DEF Entered
<1>3. Counted'
  BY <1>1 DEF Inv, Counted
<1>4. Saved'
  BY <1>1, <1>2 DEF Inv, Saved, NoType, Type
<1> QED BY <1>1, <1>3, <1>4 DEF Kept, Inv, Pending

LEMMA InvStep ==
  ASSUME Inv, [Next]_vars
  PROVE  Inv'
<1>1. Kept
  <2>1. CASE Collect
    BY <2>1, EndingSteps, VisitingSteps DEF Collect
  <2>2. CASE Forward
    BY <2>2, EndingSteps, OpeningSteps DEF Forward
  <2>3. CASE Statement
    BY <2>3, EndingSteps, VisitingSteps, OpeningSteps, FunctionStep, ClosingSteps DEF Statement
  <2>4. CASE Evaluate
    BY <2>4, EndingSteps, VisitingSteps DEF Evaluate
  <2>5. CASE UNCHANGED vars
    BY <2>5, InvStutters
  <2> QED BY <2>1, <2>2, <2>3, <2>4, <2>5 DEF Next, Done
<1>2. Typedefs'
  BY TypedefsStep
<1> QED BY <1>1, <1>2 DEF Kept, Inv

LEMMA InvMeans ==
  ASSUME Inv
  PROVE  ContextsMatch
<1>1. Entered = Ends("leave_function")
  BY DEF Entered, Ends
<1>2. (return_type = NoType) = (Ends("leave_function") = {})
  BY <1>1 DEF Inv, Saved
<1> QED BY <1>2 DEF Inv, Counted, Count, Ends, ContextsMatch

(* Scopes, loop depth, switch depth and return type always are those of    *)
(* the node being analysed, in every unit: whatever a handler visits       *)
(* between push_scope and pop_scope, between two changes of a depth, or    *)
(* while it holds the return type it will restore.                         *)
THEOREM ContextsStay == Spec => []ContextsMatch
<1>1. Init => Inv
  BY InvInit
<1>2. Inv /\ [Next]_vars => Inv'
  BY InvStep
<1>3. Inv => ContextsMatch
  BY InvMeans
<1> QED BY <1>1, <1>2, <1>3, PTL DEF Spec

(* Type correctness.  The tables.                                          *)
LEMMA Least ==
  ASSUME NEW S, S \subseteq Nat, S # {}
  PROVE  \E n \in S : \A m \in S : n <= m
<1>1. PICK R : (\A x, y \in Nat : <<y, x>> \in R <=> y < x) /\ IsWellFoundedOn(R, Nat)
  <2>1. \A x, y \in Nat : <<y, x>> \in OpToRel(<, Nat) <=> y < x
    BY DEF OpToRel
  <2> QED BY <2>1, NatLessThanWellFounded
<1>2. PICK x \in S : \A y \in S : ~ (<<y, x>> \in R)
  BY <1>1, WFMin
<1>3. \A y \in S : x \in Nat /\ y \in Nat /\ ~(y < x)
  BY <1>1, <1>2
<1> QED BY <1>2, <1>3

LEMMA JoinedTable ==
  ASSUME NEW K, NEW V, NEW f, NEW g, IsTable(f, K, V), IsTable(g, K, V)
  PROVE  IsTable(Joined(f, g), K, V)
<1>1. DOMAIN Joined(f, g) = DOMAIN f \cup DOMAIN g
  BY DEF Joined
<1>2. \A x \in DOMAIN Joined(f, g) : Joined(f, g)[x] \in V
  BY DEF Joined, IsTable
<1>3. Joined(f, g) \in [DOMAIN Joined(f, g) -> V]
  BY <1>2 DEF Joined
<1> QED BY <1>1, <1>3 DEF IsTable

LEMMA MappedTable ==
  ASSUME NEW K, NEW V, NEW f, IsTable(f, K, V), NEW k \in K, NEW v \in V
  PROVE  IsTable(Mapped(f, k, v), K, V)
<1>1. DOMAIN Mapped(f, k, v) = DOMAIN f \cup {k}
  BY DEF Mapped
<1>2. \A x \in DOMAIN Mapped(f, k, v) : Mapped(f, k, v)[x] \in V
  BY DEF Mapped, IsTable
<1>3. Mapped(f, k, v) \in [DOMAIN Mapped(f, k, v) -> V]
  BY <1>2 DEF Mapped
<1> QED BY <1>1, <1>3 DEF IsTable

LEMMA EmptyTable ==
  ASSUME NEW K, NEW V, NEW v
  PROVE  IsTable([x \in {} |-> v], K, V)
BY DEF IsTable

AliasTable == IsTable(typedef_map_, Name, Type)
MemberTables ==
  DOMAIN struct_members_ \subseteq Class /\ \A c \in DOMAIN struct_members_ : IsTable(struct_members_[c], Name, Type)
ScopeTables == \A s \in DOMAIN scopes : IsTable(scopes[s], Key, Symbol)
Tables == AliasTable /\ MemberTables /\ ScopeTables

LEMMA Resolved ==
  ASSUME AliasTable, NEW t \in Type
  PROVE  resolve_type(t) \in Type
<1>1. CASE t.base \in DOMAIN typedef_map_
  <2>1. PICK u \in Type : u = typedef_map_[t.base]
    BY <1>1 DEF AliasTable, IsTable
  <2>2. resolve_type(t) = [base |-> u.base, depth |-> u.depth + t.depth]
    BY <1>1, <2>1 DEF resolve_type
  <2> QED BY <2>2 DEF Type
<1>2. CASE t.base \notin DOMAIN typedef_map_
  BY <1>2 DEF resolve_type
<1> QED BY <1>1, <1>2

(* What nodes declare.                                                     *)
LEMMA FirstNode ==
  ASSUME unit \in Units, NEW nodes \in SUBSET DOMAIN unit, NEW n \in NamesOf(nodes)
  PROVE  FirstNamed(nodes, n) \in nodes
<1> DEFINE named == {k \in nodes : unit[k].name = n}
<1>1. PICK l \in Nat : DOMAIN unit = 1..l
  BY UnitRight
<1>2. named \subseteq Nat /\ named # {}
  <2>1. PICK k \in nodes : unit[k].name = n
    BY DEF NamesOf
  <2> QED BY <1>1, <2>1
<1> HIDE DEF named
<1>3. PICK k \in named : \A m \in named : k <= m
  BY <1>2, Least
<1>4. k \in nodes /\ unit[k].name = n /\ \A m \in nodes : unit[m].name = n => k <= m
  BY <1>3 DEF named
<1> QED BY <1>4 DEF FirstNamed

LEMMA NameTyped ==
  ASSUME unit \in Units, NEW i \in DOMAIN unit
  PROVE  unit[i].name \in Name /\ unit[i].owner \in Class /\ unit[i].type \in Type
BY UnitRight DEF Node

LEMMA TypeOfFirst ==
  ASSUME unit \in Units, AliasTable, NEW nodes \in SUBSET DOMAIN unit, NEW n \in NamesOf(nodes)
  PROVE  n \in Name /\ resolve_type(unit[FirstNamed(nodes, n)].type) \in Type
<1>1. FirstNamed(nodes, n) \in DOMAIN unit
  BY FirstNode
<1>2. unit[FirstNamed(nodes, n)].type \in Type
  BY <1>1, NameTyped
<1>3. n \in Name
  BY NameTyped DEF NamesOf
<1> QED BY <1>2, <1>3, Resolved

LEMMA SymbolsTable ==
  ASSUME unit \in Units, AliasTable, NEW nodes \in SUBSET DOMAIN unit
  PROVE  IsTable(Symbols(nodes), Key, Symbol)
<1> DEFINE t == Symbols(nodes)
<1>1. DOMAIN t = {<<n>> : n \in NamesOf(nodes)}
  BY DEF Symbols
<1>2. ASSUME NEW key \in DOMAIN t
      PROVE  key \in Key /\ t[key] \in Symbol
  <2>1. PICK n \in NamesOf(nodes) : key = <<n>>
    BY <1>1
  <2>2. n \in Name /\ resolve_type(unit[FirstNamed(nodes, n)].type) \in Type
    BY TypeOfFirst
  <2>3. t[key] = [type |-> resolve_type(unit[FirstNamed(nodes, n)].type), arity |-> -1]
    BY <1>1, <2>1 DEF Symbols
  <2> QED BY <2>1, <2>2, <2>3 DEF Key, Symbol
<1>3. t = [key \in DOMAIN t |-> t[key]]
  BY DEF Symbols
<1> HIDE DEF t
<1>4. t \in [DOMAIN t -> Symbol]
  BY <1>2, <1>3
<1> QED BY <1>2, <1>4 DEF IsTable, t

LEMMA SignatureTable ==
  ASSUME unit \in Units, AliasTable, NEW i \in DOMAIN unit
  PROVE  IsTable(Signature(i), Key, Symbol)
<1>1. PICK l \in Nat : DOMAIN unit = 1..l
  BY UnitRight
<1>2. Cardinality(Parts(i, "parameter")) \in Nat
  <2>1. IsFiniteSet(1..l) /\ Parts(i, "parameter") \in SUBSET (1..l)
    BY <1>1, FS_Interval DEF Parts
  <2> QED BY <2>1, FS_Subset, FS_CardinalityType
<1>3. resolve_type(unit[i].type) \in Type /\ FunctionName(i) \in Key
  BY NameTyped, Resolved DEF FunctionName, Key
<1>4. PICK s \in Symbol : s = [type |-> resolve_type(unit[i].type), arity |-> Cardinality(Parts(i, "parameter"))]
  BY <1>2, <1>3 DEF Symbol
<1>5. Signature(i) = [key \in {FunctionName(i)} |-> s]
  BY <1>4 DEF Signature
<1> QED BY <1>3, <1>5 DEF IsTable

(* The members of a class.                                                 *)
LEMMA OwnTable ==
  ASSUME unit \in Units, AliasTable, NEW i
  PROVE  IsTable(OwnMembers(i), Name, Type)
<1> DEFINE own == Parts(i, "member")
           t == OwnMembers(i)
<1>1. own \in SUBSET DOMAIN unit
  BY DEF Parts
<1>2. t = [n \in NamesOf(own) |-> resolve_type(unit[FirstNamed(own, n)].type)]
  BY DEF OwnMembers
<1> HIDE DEF own, t
<1>3. \A n \in NamesOf(own) : n \in Name /\ resolve_type(unit[FirstNamed(own, n)].type) \in Type
  BY <1>1, TypeOfFirst
<1>4. DOMAIN t = NamesOf(own) /\ t \in [DOMAIN t -> Type]
  BY <1>2, <1>3
<1> QED BY <1>3, <1>4 DEF IsTable, t

LEMMA InheritedTable ==
  ASSUME unit \in Units, MemberTables, NEW i, NEW own, IsTable(own, Name, Type)
  PROVE  IsTable(Inherited(Bases(i), own), Name, Type)
<1>1. PICK bases : bases = Bases(i)
  OBVIOUS
<1>2. DOMAIN bases \subseteq Nat
  <2>1. Kids(i, {"init"}) \in Seq(DOMAIN unit)
    BY ChildrenPlain
  <2>2. DOMAIN Kids(i, {"init"}) = 1..Len(Kids(i, {"init"})) /\ Len(Kids(i, {"init"})) \in Nat
    BY <2>1, LenProperties
  <2> QED BY <1>1, <2>2 DEF Bases
<1>3. ASSUME NEW n \in Name, Giving(bases, n) # {}
      PROVE  struct_members_[bases[First(Giving(bases, n))]][n] \in Type
  <2> DEFINE S == Giving(bases, n)
  <2>1. S \subseteq Nat /\ S # {}
    BY <1>2, <1>3 DEF Giving
  <2>2. PICK k \in S : \A m \in S : k <= m
    BY <2>1, Least
  <2> HIDE DEF S
  <2>3. First(S) \in S
    BY <2>2 DEF First
  <2>4. PICK j \in S : j = First(S)
    BY <2>3
  <2>5. bases[j] \in DOMAIN struct_members_ /\ n \in DOMAIN struct_members_[bases[j]]
    BY DEF S, Giving
  <2>6. struct_members_[bases[j]][n] \in Type
    BY <2>5 DEF MemberTables, IsTable
  <2> QED BY <2>4, <2>6 DEF S
<1> DEFINE D == {n \in Name : Giving(bases, n) # {}}
           g == [n \in D |-> struct_members_[bases[First(Giving(bases, n))]][n]]
<1>4. \A n \in D : n \in Name /\ struct_members_[bases[First(Giving(bases, n))]][n] \in Type
  BY <1>3
<1>5. Inherited(bases, own) = Joined(own, g)
  BY DEF Inherited
<1> HIDE DEF D
<1>6. IsTable(g, Name, Type)
  BY <1>4 DEF IsTable
<1> HIDE DEF g
<1> QED BY <1>1, <1>5, <1>6, JoinedTable

LEMMA ClassMembersTable ==
  ASSUME MemberTables, NEW i
  PROVE  IsTable(ClassMembers(i), Key, Symbol)
<1>1. CASE unit[i].special /\ unit[i].owner \in DOMAIN struct_members_
  <2>1. PICK ms : ms = struct_members_[unit[i].owner] /\ IsTable(ms, Name, Type)
    BY <1>1 DEF MemberTables
  <2> DEFINE t == [key \in {<<m>> : m \in DOMAIN ms} |-> [type |-> ms[key[1]], arity |-> -1]]
  <2>2. ClassMembers(i) = t
    BY <1>1, <2>1 DEF ClassMembers
  <2>3. \A m \in DOMAIN ms : m \in Name /\ ms[m] \in Type
    BY <2>1 DEF IsTable
  <2>4. \A key \in {<<m>> : m \in DOMAIN ms} : key \in Key /\ [type |-> ms[key[1]], arity |-> -1] \in Symbol
    BY <2>3 DEF Key, Symbol
  <2>5. IsTable(t, Key, Symbol)
    BY <2>4 DEF IsTable
  <2> QED BY <2>2, <2>5
<1>2. CASE ~(unit[i].special /\ unit[i].owner \in DOMAIN struct_members_)
  BY <1>2, EmptyTable DEF ClassMembers
<1> QED BY <1>1, <1>2

(* The tables stay typed.                                                  *)
LEMMA AliasStep ==
  ASSUME unit \in Units, AliasTable, NEW i \in DOMAIN unit, NEW t \in Type,
         typedef_map_' = IF unit[i].name = "" THEN typedef_map_ ELSE Mapped(typedef_map_, unit[i].name, t)
  PROVE  AliasTable'
<1>1. IsTable(Mapped(typedef_map_, unit[i].name, t), Name, Type)
  BY NameTyped, MappedTable DEF AliasTable
<1>2. IsTable(typedef_map_', Name, Type)
  BY <1>1 DEF AliasTable
<1> QED BY <1>2 DEF AliasTable

LEMMA MembersStep ==
  ASSUME MemberTables, NEW c \in Class, NEW t, IsTable(t, Name, Type),
         struct_members_' = Mapped(struct_members_, c, t)
  PROVE  MemberTables'
<1>1. PICK map : map = Mapped(struct_members_, c, t)
  OBVIOUS
<1>2. DOMAIN map = DOMAIN struct_members_ \cup {c}
      /\ \A k \in DOMAIN map : map[k] = IF k = c THEN t ELSE struct_members_[k]
  BY <1>1 DEF Mapped
<1>3. \A k \in DOMAIN map : k \in Class /\ IsTable(map[k], Name, Type)
  BY <1>2 DEF MemberTables
<1> QED BY <1>1, <1>3 DEF MemberTables

LEMMA DefiningTable ==
  ASSUME ScopeTables, scopes \in Seq(ToSet(scopes)), scopes # << >>, NEW t, IsTable(t, Key, Symbol)
  PROVE  LET r == Defining(t) IN \A s \in DOMAIN r : IsTable(r[s], Key, Symbol)
<1>1. 1 \in DOMAIN scopes
  BY EmptySeq, LenProperties
<1>2. PICK table : table = Joined(scopes[1], t) /\ IsTable(table, Key, Symbol)
  BY <1>1, JoinedTable DEF ScopeTables
<1>3. PICK r : r = [scopes EXCEPT ![1] = table]
  OBVIOUS
<1>4. Defining(t) = r
  BY <1>2, <1>3 DEF Defining
<1>5. DOMAIN r = DOMAIN scopes /\ \A s \in DOMAIN r : r[s] = IF s = 1 THEN table ELSE scopes[s]
  BY <1>3
<1> QED BY <1>2, <1>4, <1>5 DEF ScopeTables

LEMMA PushedTable ==
  ASSUME NEW outer, outer \in Seq(ToSet(outer)), \A s \in DOMAIN outer : IsTable(outer[s], Key, Symbol),
         NEW t, IsTable(t, Key, Symbol)
  PROVE  LET r == <<t>> \o outer IN \A s \in DOMAIN r : IsTable(r[s], Key, Symbol)
<1> DEFINE S == ToSet(outer) \cup {t}
<1>1. PICK first : first = <<t>>
  OBVIOUS
<1>2. outer \in Seq(S) /\ first \in Seq(S) /\ Len(first) = 1 /\ first[1] = t
  BY <1>1, SeqMonotonic
<1> HIDE DEF S
<1>3. PICK n, r : n = Len(outer) /\ r = first \o outer
  OBVIOUS
<1>4. n \in Nat /\ DOMAIN outer = 1..n
  BY <1>2, <1>3, LenProperties
<1>5. r \in Seq(S) /\ Len(r) = 1 + n /\ \A i \in 1..(1 + n) : r[i] = IF i <= 1 THEN first[i] ELSE outer[i - 1]
  <2>1. PICK l : l = Len(first)
    OBVIOUS
  <2>2. r \in Seq(S) /\ Len(r) = l + n /\ \A i \in 1..(l + n) : r[i] = IF i <= l THEN first[i] ELSE outer[i - l]
    BY <1>2, <1>3, <2>1, ConcatProperties
  <2> QED BY <1>2, <2>1, <2>2
<1>6. DOMAIN r = 1..(1 + n)
  BY <1>5, LenProperties
<1>7. ASSUME NEW i \in 1..(1 + n) PROVE IsTable(r[i], Key, Symbol)
  <2>1. CASE i = 1
    BY <1>2, <1>4, <1>5, <2>1
  <2>2. CASE i # 1
    <3>1. i - 1 \in 1..n /\ r[i] = outer[i - 1]
      BY <1>4, <1>5, <2>2
    <3> QED BY <1>4, <3>1
  <2> QED BY <2>1, <2>2
<1> QED BY <1>1, <1>3, <1>6, <1>7

LEMMA PoppedTable ==
  ASSUME ScopeTables, scopes \in Seq(ToSet(scopes)), scopes # << >>
  PROVE  LET r == Tail(scopes) IN \A s \in DOMAIN r : IsTable(r[s], Key, Symbol)
<1>1. PICK n, r : n = Len(scopes) /\ r = Tail(scopes)
  OBVIOUS
<1>2. n \in Nat /\ DOMAIN scopes = 1..n /\ r \in Seq(ToSet(scopes)) /\ Len(r) = n - 1
      /\ \A i \in 1..(n - 1) : r[i] = scopes[i + 1]
  BY <1>1, HeadTailProperties, LenProperties
<1>3. DOMAIN r = 1..(n - 1)
  BY <1>2, LenProperties
<1>4. \A i \in 1..(n - 1) : i + 1 \in 1..n
  BY <1>2
<1> QED BY <1>1, <1>2, <1>3, <1>4 DEF ScopeTables

LEMMA TablesStay ==
  ASSUME Tables
  PROVE  /\ UNCHANGED typedef_map_ => AliasTable'
         /\ UNCHANGED struct_members_ => MemberTables'
         /\ UNCHANGED scopes => ScopeTables'
<1>1. UNCHANGED typedef_map_ => AliasTable'
  BY DEF Tables, AliasTable
<1>2. UNCHANGED struct_members_ => MemberTables'
  BY DEF Tables, MemberTables
<1>3. UNCHANGED scopes => ScopeTables'
  BY DEF Tables, ScopeTables
<1> QED BY <1>1, <1>2, <1>3

LEMMA TablesStep ==
  ASSUME Inv, Tables, [Next]_vars
  PROVE  Tables'
<1> USE DEF tables, depths, reports
<1>0. /\ unit \in Units /\ scopes \in Seq(ToSet(scopes)) /\ scopes # << >>
      /\ AliasTable /\ MemberTables /\ ScopeTables
  BY ScopesThere DEF Inv, Counted, Tables
<1>a. \A i, kind : Parts(i, kind) \in SUBSET DOMAIN unit
  BY DEF Parts
<1>b. ASSUME NEW step, NEW kinds, At(step, kinds) PROVE This \in DOMAIN unit
  BY <1>b, Taken
<1>c. ASSUME NEW t, IsTable(t, Key, Symbol), scopes' = Defining(t) PROVE ScopeTables'
  <2>1. PICK r : r = Defining(t) /\ \A s \in DOMAIN r : IsTable(r[s], Key, Symbol)
    BY <1>0, <1>c, DefiningTable
  <2> QED BY <1>c, <2>1 DEF ScopeTables
<1>d. ASSUME NEW outer, outer \in Seq(ToSet(outer)), \A s \in DOMAIN outer : IsTable(outer[s], Key, Symbol),
             NEW t, IsTable(t, Key, Symbol), scopes' = <<t>> \o outer
      PROVE  ScopeTables'
  <2>1. PICK r : r = <<t>> \o outer /\ \A s \in DOMAIN r : IsTable(r[s], Key, Symbol)
    BY <1>d, PushedTable
  <2> QED BY <1>d, <2>1 DEF ScopeTables
<1>e. ASSUME scopes' = Tail(scopes) PROVE ScopeTables'
  <2>1. PICK r : r = Tail(scopes) /\ \A s \in DOMAIN r : IsTable(r[s], Key, Symbol)
    BY <1>0, PoppedTable
  <2> QED BY <1>e, <2>1 DEF ScopeTables
<1>f. IntType \in Type
  BY DEF IntType, Type
<1>1. CASE CollectEnum
  <2>1. This \in DOMAIN unit
    BY <1>1, <1>b DEF CollectEnum
  <2>2. PICK new : /\ new = Symbols(Parts(This, "enumerator"))
                   /\ scopes' = Defining([key \in {k \in DOMAIN new : ~Found(k)} |-> new[key]])
    BY <1>1 DEF CollectEnum
  <2>3. IsTable(new, Key, Symbol)
    BY <1>0, <1>a, <2>2, SymbolsTable
  <2>4. PICK D : D = {k \in DOMAIN new : ~Found(k)}
    OBVIOUS
  <2>5. PICK t : t = [key \in D |-> new[key]]
    OBVIOUS
  <2>6. IsTable(t, Key, Symbol) /\ scopes' = Defining(t)
    BY <2>2, <2>3, <2>4, <2>5 DEF IsTable
  <2>7. ScopeTables'
    BY <1>c, <2>6
  <2>8. AliasTable'
    BY <1>0, <1>1, <1>f, <2>1, AliasStep DEF CollectEnum
  <2>9. MemberTables'
    BY <1>1, TablesStay DEF CollectEnum
  <2> QED BY <2>7, <2>8, <2>9 DEF Tables
<1>2. CASE ForwardEnum
  <2>1. This \in DOMAIN unit
    BY <1>2, <1>b DEF ForwardEnum
  <2>2. ScopeTables'
    BY <1>0, <1>2, <1>a, <1>c, SymbolsTable DEF ForwardEnum
  <2>3. AliasTable'
    BY <1>0, <1>2, <1>f, <2>1, AliasStep DEF ForwardEnum
  <2>4. MemberTables'
    BY <1>2, TablesStay DEF ForwardEnum
  <2> QED BY <2>2, <2>3, <2>4 DEF Tables
<1>3. CASE ForwardTypedef
  <2>1. This \in DOMAIN unit
    BY <1>3, <1>b DEF ForwardTypedef
  <2>2. ScopeTables'
    <3>1. {This} \in SUBSET DOMAIN unit
      BY <2>1
    <3> QED BY <1>0, <1>3, <1>c, <3>1, SymbolsTable DEF ForwardTypedef
  <2>3. AliasTable'
    <3>1. PICK t \in Type : t = resolve_type(unit[This].type)
      BY <1>0, <2>1, NameTyped, Resolved
    <3>2. IsTable(Mapped(typedef_map_, unit[This].name, t), Name, Type)
      BY <1>0, <2>1, NameTyped, MappedTable DEF AliasTable
    <3>3. IsTable(typedef_map_', Name, Type)
      BY <1>3, <3>1, <3>2 DEF ForwardTypedef
    <3> QED BY <3>3 DEF AliasTable
  <2>4. MemberTables'
    BY <1>3, TablesStay DEF ForwardTypedef
  <2> QED BY <2>2, <2>3, <2>4 DEF Tables
<1>4. CASE ForwardClass
  <2>1. This \in DOMAIN unit
    BY <1>4, <1>b DEF ForwardClass
  <2>2. unit[This].owner \in Class /\ unit[This].name \in Name
    BY <1>0, <2>1, NameTyped
  <2>3. MemberTables'
    <3>1. PICK t : t = Inherited(Bases(This), OwnMembers(This)) /\ IsTable(t, Name, Type)
      BY <1>0, OwnTable, InheritedTable
    <3> QED BY <1>0, <1>4, <2>2, <3>1, MembersStep DEF ForwardClass
  <2>4. ScopeTables'
    <3>1. PICK x \in Symbol : x = [type |-> [base |-> unit[This].owner, depth |-> 0], arity |-> -1]
      BY <2>2 DEF Symbol, Type
    <3>2. PICK t : t = [key \in {<<unit[This].name>>} |-> x]
      OBVIOUS
    <3>3. IsTable(t, Key, Symbol)
      BY <2>2, <3>2 DEF IsTable, Key
    <3> QED BY <1>4, <1>c, <3>1, <3>2, <3>3 DEF ForwardClass
  <2>5. AliasTable'
    BY <1>4, TablesStay DEF ForwardClass
  <2> QED BY <2>3, <2>4, <2>5 DEF Tables
<1>5. CASE ForwardUnion
  <2>1. This \in DOMAIN unit
    BY <1>5, <1>b DEF ForwardUnion
  <2>2. MemberTables'
    <3>1. PICK t : t = OwnMembers(This) /\ IsTable(t, Name, Type)
      BY <1>0, OwnTable
    <3> QED BY <1>0, <1>5, <2>1, <3>1, NameTyped, MembersStep DEF ForwardUnion
  <2> QED BY <1>5, <2>2, TablesStay DEF ForwardUnion, Tables
<1>6. CASE ForwardFunction
  <2>1. This \in DOMAIN unit
    BY <1>6, <1>b DEF ForwardFunction
  <2>2. ScopeTables'
    BY <1>0, <1>6, <1>c, <2>1, SignatureTable DEF ForwardFunction
  <2> QED BY <1>6, <2>2, TablesStay DEF ForwardFunction, Tables
<1>7. CASE ForwardVariable \/ DefineVariable
  <2>1. This \in DOMAIN unit /\ scopes' = Defining(Symbols({This})) /\ UNCHANGED <<typedef_map_, struct_members_>>
    BY <1>7, <1>b DEF ForwardVariable, DefineVariable
  <2>2. {This} \in SUBSET DOMAIN unit
    BY <2>1
  <2>3. ScopeTables'
    BY <1>0, <1>c, <2>1, <2>2, SymbolsTable
  <2> QED BY <2>1, <2>3, TablesStay DEF Tables
<1>8. CASE ForwardNamespace \/ Block \/ For
  <2>1. PICK t : IsTable(t, Key, Symbol) /\ scopes' = <<t>> \o scopes
    <3>1. CASE ForwardNamespace \/ For
      BY <3>1, EmptyTable DEF ForwardNamespace, For
    <3>2. CASE Block
      BY <1>0, <1>a, <3>2, SymbolsTable DEF Block
    <3> QED BY <1>8, <3>1, <3>2
  <2>2. ScopeTables'
    BY <1>0, <1>d, <2>1 DEF ScopeTables
  <2>3. UNCHANGED <<typedef_map_, struct_members_>>
    BY <1>8 DEF ForwardNamespace, Block, For
  <2> QED BY <2>2, <2>3, TablesStay DEF Tables
<1>9. CASE Function
  <2>1. This \in DOMAIN unit
    BY <1>9, <1>b DEF Function
  <2>2. PICK t, outer : /\ t = Joined(ClassMembers(This), Symbols(Parts(This, "parameter")))
                        /\ outer = Defining(Signature(This)) /\ scopes' = <<t>> \o outer
    BY <1>9 DEF Function
  <2>3. IsTable(t, Key, Symbol)
    BY <1>0, <1>a, <2>2, ClassMembersTable, SymbolsTable, JoinedTable
  <2>4. \A s \in DOMAIN outer : IsTable(outer[s], Key, Symbol)
    BY <1>0, <2>1, <2>2, SignatureTable, DefiningTable
  <2>5. outer \in Seq(ToSet(outer))
    <3>1. PICK first : outer = [scopes EXCEPT ![1] = first]
      BY <2>2 DEF Defining
    <3> QED BY <1>0, <3>1, Defines
  <2>6. ScopeTables'
    BY <1>d, <2>2, <2>3, <2>4, <2>5
  <2> QED BY <1>9, <2>6, TablesStay DEF Function, Tables
<1>10. CASE LeaveScope \/ LeaveFunction
  <2>1. scopes' = Tail(scopes) /\ UNCHANGED <<typedef_map_, struct_members_>>
    BY <1>10 DEF LeaveScope, LeaveFunction
  <2> QED BY <1>e, <2>1, TablesStay DEF Tables
<1>11. CASE CollectNamespace \/ CollectTemplate \/ CollectNothing \/ ForwardNothing \/ UNCHANGED vars
  <2>1. UNCHANGED <<scopes, typedef_map_, struct_members_>>
    BY <1>11 DEF CollectNamespace, CollectTemplate, CollectNothing, ForwardNothing, vars
  <2> QED BY <2>1, TablesStay DEF Tables
<1>12. CASE Variable \/ While \/ DoWhile \/ EnterLoop \/ LeaveLoop \/ Switch \/ EnterSwitch \/ LeaveSwitch
            \/ Break \/ Continue \/ Return \/ Returned \/ Parted \/ NotAnalyzed
  <2>1. UNCHANGED <<scopes, typedef_map_, struct_members_>>
    BY <1>12 DEF Variable, While, DoWhile, EnterLoop, LeaveLoop, Switch, EnterSwitch, LeaveSwitch, Break, Continue,
                 Return, Returned, Parted, NotAnalyzed
  <2> QED BY <2>1, TablesStay DEF Tables
<1>13. CASE Evaluate
  <2>1. UNCHANGED <<scopes, typedef_map_, struct_members_>>
    BY <1>13 DEF Evaluate, Literal, Use, Operator, OperatorType, Dereference, Call, Arguments, CallType, Access
  <2> QED BY <2>1, TablesStay DEF Tables
<1> QED BY <1>1, <1>2, <1>3, <1>4, <1>5, <1>6, <1>7, <1>8, <1>9, <1>10, <1>11, <1>12, <1>13
        DEF Next, Collect, Forward, Statement, Done

-----------------------------------------------------------------------------
(* The reports.                                                            *)
Reported == errors_ \in Seq(Report) /\ warnings_ \in Seq(Report)
Reports == {"break", "continue", "redefined", "return_outside", "return_value",
            "needs_pointer", "undeclared", "arguments", "not_a_pointer", "no_member"}

LEMMA RaisedReports ==
  ASSUME NEW list \in Seq(Report), NEW what \in Reports, NEW condition, unit \in Units, This \in DOMAIN unit
  PROVE  Raised(list, what, condition) \in Seq(Report)
<1>1. This \in Nat
  BY UnitRight
<1>2. [what |-> what, node |-> This] \in Report
  BY <1>1 DEF Report, Reports
<1>3. Append(list, [what |-> what, node |-> This]) \in Seq(Report)
  BY <1>2, AppendProperties
<1> QED BY <1>3 DEF Raised

LEMMA ReportsStep ==
  ASSUME Inv, Reported, [Next]_vars
  PROVE  Reported'
<1> USE DEF tables, depths, reports
<1>0. unit \in Units /\ errors_ \in Seq(Report) /\ warnings_ \in Seq(Report)
  BY DEF Inv, Reported
<1>a. ASSUME NEW step, NEW kinds, At(step, kinds), NEW what \in Reports, NEW condition
      PROVE  /\ error(what, condition) => errors_' \in Seq(Report)
             /\ warning(what, condition) => warnings_' \in Seq(Report)
  BY <1>0, <1>a, Taken, RaisedReports DEF error, warning
<1>b. ASSUME errors_' \in Seq(Report), warnings_' \in Seq(Report) PROVE Reported'
  BY <1>b DEF Reported
<1>1. CASE UNCHANGED <<errors_, warnings_>>
  BY <1>0, <1>1, <1>b
<1>2. CASE DefineVariable
  BY <1>0, <1>2, <1>a, <1>b DEF DefineVariable, Reports
<1>3. CASE Break
  BY <1>0, <1>3, <1>a, <1>b DEF Break, Reports
<1>4. CASE Continue
  BY <1>0, <1>4, <1>a, <1>b DEF Continue, Reports
<1>5. CASE Return
  BY <1>0, <1>5, <1>a, <1>b DEF Return, Reports
<1>6. CASE Returned
  BY <1>0, <1>6, <1>a, <1>b DEF Returned, Reports
<1>7. CASE Use
  BY <1>0, <1>7, <1>a, <1>b DEF Use, Reports
<1>8. CASE Dereference
  BY <1>0, <1>8, <1>a, <1>b DEF Dereference, Reports
<1>9. CASE Arguments
  BY <1>0, <1>9, <1>a, <1>b DEF Arguments, Reports
<1>10. CASE Access
  BY <1>0, <1>10, <1>a, <1>b DEF Access, Reports
<1>11. CASE Collect \/ Forward \/ UNCHANGED vars
  BY <1>1, <1>11 DEF Collect, Forward, CollectEnum, CollectNamespace, CollectTemplate, CollectNothing, ForwardFunction,
                     ForwardEnum, ForwardVariable, ForwardNamespace, ForwardClass, ForwardUnion, ForwardTypedef,
                     ForwardNothing, vars
<1>12. CASE Function \/ LeaveFunction \/ Variable \/ Block \/ LeaveScope \/ While \/ DoWhile \/ For \/ EnterLoop
            \/ LeaveLoop \/ Switch \/ EnterSwitch \/ LeaveSwitch \/ Parted \/ NotAnalyzed
  BY <1>1, <1>12 DEF Function, LeaveFunction, Variable, Block, LeaveScope, While, DoWhile, For, EnterLoop, LeaveLoop,
                     Switch, EnterSwitch, LeaveSwitch, Parted, NotAnalyzed
<1>13. CASE Literal \/ Operator \/ OperatorType \/ Call \/ CallType
  BY <1>1, <1>13 DEF Literal, Operator, OperatorType, Call, CallType
<1> QED BY <1>2, <1>3, <1>4, <1>5, <1>6, <1>7, <1>8, <1>9, <1>10, <1>11, <1>12, <1>13
        DEF Next, Statement, Evaluate, Done

-----------------------------------------------------------------------------
(* An operator reads the types of its operands.  Each of them has a type,  *)
(* or an item before that of the operator will give it one.                *)
Evaluating == {"node", "arguments", "type"}
Gives(x, p) == x.node = p /\ x.step \in Evaluating
Operands(i) == {Kids(i, {"part"})[m] : m \in DOMAIN Kids(i, {"part"})}
Reads(x) == x.step = "type" /\ unit[x.node].kind \in TypedByPart
Awaited ==
  \A k \in 1..Len(todo) : Reads(todo[k]) =>
    \A p \in Operands(todo[k].node) : p \in DOMAIN types \/ \E j \in 1..(k - 1) : Gives(todo[j], p)
Evaluated == IsTable(types, DOMAIN unit, Type) /\ Awaited

LEMMA OperandsRight ==
  ASSUME unit \in Units, NEW i \in DOMAIN unit, unit[i].kind \in TypedByPart
  PROVE  /\ \A p \in Operands(i) : p \in DOMAIN unit /\ unit[p].kind \in Expression
         /\ Kids(i, {"part"})[1] \in Operands(i)
         /\ unit[i].kind = "ternary" => Kids(i, {"part"})[2] \in Operands(i)
<1> DEFINE operands == {k \in DOMAIN unit : unit[k].in = i /\ unit[k].role = "part"}
<1>1. KidsOf(i, {"part"}) = operands
  BY DEF KidsOf
<1>2. /\ Cardinality(operands) >= IF unit[i].kind = "ternary" THEN 2 ELSE 1
      /\ \A k \in operands : unit[k].kind \in Expression
  BY OperandsAssumption
<1>3. PICK n \in Nat : DOMAIN unit = 1..n
  BY UnitRight
<1>4. operands \in SUBSET (1..n)
  BY <1>3
<1> HIDE DEF operands
<1>5. Cardinality(operands) \in Nat
  <2>1. IsFiniteSet(1..n)
    BY FS_Interval
  <2> QED BY <1>4, <2>1, FS_Subset, FS_CardinalityType
<1>6. PICK kids : kids = Kids(i, {"part"})
  OBVIOUS
<1>7. DOMAIN kids = 1..Cardinality(operands) /\ kids \in Seq(operands)
  <2>1. kids = InOrder(operands)
    BY <1>1, <1>6 DEF Kids
  <2> QED BY <1>4, <2>1, InOrderRight DEF InOrder
<1>8. \A m \in DOMAIN kids : kids[m] \in operands
  BY <1>7, LenProperties, ElementOfSeq
<1>9. \A p \in Operands(i) : p \in operands
  BY <1>6, <1>8 DEF Operands
<1>10. 1 \in DOMAIN kids /\ (unit[i].kind = "ternary" => 2 \in DOMAIN kids)
  BY <1>2, <1>5, <1>7
<1> QED BY <1>2, <1>3, <1>4, <1>6, <1>9, <1>10 DEF Operands

(* The first item is replaced by others: what it was to give is given, or  *)
(* one of them will.                                                       *)
LEMMA AwaitedStep ==
  ASSUME Inv, Awaited, todo # << >>, NEW front \in Seq(Pending), Next_(front), unit' = unit,
         DOMAIN types \subseteq DOMAIN types',
         \A k \in 1..Len(front) : Reads(front[k]) =>
           \A p \in Operands(front[k].node) : p \in DOMAIN types' \/ \E j \in 1..(k - 1) : Gives(front[j], p),
         Head(todo).step \in Evaluating /\ unit[This].kind \in Expression =>
           This \in DOMAIN types' \/ \E j \in 1..Len(front) : Gives(front[j], This)
  PROVE  Awaited'
<1>1. PICK m, n : m = Len(front) /\ n = Len(todo)
  OBVIOUS
<1>2. PICK tail : tail = Tail(todo)
  OBVIOUS
<1>3. todo \in Seq(Pending) /\ unit \in Units
  BY DEF Inv
<1>4. m \in Nat /\ n \in Nat /\ n # 0
  BY <1>1, <1>3, EmptySeq, LenProperties
<1>5. tail \in Seq(Pending) /\ Len(tail) = n - 1 /\ \A i \in 1..(n - 1) : tail[i] = todo[i + 1]
  BY <1>1, <1>2, <1>3, HeadTailProperties
<1>6. PICK new : new = front \o tail /\ todo' = new
  BY <1>2 DEF Next_
<1>7. Len(new) = m + (n - 1) /\ \A i \in 1..(m + (n - 1)) : new[i] = IF i <= m THEN front[i] ELSE tail[i - m]
  <2>1. PICK l : l = Len(tail)
    OBVIOUS
  <2>2. Len(new) = m + l /\ \A i \in 1..(m + l) : new[i] = IF i <= m THEN front[i] ELSE tail[i - m]
    BY <1>1, <1>5, <1>6, <2>1, ConcatProperties
  <2> QED BY <1>5, <2>1, <2>2
<1>8. todo[1] = Head(todo)
  OBVIOUS
<1>9. ASSUME NEW k \in 1..Len(new), Reads(new[k]), NEW p \in Operands(new[k].node)
      PROVE  p \in DOMAIN types' \/ \E j \in 1..(k - 1) : Gives(new[j], p)
  <2>1. CASE k <= m
    <3>1. k \in 1..m /\ new[k] = front[k]
      BY <1>4, <1>7, <2>1
    <3>2. p \in DOMAIN types' \/ \E j \in 1..(k - 1) : Gives(front[j], p)
      BY <1>1, <1>9, <3>1
    <3>3. \A j \in 1..(k - 1) : new[j] = front[j]
      BY <1>4, <1>7, <3>1
    <3> QED BY <3>2, <3>3
  <2>2. CASE ~(k <= m)
    <3>1. PICK q \in 2..n : q = (k - m) + 1 /\ k = (q - 1) + m /\ new[k] = todo[q]
      <4>1. k - m \in 1..(n - 1) /\ new[k] = tail[k - m]
        BY <1>4, <1>7, <2>2
      <4>2. tail[k - m] = todo[(k - m) + 1]
        BY <1>5, <4>1
      <4> QED BY <1>4, <4>1, <4>2
    <3>2. q \in 1..n /\ p \in Operands(todo[q].node) /\ Reads(todo[q])
      BY <1>4, <1>9, <3>1
    <3>3. p \in DOMAIN types \/ \E j \in 1..(q - 1) : Gives(todo[j], p)
      BY <1>1, <3>2 DEF Awaited
    <3>4. CASE p \in DOMAIN types
      BY <3>4
    <3>5. ASSUME NEW j \in 1..(q - 1), Gives(todo[j], p)
          PROVE  p \in DOMAIN types' \/ \E l \in 1..(k - 1) : Gives(new[l], p)
      <4>1. CASE j = 1
        <5>1. todo[q] \in Pending
          BY <1>1, <1>3, <3>2, ElementOfSeq
        <5>2. unit[p].kind \in Expression
          BY <1>3, <3>2, <5>1, OperandsRight DEF Reads, Pending
        <5>3. p = This /\ Head(todo).step \in Evaluating
          BY <1>8, <3>5, <4>1 DEF Gives, This
        <5>4. p \in DOMAIN types' \/ \E l \in 1..m : Gives(front[l], p)
          BY <1>1, <5>2, <5>3
        <5>5. \A l \in 1..m : l \in 1..(k - 1) /\ new[l] = front[l]
          BY <1>4, <1>7, <2>2
        <5> QED BY <5>4, <5>5
      <4>2. CASE j # 1
        <5>1. PICK l : l = (j - 1) + m
          OBVIOUS
        <5>2. l \in 1..(k - 1) /\ ~(l <= m) /\ l - m = j - 1 /\ l \in 1..(m + (n - 1)) /\ j - 1 \in 1..(n - 1)
          BY <1>4, <3>1, <3>5, <4>2, <5>1
        <5>3. new[l] = tail[j - 1] /\ tail[j - 1] = todo[(j - 1) + 1]
          BY <1>5, <1>7, <5>2
        <5>4. new[l] = todo[j]
          BY <3>5, <5>3
        <5> QED BY <3>5, <5>2, <5>4
      <4> QED BY <4>1, <4>2
    <3> QED BY <3>3, <3>4, <3>5
  <2> QED BY <2>1, <2>2
<1>10. \A i : Operands(i)' = Operands(i)
  BY DEF Operands, Kids, KidsOf
<1>11. \A x : Reads(x)' <=> Reads(x)
  BY DEF Reads
<1> QED BY <1>6, <1>9, <1>10, <1>11 DEF Awaited

(* What is put in the place of an item, but for an operator's own.         *)
Untyped == {x \in Pending : x.step # "type"}

LEMMA EachUntyped ==
  ASSUME NEW nodes \in Seq(DOMAIN unit), unit \in Units, NEW step \in {"collect", "forward", "node"}
  PROVE  /\ Each(step, nodes) \in Seq(Untyped) /\ Len(Each(step, nodes)) = Len(nodes)
         /\ \A k \in DOMAIN nodes : Each(step, nodes)[k] = Do(step, nodes[k])
<1>1. PICK n \in Nat : n = Len(nodes) /\ DOMAIN nodes = 1..n /\ \A k \in 1..n : nodes[k] \in DOMAIN unit
  BY LenProperties, ElementOfSeq
<1>2. \A k \in 1..n : Do(step, nodes[k]) \in Untyped
  <2> SUFFICES ASSUME NEW i \in DOMAIN unit PROVE Do(step, i) \in Untyped
    BY <1>1
  <2>1. i \in Nat
    BY UnitRight
  <2> QED BY <2>1 DEF Do, Untyped, Pending, Item, NoType, Type
<1>3. PICK e : e = Each(step, nodes)
  OBVIOUS
<1>4. e \in [1..n -> Untyped] /\ \A k \in 1..n : e[k] = Do(step, nodes[k])
  BY <1>1, <1>2, <1>3 DEF Each
<1>5. e \in Seq(Untyped)
  BY <1>4, SeqDef
<1>6. Len(e) = n
  BY <1>4, <1>5, LenProperties
<1> QED BY <1>1, <1>3, <1>4, <1>5, <1>6

LEMMA DoUntyped ==
  ASSUME unit \in Units, NEW i \in DOMAIN unit
  PROVE  /\ \A step \in {"define", "enter_loop", "leave_loop", "enter_switch", "leave_switch", "leave_scope",
                         "returned", "arguments"} : Do(step, i) \in Untyped
         /\ \A t \in Type : [step |-> "leave_function", node |-> i, saved |-> t] \in Untyped
         /\ Do("type", i) \in Pending
<1>1. i \in Nat
  BY UnitRight
<1> QED BY <1>1 DEF Do, Untyped, Pending, Item, NoType, Type

(* A step on something that is no expression.                              *)
LEMMA UntypedStep ==
  ASSUME Inv, Awaited, todo # << >>, NEW front \in Seq(Untyped), Next_(front), unit' = unit, types' = types,
         Head(todo).step \notin Evaluating \/ unit[This].kind \notin Expression
  PROVE  Awaited'
<1>1. front \in Seq(Pending)
  BY SeqMonotonic DEF Untyped
<1>2. \A k \in 1..Len(front) : ~Reads(front[k])
  <2> SUFFICES ASSUME NEW k \in 1..Len(front) PROVE ~Reads(front[k])
    OBVIOUS
  <2>1. front[k] \in Untyped
    BY ElementOfSeq
  <2> QED BY <2>1 DEF Untyped, Reads
<1> HIDE DEF Next_
<1> QED BY <1>1, <1>2, AwaitedStep

(* A step that types an expression.                                        *)
LEMMA TypedStep ==
  ASSUME Inv, Evaluated, todo # << >>, Next_(<< >>), unit' = unit, NEW t \in Type, Returning(t)
  PROVE  Evaluated'
<1>1. This \in DOMAIN unit
  BY ThisRight DEF Inv
<1>2. PICK map : map = Mapped(types, This, t) /\ types' = map
  BY DEF Returning
<1>3. IsTable(map, DOMAIN unit, Type)
  BY <1>1, <1>2, MappedTable DEF Evaluated
<1>4. DOMAIN map = DOMAIN types \cup {This}
  BY <1>2 DEF Mapped
<1>5. PICK front \in Seq(Pending) : front = << >>
  BY EmptySeq
<1>6. Next_(front) /\ ~\E k \in 1..Len(front) : TRUE
  <2>1. 1..Len(front) = {}
    BY <1>5
  <2> QED BY <1>5, <2>1
<1> HIDE DEF Next_
<1>7. Awaited'
  BY <1>2, <1>4, <1>6, AwaitedStep DEF Evaluated
<1> QED BY <1>2, <1>3, <1>7 DEF Evaluated

LEMMA TypesStay ==
  ASSUME Evaluated, UNCHANGED <<unit, types>>, Awaited'
  PROVE  Evaluated'
BY DEF Evaluated

LEMMA OperandTyped ==
  ASSUME Inv, Evaluated, NEW kinds, At("type", kinds), unit[This].kind \in TypedByPart
  PROVE  /\ TypeOfPart(1) \in Type
         /\ unit[This].kind = "ternary" => TypeOfPart(2) \in Type
<1>1. todo # << >> /\ Head(todo).step = "type" /\ This \in DOMAIN unit
  BY Taken
<1>2. PICK n \in Nat : n = Len(todo) /\ n # 0
  BY <1>1, EmptySeq DEF Inv
<1>3. 1 \in 1..n /\ todo[1] = Head(todo)
  BY <1>2
<1>4. Reads(todo[1]) /\ todo[1].node = This
  BY <1>1, <1>3 DEF Reads, This
<1>5. \A p \in Operands(This) : p \in DOMAIN types \/ \E j \in 1..(1 - 1) : Gives(todo[j], p)
  BY <1>2, <1>3, <1>4 DEF Evaluated, Awaited
<1>6. \A p \in Operands(This) : p \in DOMAIN types
  <2>1. 1..(1 - 1) = {}
    OBVIOUS
  <2> QED BY <1>5, <2>1
<1>7. \A p \in Operands(This) : types[p] \in Type
  BY <1>6 DEF Evaluated, IsTable
<1>8. /\ Kids(This, {"part"})[1] \in Operands(This)
      /\ unit[This].kind = "ternary" => Kids(This, {"part"})[2] \in Operands(This)
  BY <1>1, OperandsRight DEF Inv
<1> QED BY <1>7, <1>8 DEF TypeOfPart

LEMMA LookupRight ==
  ASSUME ScopeTables, scopes \in Seq(ToSet(scopes)), NEW key, Found(key)
  PROVE  Lookup(key) \in Symbol
<1> DEFINE S == {s \in DOMAIN scopes : key \in DOMAIN scopes[s]}
<1>1. PICK n \in Nat : DOMAIN scopes = 1..n
  BY LenProperties
<1>2. S \subseteq Nat /\ S # {}
  BY <1>1 DEF Found
<1> HIDE DEF S
<1>3. PICK s \in S : \A r \in S : s <= r
  BY <1>2, Least
<1>4. s \in DOMAIN scopes /\ key \in DOMAIN scopes[s] /\ \A r \in 1..(s - 1) : key \notin DOMAIN scopes[r]
  <2>1. s \in 1..n /\ key \in DOMAIN scopes[s]
    BY <1>1 DEF S
  <2>2. ASSUME NEW r \in 1..(s - 1) PROVE key \notin DOMAIN scopes[r]
    <3>1. r \in 1..n /\ ~(s <= r)
      BY <2>1
    <3> QED BY <1>1, <1>3, <3>1 DEF S
  <2> QED BY <1>1, <2>1, <2>2
<1>5. PICK t \in DOMAIN scopes : key \in DOMAIN scopes[t] /\ Lookup(key) = scopes[t][key]
  BY <1>4 DEF Lookup
<1> QED BY <1>5 DEF ScopeTables, IsTable

(* The steps that give an expression its type.                             *)
LEMMA PointerTyped ==
  ASSUME NEW t \in Type
  PROVE  PointerTo(t) \in Type /\ (t.depth # 0 => [t EXCEPT !.depth = @ - 1] \in Type)
BY DEF PointerTo, Type

LEMMA TypingSteps ==
  ASSUME Inv, Tables, Evaluated, Literal \/ Use \/ OperatorType \/ Dereference \/ CallType \/ Access
  PROVE  Evaluated'
<1> USE DEF tables
<1>0. /\ unit \in Units /\ scopes \in Seq(ToSet(scopes)) /\ AliasTable /\ MemberTables /\ ScopeTables
      /\ IntType \in Type /\ VoidType \in Type
  BY DEF Inv, Counted, Tables, IntType, VoidType, Type
<1>a. ASSUME NEW step, NEW kinds, At(step, kinds)
      PROVE  This \in DOMAIN unit /\ todo # << >> /\ unit[This].type \in Type /\ unit[This].kind \in kinds
  BY <1>0, <1>a, Taken, NameTyped DEF At
<1>b. ASSUME NEW key, Found(key) PROVE Lookup(key).type \in Type
  <2>1. Lookup(key) \in Symbol
    BY <1>0, <1>b, LookupRight
  <2> QED BY <2>1 DEF Symbol
<1>1. CASE Literal
  <2>1. At("node", {"literal", "this", "sizeof"}) /\ Next_(<< >>) /\ unit' = unit
    BY <1>1 DEF Literal
  <2>2. PICK t : /\ t = CASE unit[This].kind = "literal" -> unit[This].type
                          [] unit[This].kind = "this" -> PointerTo(VoidType)
                          [] unit[This].kind = "sizeof" -> IntType
                 /\ Returning(t)
    BY <1>1 DEF Literal
  <2>3. unit[This].type \in Type /\ PointerTo(VoidType) \in Type /\ todo # << >>
        /\ unit[This].kind \in {"literal", "this", "sizeof"}
    BY <1>0, <1>a, <2>1, PointerTyped
  <2>4. t \in Type
    BY <1>0, <2>2, <2>3
  <2> QED BY <2>1, <2>2, <2>3, <2>4, TypedStep
<1>2. CASE Use
  <2>1. At("node", {"use"}) /\ Next_(<< >>) /\ unit' = unit
    BY <1>2 DEF Use
  <2>2. PICK t : t = (IF Found(<<unit[This].name>>) THEN Lookup(<<unit[This].name>>).type ELSE IntType) /\ Returning(t)
    BY <1>2 DEF Use
  <2>3. t \in Type
    BY <1>0, <1>b, <2>2
  <2> QED BY <1>a, <2>1, <2>2, <2>3, TypedStep
<1>3. CASE OperatorType
  <2>1. At("type", {"assign", "compare", "ternary", "address", "cast", "new"}) /\ Next_(<< >>) /\ unit' = unit
    BY <1>3 DEF OperatorType
  <2>2. PICK t : /\ t = CASE unit[This].kind = "assign" -> TypeOfPart(1)
                          [] unit[This].kind = "compare" -> IntType
                          [] unit[This].kind = "ternary" -> TypeOfPart(2)
                          [] unit[This].kind = "address" -> PointerTo(TypeOfPart(1))
                          [] unit[This].kind = "cast" -> resolve_type(unit[This].type)
                          [] unit[This].kind = "new" -> PointerTo(resolve_type(unit[This].type))
                 /\ Returning(t)
    BY <1>3 DEF OperatorType
  <2>3. PICK k : k = unit[This].kind /\ k \in {"assign", "compare", "ternary", "address", "cast", "new"}
    BY <1>a, <2>1
  <2>4. resolve_type(unit[This].type) \in Type /\ PointerTo(resolve_type(unit[This].type)) \in Type
    BY <1>0, <1>a, <2>1, Resolved, PointerTyped
  <2>5. CASE k \in {"assign", "ternary", "address"}
    <3>1. TypeOfPart(1) \in Type /\ (k = "ternary" => TypeOfPart(2) \in Type)
      BY <2>1, <2>3, <2>5, OperandTyped DEF TypedByPart
    <3>2. PointerTo(TypeOfPart(1)) \in Type
      BY <3>1, PointerTyped
    <3>3. t \in Type
      BY <2>2, <2>3, <2>5, <3>1, <3>2
    <3> QED BY <1>a, <2>1, <2>2, <3>3, TypedStep
  <2>6. CASE k \in {"compare", "cast", "new"}
    <3>1. t \in Type
      BY <1>0, <2>2, <2>3, <2>4, <2>6
    <3> QED BY <1>a, <2>1, <2>2, <3>1, TypedStep
  <2> QED BY <2>3, <2>5, <2>6
<1>4. CASE Dereference
  <2>1. At("type", {"dereference", "index"}) /\ Next_(<< >>) /\ unit' = unit
    BY <1>4 DEF Dereference
  <2>2. PICK t : t = TypeOfPart(1) /\ Returning(IF t.depth = 0 THEN t ELSE [t EXCEPT !.depth = @ - 1])
    BY <1>4 DEF Dereference
  <2>3. t \in Type
    BY <1>a, <2>1, <2>2, OperandTyped DEF TypedByPart
  <2>4. (IF t.depth = 0 THEN t ELSE [t EXCEPT !.depth = @ - 1]) \in Type
    BY <2>3, PointerTyped
  <2> QED BY <1>a, <2>1, <2>2, <2>4, TypedStep
<1>5. CASE CallType
  <2>1. At("type", {"call"}) /\ Next_(<< >>) /\ unit' = unit
    BY <1>5 DEF CallType
  <2>2. PICK t : t = (IF HasSignature THEN Lookup(<<unit[Callee(This)].name>>).type ELSE IntType) /\ Returning(t)
    BY <1>5 DEF CallType
  <2>3. t \in Type
    <3>1. HasSignature => Found(<<unit[Callee(This)].name>>)
      BY DEF HasSignature
    <3> QED BY <1>0, <1>b, <2>2, <3>1
  <2> QED BY <1>a, <2>1, <2>2, <2>3, TypedStep
<1>6. CASE Access
  <2>1. At("type", {"dot", "arrow"}) /\ Next_(<< >>) /\ unit' = unit
    BY <1>6 DEF Access
  <2>2. PICK class, has, t :
          /\ has = (class \in DOMAIN struct_members_ /\ unit[This].name \in DOMAIN struct_members_[class])
          /\ t = (IF has THEN struct_members_[class][unit[This].name] ELSE IntType)
          /\ Returning(t)
    BY <1>6 DEF Access
  <2>3. t \in Type
    BY <1>0, <2>2 DEF MemberTables, IsTable
  <2> QED BY <1>a, <2>1, <2>2, <2>3, TypedStep
<1> QED BY <1>1, <1>2, <1>3, <1>4, <1>5, <1>6

(* The steps on what is no expression.                                     *)
LEMMA UntypedTaken ==
  ASSUME Inv, Evaluated, NEW step, NEW kinds, At(step, kinds), NEW front, front \in Seq(Untyped), Next_(front),
         UNCHANGED <<unit, types>>, step \notin Evaluating \/ kinds \cap Expression = {}
  PROVE  Evaluated'
<1>1. todo # << >> /\ Head(todo).step = step
  BY Taken
<1>2. Head(todo).step \notin Evaluating \/ unit[This].kind \notin Expression
  BY <1>1 DEF At
<1> HIDE DEF Next_, At
<1>3. Awaited'
  BY <1>1, <1>2, UntypedStep DEF Evaluated
<1> QED BY <1>3, TypesStay

LEMMA NothingTyped ==
  ASSUME Inv, Evaluated, NEW step, NEW kinds, At(step, kinds), Next_(<< >>),
         UNCHANGED <<unit, types>>, step \notin Evaluating \/ kinds \cap Expression = {}
  PROVE  Evaluated'
<1>1. PICK front \in Seq(Untyped) : front = << >>
  BY EmptySeq
<1>2. Next_(front)
  BY <1>1
<1> HIDE DEF Next_, At, Evaluated
<1> QED BY <1>2, UntypedTaken

LEMMA UntypedEnding ==
  ASSUME Inv, Evaluated,
         \/ CollectEnum \/ CollectNothing
         \/ ForwardFunction \/ ForwardEnum \/ ForwardVariable \/ ForwardClass \/ ForwardUnion
         \/ ForwardTypedef \/ ForwardNothing
         \/ DefineVariable \/ Break \/ Continue \/ Returned \/ NotAnalyzed
         \/ LeaveFunction \/ LeaveScope \/ LeaveLoop \/ LeaveSwitch
  PROVE  Evaluated'
<1> USE DEF tables
<1>1. CASE CollectEnum
  BY <1>1, NothingTyped DEF CollectEnum, Evaluating
<1>2. CASE CollectNothing
  BY <1>2, NothingTyped DEF CollectNothing, Evaluating
<1>3. CASE ForwardFunction
  BY <1>3, NothingTyped DEF ForwardFunction, Evaluating
<1>4. CASE ForwardEnum
  BY <1>4, NothingTyped DEF ForwardEnum, Evaluating
<1>5. CASE ForwardVariable
  BY <1>5, NothingTyped DEF ForwardVariable, Evaluating
<1>6. CASE ForwardClass
  BY <1>6, NothingTyped DEF ForwardClass, Evaluating
<1>7. CASE ForwardUnion
  BY <1>7, NothingTyped DEF ForwardUnion, Evaluating
<1>8. CASE ForwardTypedef
  BY <1>8, NothingTyped DEF ForwardTypedef, Evaluating
<1>9. CASE ForwardNothing
  BY <1>9, NothingTyped DEF ForwardNothing, Evaluating
<1>10. CASE DefineVariable
  BY <1>10, NothingTyped DEF DefineVariable, Evaluating
<1>11. CASE Break
  <2>1. {"break"} \cap Expression = {}
    BY DEF Expression
  <2> QED BY <1>11, <2>1, NothingTyped DEF Break
<1>12. CASE Continue
  <2>1. {"continue"} \cap Expression = {}
    BY DEF Expression
  <2> QED BY <1>12, <2>1, NothingTyped DEF Continue
<1>13. CASE Returned
  BY <1>13, NothingTyped DEF Returned, Evaluating
<1>14. CASE NotAnalyzed
  <2>1. {"enum", "class", "union", "typedef", "template"} \cap Expression = {}
    BY DEF Expression
  <2> QED BY <1>14, <2>1, NothingTyped DEF NotAnalyzed
<1>15. CASE LeaveFunction
  BY <1>15, NothingTyped DEF LeaveFunction, Evaluating
<1>16. CASE LeaveScope
  BY <1>16, NothingTyped DEF LeaveScope, Evaluating
<1>17. CASE LeaveLoop
  BY <1>17, NothingTyped DEF LeaveLoop, Evaluating
<1>18. CASE LeaveSwitch
  BY <1>18, NothingTyped DEF LeaveSwitch, Evaluating
<1> QED BY <1>1, <1>2, <1>3, <1>4, <1>5, <1>6, <1>7, <1>8, <1>9, <1>10, <1>11, <1>12, <1>13, <1>14, <1>15, <1>16,
           <1>17, <1>18

LEMMA VisitedUntyped ==
  ASSUME unit \in Units, NEW i, NEW roles, NEW step \in {"collect", "forward", "node"}
  PROVE  Each(step, Kids(i, roles)) \in Seq(Untyped)
BY ChildrenPlain, EachUntyped

LEMMA BehindUntyped ==
  ASSUME NEW front, front \in Seq(Untyped), NEW x, x \in Untyped
  PROVE  front \o <<x>> \in Seq(Untyped) /\ <<x>> \o front \in Seq(Untyped)
<1>1. <<x>> \in Seq(Untyped)
  OBVIOUS
<1> QED BY <1>1, ConcatProperties

LEMMA UntypedVisiting ==
  ASSUME Inv, Evaluated,
         \/ CollectNamespace \/ CollectTemplate \/ ForwardNamespace \/ Function \/ Variable \/ Block \/ While
         \/ DoWhile \/ For \/ EnterLoop \/ Switch \/ EnterSwitch \/ Return \/ Parted
  PROVE  Evaluated'
<1> USE DEF tables
<1>0. unit \in Units /\ return_type \in Type
  BY DEF Inv, Saved
<1>a. ASSUME NEW step, NEW kinds, At(step, kinds)
      PROVE  /\ This \in DOMAIN unit
             /\ \A s \in {"define", "enter_loop", "leave_loop", "enter_switch", "leave_switch", "leave_scope",
                          "returned", "arguments"} : Do(s, This) \in Untyped
             /\ [step |-> "leave_function", node |-> This, saved |-> return_type] \in Untyped
  <2>1. This \in DOMAIN unit
    BY <1>a, Taken
  <2> QED BY <1>0, <2>1, DoUntyped
<1>b. \A i, roles : Kids(i, roles) \in Seq(DOMAIN unit)
  BY <1>0, ChildrenPlain
<1>1. CASE CollectNamespace
  <2>1. PICK front : front = Each("collect", Kids(This, {"body"})) /\ Next_(front)
    BY <1>1 DEF CollectNamespace
  <2>2. At("collect", {"namespace"}) /\ UNCHANGED <<unit, types>>
    BY <1>1 DEF CollectNamespace
  <2> QED BY <1>0, <2>1, <2>2, VisitedUntyped, UntypedTaken DEF Evaluating
<1>2. CASE CollectTemplate
  <2>1. PICK nodes, front : /\ nodes = {k \in KidsOf(This, {"body"}) : unit[k].kind = "enum"}
                            /\ front = Each("collect", InOrder(nodes)) /\ Next_(front)
    BY <1>2 DEF CollectTemplate
  <2>2. At("collect", {"template"}) /\ UNCHANGED <<unit, types>>
    BY <1>2 DEF CollectTemplate
  <2>3. nodes \in SUBSET DOMAIN unit
    BY <2>1 DEF KidsOf
  <2>4. front \in Seq(Untyped)
    BY <1>0, <2>1, <2>3, InOrderThere, EachUntyped
  <2> QED BY <2>1, <2>2, <2>4, UntypedTaken DEF Evaluating
<1>3. CASE ForwardNamespace
  <2>1. PICK front : front = Each("forward", Kids(This, {"body"})) \o <<Do("leave_scope", This)>> /\ Next_(front)
    BY <1>3 DEF ForwardNamespace
  <2>2. At("forward", {"namespace"}) /\ UNCHANGED <<unit, types>>
    BY <1>3 DEF ForwardNamespace
  <2>3. front \in Seq(Untyped)
    BY <1>0, <1>a, <2>1, <2>2, VisitedUntyped, BehindUntyped
  <2>4. "forward" \notin Evaluating
    BY DEF Evaluating
  <2> QED BY <2>1, <2>2, <2>3, <2>4, UntypedTaken
<1>4. CASE Function
  <2>1. PICK front : /\ front = Each("node", Kids(This, {"body"}))
                                  \o <<[step |-> "leave_function", node |-> This, saved |-> return_type]>>
                     /\ Next_(front)
    BY <1>4 DEF Function
  <2>2. At("node", {"function"}) /\ UNCHANGED <<unit, types>>
    BY <1>4 DEF Function
  <2>3. front \in Seq(Untyped)
    BY <1>0, <1>a, <2>1, <2>2, VisitedUntyped, BehindUntyped
  <2>4. {"function"} \cap Expression = {}
    BY DEF Expression
  <2> QED BY <2>1, <2>2, <2>3, <2>4, UntypedTaken
<1>5. CASE Variable
  <2>1. PICK front : front = Each("node", Kids(This, {"init"})) \o <<Do("define", This)>> /\ Next_(front)
    BY <1>5 DEF Variable
  <2>2. At("node", {"variable"}) /\ UNCHANGED <<unit, types>>
    BY <1>5 DEF Variable
  <2>3. front \in Seq(Untyped)
    BY <1>0, <1>a, <2>1, <2>2, VisitedUntyped, BehindUntyped
  <2>4. {"variable"} \cap Expression = {}
    BY DEF Expression
  <2> QED BY <2>1, <2>2, <2>3, <2>4, UntypedTaken
<1>6. CASE Block
  <2>1. PICK front : front = Each("node", Kids(This, {"body"})) \o <<Do("leave_scope", This)>> /\ Next_(front)
    BY <1>6 DEF Block
  <2>2. At("node", {"block", "namespace", "catch"}) /\ UNCHANGED <<unit, types>>
    BY <1>6 DEF Block
  <2>3. front \in Seq(Untyped)
    BY <1>0, <1>a, <2>1, <2>2, VisitedUntyped, BehindUntyped
  <2>4. {"block", "namespace", "catch"} \cap Expression = {}
    BY DEF Expression
  <2> QED BY <2>1, <2>2, <2>3, <2>4, UntypedTaken
<1>7. CASE While
  <2>1. PICK front : front = Each("node", Kids(This, {"cond"})) \o <<Do("enter_loop", This)>> /\ Next_(front)
    BY <1>7 DEF While
  <2>2. At("node", {"while"}) /\ UNCHANGED <<unit, types>>
    BY <1>7 DEF While
  <2>3. front \in Seq(Untyped)
    BY <1>0, <1>a, <2>1, <2>2, VisitedUntyped, BehindUntyped
  <2>4. {"while"} \cap Expression = {}
    BY DEF Expression
  <2> QED BY <2>1, <2>2, <2>3, <2>4, UntypedTaken
<1>8. CASE DoWhile
  <2>1. PICK front : front = <<Do("enter_loop", This)>> \o Each("node", Kids(This, {"cond"})) /\ Next_(front)
    BY <1>8 DEF DoWhile
  <2>2. At("node", {"do"}) /\ UNCHANGED <<unit, types>>
    BY <1>8 DEF DoWhile
  <2>3. front \in Seq(Untyped)
    BY <1>0, <1>a, <2>1, <2>2, VisitedUntyped, BehindUntyped
  <2>4. {"do"} \cap Expression = {}
    BY DEF Expression
  <2> QED BY <2>1, <2>2, <2>3, <2>4, UntypedTaken
<1>9. CASE For
  <2>1. PICK nodes, items, front :
          /\ nodes = Kids(This, {"init"}) \o Kids(This, {"cond"}) \o Kids(This, {"step"})
          /\ items = <<Do("enter_loop", This), Do("leave_scope", This)>>
          /\ front = Each("node", nodes) \o items /\ Next_(front)
    BY <1>9 DEF For
  <2>2. At("node", {"for"}) /\ UNCHANGED <<unit, types>>
    BY <1>9 DEF For
  <2>3. nodes \in Seq(DOMAIN unit)
    BY <1>b, <2>1, ConcatProperties
  <2>4. items \in Seq(Untyped)
    BY <1>a, <2>1, <2>2
  <2>5. front \in Seq(Untyped)
    BY <1>0, <2>1, <2>3, <2>4, EachUntyped, ConcatProperties
  <2>6. {"for"} \cap Expression = {}
    BY DEF Expression
  <2> QED BY <2>1, <2>2, <2>5, <2>6, UntypedTaken
<1>10. CASE EnterLoop
  <2>1. PICK front : front = Each("node", Kids(This, {"body"})) \o <<Do("leave_loop", This)>> /\ Next_(front)
    BY <1>10 DEF EnterLoop
  <2>2. At("enter_loop", {"while", "do", "for"}) /\ UNCHANGED <<unit, types>>
    BY <1>10 DEF EnterLoop
  <2>3. front \in Seq(Untyped)
    BY <1>0, <1>a, <2>1, <2>2, VisitedUntyped, BehindUntyped
  <2>4. "enter_loop" \notin Evaluating
    BY DEF Evaluating
  <2> QED BY <2>1, <2>2, <2>3, <2>4, UntypedTaken
<1>11. CASE Switch
  <2>1. PICK front : front = Each("node", Kids(This, {"cond"})) \o <<Do("enter_switch", This)>> /\ Next_(front)
    BY <1>11 DEF Switch
  <2>2. At("node", {"switch"}) /\ UNCHANGED <<unit, types>>
    BY <1>11 DEF Switch
  <2>3. front \in Seq(Untyped)
    BY <1>0, <1>a, <2>1, <2>2, VisitedUntyped, BehindUntyped
  <2>4. {"switch"} \cap Expression = {}
    BY DEF Expression
  <2> QED BY <2>1, <2>2, <2>3, <2>4, UntypedTaken
<1>12. CASE EnterSwitch
  <2>1. PICK front : front = Each("node", Kids(This, {"body"})) \o <<Do("leave_switch", This)>> /\ Next_(front)
    BY <1>12 DEF EnterSwitch
  <2>2. At("enter_switch", {"switch"}) /\ UNCHANGED <<unit, types>>
    BY <1>12 DEF EnterSwitch
  <2>3. front \in Seq(Untyped)
    BY <1>0, <1>a, <2>1, <2>2, VisitedUntyped, BehindUntyped
  <2>4. "enter_switch" \notin Evaluating
    BY DEF Evaluating
  <2> QED BY <2>1, <2>2, <2>3, <2>4, UntypedTaken
<1>13. CASE Return
  <2>1. PICK value, front : /\ value = Each("node", Kids(This, {"part"})) \o <<Do("returned", This)>>
                            /\ front = (IF return_type = NoType THEN << >> ELSE value) /\ Next_(front)
    BY <1>13 DEF Return
  <2>2. At("node", {"return"}) /\ UNCHANGED <<unit, types>>
    BY <1>13 DEF Return
  <2>3. value \in Seq(Untyped)
    BY <1>0, <1>a, <2>1, <2>2, VisitedUntyped, BehindUntyped
  <2>4. front \in Seq(Untyped)
    BY <2>1, <2>3, EmptySeq
  <2>5. {"return"} \cap Expression = {}
    BY DEF Expression
  <2> QED BY <2>1, <2>2, <2>4, <2>5, UntypedTaken
<1>14. CASE Parted
  <2>1. PICK nodes, front : /\ nodes = Kids(This, {"cond"}) \o Kids(This, {"part", "body"})
                            /\ front = Each("node", nodes) /\ Next_(front)
    BY <1>14 DEF Parted
  <2>2. At("node", {"if", "case", "throw", "try", "statement"}) /\ UNCHANGED <<unit, types>>
    BY <1>14 DEF Parted
  <2>3. nodes \in Seq(DOMAIN unit)
    BY <1>b, <2>1, ConcatProperties
  <2>4. front \in Seq(Untyped)
    BY <1>0, <2>1, <2>3, EachUntyped
  <2>5. {"if", "case", "throw", "try", "statement"} \cap Expression = {}
    BY DEF Expression
  <2> QED BY <2>1, <2>2, <2>4, <2>5, UntypedTaken
<1> QED BY <1>1, <1>2, <1>3, <1>4, <1>5, <1>6, <1>7, <1>8, <1>9, <1>10, <1>11, <1>12, <1>13, <1>14

(* The steps that put an expression's own item behind its operands.        *)
LEMMA GivenBehind ==
  ASSUME Inv, Evaluated, NEW step, NEW kinds, At(step, kinds), NEW each, each \in Seq(Untyped),
         NEW x, x \in {Do("type", This), Do("arguments", This)}, Next_(each \o <<x>>), UNCHANGED <<unit, types>>,
         Reads(x) => \A p \in Operands(This) : \E j \in 1..Len(each) : Gives(each[j], p)
  PROVE  Evaluated'
<1>1. todo # << >> /\ This \in DOMAIN unit /\ unit \in Units
  BY Taken DEF Inv
<1>2. x \in Pending /\ x.node = This /\ x.step \in Evaluating
  <2>1. Do("arguments", This) \in Untyped /\ Do("type", This) \in Pending
    BY <1>1, DoUntyped
  <2> QED BY <2>1 DEF Untyped, Do, Evaluating
<1>3. PICK m, last, front : m = Len(each) /\ last = <<x>> /\ front = each \o last
  OBVIOUS
<1>4. each \in Seq(Pending) /\ m \in Nat /\ \A k \in 1..m : ~Reads(each[k])
  <2>1. \A k \in 1..m : each[k] \in Untyped
    BY <1>3, ElementOfSeq
  <2>2. \A k \in 1..m : ~Reads(each[k])
    BY <2>1 DEF Untyped, Reads
  <2> QED BY <1>3, <2>2, SeqMonotonic, LenProperties DEF Untyped
<1>5. last \in Seq(Pending) /\ Len(last) = 1 /\ last[1] = x
  BY <1>2, <1>3
<1>6. /\ front \in Seq(Pending) /\ Len(front) = m + 1
      /\ \A k \in 1..(m + 1) : front[k] = IF k <= m THEN each[k] ELSE last[k - m]
  <2>1. PICK l : l = Len(last)
    OBVIOUS
  <2>2. /\ front \in Seq(Pending) /\ Len(front) = m + l
        /\ \A k \in 1..(m + l) : front[k] = IF k <= m THEN each[k] ELSE last[k - m]
    BY <1>3, <1>4, <1>5, <2>1, ConcatProperties
  <2> QED BY <1>5, <2>1, <2>2
<1>7. front[m + 1] = x /\ \A k \in 1..m : front[k] = each[k]
  <2>1. m + 1 \in 1..(m + 1) /\ ~(m + 1 <= m) /\ (m + 1) - m = 1
    BY <1>4
  <2>2. \A k \in 1..m : k \in 1..(m + 1) /\ k <= m
    BY <1>4
  <2> QED BY <1>5, <1>6, <2>1, <2>2
<1>8. ASSUME NEW k \in 1..Len(front), Reads(front[k]), NEW p \in Operands(front[k].node)
      PROVE  p \in DOMAIN types' \/ \E j \in 1..(k - 1) : Gives(front[j], p)
  <2>1. k = m + 1
    <3>1. k \in 1..m \/ k = m + 1
      BY <1>4, <1>6
    <3> QED BY <1>4, <1>7, <1>8, <3>1
  <2>2. \E j \in 1..Len(each) : Gives(each[j], p)
    BY <1>2, <1>7, <1>8, <2>1
  <2>3. PICK j \in 1..m : Gives(each[j], p)
    BY <1>3, <2>2
  <2>4. j \in 1..(k - 1) /\ front[j] = each[j]
    BY <1>4, <1>7, <2>1
  <2> QED BY <2>3, <2>4
<1>9. \E j \in 1..Len(front) : Gives(front[j], This)
  <2>1. m + 1 \in 1..Len(front)
    BY <1>4, <1>6
  <2> QED BY <1>2, <1>7, <2>1 DEF Gives
<1>10. Next_(front) /\ DOMAIN types \subseteq DOMAIN types'
  BY <1>3
<1> HIDE DEF Next_
<1>11. Awaited'
  BY <1>1, <1>6, <1>8, <1>9, <1>10, AwaitedStep DEF Evaluated
<1> QED BY <1>11, TypesStay

LEMMA OperandSteps ==
  ASSUME Inv, Evaluated, Operator \/ Call \/ Arguments
  PROVE  Evaluated'
<1> USE DEF tables
<1>0. unit \in Units
  BY DEF Inv
<1>1. CASE Operator
  <2>1. At("node", {"assign", "compare", "ternary", "address", "dereference", "index", "dot", "arrow", "cast", "new"})
        /\ UNCHANGED <<unit, types>>
    BY <1>1 DEF Operator
  <2>2. PICK kids, each, x : /\ kids = Kids(This, {"part"}) /\ each = Each("node", kids) /\ x = Do("type", This)
                             /\ Next_(each \o <<x>>)
    BY <1>1 DEF Operator
  <2>3. PICK n : n = Len(each)
    OBVIOUS
  <2>4. kids \in Seq(DOMAIN unit) /\ each \in Seq(Untyped) /\ n = Len(kids)
        /\ \A k \in DOMAIN kids : each[k] = Do("node", kids[k])
    BY <1>0, <2>2, <2>3, ChildrenPlain, EachUntyped
  <2>5. DOMAIN kids = 1..n
    BY <2>4, LenProperties
  <2>6. ASSUME NEW p \in Operands(This) PROVE \E j \in 1..n : Gives(each[j], p)
    <3>1. PICK j \in DOMAIN kids : p = kids[j]
      BY <2>2 DEF Operands
    <3>2. Gives(Do("node", p), p)
      BY DEF Gives, Do, Evaluating
    <3> QED BY <2>4, <2>5, <3>1, <3>2
  <2> QED BY <2>1, <2>2, <2>3, <2>4, <2>6, GivenBehind
<1>2. CASE Call
  <2>1. At("node", {"call"}) /\ UNCHANGED <<unit, types>>
    BY <1>2 DEF Call
  <2>2. PICK each, x : each = Each("node", Kids(This, {"cond"})) /\ x = Do("arguments", This) /\ Next_(each \o <<x>>)
    BY <1>2 DEF Call
  <2>3. each \in Seq(Untyped)
    BY <1>0, <2>2, VisitedUntyped
  <2>4. ~Reads(x)
    BY <2>2 DEF Reads, Do
  <2> QED BY <2>1, <2>2, <2>3, <2>4, GivenBehind
<1>3. CASE Arguments
  <2>1. At("arguments", {"call"}) /\ UNCHANGED <<unit, types>> /\ unit[This].kind = "call"
    BY <1>3 DEF Arguments, At
  <2>2. PICK wrong, each, x : /\ each = (IF wrong THEN << >> ELSE Each("node", Kids(This, {"part"})))
                              /\ x = Do("type", This) /\ Next_(each \o <<x>>)
    BY <1>3 DEF Arguments
  <2>3. each \in Seq(Untyped)
    <3>1. Each("node", Kids(This, {"part"})) \in Seq(Untyped) /\ << >> \in Seq(Untyped)
      BY <1>0, VisitedUntyped, EmptySeq
    <3> QED BY <2>2, <3>1
  <2>4. ~Reads(x)
    BY <2>1, <2>2 DEF Reads, Do, TypedByPart
  <2> QED BY <2>1, <2>2, <2>3, <2>4, GivenBehind
<1> QED BY <1>1, <1>2, <1>3

LEMMA EvaluatedStep ==
  ASSUME Inv, Tables, Evaluated, [Next]_vars
  PROVE  Evaluated'
<1>1. CASE Collect
  BY <1>1, UntypedEnding, UntypedVisiting DEF Collect
<1>2. CASE Forward
  BY <1>2, UntypedEnding, UntypedVisiting DEF Forward
<1>3. CASE Statement
  BY <1>3, UntypedEnding, UntypedVisiting DEF Statement
<1>4. CASE Evaluate
  BY <1>4, TypingSteps, OperandSteps DEF Evaluate
<1>5. CASE UNCHANGED vars
  <2>1. todo' = todo /\ unit' = unit /\ types' = types
    BY <1>5 DEF vars
  <2>2. \A i : Operands(i)' = Operands(i)
    BY <2>1 DEF Operands, Kids, KidsOf
  <2>3. \A x : Reads(x)' <=> Reads(x)
    BY <2>1 DEF Reads
  <2>4. Awaited'
    BY <2>1, <2>2, <2>3 DEF Awaited, Evaluated
  <2> QED BY <2>1, <2>4, TypesStay
<1> QED BY <1>1, <1>2, <1>3, <1>4, <1>5 DEF Next, Done

-----------------------------------------------------------------------------
LEMMA TypedInit ==
  ASSUME Init
  PROVE  Tables /\ Reported /\ Evaluated
<1>1. unit \in Units
  BY DEF Init
<1>2. AliasTable /\ MemberTables
  BY DEF Init, AliasTable, MemberTables, IsTable
<1>3. ScopeTables
  <2>1. PICK table : table = [key \in {} |-> NoType] /\ scopes = <<table>>
    BY DEF Init
  <2>2. IsTable(table, Key, Symbol)
    BY <2>1, EmptyTable
  <2>3. \A s \in DOMAIN scopes : scopes[s] = table
    BY <2>1
  <2> QED BY <2>2, <2>3 DEF ScopeTables
<1>4. Reported
  BY EmptySeq DEF Init, Reported
<1>5. IsTable(types, DOMAIN unit, Type)
  BY DEF Init, IsTable
<1>6. PICK top : top = TopLevel /\ todo = Each("collect", top) \o Each("forward", top) \o Each("node", top)
  BY DEF Init
<1>7. top \in Seq(DOMAIN unit)
  <2>1. PICK a, b, c : /\ a \in SUBSET DOMAIN unit /\ b \in SUBSET DOMAIN unit /\ c \in SUBSET DOMAIN unit
                       /\ top = InOrder(a) \o InOrder(b) \o InOrder(c)
    BY <1>6 DEF TopLevel, KidsOf
  <2> QED BY <1>1, <2>1, InOrderThere, ConcatProperties
<1>8. todo \in Seq(Untyped)
  BY <1>1, <1>6, <1>7, EachUntyped, ConcatProperties
<1>9. \A k \in 1..Len(todo) : ~Reads(todo[k])
  <2>1. \A k \in 1..Len(todo) : todo[k] \in Untyped
    BY <1>8, ElementOfSeq
  <2> QED BY <2>1 DEF Untyped, Reads
<1>10. Awaited
  BY <1>9 DEF Awaited
<1> QED BY <1>2, <1>3, <1>4, <1>5, <1>10 DEF Tables, Evaluated

LEMMA TypedMeans ==
  ASSUME Inv, Tables, Reported, Evaluated
  PROVE  TypeOK
<1>1. unit \in Seq(Node)
  BY UnitsAssumption DEF Inv
<1>2. todo \in Seq(Item) /\ \A k \in DOMAIN todo : todo[k].node \in DOMAIN unit
  <2>1. todo \in Seq(Pending)
    BY DEF Inv
  <2>2. \A k \in DOMAIN todo : todo[k] \in Pending
    BY <2>1, LenProperties, ElementOfSeq
  <2> QED BY <2>1, <2>2, SeqMonotonic DEF Pending
<1>3. Len(scopes) > 0
  <2>1. scopes # << >> /\ scopes \in Seq(ToSet(scopes))
    BY ScopesThere DEF Inv, Counted
  <2> QED BY <2>1, EmptySeq, LenProperties
<1>4. loop_depth_ \in Nat /\ switch_depth_ \in Nat
  BY CountFinite DEF Inv, Counted
<1>5. return_type \in Type
  BY DEF Inv, Saved
<1> QED BY <1>1, <1>2, <1>3, <1>4, <1>5 DEF TypeOK, Tables, AliasTable, MemberTables, ScopeTables, Reported, Evaluated

(* The analyser's tables keep their types in every unit: in particular the *)
(* type an operator reads off its operand is there when it is read, since  *)
(* analyze_expression has returned for the operand before.                 *)
THEOREM TypeCorrect == Spec => []TypeOK
<1> DEFINE I == Inv /\ Tables /\ Reported /\ Evaluated
<1>1. Init => I
  BY InvInit, TypedInit
<1>2. I /\ [Next]_vars => I'
  BY InvStep, TablesStep, ReportsStep, EvaluatedStep
<1>3. I => TypeOK
  BY TypedMeans
<1> QED BY <1>1, <1>2, <1>3, PTL DEF Spec
=============================================================================
