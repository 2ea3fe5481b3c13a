---------------------------- MODULE ArchiveProofs ----------------------------
(***************************************************************************)
(* Proofs about ArchiveExtract, for every archive, every request list and  *)
(* every bound on the rounds, and about LibraryReader, for every file.     *)
(***************************************************************************)
EXTENDS LibraryReader, SequenceTheorems, FiniteSetTheorems, TLAPS

-----------------------------------------------------------------------------
(* The elements of a sequence when a loop takes from it or adds to it.     *)
LEMMA ToSetEmpty == ToSet(<< >>) = {}
BY EmptySeq, LenProperties DEF ToSet

LEMMA ToSetConcat ==
  ASSUME NEW S, NEW s \in Seq(S), NEW t \in Seq(S)
  PROVE  ToSet(s \o t) = ToSet(s) \cup ToSet(t)
<1>1. Range(s \o t) = Range(s) \cup Range(t)
  BY RangeConcatenation
<1> QED BY <1>1 DEF ToSet, Range

LEMMA ToSetOne ==
  ASSUME NEW S, NEW e \in S
  PROVE  <<e>> \in Seq(S) /\ ToSet(<<e>>) = {e}
<1>1. DOMAIN <<e>> = {1} /\ <<e>>[1] = e /\ <<e>> \in Seq(S)
  OBVIOUS
<1> QED BY <1>1 DEF ToSet

LEMMA ToSetHeadTail ==
  ASSUME NEW S, NEW s \in Seq(S), s # << >>
  PROVE  /\ Head(s) \in S /\ Tail(s) \in Seq(S)
         /\ ToSet(s) = {Head(s)} \cup ToSet(Tail(s))
<1>1. Head(s) \in S /\ Tail(s) \in Seq(S) /\ s = <<Head(s)>> \o Tail(s)
  BY HeadTailProperties, ConcatProperties, SeqEqual, EmptySeq
<1>2. PICK first : first = <<Head(s)>> /\ first \in Seq(S) /\ ToSet(first) = {Head(s)}
  BY <1>1, ToSetOne
<1>3. ToSet(first \o Tail(s)) = ToSet(first) \cup ToSet(Tail(s))
  BY <1>1, <1>2, ToSetConcat
<1> QED BY <1>1, <1>2, <1>3

LEMMA ToSetAppend ==
  ASSUME NEW S, NEW s \in Seq(S), NEW e \in S
  PROVE  Append(s, e) \in Seq(S) /\ ToSet(Append(s, e)) = ToSet(s) \cup {e}
<1>1. Append(s, e) \in Seq(S) /\ Append(s, e) = s \o <<e>>
  BY AppendProperties, AppendIsConcat
<1>2. PICK last : last = <<e>> /\ last \in Seq(S) /\ ToSet(last) = {e}
  BY ToSetOne
<1>3. ToSet(s \o last) = ToSet(s) \cup ToSet(last)
  BY <1>2, ToSetConcat, ZenonT(60)
<1> QED BY <1>1, <1>2, <1>3

-----------------------------------------------------------------------------
(* One pass of the loop keeps every variable in its type.                  *)
LEMMA TypeStep == TypeOK /\ [Next]_vars => TypeOK'
<1> USE MaxIterationsAssumption
<1> SUFFICES ASSUME TypeOK, [Next]_vars PROVE TypeOK'
  OBVIOUS
<1> USE DEF TypeOK
<1>1. CASE Call
  BY <1>1, EmptySeq, RequestsAssumption DEF Call, Begin, IsArchive
<1>2. ASSUME Work PROVE TypeOK'
  <2>0. archive' = archive /\ IsArchive(archive)' = IsArchive(archive)
    BY <1>2 DEF Work, IsArchive
  <2> USE <2>0
  <2>1. CASE StartRound
    BY <2>1, EmptySeq DEF StartRound
  <2>2. CASE Return
    BY <2>2 DEF Return
  <2>3. CASE Skip
    BY <2>3, ToSetHeadTail DEF Skip
  <2>4. CASE AlreadyExtracted
    BY <2>4, ToSetHeadTail DEF AlreadyExtracted
  <2>5. CASE ExtractMember
    <3> DEFINE o == archive.map[Head(pending)]
    <3>1. o \in Offset /\ Exports(o) \subseteq Symbol /\ Imports(o) \in Seq(Symbol)
      BY <2>5 DEF ExtractMember, IsArchive, Exports, Imports
    <3>2. Append(result, o) \in Seq(Offset)
      BY <3>1, AppendProperties
    <3>3. Tail(pending) \in Seq(Symbol)
      BY <2>5, ToSetHeadTail DEF ExtractMember
    <3> QED BY <2>5, <3>1, <3>2, <3>3 DEF ExtractMember
  <2>6. CASE QueueImport
    BY <2>6, ToSetHeadTail, AppendProperties DEF QueueImport
  <2>7. CASE EndImports
    BY <2>7 DEF EndImports
  <2>8. CASE EndRound
    BY <2>8, EmptySeq DEF EndRound
  <2> QED BY <1>2, <2>1, <2>2, <2>3, <2>4, <2>5, <2>6, <2>7, <2>8 DEF Work, Step
<1>3. CASE UNCHANGED vars
  BY <1>3 DEF vars, work, IsArchive
<1> QED BY <1>1, <1>2, <1>3 DEF Next

(* Every variable keeps its type, whatever the archive contains: the loop  *)
(* never reads a member outside the archive and never counts past the      *)
(* bound of its while condition (coff_reader.cpp:415-460).                 *)
THEOREM TypeCorrect == Spec => []TypeOK
<1>1. Init => TypeOK
  BY MaxIterationsAssumption, ArchivesAssumption, EmptySeq DEF Init, Idle, TypeOK
<1> QED BY <1>1, TypeStep, PTL DEF Spec

-----------------------------------------------------------------------------
(* What the list variables hold outside the stretch of the loop that uses  *)
(* them.                                                                   *)
Shape ==
  /\ pc # "queue" => importing = << >>
  /\ pc \in {"idle", "head", "done"} => new_pending = << >>
  /\ pc = "idle" => /\ needed = << >> /\ pending = << >>
                    /\ extracted = {} /\ iterations = 0

(* Shape is inductive.                                                     *)
LEMMA ShapeStep == TypeOK /\ Shape /\ [Next]_vars => Shape'
<1> SUFFICES ASSUME TypeOK, Shape, [Next]_vars PROVE Shape'
  OBVIOUS
<1> USE DEF Shape
<1>1. CASE Call
  BY <1>1 DEF Call, Begin
<1>2. ASSUME Work PROVE Shape'
  BY <1>2 DEF Work, Step, StartRound, Return, Skip, AlreadyExtracted, ExtractMember,
              QueueImport, EndImports, EndRound
<1>3. CASE UNCHANGED vars
  BY <1>3 DEF vars, work
<1> QED BY <1>1, <1>2, <1>3 DEF Next

-----------------------------------------------------------------------------
(* The exits of the loop: `pending` is empty, or the rounds are used up.   *)
(* A round that queued a name extracted a member.                          *)
RoundsInv ==
  /\ IsFiniteSet(extracted)
  /\ iterations <= Cardinality(extracted) + 1
  /\ pc \in {"head", "done"} /\ pending # << >> => iterations <= Cardinality(extracted)
  /\ pc = "queue" \/ new_pending # << >> => iterations <= Cardinality(extracted)
  /\ pc = "done" => pending = << >> \/ iterations >= MaxIterations

LEMMA RoundsStep == TypeOK /\ Shape /\ RoundsInv /\ [Next]_vars => RoundsInv'
<1> SUFFICES ASSUME TypeOK, Shape, RoundsInv, [Next]_vars PROVE RoundsInv'
  OBVIOUS
<1> USE MaxIterationsAssumption
<1>0. /\ Cardinality(extracted) \in Nat /\ iterations \in Nat
      /\ Cardinality({}) = 0 /\ IsFiniteSet({})
  BY FS_CardinalityType, FS_EmptySet DEF TypeOK, RoundsInv
<1> USE <1>0
<1>1. CASE Call
  BY <1>1 DEF Call, Begin, RoundsInv
<1>2. CASE Work
  <2>1. CASE StartRound
    BY <2>1 DEF StartRound, RoundsInv
  <2>2. CASE Return
    BY <2>2 DEF Return, RoundsInv
  <2>3. CASE Skip
    BY <2>3 DEF Skip, RoundsInv
  <2>4. CASE AlreadyExtracted
    BY <2>4 DEF AlreadyExtracted, RoundsInv
  <2>5. CASE ExtractMember
    <3>1. PICK o : o \notin extracted /\ extracted' = extracted \cup {o}
      BY <2>5 DEF ExtractMember
    <3>2. /\ IsFiniteSet(extracted')
          /\ Cardinality(extracted') = Cardinality(extracted) + 1
      BY <3>1, FS_AddElement DEF RoundsInv
    <3> QED BY <2>5, <3>2 DEF ExtractMember, RoundsInv
  <2>6. CASE QueueImport
    BY <2>6 DEF QueueImport, RoundsInv
  <2>7. CASE EndImports
    BY <2>7 DEF EndImports, RoundsInv
  <2>8. CASE EndRound
    BY <2>8 DEF EndRound, RoundsInv
  <2> QED BY <1>2, <2>1, <2>2, <2>3, <2>4, <2>5, <2>6, <2>7, <2>8 DEF Work, Step
<1>3. CASE UNCHANGED vars
  BY <1>3 DEF vars, work, RoundsInv
<1> QED BY <1>1, <1>2, <1>3 DEF Next

(* Every round but the last extracts a member, so the cap of the while     *)
(* loop is out of reach for an archive with fewer members than that        *)
(* (coff_reader.cpp:424).                                                  *)
THEOREM RoundsAreBounded == Spec => []RoundsBounded
<1>1. Init => Shape /\ RoundsInv
  BY FS_EmptySet DEF Init, Idle, Shape, RoundsInv
<1>2. RoundsInv => RoundsBounded
  BY DEF RoundsInv, RoundsBounded
<1> QED BY <1>1, <1>2, TypeCorrect, ShapeStep, RoundsStep, PTL DEF Spec

-----------------------------------------------------------------------------
LEMMA NothingLostStep == TypeOK /\ Shape /\ NothingLost /\ [Next]_vars => NothingLost'
<1> SUFFICES ASSUME TypeOK, Shape, NothingLost, [Next]_vars PROVE NothingLost'
  OBVIOUS
<1>0. ToSet(<< >>) = {}
  BY ToSetEmpty
<1>1. CASE Call
  BY <1>1 DEF Call, Begin, NothingLost, Demanded, Answered
<1>2. ASSUME Work PROVE NothingLost'
  <2>0. archive' = archive /\ needed' = needed
    BY <1>2 DEF Work, Step, StartRound, Return, Skip, AlreadyExtracted, ExtractMember,
                QueueImport, EndImports, EndRound
  <2>1. ASSUME extracted' = extracted PROVE Demanded' = Demanded
    BY <2>0, <2>1 DEF Demanded, Imports
  <2>2. CASE StartRound
    <3>1. new_pending = << >>
      BY <2>2 DEF StartRound, Shape
    <3> QED BY <3>1, <2>0, <2>1, <2>2 DEF StartRound, NothingLost, Answered
  <2>3. CASE Return
    BY <2>0, <2>1, <2>3 DEF Return, NothingLost, Answered
  <2>4. CASE Skip
    <3>1. ToSet(pending) = {Head(pending)} \cup ToSet(pending')
      BY <2>4, ToSetHeadTail DEF Skip, TypeOK
    <3> QED BY <3>1, <2>0, <2>1, <2>4 DEF Skip, NothingLost, Answered
  <2>5. CASE AlreadyExtracted
    <3>1. ToSet(pending) = {Head(pending)} \cup ToSet(pending')
      BY <2>5, ToSetHeadTail DEF AlreadyExtracted, TypeOK
    <3> QED BY <3>1, <2>0, <2>1, <2>5 DEF AlreadyExtracted, NothingLost, Answered
  <2>6. CASE ExtractMember
    <3> DEFINE o == archive.map[Head(pending)]
    <3>1. ToSet(pending) = {Head(pending)} \cup ToSet(pending')
      BY <2>6, ToSetHeadTail DEF ExtractMember, TypeOK
    <3>2. importing = << >> /\ importing' = Imports(o) /\ extracted' = extracted \cup {o}
      BY <2>6 DEF ExtractMember, Shape
    <3>3. Demanded' \subseteq Demanded \cup ToSet(importing')
      BY <3>2, <2>0 DEF Demanded, Imports
    <3>4. new_pending' = new_pending /\ resolved \subseteq resolved'
      BY <2>6 DEF ExtractMember
    <3> QED BY <1>0, <2>0, <3>1, <3>2, <3>3, <3>4 DEF NothingLost, Answered
  <2>7. CASE QueueImport
    <3>1. ToSet(importing) = {Head(importing)} \cup ToSet(importing')
      BY <2>7, ToSetHeadTail DEF QueueImport, TypeOK
    <3>2. /\ ToSet(new_pending) \subseteq ToSet(new_pending')
          /\ Head(importing) \in resolved \/ Head(importing) \in ToSet(new_pending')
      BY <2>7, ToSetHeadTail, ToSetAppend DEF QueueImport, TypeOK
    <3> QED BY <3>1, <3>2, <2>0, <2>1, <2>7 DEF QueueImport, NothingLost, Answered
  <2>8. CASE EndImports
    BY <2>0, <2>1, <2>8 DEF EndImports, NothingLost, Answered
  <2>9. CASE EndRound
    <3>1. pending = << >> /\ pending' = new_pending
      BY <2>9 DEF EndRound
    <3> QED BY <1>0, <3>1, <2>0, <2>1, <2>9 DEF EndRound, NothingLost, Answered
  <2> QED BY <1>2, <2>2, <2>3, <2>4, <2>5, <2>6, <2>7, <2>8, <2>9 DEF Work, Step
<1>3. CASE UNCHANGED vars
  BY <1>3 DEF vars, work, NothingLost, Demanded, Answered, Imports
<1> QED BY <1>1, <1>2, <1>3 DEF Next

LEMMA InitNothingLost == Init => Shape /\ RoundsInv /\ NothingLost
BY FS_EmptySet, ToSetEmpty DEF Init, Idle, Shape, RoundsInv, NothingLost, Demanded

(* No import of an extracted member is dropped between two rounds          *)
(* (coff_reader.cpp:443-453).                                              *)
THEOREM NothingIsLost == Spec => []NothingLost
BY InitNothingLost, TypeCorrect, ShapeStep, NothingLostStep, PTL DEF Spec

(* Whatever the archive, a call that extracted fewer than MaxIterations    *)
(* members has answered every demanded name the archive lists: only an     *)
(* archive with at least that many members can be cut short                *)
(* (coff_reader.cpp:421-457).                                              *)
THEOREM ShortSearchesResolveAll == Spec => []ShortCallsResolve
<1>1. /\ TypeOK /\ Shape /\ RoundsInv /\ NothingLost
      => ShortCallsResolve
  <2> SUFFICES ASSUME TypeOK, Shape, RoundsInv, NothingLost,
                      Cardinality(extracted) < MaxIterations, pc = "done"
               PROVE  \A s \in Demanded \cap DOMAIN archive.map : Answered(s)
    BY DEF ShortCallsResolve, ResolvesAll
  <2>1. Cardinality(extracted) \in Nat /\ iterations \in Nat
    BY FS_CardinalityType, MaxIterationsAssumption DEF RoundsInv, TypeOK
  <2>2. pending = << >> /\ new_pending = << >> /\ importing = << >>
    BY <2>1, MaxIterationsAssumption DEF RoundsInv, Shape
  <2> QED BY <2>2, ToSetEmpty DEF NothingLost
<1> QED BY <1>1, InitNothingLost, TypeCorrect, ShapeStep, RoundsStep, NothingLostStep, PTL
        DEF Spec

-----------------------------------------------------------------------------
LEMMA BackedStep == TypeOK /\ Shape /\ ResolvedIsBacked /\ [Next]_vars => ResolvedIsBacked'
<1> SUFFICES ASSUME TypeOK, Shape, ResolvedIsBacked, [Next]_vars PROVE ResolvedIsBacked'
  OBVIOUS
<1> USE DEF ResolvedIsBacked, Exports
<1>1. CASE Call
  BY <1>1 DEF Call, Begin
<1>2. CASE Work
  <2>1. CASE ExtractMember
    BY <1>2, <2>1 DEF Work, ExtractMember
  <2>2. CASE AlreadyExtracted
    BY <1>2, <2>2 DEF Work, AlreadyExtracted
  <2>3. ASSUME ~ExtractMember, ~AlreadyExtracted
        PROVE  archive' = archive /\ extracted' = extracted /\ resolved' = resolved
    BY <1>2, <2>3 DEF Work, Step, StartRound, Return, Skip, QueueImport, EndImports, EndRound
  <2> QED BY <2>1, <2>2, <2>3
<1>3. CASE UNCHANGED vars
  BY <1>3 DEF vars, work
<1> QED BY <1>1, <1>2, <1>3 DEF Next

(* A name is called resolved only with an extracted member behind it       *)
(* (coff_reader.cpp:437-447).                                              *)
THEOREM ResolvedHasObject == Spec => []ResolvedIsBacked
<1>1. Init => Shape /\ ResolvedIsBacked
  BY DEF Init, Idle, Shape, ResolvedIsBacked
<1> QED BY <1>1, TypeCorrect, ShapeStep, BackedStep, PTL DEF Spec

-----------------------------------------------------------------------------
(* Members are only ever added, each under a fresh offset.                 *)
LEMMA OnceStep == TypeOK /\ EachMemberOnce /\ [Next]_vars => EachMemberOnce'
<1> SUFFICES ASSUME TypeOK, EachMemberOnce, [Next]_vars PROVE EachMemberOnce'
  OBVIOUS
<1>1. CASE Call
  BY <1>1, ToSetEmpty, EmptySeq, LenProperties DEF Call, Begin, EachMemberOnce
<1>2. CASE ExtractMember
  <2> DEFINE o == archive.map[Head(pending)]
  <2>1. /\ o \in Offset /\ o \notin extracted /\ extracted' = extracted \cup {o}
        /\ result' = Append(result, o)
    BY <1>2 DEF ExtractMember, TypeOK, IsArchive
  <2>2. ToSet(result') = extracted'
    BY <2>1, ToSetAppend DEF TypeOK, EachMemberOnce
  <2>3. /\ Len(result) \in Nat /\ DOMAIN result = 1..Len(result)
        /\ DOMAIN result' = 1..(Len(result) + 1)
        /\ \A i \in 1..Len(result) : result'[i] = result[i]
        /\ result'[Len(result) + 1] = o
    BY <2>1, AppendProperties, LenProperties DEF TypeOK
  <2>4. \A i \in DOMAIN result : result[i] # o
    BY <2>1 DEF EachMemberOnce, ToSet
  <2>5. ASSUME NEW i \in DOMAIN result', NEW j \in DOMAIN result', i # j
        PROVE  result'[i] # result'[j]
    BY <2>3, <2>4, <2>5 DEF EachMemberOnce
  <2> QED BY <2>2, <2>5 DEF EachMemberOnce
<1>3. ASSUME ~Call, ~ExtractMember PROVE extracted' = extracted /\ result' = result
  BY <1>3 DEF Next, Work, Step, StartRound, Return, Skip, AlreadyExtracted, QueueImport,
              EndImports, EndRound, vars, work
<1> QED BY <1>1, <1>2, <1>3 DEF EachMemberOnce

(* The linker never receives one archive member twice from a call          *)
(* (coff_reader.cpp:436-450).                                              *)
THEOREM MembersExtractedOnce == Spec => []EachMemberOnce
<1>1. Init => EachMemberOnce
  BY ToSetEmpty, EmptySeq, LenProperties DEF Init, Idle, EachMemberOnce
<1> QED BY <1>1, TypeCorrect, OnceStep, PTL DEF Spec

-----------------------------------------------------------------------------
(* Nothing enters a queue that nobody asked for.                           *)
QueuesDemanded ==
  ToSet(pending) \cup ToSet(new_pending) \cup ToSet(importing) \subseteq Demanded

LEMMA QueuesStep == TypeOK /\ Shape /\ QueuesDemanded /\ [Next]_vars => QueuesDemanded'
<1> SUFFICES ASSUME TypeOK, Shape, QueuesDemanded, [Next]_vars PROVE QueuesDemanded'
  OBVIOUS
<1>0. ToSet(<< >>) = {}
  BY ToSetEmpty
<1>1. CASE Call
  BY <1>0, <1>1 DEF Call, Begin, QueuesDemanded, Demanded
<1>2. ASSUME Work PROVE QueuesDemanded'
  <2>0. archive' = archive /\ needed' = needed
    BY <1>2 DEF Work, Step, StartRound, Return, Skip, AlreadyExtracted, ExtractMember,
                QueueImport, EndImports, EndRound
  <2>1. ASSUME extracted' = extracted PROVE Demanded' = Demanded
    BY <2>0, <2>1 DEF Demanded, Imports
  <2>2. CASE StartRound
    BY <1>0, <2>1, <2>2 DEF StartRound, QueuesDemanded
  <2>3. CASE Return
    BY <2>1, <2>3 DEF Return, QueuesDemanded
  <2>4. CASE Skip
    BY <2>1, <2>4, ToSetHeadTail DEF Skip, QueuesDemanded, TypeOK
  <2>5. CASE AlreadyExtracted
    BY <2>1, <2>5, ToSetHeadTail DEF AlreadyExtracted, QueuesDemanded, TypeOK
  <2>6. CASE ExtractMember
    <3> DEFINE o == archive.map[Head(pending)]
    <3>1. importing' = Imports(o) /\ extracted' = extracted \cup {o}
      BY <2>6 DEF ExtractMember
    <3>2. Demanded' = Demanded \cup ToSet(importing')
      BY <3>1, <2>0 DEF Demanded, Imports
    <3>3. ToSet(pending') \subseteq ToSet(pending) /\ new_pending' = new_pending
      BY <2>6, ToSetHeadTail DEF ExtractMember, TypeOK
    <3> QED BY <3>2, <3>3 DEF QueuesDemanded
  <2>7. CASE QueueImport
    BY <2>1, <2>7, ToSetHeadTail, ToSetAppend DEF QueueImport, QueuesDemanded, TypeOK
  <2>8. CASE EndImports
    BY <2>1, <2>8 DEF EndImports, QueuesDemanded
  <2>9. CASE EndRound
    BY <1>0, <2>1, <2>9 DEF EndRound, QueuesDemanded
  <2> QED BY <1>2, <2>2, <2>3, <2>4, <2>5, <2>6, <2>7, <2>8, <2>9 DEF Work, Step
<1>3. CASE UNCHANGED vars
  BY <1>3 DEF vars, work, QueuesDemanded, Demanded, Imports
<1> QED BY <1>1, <1>2, <1>3 DEF Next

(* Everything the refinement needs to know of a reachable state.           *)
LoopInv == /\ TypeOK /\ Shape /\ RoundsInv /\ NothingLost
           /\ ResolvedIsBacked /\ QueuesDemanded

LEMMA LoopInvariant == Spec => []LoopInv
<1>1. Init => Shape /\ RoundsInv /\ NothingLost /\ ResolvedIsBacked /\ QueuesDemanded
  BY InitNothingLost, ToSetEmpty DEF Init, Idle, ResolvedIsBacked, QueuesDemanded
<1> QED BY <1>1, TypeCorrect, ShapeStep, RoundsStep, NothingLostStep, BackedStep, QueuesStep,
           PTL DEF Spec, LoopInv

-----------------------------------------------------------------------------
(* What is in a queue was asked for or is imported by an object already in *)
(* the result, so the object appended next has its reason before it.       *)
LEMMA OnDemandStep ==
  TypeOK /\ EachMemberOnce /\ QueuesDemanded /\ ExtractedOnDemand /\ [Next]_vars => ExtractedOnDemand'
<1> SUFFICES ASSUME TypeOK, EachMemberOnce, QueuesDemanded, ExtractedOnDemand, [Next]_vars
             PROVE  ExtractedOnDemand'
  OBVIOUS
<1>1. CASE Call
  <2>1. result' = << >>
    BY <1>1 DEF Call, Begin
  <2> QED BY <2>1, EmptySeq, LenProperties DEF ExtractedOnDemand
<1>2. CASE Work /\ ExtractMember
  <2> DEFINE s == Head(pending)
             o == archive.map[s]
  <2>1. /\ o \in Offset /\ s \in DOMAIN archive.map /\ result' = Append(result, o)
        /\ archive' = archive /\ needed' = needed
    BY <1>2 DEF ExtractMember, Work, TypeOK, IsArchive
  <2>2. /\ Len(result) \in Nat /\ DOMAIN result = 1..Len(result)
        /\ DOMAIN result' = 1..(Len(result) + 1)
        /\ \A i \in 1..Len(result) : result'[i] = result[i]
        /\ result'[Len(result) + 1] = o
    BY <2>1, AppendProperties, LenProperties DEF TypeOK
  <2>3. s \in ToSet(needed) \/ \E j \in 1..Len(result) : s \in ToSet(Imports(result[j]))
    <3>0. s \in Demanded
      BY <1>2, ToSetHeadTail DEF ExtractMember, QueuesDemanded, TypeOK
    <3> HIDE DEF s
    <3>1. s \in ToSet(needed) \/ \E m \in extracted : s \in ToSet(Imports(m))
      BY <3>0 DEF Demanded
    <3>2. \A m \in extracted : \E j \in 1..Len(result) : m = result[j]
      BY <2>2 DEF EachMemberOnce, ToSet
    <3> QED BY <3>1, <3>2
  <2> HIDE DEF s, o
  <2>4. \A m : Imports(m)' = Imports(m)
    BY <2>1 DEF Imports
  <2>5. ASSUME NEW k \in DOMAIN result'
        PROVE  \E t \in DOMAIN archive.map :
                 /\ archive.map[t] = result'[k]
                 /\ \/ t \in ToSet(needed)
                    \/ \E j \in 1..(k-1) : t \in ToSet(Imports(result'[j]))
    <3>1. CASE k \in 1..Len(result)
      <4>1. PICK t \in DOMAIN archive.map :
                 /\ archive.map[t] = result[k]
                 /\ \/ t \in ToSet(needed)
                    \/ \E j \in 1..(k-1) : t \in ToSet(Imports(result[j]))
        BY <3>1, <2>2 DEF ExtractedOnDemand
      <4>2. \A j \in 1..(k-1) : result'[j] = result[j]
        BY <3>1, <2>2
      <4>3. result'[k] = result[k]
        BY <3>1, <2>2
      <4> QED BY <4>1, <4>2, <4>3
    <3>2. CASE k = Len(result) + 1
      <4>1. 1..(k-1) = 1..Len(result)
        BY <3>2, <2>2
      <4>2. archive.map[s] = result'[k]
        BY <3>2, <2>2 DEF o
      <4> QED BY <4>1, <4>2, <2>1, <2>2, <2>3
    <3> QED BY <3>1, <3>2, <2>2
  <2> QED BY <2>1, <2>4, <2>5 DEF ExtractedOnDemand
<1>3. ASSUME ~Call, ~(Work /\ ExtractMember)
      PROVE  result' = result /\ needed' = needed /\ archive' = archive
  BY <1>3 DEF Next, Work, Step, StartRound, Return, Skip, AlreadyExtracted, QueueImport,
              EndImports, EndRound, vars, work
<1>4. ASSUME ~Call, ~(Work /\ ExtractMember) PROVE ExtractedOnDemand'
  BY <1>3, <1>4 DEF ExtractedOnDemand, Imports
<1> QED BY <1>1, <1>2, <1>4

(* Nothing is linked without a reason that came before it: each object the *)
(* call returns is the one the map names for a symbol the caller asked for *)
(* or an object earlier in the list imports (coff_reader.cpp:429-450).     *)
THEOREM LinkedOnDemand == Spec => []ExtractedOnDemand
<1>1. Init => EachMemberOnce /\ ExtractedOnDemand
  BY ToSetEmpty, EmptySeq, LenProperties DEF Init, Idle, EachMemberOnce, ExtractedOnDemand
<1>2. LoopInv => TypeOK /\ QueuesDemanded
  BY DEF LoopInv
<1> QED BY <1>1, <1>2, LoopInvariant, OnceStep, OnDemandStep, PTL DEF Spec

(* The demand of the abstract specification is the demand of the loop.     *)
LEMMA SameDemand == Closure!Demanded = Demanded
BY DEF Closure!Demanded, Demanded, ToSet, Imports

LEMMA ClosureStep == LoopInv /\ [Next]_vars => [Closure!Next]_(Closure!vars)
<1> SUFFICES ASSUME LoopInv, [Next]_vars PROVE [Closure!Next]_(Closure!vars)
  OBVIOUS
<1> USE DEF LoopInv
<1>1. CASE Call
  <2>1. PICK symbols \in Requests : Begin(symbols)
    BY <1>1 DEF Call
  <2>2. ToSet(symbols) \subseteq Symbol
    BY RequestsAssumption, LenProperties, ElementOfSeq DEF ToSet
  <2>3. /\ Verdict = "idle" /\ Verdict' = "open" /\ ToSet(needed)' = ToSet(symbols)
        /\ archive' = archive /\ extracted' = extracted
    BY <1>1, <2>1 DEF Call, Begin, Shape, Verdict, ToSet
  <2> QED BY <2>2, <2>3 DEF Closure!Next, Closure!Ask
<1>2. ASSUME Work PROVE [Closure!Next]_(Closure!vars)
  <2>0. archive' = archive /\ needed' = needed /\ ToSet(needed)' = ToSet(needed)
    BY <1>2 DEF Work, Step, StartRound, Return, Skip, AlreadyExtracted, ExtractMember,
                QueueImport, EndImports, EndRound, ToSet
  <2>1. ASSUME extracted' = extracted, pc \in {"head", "scan", "queue"},
               pc' \in {"head", "scan", "queue"}
        PROVE  UNCHANGED Closure!vars
    BY <2>0, <2>1 DEF Closure!vars, Verdict
  <2>2. CASE ExtractMember
    <3> DEFINE o == archive.map[Head(pending)]
    <3>1. /\ o \in Offset /\ o \notin extracted /\ extracted' = extracted \cup {o}
          /\ Verdict = "open" /\ Verdict' = "open"
      BY <2>2 DEF ExtractMember, Verdict, TypeOK, IsArchive
    <3>2. Head(pending) \in Demanded \cap DOMAIN archive.map
      BY <2>2, ToSetHeadTail DEF ExtractMember, QueuesDemanded, TypeOK
    <3>3. o \in Closure!Providers
      BY <3>2, SameDemand DEF Closure!Providers
    <3> QED BY <2>0, <3>1, <3>3 DEF Closure!Next, Closure!Pull
  <2>3. CASE Return
    <3>1. /\ extracted' = extracted /\ pending' = pending /\ Verdict = "open"
          /\ Verdict' = (IF pending = << >> THEN "complete" ELSE "gaveUp")
      BY <2>3 DEF Return, Verdict
    <3>2. CASE pending = << >>
      <4>1. \A s \in Demanded \cap DOMAIN archive.map : Answered(s)
        BY <2>3, <3>2, ToSetEmpty DEF Return, Shape, NothingLost
      <4>2. \A s \in Demanded \cap DOMAIN archive.map : Closure!Met(s)
        BY <4>1 DEF Answered, ResolvedIsBacked, Closure!Met, Exports
      <4> QED BY <2>0, <3>1, <3>2, <4>2, SameDemand DEF Closure!Next, Closure!Complete
    <3>3. CASE pending # << >>
      <4>1. Cardinality(extracted) >= MaxIterations
        BY <2>3, <3>3, FS_CardinalityType, MaxIterationsAssumption
           DEF Return, RoundsInv, TypeOK
      <4>2. Closure!Cardinality(extracted) = Cardinality(extracted)
        BY DEF Closure!Cardinality, Cardinality
      <4> QED BY <2>0, <3>1, <3>3, <4>1, <4>2 DEF Closure!Next, Closure!GiveUp
    <3> QED BY <3>2, <3>3
  <2>4. ASSUME ~ExtractMember, ~Return
        PROVE  /\ extracted' = extracted /\ pc \in {"head", "scan", "queue"}
               /\ pc' \in {"head", "scan", "queue"}
    BY <1>2, <2>4 DEF Work, Step, StartRound, Skip, AlreadyExtracted, QueueImport, EndImports,
                      EndRound
  <2> QED BY <2>1, <2>2, <2>3, <2>4
<1>3. CASE UNCHANGED vars
  BY <1>3 DEF vars, work, Closure!vars, Verdict, ToSet
<1> QED BY <1>1, <1>2, <1>3 DEF Next

(* The work list of extract_needed implements the abstract closure: it     *)
(* links demanded members only, returns an empty queue only when every     *)
(* demand the archive can meet is met, and gives up only after linking at  *)
(* least MaxIterations members (coff_reader.cpp:415-460).                  *)
THEOREM ImplementsAbstractClosure == Spec => Closure!Spec
<1>1. Init => Closure!Init
  BY ToSetEmpty DEF Init, Idle, Closure!Init, Verdict
<1> QED BY <1>1, LoopInvariant, ClosureStep, PTL DEF Spec, Closure!Spec
-----------------------------------------------------------------------------
(* The table as far as it is read: a name is mapped exactly when an entry  *)
(* lists it or leads to it, and by the entry that decides.                 *)
LastListing(n, i) == i \in Loading!Listing(n) /\ \A j \in Loading!Listing(n) : j <= i
FirstAlias(n, i) ==
  Loading!Listing(n) = {} /\ i \in Loading!Aliasing(n) /\ \A j \in Loading!Aliasing(n) : i <= j

Reading ==
  /\ Loading!IsFile(file)
  /\ next \in 1..(Len(file.entries) + 1)
  /\ stage = "load" => next = 1
  /\ DOMAIN symbol_map_ = {n \in Loading!Name : Loading!Listing(n) \cup Loading!Aliasing(n) # {}}
  /\ \A n \in DOMAIN symbol_map_ :
       \E i \in 1..(next - 1) : /\ LastListing(n, i) \/ FirstAlias(n, i)
                                /\ symbol_map_[n] = file.entries[i].offset

(* What an entry adds to the two sets of a name.                           *)
LEMMA EntryAdds ==
  ASSUME Reading, next' = next + 1, file' = file, next <= Len(file.entries),
         NEW n \in Loading!Name, NEW e, e = file.entries[next]
  PROVE  /\ Loading!Listing(n)' = Loading!Listing(n) \cup (IF e.name = n THEN {next} ELSE {})
         /\ Loading!Aliasing(n)' =
              Loading!Aliasing(n) \cup
                (IF e.name # NoName /\ Loading!Undecorated(e.name) = n THEN {next} ELSE {})
<1>1. 1..(next' - 1) = (1..(next - 1)) \cup {next}
  BY DEF Reading
<1> QED BY <1>1 DEF Loading!Listing, Loading!Aliasing

LEMMA EntryRead == Reading /\ Loading!MapSymbol => Reading'
<1> SUFFICES ASSUME Reading, Loading!MapSymbol PROVE Reading'
  OBVIOUS
<1> DEFINE e == file.entries[next]
<1>1. /\ next' = next + 1 /\ file' = file /\ stage' = stage /\ stage = "names"
      /\ next <= Len(file.entries)
  BY DEF Loading!MapSymbol
<1>2. next \in Nat \ {0} /\ Len(file.entries) \in Nat
  BY LenProperties DEF Reading, Loading!IsFile
<1>3. e \in Loading!Entry
  BY <1>1, <1>2, ElementOfSeq DEF Reading, Loading!IsFile
<1>3a. e.name \in Loading!Name \cup {NoName}
  BY <1>3 DEF Loading!Entry
<1>4. e.name # NoName => e.name \in Loading!Name /\ Loading!Undecorated(e.name) \in Loading!Name
  BY <1>3a DEF Loading!Name, Loading!Undecorated, Loading!Plain, Loading!Decorated,
               Loading!Decoration
<1>5. /\ Loading!IsFile(file)'
      /\ next' \in 1..(Len(file'.entries) + 1)
      /\ stage' = "load" => next' = 1
  BY <1>1, <1>2 DEF Reading, Loading!IsFile
<1>6. ASSUME NEW n \in Loading!Name
      PROVE  /\ Loading!Listing(n)' = Loading!Listing(n) \cup (IF e.name = n THEN {next} ELSE {})
             /\ Loading!Aliasing(n)' =
                  Loading!Aliasing(n) \cup
                    (IF e.name # NoName /\ Loading!Undecorated(e.name) = n THEN {next} ELSE {})
             /\ Loading!Listing(n) \subseteq 1..(next - 1)
             /\ Loading!Aliasing(n) \subseteq 1..(next - 1)
  BY <1>1, EntryAdds DEF Loading!Listing, Loading!Aliasing
<1> HIDE DEF e
<1>7. CASE e.name = NoName
  <2>1. symbol_map_' = symbol_map_
    BY <1>7 DEF Loading!MapSymbol, e
  <2>2. \A n \in Loading!Name : /\ Loading!Listing(n)' = Loading!Listing(n)
                                /\ Loading!Aliasing(n)' = Loading!Aliasing(n)
    BY <1>6, <1>7, NoNameAssumption
  <2>3. DOMAIN symbol_map_' = {n \in Loading!Name : Loading!Listing(n)' \cup Loading!Aliasing(n)' # {}}
    BY <2>1, <2>2 DEF Reading
  <2>4. ASSUME NEW n \in DOMAIN symbol_map_'
        PROVE  \E i \in 1..(next' - 1) : /\ LastListing(n, i)' \/ FirstAlias(n, i)'
                                         /\ symbol_map_'[n] = file'.entries[i].offset
    <3>1. n \in Loading!Name
      BY <2>3
    <3>2. PICK i \in 1..(next - 1) : /\ LastListing(n, i) \/ FirstAlias(n, i)
                                     /\ symbol_map_[n] = file.entries[i].offset
      BY <2>1 DEF Reading
    <3>3. LastListing(n, i)' = LastListing(n, i) /\ FirstAlias(n, i)' = FirstAlias(n, i)
      BY <3>1, <2>2 DEF LastListing, FirstAlias
    <3> QED BY <3>2, <3>3, <2>1, <1>1, <1>2
  <2> QED BY <1>5, <2>3, <2>4 DEF Reading
<1>8. CASE e.name # NoName
  <2> DEFINE u == Loading!Undecorated(e.name)
  <2>0. e.name \in Loading!Name /\ u \in Loading!Name
    BY <1>4, <1>8
  <2> HIDE DEF u
  <2>a. PICK x : x = next
    OBVIOUS
  <2>1. symbol_map_' = [n \in DOMAIN symbol_map_ \cup {e.name, u} |->
                          IF n = e.name \/ n \notin DOMAIN symbol_map_ THEN e.offset
                          ELSE symbol_map_[n]]
    BY <1>8 DEF Loading!MapSymbol, Loading!Mapped, e, u
  <2>2. ASSUME NEW n \in Loading!Name
        PROVE  /\ Loading!Listing(n)' = Loading!Listing(n) \cup (IF e.name = n THEN {next} ELSE {})
               /\ Loading!Aliasing(n)' = Loading!Aliasing(n) \cup (IF u = n THEN {next} ELSE {})
    BY <1>6, <1>8 DEF u
  <2>3. DOMAIN symbol_map_' = {n \in Loading!Name : Loading!Listing(n)' \cup Loading!Aliasing(n)' # {}}
    <3>1. DOMAIN symbol_map_' = DOMAIN symbol_map_ \cup {e.name, u}
      BY <2>1
    <3>2. \A n \in Loading!Name :
             (Loading!Listing(n)' \cup Loading!Aliasing(n)' # {})
               <=> (Loading!Listing(n) \cup Loading!Aliasing(n) # {} \/ n = e.name \/ n = u)
      BY <2>2
    <3> QED BY <3>1, <3>2, <2>0 DEF Reading
  <2>4. ASSUME NEW n \in DOMAIN symbol_map_'
        PROVE  \E i \in 1..(next' - 1) : /\ LastListing(n, i)' \/ FirstAlias(n, i)'
                                         /\ symbol_map_'[n] = file'.entries[i].offset
    <3>1. n \in Loading!Name
      BY <2>3
    <3>2. CASE n = e.name
      <4>1. LastListing(n, x)'
        BY <3>1, <3>2, <2>2, <2>a, <1>2, <1>6 DEF LastListing
      <4>2. symbol_map_'[n] = file'.entries[x].offset
        BY <3>2, <2>1, <2>a, <1>1 DEF e
      <4> QED BY <4>1, <4>2, <2>a, <1>1, <1>2
    <3>3. CASE n # e.name /\ n \notin DOMAIN symbol_map_
      <4>1. n = u /\ Loading!Listing(n) = {} /\ Loading!Aliasing(n) = {}
        BY <3>1, <3>3, <2>1 DEF Reading
      <4>2. FirstAlias(n, x)'
        BY <3>1, <3>3, <4>1, <2>2, <2>a, <1>2 DEF FirstAlias
      <4>3. symbol_map_'[n] = file'.entries[x].offset
        BY <3>3, <2>1, <2>a, <1>1 DEF e
      <4> QED BY <4>2, <4>3, <2>a, <1>1, <1>2
    <3>4. CASE n # e.name /\ n \in DOMAIN symbol_map_
      <4>1. PICK i \in 1..(next - 1) : /\ LastListing(n, i) \/ FirstAlias(n, i)
                                       /\ symbol_map_[n] = file.entries[i].offset
        BY <3>4 DEF Reading
      <4>2. symbol_map_'[n] = file'.entries[i].offset
        BY <4>1, <3>4, <2>1, <1>1
      <4>3. LastListing(n, i) => LastListing(n, i)'
        BY <3>1, <3>4, <2>2 DEF LastListing
      <4>4. FirstAlias(n, i) => FirstAlias(n, i)'
        <5>1. Loading!Listing(n)' = Loading!Listing(n)
          BY <3>1, <3>4, <2>2
        <5>2. \A j \in Loading!Aliasing(n)' : j \in Loading!Aliasing(n) \/ j = next
          BY <3>1, <2>2
        <5>3. Loading!Aliasing(n) \subseteq Loading!Aliasing(n)' /\ i <= next
          BY <3>1, <2>2, <4>1, <1>2
        <5> QED BY <5>1, <5>2, <5>3 DEF FirstAlias
      <4> QED BY <4>1, <4>2, <4>3, <4>4, <1>1, <1>2
    <3> QED BY <3>2, <3>3, <3>4
  <2> QED BY <1>5, <2>3, <2>4 DEF Reading
<1> QED BY <1>7, <1>8

LEMMA ReadingStep == Reading /\ [ReaderNext]_<<vars, loadvars>> => Reading'
<1> SUFFICES ASSUME Reading, [ReaderNext]_<<vars, loadvars>> PROVE Reading'
  OBVIOUS
<1>1. CASE Loading!MapSymbol
  BY <1>1, EntryRead
<1>2. CASE ~Loading!MapSymbol
  <2>1. /\ file' = file /\ symbol_map_' = symbol_map_ /\ next' = next
        /\ stage' = "load" => stage = "load"
    BY <1>2 DEF ReaderNext, Load, Extract, loadvars, Loading!Next, Loading!RejectFile,
                Loading!OpenTable, Loading!EndTable
  <2>2. \A n : /\ Loading!Listing(n)' = Loading!Listing(n)
               /\ Loading!Aliasing(n)' = Loading!Aliasing(n)
    BY <2>1 DEF Loading!Listing, Loading!Aliasing
  <2>3. \A n, i : LastListing(n, i)' = LastListing(n, i) /\ FirstAlias(n, i)' = FirstAlias(n, i)
    BY <2>2 DEF LastListing, FirstAlias
  <2> QED BY <2>1, <2>2, <2>3 DEF Reading, Loading!IsFile
<1> QED BY <1>1, <1>2

LEMMA ReadingStarts == ReaderInit => Reading
<1> SUFFICES ASSUME ReaderInit PROVE Reading
  OBVIOUS
<1>1. PICK l \in Libraries : file = l.file
  BY DEF ReaderInit
<1>2. Loading!IsFile(file)
  BY <1>1, LibrariesAssumption
<1>3. Len(file.entries) \in Nat
  BY <1>2, LenProperties DEF Loading!IsFile
<1>4. next = 1 /\ stage = "load" /\ symbol_map_ = << >>
  BY DEF ReaderInit, Loading!Init
<1>5. \A n : Loading!Listing(n) = {} /\ Loading!Aliasing(n) = {}
  BY <1>4 DEF Loading!Listing, Loading!Aliasing
<1>6. DOMAIN symbol_map_ = {}
  BY <1>4
<1> QED BY <1>2, <1>3, <1>4, <1>5, <1>6 DEF Reading

(* The entry that decides is the one the definition chooses.               *)
LEMMA TableIsMeant == Reading => Loading!MapIsFirstMatch
<1> SUFFICES ASSUME Reading, NEW n \in DOMAIN symbol_map_
             PROVE  symbol_map_[n] = file.entries[Loading!MeantEntry(n)].offset
  BY DEF Reading, Loading!MapIsFirstMatch
<1>1. PICK i \in 1..(next - 1) : /\ LastListing(n, i) \/ FirstAlias(n, i)
                                 /\ symbol_map_[n] = file.entries[i].offset
  BY DEF Reading
<1>2. next \in Nat
  BY DEF Reading
<1>3. Loading!Listing(n) \subseteq Nat /\ Loading!Aliasing(n) \subseteq Nat
  BY <1>2 DEF Loading!Listing, Loading!Aliasing
<1>4. CASE LastListing(n, i)
  <2> DEFINE L == Loading!Listing(n)
             k == CHOOSE x \in L : \A j \in L : j <= x
  <2>1. i \in L /\ \A j \in L : j <= i
    BY <1>4 DEF LastListing
  <2>2. k \in L /\ \A j \in L : j <= k
    BY <2>1
  <2>3. Loading!MeantEntry(n) = k
    BY <2>1 DEF Loading!MeantEntry
  <2> HIDE DEF k
  <2>4. k = i
    BY <2>1, <2>2, <1>3
  <2> QED BY <2>3, <2>4, <1>1
<1>5. CASE FirstAlias(n, i)
  <2> DEFINE A == Loading!Aliasing(n)
             k == CHOOSE x \in A : \A j \in A : x <= j
  <2>1. Loading!Listing(n) = {} /\ i \in A /\ \A j \in A : i <= j
    BY <1>5 DEF FirstAlias
  <2>2. k \in A /\ \A j \in A : k <= j
    BY <2>1
  <2>3. Loading!MeantEntry(n) = k
    BY <2>1 DEF Loading!MeantEntry
  <2> HIDE DEF k
  <2>4. k = i
    BY <2>1, <2>2, <1>3
  <2> QED BY <2>3, <2>4, <1>1
<1> QED BY <1>1, <1>4, <1>5

(* Whatever names a library's table lists, in whatever order: a lookup     *)
(* finds the last entry of that very name and, only if there is none, the  *)
(* first of which it is the undecorated form (coff_reader.cpp:140-178).    *)
THEOREM LookupIsFirstMatch == ReaderSpec => []MapIsFirstMatch
<1>1. Reading => MapIsFirstMatch
  BY TableIsMeant DEF MapIsFirstMatch
<1> QED BY <1>1, ReadingStarts, ReadingStep, PTL DEF ReaderSpec

-----------------------------------------------------------------------------
(* A step of the reader is, for the loop, one of its own steps or none.    *)
LEMMA ReaderIsLoop == [ReaderNext]_<<vars, loadvars>> => [Next]_vars
BY DEF ReaderNext, Load, Extract, loadvars

LEMMA LoopStarts ==
  ReaderInit => /\ TypeOK /\ EachMemberOnce /\ ExtractedOnDemand /\ LoopInv /\ Closure!Init
<1> SUFFICES ASSUME ReaderInit
             PROVE  TypeOK /\ EachMemberOnce /\ ExtractedOnDemand /\ LoopInv /\ Closure!Init
  OBVIOUS
<1>1. IsArchive(archive)
  BY LibrariesAssumption DEF ReaderInit
<1>2. Idle
  BY DEF ReaderInit
<1>3. TypeOK
  BY <1>1, <1>2, MaxIterationsAssumption, EmptySeq DEF Idle, TypeOK
<1>4. EachMemberOnce /\ ExtractedOnDemand
  BY <1>2, ToSetEmpty, EmptySeq, LenProperties DEF Idle, EachMemberOnce, ExtractedOnDemand
<1>5. /\ Shape /\ RoundsInv /\ NothingLost /\ ResolvedIsBacked /\ QueuesDemanded
  BY <1>2, FS_EmptySet, ToSetEmpty
     DEF Idle, Shape, RoundsInv, NothingLost, Demanded, ResolvedIsBacked, QueuesDemanded
<1>6. Closure!Init
  BY <1>2, ToSetEmpty DEF Idle, Closure!Init, Verdict
<1> QED BY <1>3, <1>4, <1>5, <1>6 DEF LoopInv

(* What is proved of the loop holds of it behind any file it is given: no  *)
(* library on the disk makes it link a member twice, link one that nobody  *)
(* asked for or lose an import, and the reader as a whole implements the   *)
(* abstract closure (coff_reader.cpp:60-178, 415-460).                     *)
THEOREM ReaderIsRight ==
  ReaderSpec => /\ [](EachMemberOnce /\ ExtractedOnDemand /\ NothingLost)
                /\ ImplementsClosure
<1>1. LoopInv /\ [Next]_vars => LoopInv'
  BY TypeStep, ShapeStep, RoundsStep, NothingLostStep, BackedStep, QueuesStep DEF LoopInv
<1>2. LoopInv => TypeOK /\ QueuesDemanded /\ NothingLost
  BY DEF LoopInv
<1> QED BY <1>1, <1>2, ReaderIsLoop, LoopStarts, OnceStep, OnDemandStep, ClosureStep, PTL
        DEF ReaderSpec, ImplementsClosure, Closure!Spec
=============================================================================
