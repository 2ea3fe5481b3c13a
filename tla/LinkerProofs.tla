---------------------------- MODULE LinkerProofs ----------------------------
(***************************************************************************)
(* Proofs about Linker, for every program, every list of libraries and     *)
(* every ordinal table.                                                    *)
(***************************************************************************)
EXTENDS Linker, SequenceTheorems, FiniteSetTheorems, TLAPS

(* Anything that is no name.                                               *)
Nameless == CHOOSE x : x \notin Name

(* The linker takes a library as its table and its members; what reads the *)
(* table from a file has nothing to stand for here.                        *)
Loop == INSTANCE ArchiveProofs
          WITH Symbol <- Name, Archives <- {}, Requests <- {}, Libraries <- {}, NoName <- Nameless,
               file <- {}, symbol_map_ <- {}, member_offsets_ <- {}, next <- 0

(* The elements of a sequence when a loop takes from it or adds to it.     *)
LEMMA ToSetEmpty == ToSet(<< >>) = {}
BY EmptySeq, LenProperties DEF ToSet

LEMMA ToSetConcat ==
  ASSUME NEW S, NEW s \in Seq(S), NEW t \in Seq(S)
  PROVE  ToSet(s \o t) = ToSet(s) \cup ToSet(t)
<1>1. Range(s \o t) = Range(s) \cup Range(t)
  BY RangeConcatenation
<1> QED BY <1>1 DEF ToSet, Range

LEMMA ToSetOne ==
  ASSUME NEW S, NEW e \in S
  PROVE  <<e>> \in Seq(S) /\ ToSet(<<e>>) = {e}
<1>1. DOMAIN <<e>> = {1} /\ <<e>>[1] = e /\ <<e>> \in Seq(S)
  OBVIOUS
<1> QED BY <1>1 DEF ToSet

LEMMA ToSetHeadTail ==
  ASSUME NEW S, NEW s \in Seq(S), s # << >>
  PROVE  /\ Head(s) \in S /\ Tail(s) \in Seq(S)
         /\ ToSet(s) = {Head(s)} \cup ToSet(Tail(s))
<1>1. Head(s) \in S /\ Tail(s) \in Seq(S) /\ s = <<Head(s)>> \o Tail(s)
  BY HeadTailProperties, ConcatProperties, SeqEqual, EmptySeq
<1>2. PICK first : first = <<Head(s)>> /\ first \in Seq(S) /\ ToSet(first) = {Head(s)}
  BY <1>1, ToSetOne
<1>3. ToSet(first \o Tail(s)) = ToSet(first) \cup ToSet(Tail(s))
  BY <1>1, <1>2, ToSetConcat
<1> QED BY <1>1, <1>2, <1>3

LEMMA ToSetAppend ==
  ASSUME NEW S, NEW s \in Seq(S), NEW e \in S
  PROVE  Append(s, e) \in Seq(S) /\ ToSet(Append(s, e)) = ToSet(s) \cup {e}
<1>1. Append(s, e) \in Seq(S) /\ Append(s, e) = s \o <<e>>
  BY AppendProperties, AppendIsConcat
<1>2. PICK last : last = <<e>> /\ last \in Seq(S) /\ ToSet(last) = {e}
  BY ToSetOne
<1>3. ToSet(s \o last) = ToSet(s) \cup ToSet(last)
  BY <1>2, ToSetConcat, ZenonT(60)
<1> QED BY <1>1, <1>2, <1>3

(* The extraction loop keeps its types when the linker runs it.            *)
LEMMA ReaderStepTyped ==
  ASSUME Reader!TypeOK, Reader!Step, archive' = archive PROVE Reader!TypeOK'
<1>1. Loop!TypeOK
  BY DEF Loop!TypeOK, Reader!TypeOK, Loop!IsArchive, Reader!IsArchive
<1>2. Loop!Step
  BY DEF Loop!Step, Reader!Step, Loop!StartRound, Reader!StartRound, Loop!Return, Reader!Return,
         Loop!Skip, Reader!Skip, Loop!AlreadyExtracted, Reader!AlreadyExtracted,
         Loop!ExtractMember, Reader!ExtractMember, Loop!QueueImport, Reader!QueueImport,
         Loop!EndImports, Reader!EndImports, Loop!EndRound, Reader!EndRound,
         Loop!Exports, Reader!Exports, Loop!Imports, Reader!Imports
<1>0. Nameless \notin Loop!Loading!Name
  <2>1. Nameless \notin Name
    BY NoSetContainsEverything DEF Nameless
  <2> QED BY <2>1 DEF Name, Decoration, Loop!Loading!Name, Loop!Loading!Decoration
<1>3. Loop!TypeOK'
  BY <1>0, Loop!TypeStep, <1>1, <1>2, BoundAssumption DEF Loop!Next, Loop!Work, Loop!TypeStep
<1> QED BY <1>3 DEF Loop!TypeOK, Reader!TypeOK, Loop!IsArchive, Reader!IsArchive

-----------------------------------------------------------------------------
(* What the loop bodies may rely on: the library and the object they work  *)
(* on exist.                                                               *)
InLoops ==
  /\ stage \in {"select", "extract", "absorb", "filter"} => lib <= Len(libraries)
  /\ stage = "imports" => obj <= Len(objects)

MembersOK == \A o \in Offset : IsObject(archive.member[o])

Inv == TypeOK /\ MembersOK /\ InLoops

LEMMA InvalidIsObject == IsObject(InvalidMember)
BY EmptySeq DEF IsObject, InvalidMember

LEMMA InitInv == Init => Inv
<1> SUFFICES ASSUME Init PROVE Inv
  OBVIOUS
<1>1. InputOK /\ ObjectsOK
  BY InputAssumption DEF Init, InputOK, ObjectsOK
<1>2. NamesOK
  BY EmptySeq DEF Init, NamesOK
<1>3. Reader!TypeOK
  BY EmptySeq, InvalidIsObject, BoundAssumption
     DEF Init, Reader!Idle, Reader!TypeOK, Reader!IsArchive, IsObject
<1>4. CursorsOK
  BY <1>1, LenProperties DEF Init, CursorsOK, Stages, InputOK, ObjectsOK
<1>5. LayoutOK /\ ImportsOK /\ VerdictOK
  BY EmptySeq DEF Init, LayoutOK, ImportsOK, VerdictOK
<1>6. MembersOK /\ InLoops
  BY InvalidIsObject DEF Init, MembersOK, InLoops
<1> QED BY <1>1, <1>2, <1>3, <1>4, <1>5, <1>6 DEF Inv, TypeOK

(* The spellings of a name are names, and the name itself is the first.    *)
LEMMA Spellings ==
  ASSUME NEW n \in Name
  PROVE  Variants(n) \in Seq(Name) /\ DOMAIN Variants(n) \subseteq 1..5
         /\ 1 \in DOMAIN Variants(n) /\ Variants(n)[1] = n
<1>1. \A d \in Decoration : Decorated(n.base, d) \in Name
  BY DEF Name, Decorated
<1>2. CASE n.deco = ""
  <2> DEFINE spellings == <<n, Decorated(n.base, "_"), Decorated(n.base, "__imp_"),
                            Decorated(n.base, "__imp__"), Decorated(n.base, "_@")>>
  <2>1. Variants(n) = spellings
    BY <1>2 DEF Variants
  <2>2. /\ Decorated(n.base, "_") \in Name /\ Decorated(n.base, "__imp_") \in Name
        /\ Decorated(n.base, "__imp__") \in Name /\ Decorated(n.base, "_@") \in Name
    BY <1>1 DEF Decoration
  <2>3. ASSUME NEW S, NEW a \in S, NEW b \in S, NEW c \in S, NEW d \in S, NEW e \in S
        PROVE  /\ <<a, b, c, d, e>> \in Seq(S) /\ DOMAIN <<a, b, c, d, e>> = 1..5
               /\ <<a, b, c, d, e>>[1] = a
    OBVIOUS
  <2>4. spellings \in Seq(Name) /\ DOMAIN spellings = 1..5 /\ spellings[1] = n
    BY <2>2, <2>3, Zenon
  <2> HIDE DEF spellings
  <2> QED BY <2>1, <2>4
<1>3. CASE n.deco \in {"_", "_@"}
  <2>1. Variants(n) = <<n, ImpVariant(n)>>
    BY <1>3 DEF Variants
  <2>2. ImpVariant(n) \in Name
    BY <1>1, <1>3 DEF Decoration, ImpVariant
  <2> QED BY <2>1, <2>2
<1>4. CASE n.deco \notin {"", "_", "_@"}
  <2>1. Variants(n) = <<n>>
    BY <1>4 DEF Variants
  <2> QED BY <2>1
<1> QED BY <1>2, <1>3, <1>4

(* The first spelling the library lists is a name it lists, and the name   *)
(* itself if that is listed.                                               *)
LEMMA FirstHitIsListed ==
  ASSUME NEW n \in Name
  PROVE  /\ Hits(n) # {} => FirstHit(n) \in Name /\ FirstHit(n) \in DOMAIN archive.map
         /\ n \in DOMAIN archive.map => Hits(n) # {} /\ FirstHit(n) = n
<1> DEFINE first == CHOOSE i \in Hits(n) : \A j \in Hits(n) : i <= j
<1>1. /\ Variants(n) \in Seq(Name) /\ DOMAIN Variants(n) \subseteq 1..5
      /\ 1 \in DOMAIN Variants(n) /\ Variants(n)[1] = n
  BY Spellings
<1>2. Hits(n) \subseteq 1..5
  BY <1>1 DEF Hits
<1>3. FirstHit(n) = Variants(n)[first]
  BY DEF FirstHit
<1>4. Hits(n) # {} => first \in Hits(n) /\ \A j \in Hits(n) : first <= j
  <2>1. Hits(n) # {} => \E i \in Hits(n) : \A j \in Hits(n) : i <= j
    BY <1>2
  <2> QED BY <2>1
<1> HIDE DEF first
<1>5. Hits(n) # {} => FirstHit(n) \in Name /\ FirstHit(n) \in DOMAIN archive.map
  BY <1>1, <1>3, <1>4, ElementOfSeq, LenProperties DEF Hits
<1>6. ASSUME n \in DOMAIN archive.map PROVE Hits(n) # {} /\ FirstHit(n) = n
  <2>1. 1 \in Hits(n)
    BY <1>1, <1>6 DEF Hits
  <2>2. first = 1
    BY <1>2, <1>4, <2>1
  <2> QED BY <1>1, <1>3, <2>1, <2>2
<1> QED BY <1>5, <1>6

-----------------------------------------------------------------------------
(* A part whose variables do not change keeps its type.                    *)
LEMMA Frame ==
  /\ InputOK /\ UNCHANGED input => InputOK'
  /\ ObjectsOK /\ UNCHANGED objects => ObjectsOK'
  /\ NamesOK /\ UNCHANGED <<defined_symbols, undefined_symbols, still_undefined, selection>>
       => NamesOK'
  /\ Reader!TypeOK /\ UNCHANGED reader => Reader!TypeOK'
  /\ MembersOK /\ UNCHANGED archive => MembersOK'
  /\ LayoutOK /\ UNCHANGED layout => LayoutOK'
  /\ ImportsOK /\ UNCHANGED imports => ImportsOK'
  /\ VerdictOK /\ UNCHANGED verdict => VerdictOK'
<1>1. InputOK /\ UNCHANGED input => InputOK'
  BY ZenonT(60) DEF InputOK, input, IsObject, IsLibrary
<1>2. ObjectsOK /\ UNCHANGED objects => ObjectsOK'
  BY DEF ObjectsOK, IsObject
<1>3. NamesOK /\ UNCHANGED <<defined_symbols, undefined_symbols, still_undefined, selection>>
       => NamesOK'
  BY DEF NamesOK
<1>4. Reader!TypeOK /\ UNCHANGED reader => Reader!TypeOK'
  BY DEF Reader!TypeOK, Reader!IsArchive, reader
<1>5. LayoutOK /\ UNCHANGED layout => LayoutOK'
  BY DEF LayoutOK, layout
<1>6. ImportsOK /\ UNCHANGED imports => ImportsOK'
  BY DEF ImportsOK, imports
<1>7. VerdictOK /\ UNCHANGED verdict => VerdictOK'
  BY DEF VerdictOK, verdict
<1>8. MembersOK /\ UNCHANGED archive => MembersOK'
  BY DEF MembersOK, IsObject
<1> QED BY <1>1, <1>2, <1>3, <1>4, <1>5, <1>6, <1>7, <1>8

(* Lengths are numbers and elements are typed.                             *)
LEMMA Lengths ==
  ASSUME Inv
  PROVE  /\ Len(objects) \in Nat /\ DOMAIN objects = 1..Len(objects)
         /\ Len(libraries) \in Nat /\ DOMAIN libraries = 1..Len(libraries)
         /\ Len(undefined_symbols) \in Nat
         /\ \A i \in 1..Len(undefined_symbols) : undefined_symbols[i] \in Name
         /\ Len(result) \in Nat /\ \A i \in 1..Len(result) : result[i] \in Offset
         /\ \A k \in 1..Len(objects) : IsObject(objects[k])
BY LenProperties, ElementOfSeq
   DEF Inv, TypeOK, InputOK, ObjectsOK, NamesOK, Reader!TypeOK

(* Phase 1 keeps the invariant.                                            *)
LEMMA CollectStep == ASSUME Inv, Refuse \/ Collect PROVE Inv'
<1>0. /\ Len(objects) \in Nat /\ DOMAIN objects = 1..Len(objects)
      /\ Len(libraries) \in Nat
      /\ \A k \in 1..Len(objects) : IsObject(objects[k])
  BY Lengths
<1> USE <1>0, Frame DEF Inv, TypeOK, input, tables, reader, CursorsOK, InLoops, Stages
<1>1. CASE Refuse
  BY <1>1 DEF Refuse
<1>2. CASE DefineCompiled
  <2>1. NamesOK'
    BY <1>2 DEF DefineCompiled, NamesOK, Exports, IsObject
  <2> QED BY <1>2, <2>1 DEF DefineCompiled
<1>3. CASE CollectImport
  <2>1. objects[obj].imports \in Seq(Name)
    BY <1>3 DEF CollectImport, IsObject
  <2>2. objects[obj].imports[item] \in Name
    BY <1>3, <2>1, ElementOfSeq DEF CollectImport
  <2>3. NamesOK'
    BY <1>3, <2>2, AppendProperties DEF CollectImport, NamesOK
  <2> QED BY <1>3, <2>3 DEF CollectImport
<1>4. CASE CollectNext
  BY <1>4 DEF CollectNext
<1>5. CASE EndCollect
  <2>1. NamesOK'
    BY <1>5, ConcatProperties DEF EndCollect, NamesOK
  <2> QED BY <1>5, <2>1 DEF EndCollect
<1> QED BY <1>1, <1>2, <1>3, <1>4, <1>5 DEF Collect

(* Adding an object keeps the list a list of objects.                      *)
LEMMA AppendObject ==
  ASSUME ObjectsOK, NEW o, IsObject(o), objects' = Append(objects, o)
  PROVE  /\ ObjectsOK' /\ Len(objects') = Len(objects) + 1
         /\ \A k \in 1..Len(objects) : objects'[k] = objects[k]
         /\ objects'[Len(objects) + 1] = o
<1>1. objects \in Seq(ToSet(objects) \cup {o})
  BY SeqMonotonic DEF ObjectsOK
<1>2. /\ Len(objects') = Len(objects) + 1
      /\ \A k \in 1..Len(objects) : objects'[k] = objects[k]
      /\ objects'[Len(objects) + 1] = o
      /\ objects' \in Seq(ToSet(objects) \cup {o})
  BY <1>1, AppendProperties
<1>3. objects' \in Seq(ToSet(objects'))
  BY <1>2, SeqOfRange DEF ToSet, Range
<1>4. \A k \in DOMAIN objects' : IsObject(objects'[k])
  BY <1>1, <1>2, LenProperties DEF ObjectsOK
<1>5. (\A k \in DOMAIN objects : IsObject(objects[k]))' 
  BY <1>4 DEF IsObject
<1> QED BY <1>2, <1>3, <1>5 DEF ObjectsOK

(* Phase 2 keeps the invariant.                                            *)
LEMMA SearchStep == ASSUME Inv, Search PROVE Inv'
<1>0. /\ Len(objects) \in Nat /\ DOMAIN objects = 1..Len(objects)
      /\ Len(libraries) \in Nat /\ DOMAIN libraries = 1..Len(libraries)
      /\ Len(undefined_symbols) \in Nat
      /\ \A i \in 1..Len(undefined_symbols) : undefined_symbols[i] \in Name
      /\ Len(result) \in Nat /\ \A i \in 1..Len(result) : result[i] \in Offset
  BY Lengths
<1> USE <1>0, Frame DEF Inv, TypeOK, input, tables, reader, CursorsOK, InLoops, Stages
<1>1. CASE SkipLibrary
  <2>1. VerdictOK'
    BY <1>1 DEF SkipLibrary, VerdictOK
  <2> QED BY <1>1, <2>1 DEF SkipLibrary
<1>2. CASE OpenLibrary
  <2>1. IsLibrary(libraries[lib])
    BY <1>2 DEF OpenLibrary, InputOK
  <2>2. Reader!IsArchive(archive')
    BY <1>2, <2>1 DEF OpenLibrary, IsLibrary, IsObject, Reader!IsArchive
  <2>3. Reader!TypeOK' /\ MembersOK'
    BY <1>2, <2>1, <2>2 DEF OpenLibrary, Reader!TypeOK, Reader!IsArchive, IsLibrary, IsObject, MembersOK
  <2>4. NamesOK'
    BY <1>2, EmptySeq DEF OpenLibrary, NamesOK
  <2> QED BY <1>2, <2>3, <2>4 DEF OpenLibrary
<1>3. CASE SelectSymbol
  <2>1. NamesOK'
    BY <1>3, FirstHitIsListed, AppendProperties DEF SelectSymbol, NamesOK
  <2> QED BY <1>3, <2>1 DEF SelectSymbol
<1>4. CASE NothingSelected
  BY <1>4 DEF NothingSelected
<1>5. CASE CallExtract
  <2>1. Reader!TypeOK'
    BY <1>5, EmptySeq, BoundAssumption
       DEF CallExtract, Reader!Begin, Reader!TypeOK, Reader!IsArchive, NamesOK
  <2> QED BY <1>5, <2>1 DEF CallExtract
<1>6. CASE Extract
  <2>1. Reader!TypeOK'
    BY <1>6, ReaderStepTyped DEF Extract
  <2> QED BY <1>6, <2>1 DEF Extract
<1>7. CASE EndExtract
  BY <1>7 DEF EndExtract
<1>8. CASE AbsorbMember
  <2>1. IsObject(archive.member[result[item]])
    BY <1>8 DEF AbsorbMember, MembersOK
  <2>2. /\ ObjectsOK' /\ Len(objects') = Len(objects) + 1
        /\ Exports(archive.member[result[item]]) \subseteq Name
    BY <1>8, <2>1, AppendObject DEF AbsorbMember, WithMember, IsObject, Exports
  <2>3. NamesOK'
    BY <1>8, <2>2 DEF AbsorbMember, NamesOK
  <2> QED BY <1>8, <2>2, <2>3 DEF AbsorbMember
<1>9. CASE EndAbsorb
  <2>1. NamesOK'
    BY <1>9, EmptySeq DEF EndAbsorb, NamesOK
  <2> QED BY <1>9, <2>1 DEF EndAbsorb
<1>10. CASE FilterSymbol
  <2>1. NamesOK'
    BY <1>10, AppendProperties DEF FilterSymbol, NamesOK
  <2> QED BY <1>10, <2>1 DEF FilterSymbol
<1>11. CASE EndFilter
  <2>1. NamesOK'
    BY <1>11 DEF EndFilter, NamesOK
  <2> QED BY <1>11, <2>1 DEF EndFilter
<1>12. CASE EndSearch
  BY <1>12 DEF EndSearch
<1> QED BY <1>1, <1>2, <1>3, <1>4, <1>5, <1>6, <1>7, <1>8, <1>9, <1>10, <1>11, <1>12
        DEF Search, Select

(* The entries of a module are entries, and stay so with one more.         *)
LEMMA EntriesTyped ==
  ASSUME ImportsOK, NEW dll \in Dll
  PROVE  /\ Entries(dll) \in Seq(DllImports)
         /\ \A e \in DllImports : Append(Entries(dll), e) \in Seq(DllImports)
<1>1. Entries(dll) \in Seq(DllImports)
  BY EmptySeq DEF Entries, ImportsOK
<1> QED BY <1>1, AppendProperties

LEMMA SetEntriesTyped ==
  ASSUME ImportsOK, NEW dll \in Dll, NEW entries \in Seq(DllImports),
         SetEntries(dll, entries), import_symbols' \subseteq Name
  PROVE  ImportsOK'
BY DEF ImportsOK, SetEntries

(* Phase 3 keeps the invariant.                                            *)
LEMMA PlaceStep == ASSUME Inv, Place PROVE Inv'
<1>0. /\ Len(objects) \in Nat /\ DOMAIN objects = 1..Len(objects)
      /\ Len(libraries) \in Nat
      /\ \A k \in 1..Len(objects) : IsObject(objects[k])
  BY Lengths
<1> USE <1>0, Frame DEF Inv, TypeOK, input, tables, reader, CursorsOK, InLoops, Stages
<1>1. CASE PlaceObject
  <2> DEFINE o == objects[obj]
  <2>1. IsObject(o)
    BY <1>1 DEF PlaceObject
  <2>2. /\ Here \in [code : Nat, data : Nat]
        /\ merged_code' \in Nat /\ merged_data' \in Nat
    <3>1. merged_code \in Nat /\ merged_data \in Nat /\ o.code \in Nat /\ o.data \in Nat
      BY <2>1 DEF LayoutOK, IsObject
    <3>2. /\ merged_code' = IF IsImportDefinition(o) THEN merged_code ELSE merged_code + o.code
          /\ merged_data' = IF IsImportDefinition(o) THEN merged_data ELSE merged_data + o.data
      BY <1>1 DEF PlaceObject
    <3> HIDE DEF o
    <3>3. merged_code' \in Nat /\ merged_data' \in Nat
      BY <3>1, <3>2
    <3> QED BY <3>1, <3>3 DEF Here
  <2>3. placed' \in Seq([code : Nat, data : Nat])
    BY <1>1, <2>2, AppendProperties DEF PlaceObject, LayoutOK
  <2>4. \A n \in DOMAIN o.exports : Address(Here, o.exports[n]) \in Int
    BY <2>1, <2>2 DEF IsObject, Address
  <2>5. DOMAIN globalSymbols' \subseteq Name
        /\ \A n \in DOMAIN globalSymbols' : globalSymbols'[n] \in Int
    <3>1. globalSymbols' = Define(globalSymbols, Here, o.exports)
      BY <1>1 DEF PlaceObject
    <3>2. DOMAIN globalSymbols' = DOMAIN globalSymbols \cup DOMAIN o.exports
      BY <3>1 DEF Define
    <3>3. ASSUME NEW n \in DOMAIN globalSymbols' PROVE globalSymbols'[n] \in Int
      <4>1. CASE n \in DOMAIN globalSymbols
        BY <3>1, <4>1 DEF Define, LayoutOK
      <4>2. CASE n \notin DOMAIN globalSymbols
        BY <2>4, <3>1, <3>2, <4>2 DEF Define
      <4> QED BY <4>1, <4>2
    <3> QED BY <2>1, <3>2, <3>3 DEF LayoutOK, IsObject
  <2>6. LayoutOK'
    BY <2>2, <2>3, <2>5 DEF LayoutOK
  <2> QED BY <1>1, <2>6 DEF PlaceObject
<1>2. CASE CollectDllImport
  <2> DEFINE imp == objects[obj].dll_imports[item]
  <2>1. objects[obj].dll_imports \in Seq([symbol : Name, dll : Dll, ordinal : Nat])
    <3>1. IsObject(objects[obj])
      BY <1>2 DEF CollectDllImport
    <3> QED BY <3>1 DEF IsObject
  <2>2. imp \in [symbol : Name, dll : Dll, ordinal : Nat]
    <3>1. item \in 1..Len(objects[obj].dll_imports)
      BY <1>2, <2>1, LenProperties DEF CollectDllImport
    <3> QED BY <2>1, <3>1, ElementOfSeq
  <2>3. import_symbols' \subseteq Name
    BY <1>2, <2>2 DEF CollectDllImport, ImportsOK
  <2>4. [symbol |-> imp.symbol, ordinal |-> imp.ordinal] \in DllImports /\ imp.dll \in Dll
    BY <2>2 DEF DllImports
  <2>5. ImportsOK'
    BY <1>2, <2>3, <2>4, EntriesTyped, SetEntriesTyped DEF CollectDllImport
  <2> QED BY <1>2, <2>5 DEF CollectDllImport
<1>3. CASE NextObject
  BY <1>3 DEF NextObject
<1>4. CASE EndPlace
  BY <1>4 DEF EndPlace
<1> QED BY <1>1, <1>2, <1>3, <1>4 DEF Place

(* Whatever order std::sort picks, the entries are entries.                *)
LEMMA SortedFormsTyped ==
  ASSUME NEW entries \in Seq(DllImports), NEW t \in SortedForms(entries)
  PROVE  t \in Seq(DllImports) /\ ToSet(t) \subseteq ToSet(entries)
<1>1. PICK p \in [DOMAIN entries -> DOMAIN entries] : t = [i \in DOMAIN entries |-> entries[p[i]]]
  BY DEF SortedForms
<1>2. DOMAIN entries = 1..Len(entries) /\ Len(entries) \in Nat
  BY LenProperties
<1>3. \A i \in 1..Len(entries) : entries[p[i]] \in DllImports
  BY <1>1, <1>2, ElementOfSeq
<1>4. t \in Seq(DllImports)
  BY <1>1, <1>2, <1>3, IsASeq
<1> QED BY <1>1, <1>2, <1>4 DEF ToSet

(* A symbol the fallback takes becomes an import of a known DLL.           *)
LEMMA FallBackTyped ==
  ASSUME Inv, NEW dll \in Dll, NEW ordinals, DOMAIN ordinals \subseteq Base,
         \A b \in DOMAIN ordinals : ordinals[b] \in Nat \ {0},
         FallBack(dll, ordinals)
  PROVE  Inv'
<1> USE Frame DEF Inv, TypeOK, input, tables, reader, CursorsOK, InLoops, Stages
<1> DEFINE sym == undefined_symbols[item]
<1>1. sym \in Name
  BY Lengths DEF FallBack
<1>2. FindKernelOrdinal(sym, ordinals) \in Nat
  BY DEF FindKernelOrdinal
<1>3. [symbol |-> sym, ordinal |-> FindKernelOrdinal(sym, ordinals)] \in DllImports
  BY <1>1, <1>2 DEF DllImports
<1>4. import_symbols' \subseteq Name
  BY <1>1 DEF FallBack, ImportsOK
<1>5. ImportsOK'
  BY <1>3, <1>4, EntriesTyped, SetEntriesTyped DEF FallBack
<1> QED BY <1>5 DEF FallBack

(* The report keeps the invariant.                                         *)
LEMMA ReportStep == ASSUME Inv, Report \/ WriteImage PROVE Inv'
<1> USE Frame DEF Inv, TypeOK, input, tables, reader, CursorsOK, InLoops, Stages
<1>1. CASE SkipSettled
  BY <1>1 DEF SkipSettled
<1>2. CASE FallBack(KernelDll, KernelOrdinals) \/ FallBack(XamDll, XamOrdinals)
  BY <1>2, FallBackTyped, KernelAssumption
<1>3. CASE ReportUnresolved
  <2>1. VerdictOK'
    <3>1. undefined_symbols[item] \in Name
      BY <1>3, Lengths DEF ReportUnresolved
    <3> QED BY <1>3, <3>1 DEF ReportUnresolved, VerdictOK
  <2> QED BY <1>3, <2>1 DEF ReportUnresolved
<1>4. CASE EndReport
  <2>1. ImportsOK'
    <3>1. /\ DOMAIN importModules' = DOMAIN importModules
          /\ \A d \in DOMAIN importModules : importModules'[d] \in SortedForms(importModules[d])
          /\ import_symbols' = import_symbols
      BY <1>4 DEF EndReport
    <3> QED BY <3>1, SortedFormsTyped DEF ImportsOK
  <2>2. VerdictOK'
    BY <1>4 DEF EndReport, VerdictOK
  <2> QED BY <1>4, <2>1, <2>2 DEF EndReport
<1>5. CASE WriteImage
  <2>1. VerdictOK'
    BY <1>5 DEF WriteImage, VerdictOK
  <2> QED BY <1>5, <2>1 DEF WriteImage
<1> QED BY <1>1, <1>2, <1>3, <1>4, <1>5 DEF Report

LEMMA InvStep == Inv /\ [Next]_vars => Inv'
<1>1. Inv /\ UNCHANGED vars => Inv'
  BY Frame DEF Inv, TypeOK, vars, input, tables, reader, cursors, CursorsOK, InLoops
<1> QED BY <1>1, CollectStep, SearchStep, PlaceStep, ReportStep DEF Next

(* Every variable of the linker keeps its type, and every index it uses    *)
(* lies in the list it indexes, whatever the libraries hold                *)
(* (linker.cpp:162-366).                                                   *)
THEOREM TypeCorrect == Spec => []TypeOK
<1>1. Inv => TypeOK
  BY DEF Inv
<1> QED BY <1>1, InitInv, InvStep, PTL DEF Spec

-----------------------------------------------------------------------------
(* Placing starts from nothing, with the object list complete, and has     *)
(* placed exactly the objects before the cursor; the compiled objects stay *)
(* at the front of the list.                                               *)
Searching == {"search", "select", "extract", "absorb", "filter"}
BeforePlacing == {"start", "collect", "failed"} \cup Searching

Placing ==
  /\ stage \in BeforePlacing => placed = << >> /\ globalSymbols = << >>
  /\ stage \in Searching => obj = 1
  /\ stage = "place" => Len(placed) = obj - 1
  /\ stage = "imports" => Len(placed) = obj
  /\ stage \in {"report", "write", "linked"} => Len(placed) = Len(objects)

CompiledFirst ==
  /\ Len(compiled) <= Len(objects)
  /\ \A i \in 1..Len(compiled) : objects[i] = compiled[i]

(* What an action of one phase leaves alone.                               *)
LEMMA CollectKeeps ==
  ASSUME Refuse \/ Collect PROVE UNCHANGED <<input, objects, layout, imports, verdict>>
BY DEF Refuse, Collect, DefineCompiled, CollectImport, CollectNext, EndCollect, tables
LEMMA SearchKeeps ==
  ASSUME Search PROVE UNCHANGED <<input, obj, layout, imports>> /\ stage \in Searching
BY DEF Search, Select, SkipLibrary, OpenLibrary, SelectSymbol, NothingSelected, CallExtract,
       Extract, EndExtract, AbsorbMember, EndAbsorb, FilterSymbol, EndFilter, EndSearch, Searching
LEMMA SearchKeepsObjects ==
  ASSUME Search PROVE AbsorbMember \/ UNCHANGED objects
BY DEF Search, Select, SkipLibrary, OpenLibrary, SelectSymbol, NothingSelected, CallExtract,
       Extract, EndExtract, EndAbsorb, FilterSymbol, EndFilter, EndSearch, tables
LEMMA PlaceKeeps ==
  ASSUME Place PROVE UNCHANGED <<input, tables, verdict>> /\ (PlaceObject \/ UNCHANGED layout)
BY DEF Place, PlaceObject, CollectDllImport, NextObject, EndPlace
LEMMA ReportKeeps ==
  ASSUME Report \/ WriteImage PROVE UNCHANGED <<input, tables, obj, layout>>
BY DEF Report, WriteImage, SkipSettled, FallBack, ReportUnresolved, EndReport

LEMMA PlacingStep == Inv /\ Placing /\ [Next]_vars => Placing'
<1> SUFFICES ASSUME Inv, Placing, [Next]_vars PROVE Placing'
  OBVIOUS
<1> USE DEF Placing, BeforePlacing, Searching
<1>0. /\ Len(objects) \in Nat /\ obj \in 1..(Len(objects) + 1)
      /\ Len(placed) \in Nat
  BY Lengths, LenProperties DEF Inv, TypeOK, CursorsOK, LayoutOK
<1>1. CASE Refuse \/ Collect
  <2>1. UNCHANGED <<objects, layout>>
    BY <1>1, CollectKeeps
  <2> QED BY <1>0, <1>1, <2>1, EmptySeq
          DEF layout, Refuse, Collect, DefineCompiled, CollectImport, CollectNext, EndCollect
<1>2. CASE Search
  <2>1. UNCHANGED <<obj, layout>> /\ stage \in Searching
    BY <1>2, SearchKeeps
  <2>2. stage' \in Searching \cup {"place"}
    BY <1>2 DEF Search, Select, SkipLibrary, OpenLibrary, SelectSymbol, NothingSelected,
                CallExtract, Extract, EndExtract, AbsorbMember, EndAbsorb, FilterSymbol,
                EndFilter, EndSearch
  <2> QED BY <1>0, <2>1, <2>2, EmptySeq DEF layout
<1>3. CASE Place
  <2>1. CASE PlaceObject
    <3>1. Len(placed') = Len(placed) + 1
      BY <2>1, AppendProperties DEF PlaceObject, Inv, TypeOK, LayoutOK
    <3> QED BY <1>0, <2>1, <3>1 DEF PlaceObject
  <2>2. CASE CollectDllImport
    BY <2>2, <1>0 DEF CollectDllImport, layout
  <2>3. CASE NextObject
    BY <2>3, <1>0 DEF NextObject, layout
  <2>4. CASE EndPlace
    BY <2>4, <1>0 DEF EndPlace, layout, tables
  <2> QED BY <1>3, <2>1, <2>2, <2>3, <2>4 DEF Place
<1>4. CASE Report \/ WriteImage
  <2>1. UNCHANGED <<objects, obj, layout>>
    BY <1>4, ReportKeeps DEF tables
  <2>2. stage \in {"report", "write"} /\ stage' \in {"report", "write", "linked"}
    BY <1>4 DEF Report, WriteImage, SkipSettled, FallBack, ReportUnresolved, EndReport
  <2> QED BY <1>0, <2>1, <2>2 DEF layout
<1>5. CASE UNCHANGED vars
  BY <1>5 DEF vars, tables, cursors, layout
<1> QED BY <1>1, <1>2, <1>3, <1>4, <1>5 DEF Next

LEMMA CompiledFirstStep == Inv /\ CompiledFirst /\ [Next]_vars => CompiledFirst'
<1> SUFFICES ASSUME Inv, CompiledFirst, [Next]_vars PROVE CompiledFirst'
  OBVIOUS
<1> USE DEF CompiledFirst
<1>0. Len(objects) \in Nat /\ Len(compiled) \in Nat
  BY Lengths, LenProperties DEF Inv, TypeOK, InputOK
<1>1. CASE UNCHANGED <<input, objects>>
  BY <1>1 DEF input
<1>2. CASE AbsorbMember
  <2>1. IsObject(archive.member[result[item]])
    BY <1>2, Lengths DEF AbsorbMember, Inv, TypeOK, MembersOK, CursorsOK
  <2>2. /\ Len(objects') = Len(objects) + 1
        /\ \A k \in 1..Len(objects) : objects'[k] = objects[k]
    BY <1>2, <2>1, AppendObject DEF AbsorbMember, WithMember, Inv, TypeOK
  <2> QED BY <1>0, <1>2, <2>2 DEF AbsorbMember, input
<1> QED BY <1>1, <1>2, CollectKeeps, SearchKeeps, SearchKeepsObjects, PlaceKeeps, ReportKeeps
        DEF Next, vars, tables

-----------------------------------------------------------------------------
(* Placing an object appends its offsets, and nothing placed moves.        *)
LEMMA PlacedGrows ==
  ASSUME Inv, Placing, PlaceObject
  PROVE  /\ Len(placed) \in Nat /\ obj = Len(placed) + 1 /\ obj \in 1..Len(objects)
         /\ DOMAIN placed = 1..Len(placed) /\ DOMAIN placed' = 1..obj
         /\ placed'[obj] = Here
         /\ \A k \in 1..Len(placed) : placed'[k] = placed[k]
         /\ objects' = objects
<1>1. placed \in Seq([code : Nat, data : Nat]) /\ Here \in [code : Nat, data : Nat]
  BY DEF Inv, TypeOK, LayoutOK, Here
<1>2. placed' = Append(placed, Here) /\ objects' = objects
  BY DEF PlaceObject, tables
<1>3. /\ Len(placed) \in Nat /\ obj = Len(placed) + 1 /\ obj \in 1..Len(objects)
  BY <1>1, LenProperties DEF PlaceObject, Placing, Inv, TypeOK, CursorsOK
<1>4. /\ Len(placed') = obj /\ placed'[obj] = Here /\ placed' \in Seq([code : Nat, data : Nat])
      /\ \A k \in 1..Len(placed) : placed'[k] = placed[k]
  BY <1>1, <1>2, <1>3, AppendProperties
<1> QED BY <1>1, <1>2, <1>3, <1>4, LenProperties

(* A step of another action leaves the layout alone, or happens before     *)
(* anything is placed.                                                     *)
LEMMA OtherSteps ==
  ASSUME Placing, [Next]_vars, ~PlaceObject
  PROVE  /\ UNCHANGED layout
         /\ \/ placed = << >> /\ globalSymbols = << >>
            \/ objects' = objects
BY CollectKeeps, SearchKeeps, PlaceKeeps, ReportKeeps
   DEF Next, vars, tables, Placing, BeforePlacing

LEMMA FirstDefinitionStep ==
  Inv /\ Placing /\ FirstDefinitionWins /\ [Next]_vars => FirstDefinitionWins'
<1> SUFFICES ASSUME Inv, Placing, FirstDefinitionWins, [Next]_vars PROVE FirstDefinitionWins'
  OBVIOUS
<1>1. CASE PlaceObject
  <2> DEFINE o == objects[obj]
  <2>0. /\ Len(placed) \in Nat /\ obj = Len(placed) + 1
        /\ DOMAIN placed = 1..Len(placed) /\ DOMAIN placed' = 1..obj
        /\ placed'[obj] = Here
        /\ \A k \in 1..Len(placed) : placed'[k] = placed[k]
        /\ objects' = objects
    BY <1>1, PlacedGrows
  <2>1. globalSymbols' = Define(globalSymbols, Here, o.exports)
    BY <1>1 DEF PlaceObject
  <2>2. DOMAIN globalSymbols' = DOMAIN globalSymbols \cup Exports(o)
    BY <2>1 DEF Define, Exports
  <2>3. DOMAIN globalSymbols' = UNION {Exports(objects'[k]) : k \in DOMAIN placed'}
    BY <2>0, <2>2 DEF FirstDefinitionWins, Exports
  <2>4. ASSUME NEW n \in DOMAIN globalSymbols'
        PROVE  \E k \in DOMAIN placed' :
                 /\ n \in Exports(objects[k])
                 /\ \A j \in 1..(k-1) : n \notin Exports(objects[j])
                 /\ globalSymbols'[n] = Address(placed'[k], objects[k].exports[n])
    <3>1. CASE n \in DOMAIN globalSymbols
      <4>1. PICK k \in DOMAIN placed :
              /\ n \in Exports(objects[k])
              /\ \A j \in 1..(k-1) : n \notin Exports(objects[j])
              /\ globalSymbols[n] = Address(placed[k], objects[k].exports[n])
        BY <3>1 DEF FirstDefinitionWins
      <4>2. k \in DOMAIN placed' /\ placed'[k] = placed[k]
        BY <2>0
      <4>3. globalSymbols'[n] = globalSymbols[n]
        BY <2>1, <3>1 DEF Define
      <4> QED BY <4>1, <4>2, <4>3
    <3>2. CASE n \notin DOMAIN globalSymbols
      <4>1. n \in Exports(o) /\ obj \in DOMAIN placed'
        BY <2>0, <2>2, <3>2
      <4>2. \A j \in 1..(obj-1) : n \notin Exports(objects[j])
        BY <2>0, <3>2 DEF FirstDefinitionWins
      <4>3. globalSymbols'[n] = Address(placed'[obj], o.exports[n])
        BY <2>0, <2>1, <3>2, <4>1 DEF Define, Exports
      <4> QED BY <4>1, <4>2, <4>3
    <3> QED BY <3>1, <3>2
  <2> QED BY <2>0, <2>3, <2>4, SMTT(60) DEF FirstDefinitionWins, Address, Exports
<1>2. CASE ~PlaceObject
  <2>1. UNCHANGED layout /\ ((placed = << >> /\ globalSymbols = << >>) \/ objects' = objects)
    BY <1>2, OtherSteps
  <2>2. CASE objects' = objects
    BY <2>1, <2>2 DEF FirstDefinitionWins, layout, Address, Exports
  <2>3. CASE placed = << >> /\ globalSymbols = << >>
    BY <2>1, <2>3, EmptySeq, LenProperties DEF FirstDefinitionWins, layout
  <2> QED BY <2>1, <2>2, <2>3
<1> QED BY <1>1, <1>2

LEMMA InitPlacing == Init => Placing /\ CompiledFirst /\ FirstDefinitionWins /\ RegionsDisjoint
<1> SUFFICES ASSUME Init PROVE Placing /\ CompiledFirst /\ FirstDefinitionWins /\ RegionsDisjoint
  OBVIOUS
<1>1. DOMAIN placed = {} /\ DOMAIN globalSymbols = {}
  BY EmptySeq, LenProperties DEF Init
<1>2. Placing
  BY DEF Init, Placing, BeforePlacing, Searching
<1>3. CompiledFirst
  BY InputAssumption, LenProperties DEF Init, CompiledFirst
<1> QED BY <1>1, <1>2, <1>3 DEF FirstDefinitionWins, RegionsDisjoint

(* Whatever the objects export, in whatever order the libraries brought    *)
(* them in, the address of a symbol is the one its first definition in     *)
(* link order has (linker.cpp:271-284).                                    *)
THEOREM FirstDefinition == Spec => []FirstDefinitionWins
BY InitInv, InvStep, InitPlacing, PlacingStep, FirstDefinitionStep, PTL DEF Spec

(* No symbol a compiled object defines can be taken over by a library      *)
(* (linker.cpp:242-248, 280-284).                                          *)
THEOREM UserDefinitionsWin == Spec => []UserDefinitionsStand
<1>1. Inv /\ Placing /\ CompiledFirst /\ FirstDefinitionWins => UserDefinitionsStand
  <2> SUFFICES ASSUME Inv, Placing, CompiledFirst, FirstDefinitionWins,
                      NEW n \in DOMAIN globalSymbols,
                      NEW c \in DOMAIN compiled, n \in Exports(compiled[c])
               PROVE  \E k \in DOMAIN placed \cap DOMAIN compiled :
                        /\ n \in Exports(compiled[k])
                        /\ globalSymbols[n] = Address(placed[k], compiled[k].exports[n])
    BY DEF UserDefinitionsStand
  <2>1. PICK k \in DOMAIN placed :
          /\ n \in Exports(objects[k])
          /\ \A j \in 1..(k-1) : n \notin Exports(objects[j])
          /\ globalSymbols[n] = Address(placed[k], objects[k].exports[n])
    BY DEF FirstDefinitionWins
  <2>2. /\ DOMAIN compiled = 1..Len(compiled) /\ Len(compiled) \in Nat
        /\ DOMAIN placed = 1..Len(placed) /\ Len(placed) \in Nat
    BY LenProperties DEF Inv, TypeOK, InputOK, LayoutOK
  <2>3. n \in Exports(objects[c])
    BY <2>2 DEF CompiledFirst
  <2>4. k <= c
    BY <2>1, <2>2, <2>3
  <2>5. k \in DOMAIN compiled /\ objects[k] = compiled[k]
    BY <2>2, <2>4 DEF CompiledFirst
  <2> QED BY <2>1, <2>5
<1> QED BY <1>1, InitInv, InvStep, InitPlacing, PlacingStep, CompiledFirstStep,
           FirstDefinitionStep, PTL DEF Spec

-----------------------------------------------------------------------------
LEMMA RegionsStep == Inv /\ Placing /\ RegionsDisjoint /\ [Next]_vars => RegionsDisjoint'
<1> SUFFICES ASSUME Inv, Placing, RegionsDisjoint, [Next]_vars PROVE RegionsDisjoint'
  OBVIOUS
<1>1. CASE PlaceObject
  <2> DEFINE o == objects[obj]
  <2>0. /\ Len(placed) \in Nat /\ obj = Len(placed) + 1 /\ obj \in 1..Len(objects)
        /\ DOMAIN placed = 1..Len(placed) /\ DOMAIN placed' = 1..obj /\ Len(placed') = obj
        /\ placed'[obj] = Here
        /\ \A k \in 1..Len(placed) : placed'[k] = placed[k]
        /\ objects' = objects
    <3>1. placed' \in Seq([code : Nat, data : Nat])
      BY InvStep DEF Inv, TypeOK, LayoutOK
    <3> QED BY <1>1, <3>1, PlacedGrows, LenProperties
  <2>1. /\ merged_code \in Nat /\ merged_data \in Nat
        /\ \A k \in 1..Len(objects) : objects[k].code \in Nat /\ objects[k].data \in Nat
        /\ \A k \in 1..Len(placed) : placed[k].code \in Nat /\ placed[k].data \in Nat
    <3>1. /\ merged_code \in Nat /\ merged_data \in Nat /\ placed \in Seq([code : Nat, data : Nat])
      BY DEF Inv, TypeOK, LayoutOK
    <3>2. \A k \in 1..Len(objects) : IsObject(objects[k])
      BY Lengths
    <3>3. \A k \in 1..Len(placed) : placed[k] \in [code : Nat, data : Nat]
      BY <3>1, ElementOfSeq
    <3> QED BY <3>1, <3>2, <3>3 DEF IsObject
  <2>2. /\ merged_code' = IF IsImportDefinition(o) THEN merged_code ELSE merged_code + o.code
        /\ merged_data' = IF IsImportDefinition(o) THEN merged_data ELSE merged_data + o.data
    BY <1>1 DEF PlaceObject
  <2>3. Here.code = merged_code /\ Here.data = merged_data
    BY DEF Here
  <2>4. ASSUME NEW k \in 1..obj, ~IsImportDefinition(objects[k])
        PROVE  /\ placed'[k].code + objects[k].code <= merged_code'
               /\ placed'[k].data + objects[k].data <= merged_data'
               /\ \A j \in (k+1)..obj :
                    /\ placed'[k].code + objects[k].code <= placed'[j].code
                    /\ placed'[k].data + objects[k].data <= placed'[j].data
    <3>1. CASE k = obj
      BY <2>0, <2>1, <2>2, <2>3, <2>4, <3>1
    <3>2. CASE k # obj
      <4>1. /\ k \in 1..Len(placed) /\ placed'[k] = placed[k] /\ k \in 1..Len(objects)
        BY <2>0, <3>2
      <4>2. /\ placed[k].code + objects[k].code <= merged_code
            /\ placed[k].data + objects[k].data <= merged_data
            /\ \A j \in (k+1)..Len(placed) :
                 /\ placed[k].code + objects[k].code <= placed[j].code
                 /\ placed[k].data + objects[k].data <= placed[j].data
        BY <2>0, <2>4, <4>1 DEF RegionsDisjoint
      <4>3. merged_code <= merged_code' /\ merged_data <= merged_data'
        BY <2>0, <2>1, <2>2
      <4>4. ASSUME NEW j \in (k+1)..obj
            PROVE  /\ placed'[k].code + objects[k].code <= placed'[j].code
                   /\ placed'[k].data + objects[k].data <= placed'[j].data
        <5>1. CASE j = obj
          BY <2>0, <2>3, <4>1, <4>2, <5>1
        <5>2. CASE j # obj
          <6>1. j \in (k+1)..Len(placed) /\ placed'[j] = placed[j]
            BY <2>0, <5>2
          <6> QED BY <4>1, <4>2, <6>1
        <5> QED BY <5>1, <5>2
      <4>5. /\ placed'[k].code + objects[k].code <= merged_code'
            /\ placed'[k].data + objects[k].data <= merged_data'
        <5>1. /\ placed[k].code + objects[k].code \in Nat /\ placed[k].data + objects[k].data \in Nat
              /\ merged_code' \in Nat /\ merged_data' \in Nat
          <6>1. merged_code' \in Nat /\ merged_data' \in Nat
            BY InvStep DEF Inv, TypeOK, LayoutOK
          <6>2. /\ placed[k].code \in Nat /\ objects[k].code \in Nat
                /\ placed[k].data \in Nat /\ objects[k].data \in Nat
            BY <2>1, <4>1
          <6> QED BY <6>1, <6>2
        <5> QED BY <2>1, <4>1, <4>2, <4>3, <5>1
      <4> QED BY <4>4, <4>5
    <3> QED BY <3>1, <3>2
  <2>5. \A k \in 1..obj : IsImportDefinition(objects[k])' = IsImportDefinition(objects'[k])
    BY DEF IsImportDefinition
  <2> HIDE DEF o
  <2> QED BY <2>0, <2>4 DEF RegionsDisjoint, IsImportDefinition
<1>2. CASE ~PlaceObject
  <2>1. UNCHANGED layout /\ (placed = << >> \/ objects' = objects)
    BY <1>2, OtherSteps
  <2>2. CASE objects' = objects
    BY <2>1, <2>2 DEF RegionsDisjoint, layout, IsImportDefinition
  <2>3. CASE placed = << >>
    BY <2>1, <2>3, EmptySeq, LenProperties DEF RegionsDisjoint, layout
  <2> QED BY <2>1, <2>2, <2>3
<1> QED BY <1>1, <1>2

(* However many objects are linked and however long they are, their code   *)
(* bytes and their data bytes never overlap in the image, and end within   *)
(* the merged sections (linker.cpp:271-278); bss has no bytes there.       *)
THEOREM RegionsNeverOverlap == Spec => []RegionsDisjoint
BY InitInv, InvStep, InitPlacing, PlacingStep, RegionsStep, PTL DEF Spec

-----------------------------------------------------------------------------
(* Where an import of the compiled objects is while the lists are built,   *)
(* searched and reported: among the defined names, in the undefined list,  *)
(* or still ahead of the loop that will put it there.                      *)
Open == defined_symbols \cup ToSet(undefined_symbols)

Collecting ==
  /\ stage = "start" => obj = 1 /\ item = 1
  /\ stage \in {"start", "collect"} => objects = compiled
  /\ stage = "collect" =>
       /\ \A c \in 1..(obj-1) : ToSet(objects[c].imports) \subseteq Open
       /\ obj <= Len(objects) => \A i \in 1..(item-1) : objects[obj].imports[i] \in Open

Filtering ==
  /\ stage \notin {"start", "collect", "failed"} => UserImports \subseteq Open
  /\ stage = "filter" =>
       \A i \in 1..(item-1) : undefined_symbols[i] \in defined_symbols \cup ToSet(still_undefined)

DefinedBacked == defined_symbols \subseteq UNION {Exports(objects[k]) : k \in DOMAIN objects}

Reporting ==
  /\ stage = "report" => \A i \in 1..(item-1) : Settled(undefined_symbols[i])
  /\ stage \in {"write", "linked"} =>
       \A i \in 1..Len(undefined_symbols) : Settled(undefined_symbols[i])

LEMMA DefinedBackedStep == Inv /\ DefinedBacked /\ [Next]_vars => DefinedBacked'
<1> SUFFICES ASSUME Inv, DefinedBacked, [Next]_vars PROVE DefinedBacked'
  OBVIOUS
<1> USE DEF DefinedBacked
<1>1. CASE UNCHANGED <<objects, defined_symbols>>
  BY <1>1 DEF Exports
<1>2. CASE DefineCompiled
  BY <1>2 DEF DefineCompiled, Exports
<1>3. CASE AbsorbMember
  <2> DEFINE o == archive.member[result[item]]
  <2>1. IsObject(o)
    BY <1>3, Lengths DEF AbsorbMember, Inv, TypeOK, MembersOK, CursorsOK
  <2>2. /\ ObjectsOK' /\ Len(objects') = Len(objects) + 1
        /\ \A k \in 1..Len(objects) : objects'[k] = objects[k]
        /\ objects'[Len(objects) + 1] = o
    BY <1>3, <2>1, AppendObject DEF AbsorbMember, WithMember, Inv, TypeOK
  <2>3. /\ Len(objects) \in Nat /\ DOMAIN objects = 1..Len(objects)
        /\ DOMAIN objects' = 1..(Len(objects) + 1)
    BY <2>2, Lengths, LenProperties DEF ObjectsOK
  <2>4. defined_symbols' = defined_symbols \cup Exports(o)
    BY <1>3 DEF AbsorbMember
  <2>5. Exports(objects'[Len(objects) + 1]) = Exports(o)
    BY <2>2
  <2> HIDE DEF o
  <2> QED BY <2>2, <2>3, <2>4, <2>5 DEF Exports
<1>4. CASE Search /\ ~AbsorbMember
  BY <1>1, <1>4 DEF Search, Select, SkipLibrary, OpenLibrary, SelectSymbol, NothingSelected,
     CallExtract, Extract, EndExtract, EndAbsorb, FilterSymbol, EndFilter, EndSearch, tables
<1>5. CASE (Refuse \/ Collect) /\ ~DefineCompiled
  BY <1>1, <1>5 DEF Refuse, Collect, CollectImport, CollectNext, EndCollect, tables
<1> QED BY <1>1, <1>2, <1>3, <1>4, <1>5, PlaceKeeps, ReportKeeps DEF Next, vars, tables

LEMMA CollectingStep == Inv /\ Collecting /\ [Next]_vars => Collecting'
<1> SUFFICES ASSUME Inv, Collecting, [Next]_vars PROVE Collecting'
  OBVIOUS
<1>0. /\ Len(objects) \in Nat /\ obj \in Nat /\ item \in Nat \ {0} /\ obj >= 1
      /\ undefined_symbols \in Seq(Name)
      /\ \A k \in 1..Len(objects) : objects[k].imports \in Seq(Name)
  BY Lengths DEF Inv, TypeOK, CursorsOK, NamesOK, IsObject
<1>1. CASE DefineCompiled
  BY <1>0, <1>1 DEF DefineCompiled, Collecting, input
<1>2. CASE CollectImport
  <2> DEFINE imp == objects[obj].imports[item]
  <2>1. imp \in Name
    <3>1. item \in 1..Len(objects[obj].imports) /\ obj \in 1..Len(objects)
      BY <1>0, <1>2, LenProperties DEF CollectImport
    <3> QED BY <1>0, <3>1, ElementOfSeq
  <2>2. Open \subseteq Open' /\ imp \in Open'
    BY <1>0, <1>2, <2>1, ToSetAppend DEF CollectImport, Open
  <2>3. UNCHANGED <<input, objects, obj, stage>> /\ item' = item + 1 /\ stage = "collect"
    BY <1>2 DEF CollectImport
  <2> QED BY <1>0, <2>2, <2>3 DEF Collecting, input
<1>3. CASE CollectNext
  <2>1. \A i \in 1..(item-1) : objects[obj].imports[i] \in Open
    BY <1>3 DEF CollectNext, Collecting
  <2>2. ToSet(objects[obj].imports) \subseteq Open
    <3>1. objects[obj].imports \in Seq(Name)
      BY <1>0, <1>3 DEF CollectNext
    <3>2. /\ DOMAIN objects[obj].imports = 1..Len(objects[obj].imports)
          /\ Len(objects[obj].imports) \in Nat
      BY <3>1, LenProperties
    <3> QED BY <1>0, <1>3, <2>1, <3>2 DEF CollectNext, ToSet
  <2>3. UNCHANGED <<input, tables, stage>> /\ obj' = obj + 1 /\ item' = 1 /\ stage = "collect"
    BY <1>3 DEF CollectNext
  <2>4. Open' = Open
    BY <2>3 DEF Open, tables
  <2> QED BY <1>0, <2>2, <2>3, <2>4 DEF Collecting, input, tables
<1>4. CASE stage' \notin {"start", "collect"}
  BY <1>4 DEF Collecting
<1>5. CASE UNCHANGED vars
  BY <1>5 DEF Collecting, vars, input, tables, cursors, Open
<1>6. CASE Search \/ Place \/ Report \/ WriteImage \/ Refuse \/ EndCollect
  <2>1. stage' \notin {"start", "collect"}
    BY <1>6 DEF Search, Select, SkipLibrary, OpenLibrary, SelectSymbol, NothingSelected, CallExtract,
       Extract, EndExtract, AbsorbMember, EndAbsorb, FilterSymbol, EndFilter, EndSearch,
       Place, PlaceObject, CollectDllImport, NextObject, EndPlace, Report, SkipSettled, FallBack,
       ReportUnresolved, EndReport, WriteImage, Refuse, EndCollect
  <2> QED BY <2>1, <1>4
<1> QED BY <1>1, <1>2, <1>3, <1>5, <1>6 DEF Next, Collect

(* When the collecting loop ends, every import has been through it.        *)
LEMMA AllCollected ==
  ASSUME Inv, Collecting, EndCollect PROVE UserImports \subseteq Open
<1>1. objects = compiled /\ obj > Len(objects) /\ obj \in Nat
  BY DEF EndCollect, Collecting, Inv, TypeOK, CursorsOK
<1>2. DOMAIN compiled = 1..Len(compiled) /\ Len(compiled) \in Nat
  BY LenProperties DEF Inv, TypeOK, InputOK
<1>3. \A c \in DOMAIN compiled : ToSet(compiled[c].imports) \subseteq Open
  BY <1>1, <1>2 DEF EndCollect, Collecting
<1> QED BY <1>3 DEF UserImports

LEMMA FilteringStep == Inv /\ Collecting /\ Filtering /\ [Next]_vars => Filtering'
<1> SUFFICES ASSUME Inv, Collecting, Filtering, [Next]_vars PROVE Filtering'
  OBVIOUS
<1>0. /\ item \in Nat \ {0} /\ undefined_symbols \in Seq(Name) /\ still_undefined \in Seq(Name)
      /\ Len(undefined_symbols) \in Nat /\ DOMAIN undefined_symbols = 1..Len(undefined_symbols)
  BY LenProperties DEF Inv, TypeOK, CursorsOK, NamesOK
<1> USE DEF Filtering
<1>1. ASSUME UNCHANGED <<input, defined_symbols, undefined_symbols>>,
             stage \notin {"start", "collect", "failed"}, stage' # "filter"
      PROVE  Filtering'
  BY <1>1 DEF Open, UserImports, input
<1>2. CASE DefineCompiled \/ CollectImport \/ CollectNext \/ Refuse
  BY <1>2 DEF DefineCompiled, CollectImport, CollectNext, Refuse
<1>3. CASE EndCollect
  <2>1. ToSet(undefined_symbols') = ToSet(undefined_symbols)
    <3> DEFINE twice == undefined_symbols \o undefined_symbols
    <3>1. ToSet(twice) = ToSet(undefined_symbols)
      <4>1. ToSet(twice) = ToSet(undefined_symbols) \cup ToSet(undefined_symbols)
        BY <1>0, ToSetConcat, ZenonT(60)
      <4> QED BY <4>1
    <3>2. undefined_symbols' = undefined_symbols \/ undefined_symbols' = twice
      BY <1>3 DEF EndCollect
    <3> HIDE DEF twice
    <3> QED BY <3>1, <3>2
  <2>2. UNCHANGED <<input, defined_symbols>> /\ stage' # "filter"
    BY <1>3 DEF EndCollect
  <2> QED BY <2>1, <2>2, <1>3, AllCollected DEF Open, UserImports, input
<1>4. CASE AbsorbMember
  BY <1>4 DEF AbsorbMember, Open, UserImports, input
<1>5. CASE EndAbsorb
  BY <1>5 DEF EndAbsorb, Open, UserImports, input
<1>6. CASE FilterSymbol
  <2>1. /\ UNCHANGED <<input, defined_symbols, undefined_symbols>>
        /\ stage = "filter" /\ stage' = "filter" /\ item' = item + 1
    BY <1>6 DEF FilterSymbol
  <2>2. undefined_symbols[item] \in Name
    BY <1>6, Lengths DEF FilterSymbol, Inv, TypeOK, CursorsOK
  <2>3. /\ ToSet(still_undefined) \subseteq ToSet(still_undefined')
        /\ undefined_symbols[item] \in defined_symbols \cup ToSet(still_undefined')
    BY <1>0, <1>6, <2>2, ToSetAppend DEF FilterSymbol, Drops
  <2> QED BY <1>0, <2>1, <2>3 DEF Open, UserImports, input
<1>7. CASE EndFilter
  <2>1. /\ UNCHANGED <<input, defined_symbols>> /\ undefined_symbols' = still_undefined
        /\ stage = "filter" /\ stage' = "search" /\ item > Len(undefined_symbols)
    BY <1>7 DEF EndFilter
  <2>2. ToSet(undefined_symbols) \subseteq defined_symbols \cup ToSet(still_undefined)
    BY <1>0, <2>1 DEF ToSet
  <2> QED BY <2>1, <2>2 DEF Open, UserImports, input
<1>8. CASE Search /\ ~AbsorbMember /\ ~EndAbsorb /\ ~FilterSymbol /\ ~EndFilter
  <2>1. /\ UNCHANGED <<input, defined_symbols, undefined_symbols>> /\ stage' # "filter"
        /\ stage \notin {"start", "collect", "failed"}
    BY <1>8 DEF Search, Select, SkipLibrary, OpenLibrary, SelectSymbol, NothingSelected,
                CallExtract, Extract, EndExtract, EndSearch, tables
  <2> QED BY <1>1, <2>1
<1>9. CASE Place \/ Report \/ WriteImage
  <2>1. /\ UNCHANGED <<input, defined_symbols, undefined_symbols>> /\ stage' # "filter"
        /\ stage \notin {"start", "collect", "failed"}
    BY <1>9 DEF Place, PlaceObject, CollectDllImport, NextObject, EndPlace, Report, SkipSettled,
                FallBack, ReportUnresolved, EndReport, WriteImage, tables
  <2> QED BY <1>1, <2>1
<1>10. CASE UNCHANGED vars
  BY <1>10 DEF vars, input, tables, cursors, Open, UserImports
<1> QED BY <1>2, <1>3, <1>4, <1>5, <1>6, <1>7, <1>8, <1>9, <1>10 DEF Next, Collect, Search

LEMMA ReportingStep == Inv /\ Reporting /\ [Next]_vars => Reporting'
<1> SUFFICES ASSUME Inv, Reporting, [Next]_vars PROVE Reporting'
  OBVIOUS
<1>0. item \in Nat \ {0} /\ Len(undefined_symbols) \in Nat
  BY Lengths DEF Inv, TypeOK, CursorsOK
<1> USE DEF Reporting
<1>1. CASE Refuse \/ Collect \/ Search
  BY <1>1 DEF Refuse, Collect, DefineCompiled, CollectImport, CollectNext, EndCollect,
     Search, Select, SkipLibrary, OpenLibrary, SelectSymbol, NothingSelected, CallExtract,
     Extract, EndExtract, AbsorbMember, EndAbsorb, FilterSymbol, EndFilter, EndSearch
<1>2. CASE Place
  BY <1>0, <1>2 DEF Place, PlaceObject, CollectDllImport, NextObject, EndPlace
<1>3. CASE Report
  <2> DEFINE Told == DOMAIN globalSymbols \cup import_symbols \cup truly_unresolved
  <2>1. /\ stage = "report" /\ undefined_symbols' = undefined_symbols
        /\ Told \subseteq Told'
    BY <1>3 DEF Report, SkipSettled, FallBack, ReportUnresolved, EndReport, tables,
                layout, imports, verdict
  <2>2. \A i \in 1..(item-1) : undefined_symbols[i] \in Told
    BY <2>1 DEF Settled
  <2>3. CASE EndReport
    <3>1. stage' = "write" /\ item > Len(undefined_symbols)
      BY <2>3 DEF EndReport
    <3>2. \A i \in 1..Len(undefined_symbols) : undefined_symbols[i] \in Told'
      BY <1>0, <2>1, <2>2, <3>1
    <3> QED BY <2>1, <3>1, <3>2 DEF Settled
  <2>4. CASE ~EndReport
    <3>1. /\ stage' = "report" /\ item' = item + 1
          /\ undefined_symbols[item] \in Told'
      BY <1>3, <2>4 DEF Report, SkipSettled, FallBack, ReportUnresolved, Settled,
                        layout, imports, verdict
    <3>2. \A i \in 1..(item'-1) : undefined_symbols[i] \in Told'
      BY <1>0, <2>1, <2>2, <3>1
    <3> QED BY <2>1, <3>1, <3>2 DEF Settled
  <2> QED BY <2>3, <2>4
<1>4. CASE WriteImage
  BY <1>4 DEF WriteImage, Settled, tables, layout, imports
<1>5. CASE UNCHANGED vars
  BY <1>5 DEF vars, tables, cursors, layout, imports, verdict, Settled
<1> QED BY <1>1, <1>2, <1>3, <1>4, <1>5 DEF Next

(* At the end every import of the compiled objects has been settled.       *)
LEMMA AllSettled ==
  ASSUME Inv, Placing, FirstDefinitionWins, DefinedBacked, Filtering, Reporting,
         stage \in {"write", "linked"}
  PROVE  \A n \in UserImports : Settled(n)
<1>1. UserImports \subseteq Open
  BY DEF Filtering
<1>2. /\ DOMAIN objects = 1..Len(objects) /\ DOMAIN placed = 1..Len(placed)
      /\ Len(placed) = Len(objects)
      /\ DOMAIN undefined_symbols = 1..Len(undefined_symbols)
  BY LenProperties, Lengths DEF Placing, Inv, TypeOK, LayoutOK, NamesOK
<1>3. defined_symbols \subseteq DOMAIN globalSymbols
  BY <1>2 DEF DefinedBacked, FirstDefinitionWins
<1>4. \A s \in ToSet(undefined_symbols) : Settled(s)
  BY <1>2 DEF Reporting, ToSet
<1> QED BY <1>1, <1>3, <1>4 DEF Open, Settled

(* Every import of the compiled objects ends with an address, a DLL import *)
(* or a report, for every set of libraries: none drops out while the       *)
(* undefined list is filtered library by library                           *)
(* (linker.cpp:150-156, 251-256, 302-326).                                 *)
THEOREM ImportsAccounted == Spec => []UserImportsAccounted
<1> DEFINE Tracked == Inv /\ Placing /\ FirstDefinitionWins /\ DefinedBacked /\ Collecting
                      /\ Filtering /\ Reporting
<1>1. Init => Tracked
  <2> SUFFICES ASSUME Init PROVE Tracked
    OBVIOUS
  <2>1. DefinedBacked /\ Collecting /\ Filtering /\ Reporting
    BY DEF Init, DefinedBacked, Collecting, Filtering, Reporting
  <2> QED BY <2>1, InitInv, InitPlacing
<1>2. Tracked /\ [Next]_vars => Tracked'
  BY InvStep, PlacingStep, FirstDefinitionStep, DefinedBackedStep, CollectingStep, FilteringStep,
     ReportingStep
<1>3. Tracked => UserImportsAccounted
  <2> SUFFICES ASSUME Tracked PROVE UserImportsAccounted
    OBVIOUS
  <2>1. stage \notin {"start", "collect", "failed"} => UserImports \subseteq Open
    BY DEF Filtering
  <2>2. stage \in {"write", "linked"} => \A n \in UserImports : Settled(n)
    BY AllSettled
  <2> QED BY <2>1, <2>2 DEF UserImportsAccounted, Open
<1> HIDE DEF Tracked
<1> QED BY <1>1, <1>2, <1>3, PTL DEF Spec

-----------------------------------------------------------------------------
(* Only imports of the compiled objects come into the undefined lists.     *)
OnlyImports == ToSet(undefined_symbols) \cup ToSet(still_undefined) \subseteq UserImports

LEMMA OnlyImportsStep == Inv /\ Collecting /\ OnlyImports /\ [Next]_vars => OnlyImports'
<1> SUFFICES ASSUME Inv, Collecting, OnlyImports, [Next]_vars PROVE OnlyImports'
  OBVIOUS
<1>0. /\ item \in Nat \ {0} /\ obj \in Nat \ {0}
      /\ undefined_symbols \in Seq(Name) /\ still_undefined \in Seq(Name)
  BY DEF Inv, TypeOK, CursorsOK, NamesOK
<1> USE DEF OnlyImports
<1>1. UserImports' = UserImports
  <2>1. UNCHANGED input
    BY CollectKeeps, SearchKeeps, PlaceKeeps, ReportKeeps DEF Next, vars
  <2> QED BY <2>1 DEF UserImports, input
<1>2. CASE UNCHANGED <<undefined_symbols, still_undefined>>
  BY <1>1, <1>2
<1>3. CASE CollectImport
  <2> DEFINE imp == objects[obj].imports[item]
  <2>1. obj \in DOMAIN compiled /\ objects[obj] = compiled[obj] /\ IsObject(objects[obj])
    <3>1. objects = compiled /\ obj \in 1..Len(objects)
      BY <1>0, <1>3, Lengths DEF CollectImport, Collecting
    <3> QED BY <3>1, Lengths
  <2>2. item \in DOMAIN objects[obj].imports /\ imp \in Name
    <3>1. objects[obj].imports \in Seq(Name)
      BY <2>1 DEF IsObject
    <3>2. item \in 1..Len(objects[obj].imports)
      BY <1>0, <1>3, <3>1, LenProperties DEF CollectImport
    <3> QED BY <3>1, <3>2, ElementOfSeq, LenProperties
  <2>3. imp \in UserImports
    BY <2>1, <2>2 DEF UserImports, ToSet
  <2>4. /\ still_undefined' = still_undefined
        /\ undefined_symbols' \in {undefined_symbols, Append(undefined_symbols, imp)}
    BY <1>3 DEF CollectImport
  <2>5. ToSet(Append(undefined_symbols, imp)) = ToSet(undefined_symbols) \cup {imp}
    BY <1>0, <2>2, ToSetAppend
  <2> HIDE DEF imp
  <2> QED BY <1>1, <2>3, <2>4, <2>5
<1>4. CASE EndCollect
  <2>1. ToSet(undefined_symbols \o undefined_symbols) = ToSet(undefined_symbols)
    <3>1. ToSet(undefined_symbols \o undefined_symbols)
            = ToSet(undefined_symbols) \cup ToSet(undefined_symbols)
      BY <1>0, ToSetConcat, ZenonT(60)
    <3> QED BY <3>1
  <2>2. /\ still_undefined' = still_undefined
        /\ \/ undefined_symbols' = undefined_symbols
           \/ undefined_symbols' = undefined_symbols \o undefined_symbols
    BY <1>4 DEF EndCollect
  <2> QED BY <1>1, <2>1, <2>2
<1>5. CASE EndAbsorb
  BY <1>1, <1>5, ToSetEmpty DEF EndAbsorb
<1>6. CASE FilterSymbol
  <2>1. undefined_symbols[item] \in Name /\ undefined_symbols[item] \in ToSet(undefined_symbols)
    <3>1. item \in DOMAIN undefined_symbols
      BY <1>0, <1>6, LenProperties DEF FilterSymbol
    <3> QED BY <1>0, <3>1, ElementOfSeq, LenProperties DEF ToSet
  <2>2. /\ undefined_symbols' = undefined_symbols
        /\ still_undefined' \in {still_undefined, Append(still_undefined, undefined_symbols[item])}
    BY <1>6 DEF FilterSymbol
  <2>3. ToSet(Append(still_undefined, undefined_symbols[item]))
          = ToSet(still_undefined) \cup {undefined_symbols[item]}
    BY <1>0, <2>1, ToSetAppend
  <2> QED BY <1>1, <2>1, <2>2, <2>3
<1>7. CASE EndFilter
  BY <1>1, <1>7 DEF EndFilter
<1>8. CASE (Refuse \/ Collect) /\ ~CollectImport /\ ~EndCollect
  BY <1>2, <1>8 DEF Refuse, Collect, DefineCompiled, CollectNext, tables
<1>9. CASE Search /\ ~EndAbsorb /\ ~FilterSymbol /\ ~EndFilter
  BY <1>2, <1>9 DEF Search, Select, SkipLibrary, OpenLibrary, SelectSymbol, NothingSelected,
     CallExtract, Extract, EndExtract, AbsorbMember, EndSearch, tables
<1>10. CASE Place \/ Report \/ WriteImage \/ UNCHANGED vars
  BY <1>2, <1>10, PlaceKeeps, ReportKeeps DEF vars, tables
<1> QED BY <1>3, <1>4, <1>5, <1>6, <1>7, <1>8, <1>9, <1>10 DEF Next

(* Nothing is called unresolved before the report, and what the report     *)
(* calls unresolved was settled by nothing before it.                      *)
BeforeReport == BeforePlacing \cup {"place", "imports"}
Unresolved ==
  /\ stage \in BeforeReport => truly_unresolved = {}
  /\ stage \in BeforeReport \cup {"report"} => "unresolved" \notin warnings
  /\ stage \in {"write", "linked"} => ("unresolved" \in warnings <=> truly_unresolved # {})
  /\ truly_unresolved \subseteq ToSet(undefined_symbols)
  /\ truly_unresolved \cap (DOMAIN globalSymbols \cup import_symbols) = {}

LEMMA UnresolvedStep == Inv /\ Unresolved /\ [Next]_vars => Unresolved'
<1> SUFFICES ASSUME Inv, Unresolved, [Next]_vars PROVE Unresolved'
  OBVIOUS
<1>1. ASSUME stage \in BeforeReport, UNCHANGED truly_unresolved,
             stage' \in BeforeReport \cup {"report"},
             warnings' = warnings \/ warnings' = warnings \cup {"library"}
      PROVE  Unresolved'
  BY <1>1 DEF Unresolved, BeforeReport, BeforePlacing, Searching
<1>2. CASE Refuse \/ Collect
  BY <1>1, <1>2 DEF Refuse, Collect, DefineCompiled, CollectImport, CollectNext, EndCollect,
     BeforeReport, BeforePlacing, Searching, verdict
<1>3. CASE Search
  BY <1>1, <1>3 DEF Search, Select, SkipLibrary, OpenLibrary, SelectSymbol, NothingSelected,
     CallExtract, Extract, EndExtract, AbsorbMember, EndAbsorb, FilterSymbol, EndFilter, EndSearch,
     BeforeReport, BeforePlacing, Searching, verdict
<1>4. CASE Place
  BY <1>1, <1>4 DEF Place, PlaceObject, CollectDllImport, NextObject, EndPlace,
     BeforeReport, BeforePlacing, Searching, verdict
<1>5. CASE SkipSettled
  BY <1>5 DEF SkipSettled, Unresolved, tables, layout, imports, verdict
<1>6. ASSUME NEW dll, NEW ordinals, FallBack(dll, ordinals) PROVE Unresolved'
  <2>1. /\ import_symbols' = import_symbols \cup {undefined_symbols[item]}
        /\ undefined_symbols[item] \notin truly_unresolved
        /\ UNCHANGED <<stage, tables, layout, verdict>>
    BY <1>6 DEF FallBack, Settled
  <2> QED BY <2>1 DEF Unresolved, tables, layout, verdict
<1>7. CASE ReportUnresolved
  <2>1. undefined_symbols[item] \in ToSet(undefined_symbols)
    <3>1. item \in DOMAIN undefined_symbols
      BY <1>7, LenProperties DEF ReportUnresolved, Inv, TypeOK, CursorsOK, NamesOK
    <3> QED BY <3>1 DEF ToSet
  <2>2. /\ truly_unresolved' = truly_unresolved \cup {undefined_symbols[item]}
        /\ undefined_symbols[item] \notin DOMAIN globalSymbols \cup import_symbols
        /\ stage = "report" /\ UNCHANGED <<stage, warnings, tables, layout, imports>>
    BY <1>7 DEF ReportUnresolved, Settled
  <2> QED BY <2>1, <2>2 DEF Unresolved, BeforeReport, BeforePlacing, Searching, tables, layout, imports
<1>8. CASE EndReport
  <2>1. /\ stage = "report" /\ stage' = "write"
        /\ UNCHANGED <<tables, layout, import_symbols, truly_unresolved>>
    BY <1>8 DEF EndReport
  <2>2. "unresolved" \in warnings' <=> truly_unresolved # {}
    BY <1>8 DEF EndReport, Unresolved
  <2> QED BY <2>1, <2>2 DEF Unresolved, BeforeReport, BeforePlacing, Searching, tables, layout
<1>9. CASE WriteImage
  BY <1>9 DEF WriteImage, Unresolved, BeforeReport, BeforePlacing, Searching, tables, layout, imports
<1>10. CASE UNCHANGED vars
  BY <1>10 DEF vars, tables, cursors, layout, imports, verdict, Unresolved
<1> QED BY <1>2, <1>3, <1>4, <1>5, <1>6, <1>7, <1>8, <1>9, <1>10 DEF Next, Report

(* What link() counts as unresolved really has neither an address nor a    *)
(* DLL import, and without the warning every import of the compiled        *)
(* objects has one of them (linker.cpp:302-328).                           *)
THEOREM ReportAlwaysRight == Spec => []ReportIsRight
<1> DEFINE Tracked == /\ Inv /\ Placing /\ FirstDefinitionWins /\ DefinedBacked /\ Collecting
                      /\ Filtering /\ Reporting /\ OnlyImports /\ Unresolved
<1>1. Init => Tracked
  <2> SUFFICES ASSUME Init PROVE Tracked
    OBVIOUS
  <2>1. DefinedBacked /\ Collecting /\ Filtering /\ Reporting
    BY DEF Init, DefinedBacked, Collecting, Filtering, Reporting
  <2>2. OnlyImports /\ Unresolved
    BY ToSetEmpty DEF Init, OnlyImports, Unresolved
  <2> QED BY <2>1, <2>2, InitInv, InitPlacing
<1>2. Tracked /\ [Next]_vars => Tracked'
  BY InvStep, PlacingStep, FirstDefinitionStep, DefinedBackedStep, CollectingStep, FilteringStep,
     ReportingStep, OnlyImportsStep, UnresolvedStep
<1>3. Tracked => ReportIsRight
  <2> SUFFICES ASSUME Tracked PROVE ReportIsRight
    OBVIOUS
  <2>1. ASSUME stage \in {"write", "linked"}
        PROVE  "unresolved" \notin warnings
                 <=> UserImports \subseteq DOMAIN globalSymbols \cup import_symbols
    <3>1. UserImports \subseteq DOMAIN globalSymbols \cup import_symbols \cup truly_unresolved
      BY <2>1, AllSettled DEF Settled
    <3>2. truly_unresolved \subseteq UserImports
      BY DEF Unresolved, OnlyImports
    <3> QED BY <2>1, <3>1, <3>2 DEF Unresolved
  <2> QED BY <2>1 DEF ReportIsRight, Unresolved
<1> HIDE DEF Tracked
<1> QED BY <1>1, <1>2, <1>3, PTL DEF Spec

-----------------------------------------------------------------------------
(* Sorting a module's entries loses none: the positions they are taken     *)
(* from are as many as there are.                                          *)
LEMMA SortedFormsKeep ==
  ASSUME NEW entries \in Seq(DllImports), NEW t \in SortedForms(entries)
  PROVE  ToSet(t) = ToSet(entries)
<1> DEFINE n == Len(entries)
<1>1. n \in Nat /\ DOMAIN entries = 1..n
  BY LenProperties
<1>2. PICK p \in [1..n -> 1..n] : /\ t = [i \in 1..n |-> entries[p[i]]]
                                  /\ \A i, j \in 1..n : i # j => p[i] # p[j]
  BY <1>1 DEF SortedForms
<1>3. p \in Injection(1..n, 1..n)
  BY <1>2 DEF Injection, IsInjective
<1>4. IsFiniteSet(1..n)
  BY <1>1, FS_Interval
<1>5. p \in Surjection(1..n, 1..n)
  BY <1>3, <1>4, FS_Injection
<1>6. \A j \in 1..n : \E i \in 1..n : p[i] = j
  BY <1>5 DEF Surjection
<1>7. DOMAIN t = 1..n /\ \A i \in 1..n : t[i] = entries[p[i]] /\ p[i] \in 1..n
  BY <1>2
<1>8. ASSUME NEW j \in 1..n PROVE entries[j] \in ToSet(t)
  <2>1. PICK i \in 1..n : p[i] = j
    BY <1>6
  <2> QED BY <1>7, <2>1 DEF ToSet
<1>9. ASSUME NEW i \in 1..n PROVE t[i] \in ToSet(entries)
  BY <1>1, <1>7 DEF ToSet
<1> QED BY <1>1, <1>7, <1>8, <1>9 DEF ToSet

(* While DLL imports are collected, no module has an ordinal twice, and    *)
(* every import definition the loop has passed has an entry; what comes    *)
(* after leaves the entries in.                                            *)
Imported(k) == \A i \in DOMAIN objects[k].dll_imports : Known(objects[k].dll_imports[i])
Importing ==
  /\ stage \in BeforePlacing => importModules = << >>
  /\ stage \in {"place", "imports"} =>
       /\ \A d \in DOMAIN importModules : DistinctIn(importModules[d])
       /\ \A k \in 1..(obj-1) : Imported(k)
  /\ stage = "imports" => \A i \in 1..(item-1) : Known(objects[obj].dll_imports[i])
  /\ stage \in {"report", "write", "linked"} => \A k \in DOMAIN objects : Imported(k)

(* A module that gets more entries still answers for what it had, and no   *)
(* other module changes.                                                   *)
LEMMA EntriesGrow ==
  ASSUME NEW dll, NEW entries, SetEntries(dll, entries), ToSet(Entries(dll)) \subseteq ToSet(entries)
  PROVE  \A d : ToSet(Entries(d)) \subseteq ToSet(Entries(d)')
<1> TAKE d
<1>1. CASE d = dll
  BY <1>1 DEF SetEntries, Entries
<1>2. CASE d # dll
  BY <1>2 DEF SetEntries, Entries
<1> QED BY <1>1, <1>2

(* An entry that is appended because its ordinal is new leaves the         *)
(* ordinals distinct.                                                      *)
LEMMA AppendDistinct ==
  ASSUME NEW S, NEW s \in Seq(S), NEW e \in S, DistinctIn(s),
         \A x \in ToSet(s) : x.ordinal # e.ordinal
  PROVE  DistinctIn(Append(s, e))
<1>1. /\ Append(s, e) \in Seq(S) /\ Len(Append(s, e)) = Len(s) + 1
      /\ \A i \in 1..Len(s) : Append(s, e)[i] = s[i]
      /\ Append(s, e)[Len(s) + 1] = e
  BY AppendProperties
<1>2. /\ Len(s) \in Nat /\ DOMAIN s = 1..Len(s)
      /\ DOMAIN Append(s, e) = 1..(Len(s) + 1)
  BY <1>1, LenProperties
<1>3. \A i \in 1..Len(s) : s[i].ordinal # e.ordinal
  BY <1>2 DEF ToSet
<1> QED BY <1>1, <1>2, <1>3 DEF DistinctIn

(* What a step that leaves the import modules and the objects alone, or    *)
(* lets the modules grow, keeps.                                           *)
LEMMA ImportedKept ==
  ASSUME UNCHANGED objects, \A d : ToSet(Entries(d)) \subseteq ToSet(Entries(d)')
  PROVE  /\ \A imp : Known(imp) => (\E e \in ToSet(Entries(imp.dll)') : e.ordinal = imp.ordinal)
         /\ \A k : Imported(k) => Imported(k)'
BY DEF Imported, Known

LEMMA ImportingStep == Inv /\ Placing /\ Importing /\ [Next]_vars => Importing'
<1> SUFFICES ASSUME Inv, Placing, Importing, [Next]_vars PROVE Importing'
  OBVIOUS
<1>0. /\ item \in Nat \ {0} /\ obj \in Nat \ {0}
      /\ Len(objects) \in Nat /\ DOMAIN objects = 1..Len(objects)
      /\ \A k \in 1..Len(objects) : IsObject(objects[k])
  BY Lengths DEF Inv, TypeOK, CursorsOK
<1>1. ASSUME NEW k \in 1..Len(objects)
      PROVE  /\ Len(objects[k].dll_imports) \in Nat
             /\ DOMAIN objects[k].dll_imports = 1..Len(objects[k].dll_imports)
  <2>1. objects[k].dll_imports \in Seq([symbol : Name, dll : Dll, ordinal : Nat])
    BY <1>0 DEF IsObject
  <2> QED BY <2>1, LenProperties
<1>2. CASE Refuse \/ Collect
  <2>1. /\ UNCHANGED <<objects, imports>> /\ stage \in BeforePlacing
        /\ stage' \in BeforePlacing \cup {"place"} /\ (stage' = "place" => obj' = 1)
    BY <1>2 DEF Refuse, Collect, DefineCompiled, CollectImport, CollectNext, EndCollect, tables,
       BeforePlacing, Searching
  <2>2. DOMAIN importModules' = {}
    BY <2>1, EmptySeq, LenProperties DEF Importing, imports
  <2> QED BY <2>1, <2>2 DEF Importing, imports, BeforePlacing, Searching
<1>3. CASE Search
  <2>1. /\ UNCHANGED <<obj, imports>> /\ stage \in Searching /\ obj = 1
        /\ stage' \in Searching \cup {"place"}
    BY <1>3, SearchKeeps DEF Placing, Search, Select, SkipLibrary, OpenLibrary, SelectSymbol,
       NothingSelected, CallExtract, Extract, EndExtract, AbsorbMember, EndAbsorb, FilterSymbol,
       EndFilter, EndSearch, Searching
  <2>2. DOMAIN importModules' = {}
    BY <2>1, EmptySeq, LenProperties DEF Importing, imports, BeforePlacing
  <2> QED BY <2>1, <2>2 DEF Importing, imports, BeforePlacing, Searching
<1>4. CASE PlaceObject
  <2>1. /\ UNCHANGED <<objects, imports, obj>> /\ stage = "place" /\ stage' = "imports" /\ item' = 1
    BY <1>4 DEF PlaceObject, tables
  <2> QED BY <2>1 DEF Importing, imports, BeforePlacing, Searching, Imported, Known, Entries
<1>5. CASE CollectDllImport
  <2> DEFINE imp == objects[obj].dll_imports[item]
             entry == [symbol |-> imp.symbol, ordinal |-> imp.ordinal]
             entries == IF Known(imp) THEN Entries(imp.dll) ELSE Append(Entries(imp.dll), entry)
  <2>1. /\ UNCHANGED <<objects, obj, stage>> /\ stage = "imports" /\ item' = item + 1
        /\ SetEntries(imp.dll, entries) /\ obj \in 1..Len(objects)
    BY <1>0, <1>5 DEF CollectDllImport, tables, Inv, InLoops
  <2>2. imp.dll \in Dll /\ entry \in DllImports
    <3>1. objects[obj].dll_imports \in Seq([symbol : Name, dll : Dll, ordinal : Nat])
      BY <1>0, <2>1 DEF IsObject
    <3>2. item \in 1..Len(objects[obj].dll_imports)
      BY <1>0, <1>1, <1>5, <2>1 DEF CollectDllImport
    <3>3. imp \in [symbol : Name, dll : Dll, ordinal : Nat]
      BY <3>1, <3>2, ElementOfSeq
    <3> QED BY <3>3 DEF DllImports
  <2>3. Entries(imp.dll) \in Seq(DllImports)
    BY <2>2, EntriesTyped DEF Inv, TypeOK
  <2>4. /\ ToSet(Entries(imp.dll)) \subseteq ToSet(entries)
        /\ \E e \in ToSet(entries) : e.ordinal = imp.ordinal
    <3>1. CASE Known(imp)
      BY <3>1 DEF Known
    <3>2. CASE ~Known(imp)
      BY <2>2, <2>3, <3>2, ToSetAppend
    <3> QED BY <3>1, <3>2
  <2>5. DistinctIn(entries)
    <3>1. DistinctIn(Entries(imp.dll))
      <4>1. CASE imp.dll \in DOMAIN importModules
        BY <2>1, <4>1 DEF Importing, Entries
      <4>2. CASE imp.dll \notin DOMAIN importModules
        BY <4>2, EmptySeq, LenProperties DEF Entries, DistinctIn
      <4> QED BY <4>1, <4>2
    <3>2. CASE Known(imp)
      BY <3>1, <3>2
    <3>3. CASE ~Known(imp)
      <4>1. \A x \in ToSet(Entries(imp.dll)) : x.ordinal # entry.ordinal
        BY <3>3 DEF Known
      <4> HIDE DEF entry
      <4>2. DistinctIn(Append(Entries(imp.dll), entry))
        BY <2>2, <2>3, <3>1, <4>1, AppendDistinct
      <4> QED BY <3>3, <4>2
    <3> QED BY <3>2, <3>3
  <2> HIDE DEF entries
  <2>6. \A d : ToSet(Entries(d)) \subseteq ToSet(Entries(d)')
    BY <2>1, <2>4, EntriesGrow
  <2>7. \A d \in DOMAIN importModules' : DistinctIn(importModules'[d])
    BY <2>1, <2>5 DEF SetEntries, Importing
  <2>8. \A d : d = imp.dll => Entries(d)' = entries
    BY <2>1 DEF SetEntries, Entries
  <2>9. ASSUME NEW i \in 1..item, NEW m, m = objects[obj].dll_imports[i]
        PROVE  \E e \in ToSet(Entries(m.dll)') : e.ordinal = m.ordinal
    <3>1. CASE i = item
      <4>1. Entries(m.dll)' = entries /\ m.ordinal = imp.ordinal
        BY <2>8, <2>9, <3>1
      <4> QED BY <2>4, <4>1
    <3>2. CASE i # item
      <4>1. i \in 1..(item-1)
        BY <1>0, <3>2
      <4>2. Known(m)
        BY <2>1, <2>9, <4>1 DEF Importing
      <4> QED BY <2>6, <4>2 DEF Known
    <3> QED BY <3>1, <3>2
  <2>10. \A i \in 1..item : Known(objects[obj].dll_imports[i])'
    BY <2>1, <2>9 DEF Known
  <2>11. \A k \in 1..(obj-1) : Imported(k)'
    BY <2>1, <2>6, ImportedKept DEF Importing
  <2> QED BY <1>0, <2>1, <2>7, <2>10, <2>11 DEF Importing, BeforePlacing, Searching
<1>6. CASE NextObject
  <2>1. /\ UNCHANGED <<objects, imports>> /\ stage = "imports" /\ stage' = "place" /\ obj' = obj + 1
        /\ item > Len(objects[obj].dll_imports) /\ obj \in 1..Len(objects)
    BY <1>0, <1>6 DEF NextObject, tables, Inv, InLoops
  <2>2. Imported(obj)
    <3> DEFINE n == Len(objects[obj].dll_imports)
    <3>1. n \in Nat /\ DOMAIN objects[obj].dll_imports = 1..n
      BY <1>1, <2>1
    <3>2. item > n /\ \A i \in 1..(item-1) : Known(objects[obj].dll_imports[i])
      BY <2>1 DEF Importing
    <3> HIDE DEF n
    <3>3. 1..n \subseteq 1..(item-1)
      BY <1>0, <3>1, <3>2
    <3> QED BY <3>1, <3>2, <3>3 DEF Imported
  <2>3. \A k \in 1..obj : Imported(k)
    BY <1>0, <2>1, <2>2 DEF Importing
  <2> QED BY <1>0, <2>1, <2>3 DEF Importing, imports, BeforePlacing, Searching, Imported, Known, Entries
<1>7. CASE EndPlace
  <2>1. /\ UNCHANGED <<objects, imports>> /\ stage = "place" /\ stage' = "report"
        /\ obj > Len(objects)
    BY <1>7 DEF EndPlace, tables
  <2> QED BY <1>0, <2>1 DEF Importing, imports, BeforePlacing, Searching, Imported, Known, Entries
<1>8. ASSUME UNCHANGED objects, stage \in {"report", "write", "linked"},
             stage' \in {"report", "write", "linked"},
             \A d : ToSet(Entries(d)) \subseteq ToSet(Entries(d)')
      PROVE  Importing'
  BY <1>8, ImportedKept DEF Importing, BeforePlacing, Searching
<1>9. CASE SkipSettled \/ ReportUnresolved \/ WriteImage
  <2>1. /\ UNCHANGED <<objects, imports>> /\ stage \in {"report", "write"}
        /\ stage' \in {"report", "linked"}
    BY <1>9 DEF SkipSettled, ReportUnresolved, WriteImage, tables
  <2>2. \A d : ToSet(Entries(d)) \subseteq ToSet(Entries(d)')
    BY <2>1 DEF Entries, imports
  <2> QED BY <1>8, <2>1, <2>2
<1>10. ASSUME NEW dll \in Dll, NEW ordinals, FallBack(dll, ordinals), DOMAIN ordinals \subseteq Base,
             \A b \in DOMAIN ordinals : ordinals[b] \in Nat \ {0}
      PROVE  Importing'
  <2> DEFINE sym == undefined_symbols[item]
             entry == [symbol |-> sym, ordinal |-> FindKernelOrdinal(sym, ordinals)]
  <2>1. /\ UNCHANGED objects /\ stage = "report" /\ stage' = "report"
        /\ SetEntries(dll, Append(Entries(dll), entry))
    BY <1>10 DEF FallBack, tables
  <2>2. entry \in DllImports /\ Entries(dll) \in Seq(DllImports)
    <3>1. sym \in Name
      BY <1>10, Lengths DEF FallBack, Inv, TypeOK, CursorsOK
    <3>2. FindKernelOrdinal(sym, ordinals) \in Nat
      BY <1>10 DEF FindKernelOrdinal
    <3> QED BY <1>10, <3>1, <3>2, EntriesTyped DEF DllImports, Inv, TypeOK
  <2>3. ToSet(Entries(dll)) \subseteq ToSet(Append(Entries(dll), entry))
    BY <2>2, ToSetAppend
  <2>4. \A d : ToSet(Entries(d)) \subseteq ToSet(Entries(d)')
    BY <2>1, <2>3, EntriesGrow
  <2> QED BY <1>8, <2>1, <2>4
<1>11. CASE EndReport
  <2>1. /\ UNCHANGED objects /\ stage = "report" /\ stage' = "write"
        /\ DOMAIN importModules' = DOMAIN importModules
        /\ \A d \in DOMAIN importModules : importModules'[d] \in SortedForms(importModules[d])
    BY <1>11 DEF EndReport, tables
  <2>2. \A d \in DOMAIN importModules : ToSet(importModules'[d]) = ToSet(importModules[d])
    BY <2>1, SortedFormsKeep DEF Inv, TypeOK, ImportsOK
  <2>3. \A d : ToSet(Entries(d)) \subseteq ToSet(Entries(d)')
    BY <2>1, <2>2 DEF Entries
  <2> QED BY <1>8, <2>1, <2>3
<1>12. CASE UNCHANGED vars
  BY <1>12 DEF vars, tables, cursors, imports, Importing, Imported, Known, Entries
<1> QED BY <1>2, <1>3, <1>4, <1>5, <1>6, <1>7, <1>9, <1>10, <1>11, <1>12, KernelAssumption
        DEF Next, Place, Report

(* Each DLL import definition that was linked is answered for by the       *)
(* import modules, also after they are sorted, and no module has an        *)
(* ordinal twice before the fallbacks add theirs (linker.cpp:287-335).     *)
THEOREM ImportTableIsComplete == Spec => []ImportTableComplete
<1>1. Init => Importing
  <2> SUFFICES ASSUME Init PROVE Importing
    OBVIOUS
  <2> QED BY DEF Init, Importing
<1>2. Importing => ImportTableComplete
  BY DEF Importing, ImportTableComplete, Imported, Known
<1> QED BY <1>1, <1>2, InitInv, InvStep, InitPlacing, PlacingStep, ImportingStep, PTL DEF Spec

-----------------------------------------------------------------------------
(* What the extraction loop holds a name of the archive for: it is still   *)
(* to be looked at in the first round, or a member that was returned       *)
(* exports it or is the one the map leads to.                              *)
Waiting(n) ==
  /\ n \in ToSet(pending)
  /\ \/ pc = "head" /\ iterations = 0
     \/ pc \in {"scan", "queue"} /\ iterations = 1
Found(n) ==
  \E i \in DOMAIN result : \/ n \in Exports(archive.member[result[i]])
                           \/ n \in DOMAIN archive.map /\ archive.map[n] = result[i]
Backed ==
  /\ \A n \in resolved : Found(n)
  /\ extracted \subseteq ToSet(result)

(* What has become of the names the library that is being searched offers. *)
Opened ==
  /\ libraries[lib].loads
  /\ archive = [map |-> libraries[lib].map, member |-> libraries[lib].member]
Offered == {n \in UserImports : Offers(lib, n)}
LibrarySearched ==
  /\ stage \in {"select", "extract", "absorb", "filter"} => Opened
  /\ stage = "select" =>
       \A i \in 1..(item-1) : Offers(lib, undefined_symbols[i]) =>
         undefined_symbols[i] \in defined_symbols \cup ToSet(selection)
  /\ stage = "extract" =>
       /\ Backed
       /\ \A n \in Offered : n \in defined_symbols \/ Waiting(n) \/ Found(n)
  /\ stage = "absorb" =>
       \A n \in Offered : \/ n \in defined_symbols
                          \/ \E i \in item..Len(result) : n \in Exports(archive.member[result[i]])
  /\ stage = "filter" => Offered \subseteq defined_symbols

(* The objects behind the compiled ones come from the libraries opened so  *)
(* far, and what a library behind us offers has a definition at which only *)
(* compiled objects and members up to that library have been linked.       *)
Origins ==
  /\ stage \in {"start", "collect"} => lib = 1
  /\ stage \in Searching => \A k \in (Len(compiled)+1)..Len(objects) : FromLibrary(objects[k], lib)
Provided(n, l) ==
  \E k \in DOMAIN objects :
    /\ n \in Exports(objects[k])
    /\ \A j \in (Len(compiled)+1)..k : FromLibrary(objects[j], l)
Behind(l) == \/ stage \in Searching /\ l < lib
             \/ stage \in {"place", "imports", "report", "write", "linked"}
LibrariesInOrder ==
  \A n \in UserImports : \A l \in DOMAIN libraries :
    Behind(l) /\ Offers(l, n) => Provided(n, l)

(* A step of the extraction loop leaves no name of the archive behind.     *)
LEMMA ExtractKeeps ==
  ASSUME Reader!TypeOK, Reader!Step, archive' = archive, Backed
  PROVE  /\ Backed'
         /\ \A n \in DOMAIN archive.map : Waiting(n) \/ Found(n) => Waiting(n)' \/ Found(n)'
<1>0. /\ pending \in Seq(Name) /\ result \in Seq(Offset) /\ iterations \in Nat
      /\ MaxIterations \in Nat \ {0}
      /\ \A n \in DOMAIN archive.map : archive.map[n] \in Offset
  BY BoundAssumption DEF Reader!TypeOK, Reader!IsArchive
<1>1. CASE UNCHANGED <<extracted, resolved, result>> /\ ~Reader!AlreadyExtracted
  <2>1. Backed' /\ \A n : Found(n) = Found(n)'
    BY <1>1 DEF Backed, Found, Exports
  <2>2. ASSUME NEW n \in DOMAIN archive.map, Waiting(n) PROVE Waiting(n)' \/ Found(n)'
    <3>1. pending # << >>
      BY <2>2, ToSetEmpty DEF Waiting
    <3>2. CASE Reader!StartRound
      BY <1>0, <2>2, <3>2 DEF Reader!StartRound, Waiting
    <3>3. CASE Reader!Return
      BY <1>0, <2>2, <3>1, <3>3 DEF Reader!Return, Waiting
    <3>4. CASE Reader!Skip
      <4>1. ToSet(pending) = {Head(pending)} \cup ToSet(Tail(pending))
        BY <1>0, <3>1, ToSetHeadTail
      <4>2. CASE n = Head(pending)
        BY <2>1, <2>2, <3>4, <4>2 DEF Reader!Skip, Backed
      <4>3. CASE n # Head(pending)
        BY <2>2, <3>4, <4>1, <4>3 DEF Reader!Skip, Waiting
      <4> QED BY <4>2, <4>3
    <3>5. CASE Reader!QueueImport \/ Reader!EndImports
      BY <2>2, <3>5 DEF Reader!QueueImport, Reader!EndImports, Waiting
    <3>6. CASE Reader!EndRound
      BY <3>1, <3>6 DEF Reader!EndRound
    <3>7. ~Reader!ExtractMember
      <4>1. CASE Reader!ExtractMember
        <5> DEFINE o == archive.map[Head(pending)]
        <5>1. o \in Offset /\ result' = Append(result, o) /\ result' = result
          BY <1>0, <1>1, <4>1 DEF Reader!ExtractMember
        <5>2. Len(Append(result, o)) = Len(result) + 1 /\ Len(result) \in Nat
          BY <1>0, <5>1, AppendProperties, LenProperties
        <5> QED BY <5>1, <5>2
      <4> QED BY <4>1
    <3> QED BY <1>1, <3>2, <3>3, <3>4, <3>5, <3>6, <3>7 DEF Reader!Step
  <2> QED BY <2>1, <2>2
<1>2. CASE Reader!AlreadyExtracted
  <2> DEFINE s == Head(pending)
  <2>1. /\ UNCHANGED <<extracted, result, pc, iterations>> /\ resolved' = resolved \cup {s}
        /\ s \in DOMAIN archive.map /\ archive.map[s] \in extracted
        /\ pending # << >> /\ pending' = Tail(pending)
    BY <1>2 DEF Reader!AlreadyExtracted
  <2>2. \A n : Found(n) = Found(n)'
    BY <2>1 DEF Found, Exports
  <2>3. Found(s)
    BY <2>1 DEF Backed, Found, ToSet
  <2>4. ToSet(pending) = {s} \cup ToSet(Tail(pending))
    BY <1>0, <2>1, ToSetHeadTail
  <2> HIDE DEF s
  <2>5. Backed'
    BY <2>1, <2>2, <2>3 DEF Backed
  <2> QED BY <2>1, <2>2, <2>3, <2>4, <2>5 DEF Waiting
<1>3. CASE Reader!ExtractMember
  <2> DEFINE s == Head(pending)
             o == archive.map[s]
  <2>1. /\ iterations' = iterations /\ pc = "scan" /\ pc' = "queue"
        /\ resolved' = resolved \cup Exports(archive.member[o])
        /\ extracted' = extracted \cup {o} /\ result' = Append(result, o)
        /\ s \in DOMAIN archive.map /\ o \in Offset
        /\ pending # << >> /\ pending' = Tail(pending)
    BY <1>0, <1>3 DEF Reader!ExtractMember, Reader!Exports, Exports
  <2>2. ToSet(pending) = {s} \cup ToSet(Tail(pending))
    BY <1>0, <2>1, ToSetHeadTail
  <2>3. /\ Len(result) \in Nat /\ DOMAIN result = 1..Len(result)
        /\ DOMAIN result' = 1..(Len(result) + 1)
        /\ \A i \in 1..Len(result) : result'[i] = result[i]
        /\ result'[Len(result) + 1] = o
        /\ ToSet(result') = ToSet(result) \cup {o}
    <3>1. result' \in Seq(Offset) /\ ToSet(result') = ToSet(result) \cup {o}
      BY <1>0, <2>1, ToSetAppend
    <3> QED BY <1>0, <2>1, <3>1, AppendProperties, LenProperties
  <2>4. archive.map[s] = o
    OBVIOUS
  <2> HIDE DEF s, o
  <2>5. \A n : Found(n) => Found(n)'
    BY <2>3 DEF Found, Exports
  <2>6. \A n : n = s \/ n \in Exports(archive.member[o]) => Found(n)'
    <3>1. Len(result) + 1 \in DOMAIN result'
      BY <2>3
    <3> QED BY <2>1, <2>3, <2>4, <3>1 DEF Found, Exports
  <2>7. \A n : n \in resolved' => Found(n)'
    BY <2>1, <2>5, <2>6 DEF Backed
  <2>8. Backed'
    BY <2>1, <2>3, <2>7 DEF Backed
  <2> QED BY <2>1, <2>2, <2>5, <2>6, <2>8 DEF Waiting
<1>4. CASE ~Reader!AlreadyExtracted /\ ~Reader!ExtractMember
  <2>1. UNCHANGED <<extracted, resolved, result>>
    BY <1>4 DEF Reader!Step, Reader!StartRound, Reader!Return, Reader!Skip, Reader!QueueImport,
                Reader!EndImports, Reader!EndRound
  <2> QED BY <1>1, <1>4, <2>1
<1> QED BY <1>2, <1>3, <1>4

LEMMA LibrarySearchedStep ==
  Inv /\ Filtering /\ LibrarySearched /\ [Next]_vars => LibrarySearched'
<1> SUFFICES ASSUME Inv, Filtering, LibrarySearched, [Next]_vars PROVE LibrarySearched'
  OBVIOUS
<1>0. /\ item \in Nat \ {0} /\ undefined_symbols \in Seq(Name) /\ selection \in Seq(Name)
      /\ result \in Seq(Offset) /\ Len(undefined_symbols) \in Nat /\ Len(result) \in Nat
      /\ DOMAIN undefined_symbols = 1..Len(undefined_symbols) /\ DOMAIN result = 1..Len(result)
  BY LenProperties DEF Inv, TypeOK, CursorsOK, NamesOK, Reader!TypeOK
<1>1. ASSUME stage' \notin {"select", "extract", "absorb", "filter"} PROVE LibrarySearched'
  BY <1>1 DEF LibrarySearched
<1>2. CASE OpenLibrary
  BY <1>2 DEF OpenLibrary, LibrarySearched, Opened, input
<1>3. CASE SelectSymbol
  <2> DEFINE sym == undefined_symbols[item]
  <2>1. /\ stage = "select" /\ stage' = "select" /\ item' = item + 1
        /\ UNCHANGED <<input, tables, lib, archive>> /\ item \in 1..Len(undefined_symbols)
        /\ selection' = IF sym \in defined_symbols \/ Hits(sym) = {} THEN selection
                        ELSE Append(selection, FirstHit(sym))
    BY <1>0, <1>3 DEF SelectSymbol, reader
  <2>2. sym \in Name
    BY <1>0, <2>1, ElementOfSeq
  <2>3. Opened
    BY <2>1 DEF LibrarySearched
  <2>4. ToSet(selection) \subseteq ToSet(selection')
    BY <1>0, <2>1, <2>2, FirstHitIsListed, ToSetAppend
  <2>5. Offers(lib, sym) => sym \in defined_symbols \cup ToSet(selection')
    <3> SUFFICES ASSUME Offers(lib, sym), sym \notin defined_symbols PROVE sym \in ToSet(selection')
      OBVIOUS
    <3>1. sym \in DOMAIN archive.map
      BY <2>3 DEF Opened, Offers
    <3>2. Hits(sym) # {} /\ FirstHit(sym) = sym
      BY <2>2, <3>1, FirstHitIsListed
    <3> QED BY <1>0, <2>1, <2>2, <3>2, ToSetAppend
  <2> HIDE DEF sym
  <2>6. \A i \in 1..item : Offers(lib, undefined_symbols[i]) =>
          undefined_symbols[i] \in defined_symbols \cup ToSet(selection')
    BY <1>0, <2>1, <2>4, <2>5 DEF LibrarySearched, sym
  <2> QED BY <1>0, <2>1, <2>3, <2>6 DEF LibrarySearched, Opened, Offers, input, tables
<1>4. CASE CallExtract
  <2>1. /\ stage = "select" /\ stage' = "extract" /\ item > Len(undefined_symbols)
        /\ UNCHANGED <<input, tables, lib, archive>>
        /\ pending' = selection /\ iterations' = 0 /\ pc' = "head"
        /\ extracted' = {} /\ resolved' = {}
    BY <1>4 DEF CallExtract, Reader!Begin
  <2>2. ASSUME NEW n \in Offered PROVE n \in defined_symbols \cup ToSet(selection)
    <3>1. n \in defined_symbols \cup ToSet(undefined_symbols) /\ Offers(lib, n)
      BY <2>1 DEF Filtering, Open, Offered
    <3>2. CASE n \in ToSet(undefined_symbols)
      <4>1. PICK i \in 1..Len(undefined_symbols) : n = undefined_symbols[i]
        BY <1>0, <3>2 DEF ToSet
      <4>2. i \in 1..(item-1)
        BY <1>0, <2>1, <4>1
      <4> QED BY <2>1, <3>1, <4>1, <4>2 DEF LibrarySearched
    <3> QED BY <3>1, <3>2
  <2>3. Offered' = Offered
    BY <2>1 DEF Offered, Offers, UserImports, input
  <2>4. Backed' /\ \A n \in ToSet(selection) : Waiting(n)'
    BY <2>1 DEF Backed, Waiting
  <2>5. Opened'
    BY <2>1 DEF LibrarySearched, Opened, input
  <2> QED BY <2>1, <2>2, <2>3, <2>4, <2>5 DEF LibrarySearched, tables
<1>5. CASE Extract
  <2>1. /\ stage = "extract" /\ stage' = "extract" /\ Reader!Step
        /\ UNCHANGED <<input, tables, lib, archive>>
    BY <1>5 DEF Extract
  <2>2. Opened /\ Backed /\ Opened'
    BY <2>1 DEF LibrarySearched, Opened, input
  <2>3. Backed' /\ \A n \in DOMAIN archive.map : Waiting(n) \/ Found(n) => Waiting(n)' \/ Found(n)'
    BY <2>1, <2>2, ExtractKeeps DEF Inv, TypeOK
  <2>4. Offered' = Offered /\ Offered \subseteq DOMAIN archive.map
    BY <2>1, <2>2 DEF Offered, Offers, Opened, UserImports, input
  <2> QED BY <2>1, <2>2, <2>3, <2>4 DEF LibrarySearched, tables
<1>6. CASE EndExtract
  <2>1. /\ stage = "extract" /\ stage' = "absorb" /\ item' = 1 /\ pc = "done"
        /\ UNCHANGED <<input, tables, lib, reader>>
    BY <1>6 DEF EndExtract
  <2>2. Opened
    BY <2>1 DEF LibrarySearched
  <2>3. ASSUME NEW n \in Offered, n \notin defined_symbols
        PROVE  \E i \in 1..Len(result) : n \in Exports(archive.member[result[i]])
    <3>1. Found(n)
      BY <2>1, <2>3 DEF LibrarySearched, Waiting
    <3>2. n \in Exports(archive.member[archive.map[n]])
      BY <2>2, <2>3 DEF Offered, Offers, Opened
    <3> QED BY <1>0, <3>1, <3>2 DEF Found
  <2>4. Offered' = Offered /\ Opened'
    BY <2>1, <2>2 DEF Offered, Offers, Opened, UserImports, input, reader
  <2> QED BY <2>1, <2>3, <2>4 DEF LibrarySearched, tables, reader, Exports
<1>7. CASE AbsorbMember
  <2>1. /\ stage = "absorb" /\ stage' = "absorb" /\ item' = item + 1
        /\ UNCHANGED <<input, lib, reader>>
        /\ defined_symbols' = defined_symbols \cup Exports(archive.member[result[item]])
    BY <1>7 DEF AbsorbMember
  <2>2. Opened' /\ Offered' = Offered
    BY <2>1 DEF LibrarySearched, Offered, Offers, Opened, UserImports, input, reader
  <2>3. ASSUME NEW n \in Offered, n \notin defined_symbols'
        PROVE  \E i \in (item+1)..Len(result) : n \in Exports(archive.member[result[i]])
    <3>1. PICK i \in item..Len(result) : n \in Exports(archive.member[result[i]])
      BY <2>1, <2>3 DEF LibrarySearched
    <3>2. i # item
      BY <2>1, <2>3, <3>1
    <3>3. i \in (item+1)..Len(result)
      BY <1>0, <3>1, <3>2
    <3> QED BY <3>1, <3>3
  <2> QED BY <2>1, <2>2, <2>3 DEF LibrarySearched, reader, Exports
<1>8. CASE EndAbsorb
  <2>1. /\ stage = "absorb" /\ stage' = "filter" /\ item > Len(result)
        /\ UNCHANGED <<input, defined_symbols, lib, reader>>
    BY <1>8 DEF EndAbsorb
  <2>2. Opened' /\ Offered' = Offered
    BY <2>1 DEF LibrarySearched, Offered, Offers, Opened, UserImports, input, reader
  <2>3. item..Len(result) = {}
    BY <1>0, <2>1
  <2> QED BY <2>1, <2>2, <2>3 DEF LibrarySearched
<1>9. CASE FilterSymbol
  <2>1. stage = "filter" /\ stage' = "filter" /\ UNCHANGED <<input, defined_symbols, lib, reader>>
    BY <1>9 DEF FilterSymbol
  <2>2. Opened' /\ Offered' = Offered
    BY <2>1 DEF LibrarySearched, Offered, Offers, Opened, UserImports, input, reader
  <2> QED BY <2>1, <2>2 DEF LibrarySearched
<1>10. CASE SkipLibrary \/ NothingSelected \/ EndFilter \/ EndSearch
  BY <1>1, <1>10 DEF SkipLibrary, NothingSelected, EndFilter, EndSearch
<1>11. CASE Refuse \/ Collect
  BY <1>1, <1>11 DEF Refuse, Collect, DefineCompiled, CollectImport, CollectNext, EndCollect
<1>12. CASE Place
  BY <1>1, <1>12 DEF Place, PlaceObject, CollectDllImport, NextObject, EndPlace
<1>13. CASE Report \/ WriteImage
  BY <1>1, <1>13 DEF Report, SkipSettled, FallBack, ReportUnresolved, EndReport, WriteImage
<1>14. CASE UNCHANGED vars
  <2>1. UNCHANGED <<compiled, libraries, stage, lib, item, undefined_symbols, defined_symbols, selection>>
    BY <1>14 DEF vars, input, tables, cursors
  <2>2. UNCHANGED <<archive, pending, resolved, extracted, result, pc, iterations>>
    BY <1>14 DEF vars, reader
  <2>3. Opened' = Opened /\ Offered' = Offered
    BY <2>1, <2>2 DEF Offered, Offers, Opened, UserImports
  <2>4. Backed' = Backed
    BY <2>2 DEF Backed, Found
  <2>5. \A n : (Waiting(n)' <=> Waiting(n)) /\ (Found(n)' <=> Found(n))
    BY <2>2 DEF Waiting, Found
  <2>6. \A i : Offers(lib, undefined_symbols[i])' <=> Offers(lib, undefined_symbols[i])
    BY <2>1 DEF Offers
  <2>7. (stage = "extract" => Backed /\ \A n \in Offered : n \in defined_symbols \/ Waiting(n) \/ Found(n))'
    BY <2>1, <2>3, <2>4, <2>5 DEF LibrarySearched
  <2>8. (stage = "select" => \A i \in 1..(item-1) : Offers(lib, undefined_symbols[i]) =>
           undefined_symbols[i] \in defined_symbols \cup ToSet(selection))'
    BY <2>1, <2>6 DEF LibrarySearched
  <2>9. (stage = "absorb" => \A n \in Offered : \/ n \in defined_symbols
                             \/ \E i \in item..Len(result) : n \in Exports(archive.member[result[i]]))'
    BY <2>1, <2>2, <2>3 DEF LibrarySearched, Exports
  <2> QED BY <2>1, <2>3, <2>7, <2>8, <2>9 DEF LibrarySearched
<1> QED BY <1>2, <1>3, <1>4, <1>5, <1>6, <1>7, <1>8, <1>9, <1>10, <1>11, <1>12, <1>13, <1>14
        DEF Next, Search, Select

LEMMA OriginsStep ==
  Inv /\ Collecting /\ LibrarySearched /\ Origins /\ [Next]_vars => Origins'
<1> SUFFICES ASSUME Inv, Collecting, LibrarySearched, Origins, [Next]_vars PROVE Origins'
  OBVIOUS
<1>8. (stage \in {"start", "collect"} => lib = 1)'
  BY DEF Origins, Next, vars, cursors, Refuse, Collect, DefineCompiled, CollectImport, CollectNext,
     EndCollect, Search, Select, SkipLibrary, OpenLibrary, SelectSymbol, NothingSelected, CallExtract,
     Extract, EndExtract, AbsorbMember, EndAbsorb, FilterSymbol, EndFilter, EndSearch,
     Place, PlaceObject, CollectDllImport, NextObject, EndPlace, Report, SkipSettled, FallBack,
     ReportUnresolved, EndReport, WriteImage
<1> SUFFICES ASSUME stage' \in Searching
             PROVE  \A k \in (Len(compiled)+1)'..Len(objects)' : FromLibrary(objects[k], lib)'
  BY <1>8 DEF Origins
<1>0. /\ Len(objects) \in Nat /\ Len(compiled) \in Nat /\ lib \in Nat
      /\ Len(libraries) \in Nat
  BY Lengths, LenProperties DEF Inv, TypeOK, InputOK, CursorsOK
<1>1. UNCHANGED input
  BY CollectKeeps, SearchKeeps, PlaceKeeps, ReportKeeps DEF Next, vars
<1>2. CASE Refuse \/ Collect
  <2>1. objects = compiled /\ objects' = objects
    BY <1>2 DEF Refuse, Collect, DefineCompiled, CollectImport, CollectNext, EndCollect, Collecting,
       Searching, tables
  <2>2. (Len(compiled)+1)'..Len(objects)' = {}
    BY <1>0, <1>1, <2>1 DEF input
  <2> QED BY <2>2
<1>3. ASSUME UNCHANGED objects, stage \in Searching, lib' = lib \/ lib' = lib + 1
      PROVE  \A k \in (Len(compiled)+1)'..Len(objects)' : FromLibrary(objects[k], lib)'
  <2>1. \A k \in (Len(compiled)+1)..Len(objects) : FromLibrary(objects[k], lib)
    BY <1>3 DEF Origins
  <2>2. 1..lib \subseteq 1..lib'
    BY <1>0, <1>3
  <2> QED BY <1>1, <1>3, <2>1, <2>2 DEF FromLibrary, input
<1>4. CASE AbsorbMember
  <2> DEFINE o == archive.member[result[item]]
  <2>1. /\ stage = "absorb" /\ lib' = lib /\ lib \in 1..Len(libraries) /\ Opened
        /\ result[item] \in Offset
    BY <1>0, <1>4, Lengths DEF AbsorbMember, LibrarySearched, Inv, InLoops, TypeOK, CursorsOK
  <2>2. FromLibrary(o, lib)
    BY <1>0, <2>1 DEF FromLibrary, Opened
  <2>3. IsObject(o)
    BY <2>1 DEF Inv, MembersOK
  <2>4. /\ Len(objects') = Len(objects) + 1
        /\ \A k \in 1..Len(objects) : objects'[k] = objects[k]
        /\ objects'[Len(objects) + 1] = o
    BY <1>4, <2>3, AppendObject DEF AbsorbMember, WithMember, Inv, TypeOK
  <2> HIDE DEF o
  <2>5. \A k \in (Len(compiled)+1)..(Len(objects)+1) : FromLibrary(objects'[k], lib)
    BY <1>0, <2>1, <2>2, <2>4 DEF Origins, Searching
  <2> QED BY <1>1, <2>1, <2>4, <2>5 DEF FromLibrary, input
<1>5. CASE Search /\ ~AbsorbMember
  <2>1. stage \in Searching /\ UNCHANGED objects
    BY <1>5, SearchKeeps, SearchKeepsObjects
  <2>2. lib' = lib \/ lib' = lib + 1
    BY <1>5 DEF Search, Select, SkipLibrary, OpenLibrary, SelectSymbol, NothingSelected, CallExtract,
       Extract, EndExtract, AbsorbMember, EndAbsorb, FilterSymbol, EndFilter, EndSearch
  <2> QED BY <1>3, <2>1, <2>2
<1>6. CASE Place \/ Report \/ WriteImage
  BY <1>6 DEF Place, PlaceObject, CollectDllImport, NextObject, EndPlace, Searching,
     Report, SkipSettled, FallBack, ReportUnresolved, EndReport, WriteImage
<1>7. CASE UNCHANGED vars
  BY <1>3, <1>7 DEF vars, tables, cursors
<1> QED BY <1>2, <1>4, <1>5, <1>6, <1>7 DEF Next

(* A definition stays where it is when objects are added behind it.        *)
LEMMA ProvidedKept ==
  ASSUME Inv, UNCHANGED input, AbsorbMember \/ UNCHANGED objects
  PROVE  \A n, l : Provided(n, l) => Provided(n, l)'
<1>0. /\ Len(objects) \in Nat /\ DOMAIN objects = 1..Len(objects) /\ Len(compiled) \in Nat
  BY Lengths, LenProperties DEF Inv, TypeOK, InputOK
<1>1. DOMAIN objects \subseteq DOMAIN objects' /\ \A k \in DOMAIN objects : objects'[k] = objects[k]
  <2>1. CASE AbsorbMember
    <3>1. IsObject(archive.member[result[item]])
      BY <2>1, Lengths DEF AbsorbMember, Inv, TypeOK, CursorsOK, MembersOK
    <3>2. /\ ObjectsOK' /\ Len(objects') = Len(objects) + 1
          /\ \A k \in 1..Len(objects) : objects'[k] = objects[k]
      BY <2>1, <3>1, AppendObject DEF AbsorbMember, WithMember, Inv, TypeOK
    <3>3. DOMAIN objects' = 1..(Len(objects) + 1)
      BY <3>2, LenProperties DEF ObjectsOK
    <3> QED BY <1>0, <3>2, <3>3
  <2> QED BY <2>1
<1>2. ASSUME NEW n, NEW l, Provided(n, l) PROVE Provided(n, l)'
  <2>1. PICK k \in DOMAIN objects :
          /\ n \in Exports(objects[k])
          /\ \A j \in (Len(compiled)+1)..k : FromLibrary(objects[j], l)
    BY <1>2 DEF Provided
  <2>2. k \in DOMAIN objects' /\ n \in Exports(objects'[k])
    BY <1>1, <2>1
  <2>3. \A j \in (Len(compiled)+1)..k : objects'[j] = objects[j] /\ FromLibrary(objects[j], l)
    BY <1>0, <1>1, <2>1
  <2> QED BY <2>2, <2>3 DEF Provided, Exports, FromLibrary, input
<1> QED BY <1>2

(* A name that is defined when a library has been searched is provided.    *)
LEMMA DefinedProvided ==
  ASSUME Inv, Origins, DefinedBacked, stage \in Searching, NEW n \in defined_symbols
  PROVE  Provided(n, lib)
<1>1. PICK k \in DOMAIN objects : n \in Exports(objects[k])
  BY DEF DefinedBacked
<1>2. k \in 1..Len(objects) /\ Len(objects) \in Nat /\ Len(compiled) \in Nat
  BY <1>1, Lengths, LenProperties DEF Inv, TypeOK, InputOK
<1>3. \A j \in (Len(compiled)+1)..k : FromLibrary(objects[j], lib)
  BY <1>2 DEF Origins
<1> QED BY <1>1, <1>3 DEF Provided

LEMMA LibrariesInOrderStep ==
  Inv /\ Collecting /\ Filtering /\ DefinedBacked /\ LibrarySearched /\ Origins /\ LibrariesInOrder
    /\ [Next]_vars => LibrariesInOrder'
<1> SUFFICES ASSUME Inv, Collecting, Filtering, DefinedBacked, LibrarySearched, Origins,
                    LibrariesInOrder, [Next]_vars
             PROVE  LibrariesInOrder'
  OBVIOUS
<1>0. /\ Len(libraries) \in Nat /\ DOMAIN libraries = 1..Len(libraries) /\ lib \in Nat
      /\ item \in Nat \ {0} /\ undefined_symbols \in Seq(Name) /\ Len(undefined_symbols) \in Nat
      /\ DOMAIN undefined_symbols = 1..Len(undefined_symbols)
      /\ Len(objects) \in Nat /\ Len(compiled) \in Nat
  BY Lengths, LenProperties DEF Inv, TypeOK, InputOK, CursorsOK, NamesOK
<1>1. UNCHANGED input /\ (AbsorbMember \/ UNCHANGED objects)
  BY CollectKeeps, SearchKeeps, SearchKeepsObjects, PlaceKeeps, ReportKeeps DEF Next, vars, tables
<1>2. UserImports' = UserImports /\ \A l, n : Offers(l, n)' = Offers(l, n)
  BY <1>1 DEF UserImports, Offers, input
<1>3. ASSUME \A l \in DOMAIN libraries : Behind(l)' =>
                 \/ Behind(l)
                 \/ \A n \in UserImports : Offers(l, n) => Provided(n, l)
      PROVE  LibrariesInOrder'
  BY <1>1, <1>2, <1>3, ProvidedKept DEF LibrariesInOrder, input
<1>4. CASE SkipLibrary
  BY <1>0, <1>3, <1>4 DEF SkipLibrary, Behind, Searching, Offers
<1>5. CASE NothingSelected
  <2>1. /\ stage = "select" /\ selection = << >> /\ item > Len(undefined_symbols)
        /\ stage' = "search" /\ lib' = lib + 1
    BY <1>5 DEF NothingSelected
  <2>2. ASSUME NEW n \in UserImports, Offers(lib, n) PROVE n \in defined_symbols
    <3>1. n \in defined_symbols \cup ToSet(undefined_symbols)
      BY <2>1 DEF Filtering, Open
    <3>2. CASE n \in ToSet(undefined_symbols)
      <4>1. PICK i \in 1..Len(undefined_symbols) : n = undefined_symbols[i]
        BY <1>0, <3>2 DEF ToSet
      <4>2. i \in 1..(item-1)
        BY <1>0, <2>1, <4>1
      <4> QED BY <2>1, <2>2, <4>1, <4>2, ToSetEmpty DEF LibrarySearched
    <3> QED BY <3>1, <3>2
  <2>3. \A n \in UserImports : Offers(lib, n) => Provided(n, lib)
    BY <2>1, <2>2, DefinedProvided DEF Searching
  <2> QED BY <1>0, <1>3, <2>1, <2>3 DEF Behind, Searching
<1>6. CASE EndFilter
  <2>1. stage = "filter" /\ stage' = "search" /\ lib' = lib + 1
    BY <1>6 DEF EndFilter
  <2>2. \A n \in UserImports : Offers(lib, n) => Provided(n, lib)
    BY <2>1, DefinedProvided DEF LibrarySearched, Offered, Searching
  <2> QED BY <1>0, <1>3, <2>1, <2>2 DEF Behind, Searching
<1>7. CASE EndSearch
  BY <1>0, <1>3, <1>7 DEF EndSearch, Behind, Searching
<1>8. CASE EndCollect
  <2>1. CASE undefined_symbols # << >>
    <3>1. stage' = "search" /\ lib' = 1
      BY <1>8, <2>1 DEF EndCollect, Origins
    <3> QED BY <1>0, <1>3, <3>1 DEF Behind, Searching
  <2>2. CASE undefined_symbols = << >>
    <3>1. UserImports \subseteq defined_symbols
      BY <1>8, <2>2, AllCollected, ToSetEmpty DEF Open
    <3>2. objects = compiled
      BY <1>8 DEF EndCollect, Collecting
    <3>3. \A n \in UserImports : \A l : Provided(n, l)
      <4> SUFFICES ASSUME NEW n \in UserImports, NEW l PROVE Provided(n, l)
        OBVIOUS
      <4>1. PICK k \in DOMAIN objects : n \in Exports(objects[k])
        BY <3>1 DEF DefinedBacked
      <4>2. k \in 1..Len(compiled)
        BY <3>2, <4>1, Lengths
      <4>3. (Len(compiled)+1)..k = {}
        BY <1>0, <4>2
      <4> QED BY <4>1, <4>3 DEF Provided
    <3> QED BY <1>3, <3>3
  <2> QED BY <2>1, <2>2
<1>9. CASE \/ OpenLibrary \/ SelectSymbol \/ CallExtract \/ Extract \/ EndExtract
           \/ AbsorbMember \/ EndAbsorb \/ FilterSymbol
  <2>1. stage \in Searching /\ stage' \in Searching /\ lib' = lib
    BY <1>9 DEF OpenLibrary, SelectSymbol, CallExtract, Extract, EndExtract, AbsorbMember,
       EndAbsorb, FilterSymbol, Searching
  <2> QED BY <1>0, <1>3, <2>1 DEF Behind, Searching
<1>10. CASE Refuse \/ DefineCompiled \/ CollectImport \/ CollectNext
  BY <1>3, <1>10 DEF Refuse, DefineCompiled, CollectImport, CollectNext, Behind, Searching
<1>11. CASE Place \/ Report \/ WriteImage
  <2>1. stage \in {"place", "imports", "report", "write", "linked"}
    BY <1>11 DEF Place, PlaceObject, CollectDllImport, NextObject, EndPlace,
       Report, SkipSettled, FallBack, ReportUnresolved, EndReport, WriteImage
  <2> QED BY <1>3, <2>1 DEF Behind
<1>12. CASE UNCHANGED vars
  BY <1>3, <1>12 DEF vars, cursors, Behind
<1> QED BY <1>4, <1>5, <1>6, <1>7, <1>8, <1>9, <1>10, <1>11, <1>12
        DEF Next, Collect, Search, Select

(* Whatever the libraries hold, and whatever their members import and      *)
(* export: an import of the compiled objects is never provided by a        *)
(* library behind one that offers it (linker.cpp:188-256).                 *)
THEOREM FirstLibraryProvides == Spec => []FirstLibraryWins
<1> DEFINE Tracked == /\ Inv /\ Placing /\ CompiledFirst /\ FirstDefinitionWins /\ DefinedBacked
                      /\ Collecting /\ Filtering /\ LibrarySearched /\ Origins /\ LibrariesInOrder
<1>1. Init => Tracked
  <2> SUFFICES ASSUME Init PROVE Tracked
    OBVIOUS
  <2>1. DefinedBacked /\ Collecting /\ Filtering
    BY DEF Init, DefinedBacked, Collecting, Filtering
  <2>2. LibrarySearched /\ Origins /\ LibrariesInOrder
    BY DEF Init, LibrarySearched, Origins, LibrariesInOrder, Behind, Searching
  <2> QED BY <2>1, <2>2, InitInv, InitPlacing
<1>2. Tracked /\ [Next]_vars => Tracked'
  BY InvStep, PlacingStep, CompiledFirstStep, FirstDefinitionStep, DefinedBackedStep, CollectingStep,
     FilteringStep, LibrarySearchedStep, OriginsStep, LibrariesInOrderStep
<1>3. Tracked => FirstLibraryWins
  <2> SUFFICES ASSUME Tracked, NEW n \in DOMAIN globalSymbols, n \in UserImports,
                      NEW l \in DOMAIN libraries, Offers(l, n),
                      \A c \in DOMAIN compiled : n \notin Exports(compiled[c])
               PROVE  \E k \in DOMAIN placed :
                        /\ FromLibrary(objects[k], l) /\ n \in Exports(objects[k])
                        /\ globalSymbols[n] = Address(placed[k], objects[k].exports[n])
    BY DEF FirstLibraryWins, UserImports
  <2>1. PICK k \in DOMAIN placed :
          /\ n \in Exports(objects[k])
          /\ \A j \in 1..(k-1) : n \notin Exports(objects[j])
          /\ globalSymbols[n] = Address(placed[k], objects[k].exports[n])
    BY DEF FirstDefinitionWins
  <2>2. Behind(l)
    <3>1. DOMAIN globalSymbols # {}
      OBVIOUS
    <3>2. stage \notin BeforePlacing
      BY <3>1, EmptySeq, LenProperties DEF Placing
    <3> QED BY <3>2 DEF Behind, BeforePlacing, Searching, Inv, TypeOK, CursorsOK, Stages
  <2>3. PICK k2 \in DOMAIN objects :
          /\ n \in Exports(objects[k2])
          /\ \A j \in (Len(compiled)+1)..k2 : FromLibrary(objects[j], l)
    BY <2>2 DEF LibrariesInOrder, Provided
  <2>4. /\ DOMAIN objects = 1..Len(objects) /\ Len(objects) \in Nat
        /\ DOMAIN compiled = 1..Len(compiled) /\ Len(compiled) \in Nat
        /\ DOMAIN placed = 1..Len(placed) /\ Len(placed) \in Nat
    BY Lengths, LenProperties DEF Inv, TypeOK, InputOK, LayoutOK
  <2>5. k <= k2
    BY <2>1, <2>3, <2>4
  <2>6. k > Len(compiled)
    BY <2>1, <2>4 DEF CompiledFirst
  <2>7. k \in (Len(compiled)+1)..k2
    BY <2>4, <2>5, <2>6
  <2> QED BY <2>1, <2>3, <2>7
<1> HIDE DEF Tracked
<1> QED BY <1>1, <1>2, <1>3, PTL DEF Spec
=============================================================================
