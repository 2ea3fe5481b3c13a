------------------------------- MODULE Linker -------------------------------
(***************************************************************************)
(* Linker::link (src/src/linker.cpp:162-366): collect the imports the      *)
(* compiled objects leave open, search the libraries in order for them     *)
(* (each search is a call of CoffLibReader::extract_needed, module         *)
(* ArchiveExtract), lay out the objects, build the DLL import table, fall  *)
(* back on the built-in kernel ordinals, and write the image.              *)
(*                                                                         *)
(* Every loop of the function is a stage and every pass of its body an     *)
(* action.  Code and data are lengths.  An object is                       *)
(*   [exports : name -> [section, offset], imports, code, data,            *)
(*    dll_imports : sequence of [symbol, dll, ordinal]]                    *)
(* and a library path is [loads, map, member]: whether it can be loaded,   *)
(* its symbol map and its members.                                         *)
(***************************************************************************)
EXTENDS CoffMembers, FiniteSets

CONSTANTS Offset, MaxIterations,   \* of ArchiveExtract
          Main,                    \* the entry point's name
          Dll, KernelDll, XamDll,  \* DLL names; "xboxkrnl.exe" and "xam.xex"
          KernelOrdinals,          \* kXboxKrnlOrdinals: name -> ordinal
          XamOrdinals,             \* kXamOrdinals
          Programs,                \* what a run links: sequences of objects,
          LibraryLists,            \*   sequences of libraries,
          Targets                  \*   and output kinds, "exe" or "other"

VARIABLES
  compiled, libraries, target,     \* the input, fixed
  objects, defined_symbols, undefined_symbols, still_undefined,
  selection,                       \* the local `needed` of the search loop
  archive, needed, pending, new_pending, importing, iterations,
  extracted, resolved, result, pc, \* the reader, see ArchiveExtract
  stage, lib, obj, item,           \* which loop runs, and its cursors
  placed,                          \* codeOff and dataOff of each merged object
  merged_code, merged_data, globalSymbols,
  importModules, import_symbols, truly_unresolved, warnings, output

input   == <<compiled, libraries, target>>
tables  == <<objects, defined_symbols, undefined_symbols, still_undefined>>
reader  == <<archive, needed, pending, new_pending, importing, iterations, extracted,
             resolved, result, pc>>
cursors == <<stage, lib, obj, item>>
layout  == <<placed, merged_code, merged_data, globalSymbols>>
imports == <<importModules, import_symbols>>
verdict == <<truly_unresolved, warnings, output>>
vars == <<input, tables, selection, reader, cursors, layout, imports, verdict>>

Reader == INSTANCE ArchiveExtract WITH Symbol <- Name, Archives <- {}, Requests <- {}

Exports(o) == DOMAIN o.exports

-----------------------------------------------------------------------------
(* What the inputs are.                                                    *)

IsObject(o) ==
  /\ DOMAIN o.exports \subseteq Name
  /\ \A n \in DOMAIN o.exports :
       o.exports[n].section \in {"Text", "Data"} /\ o.exports[n].offset \in Int
  /\ o.imports \in Seq(Name)
  /\ o.code \in Nat /\ o.data \in Nat
  /\ o.dll_imports \in Seq([symbol : Name, dll : Dll, ordinal : Nat])

IsLibrary(l) ==
  /\ l.loads \in BOOLEAN
  /\ DOMAIN l.map \subseteq Name /\ \A n \in DOMAIN l.map : l.map[n] \in Offset
  /\ l.member = [o \in Offset |-> l.member[o]] /\ \A o \in Offset : IsObject(l.member[o])

ASSUME InputAssumption ==
  /\ \A p \in Programs : p \in Seq(ToSet(p)) /\ \A i \in DOMAIN p : IsObject(p[i])
  /\ \A ls \in LibraryLists : ls \in Seq(ToSet(ls))
  /\ \A ls \in LibraryLists : \A i \in DOMAIN ls : IsLibrary(ls[i])
  /\ Targets \subseteq {"exe", "other"}
ASSUME BoundAssumption == MaxIterations \in Nat \ {0}
ASSUME KernelAssumption ==
  /\ Main \in Base /\ {KernelDll, XamDll} \subseteq Dll
  /\ DOMAIN KernelOrdinals \subseteq Base
  /\ \A b \in DOMAIN KernelOrdinals : KernelOrdinals[b] \in Nat \ {0}
  /\ DOMAIN XamOrdinals \subseteq Base
  /\ \A b \in DOMAIN XamOrdinals : XamOrdinals[b] \in Nat \ {0}

Init ==
  /\ compiled \in Programs /\ libraries \in LibraryLists /\ target \in Targets
  /\ objects = compiled
  /\ defined_symbols = {} /\ undefined_symbols = << >> /\ still_undefined = << >>
  /\ selection = << >>
  /\ archive = [map |-> << >>, member |-> [o \in Offset |-> InvalidMember]]
  /\ Reader!Idle
  /\ stage = "start" /\ lib = 1 /\ obj = 1 /\ item = 1
  /\ placed = << >> /\ merged_code = 0 /\ merged_data = 0 /\ globalSymbols = << >>
  /\ importModules = << >> /\ import_symbols = {}
  /\ truly_unresolved = {} /\ warnings = {} /\ output = "none"

-----------------------------------------------------------------------------
(* Phase 1: the imports no compiled object defines.                        *)

Refuse ==   \* "No object files to link"
  /\ stage = "start" /\ objects = << >>
  /\ stage' = "failed"
  /\ UNCHANGED <<input, tables, selection, reader, lib, obj, item, layout, imports, verdict>>

DefineCompiled ==
  /\ stage = "start" /\ objects # << >>
  /\ defined_symbols' = UNION {Exports(objects[k]) : k \in DOMAIN objects}
  /\ stage' = "collect"
  /\ UNCHANGED <<input, objects, undefined_symbols, still_undefined, selection, reader,
                 lib, obj, item, layout, imports, verdict>>

CollectImport ==
  /\ stage = "collect" /\ obj <= Len(objects) /\ item <= Len(objects[obj].imports)
  /\ LET imp == objects[obj].imports[item] IN
       undefined_symbols' = IF imp \in defined_symbols THEN undefined_symbols
                            ELSE Append(undefined_symbols, imp)
  /\ item' = item + 1
  /\ UNCHANGED <<input, objects, defined_symbols, still_undefined, selection, reader,
                 stage, lib, obj, layout, imports, verdict>>

CollectNext ==
  /\ stage = "collect" /\ obj <= Len(objects) /\ item > Len(objects[obj].imports)
  /\ obj' = obj + 1
  /\ item' = 1
  /\ UNCHANGED <<input, tables, selection, reader, stage, lib, layout, imports, verdict>>

(* With libraries the same loop runs again and appends the same names.     *)
EndCollect ==
  /\ stage = "collect" /\ obj > Len(objects)
  /\ undefined_symbols' = IF libraries = << >> THEN undefined_symbols
                          ELSE undefined_symbols \o undefined_symbols
  /\ stage' = IF undefined_symbols = << >> THEN "place" ELSE "search"
  /\ obj' = 1
  /\ UNCHANGED <<input, objects, defined_symbols, still_undefined, selection, reader,
                 lib, item, layout, imports, verdict>>

-----------------------------------------------------------------------------
(* Phase 2: one library after the other.                                   *)

SkipLibrary ==   \* it does not load: its errors become warnings
  /\ stage = "search" /\ lib <= Len(libraries) /\ ~libraries[lib].loads
  /\ warnings' = warnings \cup {"library"}
  /\ lib' = lib + 1
  /\ UNCHANGED <<input, tables, selection, reader, stage, obj, item, layout, imports,
                 truly_unresolved, output>>

OpenLibrary ==
  /\ stage = "search" /\ lib <= Len(libraries) /\ libraries[lib].loads
  /\ archive' = [map |-> libraries[lib].map, member |-> libraries[lib].member]
  /\ selection' = << >>
  /\ item' = 1
  /\ stage' = "select"
  /\ UNCHANGED <<input, tables, needed, pending, new_pending, importing, iterations,
                 extracted, resolved, result, pc, lib, obj, layout, imports, verdict>>

(* The spellings tried for a symbol, in order: behind a decoration only    *)
(* __imp_ still gives a name some library has.                             *)
Variants(n) ==
  IF n.deco = "" THEN <<n, Decorated(n.base, "_"), Decorated(n.base, "__imp_"),
                        Decorated(n.base, "__imp__"), Decorated(n.base, "_@")>>
  ELSE IF n.deco \in {"_", "_@"} THEN <<n, ImpVariant(n)>>
  ELSE <<n>>

Hits(n) == {i \in DOMAIN Variants(n) : Variants(n)[i] \in DOMAIN archive.map}

FirstHit(n) == Variants(n)[CHOOSE i \in Hits(n) : \A j \in Hits(n) : i <= j]

SelectSymbol ==
  /\ stage = "select" /\ item <= Len(undefined_symbols)
  /\ LET sym == undefined_symbols[item] IN
       selection' = IF sym \in defined_symbols \/ Hits(sym) = {} THEN selection
                    ELSE Append(selection, FirstHit(sym))
  /\ item' = item + 1
  /\ UNCHANGED <<input, tables, reader, stage, lib, obj, layout, imports, verdict>>

(* A variant of NothingSelected that tries the same library again.         *)
NothingSelectedAgain ==
  /\ stage = "select" /\ item > Len(undefined_symbols) /\ selection = << >>
  /\ stage' = "search"
  /\ UNCHANGED <<input, tables, selection, reader, lib, obj, item, layout, imports, verdict>>

NothingSelected ==   \* `continue` with the next library
  /\ stage = "select" /\ item > Len(undefined_symbols) /\ selection = << >>
  /\ lib' = lib + 1
  /\ stage' = "search"
  /\ UNCHANGED <<input, tables, selection, reader, obj, item, layout, imports, verdict>>

CallExtract ==
  /\ stage = "select" /\ item > Len(undefined_symbols) /\ selection # << >>
  /\ Reader!Begin(selection)
  /\ stage' = "extract"
  /\ UNCHANGED <<input, tables, selection, archive, lib, obj, item, layout, imports, verdict>>

Extract ==
  /\ stage = "extract"
  /\ Reader!Step
  /\ UNCHANGED <<input, tables, selection, archive, stage, lib, obj, item, layout, imports,
                 verdict>>

EndExtract ==
  /\ stage = "extract" /\ pc = "done"
  /\ stage' = "absorb"
  /\ item' = 1
  /\ UNCHANGED <<input, tables, selection, reader, lib, obj, layout, imports, verdict>>

(* objects_.push_back; the variant inserts library objects first.          *)
WithMemberInFront(objs, o) == <<o>> \o objs
WithMember(objs, o) == Append(objs, o)

(* A returned object: its exports are defined, its imports are not looked  *)
(* at again.                                                               *)
AbsorbMember ==
  /\ stage = "absorb" /\ item <= Len(result)
  /\ defined_symbols' = defined_symbols \cup Exports(archive.member[result[item]])
  /\ objects' = WithMember(objects, archive.member[result[item]])
  /\ item' = item + 1
  /\ UNCHANGED <<input, undefined_symbols, still_undefined, selection, reader, stage,
                 lib, obj, layout, imports, verdict>>

EndAbsorb ==
  /\ stage = "absorb" /\ item > Len(result)
  /\ still_undefined' = << >>
  /\ stage' = "filter"
  /\ item' = 1
  /\ UNCHANGED <<input, objects, defined_symbols, undefined_symbols, selection, reader,
                 lib, obj, layout, imports, verdict>>

(* A name is dropped from the undefined list; the variant drops every name *)
(* the library lists.                                                      *)
DropsListed(sym) == sym \in defined_symbols \/ Hits(sym) # {}
Drops(sym) == sym \in defined_symbols

FilterSymbol ==
  /\ stage = "filter" /\ item <= Len(undefined_symbols)
  /\ LET sym == undefined_symbols[item] IN
       still_undefined' = IF Drops(sym) THEN still_undefined
                          ELSE Append(still_undefined, sym)
  /\ item' = item + 1
  /\ UNCHANGED <<input, objects, defined_symbols, undefined_symbols, selection, reader,
                 stage, lib, obj, layout, imports, verdict>>

EndFilter ==
  /\ stage = "filter" /\ item > Len(undefined_symbols)
  /\ undefined_symbols' = still_undefined
  /\ lib' = lib + 1
  /\ stage' = "search"
  /\ UNCHANGED <<input, objects, defined_symbols, still_undefined, selection, reader,
                 obj, item, layout, imports, verdict>>

EndSearch ==
  /\ stage = "search" /\ lib > Len(libraries)
  /\ stage' = "place"
  /\ UNCHANGED <<input, tables, selection, reader, lib, obj, item, layout, imports, verdict>>

-----------------------------------------------------------------------------
(* Phase 3: lay the objects out, in order, and collect the DLL imports.    *)

(* Only objects that stand for no DLL import contribute bytes.             *)
IsImportDefinition(o) == o.dll_imports # << >>

(* adjustedOffset: from where the object's section starts.                 *)
Address(place, symbol) ==
  symbol.offset + (IF symbol.section = "Text" THEN place.code ELSE place.data)

(* codeOff and dataOff; the variant mixes the two up.                      *)
HereMixed == [code |-> merged_code, data |-> merged_code]
Here == [code |-> merged_code, data |-> merged_data]

(* globalSymbols after an object: the first definition stays; in the       *)
(* variant the last one does.                                              *)
DefineLastWins(known, place, exports) ==
  [n \in DOMAIN known \cup DOMAIN exports |->
     IF n \in DOMAIN exports THEN Address(place, exports[n]) ELSE known[n]]
Define(known, place, exports) ==
  [n \in DOMAIN known \cup DOMAIN exports |->
     IF n \in DOMAIN known THEN known[n] ELSE Address(place, exports[n])]

PlaceObject ==
  /\ stage = "place" /\ obj <= Len(objects)
  /\ LET o == objects[obj] IN
       /\ placed' = Append(placed, Here)
       /\ merged_code' = IF IsImportDefinition(o) THEN merged_code ELSE merged_code + o.code
       /\ merged_data' = IF IsImportDefinition(o) THEN merged_data ELSE merged_data + o.data
       /\ globalSymbols' = Define(globalSymbols, Here, o.exports)
  /\ item' = 1
  /\ stage' = "imports"
  /\ UNCHANGED <<input, tables, selection, reader, lib, obj, imports, verdict>>

Entries(dll) == IF dll \in DOMAIN importModules THEN importModules[dll] ELSE << >>

(* importModules[dll] = entries, creating the module if need be.           *)
SetEntries(dll, entries) ==
  importModules' = [d \in DOMAIN importModules \cup {dll} |->
                      IF d = dll THEN entries ELSE importModules[d]]

(* The module has an entry for the ordinal already; the variant looks      *)
(* through every module.                                                   *)
KnownAnywhere(imp) ==
  \E d \in DOMAIN importModules : \E e \in ToSet(importModules[d]) : e.ordinal = imp.ordinal
Known(imp) == \E e \in ToSet(Entries(imp.dll)) : e.ordinal = imp.ordinal

CollectDllImport ==
  /\ stage = "imports" /\ item <= Len(objects[obj].dll_imports)
  /\ LET imp == objects[obj].dll_imports[item] IN
       /\ import_symbols' = import_symbols \cup {imp.symbol}
       /\ SetEntries(imp.dll, IF Known(imp) THEN Entries(imp.dll)
                              ELSE Append(Entries(imp.dll),
                                          [symbol |-> imp.symbol, ordinal |-> imp.ordinal]))
  /\ item' = item + 1
  /\ UNCHANGED <<input, tables, selection, reader, stage, lib, obj, layout, verdict>>

NextObject ==
  /\ stage = "imports" /\ item > Len(objects[obj].dll_imports)
  /\ obj' = obj + 1
  /\ stage' = "place"
  /\ UNCHANGED <<input, tables, selection, reader, lib, item, layout, imports, verdict>>

EndPlace ==
  /\ stage = "place" /\ obj > Len(objects)
  /\ item' = 1
  /\ stage' = "report"
  /\ UNCHANGED <<input, tables, selection, reader, lib, obj, layout, imports, verdict>>

-----------------------------------------------------------------------------
(* Report what is still open.  `reported` holds exactly the names this     *)
(* loop has put into import_symbols or truly_unresolved.                   *)

Settled(sym) == \/ sym \in DOMAIN globalSymbols
                \/ sym \in import_symbols \cup truly_unresolved

(* find_kernel_ordinal: the exact name, without one leading underscore, or *)
(* without __imp_; 0 when the table does not know it.                      *)
FindKernelOrdinal(sym, ordinals) ==
  IF sym.deco \in {"", "_", "__imp_"} /\ sym.base \in DOMAIN ordinals
  THEN ordinals[sym.base] ELSE 0

SkipSettled ==
  /\ stage = "report" /\ item <= Len(undefined_symbols)
  /\ Settled(undefined_symbols[item])
  /\ item' = item + 1
  /\ UNCHANGED <<input, tables, selection, reader, stage, lib, obj, layout, imports, verdict>>

(* The kernel table answers; failing that, the xam table.  The entry is    *)
(* added without looking for its ordinal.                                  *)
FallBack(dll, ordinals) ==
  /\ stage = "report" /\ item <= Len(undefined_symbols)
  /\ LET sym == undefined_symbols[item]
         ord == FindKernelOrdinal(sym, ordinals)
     IN  /\ ~Settled(sym) /\ ord # 0
         /\ dll = XamDll => FindKernelOrdinal(sym, KernelOrdinals) = 0
         /\ SetEntries(dll, Append(Entries(dll), [symbol |-> sym, ordinal |-> ord]))
         /\ import_symbols' = import_symbols \cup {sym}
  /\ item' = item + 1
  /\ UNCHANGED <<input, tables, selection, reader, stage, lib, obj, layout, verdict>>

(* A variant of ReportUnresolved that forgets the name.                    *)
ReportNothing ==
  /\ stage = "report" /\ item <= Len(undefined_symbols)
  /\ LET sym == undefined_symbols[item] IN
       /\ ~Settled(sym)
       /\ FindKernelOrdinal(sym, KernelOrdinals) = 0 /\ FindKernelOrdinal(sym, XamOrdinals) = 0
  /\ item' = item + 1
  /\ UNCHANGED <<input, tables, selection, reader, stage, lib, obj, layout, imports, verdict>>

ReportUnresolved ==
  /\ stage = "report" /\ item <= Len(undefined_symbols)
  /\ LET sym == undefined_symbols[item] IN
       /\ ~Settled(sym)
       /\ FindKernelOrdinal(sym, KernelOrdinals) = 0 /\ FindKernelOrdinal(sym, XamOrdinals) = 0
       /\ truly_unresolved' = truly_unresolved \cup {sym}
  /\ item' = item + 1
  /\ UNCHANGED <<input, tables, selection, reader, stage, lib, obj, layout, imports,
                 warnings, output>>

(* What std::sort by ordinal can make of a module's entries: it is not     *)
(* stable.                                                                 *)
SortedForms(entries) ==
  {t \in {[i \in DOMAIN entries |-> entries[p[i]]] :
            p \in {q \in [DOMAIN entries -> DOMAIN entries] :
                    \A i, j \in DOMAIN entries : i # j => q[i] # q[j]}} :
     \A i, j \in DOMAIN t : i < j => t[i].ordinal <= t[j].ordinal}

(* The import modules are sorted, then the warnings are added.             *)
EndReport ==
  /\ stage = "report" /\ item > Len(undefined_symbols)
  /\ \E sorted \in [DOMAIN importModules ->
                     UNION {SortedForms(importModules[d]) : d \in DOMAIN importModules}] :
       /\ \A d \in DOMAIN importModules : sorted[d] \in SortedForms(importModules[d])
       /\ importModules' = sorted
  /\ warnings' = warnings \cup (IF truly_unresolved # {} THEN {"unresolved"} ELSE {})
                          \cup (IF Plain(Main) \in DOMAIN globalSymbols THEN {} ELSE {"no main"})
  /\ stage' = "write"
  /\ UNCHANGED <<input, tables, selection, reader, lib, obj, item, layout, import_symbols,
                 truly_unresolved, output>>

(* A PE image has the import table, an ELF image has none.  Neither        *)
(* warnings nor a file that cannot be written make link() fail.            *)
WriteImage ==
  /\ stage = "write"
  /\ output' = IF target = "exe" THEN "pe" ELSE "elf"
  /\ stage' = "linked"
  /\ UNCHANGED <<input, tables, selection, reader, lib, obj, item, layout, imports,
                 truly_unresolved, warnings>>

Collect == DefineCompiled \/ CollectImport \/ CollectNext \/ EndCollect
Select  == SelectSymbol \/ NothingSelected \/ CallExtract
Search  == \/ SkipLibrary \/ OpenLibrary \/ Select \/ Extract \/ EndExtract
           \/ AbsorbMember \/ EndAbsorb \/ FilterSymbol \/ EndFilter \/ EndSearch
Place   == PlaceObject \/ CollectDllImport \/ NextObject \/ EndPlace
Report  == \/ SkipSettled \/ FallBack(KernelDll, KernelOrdinals) \/ FallBack(XamDll, XamOrdinals)
           \/ ReportUnresolved \/ EndReport

Next == Refuse \/ Collect \/ Search \/ Place \/ Report \/ WriteImage

Spec == Init /\ [][Next]_vars

(* One sequential function: once entered, it runs on.                      *)
FairSpec == Spec /\ WF_vars(Next)

-----------------------------------------------------------------------------
Stages == {"start", "collect", "search", "select", "extract", "absorb", "filter", "place",
           "imports", "report", "write", "linked", "failed"}

DllImports == [symbol : Name, ordinal : Nat]

InputOK ==
  /\ compiled \in Seq(ToSet(compiled)) /\ \A i \in DOMAIN compiled : IsObject(compiled[i])
  /\ libraries \in Seq(ToSet(libraries)) /\ \A i \in DOMAIN libraries : IsLibrary(libraries[i])
  /\ target \in {"exe", "other"}
ObjectsOK == objects \in Seq(ToSet(objects)) /\ \A k \in DOMAIN objects : IsObject(objects[k])
NamesOK ==
  /\ defined_symbols \subseteq Name
  /\ undefined_symbols \in Seq(Name) /\ still_undefined \in Seq(Name) /\ selection \in Seq(Name)
CursorsOK ==
  /\ stage \in Stages
  /\ lib \in 1..(Len(libraries) + 1) /\ obj \in 1..(Len(objects) + 1) /\ item \in Nat \ {0}
LayoutOK ==
  /\ placed \in Seq([code : Nat, data : Nat])
  /\ merged_code \in Nat /\ merged_data \in Nat
  /\ DOMAIN globalSymbols \subseteq Name
  /\ \A n \in DOMAIN globalSymbols : globalSymbols[n] \in Int
ImportsOK ==
  /\ DOMAIN importModules \subseteq Dll
  /\ \A d \in DOMAIN importModules : importModules[d] \in Seq(DllImports)
  /\ import_symbols \subseteq Name
VerdictOK ==
  /\ truly_unresolved \subseteq Name
  /\ warnings \subseteq {"library", "unresolved", "no main"}
  /\ output \in {"none", "pe", "elf"}
TypeOK == /\ InputOK /\ ObjectsOK /\ NamesOK /\ Reader!TypeOK /\ CursorsOK
          /\ LayoutOK /\ ImportsOK /\ VerdictOK

(* The first object in link order that defines a symbol provides it: every *)
(* entry of globalSymbols is the address of the definition in the earliest *)
(* placed object that exports the name, and every name a placed object     *)
(* exports has an entry (linker.cpp:271-284).                              *)
FirstDefinitionWins ==
  /\ DOMAIN globalSymbols = UNION {Exports(objects[k]) : k \in DOMAIN placed}
  /\ \A n \in DOMAIN globalSymbols : \E k \in DOMAIN placed :
       /\ n \in Exports(objects[k])
       /\ \A j \in 1..(k-1) : n \notin Exports(objects[j])
       /\ globalSymbols[n] = Address(placed[k], objects[k].exports[n])

(* The code and data bytes of two objects never overlap, and all lie in    *)
(* the merged sections (linker.cpp:271-278).  Nothing is said of bss: it   *)
(* has no bytes, and a bss symbol shares its address with the data that    *)
(* follows.                                                                *)
RegionsDisjoint ==
  \A k \in DOMAIN placed : ~IsImportDefinition(objects[k]) =>
    LET codeEnd == placed[k].code + objects[k].code
        dataEnd == placed[k].data + objects[k].data
    IN  /\ codeEnd <= merged_code /\ dataEnd <= merged_data
        /\ \A j \in (k+1)..Len(placed) : codeEnd <= placed[j].code /\ dataEnd <= placed[j].data

(* No library can displace a function the user wrote: what a compiled      *)
(* object defines is taken from a compiled object, also when an extracted  *)
(* member defines it again (linker.cpp:242-248, 280-284).                  *)
UserDefinitionsStand ==
  \A n \in DOMAIN globalSymbols :
    (\E c \in DOMAIN compiled : n \in Exports(compiled[c])) =>
      \E k \in DOMAIN placed \cap DOMAIN compiled :
        /\ n \in Exports(compiled[k])
        /\ globalSymbols[n] = Address(placed[k], compiled[k].exports[n])

(* Libraries are searched in command-line order: an import the compiled    *)
(* objects leave open never gets its definition from a library behind one  *)
(* that offers it, a loadable library that maps the name to a member       *)
(* exporting it.  A library before that one comes first only with a member *)
(* it gave for another name (linker.cpp:188-256).                          *)
Offers(l, n) == /\ libraries[l].loads /\ n \in DOMAIN libraries[l].map
                /\ n \in Exports(libraries[l].member[libraries[l].map[n]])
FromLibrary(o, last) == \E l \in 1..last : \E f \in Offset : o = libraries[l].member[f]
FirstLibraryWins ==
  \A n \in {m \in DOMAIN globalSymbols : \E c \in DOMAIN compiled : m \in ToSet(compiled[c].imports)} :
    \A l \in DOMAIN libraries :
      Offers(l, n) /\ (\A c \in DOMAIN compiled : n \notin Exports(compiled[c]))
      => \E k \in DOMAIN placed :
           /\ FromLibrary(objects[k], l) /\ n \in Exports(objects[k])
           /\ globalSymbols[n] = Address(placed[k], objects[k].exports[n])

UserImports == UNION {ToSet(compiled[c].imports) : c \in DOMAIN compiled}

(* No import of the compiled objects drops out on the way through the      *)
(* undefined lists: once the lists are complete each one is defined, or    *)
(* still listed, and at the end each one has an address, a DLL import, or  *)
(* is counted as unresolved (linker.cpp:165-178, 251-257, 302-326).        *)
UserImportsAccounted ==
  /\ stage \notin {"start", "collect", "failed"} =>
       UserImports \subseteq defined_symbols \cup ToSet(undefined_symbols)
  /\ stage \in {"write", "linked"} => \A n \in UserImports : Settled(n)

(* A symbol counted as unresolved really is: no linked object exports it   *)
(* and no DLL import stands for it; and the warning, which gives the count *)
(* only, is there iff an import of the compiled objects has neither an     *)
(* address nor a DLL import (linker.cpp:305-328).                          *)
ReportIsRight ==
  /\ truly_unresolved \cap (DOMAIN globalSymbols \cup import_symbols) = {}
  /\ stage \in {"write", "linked"} =>
       ("unresolved" \notin warnings <=> UserImports \subseteq DOMAIN globalSymbols \cup import_symbols)

(* The import table answers for every DLL import: each import definition   *)
(* that was linked has an entry with its DLL and ordinal, whatever         *)
(* duplicates came before it; and while they are collected no module       *)
(* imports an ordinal twice (linker.cpp:287-299).  The fallbacks that      *)
(* follow add theirs without looking (lines 313, 321).                     *)
DistinctIn(entries) ==
  \A i, j \in DOMAIN entries : i # j => entries[i].ordinal # entries[j].ordinal
ImportTableComplete ==
  /\ stage \in {"report", "write", "linked"} =>
       \A k \in DOMAIN objects : \A i \in DOMAIN objects[k].dll_imports :
         LET imp == objects[k].dll_imports[i] IN
           \E e \in ToSet(Entries(imp.dll)) : e.ordinal = imp.ordinal
  /\ stage \in {"place", "imports"} => \A d \in DOMAIN importModules : DistinctIn(importModules[d])

(* "Report unresolved (excluding DLL imports and kernel fallbacks)"        *)
(* (linker.cpp:302): when the image is written, an import of any linked    *)
(* object is defined, a DLL import, or reported.                           *)
AllUnresolvedReported ==
  stage = "linked" =>
    \A k \in DOMAIN objects : \A n \in ToSet(objects[k].imports) : Settled(n)

(* link() returns (linker.cpp:162-366).                                    *)
Returns == <>(stage \in {"linked", "failed"})
=============================================================================
