---------------------------- MODULE LibraryReader ----------------------------
(***************************************************************************)
(* A CoffLibReader as Linker::link uses it: load() reads the archive's     *)
(* symbol table entry by entry, and extract_needed() then works on the map *)
(* the table has left.  A library that does not load is not asked.         *)
(***************************************************************************)
EXTENDS ArchiveExtract

CONSTANTS Base, NoName,
          Libraries    \* [file, member]: what is on the disk

VARIABLES file, symbol_map_, member_offsets_, next,
          stage        \* how far load() has come

loadvars == <<file, symbol_map_, member_offsets_, next, stage>>

Loading == INSTANCE CoffArchive WITH pc <- stage

(* The map when all entries are read.                                      *)
MapOf(f) ==
  IF f.opens /\ f.signature /\ f.count_fits
  THEN FoldLeft(LAMBDA map, e : IF e.name = NoName THEN map ELSE Loading!Mapped(map, e), << >>, f.entries)
  ELSE << >>

ASSUME LibrariesAssumption ==
  \A l \in Libraries : Loading!IsFile(l.file) /\ IsArchive([map |-> MapOf(l.file), member |-> l.member])

(* The empty string is no symbol's name.                                   *)
ASSUME NoNameAssumption == NoName \notin Loading!Name

ReaderInit ==
  /\ \E l \in Libraries : file = l.file /\ archive = [map |-> MapOf(file), member |-> l.member]
  /\ Loading!Init
  /\ Idle

Load == Loading!Next /\ UNCHANGED vars
Extract == stage = "loaded" /\ archive.map = symbol_map_ /\ Next /\ UNCHANGED loadvars

ReaderNext == Load \/ Extract

ReaderSpec == ReaderInit /\ [][ReaderNext]_<<vars, loadvars>> /\ WF_vars(Extract /\ Work)

(* What the table maps is what a lookup of the loaded library must return, *)
(* whatever order exact names and aliases come in (coff_reader.cpp:140).   *)
MapIsFirstMatch == Loading!MapIsFirstMatch
=============================================================================
