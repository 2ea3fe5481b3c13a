----------------------------- MODULE CoffArchive -----------------------------
(***************************************************************************)
(* CoffLibReader: loading a library and reading the archive's symbol table *)
(* into symbol_map_ (load, parse_first_linker_member).                     *)
(*                                                                         *)
(* The file is abstracted to what these loops decide on: whether it opens  *)
(* and has the archive signature, whether the symbol count fits the first  *)
(* linker member, and the (name, offset) pairs it lists.                   *)
(***************************************************************************)
EXTENDS CoffNames, Integers, Sequences

CONSTANTS Offset,      \* archive offsets of members
          NoName       \* the empty string in the name table

(* An entry of the first linker member.                                    *)
Entry == [name : Name \cup {NoName}, offset : Offset]

IsFile(f) ==
  /\ f.opens \in BOOLEAN /\ f.signature \in BOOLEAN /\ f.count_fits \in BOOLEAN
  /\ f.entries \in Seq(Entry)

-----------------------------------------------------------------------------
VARIABLES file,             \* the file being read
          symbol_map_,      \* name -> offset
          member_offsets_,  \* the offsets seen
          next,             \* index of the next entry
          pc                \* "load", "names", "loaded" or "failed"

vars == <<file, symbol_map_, member_offsets_, next, pc>>

(* A new reader, for any file.                                             *)
Init ==
  /\ symbol_map_ = << >>
  /\ member_offsets_ = {}
  /\ next = 1
  /\ pc = "load"

(* Cannot open, too small, or no archive signature.                        *)
RejectFile ==
  /\ pc = "load"
  /\ ~(file.opens /\ file.signature)
  /\ pc' = "failed"
  /\ UNCHANGED <<file, symbol_map_, member_offsets_, next>>

(* The first member is taken to be the symbol table.  A count that does    *)
(* not fit leaves the map empty, and the archive still counts as loaded.   *)
OpenTable ==
  /\ pc = "load"
  /\ file.opens /\ file.signature
  /\ pc' = IF file.count_fits THEN "names" ELSE "loaded"
  /\ UNCHANGED <<file, symbol_map_, member_offsets_, next>>

(* The map after an entry; in the variant the alias replaces what is       *)
(* mapped.                                                                 *)
MappedAliasWins(map, e) ==
  [n \in DOMAIN map \cup {e.name, Undecorated(e.name)} |->
     IF n \in {e.name, Undecorated(e.name)} THEN e.offset ELSE map[n]]
Mapped(map, e) ==
  [n \in DOMAIN map \cup {e.name, Undecorated(e.name)} |->
     IF n = e.name \/ n \notin DOMAIN map THEN e.offset ELSE map[n]]

(* One listed name: its own entry replaces whatever was mapped, the alias  *)
(* under its undecorated form is only added where nothing is mapped yet.   *)
MapSymbol ==
  /\ pc = "names" /\ next <= Len(file.entries)
  /\ LET e == file.entries[next] IN
       IF e.name = NoName
       THEN UNCHANGED <<symbol_map_, member_offsets_>>
       ELSE /\ symbol_map_' = Mapped(symbol_map_, e)
            /\ member_offsets_' = member_offsets_ \cup {e.offset}
  /\ next' = next + 1
  /\ UNCHANGED <<file, pc>>

EndTable ==
  /\ pc = "names" /\ next > Len(file.entries)
  /\ pc' = "loaded"
  /\ UNCHANGED <<file, symbol_map_, member_offsets_, next>>

Next == RejectFile \/ OpenTable \/ MapSymbol \/ EndTable
-----------------------------------------------------------------------------
(* The entries read so far that list a name, or lead to it undecorated.    *)
Listing(n) == {i \in 1..(next - 1) : file.entries[i].name = n}
Aliasing(n) == {i \in 1..(next - 1) : /\ file.entries[i].name # NoName
                                      /\ Undecorated(file.entries[i].name) = n}

(* What a lookup must return: the last entry that lists the very name; if  *)
(* none does, the first whose undecorated form it is ("first match wins",  *)
(* coff_reader.cpp:173).                                                   *)
MeantEntry(n) ==
  IF Listing(n) # {} THEN CHOOSE i \in Listing(n) : \A j \in Listing(n) : j <= i
  ELSE CHOOSE i \in Aliasing(n) : \A j \in Aliasing(n) : i <= j

(* The incremental map equals that definition after every entry, whatever  *)
(* order exact names and aliases come in (coff_reader.cpp:140-178).        *)
MapIsFirstMatch ==
  pc \in {"names", "loaded"} =>
    /\ DOMAIN symbol_map_ = {n \in Name : Listing(n) \cup Aliasing(n) # {}}
    /\ \A n \in DOMAIN symbol_map_ :
         symbol_map_[n] = file.entries[MeantEntry(n)].offset
=============================================================================
