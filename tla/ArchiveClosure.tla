--------------------------- MODULE ArchiveClosure ---------------------------
(***************************************************************************)
(* What pulling members out of a COFF archive promises, without the work   *)
(* list, the rounds and the bookkeeping of CoffLibReader::extract_needed:  *)
(* members are linked one at a time, only while something already linked   *)
(* (or the caller) demands them, and the job is complete only when every   *)
(* demand the archive can meet has been met.                               *)
(***************************************************************************)
EXTENDS Naturals, FiniteSets

CONSTANTS Symbol,  \* symbol names
          Offset,  \* archive offsets: the identity of a member
          Budget   \* members that must be linked before giving up is allowed

VARIABLES archive,   \* [map, member]: the symbol map and the members
          wanted,    \* the names the caller asked for
          linked,    \* offsets of the members pulled so far
          verdict    \* "idle", "open", "complete" or "gaveUp"

vars == <<archive, wanted, linked, verdict>>

(* Names asked for by the caller or imported by a linked member.           *)
Demanded ==
  wanted \cup UNION {{archive.member[o].imports[i] :
                        i \in DOMAIN archive.member[o].imports} : o \in linked}

(* Members the symbol map names for some demanded symbol.                  *)
Providers == {archive.map[s] : s \in Demanded \cap DOMAIN archive.map}

(* A demanded symbol is met by a linked member that exports it, or by the  *)
(* member the map names for it being linked.                               *)
Met(s) == \/ \E o \in linked : s \in DOMAIN archive.member[o].exports
          \/ archive.map[s] \in linked

Init ==
  /\ wanted = {}
  /\ linked = {}
  /\ verdict = "idle"

(* The caller names the symbols it misses.                                 *)
Ask ==
  /\ verdict = "idle"
  /\ verdict' = "open"
  /\ wanted' \in SUBSET Symbol
  /\ UNCHANGED <<archive, linked>>

(* A demanded member that is not linked yet is linked, for good.           *)
Pull(o) ==
  /\ verdict = "open"
  /\ o \in Providers \ linked
  /\ linked' = linked \cup {o}
  /\ UNCHANGED <<archive, wanted, verdict>>

(* Nothing the archive could still meet is left open.                      *)
Complete ==
  /\ verdict = "open"
  /\ \A s \in Demanded \cap DOMAIN archive.map : Met(s)
  /\ verdict' = "complete"
  /\ UNCHANGED <<archive, wanted, linked>>

(* Stopping early is allowed only after Budget members were linked, and is *)
(* never reported as completeness.                                         *)
GiveUp ==
  /\ verdict = "open"
  /\ Cardinality(linked) >= Budget
  /\ verdict' = "gaveUp"
  /\ UNCHANGED <<archive, wanted, linked>>

Next == Ask \/ (\E o \in Offset : Pull(o)) \/ Complete \/ GiveUp

Spec == Init /\ [][Next]_vars
=============================================================================
