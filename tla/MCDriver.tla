------------------------------- MODULE MCDriver -------------------------------
(***************************************************************************)
(* Runs of the program.  For the writers: one source, every program with   *)
(* sizes at and around the alignments, an entry at the start, in the       *)
(* middle and at the end of the code, and imports from up to three DLLs.   *)
(* For the driver: every combination of flags, fates of up to two sources  *)
(* and places of up to two libraries, with a few programs.                 *)
(***************************************************************************)
EXTENDS Driver

CONSTANTS CodeSizes, DataSizes, NameSizes, EntryCounts

Dlls == [name : NameSizes, entries : EntryCounts]
MCImports == {<< >>} \cup UNION {[1..n -> Dlls] : n \in 1..2}
             \cup {<<d, d, d>> : d \in Dlls}
MCPrograms ==
  {p \in [code : CodeSizes, data : DataSizes, main : {NoMain} \cup {0, 4, 508, 65532}, imports : MCImports,
          suffix : {"exe", "elf"}] :
     p.main < p.code /\ (p.suffix = "elf" => p.imports = << >>)}

Plain == [arguments |-> "valid", flags |-> {"xex"}, sources |-> <<"compiles">>, output |-> "default",
          libs |-> << >>, imagexex |-> "absent"]
OfOne(set) == {<<x>> : x \in set}
UpToTwo(set) == {<< >>} \cup OfOne(set) \cup {<<x, y>> : x \in set, y \in set}

MCOptions ==
  [arguments : {"valid"}, flags : SUBSET Flag, sources : UpToTwo(Fate), output : {"default"},
   libs : {<< >>}, imagexex : {"absent"}]
  \cup {[Plain EXCEPT !.arguments = a] : a \in {"help", "invalid"}}
  \cup {[Plain EXCEPT !.output = o, !.imagexex = i, !.flags = f, !.libs = l] :
          o \in Suffix, i \in {"absent", "works", "fails"}, f \in {{}, {"xex"}}, l \in UpToTwo(SUBSET (0..2))}

(* The writers do not depend on the options but for the suffix, so a run   *)
(* with options out of the ordinary builds one of the smallest programs.   *)
Ordinary == {Plain, [Plain EXCEPT !.output = "elf"]}
Small == [code : {4}, data : {16}, main : {0}, imports : {<< >>, <<[name |-> 12, entries |-> 1]>>},
          suffix : {"exe", "elf"}] \cap Programs
MCInit ==
  /\ \/ options \in Ordinary /\ program \in Programs
     \/ options \in Options \ Ordinary /\ program \in Small
  /\ DriverInit
MCSpec == MCInit /\ [][DriverNext]_allvars
=============================================================================
