----------------------------- MODULE CoffMembers -----------------------------
(***************************************************************************)
(* The object file the linker merges for an archive member                 *)
(* (CoffLibReader::extract_member and parse_coff_object).                  *)
(*                                                                         *)
(* A section is [class, size]: "text" is code (by name and by its flag),   *)
(* "data" any initialised data, "bss" the rest; its bytes are their        *)
(* number.  A symbol is [name, value, section, external], section 0 for an *)
(* undefined one.                                                          *)
(***************************************************************************)
EXTENDS CoffNames, Integers, Sequences, SequencesExt

SumSizes(sections, class) ==
  FoldLeft(LAMBDA total, s : IF s.class = class THEN total + s.size ELSE total, 0, sections)

(* The object file of a regular COFF member: text sections are appended to *)
(* each other, and so are data sections; bss keeps no bytes.  An exported  *)
(* symbol keeps its value, which counts from the start of its own section. *)
CoffMember(sections, symbols) ==
  LET exported == {i \in DOMAIN symbols : symbols[i].external /\ symbols[i].section > 0}
      first(n) == CHOOSE i \in exported :
                    symbols[i].name = n /\ \A j \in exported : symbols[j].name = n => i <= j
      section(i) == IF \/ symbols[i].section > Len(sections)
                       \/ sections[symbols[i].section].class = "text"
                    THEN "Text" ELSE "Data"
      undefined == SelectSeq(symbols, LAMBDA s : s.external /\ s.section = 0)
  IN  [exports |-> [n \in {symbols[i].name : i \in exported} |->
                      [section |-> section(first(n)), offset |-> symbols[first(n)].value]],
       imports |-> [i \in DOMAIN undefined |-> undefined[i].name],
       code    |-> SumSizes(sections, "text"),
       data    |-> SumSizes(sections, "data"),
       dll_imports |-> << >>]

(* The object file of an import definition: no bytes, a DLL import, and    *)
(* the symbol "exported" under its own name, its __imp_ variant and, for   *)
(* name types 2 and 3 only, its undecorated form.                          *)
ImportMember(symbol, dll, ordinal, nameType) ==
  LET clean == Undecorated(symbol)
      undecorate == nameType \in {2, 3} /\ clean # symbol
      names == {symbol, ImpVariant(symbol)} \cup (IF undecorate THEN {clean} ELSE {})
      import(n) == [symbol |-> n, dll |-> dll, ordinal |-> ordinal]
  IN  [exports |-> [n \in names |-> [section |-> "Text", offset |-> 0]],
       imports |-> << >>,
       code |-> 0,
       data |-> 0,
       dll_imports |-> IF undecorate THEN <<import(symbol), import(clean)>>
                       ELSE <<import(symbol)>>]

(* ObjectFile("<invalid>"): the offset or the size leaves the file.        *)
InvalidMember ==
  [exports |-> << >>, imports |-> << >>, code |-> 0, data |-> 0, dll_imports |-> << >>]
=============================================================================
