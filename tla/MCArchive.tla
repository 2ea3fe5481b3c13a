----------------------------- MODULE MCArchive ------------------------------
(***************************************************************************)
(* Libraries for LibraryReader: every small symbol table over members      *)
(* without symbols, and, with a table of plain names, archives of all      *)
(* members over these names.                                               *)
(***************************************************************************)
EXTENDS LibraryReader

CONSTANTS outside,              \* an offset that lies outside the file
          first, second,        \* the names asked for
          ListedDecorations, MaxEntries

MCName == Loading!Name
Plainly == {Loading!Plain(b) : b \in Base}

(* A member never imports what it defines: a COFF symbol is one or the     *)
(* other.  Offsets of a member object are left out, the loop ignores them. *)
Member(exports, imports) ==
  [exports |-> [s \in exports |-> 0], imports |-> SetToSeq(imports)]

Members == {Member(x, m) : <<x, m>> \in
              {p \in (SUBSET Plainly) \X (SUBSET Plainly) : p[1] \cap p[2] = {}}}

(* Every archive of two members over the plain names.                      *)
Inside == Offset \ {outside}
Beyond == [exports |-> << >>, imports |-> << >>]
TwoMembers ==
  {[map |-> m, member |-> [o \in Offset |-> IF o = outside THEN Beyond ELSE f[o]]] :
     <<m, f>> \in (UNION {[names -> Inside] : names \in SUBSET Plainly}) \X [Inside -> Members]}

(* Archives of members that define one name each and import any others:    *)
(* chains that the limit on the rounds cuts short.                         *)
Singles == {Member({s}, m) : <<s, m>> \in {p \in Plainly \X (SUBSET Plainly) : p[1] \notin p[2]}}
SinglesArchive ==
  {[map |-> m, member |-> f] :
     <<m, f>> \in {p \in [Plainly -> Offset] \X [Offset -> Singles] :
                     \A s \in Plainly : s \in DOMAIN p[2][p[1][s]].exports}}

File(entries) == [opens |-> TRUE, signature |-> TRUE, count_fits |-> TRUE, entries |-> entries]
Listing(map) == SetToSeq({[name |-> n, offset |-> map[n]] : n \in DOMAIN map})

(* Every table of MaxEntries names, plain, decorated or empty, of members  *)
(* that define what it lists; and the files that cannot be read.           *)
Tables ==
  UNION {[1..k -> {[name |-> n, offset |-> o] :
                     n \in {Loading!Decorated(b, d) : b \in {first, second}, d \in ListedDecorations} \cup {NoName},
                     o \in Inside}] : k \in 0..MaxEntries}
Defining(table) ==
  [o \in Offset |-> Member({e.name : e \in {x \in ToSet(table) : x.offset = o /\ x.name # NoName}}, {})]
Unreadable == [opens : BOOLEAN, signature : BOOLEAN, count_fits : {FALSE}, entries : {<< >>}]

AnyLibrary ==
  {[file |-> File(Listing(a.map)), member |-> a.member] : a \in TwoMembers \cup SinglesArchive}
    \cup {[file |-> File(t), member |-> Defining(t)] : t \in Tables}
    \cup {[file |-> f, member |-> [o \in Offset |-> Beyond]] : f \in Unreadable}

(* One name, the same name asked for twice (the linker's list of undefined *)
(* symbols holds every name twice, linker.cpp:173, 187) or two names.  The *)
(* set of libraries is closed under renaming, so which names does not      *)
(* matter.                                                                 *)
AnyRequest ==
  LET f == Loading!Plain(first)
  IN  {<<f>>, <<f, f>>, <<f, Loading!Plain(second)>>}
=============================================================================
