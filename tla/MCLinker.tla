------------------------------ MODULE MCLinker ------------------------------
(* Instances of Linker for TLC.  f, g and h are symbols, main the entry    *)
(* point, g a name of the kernel table.                                    *)
EXTENDS Linker

CONSTANTS f, g, h, kernel, xam

MCKernelOrdinals == [b \in {g} |-> 7]
MCXamOrdinals == [b \in {h} |-> 9]

(* What the compiler hands over: functions 4 bytes apart, names as in the  *)
(* source, no DLL import.                                                  *)
Compiled(defines, calls) ==
  [exports |-> [n \in ToSet(defines) |->
                  [section |-> "Text",
                   offset |-> 4 * ((CHOOSE i \in DOMAIN defines : defines[i] = n) - 1)]],
   imports |-> calls, code |-> 4 * Len(defines), data |-> 0, dll_imports |-> << >>]

F == Plain(f)    G == Plain(g)    H == Plain(h)    M == Plain(Main)
_F == Decorated(f, "_")    _G == Decorated(g, "_")

(* Library members: what the archive lists for them, and the object.       *)
Coff(names, imported) ==
  [listed |-> names,
   object |-> CoffMember(<<[class |-> "text", size |-> 8], [class |-> "data", size |-> 4]>>,
                [i \in DOMAIN names |-> [name |-> names[i], value |-> 4 * (i - 1), section |-> i,
                                         external |-> TRUE]]
                \o [i \in DOMAIN imported |-> [name |-> imported[i], value |-> 0, section |-> 0,
                                               external |-> TRUE]])]
Import(symbol, dll, ordinal, nameType) ==
  [listed |-> <<symbol, ImpVariant(symbol)>>,
   object |-> ImportMember(symbol, dll, ordinal, nameType)]
Corrupt(name) == [listed |-> <<name>>, object |-> InvalidMember]

Members ==
  {Coff(<<F>>, << >>), Coff(<<F>>, <<H>>), Coff(<<H>>, <<F>>), Coff(<<H>>, <<G>>),
   Coff(<<_F>>, << >>), Coff(<<F, H>>, <<Decorated(h, "__imp_")>>),
   Import(_G, kernel, 7, 1), Import(_G, kernel, 7, 2), Import(G, kernel, 7, 1),
   Import(_F, xam, 5, 1), Import(H, xam, 9, 0), Import(Decorated(h, "_@"), xam, 7, 3), Corrupt(F)}

(* symbol_map_ for members listed in order (see CoffArchive).              *)
SymbolMap(members) ==
  LET listing(n) == {o \in DOMAIN members : n \in ToSet(members[o].listed)}
      aliasing(n) == {o \in DOMAIN members :
                        n \in {Undecorated(m) : m \in ToSet(members[o].listed)}}
  IN  [n \in {m \in Name : listing(m) \cup aliasing(m) # {}} |->
         IF listing(n) # {} THEN CHOOSE o \in listing(n) : \A q \in listing(n) : q <= o
         ELSE CHOOSE o \in aliasing(n) : \A q \in aliasing(n) : o <= q]

Library(members) ==
  [loads |-> TRUE, map |-> SymbolMap(members),
   member |-> [o \in Offset |-> IF o \in DOMAIN members THEN members[o].object
                                ELSE InvalidMember]]
Missing == [loads |-> FALSE, map |-> << >>, member |-> [o \in Offset |-> InvalidMember]]

(* One program of two objects at most, and every library of two members.   *)
Calls == {<< >>, <<F>>, <<G>>, <<H>>, <<F, G>>, <<G, _G>>, <<H, F>>}
MCPrograms == {<< >>}
  \cup {<<Compiled(d, c)>> : d \in {<<M>>, <<H, M>>, <<F>>}, c \in Calls}
  \cup {<<Compiled(<<M>>, c), Compiled(d, <<G>>)>> : d \in {<<F>>, <<H, F>>, <<F, M>>}, c \in Calls}
OneLibrary == {<< >>, <<Missing>>} \cup {<<Library(<<m, n>>)>> : m, n \in Members}

(* A program that calls the kernel function g.                             *)
KernelCaller == {<<Compiled(<<M>>, <<G>>)>>}

(* Two libraries of one member, in either order.                           *)
SingleLibraries == {Library(<<m>>) : m \in Members}
TwoLibraries == {<<l, k>> : l, k \in SingleLibraries} \cup {<<Missing, l>> : l \in SingleLibraries}
AnyLibraries == OneLibrary \cup TwoLibraries
=============================================================================
