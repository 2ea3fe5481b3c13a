------------------------------ MODULE CoffNames ------------------------------
(***************************************************************************)
(* Symbol names as the archive reader and the linker tell them apart: a    *)
(* base name under one of the decorations the code strips or tries.  "_@"  *)
(* stands for the stdcall form _name@N, whatever N.                        *)
(***************************************************************************)
CONSTANT Base    \* undecorated names, as written in C++ source

Decoration == {"", "_", "_@", "__imp_", "__imp__", "__imp__@"}

Name == [base : Base, deco : Decoration]

Decorated(b, d) == [base |-> b, deco |-> d]

Plain(b) == Decorated(b, "")

(* Strip __imp_, then a leading underscore and an @N suffix: every         *)
(* decoration leads back to the plain name.                                *)
Undecorated(n) == Plain(n.base)

(* "__imp_" + symbolName                                                   *)
ImpVariant(n) ==
  Decorated(n.base, CASE n.deco = ""   -> "__imp_"
                      [] n.deco = "_"  -> "__imp__"
                      [] n.deco = "_@" -> "__imp__@"
                      [] OTHER         -> n.deco)
=============================================================================
