---------------------------- MODULE MCStackFrame ----------------------------
(***************************************************************************)
(* StackFrame on a few types, with few names and registers, and functions  *)
(* of up to MaxLocals bytes of locals and MaxParameters parameters.        *)
(***************************************************************************)
EXTENDS StackFrame, TLC

CONSTANTS MaxLocals, MaxParameters, x, y, z

MCType ==
  {[size |-> 1, float |-> FALSE, pointer |-> FALSE], [size |-> 4, float |-> FALSE, pointer |-> FALSE],
   [size |-> 8, float |-> TRUE, pointer |-> FALSE], [size |-> 8, float |-> TRUE, pointer |-> TRUE]}

MCNext == Next /\ next' <= MaxLocals /\ parameters' <= MaxParameters
MCSpec == Init /\ [][MCNext]_vars
Symmetry == Permutations(Name)
=============================================================================
