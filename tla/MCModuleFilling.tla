---------------------------- MODULE MCModuleFilling ----------------------------
(***************************************************************************)
(* An instance of ModuleFilling: four structs, and three functions with   *)
(* the call graphs that differ in kind.                                    *)
(***************************************************************************)
EXTENDS ModuleFilling

CONSTANTS f1, f2, f3, g

Calls(a, b, c) ==
  [f \in {f1, f2, f3} |-> CASE f = f1 -> a [] f = f2 -> b [] f = f3 -> c]

SomeCallMaps ==
  {Calls({f2}, {f3}, {}),               \* a chain
   Calls({f2}, {f3}, {f1}),             \* a ring
   Calls({f2, f3}, {f3}, {f3}),         \* two ways, one call of itself
   Calls({f2}, {f1}, {f2, g}),          \* a pair, a call out of the module
   Calls({f2, f3}, {f1, f3}, {f1, f2}), \* everyone calls everyone
   Calls({}, {}, {})}
=============================================================================
