------------------------------ MODULE StructGraph ------------------------------
(***************************************************************************)
(* fill_struct (move_smith.rs:549-637): the structs of a module get their  *)
(* fields one struct after the other.  A field whose type is a struct may  *)
(* not make the struct contain itself.                                     *)
(*                                                                         *)
(* Of a field only the structs in its type matter: the struct itself and   *)
(* its type arguments.  Numbers and type parameters add none.              *)
(***************************************************************************)
EXTENDS Naturals, FiniteSets

CONSTANTS
  Structs,      (* The structs of the module.                              *)
  Generic,      (* The ones with type parameters.                          *)
  AllAbilities, (* The one of each module with key and store, which the    *)
                (* others lack: they have copy and drop.                   *)
  MaxArgs       (* A bound: how many type arguments the type of a field    *)
                (* mentions.                                               *)

ASSUME StructsAssumption ==
  /\ Generic \subseteq Structs
  /\ AllAbilities \subseteq Structs \ Generic
  /\ MaxArgs \in Nat

VARIABLES
  used,         (* Per struct, the structs in the types of its fields.     *)
  current,      (* The struct being filled, in a set.                      *)
  unfilled      (* The structs that wait.                                  *)

structVars == <<used, current, unfilled>>

(* A set of structs that has all that its members use.                     *)
Closed(graph, set) == \A s \in set : graph[s] \subseteq set

(* Some struct of from is sink or uses it, directly or not.                *)
ReachesIn(graph, from, sink) ==
  \A set \in SUBSET Structs : Closed(graph, set) /\ from \subseteq set => sink \in set

(* Mutation of CheckStructReachable: only the structs named in the type.   *)
CheckStructNamed(types, sink) == sink \in types

(* check_struct_reachable.                                                 *)
CheckStructReachable(types, sink) == ReachesIn(used, types, sink)

(* get_usable_struct_type: the same module, the abilities asked for, no    *)
(* loop.                                                                   *)
GetUsableStructType(st) ==
  {t \in Structs : /\ st \in AllAbilities => t \in AllAbilities
                   /\ ~CheckStructReachable({t}, st)}

InitStructs ==
  /\ used = [s \in Structs |-> {}]
  /\ current = {}
  /\ unfilled = Structs

(* fill_struct starts on the next struct.                                  *)
FillStruct(st) ==
  /\ st \in unfilled
  /\ current' = {st}
  /\ unfilled' = unfilled \ {st}
  /\ UNCHANGED used

(* A field of a usable struct type with its type arguments, checked again  *)
(* once the arguments are chosen.                                          *)
AddStructField(st, t, args) ==
  /\ used' = [used EXCEPT ![st] = @ \cup {t} \cup args]
  /\ st \in AllAbilities => args \subseteq AllAbilities
  /\ ~CheckStructReachable({t} \cup args, st)
  /\ UNCHANGED <<current, unfilled>>

(* A struct without type parameters is not a StructConcrete when a field   *)
(* is chosen, so it is never the type of a field.                          *)
NextStructs ==
  \/ \E st \in Structs : FillStruct(st)
  \/ \E st \in current : \E t \in GetUsableStructType(st) \cap Generic,
                            args \in {a \in SUBSET Structs : Cardinality(a) <= MaxArgs} :
       AddStructField(st, t, args)

SpecStructs == InitStructs /\ [][NextStructs]_structVars

-----------------------------------------------------------------------------
(* Types, and a struct that waits has no fields yet.                       *)
StructsTypeOK ==
  /\ used \in [Structs -> SUBSET Structs]
  /\ current \subseteq Structs \ unfilled
  /\ unfilled \subseteq Structs
  /\ \A s \in unfilled : used[s] = {}

(* No struct contains itself, through any chain of fields and type         *)
(* arguments: the checks against the structs filled so far suffice, in     *)
(* whatever order the structs are filled.                                  *)
NoStructContainsItself == \A s \in Structs : ~ReachesIn(used, used[s], s)
=============================================================================
