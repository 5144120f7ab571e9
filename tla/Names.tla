--------------------------------- MODULE Names ---------------------------------
(***************************************************************************)
(* names.rs: identifiers, the scopes they are declared in, and the pool    *)
(* that issues them.  An identifier is its kind and the number the counter *)
(* of that kind gave it; its text is the name of the kind with the number. *)
(* A scope is a path of identifiers, the root the empty path.              *)
(***************************************************************************)
EXTENDS Naturals, SequencesExt

KindName ==
  [Var |-> "var", Struct |-> "Struct", StructConcrete |-> "Struct",
   Function |-> "function", Module |-> "Module", Script |-> "Script",
   Constant |-> "Constant", Type |-> "_type", TypeParameter |-> "T",
   Block |-> "_block"]

Kinds == DOMAIN KindName
Identifiers == Kinds \X Nat
NameOf(id) == <<KindName[id[1]], id[2]>>

(* The kinds whose names start with an underscore.                         *)
HiddenKinds == {"Type", "Block"}

RootScope == << >>

(* "0xCAFE", no identifier of the pool.                                    *)
HardcodedAddress == << <<"Address", 0>> >>

NewPool == [counters |-> [k \in Kinds |-> 0], scopes |-> << >>]

Issued(pool) == DOMAIN pool.scopes

(* Mutation of NextIdentifier: the scope is noted without its last piece.  *)
NextIdentifierOutside(pool, kind, scope) ==
  LET id == <<kind, pool.counters[kind]>>
  IN  [id    |-> id,
       scope |-> Append(scope, id),
       pool  |-> [counters |-> [pool.counters EXCEPT ![kind] = @ + 1],
                  scopes   |-> [i \in Issued(pool) \cup {id} |->
                                  IF i = id THEN Front(scope) ELSE pool.scopes[i]]]]

(* next_identifier: the identifier, the scope it owns, the pool after it.  *)
NextIdentifier(pool, kind, scope) ==
  LET id == <<kind, pool.counters[kind]>>
  IN  [id    |-> id,
       scope |-> Append(scope, id),
       pool  |-> [counters |-> [pool.counters EXCEPT ![kind] = @ + 1],
                  scopes   |-> [i \in Issued(pool) \cup {id} |->
                                  IF i = id THEN scope ELSE pool.scopes[i]]]]

GetScopeForChildren(pool, id) ==
  IF id \in Issued(pool) THEN Append(pool.scopes[id], id) ELSE <<id>>

(* is_in_scope: child is parent or lies within it.                         *)
IsInScope(child, parent) == IsPrefix(parent, child)

(* An identifier the pool did not issue is known everywhere.               *)
IsIdInScope(pool, id, scope) ==
  id \in Issued(pool) => IsInScope(scope, pool.scopes[id])

IdentifiersOfKind(pool, kind) == {id \in Issued(pool) : id[1] = kind}

RemoveHiddenScopes(scope) ==
  FlattenSeq([i \in DOMAIN scope |->
                IF scope[i][1] \in HiddenKinds THEN << >> ELSE <<scope[i]>>])

-----------------------------------------------------------------------------
(* The counters are past all that was issued.                              *)
CountersAhead(pool) ==
  /\ pool.counters \in [Kinds -> Nat]
  /\ Issued(pool) \subseteq Identifiers
  /\ \A id \in Issued(pool) : id[2] < pool.counters[id[1]]

(* A path whose pieces are each declared where the path before it says.    *)
CompleteScope(pool, scope) ==
  \A i \in DOMAIN scope :
    scope[i] \in Issued(pool) => pool.scopes[scope[i]] = SubSeq(scope, 1, i - 1)

(* "Key invariant: each scope should be complete, meaning no chasing       *)
(* should be needed" (names.rs): the scope kept for an identifier is the   *)
(* whole path of those that own it.                                        *)
ScopesComplete(pool) == \A id \in Issued(pool) : CompleteScope(pool, pool.scopes[id])
=============================================================================
