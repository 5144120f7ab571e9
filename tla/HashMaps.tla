------------------------------- MODULE HashMaps -------------------------------
(***************************************************************************)
(* std::collections::HashMap, as far as the code uses it: a function whose *)
(* domain is the set of keys.                                              *)
(***************************************************************************)

EmptyMap == [k \in {} |-> {}]

(* HashMap::insert                                                         *)
Put(map, key, value) ==
  [k \in DOMAIN map \cup {key} |-> IF k = key THEN value ELSE map[k]]

(* HashMap::remove                                                         *)
Without(map, key) == [k \in DOMAIN map \ {key} |-> map[k]]
=============================================================================
