-------------------------------- MODULE Maps --------------------------------
(***************************************************************************)
(* std::collections::HashMap as a function whose domain changes.           *)
(***************************************************************************)
EmptyMap == [k \in {} |-> 0]
Put(map, key, value) ==
  [k \in DOMAIN map \cup {key} |-> IF k = key THEN value ELSE map[k]]
Drop(map, keys) == [k \in DOMAIN map \ keys |-> map[k]]
=============================================================================
