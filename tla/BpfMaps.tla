-------------------------------- MODULE BpfMaps --------------------------------
(***************************************************************************)
(* Kernel hash maps keyed by source address, as partial functions: an      *)
(* address outside the domain is a failed bpf_map_lookup_elem.  Maps whose *)
(* values are never read by the programs are sets of keys instead.         *)
(***************************************************************************)
EXTENDS Integers

\* m is a partial function from K to V.
IsMap(m, K, V) == DOMAIN m \subseteq K /\ m \in [DOMAIN m -> V]

EmptyMap == [k \in {} |-> 0]

\* bpf_map_update_elem(m, k, v, BPF_ANY)
Put(m, k, v) == [x \in DOMAIN m \cup {k} |-> IF x = k THEN v ELSE m[x]]

\* bpf_map_delete_elem(m, k)
Del(m, k) == [x \in DOMAIN m \ {k} |-> m[x]]
================================================================================
