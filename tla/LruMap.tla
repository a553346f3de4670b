--------------------------------- MODULE LruMap ---------------------------------
(***************************************************************************)
(* The order in which a BPF hash map is walked (external: the kernel's     *)
(* LRU hash table and the MapIterator of cilium/ebpf).  chain lists the    *)
(* keys of the map bucket by bucket; keys are positive numbers and         *)
(* bucket[k] is the hash bucket of key k.                                  *)
(***************************************************************************)
EXTENDS Naturals, Sequences, SequencesExt

NoKey == 0

\* bpf_map_delete_elem, or an eviction.
Unlinked(chain, k) == RemoveFirst(chain, k)

\* bpf_map_update_elem: the new element is put at the head of its bucket, the
\* element it replaces is unlinked.  A key that is updated moves.
Linked(chain, bucket, k) ==
    LET rest == Unlinked(chain, k)
        head == CHOOSE i \in 1..Len(rest) + 1 :
                  \A j \in DOMAIN rest : bucket[rest[j]] < bucket[k] <=> j < i
    IN  InsertAt(rest, head, k)

\* BPF_MAP_GET_NEXT_KEY: the key after the cursor; the first one if there is no
\* cursor or its element is gone.
NextKey(chain, cursor) ==
    LET i == SelectInSeq(chain, LAMBDA j : j = cursor)  \* 0 if it is not there
    IN  IF i < Len(chain) THEN chain[i + 1] ELSE NoKey

\* Every chain that holds each of the keys once.
Chains(keys, bucket) ==
    {c \in SetToSeqs(keys) :
        \A i, j \in DOMAIN c : i < j => bucket[c[i]] <= bucket[c[j]]}
================================================================================
