-------------------------------- MODULE MCReaders --------------------------------
(* Readers for TLC: three sources in two buckets, two of which share one. *)
EXTENDS Readers

TwoBuckets == [k \in Keys |-> k \div 2]
================================================================================
