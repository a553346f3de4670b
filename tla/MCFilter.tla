-------------------------------- MODULE MCFilter --------------------------------
(* Filter for TLC: names for the inputs the .cfg files choose from. *)
EXTENDS Filter

CONSTANTS s1, s2

SynOrAck == {{"syn"}, {"ack"}}
AnyFlags == SynOrAck \cup {{"syn", "fin"}}
================================================================================
