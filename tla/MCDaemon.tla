-------------------------------- MODULE MCDaemon --------------------------------
(* Instances of Daemon for TLC. *)
EXTENDS Daemon

CONSTANT s1

SynOrAck == {{"syn"}, {"ack"}}
NoClears == {}
\* The maps of clear --map all that decide about sessions, one at a time and in
\* any order, among them the order of --map all.
SessionMaps == {<<ClearAll[i]>> : i \in 1..4}
\* The maps that may be full: these, and the one clear never empties.
SessionState == {ClearAll[i] : i \in 1..4} \cup {"tcp_first_data"}
================================================================================
