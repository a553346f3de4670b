--------------------------------- MODULE Trust ----------------------------------
(***************************************************************************)
(* What the filter promises about trust, without maps, buckets or clocks:  *)
(* a source is trusted only inside a session (while it has a connection    *)
(* open), earns that trust inside the session, and loses it with the last  *)
(* connection, when it goes quiet, or when it is banned.  Only a connected *)
(* source can be banned, and bans end only with time.                      *)
(***************************************************************************)
EXTENDS Integers

CONSTANT Src

VARIABLES conns,     \* open connections per source
          trusted,   \* sources on the whitelist
          banned     \* sources on the blacklist

tvars == <<conns, trusted, banned>>

Init ==
    /\ conns = [s \in Src |-> 0]
    /\ trusted = {}
    /\ banned = {}

Connect(s) ==
    /\ conns' = [conns EXCEPT ![s] = @ + 1]
    /\ UNCHANGED <<trusted, banned>>

\* The last connection takes the trust with it.
Disconnect(s) ==
    /\ conns[s] > 0
    /\ conns' = [conns EXCEPT ![s] = @ - 1]
    /\ trusted' = IF conns[s] = 1 THEN trusted \ {s} ELSE trusted
    /\ UNCHANGED banned

EarnTrust(s) ==
    /\ conns[s] > 0
    /\ s \notin banned
    /\ trusted' = trusted \cup {s}
    /\ UNCHANGED <<conns, banned>>

\* Trust runs out for want of traffic.
LoseTrust(s) ==
    /\ trusted' = trusted \ {s}
    /\ UNCHANGED <<conns, banned>>

Ban(s) ==
    /\ conns[s] > 0
    /\ banned' = banned \cup {s}
    /\ trusted' = trusted \ {s}
    /\ UNCHANGED conns

\* Time passes: any number of bans end.
Forgive ==
    /\ banned' \subseteq banned
    /\ UNCHANGED <<conns, trusted>>

Next ==
    \/ \E s \in Src : \/ Connect(s) \/ Disconnect(s)
                      \/ EarnTrust(s) \/ LoseTrust(s) \/ Ban(s)
    \/ Forgive

Spec == Init /\ [][Next]_tvars
================================================================================
