---------------------------- MODULE MCHealthCheck ----------------------------
(***************************************************************************)
(* HealthCheck for TLC: two servers, one instance and one client that      *)
(* belong to different servers while both are on the ring.                 *)
(***************************************************************************)
EXTENDS HealthCheck

CONSTANTS s1, s2, i1, c1

MCServers == {s1, s2}
MCInstances == {i1}
MCClients == {c1}
MCHash == [b \in SUBSET MCServers \ {{}} |-> [i \in {i1, c1} |->
             IF b = MCServers THEN IF i = i1 THEN s1 ELSE s2 ELSE CHOOSE s \in b : TRUE]]

\* How often there are requests, clients that start or stop, outages, servers
\* that stop and failed writes.
Mix(r, c, o, s, w) == [request |-> r, client |-> c, outage |-> o, stop |-> s, write |-> w]
MCMixes == {Mix(3, 0, 0, 0, 0), Mix(1, 1, 0, 0, 1), Mix(0, 1, 2, 0, 0), Mix(0, 0, 0, 1, 1)}
=============================================================================
