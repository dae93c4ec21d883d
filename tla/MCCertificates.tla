---------------------------- MODULE MCCertificates ----------------------------
(* Certificates for TLC. *)
EXTENDS Certificates, TLC

\* No replica is told apart by its name
ReplicasAlike == Permutations(Replicas)

\* The bound on time is no deadlock.  Anywhere else, a controller that is behind
\* must be able to go on: time does not pass for one that is stuck.
TimeIsUp == now = MaxTime /\ CaughtUp /\ UNCHANGED vars

MCSpec == Init /\ [][Next \/ TimeIsUp]_vars
=============================================================================
