--------------------------- MODULE MCConnectionPool ---------------------------
(* ConnectionPool for TLC. *)
EXTENDS ConnectionPool, TLC

\* No key and no host is told apart by its name
KeysAndHostsAlike == Permutations(Keys) \cup Permutations(Hosts)
=============================================================================
