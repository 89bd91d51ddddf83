------------------------ MODULE MCThriftConnectionPool ------------------------
(* Small instances of ThriftConnectionPool for TLC. *)
EXTENDS ThriftConnectionPool, TLC

Symmetry == Permutations(Caller) \union Permutations(Conn)
=============================================================================
