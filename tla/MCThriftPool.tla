----------------------------- MODULE MCThriftPool ------------------------------
(* Small instances of ThriftPool for TLC. *)
EXTENDS ThriftPool, TLC

Symmetry == Permutations(Caller) \union Permutations(Conn) \union Permutations(Pool)
=============================================================================
