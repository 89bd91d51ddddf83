-------------------------- MODULE MCServiceManager --------------------------
(* Small instances of ServiceManager for TLC. *)
EXTENDS ServiceManager

Symmetry == Permutations(Service) \union Permutations(Node)
=============================================================================
