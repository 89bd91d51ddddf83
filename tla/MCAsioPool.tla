------------------------------ MODULE MCAsioPool ------------------------------
(* Small instances of AsioPool for TLC. *)
EXTENDS AsioPoolCustody

CallerSocketSymmetry == Permutations(Caller) \union Permutations(Socket)
EndPointSocketSymmetry == Permutations(EndPoint) \union Permutations(Socket)
=============================================================================
