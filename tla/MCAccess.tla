------------------------------ MODULE MCAccess ------------------------------
(* Model-checking instance of Access: one realm; keys and requests alike.   *)
EXTENDS Access, TLC

CONSTANTS i1, u1

MCJwksUrl == (i1 :> u1)
Symmetry == Permutations(Requests) \union Permutations(Kids)
=============================================================================
