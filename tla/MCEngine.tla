------------------------------ MODULE MCEngine ------------------------------
(* Model-checking instance of Engine.                                       *)
EXTENDS Engine
=============================================================================
