--------------------------- MODULE MCMlflowHealth ---------------------------
(* Model-checking instance of MlflowHealth: one server stores, one may not. *)
EXTENDS MlflowHealth, TLC

CONSTANTS p1, p2, run, good, bad

MCServerOf == (p1 :> good) @@ (p2 :> bad) @@ (run :> bad)
=============================================================================
