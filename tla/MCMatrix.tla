------------------------------ MODULE MCMatrix ------------------------------
(* Model-checking instance of Matrix: the shapes of the spec files, legs on  *)
(* one LLM, on two in turn, and a deployment reused.                         *)
EXTENDS Matrix

CONSTANTS i, g, h

MCSpecFiles == {<<g, g>>, <<g, h>>, <<i, NoLLM>>, <<NoLLM>>}
=============================================================================
