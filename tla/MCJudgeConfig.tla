--------------------------- MODULE MCJudgeConfig ---------------------------
(* Model-checking instance of JudgeConfig: the cfg gives all constants.     *)
EXTENDS JudgeConfig
=============================================================================
