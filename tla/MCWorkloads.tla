---------------------------- MODULE MCWorkloads ----------------------------
(* Model-checking instance of Workloads: two experiments, two LLMs.         *)
EXTENDS Workloads, TLC

CONSTANTS e1, e2, a1, a2, l1, l2

MCExperiments == {e1, e2}
MCAgents == {a1, a2}
MCAgentOf == (e1 :> a1) @@ (e2 :> a2)
MCLLMs == {l1, l2}
Symmetry == Permutations(MCLLMs)
=============================================================================
