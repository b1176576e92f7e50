---------------------------- MODULE MCA2AClient ----------------------------
(* Instances of A2AClient for TLC; the times are in the cfg files. *)
EXTENDS A2AClient
=============================================================================
