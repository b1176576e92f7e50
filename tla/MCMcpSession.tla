--------------------------- MODULE MCMcpSession ---------------------------
(* Model-checking instance of McpSession: three clients, two calls each.    *)
EXTENDS McpSession, TLC

CONSTANTS t1, t2, t3

MCClients == {t1, t2, t3}


=============================================================================
