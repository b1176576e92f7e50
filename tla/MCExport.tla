------------------------------ MODULE MCExport ------------------------------
(* Model-checking instance of Export: two tasks. The prompt of the first was *)
(* sent twice: its trace has a second invoke_agent span, a2.                 *)
EXTENDS Export

CONSTANTS r1, a1, a2, c1, r2, t1, t2

MCTraceOf == [s \in Spans |-> IF s = r2 THEN t2 ELSE t1]
MCKind == (r1 :> "root") @@ (r2 :> "root") @@ (a1 :> "agent") @@ (a2 :> "agent")
          @@ (c1 :> "chat")
\* The chat is not counted before its agent's span is there.
MCParent == (a1 :> r1) @@ (a2 :> r1) @@ (c1 :> a1) @@ (r1 :> NoSpan) @@ (r2 :> NoSpan)
MCListing == <<r1, a1, c1, a2, r2>>
MCUpdates == {"tracking" :> "url", "experiment" :> "0", "bucket" :> "bucket", "public" :> TRUE}
MCBase == [tracking |-> "url", experiment |-> "1", bucket |-> "bucket", public |-> FALSE]
=============================================================================
