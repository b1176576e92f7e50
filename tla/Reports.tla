------------------------------- MODULE Reports -------------------------------
(***************************************************************************)
(* How a run's report is computed from the spans of its tasks' traces      *)
(* (autobench/mlflow_report.py): the record parse_traces aggregates, and   *)
(* the inventory span_rows publishes as the evidence behind it.            *)
(*                                                                         *)
(* A trace is the sequence in which MLflow lists its spans.  A span has a  *)
(* kind and the span it names as its parent, which may not be there (yet). *)
(* Counts are the sets of the spans counted; tokens go with them.          *)
(***************************************************************************)
EXTENDS SequencesExt

CONSTANTS
    Spans,    \* spans of the run's traces
    NoSpan,   \* absent: None
    TraceOf,  \* [Spans -> traces], a trace is a session
    Kind,     \* [Spans -> SpanKinds], by its name
    Parent    \* parentId: [Spans -> Spans or NoSpan]

\* _span_kind, with "execute_tool initial_observation" as a kind of its own.
SpanKinds == {"root", "phase", "agent", "chat", "tool", "observation", "other"}

ASSUME SpanAssumption ==
    /\ NoSpan \notin Spans
    /\ Kind \in [Spans -> SpanKinds]
    /\ Parent \in [Spans -> Spans \union {NoSpan}]
    /\ DOMAIN TraceOf = Spans

\* Where the invoke_agent spans are; the first of them and the last.
Agents(t) == {i \in 1..Len(t) : Kind[t[i]] = "agent"}
FirstAgent(t) == IF Agents(t) = {} THEN NoSpan ELSE t[Min(Agents(t))]
LastAgent(t) == IF Agents(t) = {} THEN NoSpan ELSE t[Max(Agents(t))]

\* _is_chat and _is_tool of a span parented by the invoke_agent span.
CountedUnder(t, invoke) ==
    {s \in ToSet(t) : Kind[s] \in {"chat", "tool"} /\ Parent[s] = invoke}

\* parse_traces: the model is read off the first invoke_agent span (its loop
\* breaks), llm_count and tool_count count under the last (its loop does not).
RecordOf(t) == [model |-> FirstAgent(t), counted |-> CountedUnder(t, LastAgent(t))]

\* span_rows: the rows marked counted.
CountedRows(t) == CountedUnder(t, FirstAgent(t))
=============================================================================
