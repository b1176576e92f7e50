---------------------------- MODULE MlflowHealth ----------------------------
(***************************************************************************)
(* GET /mlflow/health: is an instance's MLflow reachable and writable      *)
(* (autobench/routes/mlflow.py, auth/mlflow.py, runner/tracing.py).        *)
(*                                                                         *)
(* A probe logs in, reads, writes a trace of two spans through the real    *)
(* exporter and reads it back.  The exporter never raises: it logs, from a *)
(* worker thread, a WARNING for an attempt it will retry and an ERROR for  *)
(* a span it has given up.  A probe listens on the logger all exporters of *)
(* the process share, so probes and runs hear each other.                  *)
(***************************************************************************)
EXTENDS Naturals

CONSTANTS
    Probes,     \* requests with round_trip
    Runs,       \* runs that export spans meanwhile
    Servers,    \* MLflow servers
    ServerOf,   \* tracking_url: [Probes and Runs -> Servers]
    Healthy,    \* servers that log in, answer and store, if not at first
    MaxReads    \* bound: reads in _ROUND_TRIP_TIMEOUT_S

ASSUME ServerAssumption ==
    ServerOf \in [Probes \union Runs -> Servers] /\ Healthy \subseteq Servers
ASSUME MaxReadsAssumption == MaxReads \in Nat \ {0}

ProbeSpans == 2   \* MCP.CreateSession, which ends first, and Agent.Session

VARIABLES
    probe,     \* [Probes -> the stage it is at, or "done"]
    auth, read, write, trip, \* [Probes -> a stage's "ok", "failed" or "none"]
    code,      \* [Probes -> HTTP status, 0 before]
    sent,      \* [Probes -> spans the exporter is done with]
    captured,  \* _ExportErrorCapture: [Probes -> levels heard]
    kept,      \* probes whose Agent.Session span the server has
    readable,  \* those of them whose trace can be read
    reads,     \* [Probes -> attempts to read it back]
    dropped,   \* history: probes one of whose own spans was given up
    noise      \* history: probes that heard another's ERROR

stages == <<auth, read, write, trip>>
server == <<kept, readable>>
export == <<sent, captured, dropped, noise>>
healthVars == <<probe, stages, code, server, export, reads>>

Sick(e) == ServerOf[e] \notin Healthy
Listening == {p \in Probes : probe[p] = "write"}   \* handlers on the logger

HealthTypeOK ==
    /\ probe \in [Probes -> {"auth", "read", "write", "trip", "done"}]
    /\ {auth, read, write, trip} \subseteq [Probes -> {"none", "ok", "failed"}]
    /\ code \in [Probes -> {0, 200, 500}]
    /\ sent \in [Probes -> 0..ProbeSpans]
    /\ captured \in [Probes -> SUBSET {"WARNING", "ERROR"}]
    /\ readable \subseteq kept /\ kept \subseteq Probes
    /\ reads \in [Probes -> 0..MaxReads]
    /\ dropped \subseteq Probes /\ noise \subseteq Probes

HealthInit ==
    /\ probe = [p \in Probes |-> "auth"]
    /\ auth = [p \in Probes |-> "none"]
    /\ read = auth /\ write = auth /\ trip = auth
    /\ code = [p \in Probes |-> 0]
    /\ sent = [p \in Probes |-> 0]
    /\ captured = [p \in Probes |-> {}]
    /\ kept = {} /\ readable = {}
    /\ reads = [p \in Probes |-> 0]
    /\ dropped = {} /\ noise = {}

---------------------------------------------------------------------------
\* The handler.

Answer(p, c) == probe' = [probe EXCEPT ![p] = "done"] /\ code' = [code EXCEPT ![p] = c]
GoTo(p, stage) == probe' = [probe EXCEPT ![p] = stage] /\ UNCHANGED code

\* mlflow_token. What it raises besides MLflowAuthError and httpx.HTTPError
\* (a 200 that is no JSON) is not caught: here and at every other read.
Auth(p) ==
    /\ probe[p] = "auth"
    /\ \/ auth' = [auth EXCEPT ![p] = "ok"] /\ GoTo(p, "read")
       \/ Sick(p) /\ auth' = [auth EXCEPT ![p] = "failed"] /\ Answer(p, 200)
    /\ UNCHANGED <<read, write, trip, server, export, reads>>

\* A failed read does not keep the probe from writing.
ReadStage(p) ==
    /\ probe[p] = "read"
    /\ \E v \in IF Sick(p) THEN {"ok", "failed"} ELSE {"ok"} :
        read' = [read EXCEPT ![p] = v]
    /\ GoTo(p, "write")
    /\ UNCHANGED <<auth, write, trip, server, export, reads>>

TokenCrash(p) ==
    /\ probe[p] \in {"auth", "read", "trip"} /\ Sick(p)
    /\ Answer(p, 500)
    /\ UNCHANGED <<stages, server, export, reads>>

\* A record on the shared logger reaches every handler.
Log(e, level) ==
    /\ captured' = [q \in Probes |-> IF q \in Listening THEN captured[q] \union {level}
                                     ELSE captured[q]]
    /\ noise' = IF level = "ERROR" THEN noise \union (Listening \ {e}) ELSE noise

\* The exporter's thread: an attempt that will be repeated, a span given up,
\* a span the server took; a sick server may take it and drop the trace.
Exporting(p) == probe[p] = "write" /\ sent[p] < ProbeSpans

Retries(p) ==
    /\ Exporting(p)
    /\ "WARNING" \notin captured[p]
    /\ Log(p, "WARNING")
    /\ UNCHANGED <<probe, code, stages, server, reads, sent, dropped>>

GivesUpSpan(p) ==
    /\ Exporting(p) /\ Sick(p)
    /\ Log(p, "ERROR")
    /\ sent' = [sent EXCEPT ![p] = @ + 1]
    /\ dropped' = dropped \union {p}
    /\ UNCHANGED <<probe, code, stages, server, reads>>

TakesSpan(p) ==
    /\ Exporting(p)
    /\ sent' = [sent EXCEPT ![p] = @ + 1]
    /\ \/ sent[p] = ProbeSpans - 1 /\ kept' = kept \union {p}
       \/ (sent[p] < ProbeSpans - 1 \/ Sick(p)) /\ UNCHANGED kept
    /\ UNCHANGED <<probe, code, stages, readable, captured, dropped, noise, reads>>

\* Another run's exporter.
RunLogs(r, level) ==
    /\ Sick(r) \/ level = "WARNING"
    /\ Log(r, level)
    /\ <<captured, noise>>' # <<captured, noise>>
    /\ UNCHANGED <<probe, code, stages, server, reads, sent, dropped>>

\* Mutant: the verdict is that emitting did not raise.
failedNever(p) == FALSE

\* Mutant: an attempt that was retried counts as a failure.
failedByWarning(p) == captured[p] # {}

failed(p) == "ERROR" \in captured[p]

\* The flush has returned and the handler is detached.
JudgeWrite(p) ==
    /\ probe[p] = "write" /\ sent[p] = ProbeSpans
    /\ write' = [write EXCEPT ![p] = IF failed(p) THEN "failed" ELSE "ok"]
    /\ IF failed(p) THEN Answer(p, 200) ELSE GoTo(p, "trip")
    /\ UNCHANGED <<auth, read, trip, server, export, reads>>

Verdict(p, v) == trip' = [trip EXCEPT ![p] = v] /\ Answer(p, 200)
ok(p) == \A stage \in {auth, read, write, trip} : stage[p] = "ok"

\* One turn of the loop: found, not yet there, or httpx.HTTPError.
ReadBack(p) ==
    /\ probe[p] = "trip" /\ reads[p] < MaxReads
    /\ reads' = [reads EXCEPT ![p] = @ + 1]
    /\ \/ p \in readable /\ Verdict(p, "ok")
       \/ (p \notin readable \/ Sick(p)) /\ UNCHANGED <<probe, code, trip>>
    /\ UNCHANGED <<auth, read, write, server, export>>

\* Mutant: the loop ends only when a read fails or finds the trace.
RoundTripDeadlineNever(p) ==
    /\ probe[p] = "trip" /\ reads[p] > 0 /\ Sick(p)
    /\ Verdict(p, "failed")
    /\ UNCHANGED <<auth, read, write, server, export, reads>>

RoundTripDeadline(p) ==
    /\ probe[p] = "trip" /\ reads[p] > 0
    /\ Verdict(p, "failed")
    /\ UNCHANGED <<auth, read, write, server, export, reads>>

\* MLflow indexes what it stored some time later.
IndexTrace(p) ==
    /\ p \in kept \ readable
    /\ readable' = readable \union {p}
    /\ UNCHANGED <<probe, code, stages, kept, export, reads>>

ProbeStep(p) ==
    \/ Auth(p) \/ ReadStage(p) \/ TokenCrash(p)
    \/ Retries(p) \/ GivesUpSpan(p) \/ TakesSpan(p)
    \/ JudgeWrite(p) \/ ReadBack(p) \/ RoundTripDeadline(p)

HealthNext ==
    \/ \E p \in Probes : ProbeStep(p) \/ IndexTrace(p)
    \/ \E r \in Runs, level \in {"WARNING", "ERROR"} : RunLogs(r, level)

\* Calls have timeouts, the exporter its own deadline and the loop one too;
\* whether MLflow ever indexes a trace is not assumed.
HealthFairness == \A p \in Probes : WF_healthVars(ProbeStep(p))

HealthSpec == HealthInit /\ [][HealthNext]_healthVars /\ HealthFairness

---------------------------------------------------------------------------
\* What the verdict is worth.

(* A verdict of ok means that every span of the probe was taken and that its *)
(* root span can be read: a write path that loses a span is never called ok, *)
(* although the exporter raises nothing and reading works.                   *)
OkIsReadable == \A p \in Probes : ok(p) => p \in readable /\ p \notin dropped

(* A server that stores what it is sent, if not always at the first attempt, *)
(* is not rejected for its write path, unless another exporter of the        *)
(* process gave up a span while the probe was writing.                       *)
HealthyAccepted ==
    \A p \in Probes : write[p] = "failed" /\ ~Sick(p) => p \in noise

(* Every probe is answered, whatever MLflow does with its trace.             *)
ProbeAnswered == \A p \in Probes : <>(probe[p] = "done")
=============================================================================
