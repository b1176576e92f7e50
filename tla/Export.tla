------------------------------- MODULE Export -------------------------------
(***************************************************************************)
(* The export of a finished run: what is read back from MLflow and when    *)
(* that has settled, and what is put into the bucket (autobench/routes/    *)
(* runs.py, s3_export.py, mlflow_report.py, runtime_config.py,             *)
(* routes/config.py).                                                      *)
(*                                                                         *)
(* Spans become readable one by one, in any order, during and after the    *)
(* run.  The configuration can be changed at any time; it is looked up     *)
(* when the tracer is built, when the export begins (S3) and at each read  *)
(* (MLflow).  A read is one step: spans that arrive between its requests   *)
(* are as if they arrived before or after it.                              *)
(***************************************************************************)
EXTENDS Reports, Functions

CONSTANTS
    Listing,   \* the order in which MLflow lists spans
    Base,      \* the mounted InstanceConfig: [Fields -> Values]
    Updates,   \* what a PUT /config may mention: functions of some fields
    None,      \* unset
    MaxPuts    \* bound: PUT /config

\* Config fields, by section, and what model_dump gives for one not mentioned.
MlflowFields == {"tracking", "experiment"}
S3Fields == {"bucket", "public"}
Fields == MlflowFields \union S3Fields
Default == [tracking |-> None, experiment |-> "0", bucket |-> None, public |-> TRUE]
Values == [tracking |-> {"url", None}, experiment |-> {"0", "1"},
           bucket |-> {"bucket", None}, public |-> BOOLEAN]

ASSUME BaseAssumption ==
    DOMAIN Base = Fields /\ \A f \in Fields : Base[f] \in Values[f]
ASSUME UpdatesAssumption ==
    \A u \in Updates : DOMAIN u \subseteq Fields /\ \A f \in DOMAIN u : u[f] \in Values[f]
ASSUME ListingAssumption == ToSet(Listing) = Spans /\ Len(Listing) = Cardinality(Spans)
ASSUME MaxPutsAssumption == MaxPuts \in Nat

VARIABLES
    override,  \* RuntimeConfigStore: the fields set by PUT /config
    puts,      \* PUTs so far
    tracer,    \* the experiment the run's spans go to, or None
    indexed,   \* the spans that can be read
    pc,        \* "start", "running", "read", "upload", "done"
    s3,        \* eff.s3 of the export
    records,   \* the spans the records were last computed from
    rows,      \* the spans the inventory was last built from
    previous,  \* fingerprint of the read before, or None
    late,      \* export_settle_max_seconds are over
    planned,   \* objects to upload, in order
    stored,    \* the objects in the bucket
    exposed,   \* some of them are public-read
    artifacts, \* run.artifacts is set
    ready,     \* history: traces that could be read when the export began
    seen,      \* history: all spans the export's reads have shown
    asked,     \* history: public_read was asked for
    troubles   \* history: what went wrong since the tracer was built

config == <<override, puts>>
reading == <<records, rows, previous, late>>
bucket == <<planned, stored, exposed>>
history == <<ready, seen, asked, troubles>>
vars == <<config, tracer, indexed, pc, s3, reading, bucket, artifacts, history>>

\* RuntimeConfigStore.effective.
Effective == [f \in Fields |-> IF f \in DOMAIN override THEN override[f] ELSE Base[f]]

Traces(spans) == {TraceOf[s] : s \in spans}
Rooted(spans) == {TraceOf[s] : s \in {r \in spans : Kind[r] = "root"}}
Trace(t, spans) == SelectSeq(Listing, LAMBDA s : s \in spans /\ TraceOf[s] = t)

TypeOK ==
    /\ DOMAIN override \subseteq Fields
    /\ \A f \in DOMAIN override : override[f] \in Values[f]
    /\ puts \in 0..MaxPuts
    /\ tracer \in Values["experiment"] \union {None}
    /\ {indexed, records, rows, seen} \subseteq SUBSET Spans
    /\ pc \in {"start", "running", "read", "upload", "done"}
    /\ previous \in (Nat \X Nat \X Nat) \union {None}
    /\ ToSet(planned) \subseteq {"run", "report", "spans", "report.parquet",
                                 "spans.parquet", "manifest"}
    /\ stored \subseteq ToSet(planned)
    /\ {exposed, late, artifacts, asked} \subseteq BOOLEAN
    /\ troubles \subseteq {"moved", "skipped", "unavailable"}

Init ==
    /\ override = <<>> /\ puts = 0
    /\ tracer = None
    /\ indexed = {}
    /\ pc = "start"
    /\ s3 = [f \in S3Fields |-> Base[f]]
    /\ records = {} /\ rows = {} /\ previous = None /\ late = FALSE
    /\ planned = <<>> /\ stored = {} /\ exposed = FALSE
    /\ artifacts = FALSE
    /\ ready = {} /\ seen = {} /\ asked = Base["public"] /\ troubles = {}

---------------------------------------------------------------------------
\* Configuration.

\* Mutant: exclude_none, which writes the defaults of the section's other fields.
applyNotNone(update) ==
    LET section == IF DOMAIN update \subseteq S3Fields THEN S3Fields ELSE MlflowFields
        dumped == update @@ Restrict(Default, section)
    IN  override' = Restrict(dumped, {f \in section : dumped[f] # None}) @@ override

\* RuntimeConfigStore.apply: a field-level merge of what the request mentions.
apply(update) ==
    override' = [f \in DOMAIN update \union DOMAIN override |->
                    IF f \in DOMAIN update THEN update[f] ELSE override[f]]

\* PUT /config; an explicit null unsets a field.
Put(update) ==
    /\ puts < MaxPuts /\ pc # "done"
    /\ apply(update)
    /\ puts' = puts + 1
    /\ asked' = (asked \/ ("public" \in DOMAIN update /\ update["public"]))
    /\ troubles' = IF \E f \in DOMAIN update \intersect MlflowFields : update[f] # Effective[f]
                     THEN troubles \union {"moved"} ELSE troubles
    /\ UNCHANGED <<tracer, indexed, pc, s3, reading, bucket, artifacts, ready, seen>>

---------------------------------------------------------------------------
\* The run.

\* _build_run_tracer: untraced without tracking_url, and when the login fails.
Start ==
    /\ pc = "start"
    /\ \/ Effective["tracking"] # None /\ tracer' = Effective["experiment"]
       \/ tracer' = None
    /\ pc' = "running"
    /\ troubles' = {}
    /\ UNCHANGED <<config, indexed, s3, reading, bucket, artifacts, ready, seen, asked>>

\* MLflow: a span of a trace of the run can be read; of no interest later.
Index(s) ==
    /\ pc \in {"running", "read"} /\ tracer # None /\ s \notin indexed
    /\ indexed' = indexed \union {s}
    /\ UNCHANGED <<config, tracer, pc, s3, reading, bucket, artifacts, history>>

\* _maybe_export_run.
Begin ==
    /\ pc = "running"
    /\ pc' = IF Effective["bucket"] = None THEN "done" ELSE "read"
    /\ s3' = Restrict(Effective, S3Fields)
    /\ ready' = Rooted(indexed)
    /\ UNCHANGED <<config, tracer, indexed, reading, bucket, artifacts, seen, asked, troubles>>

---------------------------------------------------------------------------
\* _collect_records_soft.

\* _records_fingerprint.
Fingerprint(spans) ==
    LET counted == UNION {RecordOf(Trace(t, spans)).counted : t \in Traces(spans)}
        Number(kind) == Cardinality({s \in counted : Kind[s] = kind})
    IN  <<Cardinality(Traces(spans)), Number("chat"), Number("tool")>>

\* Mutant: the manifest, known before any upload, goes first.
PlansManifestFirst(recs, inventory) ==
    LET If(c, names) == IF c THEN names ELSE <<>>
    IN  {<<"manifest", "run", "report">> \o If(inventory # {}, <<"spans">>)
            \o If(recs # {}, <<"report.parquet">>) : parquet \in BOOLEAN}

\* _export_sync: everything is built before anything is uploaded, the manifest
\* of it last; span_report.parquet is left out if pyarrow cannot build it.
Plans(recs, inventory) ==
    LET If(c, names) == IF c THEN names ELSE <<>>
    IN  {<<"run", "report">> \o If(inventory # {}, <<"spans">>)
            \o If(recs # {}, <<"report.parquet">>)
            \o If(inventory # {} /\ parquet, <<"spans.parquet">>)
            \o <<"manifest">> : parquet \in BOOLEAN}

\* The locals of the loop end with it.
Export(recs, inventory) ==
    /\ planned' \in Plans(recs, inventory)
    /\ pc' = "upload"
    /\ previous' = None /\ late' = FALSE

\* Mutant: empties, as the docstring says of any issue.
UnavailableEmpty ==
    /\ pc = "read"
    /\ records' = {} /\ rows' = {}
    /\ Export({}, {})
    /\ troubles' = troubles \union {"unavailable"}
    /\ UNCHANGED <<config, tracer, indexed, s3, stored, exposed, artifacts, ready, seen, asked>>

\* _fetch_records_once returned None: no tracking_url, or login or transport
\* failed. What was read before is exported.
Unavailable ==
    /\ pc = "read"
    /\ Export(records, rows)
    /\ troubles' = troubles \union {"unavailable"}
    /\ UNCHANGED <<config, tracer, indexed, s3, records, rows, stored, exposed, artifacts,
                   ready, seen, asked>>

\* Any other exception, in a read or in parse_traces: the export is lost.
Lost ==
    /\ pc = "read"
    /\ pc' = "done"
    /\ UNCHANGED <<config, tracer, indexed, s3, reading, bucket, artifacts, history>>

Settled(got) == got # {} /\ Fingerprint(got) = previous
ReadAgain(got) == previous' = Fingerprint(got) /\ UNCHANGED <<pc, planned, late>>

\* Mutant: a run without records is read until it has some.
SettleNonEmpty(got, inventory) ==
    IF Settled(got) \/ (late /\ got # {}) THEN Export(got, inventory) ELSE ReadAgain(got)

Settle(got, inventory) ==
    IF Settled(got) \/ late THEN Export(got, inventory) ELSE ReadAgain(got)

\* download_traces: the traces with a root in the experiment that is configured
\* now, without those whose own request failed.
Downloaded(skipped) ==
    IF Effective["experiment"] # tracer THEN {}
    ELSE {s \in indexed : TraceOf[s] \in Rooted(indexed) \ skipped}

\* Mutant: the inventory of the first read is kept.
FetchKeepingRows(skipped) ==
    LET got == Downloaded(skipped)
    IN  /\ pc = "read" /\ Effective["tracking"] # None
        /\ skipped \subseteq Rooted(indexed)
        /\ records' = got
        /\ rows' = IF rows = {} THEN got ELSE rows
        /\ Settle(got, rows')
        /\ seen' = seen \union got
        /\ troubles' = IF skipped = {} THEN troubles ELSE troubles \union {"skipped"}
        /\ UNCHANGED <<config, tracer, indexed, s3, stored, exposed, artifacts, ready, asked>>

\* span_rows may fail without harm to the records.
Fetch(skipped) ==
    LET got == Downloaded(skipped)
    IN  /\ pc = "read" /\ Effective["tracking"] # None
        /\ skipped \subseteq Rooted(indexed)
        /\ records' = got
        /\ rows' \in {got, {}}
        /\ Settle(got, rows')
        /\ seen' = seen \union got
        /\ troubles' = IF skipped = {} THEN troubles ELSE troubles \union {"skipped"}
        /\ UNCHANGED <<config, tracer, indexed, s3, stored, exposed, artifacts, ready, asked>>

Deadline ==
    /\ pc = "read" /\ ~late
    /\ late' = TRUE
    /\ UNCHANGED <<config, tracer, indexed, pc, s3, records, rows, previous, bucket, artifacts,
                   history>>

---------------------------------------------------------------------------
\* _export_sync: the uploads, and run.artifacts once all are done.

\* _put: public if public_read and the bucket allows ACLs.
Stores ==
    /\ stored' = stored \union {planned[Cardinality(stored) + 1]}
    /\ exposed' \in {exposed, exposed \/ s3["public"]}

Upload ==
    /\ pc = "upload"
    /\ Stores
    /\ artifacts' = (stored' = ToSet(planned))
    /\ pc' = IF artifacts' THEN "done" ELSE "upload"
    /\ UNCHANGED <<config, tracer, indexed, s3, reading, planned, history>>

\* put_object raises, twice if public_read; it may have stored the object.
UploadFails ==
    /\ pc = "upload"
    /\ pc' = "done"
    /\ UNCHANGED <<stored, exposed>> \/ Stores
    /\ UNCHANGED <<config, tracer, indexed, s3, reading, planned, artifacts, history>>

Read == \E skipped \in SUBSET Traces(Spans) : Fetch(skipped)
Putting == Upload \/ UploadFails

Next ==
    \/ Start \/ Begin \/ Read \/ Unavailable \/ Lost \/ Deadline \/ Putting
    \/ \E update \in Updates : Put(update)
    \/ \E s \in Spans : Index(s)

\* Requests and uploads have timeouts, and time passes. Not assumed: that a
\* read fails, or that MLflow ever shows a span.
Fairness ==
    /\ WF_vars(Deadline)
    /\ WF_vars(\/ Start \/ Begin \/ Read \/ Putting
               \/ Effective["tracking"] = None /\ Unavailable)

Spec == Init /\ [][Next]_vars /\ Fairness

---------------------------------------------------------------------------

(* A manifest in the bucket, or artifacts on the run, promise every object  *)
(* they name, wherever an upload failed.                                    *)
PublishedWhole ==
    artifacts \/ "manifest" \in stored => stored = ToSet(planned)

(* An object is public only if the mounted configuration or a PUT said so:  *)
(* no PUT of another field makes a private bucket public.                   *)
PublicOnlyIfAsked == exposed => asked

(* The report has every task whose trace could be read when the export      *)
(* began: it is empty or short only if MLflow's configuration was changed   *)
(* since the tracer was built, or a read failed. What an earlier read       *)
(* showed is exported, however the reading ends: a read that fails outright *)
(* does not replace a good one, though one that skips a trace does.         *)
ReportComplete ==
    artifacts =>
        /\ troubles = {} => ready \subseteq Traces(records)
        /\ troubles \subseteq {"unavailable"} => seen \subseteq records

(* The inventory is the evidence for the counters: in a trace with at most  *)
(* one invoke_agent span, the rows marked counted are those that were       *)
(* counted, however the spans arrived and the reads were made.             *)
CountedAgree ==
    rows # {} => \A t \in Traces(records) :
        (\A i, j \in Agents(Trace(t, records)) : i = j)
            => CountedRows(Trace(t, rows)) = RecordOf(Trace(t, records)).counted

(* An export ends, though no span ever arrives and whatever fails.          *)
ExportEnds == pc = "read" ~> pc = "done"
=============================================================================
