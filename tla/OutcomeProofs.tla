---------------------------- MODULE OutcomeProofs ----------------------------
(****************************************************************************)
(* Theorems about what a user is told: the export of a run (Export), for    *)
(* any spans and any configurations, the verdict of a health probe          *)
(* (MlflowHealth), for any probes and runs, and what a client of the        *)
(* Service records of its legs (Matrix), for any plans.  Each theorem is    *)
(* about one of the three.                                                  *)
(****************************************************************************)
EXTENDS Export, MlflowHealth, Matrix, FiniteSetTheorems, TLAPS

-----------------------------------------------------------------------------
(* Health probes.  The verdict on writing is what was heard on the logger:  *)
(* a probe that lost a span has heard it, since it hears itself.            *)

ProbeTypes ==
    /\ probe \in [Probes -> {"auth", "read", "write", "trip", "done"}]
    /\ {write, trip} \subseteq [Probes -> {"none", "ok", "failed"}]
    /\ captured \in [Probes -> SUBSET {"WARNING", "ERROR"}]

\* What a probe has heard, and what it says of it once it has stopped listening.
ProbeInv(p) ==
    /\ p \in dropped => "ERROR" \in captured[p]
    /\ write[p] = "ok" => "ERROR" \notin captured[p]
    /\ write[p] = "failed" => "ERROR" \in captured[p]
    /\ write[p] # "none" => probe[p] \in {"trip", "done"}
    /\ "ERROR" \in captured[p] /\ ~Sick(p) => p \in noise
    /\ trip[p] = "ok" => p \in readable

HealthInv == ProbeTypes /\ \A p \in Probes : ProbeInv(p)

\* A record on the logger is heard by those who listen, who have not judged yet.
LEMMA LogKeeps ==
    ASSUME HealthInv, NEW e, NEW level \in {"WARNING", "ERROR"}, Log(e, level),
           UNCHANGED <<probe, write, trip, readable>>,
           level = "ERROR" => Sick(e),
           \/ dropped' = dropped
           \/ e \in Listening /\ level = "ERROR" /\ dropped' = dropped \union {e}
    PROVE  HealthInv'
  <1> USE DEF HealthInv, ProbeTypes
  <1>1. ProbeTypes'
    BY DEF Log
  <1>2. ASSUME NEW p \in Probes PROVE ProbeInv(p)'
    <2>1. captured'[p] = IF probe[p] = "write" THEN captured[p] \union {level} ELSE captured[p]
      BY DEF Log, Listening
    <2>2. noise \subseteq noise'
          /\ (level = "ERROR" /\ probe[p] = "write" /\ p # e => p \in noise')
      BY DEF Log, Listening
    <2>3. e = p => (Sick(p) <=> Sick(e))
      OBVIOUS
    <2>4. Sick(p)' <=> Sick(p)
      BY DEF Sick
    <2> QED
      BY <2>1, <2>2, <2>3, <2>4 DEF ProbeInv, Listening
  <1> QED
    BY <1>1, <1>2

\* A probe's own steps, and MLflow's.
LEMMA ProbeStepKeeps ==
    ASSUME HealthInv, NEW p \in Probes, ProbeStep(p) \/ IndexTrace(p)
    PROVE  HealthInv'
  <1> USE DEF HealthInv, ProbeTypes, Answer, GoTo, Sick, stages, server, export
  <1>1. CASE Auth(p)
    BY <1>1 DEF Auth, ProbeInv
  <1>2. CASE ReadStage(p)
    BY <1>2 DEF ReadStage, ProbeInv
  <1>3. CASE TokenCrash(p)
    BY <1>3 DEF TokenCrash, ProbeInv
  <1>4. CASE Retries(p)
    BY <1>4, LogKeeps DEF Retries
  <1>5. CASE GivesUpSpan(p)
    BY <1>5, LogKeeps DEF GivesUpSpan, Exporting, Listening
  <1>6. CASE TakesSpan(p)
    BY <1>6 DEF TakesSpan, ProbeInv
  <1>7. CASE JudgeWrite(p)
    BY <1>7 DEF JudgeWrite, failed, ProbeInv
  <1>8. CASE ReadBack(p)
    BY <1>8 DEF ReadBack, Verdict, ProbeInv
  <1>9. CASE RoundTripDeadline(p)
    BY <1>9 DEF RoundTripDeadline, Verdict, ProbeInv
  <1>10. CASE IndexTrace(p)
    BY <1>10 DEF IndexTrace, ProbeInv
  <1> QED
    BY <1>1, <1>2, <1>3, <1>4, <1>5, <1>6, <1>7, <1>8, <1>9, <1>10 DEF ProbeStep

\* The inductive invariant of the probes holds in every behaviour.
THEOREM HealthInvariant == HealthSpec => []HealthInv
  <1>1. HealthInit => HealthInv
    BY DEF HealthInit, HealthInv, ProbeTypes, ProbeInv
  <1>2. HealthInv /\ [HealthNext]_healthVars => HealthInv'
    <2> SUFFICES ASSUME HealthInv, [HealthNext]_healthVars PROVE HealthInv'
      OBVIOUS
    <2>1. ASSUME NEW r \in Runs, NEW level \in {"WARNING", "ERROR"}, RunLogs(r, level)
          PROVE  HealthInv'
      BY <2>1, LogKeeps DEF RunLogs, stages, server
    <2>2. CASE UNCHANGED healthVars
      BY <2>2 DEF healthVars, stages, server, export, HealthInv, ProbeTypes, ProbeInv, Sick
    <2> QED
      BY <2>1, <2>2, ProbeStepKeeps DEF HealthNext
  <1> QED
    BY <1>1, <1>2, PTL DEF HealthSpec

\* A verdict of ok means that no span of the probe was lost and that its root
\* span can be read, though the exporter raises nothing when it loses one.
THEOREM OkMeansReadable == HealthSpec => []OkIsReadable
  <1>1. HealthInv => OkIsReadable
    BY DEF HealthInv, ProbeInv, OkIsReadable, ok
  <1> QED
    BY <1>1, HealthInvariant, PTL

\* A server that stores what it is sent is rejected for its write path only
\* if another exporter of the process gave up a span meanwhile.
THEOREM HealthyNotRejected == HealthSpec => []HealthyAccepted
  <1>1. HealthInv => HealthyAccepted
    BY DEF HealthInv, ProbeInv, HealthyAccepted
  <1> QED
    BY <1>1, HealthInvariant, PTL

-----------------------------------------------------------------------------
(* The export of a run: its configuration.                                  *)

\* What is public, or would be, was asked for.
PublicInv ==
    /\ {asked, exposed, s3["public"], Effective["public"]} \subseteq BOOLEAN
    /\ Effective["public"] => asked
    /\ s3["public"] => asked
    /\ exposed => asked

\* Unless MLflow's configuration was changed, the run's spans are where its
\* reads look for them.
TracerInv ==
    /\ tracer = None \/ pc = "start" => indexed = {}
    /\ pc # "start" /\ "moved" \notin troubles => tracer \in {None, Effective["experiment"]}

\* PUT /config changes what it mentions, and marks what moves MLflow.
LEMMA PutEffect ==
    ASSUME NEW update \in Updates, Put(update)
    PROVE  /\ \A f \in Fields :
                Effective'[f] = IF f \in DOMAIN update THEN update[f] ELSE Effective[f]
           /\ \A f \in DOMAIN update : f \in Fields /\ update[f] \in Values[f]
           /\ "moved" \notin troubles' => Effective'["experiment"] = Effective["experiment"]
  <1>1. \A f \in DOMAIN update : f \in Fields /\ update[f] \in Values[f]
    BY UpdatesAssumption DEF UpdatesAssumption
  <1>2. DOMAIN override' = DOMAIN update \union DOMAIN override
        /\ \A f \in DOMAIN override' :
             override'[f] = IF f \in DOMAIN update THEN update[f] ELSE override[f]
    BY DEF Put, apply
  <1>3. \A f \in Fields :
            Effective'[f] = IF f \in DOMAIN update THEN update[f] ELSE Effective[f]
    BY <1>2 DEF Effective
  <1>4. "experiment" \in Fields \intersect MlflowFields
    BY DEF Fields, MlflowFields
  <1>5. "moved" \notin troubles' =>
            \A f \in DOMAIN update \intersect MlflowFields : update[f] = Effective[f]
    BY DEF Put
  <1> QED
    BY <1>1, <1>3, <1>4, <1>5

\* Without a PUT the configuration is as it was.
LEMMA ConfigStays == ASSUME UNCHANGED config PROVE Effective' = Effective
  BY DEF config, Effective

\* The first part of the invariant holds at first ...
LEMMA InitConfig == Init => PublicInv /\ TracerInv
  <1> SUFFICES ASSUME Init PROVE PublicInv /\ TracerInv
    OBVIOUS
  <1>1. "public" \in S3Fields /\ "public" \in Fields /\ Values["public"] = BOOLEAN
    BY DEF S3Fields, Fields, Values
  <1>2. Base["public"] \in BOOLEAN
    BY <1>1, BaseAssumption DEF BaseAssumption
  <1>3. Effective["public"] = Base["public"] /\ s3["public"] = Base["public"]
    BY <1>1 DEF Init, Effective
  <1> QED
    BY <1>2, <1>3 DEF Init, PublicInv, TracerInv

\* ... and every step keeps it.
LEMMA ConfigKeeps == PublicInv /\ TracerInv /\ [Next]_vars => PublicInv' /\ TracerInv'
  <1> SUFFICES ASSUME PublicInv, TracerInv, [Next]_vars PROVE PublicInv' /\ TracerInv'
    OBVIOUS
  <1>1. ASSUME NEW update \in Updates, Put(update) PROVE PublicInv' /\ TracerInv'
    <2>1. "public" \in Fields /\ Values["public"] = BOOLEAN
      BY DEF S3Fields, Fields, Values
    <2>2. /\ UNCHANGED <<tracer, indexed, pc, s3, exposed>>
          /\ asked' = (asked \/ ("public" \in DOMAIN update /\ update["public"]))
          /\ troubles \subseteq troubles'
      BY <1>1 DEF Put, bucket
    <2>3. Effective'["public"] =
              IF "public" \in DOMAIN update THEN update["public"] ELSE Effective["public"]
      BY <1>1, <2>1, PutEffect
    <2>4. "public" \in DOMAIN update => update["public"] \in BOOLEAN
      BY <1>1, <2>1, PutEffect
    <2>5. PublicInv'
      BY <2>2, <2>3, <2>4 DEF PublicInv
    <2>6. TracerInv'
      BY <1>1, <2>2, PutEffect DEF TracerInv
    <2> QED
      BY <2>5, <2>6
  <1>2. CASE Start
    BY <1>2, ConfigStays DEF Start, bucket, PublicInv, TracerInv
  <1>3. CASE Begin
    <2>1. s3'["public"] = Effective["public"]
      BY <1>3 DEF Begin, Restrict, S3Fields
    <2> QED
      BY <1>3, <2>1, ConfigStays DEF Begin, bucket, PublicInv, TracerInv
  <1>4. CASE Read \/ Unavailable \/ Lost \/ Deadline
    BY <1>4, ConfigStays DEF Read, Fetch, Settle, Export, ReadAgain, Unavailable, Lost,
       Deadline, bucket, history, PublicInv, TracerInv
  <1>5. CASE Putting
    BY <1>5, ConfigStays DEF Putting, Upload, UploadFails, Stores, history, PublicInv, TracerInv
  <1>6. ASSUME NEW s \in Spans, Index(s) PROVE PublicInv' /\ TracerInv'
    BY <1>6, ConfigStays DEF Index, bucket, history, PublicInv, TracerInv
  <1>7. CASE UNCHANGED vars
    BY <1>7, ConfigStays DEF vars, bucket, history, PublicInv, TracerInv
  <1> QED
    BY <1>1, <1>2, <1>3, <1>4, <1>5, <1>6, <1>7 DEF Next

\* An object is public only if the mounted configuration or a PUT said so.
THEOREM PublicWasAsked == Spec => []PublicOnlyIfAsked
  <1>1. Spec => [](PublicInv /\ TracerInv)
    BY InitConfig, ConfigKeeps, PTL DEF Spec
  <1>2. PublicInv => PublicOnlyIfAsked
    BY DEF PublicInv, PublicOnlyIfAsked
  <1> QED
    BY <1>1, <1>2, PTL

-----------------------------------------------------------------------------
(* Its uploads.                                                             *)

Names == {"run", "report", "spans", "report.parquet", "spans.parquet", "manifest"}

\* Every object is uploaded once, and the manifest last.
Ordered(listed) ==
    /\ listed \in Seq(Names) /\ listed # <<>>
    /\ \A i, j \in 1..Len(listed) : listed[i] = listed[j] => i = j
    /\ listed[Len(listed)] = "manifest"

\* The bucket has the first n objects of the plan.
StoredUpTo(n) ==
    /\ n \in 0..Len(planned)
    /\ stored = {planned[i] : i \in 1..n}
    /\ IsFiniteSet(stored) /\ Cardinality(stored) = n
    /\ pc = "upload" => n < Len(planned)

UploadInv ==
    /\ planned = <<>> \/ Ordered(planned)
    /\ pc \in {"start", "running", "read"} => stored = {} /\ ~artifacts
    /\ pc = "upload" => ~artifacts
    /\ artifacts \in BOOLEAN
    /\ artifacts => stored = ToSet(planned)
    /\ \E n \in Nat : StoredUpTo(n)

\* A sequence of objects without repetition, all of them among ns.
Once(listed, ns) ==
    /\ listed \in Seq(Names)
    /\ \A i, j \in 1..Len(listed) : listed[i] = listed[j] => i = j
    /\ \A i \in 1..Len(listed) : listed[i] \in ns

\* An object that was not among them may follow.
LEMMA OnceMore ==
    ASSUME NEW listed, NEW ns, Once(listed, ns), NEW n \in Names \ ns,
           NEW more \in {<<>>, <<n>>}, NEW all, ns \subseteq all, n \in all
    PROVE  Once(listed \o more, all)
  <1>1. CASE more = <<>>
    BY <1>1 DEF Once
  <1>2. CASE more = <<n>>
    BY <1>2 DEF Once
  <1> QED
    BY <1>1, <1>2

\* Whatever was read, the plan has every object once, and the manifest last.
LEMMA PlansOrdered ==
    ASSUME NEW recs, NEW inventory, NEW listed \in Plans(recs, inventory)
    PROVE  Ordered(listed)
  <1>1. PICK spans \in {<<>>, <<"spans">>}, recorded \in {<<>>, <<"report.parquet">>},
             parquet \in {<<>>, <<"spans.parquet">>} :
             listed = <<"run", "report">> \o spans \o recorded \o parquet \o <<"manifest">>
    BY DEF Plans
  <1> DEFINE first == <<"run", "report">>
             but == first \o spans \o recorded \o parquet
             n2 == {"run", "report"}
             n3 == n2 \union {"spans"}
             n4 == n3 \union {"report.parquet"}
             n5 == n4 \union {"spans.parquet"}
  <1>2. Once(first, n2)
    BY DEF Once, Names
  <1>3. /\ "spans" \in Names \ n2 /\ "report.parquet" \in Names \ n3
        /\ "spans.parquet" \in Names \ n4 /\ "manifest" \in Names \ n5
    BY DEF Names
  <1>4. listed = but \o <<"manifest">>
    BY <1>1
  <1>5. n2 \subseteq n3 /\ n3 \subseteq n4 /\ n4 \subseteq n5
        /\ "spans" \in n3 /\ "report.parquet" \in n4 /\ "spans.parquet" \in n5
    OBVIOUS
  <1> HIDE DEF first, n2, n3, n4, n5
  <1>6. Once(but, n5)
    <2>1. Once(first \o spans, n3)
      BY <1>2, <1>3, <1>5, OnceMore
    <2>2. Once(first \o spans \o recorded, n4)
      BY <2>1, <1>3, <1>5, OnceMore
    <2> QED
      BY <2>2, <1>3, <1>5, OnceMore
  <1> HIDE DEF but
  <1>7. Once(listed, n5 \union {"manifest"})
    BY <1>3, <1>4, <1>6, OnceMore
  <1>8. listed # <<>> /\ listed[Len(listed)] = "manifest"
    BY <1>4, <1>6 DEF Once, Names
  <1> QED
    BY <1>7, <1>8 DEF Once, Ordered

\* One more object is stored.
LEMMA StoresNext ==
    ASSUME Ordered(planned), NEW n \in Nat, StoredUpTo(n), n < Len(planned), Stores,
           UNCHANGED planned
    PROVE  /\ stored' = {planned[i] : i \in 1..(n + 1)}
           /\ IsFiniteSet(stored') /\ Cardinality(stored') = n + 1
  <1>1. stored' = stored \union {planned[n + 1]}
    BY DEF Stores, StoredUpTo
  <1>2. planned[n + 1] \notin stored
    BY DEF Ordered, StoredUpTo
  <1>3. IsFiniteSet(stored') /\ Cardinality(stored') = n + 1
    BY <1>1, <1>2, FS_AddElement DEF StoredUpTo
  <1>4. stored' = {planned[i] : i \in 1..(n + 1)}
    BY <1>1 DEF StoredUpTo
  <1> QED
    BY <1>3, <1>4

\* The part about the uploads holds at first ...
LEMMA InitUpload == Init => UploadInv
  <1> SUFFICES ASSUME Init PROVE UploadInv
    OBVIOUS
  <1>1. StoredUpTo(0)
    BY FS_EmptySet DEF Init, StoredUpTo
  <1> QED
    BY <1>1 DEF Init, UploadInv

\* ... and every step keeps it: a failed upload ends them.
LEMMA UploadKeeps == UploadInv /\ [Next]_vars => UploadInv'
  <1> SUFFICES ASSUME UploadInv, [Next]_vars PROVE UploadInv'
    OBVIOUS
  <1>1. PICK n \in Nat : StoredUpTo(n)
    BY DEF UploadInv
  <1>2. CASE UNCHANGED <<pc, bucket, artifacts>>
    <2>1. StoredUpTo(n)'
      BY <1>1, <1>2 DEF StoredUpTo, bucket
    <2> QED
      BY <1>2, <2>1 DEF UploadInv, Ordered, bucket
  <1>3. CASE Start \/ Begin \/ Lost
    <2>1. /\ pc \in {"start", "running", "read"} /\ pc' \in {"running", "read", "done"}
          /\ UNCHANGED <<planned, stored, artifacts>>
      BY <1>3 DEF Start, Begin, Lost, bucket
    <2>2. StoredUpTo(n)'
      BY <1>1, <2>1 DEF StoredUpTo
    <2> QED
      BY <2>1, <2>2 DEF UploadInv, Ordered
  <1>4. ASSUME NEW recs, NEW inventory, Export(recs, inventory), pc = "read",
               UNCHANGED <<stored, artifacts>>
        PROVE  UploadInv'
    <2>1. pc' = "upload" /\ stored = {} /\ ~artifacts /\ Ordered(planned)'
      BY <1>4, PlansOrdered DEF Export, UploadInv, Ordered
    <2>2. StoredUpTo(0)'
      BY <1>4, <2>1, FS_EmptySet DEF StoredUpTo, Ordered
    <2> QED
      BY <1>4, <2>1, <2>2 DEF UploadInv
  <1>5. CASE Read \/ Unavailable
    <2>1. pc = "read" /\ UNCHANGED <<stored, exposed, artifacts>>
      BY <1>5 DEF Read, Fetch, Unavailable
    <2>2. (\E recs, inventory : Export(recs, inventory)) \/ UNCHANGED <<pc, planned>>
      BY <1>5 DEF Read, Fetch, Settle, ReadAgain, Unavailable
    <2> QED
      BY <1>2, <1>4, <2>1, <2>2 DEF bucket
  <1>6. CASE Putting
    <2>1. pc = "upload" /\ Ordered(planned) /\ n < Len(planned) /\ UNCHANGED planned
      BY <1>1, <1>6 DEF Putting, Upload, UploadFails, UploadInv, StoredUpTo
    <2>2. CASE Upload
      <3>1. /\ stored' = {planned[i] : i \in 1..(n + 1)}
            /\ IsFiniteSet(stored') /\ Cardinality(stored') = n + 1
        BY <1>1, <2>1, <2>2, StoresNext DEF Upload
      <3>2. /\ artifacts' \in BOOLEAN /\ pc' \in {"done", "upload"}
            /\ artifacts' => stored' = ToSet(planned)
            /\ pc' = "upload" => stored' # ToSet(planned) /\ ~artifacts'
        BY <2>2 DEF Upload
      <3>3. n + 1 = Len(planned) => stored' = ToSet(planned)
        BY <2>1, <3>1 DEF ToSet, Ordered
      <3>4. StoredUpTo(n + 1)'
        BY <2>1, <3>1, <3>2, <3>3 DEF StoredUpTo
      <3> QED
        BY <2>1, <3>2, <3>4 DEF UploadInv, Ordered
    <2>3. CASE UploadFails
      <3>1. pc' = "done" /\ UNCHANGED artifacts /\ ~artifacts
        BY <2>1, <2>3 DEF UploadFails, UploadInv
      <3>2. CASE UNCHANGED stored
        <4>1. StoredUpTo(n)'
          BY <1>1, <2>1, <3>1, <3>2 DEF StoredUpTo
        <4> QED
          BY <2>1, <3>1, <4>1 DEF UploadInv, Ordered
      <3>3. CASE Stores
        <4>1. /\ stored' = {planned[i] : i \in 1..(n + 1)}
              /\ IsFiniteSet(stored') /\ Cardinality(stored') = n + 1
          BY <1>1, <2>1, <3>3, StoresNext
        <4>2. StoredUpTo(n + 1)'
          BY <2>1, <3>1, <4>1 DEF StoredUpTo
        <4> QED
          BY <2>1, <3>1, <4>2 DEF UploadInv, Ordered
      <3> QED
        BY <2>3, <3>2, <3>3 DEF UploadFails
    <2> QED
      BY <1>6, <2>2, <2>3 DEF Putting
  <1>7. CASE Deadline \/ (\E update \in Updates : Put(update)) \/ (\E s \in Spans : Index(s))
             \/ UNCHANGED vars
    BY <1>2, <1>7 DEF Deadline, Put, Index, vars
  <1> QED
    BY <1>3, <1>5, <1>6, <1>7 DEF Next

\* A manifest in the bucket, or artifacts on the run, promise every object of
\* the export, wherever an upload failed: the manifest is uploaded last.
THEOREM ManifestLast == Spec => []PublishedWhole
  <1>1. UploadInv => PublishedWhole
    <2> SUFFICES ASSUME UploadInv, "manifest" \in stored PROVE stored = ToSet(planned)
      BY DEF UploadInv, PublishedWhole
    <2>1. PICK n \in Nat : StoredUpTo(n)
      BY DEF UploadInv
    <2>2. PICK i \in 1..n : planned[i] = "manifest"
      BY <2>1 DEF StoredUpTo
    <2>3. Ordered(planned)
      BY <2>1, <2>2 DEF UploadInv, StoredUpTo
    <2>4. i = Len(planned) /\ n = Len(planned)
      BY <2>1, <2>2, <2>3 DEF Ordered, StoredUpTo
    <2>5. DOMAIN planned = 1..n
      BY <2>3, <2>4 DEF Ordered
    <2> QED
      BY <2>1, <2>5 DEF StoredUpTo, ToSet
  <1> QED
    BY <1>1, InitUpload, UploadKeeps, PTL DEF Spec

-----------------------------------------------------------------------------
(* Its reads.                                                               *)

\* The spans a read shows that finds MLflow configured as for the run.
Shown == {s \in indexed : TraceOf[s] \in Rooted(indexed)}

\* What the report must have, while it is uploaded and afterwards.
Complete ==
    /\ troubles = {} => ready \subseteq Traces(records)
    /\ troubles \subseteq {"unavailable"} => seen \subseteq records

ReadInv ==
    /\ pc \in {"start", "running"} => records = {} /\ seen = {}
    /\ ready \subseteq Rooted(indexed)
    /\ records \subseteq Shown
    /\ rows \in {{}, records}
    /\ troubles \subseteq {"unavailable"} => seen \subseteq records
    /\ pc = "upload" \/ artifacts => Complete

ExportInv == PublicInv /\ TracerInv /\ UploadInv /\ ReadInv

\* Every trace that has a root is shown.
LEMMA ShownTraces == Traces(Shown) = Rooted(indexed)
  BY DEF Traces, Shown, Rooted

\* A read shows traces that have a root, all of them if nothing goes wrong.
LEMMA FetchShows ==
    ASSUME TracerInv, NEW skipped, Fetch(skipped)
    PROVE  /\ pc = "read" /\ UNCHANGED <<indexed, ready, artifacts>>
           /\ records' \subseteq Shown /\ rows' \in {{}, records'}
           /\ seen' = seen \union records' /\ troubles \subseteq troubles'
           /\ troubles' \subseteq {"unavailable"} => records' = Shown
  <1>1. pc = "read" /\ UNCHANGED <<indexed, ready, artifacts>>
        /\ records' = Downloaded(skipped) /\ rows' \in {{}, records'}
        /\ seen' = seen \union records' /\ troubles \subseteq troubles'
    BY DEF Fetch
  <1>2. Downloaded(skipped) \subseteq Shown
    BY DEF Downloaded, Shown
  <1>3. ASSUME troubles' \subseteq {"unavailable"} PROVE Downloaded(skipped) = Shown
    <2>1. skipped = {} /\ "moved" \notin troubles
      BY <1>3 DEF Fetch
    <2>2. CASE Effective["experiment"] = tracer
      BY <2>1, <2>2 DEF Downloaded, Shown
    <2>3. CASE Effective["experiment"] # tracer
      BY <1>1, <2>1, <2>3 DEF TracerInv, Downloaded, Shown
    <2> QED
      BY <2>2, <2>3
  <1> QED
    BY <1>1, <1>2, <1>3

\* A span more is never a span less.
LEMMA MoreShown ==
    ASSUME indexed \subseteq indexed'
    PROVE  Shown \subseteq Shown' /\ Rooted(indexed) \subseteq Rooted(indexed)'
  BY DEF Shown, Rooted

\* The part about the reads is kept by every step: an unavailable MLflow
\* leaves what was read before.
LEMMA ReadKeeps == ExportInv /\ [Next]_vars => ReadInv'
  <1> SUFFICES ASSUME ExportInv, [Next]_vars PROVE ReadInv'
    OBVIOUS
  <1> USE DEF ExportInv
  <1>1. ASSUME UNCHANGED <<records, rows, seen, ready, artifacts>>,
               indexed \subseteq indexed', pc' = pc, troubles \subseteq troubles'
        PROVE  ReadInv'
    BY <1>1, MoreShown DEF ReadInv, Complete, Traces
  <1>2. CASE Start
    <2>1. pc = "start" /\ UNCHANGED <<records, rows, seen, ready, artifacts, indexed>>
          /\ pc' = "running" /\ ~artifacts
      BY <1>2 DEF Start, reading, UploadInv
    <2> QED
      BY <2>1, MoreShown DEF ReadInv
  <1>3. CASE Begin
    <2>1. pc = "running" /\ UNCHANGED <<records, rows, seen, artifacts, indexed, troubles>>
          /\ pc' \in {"done", "read"} /\ ready' = Rooted(indexed) /\ ~artifacts
      BY <1>3 DEF Begin, reading, UploadInv
    <2> QED
      BY <2>1, MoreShown DEF ReadInv, Rooted
  <1>4. ASSUME NEW skipped, Fetch(skipped) PROVE ReadInv'
    <2>1. Shown' = Shown /\ Rooted(indexed)' = Rooted(indexed)
      BY <1>4, FetchShows DEF Shown, Rooted
    <2>2. pc' \in {"read", "upload"}
      BY <1>4 DEF Fetch, Settle, Export, ReadAgain
    <2>3. troubles' \subseteq {"unavailable"} => seen' \subseteq records'
      BY <1>4, FetchShows DEF ReadInv
    <2>4. troubles' = {} => ready' \subseteq Traces(records)'
      BY <1>4, <2>1, FetchShows, ShownTraces DEF ReadInv, Traces
    <2> QED
      BY <1>4, <2>1, <2>2, <2>3, <2>4, FetchShows DEF ReadInv, Complete, UploadInv
  <1>5. CASE Unavailable
    <2>1. UNCHANGED <<records, rows, seen, ready, artifacts, indexed>>
          /\ pc' = "upload" /\ troubles' = troubles \union {"unavailable"}
      BY <1>5 DEF Unavailable, Export
    <2> QED
      BY <2>1, MoreShown DEF ReadInv, Complete
  <1>6. CASE Lost
    <2>1. UNCHANGED <<records, rows, seen, ready, artifacts, indexed, troubles>>
          /\ pc' = "done" /\ ~artifacts
      BY <1>6 DEF Lost, reading, history, UploadInv
    <2> QED
      BY <2>1, MoreShown DEF ReadInv
  <1>7. CASE Putting
    <2>1. UNCHANGED <<records, rows, seen, ready, indexed, troubles>>
          /\ pc = "upload" /\ pc' \in {"upload", "done"}
      BY <1>7 DEF Putting, Upload, UploadFails, reading, history
    <2> QED
      BY <2>1, MoreShown DEF ReadInv, Complete, Traces
  <1>8. CASE Deadline \/ (\E update \in Updates : Put(update)) \/ (\E s \in Spans : Index(s))
             \/ UNCHANGED vars
    BY <1>1, <1>8 DEF Deadline, Put, Index, vars, reading, history
  <1> QED
    BY <1>2, <1>3, <1>4, <1>5, <1>6, <1>7, <1>8 DEF Next, Read

\* The inductive invariant of the export holds in every behaviour.
THEOREM ExportInvariant == Spec => []ExportInv
  <1>1. Init => ExportInv
    BY InitConfig, InitUpload DEF Init, ExportInv, ReadInv
  <1>2. ExportInv /\ [Next]_vars => ExportInv'
    BY ConfigKeeps, UploadKeeps, ReadKeeps DEF ExportInv
  <1> QED
    BY <1>1, <1>2, PTL DEF Spec

\* The report has every task that could be read when the export began, and all
\* that any read has shown, unless MLflow's configuration moved or a read failed.
THEOREM ReportIsComplete == Spec => []ReportComplete
  <1>1. ExportInv => ReportComplete
    BY DEF ExportInv, ReadInv, Complete, ReportComplete
  <1> QED
    BY <1>1, ExportInvariant, PTL

\* The rows marked counted are the spans that were counted: both are of one
\* read, and the one invoke_agent span is the first as well as the last.
THEOREM InventoryAgrees == Spec => []CountedAgree
  <1>1. ExportInv => CountedAgree
    <2> SUFFICES ASSUME rows # {}, rows \in {{}, records}, NEW t \in Traces(records),
                        \A i, j \in Agents(Trace(t, records)) : i = j
                 PROVE  CountedRows(Trace(t, rows)) = RecordOf(Trace(t, records)).counted
      BY DEF ExportInv, ReadInv, CountedAgree
    <2> DEFINE trace == Trace(t, records)
    <2>1. Trace(t, rows) = trace
      OBVIOUS
    <2> HIDE DEF trace
    <2>2. FirstAgent(trace) = LastAgent(trace)
      <3>1. CASE Agents(trace) = {}
        BY <3>1 DEF FirstAgent, LastAgent
      <3>2. CASE Agents(trace) # {}
        <4>1. PICK i \in Int : Agents(trace) = {i}
          BY <3>2 DEF trace, Agents
        <4>2. Min(Agents(trace)) = i /\ Max(Agents(trace)) = i
          BY <4>1 DEF Min, Max
        <4> QED
          BY <3>2, <4>2 DEF FirstAgent, LastAgent
      <3> QED
        BY <3>1, <3>2
    <2> QED
      BY <2>1, <2>2 DEF CountedRows, RecordOf, trace
  <1> QED
    BY <1>1, ExportInvariant, PTL

-----------------------------------------------------------------------------
(* The legs of a matrix.  A leg has made no run, has one request for a run  *)
(* under way, or has made one run; what the client has heard tells which,   *)
(* unless an answer was lost.                                               *)

Statuses == Verdicts \union {"deploy_failed", "run_rejected", "open", "driver_exception"}
Job == [op : {"teardown", "deploy", "run"}, leg : Legs, did : {0, 1}, heard : BOOLEAN,
        no : Nat]

MatrixTypes ==
    /\ plan \in Seq(LLMs \union {NoLLM}) /\ leg \in Legs
    /\ tries \in Nat /\ lost \in Nat
    /\ rec \in [Legs -> Statuses \union {"none"}]
    /\ runs \in [Legs -> Verdicts \union {"none", "running"}]
    /\ count \in [Legs -> Nat]
    /\ jobs \subseteq Job

\* The requests for a run of leg k.
RunJobs(k) == {j \in jobs : j.op = "run" /\ j.leg = k}

\* Leg k has no run and will not have one by itself.
Untouched(k) == count[k] = 0 /\ runs[k] = "none" /\ RunJobs(k) = {}

\* One request at most has somebody who waits for it: the client, for its leg.
JobInv(j) ==
    /\ j.leg <= leg
    /\ j.heard =>
         /\ j.leg = leg /\ reply = "none"
         /\ place \in {"teardown", "deploy", "run", "cleanup"}
         /\ place = "run" <=> j.op = "run"
         /\ \A i \in jobs : i.heard => i = j

LegInv(k) ==
    /\ count[k] <= 1
    /\ count[k] = 0 <=> runs[k] = "none"
    /\ \A i, j \in RunJobs(k) : i = j
    /\ RunJobs(k) # {} => count[k] = 0
    /\ rec[k] \in Verdicts => runs[k] \in Verdicts /\ RunJobs(k) = {}
    /\ rec[k] = "deploy_failed" => Untouched(k)
    /\ rec[k] = "run_rejected" /\ lost = 0 => Untouched(k)
    /\ k > leg => Untouched(k) /\ rec[k] = "none"

\* What the client may conclude for the leg at hand.
Concludes ==
    /\ place \in {"rest", "teardown", "deploy", "ready", "warm"} => Untouched(leg)
    /\ place = "run" =>
         /\ reply = "unready" => Untouched(leg)
         /\ reply = "done" => count[leg] = 1 /\ RunJobs(leg) = {}
         /\ reply \notin {"none", "done"} /\ lost = 0 => Untouched(leg)
    /\ place \in {"watch", "artifacts", "cleanup"} => count[leg] = 1 /\ RunJobs(leg) = {}
    /\ place \in {"rest", "teardown", "deploy", "ready", "warm", "run"} => rec[leg] = "none"
    /\ place \in {"artifacts", "cleanup"} => rec[leg] # "none"

MatrixInv ==
    /\ MatrixTypes
    /\ \A j \in jobs : JobInv(j)
    /\ \A k \in Legs : LegInv(k)
    /\ Concludes

\* A leg is between the first and the last.
LEMMA LegNumbers ==
    ASSUME MatrixTypes
    PROVE  Legs = 1..Len(plan) /\ Len(plan) \in Nat /\ leg \in Nat
  BY DEF MatrixTypes, Legs

\* A leg that is over, with nobody waiting for its requests any more.
LEMMA OverKeeps ==
    ASSUME MatrixInv, NEW s \in Statuses, Over(s), UNCHANGED <<plan, runs, count>>,
           lost' \in Nat, lost <= lost', jobs' \subseteq Job,
           \A j \in jobs' : j.leg <= leg /\ ~j.heard,
           \A k \in Legs : \/ RunJobs(k)' \subseteq RunJobs(k)
                           \/ RunJobs(k) # {} /\ \A i, j \in RunJobs(k)' : i = j,
           s \in Verdicts => runs[leg] \in Verdicts /\ RunJobs(leg) = {},
           s = "deploy_failed" => Untouched(leg),
           s = "run_rejected" /\ lost' = 0 => Untouched(leg)
    PROVE  MatrixInv'
  <1>1. Legs' = Legs /\ Verdicts' = Verdicts
    BY DEF Legs, Verdicts
  <1>2. /\ rec' = [rec EXCEPT ![leg] = s] /\ tries' = 0 /\ reply' = "none"
        /\ \/ place' \in {"over", "aborted"} /\ leg' = leg
           \/ place' = "rest" /\ leg' = leg + 1 /\ leg # Len(plan)
    BY DEF Over
  <1>3. leg' \in Legs /\ leg <= leg' /\ leg \in Nat
    BY <1>2, LegNumbers DEF MatrixInv, MatrixTypes
  <1>4. MatrixTypes'
    BY <1>1, <1>2, <1>3 DEF MatrixInv, MatrixTypes, Job, Statuses
  <1>5. \A j \in jobs' : JobInv(j)'
    BY <1>3, LegNumbers DEF JobInv, Job, MatrixInv
  <1>6. ASSUME NEW k \in Legs
        PROVE  /\ rec'[k] = IF k = leg THEN s ELSE rec[k]
               /\ \A i, j \in RunJobs(k)' : i = j
               /\ RunJobs(k)' # {} => RunJobs(k) # {}
               /\ Untouched(k) => Untouched(k)'
    BY <1>2 DEF MatrixInv, MatrixTypes, LegInv, Untouched
  <1>7. ASSUME NEW k \in Legs PROVE LegInv(k)'
    <2>1. LegInv(k) /\ k \in Nat /\ lost \in Nat
      BY LegNumbers DEF MatrixInv, MatrixTypes
    <2>2. k > leg' => k > leg /\ k # leg
      BY <1>3, <2>1
    <2>3. lost' = 0 => lost = 0
      BY <2>1
    <2>4. RunJobs(k) = {} => RunJobs(k)' = {}
      BY <1>6
    <2> QED
      BY <1>1, <1>6, <2>1, <2>2, <2>3, <2>4 DEF LegInv
  <1>8. Concludes'
    BY <1>2, <1>3, <1>6, LegNumbers DEF MatrixInv, LegInv, Concludes
  <1> QED
    BY <1>1, <1>4, <1>5, <1>7, <1>8 DEF MatrixInv

\* A request is sent when nobody waits for another.
LEMMA SendKeeps ==
    ASSUME MatrixInv, NEW op \in {"teardown", "deploy", "run"}, NEW n \in Nat, Send(op, n),
           UNCHANGED <<plan, leg, rec, runs, count, lost>>,
           \A j \in jobs : ~j.heard,
           place' \in {"teardown", "deploy", "run", "cleanup"}, place' = "run" <=> op = "run",
           IF place' = "cleanup"
           THEN count[leg] = 1 /\ RunJobs(leg) = {} /\ rec[leg] # "none"
           ELSE Untouched(leg) /\ rec[leg] = "none"
    PROVE  MatrixInv'
  <1> DEFINE new == [op |-> op, leg |-> leg, did |-> 0, heard |-> TRUE, no |-> n]
  <1>1. jobs' = jobs \union {new} /\ reply' = "none" /\ tries' = n
    BY DEF Send
  <1>2. new \in Job /\ new.op = op /\ new.leg = leg /\ new.heard /\ leg \in Nat
    BY LegNumbers DEF Job, MatrixInv, MatrixTypes
  <1> HIDE DEF new
  <1>3. Legs' = Legs /\ Verdicts' = Verdicts
    BY DEF Legs, Verdicts
  <1>4. MatrixTypes'
    BY <1>1, <1>2, <1>3 DEF MatrixInv, MatrixTypes, Job, Statuses
  <1>5. \A j \in jobs' : JobInv(j)'
    BY <1>1, <1>2 DEF MatrixInv, JobInv
  <1>6. ASSUME NEW k \in Legs
        PROVE  RunJobs(k)' = IF k = leg /\ op = "run" THEN RunJobs(k) \union {new} ELSE RunJobs(k)
    BY <1>1, <1>2 DEF RunJobs
  <1>7. ASSUME NEW k \in Legs PROVE LegInv(k)'
    <2>1. LegInv(k) /\ k \in Nat
      BY LegNumbers DEF MatrixInv
    <2>2. CASE k = leg /\ op = "run"
      <3>1. Untouched(leg) /\ rec[leg] = "none" /\ RunJobs(k)' = {new}
        BY <1>6, <2>2 DEF Untouched
      <3> QED
        BY <1>2, <1>3, <2>1, <2>2, <3>1 DEF LegInv, Untouched, Verdicts
    <2>3. CASE ~(k = leg /\ op = "run")
      BY <1>3, <1>6, <2>1, <2>3 DEF LegInv, Untouched
    <2> QED
      BY <2>2, <2>3
  <1>8. Concludes'
    BY <1>1, <1>6 DEF MatrixInv, MatrixTypes, Concludes, Untouched
  <1> QED
    BY <1>3, <1>4, <1>5, <1>7, <1>8 DEF MatrixInv

\* The client goes on, and may record what became of the run.
LEMMA GoingOnKeeps ==
    ASSUME MatrixInv, UNCHANGED <<plan, leg, jobs, runs, count, lost>>, tries' \in Nat,
           \A j \in jobs : ~j.heard,
           \/ UNCHANGED rec
           \/ /\ RunJobs(leg) = {}
              /\ \E s \in Verdicts \union {"open"} :
                   /\ s \in Verdicts => s = runs[leg]
                   /\ rec' = [rec EXCEPT ![leg] = s],
           Concludes'
    PROVE  MatrixInv'
  <1>1. Legs' = Legs /\ Verdicts' = Verdicts
    BY DEF Legs, Verdicts
  <1>2. MatrixTypes'
    BY <1>1 DEF MatrixInv, MatrixTypes, Job, Statuses
  <1>3. \A j \in jobs' : JobInv(j)'
    BY DEF MatrixInv, JobInv
  <1>4. ASSUME NEW k \in Legs PROVE LegInv(k)'
    <2>1. LegInv(k) /\ k \in Nat /\ leg \in Nat /\ (Untouched(k)' <=> Untouched(k))
          /\ RunJobs(k)' = RunJobs(k)
      BY LegNumbers DEF MatrixInv, Untouched, RunJobs
    <2>2. CASE UNCHANGED rec
      BY <1>1, <2>1, <2>2 DEF LegInv
    <2>3. CASE /\ RunJobs(leg) = {}
               /\ \E s \in Verdicts \union {"open"} :
                    /\ s \in Verdicts => s = runs[leg]
                    /\ rec' = [rec EXCEPT ![leg] = s]
      <3>1. IF k = leg THEN /\ rec'[k] \in Verdicts \union {"open"}
                            /\ rec'[k] \in Verdicts => rec'[k] = runs[k]
            ELSE rec'[k] = rec[k]
        BY <2>3 DEF MatrixInv, MatrixTypes
      <3> QED
        BY <1>1, <2>1, <2>3, <3>1 DEF LegInv, Verdicts
    <2> QED
      BY <2>2, <2>3
  <1> QED
    BY <1>1, <1>2, <1>3, <1>4 DEF MatrixInv

\* Nobody waits for a request that has been answered, or was never made.
LEMMA NobodyWaits ==
    ASSUME MatrixInv, reply # "none" \/ place \notin {"teardown", "deploy", "run", "cleanup"}
    PROVE  \A j \in jobs : ~j.heard
  BY DEF MatrixInv, JobInv

\* Nothing is known of what these steps change.
LEMMA SameKeeps ==
    ASSUME MatrixInv,
           UNCHANGED <<plan, leg, place, tries, rec, reply, jobs, lost, runs, count>>
    PROVE  MatrixInv'
  BY DEF MatrixInv, MatrixTypes, Job, Statuses, JobInv, LegInv, Concludes, Untouched, RunJobs,
         Legs, Verdicts

\* A leg begins: its request is sent, or it has to be ready already.
LEMMA BeginKeeps ==
    ASSUME MatrixInv, LogIn \/ LoginFails \/ TeardownOver \/ Redeploy
    PROVE  MatrixInv'
  <1> USE DEF Still
  <1>1. /\ UNCHANGED <<plan, leg, rec, runs, count, lost>>
        /\ place \in {"rest", "teardown", "deploy"} /\ tries \in Nat
        /\ place = "rest" \/ reply # "none"
    BY DEF LogIn, LoginFails, TeardownOver, Redeploy, wire, service, MatrixInv,
           MatrixTypes
  <1>2. (\A j \in jobs : ~j.heard) /\ Untouched(leg) /\ rec[leg] = "none"
    BY <1>1, NobodyWaits DEF MatrixInv, Concludes
  <1>3. CASE \E op \in {"teardown", "deploy", "run"}, n \in Nat :
                Send(op, n) /\ place' = op
    BY <1>1, <1>2, <1>3, SendKeeps
  <1>4. CASE place' \in {"ready", "aborted"} /\ UNCHANGED <<jobs, tries>>
    <2>1. Concludes'
      BY <1>1, <1>2, <1>4 DEF Concludes, Untouched, RunJobs
    <2> QED
      BY <1>1, <1>2, <1>4, <2>1, GoingOnKeeps
  <1>5. CASE LogIn
    BY <1>3, <1>4, <1>5 DEF LogIn
  <1>6. CASE LoginFails
    BY <1>4, <1>6 DEF LoginFails, wire
  <1>7. CASE TeardownOver
    <2>1. \/ Send("teardown", tries + 1) /\ place' = "teardown"
          \/ Send("deploy", 1) /\ place' = "deploy"
      BY <1>7 DEF TeardownOver
    <2> QED
      BY <1>1, <1>3, <2>1
  <1>8. CASE Redeploy
    BY <1>3, <1>8 DEF Redeploy
  <1> QED
    BY <1>5, <1>6, <1>7, <1>8

\* The leg is deployed and found ready, or given up before its run was asked for.
LEMMA DeployKeeps ==
    ASSUME MatrixInv,
           \/ DeployRefused \/ Deployed \/ PollReady \/ PollNotReady \/ PollMissing
           \/ NotReadyInTime \/ WarmUp
    PROVE  MatrixInv'
  <1> USE DEF Still
  <1>1. /\ UNCHANGED <<plan, runs, count, lost>>
        /\ place \in {"deploy", "ready", "warm"} /\ tries \in Nat /\ lost \in Nat
        /\ place \in {"ready", "warm"} \/ reply # "none"
    BY DEF DeployRefused, Deployed, PollReady, PollNotReady, PollMissing,
           NotReadyInTime, TimeIsUp, WarmUp, wire, service, MatrixInv, MatrixTypes
  <1>2. /\ \A j \in jobs : ~j.heard /\ j.leg <= leg
        /\ Untouched(leg) /\ rec[leg] = "none" /\ jobs \subseteq Job
    BY <1>1, NobodyWaits DEF MatrixInv, MatrixTypes, JobInv, Concludes
  <1>3. CASE Over("deploy_failed") /\ UNCHANGED jobs
    <2>1. \A k \in Legs : RunJobs(k)' \subseteq RunJobs(k)
      BY <1>3 DEF RunJobs
    <2>2. jobs' \subseteq Job /\ \A j \in jobs' : j.leg <= leg /\ ~j.heard
      BY <1>2, <1>3
    <2> QED
      BY <1>1, <1>2, <1>3, <2>1, <2>2, OverKeeps DEF Statuses, Verdicts
  <1>4. CASE /\ place' \in {"ready", "warm"}
             /\ UNCHANGED <<leg, tries, rec, jobs>>
    <2>1. Concludes'
      BY <1>1, <1>2, <1>4 DEF Concludes, Untouched, RunJobs
    <2> QED
      BY <1>1, <1>2, <1>4, <2>1, GoingOnKeeps
  <1>5. CASE Send("run", 1) /\ place' = "run" /\ UNCHANGED <<leg, rec>>
    BY <1>1, <1>2, <1>5, SendKeeps
  <1>6. CASE DeployRefused \/ NotReadyInTime
    BY <1>3, <1>6 DEF DeployRefused, NotReadyInTime
  <1>7. CASE Deployed
    BY <1>3, <1>4, <1>7 DEF Deployed
  <1>8. CASE PollReady \/ PollNotReady
    BY <1>4, <1>8 DEF PollReady, PollNotReady, wire
  <1>9. CASE PollMissing
    BY <1>3, <1>4, <1>9 DEF PollMissing
  <1>10. CASE WarmUp
    BY <1>3, <1>5, <1>10 DEF WarmUp
  <1> QED
    BY <1>6, <1>7, <1>8, <1>9, <1>10

\* The run is asked for again, refused, or followed.
LEMMA RunKeeps ==
    ASSUME MatrixInv,
           RunUnready \/ RunRejected \/ RunStarted \/ RunTerminal \/ RunNotInTime
    PROVE  MatrixInv'
  <1> USE DEF Still
  <1>1. /\ UNCHANGED <<plan, runs, count, lost>>
        /\ place = "watch" \/ (place = "run" /\ reply # "none")
        /\ tries \in Nat /\ lost \in Nat
    BY DEF RunUnready, RunRejected, RunStarted, RunTerminal, RunNotInTime,
           TimeIsUp, wire, service, MatrixInv, MatrixTypes
  <1>2. (\A j \in jobs : ~j.heard /\ j.leg <= leg) /\ jobs \subseteq Job
    BY <1>1, NobodyWaits DEF MatrixInv, MatrixTypes, JobInv
  <1>3. CASE RunUnready
    <2>1. Untouched(leg) /\ rec[leg] = "none"
      BY <1>3 DEF RunUnready, MatrixInv, Concludes
    <2> QED
      BY <1>1, <1>2, <1>3, <2>1, SendKeeps DEF RunUnready
  <1>4. ASSUME NEW s \in {"run_rejected", "open"}, Over(s), UNCHANGED jobs,
               s = "run_rejected" /\ lost = 0 => Untouched(leg)
        PROVE  MatrixInv'
    <2>1. \A k \in Legs : RunJobs(k)' \subseteq RunJobs(k)
      BY <1>4 DEF RunJobs
    <2>2. jobs' \subseteq Job /\ \A j \in jobs' : j.leg <= leg /\ ~j.heard
      BY <1>2, <1>4
    <2> QED
      BY <1>1, <1>4, <2>1, <2>2, OverKeeps DEF Statuses, Verdicts
  <1>5. CASE RunRejected
    <2>1. lost = 0 => Untouched(leg)
      BY <1>5 DEF RunRejected, MatrixInv, Concludes
    <2> QED
      BY <1>4, <1>5, <2>1 DEF RunRejected
  <1>6. CASE RunStarted \/ RunTerminal \/ (RunNotInTime /\ ~cli)
    <2>1. /\ UNCHANGED <<leg, tries, jobs>>
          /\ place' \in {"watch", "artifacts"}
          /\ count[leg] = 1 /\ RunJobs(leg) = {}
      BY <1>6 DEF RunStarted, RunTerminal, RunNotInTime, TimeIsUp, wire, MatrixInv,
         Concludes
    <2>2. \/ UNCHANGED rec
          \/ \E s \in Verdicts \union {"open"} :
               /\ s \in Verdicts => s = runs[leg]
               /\ rec' = [rec EXCEPT ![leg] = s]
      BY <1>6 DEF RunStarted, RunTerminal, RunNotInTime, Verdicts
    <2>3. place' = "artifacts" => rec'[leg] # "none"
      BY <1>6 DEF RunStarted, RunTerminal, RunNotInTime, Verdicts, MatrixInv, MatrixTypes
    <2>4. Concludes'
      BY <1>1, <2>1, <2>3 DEF Concludes, RunJobs
    <2> QED
      BY <1>1, <1>2, <2>1, <2>2, <2>4, GoingOnKeeps
  <1>7. CASE RunNotInTime /\ cli
    BY <1>4, <1>7 DEF RunNotInTime
  <1> QED
    BY <1>3, <1>5, <1>6, <1>7

\* The leg is over, with what is recorded of its run.
LEMMA EndKeeps ==
    ASSUME MatrixInv, ArtifactsOver \/ CleanedUp
    PROVE  MatrixInv'
  <1> USE DEF Still
  <1>1. /\ UNCHANGED <<plan, runs, count, lost>> /\ lost \in Nat
        /\ place \in {"artifacts", "cleanup"} /\ (place = "artifacts" \/ reply # "none")
    BY DEF ArtifactsOver, CleanedUp, service, MatrixInv, MatrixTypes
  <1>2. /\ \A j \in jobs : ~j.heard /\ j.leg <= leg
        /\ jobs \subseteq Job /\ leg \in Legs
        /\ count[leg] = 1 /\ RunJobs(leg) = {} /\ rec[leg] # "none"
    BY <1>1, NobodyWaits DEF MatrixInv, MatrixTypes, JobInv, Concludes
  <1>3. CASE Send("teardown", 1) /\ place' = "cleanup" /\ UNCHANGED <<leg, rec>>
    BY <1>1, <1>2, <1>3, SendKeeps
  <1>4. CASE Over(rec[leg]) /\ UNCHANGED jobs
    <2>1. \A k \in Legs : RunJobs(k)' \subseteq RunJobs(k)
      BY <1>4 DEF RunJobs
    <2>2. jobs' \subseteq Job /\ \A j \in jobs' : j.leg <= leg /\ ~j.heard
      BY <1>2, <1>4
    <2>3. LegInv(leg) /\ rec[leg] \in Statuses \union {"none"}
      BY <1>2 DEF MatrixInv, MatrixTypes
    <2>4. rec[leg] \in Statuses
      BY <1>1, <2>3 DEF MatrixInv, Concludes
    <2> QED
      BY <1>1, <1>2, <1>4, <2>1, <2>2, <2>3, <2>4, OverKeeps DEF LegInv
  <1> QED
    BY <1>3, <1>4 DEF ArtifactsOver, CleanedUp

\* A request gone that nobody waits for, or that has its answer, is not made
\* again: a leg whose run was refused is untouched.
LEMMA AnsweredKeeps ==
    ASSUME MatrixInv, NEW j \in jobs, NEW r \in {"done", "missing", "conflict", "unready", "upstream"},
           Answers(j, r), j.op = "run" => r # "done",
           UNCHANGED <<plan, leg, place, tries, rec, lost, runs, count>>
    PROVE  MatrixInv'
  <1>1. jobs' = jobs \ {j} /\ reply' = IF j.heard THEN r ELSE reply
    BY DEF Answers, Becomes
  <1>2. Legs' = Legs /\ Verdicts' = Verdicts
    BY DEF Legs, Verdicts
  <1>3. MatrixTypes'
    BY <1>1, <1>2 DEF MatrixInv, MatrixTypes, Job, Statuses
  <1>4. \A i \in jobs' : JobInv(i)'
    BY <1>1 DEF MatrixInv, JobInv
  <1>5. ASSUME NEW k \in Legs
        PROVE  RunJobs(k)' \subseteq RunJobs(k) /\ (Untouched(k) => Untouched(k)')
    BY <1>1 DEF RunJobs, Untouched
  <1>6. ASSUME NEW k \in Legs PROVE LegInv(k)'
    BY <1>2, <1>5 DEF MatrixInv, LegInv
  <1>7. Concludes'
    <2>1. leg \in Legs /\ LegInv(leg) /\ JobInv(j)
      BY DEF MatrixInv, MatrixTypes
    <2>2. CASE place # "run" \/ ~j.heard
      BY <1>1, <1>5, <2>1, <2>2 DEF MatrixInv, Concludes, JobInv
    <2>3. CASE place = "run" /\ j.heard
      <3>1. j \in RunJobs(leg) /\ j.op = "run"
        BY <2>1, <2>3 DEF JobInv, RunJobs
      <3>2. Untouched(leg)'
        BY <1>1, <2>1, <3>1 DEF LegInv, Untouched, RunJobs
      <3> QED
        BY <1>1, <2>3, <3>1, <3>2 DEF MatrixInv, Concludes
    <2> QED
      BY <2>2, <2>3
  <1> QED
    BY <1>2, <1>3, <1>4, <1>6, <1>7 DEF MatrixInv

\* A request half done is the same request.
LEMMA HalfDoneKeeps ==
    ASSUME MatrixInv, NEW j \in jobs, j.op # "run", GoesOn(j),
           UNCHANGED <<plan, leg, place, tries, rec, lost, runs, count>>
    PROVE  MatrixInv'
  <1> DEFINE half == [j EXCEPT !.did = 1]
  <1>1. jobs' = (jobs \ {j}) \union {half} /\ UNCHANGED reply
    BY DEF GoesOn, Becomes
  <1>2. /\ half \in Job /\ half.op = j.op /\ half.leg = j.leg /\ half.heard = j.heard
    BY DEF MatrixInv, MatrixTypes, Job
  <1> HIDE DEF half
  <1>3. Legs' = Legs /\ Verdicts' = Verdicts
    BY DEF Legs, Verdicts
  <1>4. MatrixTypes'
    BY <1>1, <1>2, <1>3 DEF MatrixInv, MatrixTypes, Job, Statuses
  <1>5. \A i \in jobs' : JobInv(i)'
    BY <1>1, <1>2 DEF MatrixInv, JobInv
  <1>6. \A k \in Legs : RunJobs(k)' = RunJobs(k)
    BY <1>1, <1>2 DEF RunJobs
  <1>7. (\A k \in Legs : LegInv(k)') /\ Concludes'
    BY <1>1, <1>3, <1>6 DEF MatrixInv, MatrixTypes, LegInv, Concludes, Untouched
  <1> QED
    BY <1>3, <1>4, <1>5, <1>7 DEF MatrixInv

\* A run is made of the leg's one request for it.
LEMMA AcceptKeeps ==
    ASSUME MatrixInv, NEW j \in jobs, Accept(j),
           UNCHANGED <<plan, leg, place, tries, rec, lost>>
    PROVE  MatrixInv'
  <1>1. /\ jobs' = jobs \ {j} /\ reply' = IF j.heard THEN "done" ELSE reply
        /\ j.op = "run" /\ runs' = [runs EXCEPT ![j.leg] = "running"]
        /\ count' = [count EXCEPT ![j.leg] = @ + 1]
    BY DEF Accept, Answers, Becomes
  <1>2. j.leg \in Legs /\ j \in RunJobs(j.leg) /\ LegInv(j.leg) /\ JobInv(j)
        /\ count[j.leg] = 0
    BY <1>1 DEF MatrixInv, MatrixTypes, Job, RunJobs, LegInv
  <1>3. Legs' = Legs /\ Verdicts' = Verdicts
    BY DEF Legs, Verdicts
  <1>4. MatrixTypes'
    BY <1>1, <1>2, <1>3 DEF MatrixInv, MatrixTypes, Job, Statuses
  <1>5. \A i \in jobs' : JobInv(i)'
    BY <1>1 DEF MatrixInv, JobInv
  <1>6. RunJobs(j.leg)' = {} /\ count'[j.leg] = 1 /\ runs'[j.leg] = "running"
    BY <1>1, <1>2 DEF RunJobs, LegInv, MatrixInv, MatrixTypes
  <1>7. ASSUME NEW k \in Legs, k # j.leg
        PROVE  RunJobs(k)' = RunJobs(k) /\ count'[k] = count[k] /\ runs'[k] = runs[k]
    BY <1>1, <1>2, <1>7 DEF RunJobs, MatrixInv, MatrixTypes
  <1>8. ASSUME NEW k \in Legs PROVE LegInv(k)'
    <2>1. CASE k = j.leg
      BY <1>2, <1>3, <1>6, <2>1, LegNumbers DEF LegInv, Untouched, JobInv, MatrixInv
    <2>2. CASE k # j.leg
      BY <1>3, <1>7, <2>2 DEF LegInv, Untouched, MatrixInv
    <2> QED
      BY <2>1, <2>2
  <1>9. Concludes'
    <2>1. CASE j.leg # leg
      BY <1>1, <1>2, <1>7, <2>1 DEF MatrixInv, MatrixTypes, Concludes, Untouched, JobInv
    <2>2. CASE j.leg = leg
      <3>1. place \notin {"rest", "teardown", "deploy", "ready", "warm", "watch", "artifacts",
                           "cleanup"}
        BY <1>2, <2>2 DEF MatrixInv, Concludes, Untouched
      <3>2. place = "run" => reply' # "unready" /\ (reply' \in {"none", "done"} \/ lost # 0)
        BY <1>1, <1>2, <2>2 DEF MatrixInv, Concludes, Untouched
      <3> QED
        BY <1>6, <2>2, <3>1, <3>2 DEF MatrixInv, Concludes
    <2> QED
      BY <2>1, <2>2
  <1> QED
    BY <1>3, <1>4, <1>5, <1>8, <1>9 DEF MatrixInv

\* The Service serves a request.
LEMMA ServeKeeps ==
    ASSUME MatrixInv, NEW j \in jobs, Serve(j)
    PROVE  MatrixInv'
  <1>1. UNCHANGED <<plan, leg, place, tries, rec, lost>>
    BY DEF Serve, client
  <1>2. CASE Accept(j)
    BY <1>1, <1>2, AcceptKeeps
  <1>3. CASE UNCHANGED <<runs, count>> /\ j.op # "run" /\ GoesOn(j)
    BY <1>1, <1>3, HalfDoneKeeps
  <1>4. CASE /\ UNCHANGED <<runs, count>>
             /\ \E r \in {"done", "missing", "conflict", "unready", "upstream"} :
                  Answers(j, r) /\ (j.op = "run" => r # "done")
    BY <1>1, <1>4, AnsweredKeeps
  <1>5. CASE DeleteAgent(j) \/ CreateTool(j)
    BY <1>3, <1>4, <1>5 DEF DeleteAgent, CreateTool, service
  <1>6. CASE DeleteTool(j) \/ CreateAgent(j)
    BY <1>4, <1>6 DEF DeleteTool, CreateAgent, service
  <1>7. CASE Precheck(j) \/ Upstream(j)
    BY <1>4, <1>7 DEF Precheck, Upstream, service
  <1> QED
    BY <1>2, <1>5, <1>6, <1>7 DEF Serve

\* An answer is lost: the request may still be served, for nobody.
LEMMA UnheardEffect ==
    ASSUME MatrixInv, NEW j \in jobs, j.heard, jobs' = Unheard(j), UNCHANGED plan
    PROVE  /\ jobs' \subseteq Job /\ \A i \in jobs' : i.leg <= leg /\ ~i.heard
           /\ \A k \in Legs : /\ RunJobs(k)' # {} => RunJobs(k) # {}
                              /\ \A i, l \in RunJobs(k)' : i = l
  <1> DEFINE silent == [j EXCEPT !.heard = FALSE]
  <1>1. jobs' = (jobs \ {j}) \union {silent}
    BY DEF Unheard
  <1>2. silent \in Job /\ ~silent.heard /\ silent.op = j.op /\ silent.leg = j.leg
    BY DEF MatrixInv, MatrixTypes, Job
  <1> HIDE DEF silent
  <1>3. jobs \subseteq Job /\ \A i \in jobs : i.leg <= leg /\ (i.heard => i = j)
    BY DEF MatrixInv, MatrixTypes, JobInv
  <1>4. jobs' \subseteq Job /\ \A i \in jobs' : i.leg <= leg /\ ~i.heard
    BY <1>1, <1>2, <1>3
  <1>5. ASSUME NEW k \in Legs
        PROVE  /\ RunJobs(k)' # {} => RunJobs(k) # {}
               /\ \A i, l \in RunJobs(k)' : i = l
    <2>1. \A i, l \in RunJobs(k) : i = l
      BY DEF MatrixInv, LegInv
    <2>2. CASE j \in RunJobs(k)
      <3>1. RunJobs(k)' = {silent}
        BY <1>1, <1>2, <2>1, <2>2 DEF RunJobs
      <3> QED
        BY <2>2, <3>1
    <2>3. CASE j \notin RunJobs(k)
      <3>1. RunJobs(k)' = RunJobs(k)
        BY <1>1, <1>2, <2>3 DEF RunJobs
      <3> QED
        BY <2>1, <3>1
    <2> QED
      BY <2>2, <2>3
  <1> QED
    BY <1>4, <1>5

\* A lost answer, or none, ends a leg ...
LEMMA LostKeeps ==
    ASSUME MatrixInv, AnswerLost \/ Unsent
    PROVE  MatrixInv'
  <1> USE DEF Still
  <1>1. /\ Over("driver_exception") /\ UNCHANGED <<plan, runs, count>>
        /\ lost \in Nat /\ lost' \in Nat /\ lost <= lost'
    BY DEF AnswerLost, Unsent, service, MatrixInv, MatrixTypes
  <1>2. CASE \E j \in jobs : j.heard /\ jobs' = Unheard(j)
    <2>1. \A k \in Legs : RunJobs(k)' # {} => RunJobs(k) # {}
      BY <1>1, <1>2, UnheardEffect
    <2>2. \A k \in Legs : \/ RunJobs(k)' \subseteq RunJobs(k)
                          \/ RunJobs(k) # {} /\ \A i, j \in RunJobs(k)' : i = j
      BY <1>1, <1>2, <2>1, UnheardEffect
    <2>3. jobs' \subseteq Job /\ \A j \in jobs' : j.leg <= leg /\ ~j.heard
      BY <1>1, <1>2, UnheardEffect
    <2> QED
      BY <1>1, <2>2, <2>3, OverKeeps DEF Statuses, Verdicts
  <1>3. CASE Unsent
    <2>1. jobs' \subseteq jobs /\ \A j \in jobs' : ~j.heard
      <3>1. CASE \E j \in jobs : j.heard /\ j.did = 0 /\ jobs' = jobs \ {j}
        BY <3>1 DEF MatrixInv, JobInv
      <3>2. CASE place \in {"ready", "watch", "artifacts"} /\ UNCHANGED jobs
        BY <3>2, NobodyWaits
      <3> QED
        BY <1>3, <3>1, <3>2 DEF Unsent
    <2>2. \A k \in Legs : RunJobs(k)' \subseteq RunJobs(k)
      BY <2>1 DEF RunJobs
    <2>3. jobs' \subseteq Job /\ \A j \in jobs' : j.leg <= leg /\ ~j.heard
      BY <2>1 DEF MatrixInv, MatrixTypes, JobInv
    <2> QED
      BY <1>1, <2>2, <2>3, OverKeeps DEF Statuses, Verdicts
  <1> QED
    BY <1>2, <1>3 DEF AnswerLost

\* ... and a proxy's answer is one, but says nothing of the request.
LEMMA ProxyKeeps ==
    ASSUME MatrixInv, ProxyTimeout
    PROVE  MatrixInv'
  <1>1. /\ UNCHANGED <<plan, leg, place, tries, rec, runs, count>>
        /\ lost \in Nat /\ lost' = lost + 1 /\ reply' = "upstream"
    BY DEF ProxyTimeout, Still, service, client, MatrixInv, MatrixTypes
  <1>2. PICK j \in jobs : j.heard /\ jobs' = Unheard(j)
    BY DEF ProxyTimeout
  <1>3. /\ jobs' \subseteq Job /\ \A i \in jobs' : i.leg <= leg /\ ~i.heard
        /\ \A k \in Legs : /\ RunJobs(k)' # {} => RunJobs(k) # {}
                           /\ \A i, l \in RunJobs(k)' : i = l
    BY <1>1, <1>2, UnheardEffect
  <1>4. Legs' = Legs /\ Verdicts' = Verdicts
    BY <1>1 DEF Legs, Verdicts
  <1>5. MatrixTypes'
    BY <1>1, <1>3, <1>4 DEF MatrixInv, MatrixTypes, Job, Statuses
  <1>6. \A i \in jobs' : JobInv(i)'
    BY <1>1, <1>3 DEF JobInv
  <1>7. ASSUME NEW k \in Legs PROVE LegInv(k)'
    <2>1. LegInv(k)
      BY DEF MatrixInv
    <2>2. /\ RunJobs(k) = {} => RunJobs(k)' = {}
          /\ Untouched(k) => Untouched(k)'
      BY <1>1, <1>3 DEF Untouched
    <2>3. lost' # 0
      BY <1>1
    <2> QED
      BY <1>1, <1>3, <1>4, <2>1, <2>2, <2>3 DEF LegInv
  <1>8. Concludes'
    <2>1. leg \in Legs
      BY DEF MatrixInv, MatrixTypes
    <2>2. lost' # 0
      BY <1>1
    <2> QED
      BY <1>1, <1>3, <2>1, <2>2 DEF MatrixInv, Concludes, Untouched
  <1> QED
    BY <1>4, <1>5, <1>6, <1>7, <1>8 DEF MatrixInv

\* A run that ends has begun.
LEMMA RunEndsKeeps ==
    ASSUME MatrixInv, NEW k \in Legs, RunEnds(k)
    PROVE  MatrixInv'
  <1>1. /\ UNCHANGED <<plan, leg, place, tries, rec, reply, jobs, lost, count>>
        /\ runs[k] \in {"running", "succeeded"}
        /\ \E v \in Verdicts : runs' = [runs EXCEPT ![k] = v]
    BY DEF RunEnds, client, wire, Verdicts
  <1>2. Legs' = Legs /\ Verdicts' = Verdicts
    BY <1>1 DEF Legs, Verdicts
  <1>3. \A l \in Legs : IF l = k THEN runs'[l] \in Verdicts ELSE runs'[l] = runs[l]
    BY <1>1 DEF MatrixInv, MatrixTypes
  <1>4. MatrixTypes'
    BY <1>1, <1>2 DEF MatrixInv, MatrixTypes, Job, Statuses
  <1>5. \A j \in jobs' : JobInv(j)'
    BY <1>1 DEF MatrixInv, JobInv
  <1>6. \A l \in Legs : RunJobs(l)' = RunJobs(l) /\ (Untouched(l) <=> Untouched(l)')
    BY <1>1, <1>3 DEF RunJobs, Untouched, MatrixInv, LegInv, Verdicts
  <1>7. ASSUME NEW l \in Legs PROVE LegInv(l)'
    BY <1>1, <1>2, <1>3, <1>6 DEF MatrixInv, LegInv, Verdicts
  <1>8. Concludes'
    BY <1>1, <1>6 DEF MatrixInv, MatrixTypes, Concludes
  <1> QED
    BY <1>2, <1>4, <1>5, <1>7, <1>8 DEF MatrixInv

\* The invariant of the matrix holds at first ...
LEMMA InitMatrix == MatrixInit => MatrixInv
  <1> SUFFICES ASSUME MatrixInit PROVE MatrixInv
    OBVIOUS
  <1>1. /\ plan \in Seq(LLMs \union {NoLLM}) /\ plan # <<>> /\ leg = 1 /\ place = "rest"
        /\ tries = 0 /\ rec = [k \in Legs |-> "none"] /\ runs = rec
        /\ count = [k \in Legs |-> 0] /\ jobs = {} /\ lost = 0
    BY PlansAssumption DEF PlansAssumption, MatrixInit
  <1>2. MatrixTypes
    BY <1>1 DEF MatrixTypes, Legs
  <1> QED
    BY <1>1, <1>2 DEF MatrixInv, MatrixTypes, LegInv, Concludes, Untouched, RunJobs, Verdicts

\* ... and every step keeps it.
LEMMA MatrixKeeps == MatrixInv /\ [MatrixNext]_matrixVars => MatrixInv'
  <1> SUFFICES ASSUME MatrixInv, [MatrixNext]_matrixVars PROVE MatrixInv'
    OBVIOUS
  <1>1. CASE Step
    BY <1>1, BeginKeeps, DeployKeeps, RunKeeps, EndKeeps DEF Step
  <1>2. CASE PollReady \/ PollNotReady \/ PollMissing \/ NotReadyInTime \/ RunNotInTime
    BY <1>2, DeployKeeps, RunKeeps
  <1>3. CASE Unsent \/ AnswerLost \/ ProxyTimeout
    BY <1>3, LostKeeps, ProxyKeeps
  <1>4. CASE (\E j \in jobs : Serve(j)) \/ \E k \in Legs : RunEnds(k)
    BY <1>4, ServeKeeps, RunEndsKeeps
  <1>5. CASE (\E k \in Legs : RunExported(k)) \/ Mirror \/ Crash \/ Tick \/ UNCHANGED matrixVars
    BY <1>5, SameKeeps DEF RunExported, Mirror, Crash, Tick, matrixVars, client, wire, service
  <1> QED
    BY <1>1, <1>2, <1>3, <1>4, <1>5 DEF MatrixNext

\* A leg has one run at most, however often its request is made and whatever
\* answers are lost, and none is left of a leg that is over with a verdict,
\* never got as far, or was refused by the Service itself.
THEOREM OneRunPerLeg == MatrixSpec => []LegsApart
  <1>1. MatrixInit => MatrixInv
    BY InitMatrix
  <1>2. MatrixInv => LegsApart
    <2> SUFFICES ASSUME MatrixInv, NEW k \in Legs
                 PROVE  /\ count[k] <= 1
                        /\ rec[k] \in Verdicts => count[k] = 1
                        /\ rec[k] = "deploy_failed" => count[k] = 0
                        /\ rec[k] = "run_rejected" /\ lost = 0 => count[k] = 0
                        /\ rec[k] \in Verdicts \union {"deploy_failed"} =>
                             /\ runs[k] # "running"
                             /\ \A j \in jobs : ~(j.op = "run" /\ j.leg = k)
      BY DEF LegsApart
    <2>1. LegInv(k) /\ count[k] \in Nat
      BY DEF MatrixInv, MatrixTypes
    <2> QED
      BY <2>1 DEF LegInv, Untouched, RunJobs, Verdicts
  <1> QED
    BY <1>1, <1>2, MatrixKeeps, PTL DEF MatrixSpec
-----------------------------------------------------------------------------
(* What a leg is reported as, if at most one answer is lost.  Then at most  *)
(* one request is served for nobody: one that deletes, or one that deploys, *)
(* never both, and a deployment is not replaced behind the client's back.   *)

\* The tool is a lock, as in Workloads: an agent beside its tool, or the half
\* done request between them, is alone.
HolderInv ==
    /\ {tool, agent} \subseteq LLMs \union {NoLLM}
    /\ agent # NoLLM => tool # NoLLM
    /\ \A j \in jobs : j.did = 1 =>
         tool # NoLLM /\ agent = NoLLM /\ \A i \in jobs : i.did = 1 => i = j

\* At most one request is served for nobody, after an answer was lost; and the
\* client waits for what it has asked for.
WaitInv ==
    /\ \A i, j \in jobs : ~i.heard /\ ~j.heard => i = j
    /\ \A j \in jobs :
        /\ j.op = "deploy" => Deploys(j.leg)
        /\ IF j.heard THEN place = "deploy" <=> j.op = "deploy" ELSE lost # 0

\* Requests to deploy and to tear down, whoever waits for them.
Asked(op) == \E j \in jobs : j.op = op

\* No agent with another LLM than l will be there, unless the client deploys.
Standing(l) ==
    /\ agent \in {NoLLM, l}
    /\ Asked("deploy") => agent = l /\ ~Asked("teardown")

\* Leg k reuses the deployment that leg j, reported, has made.
Reuses(k, j) == Deploys(j) /\ Reported(j) /\ \A i \in (j + 1)..k : ~Deploys(i)

\* The deployment that the leg at hand works with stands.
StandingInv ==
    /\ place = "deploy" /\ reply = "done" => Standing(Enacted(leg))
    /\ Deploys(leg) /\ place \in {"ready", "warm", "run", "watch", "artifacts"}
         => Standing(plan[leg])
    /\ \A j \in 1..(leg - 1) : Reuses(leg, j) => Standing(plan[j])

\* Which places a leg comes by.
PlaceInv ==
    /\ cli => leg = 1
    /\ place \in {"teardown", "deploy"} => Deploys(leg)
    /\ place \in {"ready", "warm"} => Deploys(leg) \/ cli
    /\ place = "cleanup" => cli

\* The run of leg k is of the agent it is reported under.
RanRight(k) ==
    IF Deploys(k) THEN ran[k] = plan[k]
    ELSE \A j \in 1..(k - 1) : Reuses(k, j) => ran[k] = plan[j]

\* The client has heard that the run of leg k was accepted.
Accepted(k) ==
    \/ Reported(k)
    \/ k = leg /\ place = "run" /\ reply = "done"
    \/ k = leg /\ place \in {"watch", "artifacts", "cleanup"}

RanInv ==
    /\ ran \in [Legs -> LLMs \union {NoLLM}]
    /\ \A k \in Legs : Accepted(k) => RanRight(k)
    /\ \A k \in Legs : rec[k] = "open" => RunJobs(k) = {}

ReportInv ==
    /\ lost <= 1
    /\ HolderInv /\ WaitInv /\ PlaceInv /\ StandingInv /\ RanInv


\* The client sends a request, when it waits for no other.
Sends ==
    /\ UNCHANGED <<leg, rec, stable, since, health>> /\ \A j \in jobs : ~j.heard
    /\ place = "rest" => Rested
    /\ \E op \in {"teardown", "deploy", "run"}, n \in Nat :
        /\ Send(op, n)
        /\ \/ /\ op \in {"teardown", "deploy"} /\ place' = op
              /\ place \in {"rest", "teardown", "deploy"} /\ Deploys(leg)
           \/ /\ op = "run" /\ place' = op
              /\ place \in {"warm", "run"} \/ (place = "rest" /\ ~Deploys(leg) /\ ~cli)
           \/ op = "teardown" /\ place = "artifacts" /\ place' = "cleanup" /\ cli

\* It is done with the leg.
Drops ==
    /\ UNCHANGED health
    /\ \E s \in Statuses :
        /\ Over(s)
        /\ s \in Verdicts \union {"open"} => place \in {"watch", "artifacts", "cleanup"}
    /\ jobs' \subseteq jobs /\ \A j \in jobs' : ~j.heard

\* It goes on without a request.
Proceeds ==
    /\ UNCHANGED <<leg, jobs, reply, since>> /\ \A j \in jobs : ~j.heard
    /\ place = "rest" => Rested
    /\ \/ UNCHANGED rec
       \/ place = "watch" /\ \E s \in Verdicts \union {"open"} : rec' = [rec EXCEPT ![leg] = s]
    /\ \/ /\ UNCHANGED <<stable, health>>
          /\ \/ place = "rest" /\ place' = "aborted"
             \/ place = "rest" /\ place' = "ready" /\ cli /\ ~Deploys(leg)
             \/ place = "deploy" /\ reply = "done" /\ EchoAgrees /\ place' = "ready"
             \/ place = "run" /\ reply = "done" /\ place' = "watch"
             \/ place = "watch" /\ place' = "artifacts"
       \/ place = "ready" /\ place' = "ready" /\ stable' = 0 /\ (FoundDown \/ UNCHANGED health)
       \/ place = "ready" /\ place' \in {"ready", "warm"} /\ PollReady

\* What the client does to the requests and to the leg, but for losing an
\* answer.
LEMMA ClientStep ==
    ASSUME MatrixInv, PlaceInv,
           Step \/ PollReady \/ PollNotReady \/ PollMissing \/ NotReadyInTime
             \/ RunNotInTime \/ Unsent
    PROVE  /\ UNCHANGED <<plan, cli, honours, tool, agent, runs, ran, count, lost, quiet>>
           /\ Sends \/ Drops \/ Proceeds
  <1> USE DEF Still, cluster, service, wire
  <1>1. UNCHANGED <<plan, cli, honours, tool, agent, runs, ran, count, lost, quiet>>
    BY DEF Step, LogIn, LoginFails, TeardownOver, Redeploy, DeployRefused, Deployed,
           WarmUp, RunUnready, RunRejected, RunStarted, RunTerminal, ArtifactsOver,
           CleanedUp, PollReady, PollNotReady, PollMissing, NotReadyInTime, RunNotInTime,
           Unsent
  <1> SUFFICES Sends \/ Drops \/ Proceeds
    BY <1>1
  <1>2. /\ reply # "none" \/ place \notin {"teardown", "deploy", "run", "cleanup"}
             => \A j \in jobs : ~j.heard
        /\ tries + 1 \in Nat /\ 1 \in Nat
        /\ leg \in Legs /\ rec[leg] \in Statuses \union {"none"}
    BY NobodyWaits DEF MatrixInv, MatrixTypes
  <1>3. ASSUME NEW s \in Statuses, Over(s), UNCHANGED <<jobs, health>>, \A j \in jobs : ~j.heard,
               s \in Verdicts \union {"open"} => place \in {"watch", "artifacts", "cleanup"}
        PROVE  Drops
    BY <1>3 DEF Drops
  <1>19. ASSUME NEW op \in {"teardown", "deploy", "run"}, NEW n \in Nat, Send(op, n),
                UNCHANGED <<leg, rec, stable, since, health>>, \A j \in jobs : ~j.heard,
                place = "rest" => Rested,
                \/ /\ op \in {"teardown", "deploy"} /\ place' = op
                   /\ place \in {"rest", "teardown", "deploy"} /\ Deploys(leg)
                \/ /\ op = "run" /\ place' = op
                   /\ place \in {"warm", "run"} \/ (place = "rest" /\ ~Deploys(leg) /\ ~cli)
                \/ op = "teardown" /\ place = "artifacts" /\ place' = "cleanup" /\ cli
         PROVE  Sends
    BY <1>19, Zenon DEF Sends
  <1>4. {"deploy_failed", "run_rejected", "open", "driver_exception"} \subseteq Statuses
        /\ {"deploy_failed", "run_rejected", "driver_exception"} \intersect (Verdicts \union {"open"}) = {}
    BY DEF Statuses, Verdicts
  <1>5. CASE LogIn
    <2>1. /\ place = "rest" /\ UNCHANGED <<leg, rec, stable, since, health>> /\ Rested
          /\ \/ Deploys(leg) /\ Send("teardown", 1) /\ place' = "teardown"
             \/ ~Deploys(leg) /\ ~cli /\ Send("run", 1) /\ place' = "run"
             \/ ~Deploys(leg) /\ cli /\ place' = "ready" /\ UNCHANGED <<jobs, reply>>
      BY <1>5 DEF LogIn
    <2> QED
      BY <1>2, <1>19, <2>1 DEF Proceeds
  <1>6. CASE LoginFails \/ RunStarted
    BY <1>2, <1>6 DEF LoginFails, RunStarted, Proceeds
  <1>7. CASE TeardownOver
    <2>1. /\ place = "teardown" /\ reply # "none" /\ UNCHANGED <<leg, rec, stable, since, health>>
          /\ \/ Send("teardown", tries + 1) /\ place' = "teardown"
             \/ Send("deploy", 1) /\ place' = "deploy"
      BY <1>7 DEF TeardownOver
    <2> QED
      BY <1>2, <1>19, <2>1 DEF PlaceInv
  <1>8. CASE Redeploy
    <2>1. /\ place = "deploy" /\ reply # "none" /\ UNCHANGED <<leg, rec, stable, since, health>>
          /\ Send("teardown", 1) /\ place' = "teardown"
      BY <1>8 DEF Redeploy
    <2>2. Deploys(leg)
      BY <2>1 DEF PlaceInv
    <2> QED
      BY <1>2, <1>19, <2>1, <2>2
  <1>9. CASE DeployRefused \/ NotReadyInTime \/ RunRejected
    BY <1>2, <1>3, <1>4, <1>9 DEF DeployRefused, NotReadyInTime, TimeIsUp, RunRejected
  <1>10. CASE Deployed
    BY <1>2, <1>3, <1>4, <1>10 DEF Deployed, Proceeds
  <1>11. CASE PollReady
    <2>1. place = "ready" /\ place' \in {"ready", "warm"}
          /\ UNCHANGED <<leg, rec, since, reply, jobs>>
      BY <1>11 DEF PollReady
    <2> QED
      BY <1>2, <1>11, <2>1 DEF Proceeds
  <1>12. CASE PollNotReady \/ PollMissing
    <2>1. /\ place = "ready"
          /\ \/ /\ UNCHANGED <<leg, place, rec, since, reply, jobs>> /\ stable' = 0
                /\ FoundDown \/ UNCHANGED health
             \/ Over("deploy_failed") /\ UNCHANGED <<jobs, health>>
      BY <1>12 DEF PollNotReady, PollMissing, Flapped
    <2> QED
      BY <1>2, <1>3, <1>4, <2>1 DEF Proceeds
  <1>13. CASE WarmUp
    BY <1>2, <1>3, <1>4, <1>13, <1>19 DEF WarmUp
  <1>14. CASE RunUnready
    BY <1>2, <1>14, <1>19 DEF RunUnready
  <1>15. CASE RunTerminal
    BY <1>2, <1>15 DEF RunTerminal, Proceeds
  <1>16. CASE RunNotInTime
    BY <1>2, <1>3, <1>4, <1>16 DEF RunNotInTime, TimeIsUp, Proceeds
  <1>17. CASE ArtifactsOver \/ CleanedUp
    <2>1. place \in {"artifacts", "cleanup"} /\ (place = "artifacts" \/ reply # "none")
          /\ rec[leg] \in Statuses
      BY <1>2, <1>17 DEF ArtifactsOver, CleanedUp, MatrixInv, Concludes
    <2>2. \/ Over(rec[leg]) /\ UNCHANGED <<jobs, health>>
          \/ /\ place = "artifacts" /\ cli /\ Send("teardown", 1) /\ place' = "cleanup"
             /\ UNCHANGED <<leg, rec, stable, since, health>>
      BY <1>17 DEF ArtifactsOver, CleanedUp
    <2> QED
      BY <1>2, <1>3, <1>19, <2>1, <2>2
  <1>18. CASE Unsent
    <2>1. jobs' \subseteq jobs /\ \A j \in jobs' : ~j.heard
      BY <1>2, <1>18 DEF Unsent, MatrixInv, JobInv
    <2> QED
      BY <1>4, <1>18, <2>1 DEF Unsent, Drops
  <1> QED
    BY <1>1, <1>5, <1>6, <1>7, <1>8, <1>9, <1>10, <1>11, <1>12, <1>13, <1>14, <1>15,
       <1>16, <1>17, <1>18 DEF Step


\* A request that is served goes on, or is answered.
LEMMA ServedJobs ==
    ASSUME MatrixTypes, NEW j \in jobs, Serve(j)
    PROVE  /\ UNCHANGED <<plan, cli, honours, leg, place, rec, lost>>
           /\ \A i \in jobs' :
                \/ i \in jobs /\ i # j
                \/ i = [j EXCEPT !.did = 1] /\ j.did = 0 /\ j.op \in {"teardown", "deploy"}
           /\ [j EXCEPT !.did = 1] \in Job
           /\ [j EXCEPT !.did = 1].op = j.op /\ [j EXCEPT !.did = 1].leg = j.leg
           /\ [j EXCEPT !.did = 1].heard = j.heard /\ [j EXCEPT !.did = 1].did = 1
  <1>1. UNCHANGED <<plan, cli, honours, leg, place, rec, lost>>
    BY DEF Serve, client
  <1>2. j \in Job
    BY DEF MatrixTypes
  <1>3. \/ jobs' = jobs \ {j}
        \/ /\ jobs' = (jobs \ {j}) \union {[j EXCEPT !.did = 1]}
           /\ j.did = 0 /\ j.op \in {"teardown", "deploy"}
    BY DEF Serve, DeleteAgent, DeleteTool, CreateTool, CreateAgent, Precheck, Accept,
           Upstream, Answers, GoesOn, Becomes
  <1>4. /\ [j EXCEPT !.did = 1] \in Job
        /\ [j EXCEPT !.did = 1].op = j.op /\ [j EXCEPT !.did = 1].leg = j.leg
        /\ [j EXCEPT !.did = 1].heard = j.heard /\ [j EXCEPT !.did = 1].did = 1
    BY <1>2 DEF Job
  <1> QED
    BY <1>1, <1>3, <1>4

\* What is deployed for a leg that deploys.
LEMMA EnactedAny ==
    ASSUME MatrixTypes, NEW k \in Legs, Deploys(k)
    PROVE  Enacted(k) \in LLMs /\ plan[k] \in LLMs /\ NoLLM \notin LLMs
  BY InstanceAssumption DEF MatrixTypes, Legs, Deploys, Enacted

\* The tool stays a lock while a request is served.
LEMMA HolderServe ==
    ASSUME MatrixTypes, HolderInv, NEW j \in jobs, Serve(j),
           j.op = "deploy" => Deploys(j.leg)
    PROVE  HolderInv'
  <1> DEFINE new == [j EXCEPT !.did = 1]
  <1>1. \A i \in jobs' : \/ i \in jobs /\ i # j
                         \/ i = new /\ j.did = 0 /\ j.op \in {"teardown", "deploy"}
    BY ServedJobs
  <1>2. new.did = 1 /\ j.leg \in Legs /\ j.did \in {0, 1}
    BY ServedJobs DEF MatrixTypes, Job
  <1>3. j.op = "deploy" => Enacted(j.leg) \in LLMs /\ NoLLM \notin LLMs
    BY <1>2, EnactedAny
  <1>4. CASE DeleteAgent(j)
    BY <1>1, <1>2, <1>4 DEF DeleteAgent, Answers, GoesOn, Becomes, HolderInv
  <1>5. CASE DeleteTool(j)
    BY <1>1, <1>2, <1>5 DEF DeleteTool, Answers, Becomes, HolderInv
  <1>6. CASE CreateTool(j)
    BY <1>1, <1>2, <1>3, <1>6 DEF CreateTool, Answers, GoesOn, Becomes, HolderInv
  <1>7. CASE CreateAgent(j)
    BY <1>1, <1>2, <1>3, <1>7 DEF CreateAgent, Answers, Becomes, HolderInv
  <1>8. CASE Precheck(j) \/ Accept(j) \/ Upstream(j)
    BY <1>1, <1>2, <1>8 DEF Precheck, Accept, Upstream, cluster, Answers, Becomes, HolderInv
  <1> QED
    BY <1>4, <1>5, <1>6, <1>7, <1>8 DEF Serve

\* A deployment that stands still stands after a request was served.
LEMMA StandingServed ==
    ASSUME MatrixTypes, HolderInv, NEW j \in jobs, Serve(j),
           NEW l \in LLMs, Standing(l)
    PROVE  Standing(l)'
  <1>1. \A i \in jobs' : \/ i \in jobs
                         \/ i = [j EXCEPT !.did = 1]
    BY ServedJobs
  <1>2. [j EXCEPT !.did = 1].op = j.op /\ NoLLM \notin LLMs
    BY ServedJobs, InstanceAssumption
  <1>3. \A op \in {"teardown", "deploy"} : Asked(op)' => Asked(op)
    BY <1>1, <1>2 DEF Asked
  <1>4. CASE DeleteAgent(j)
    BY <1>3, <1>4 DEF DeleteAgent, Standing, Asked
  <1>5. CASE CreateAgent(j)
    BY <1>2, <1>5 DEF CreateAgent, Standing, Asked, HolderInv
  <1>6. CASE UNCHANGED agent
    BY <1>3, <1>6 DEF Standing
  <1> QED
    BY <1>4, <1>5, <1>6 DEF Serve, DeleteTool, CreateTool, Precheck, Accept, Upstream, cluster

\* A run that was accepted is not asked for any more.
LEMMA AcceptedDone ==
    ASSUME MatrixInv, RanInv, NEW k \in Legs, Accepted(k)
    PROVE  RunJobs(k) = {} /\ k <= leg
  BY LegNumbers DEF MatrixInv, RanInv, Accepted, Reported, LegInv, Concludes, Verdicts

\* What is asked for, and by whom, when a request is served.
LEMMA WaitServe ==
    ASSUME MatrixTypes, WaitInv, NEW j \in jobs, Serve(j)
    PROVE  WaitInv'
  <1>1. /\ UNCHANGED <<plan, place, lost>>
        /\ \A i \in jobs' : \/ i \in jobs /\ i # j
                            \/ i = [j EXCEPT !.did = 1]
    BY ServedJobs
  <1>2. [j EXCEPT !.did = 1].op = j.op /\ [j EXCEPT !.did = 1].leg = j.leg
        /\ [j EXCEPT !.did = 1].heard = j.heard
    BY ServedJobs
  <1> QED
    BY <1>1, <1>2 DEF WaitInv, Deploys

\* The agent is created that the client waits for: it stands.
LEMMA CreatedStands ==
    ASSUME MatrixInv, WaitInv, NEW j \in jobs, Serve(j), CreateAgent(j), j.heard,
           reply' = "done"
    PROVE  j.leg = leg /\ Standing(Enacted(leg))'
  <1>1. j.leg = leg /\ reply = "none" /\ \A i \in jobs : i.heard => i = j
    BY DEF MatrixInv, JobInv
  <1>2. agent' = Enacted(j.leg) /\ jobs' = jobs \ {j} /\ UNCHANGED <<plan, honours, leg>>
    BY <1>1, ServedJobs DEF CreateAgent, Answers, Becomes, MatrixInv
  <1>3. \A i, h \in jobs' : i = h
    BY <1>1, <1>2 DEF WaitInv
  <1>4. Asked("deploy")' => ~Asked("teardown")'
    BY <1>3 DEF Asked
  <1>5. Enacted(leg)' = Enacted(leg)
    BY <1>2 DEF Enacted
  <1> QED
    BY <1>1, <1>2, <1>4, <1>5 DEF Standing

\* What is deployed for the leg at hand stands while requests are served.
LEMMA StandingServe ==
    ASSUME MatrixInv, HolderInv, WaitInv, PlaceInv, StandingInv, NEW j \in jobs, Serve(j)
    PROVE  StandingInv'
  <1>1. UNCHANGED <<plan, cli, honours, leg, place, rec>> /\ MatrixTypes
    BY ServedJobs DEF MatrixInv
  <1>2. leg \in Legs /\ Legs = 1..Len(plan) /\ leg \in Nat /\ Len(plan) \in Nat
    BY LegNumbers DEF MatrixInv, MatrixTypes
  <1>3. \A k \in Legs : Deploys(k) => plan[k] \in LLMs /\ Enacted(k) \in LLMs
    BY <1>1, EnactedAny
  <1>4. \A l \in LLMs : Standing(l) => Standing(l)'
    BY <1>1, StandingServed
  <1>5. ASSUME place = "deploy", reply' = "done" PROVE Standing(Enacted(leg))'
    <2>1. Enacted(leg)' = Enacted(leg) /\ Deploys(leg)
      BY <1>1, <1>5 DEF Enacted, PlaceInv
    <2>2. CASE reply = "done"
      <3>1. Standing(Enacted(leg))
        BY <1>5, <2>2 DEF StandingInv
      <3> QED
        BY <1>2, <1>3, <1>4, <2>1, <3>1 DEF Standing
    <2>3. CASE reply # "done"
      <3>1. j.heard /\ j.op = "deploy"
        BY <1>5, <2>3 DEF Serve, DeleteAgent, DeleteTool, CreateTool, CreateAgent, Precheck,
               Accept, Upstream, Answers, GoesOn, WaitInv
      <3>2. CreateAgent(j)
        BY <1>5, <2>3, <3>1 DEF Serve, DeleteAgent, DeleteTool, CreateTool, Precheck,
               Accept, Upstream, Answers, GoesOn
      <3> QED
        BY <1>5, <3>1, <3>2, CreatedStands
    <2> QED
      BY <2>2, <2>3
  <1>6. ASSUME Deploys(leg), place \in {"ready", "warm", "run", "watch", "artifacts"}
        PROVE  Standing(plan[leg])'
    BY <1>1, <1>2, <1>3, <1>4, <1>6 DEF StandingInv, Standing
  <1>7. ASSUME NEW k \in 1..(leg - 1), Reuses(leg, k) PROVE Standing(plan[k])'
    <2>1. k \in Legs /\ Deploys(k)
      BY <1>2, <1>7 DEF Reuses
    <2> QED
      BY <1>1, <1>3, <1>4, <1>7, <2>1 DEF StandingInv, Standing
  <1>8. /\ Deploys(leg)' = Deploys(leg)
        /\ \A k \in 1..(leg - 1) : Reuses(leg, k)' <=> Reuses(leg, k)
    BY <1>1 DEF Deploys, Reuses, Reported, Verdicts
  <1> QED
    BY <1>1, <1>5, <1>6, <1>7, <1>8 DEF StandingInv

\* The run that is accepted is of the agent that stands.
LEMMA RanServe ==
    ASSUME MatrixInv, HolderInv, WaitInv, PlaceInv, StandingInv, RanInv,
           NEW j \in jobs, Serve(j)
    PROVE  RanInv'
  <1>1. UNCHANGED <<plan, cli, honours, leg, place, rec>> /\ MatrixTypes
    BY ServedJobs DEF MatrixInv
  <1>2. leg \in Legs /\ Legs' = Legs /\ Legs = 1..Len(plan) /\ leg \in Nat /\ Len(plan) \in Nat
    BY <1>1, LegNumbers DEF MatrixInv, MatrixTypes, Legs
  <1>3. j.leg \in Legs
    BY DEF MatrixInv, MatrixTypes, Job
  <1>4. \A k \in Legs : RunJobs(k) = {} => RunJobs(k)' = {}
    BY <1>1, ServedJobs DEF RunJobs
  <1>5. \/ Accept(j)
        \/ UNCHANGED ran /\ ~Accept(j)
    BY DEF Serve, DeleteAgent, DeleteTool, CreateTool, CreateAgent, Precheck, Upstream, service
  <1>6. ran' \in [Legs -> LLMs \union {NoLLM}]
    BY <1>3, <1>5 DEF Accept, RanInv, HolderInv
  <1>7. \A k \in Legs : Reported(k)' = Reported(k) /\ Deploys(k)' = Deploys(k)
    BY <1>1 DEF Reported, Verdicts, Deploys
  <1>8. \A k \in Legs : UNCHANGED ran[k] => (RanRight(k)' <=> RanRight(k))
    BY <1>1 DEF RanRight, Reuses, Reported, Verdicts, Deploys
  <1>9. ASSUME NEW k \in Legs, Accepted(k) PROVE RanRight(k)'
    <2>1. j \notin RunJobs(k)
      BY <1>9, AcceptedDone
    <2>2. UNCHANGED ran[k]
      BY <1>5, <2>1 DEF Accept, RunJobs, RanInv
    <2> QED
      BY <1>8, <1>9, <2>2 DEF RanInv
  <1>10. ASSUME NEW k \in Legs, Accepted(k)', ~Accepted(k) PROVE RanRight(k)'
    <2>1. k = leg /\ place = "run" /\ reply' = "done" /\ reply # "done"
      BY <1>1, <1>7, <1>10 DEF Accepted
    <2>2. j.heard
      BY <2>1 DEF Serve, DeleteAgent, DeleteTool, CreateTool, CreateAgent, Precheck,
             Accept, Upstream, Answers, GoesOn
    <2>3. j.leg = leg /\ j.op = "run"
      BY <2>1, <2>2 DEF MatrixInv, JobInv
    <2>4. Accept(j)
      BY <2>1, <2>2, <2>3 DEF Serve, DeleteAgent, DeleteTool, CreateTool, CreateAgent,
             Precheck, Upstream, Answers, GoesOn
    <2>5. agent # NoLLM /\ ran'[leg] = agent
      BY <1>2, <2>3, <2>4 DEF Accept, Missing, RanInv
    <2>6. CASE Deploys(leg)
      <3>1. agent = plan[leg]
        BY <2>1, <2>5, <2>6 DEF StandingInv, Standing
      <3> QED
        BY <1>1, <1>7, <2>1, <2>5, <2>6, <3>1 DEF RanRight
    <2>7. CASE ~Deploys(leg)
      <3>1. \A i \in 1..(leg - 1) : Reuses(leg, i) => agent = plan[i]
        BY <2>5 DEF StandingInv, Standing
      <3>2. \A i \in 1..(leg - 1) : Reuses(leg, i)' <=> Reuses(leg, i)
        BY <1>1 DEF Reuses, Reported, Verdicts, Deploys
      <3> QED
        BY <1>1, <1>7, <2>1, <2>5, <2>7, <3>1, <3>2 DEF RanRight
    <2> QED
      BY <2>6, <2>7
  <1> QED
    BY <1>1, <1>2, <1>4, <1>6, <1>9, <1>10 DEF RanInv

\* Nothing that is served makes a report wrong.
LEMMA ReportServe ==
    ASSUME MatrixInv, ReportInv, NEW j \in jobs, Serve(j)
    PROVE  ReportInv'
  <1>1. UNCHANGED <<plan, cli, leg, place, lost>> /\ MatrixTypes
    BY ServedJobs DEF MatrixInv
  <1>2. HolderInv' /\ WaitInv'
    BY <1>1, HolderServe, WaitServe DEF ReportInv, WaitInv
  <1>3. StandingInv' /\ RanInv'
    BY StandingServe, RanServe DEF ReportInv
  <1>4. PlaceInv'
    BY <1>1 DEF ReportInv, PlaceInv, Deploys
  <1> QED
    BY <1>1, <1>2, <1>3, <1>4 DEF ReportInv

\* What was asked for by a request that is no longer there is not asked for.
LEMMA FewerAsked ==
    ASSUME \A i \in jobs' : \E j \in jobs : i.op = j.op /\ i.leg = j.leg, UNCHANGED agent
    PROVE  /\ \A l : Standing(l) => Standing(l)'
           /\ \A k : RunJobs(k) = {} => RunJobs(k)' = {}
  <1>1. \A op : Asked(op)' => Asked(op)
    BY DEF Asked
  <1>2. \A k : RunJobs(k) = {} => RunJobs(k)' = {}
    BY DEF RunJobs
  <1> QED
    BY <1>1, <1>2 DEF Standing

\* A leg is over: what it leaves deployed stands for those that reuse it.
LEMMA OverReports ==
    ASSUME MatrixInv, PlaceInv, StandingInv, RanInv, NEW s \in Statuses, Over(s),
           UNCHANGED <<plan, cli, honours, tool, agent, ran>>,
           s \in Verdicts \union {"open"} => place \in {"watch", "artifacts", "cleanup"},
           \A i \in jobs' : \E j \in jobs : i.op = j.op /\ i.leg = j.leg
    PROVE  PlaceInv' /\ StandingInv' /\ RanInv'
  <1>1. /\ leg \in Legs /\ Legs' = Legs /\ Legs = 1..Len(plan) /\ leg \in Nat /\ Len(plan) \in Nat
        /\ rec \in [Legs -> Statuses \union {"none"}]
    BY LegNumbers DEF MatrixInv, MatrixTypes, Legs
  <1>2. /\ rec' = [rec EXCEPT ![leg] = s] /\ reply' = "none" /\ place' \in {"over", "rest", "aborted"}
        /\ \/ leg' = leg
           \/ leg' = leg + 1 /\ ~cli
    BY DEF Over
  <1>3. PlaceInv'
    BY <1>2 DEF PlaceInv
  <1>4. \A k : Deploys(k)' = Deploys(k)
    BY DEF Deploys
  <1>5. \A k \in Legs : k # leg => Reported(k)' = Reported(k)
    BY <1>1, <1>2 DEF Reported, Verdicts
  <1>6. /\ \A l : Standing(l) => Standing(l)'
        /\ \A k : RunJobs(k) = {} => RunJobs(k)' = {}
    BY FewerAsked
  <1>7. \A k \in Legs : k = leg /\ Reported(k)' => place \in {"watch", "artifacts", "cleanup"}
    BY <1>1, <1>2 DEF Reported, Verdicts
  <1>8. ASSUME NEW m \in Nat, m = leg', NEW j \in 1..(m - 1), Reuses(m, j)'
        PROVE  Standing(plan[j])'
    <2>1. CASE j = leg
      <3>1. leg' = leg + 1 /\ ~cli /\ Deploys(j) /\ Reported(j)'
        <4>1. leg' = leg + 1 /\ ~cli
          <5>1. leg \in 1..(m - 1) /\ m \in Nat
            BY <1>8, <2>1
          <5>2. m # leg
            BY <1>1, <5>1
          <5> QED
            BY <1>2, <1>8, <5>2
        <4>2. Deploys(j)' /\ Reported(j)'
          BY <1>8 DEF Reuses
        <4> QED
          BY <1>4, <4>1, <4>2
      <3>2. place \in {"watch", "artifacts"}
        BY <1>1, <1>7, <2>1, <3>1 DEF PlaceInv
      <3> QED
        BY <1>6, <2>1, <3>1, <3>2 DEF StandingInv
    <2>2. CASE j # leg
      <3>0. (m = leg \/ m = leg + 1) /\ leg \in Nat /\ leg \in 1..Len(plan) /\ Len(plan) \in Nat
        BY <1>1, <1>2, <1>8
      <3>1. j \in 1..(leg - 1) /\ j \in Legs
        BY <1>1, <2>2, <3>0
      <3>2. (j + 1)..leg \subseteq (j + 1)..m
        BY <3>0
      <3>3. Deploys(j)' /\ Reported(j)' /\ \A i \in (j + 1)..m : ~Deploys(i)'
        BY <1>8 DEF Reuses
      <3>4. Reuses(leg, j)
        BY <1>4, <1>5, <2>2, <3>1, <3>2, <3>3 DEF Reuses
      <3> QED
        BY <1>6, <3>1, <3>4 DEF StandingInv
    <2> QED
      BY <2>1, <2>2
  <1>9. StandingInv'
    <2>1. leg' \in Nat /\ \A j \in 1..(leg' - 1) : Reuses(leg, j)' => Standing(plan[j])'
      BY <1>1, <1>2, <1>8
    <2> QED
      BY <1>2, <2>1 DEF StandingInv
  <1>10. ASSUME NEW k \in Legs, Accepted(k)' PROVE RanRight(k)'
    <2>1. Reported(k)'
      BY <1>2, <1>10 DEF Accepted
    <2>2. Accepted(k)
      BY <1>5, <1>7, <2>1 DEF Accepted
    <2>3. k <= leg /\ RanRight(k)
      BY <2>2, AcceptedDone DEF RanInv
    <2>4. ASSUME NEW j \in 1..(k - 1), Reuses(k, j)' PROVE Reuses(k, j)
      <3>1. j # leg /\ j \in Legs
        BY <1>1, <2>3
      <3>2. Deploys(j)' /\ Reported(j)' /\ \A i \in (j + 1)..k : ~Deploys(i)'
        BY <2>4 DEF Reuses
      <3> QED
        BY <1>4, <1>5, <3>1, <3>2 DEF Reuses
    <2> QED
      BY <1>4, <2>3, <2>4 DEF RanRight
  <1>11. ASSUME NEW k \in Legs, rec'[k] = "open" PROVE RunJobs(k)' = {}
    <2>1. k = leg => place \in {"watch", "artifacts", "cleanup"}
      BY <1>1, <1>2, <1>11
    <2>2. RunJobs(k) = {}
      BY <1>1, <1>2, <1>11, <2>1 DEF RanInv, MatrixInv, Concludes
    <2> QED
      BY <1>6, <2>2
  <1>12. RanInv'
    BY <1>1, <1>10, <1>11 DEF RanInv
  <1> QED
    BY <1>3, <1>9, <1>12

\* A client that sends a request for its leg has its deployment to itself.
LEMMA SendReports ==
    ASSUME MatrixInv, WaitInv, PlaceInv, StandingInv, RanInv, Sends,
           UNCHANGED <<plan, cli, honours, tool, agent, ran, lost>>
    PROVE  WaitInv' /\ PlaceInv' /\ StandingInv' /\ RanInv' /\ (HolderInv => HolderInv')
  <1>1. PICK op \in {"teardown", "deploy", "run"}, n \in Nat :
          /\ Send(op, n)
          /\ \/ op \in {"teardown", "deploy"} /\ place' = op /\ Deploys(leg)
             \/ op = "run" /\ place' = op
                /\ (place \in {"warm", "run"} \/ (place = "rest" /\ ~Deploys(leg)))
             \/ op = "teardown" /\ place = "artifacts" /\ place' = "cleanup" /\ cli
    BY DEF Sends
  <1>2. UNCHANGED <<leg, rec>> /\ \A j \in jobs : ~j.heard
    BY DEF Sends
  <1> DEFINE new == [op |-> op, leg |-> leg, did |-> 0, heard |-> TRUE, no |-> n]
  <1>3. jobs' = jobs \union {new} /\ reply' = "none"
    BY <1>1 DEF Send
  <1>4. new.op = op /\ new.leg = leg /\ new.heard /\ new.did = 0
    OBVIOUS
  <1> HIDE DEF new
  <1>5. /\ leg \in Legs /\ Legs' = Legs /\ Legs = 1..Len(plan) /\ leg \in Nat /\ Len(plan) \in Nat
    BY LegNumbers DEF MatrixInv, MatrixTypes, Legs
  <1>6. \A k : Deploys(k)' = Deploys(k) /\ Reported(k)' = Reported(k)
    BY <1>2 DEF Deploys, Reported, Verdicts
  <1>7. HolderInv => HolderInv'
    BY <1>3, <1>4 DEF HolderInv
  <1>8. op = "deploy" <=> place' = "deploy"
    BY <1>1
  <1>9. WaitInv'
    BY <1>1, <1>2, <1>3, <1>4, <1>6, <1>8 DEF WaitInv
  <1>10. PlaceInv'
    BY <1>1, <1>2, <1>6 DEF PlaceInv
  <1>11. CASE op = "run"
    <2>1. place' = "run" /\ (Deploys(leg) => place \in {"warm", "run"})
          /\ place \in {"rest", "warm", "run"}
      BY <1>1, <1>11
    <2>2. \A o \in {"deploy", "teardown"} : Asked(o)' => Asked(o)
      BY <1>3, <1>4, <1>11 DEF Asked
    <2>3. \A l : Standing(l) => Standing(l)'
      BY <2>2 DEF Standing
    <2>4. \A j \in 1..(leg - 1) : Reuses(leg, j)' => Reuses(leg, j)
      BY <1>2, <1>6 DEF Reuses
    <2>5. StandingInv'
      BY <1>2, <1>6, <2>1, <2>3, <2>4 DEF StandingInv
    <2>6. rec[leg] = "none"
      BY <2>1 DEF MatrixInv, Concludes
    <2>7. \A k \in Legs : rec[k] = "open" => RunJobs(k)' = RunJobs(k)
      BY <1>3, <1>4, <2>6 DEF RunJobs
    <2>8. \A k \in Legs : Accepted(k)' => Accepted(k)
      BY <1>2, <1>3, <1>6, <2>1 DEF Accepted
    <2>9. \A k \in Legs : RanRight(k) => RanRight(k)'
      BY <1>6 DEF RanRight, Reuses
    <2>10. RanInv'
      BY <1>2, <1>5, <2>7, <2>8, <2>9 DEF RanInv
    <2> QED
      BY <1>7, <1>9, <1>10, <2>5, <2>10
  <1>12. CASE op # "run"
    <2>1. /\ place' \in {"teardown", "deploy", "cleanup"}
          /\ place' = "cleanup" => place = "artifacts" /\ cli
          /\ place' # "cleanup" => Deploys(leg)
      BY <1>1, <1>12
    <2>2. \A j \in 1..(leg - 1) : ~Reuses(leg, j)'
      <3> TAKE j \in 1..(leg - 1)
      <3>1. leg # 1
        BY <1>5
      <3>2. Deploys(leg)' /\ leg \in (j + 1)..leg
        BY <1>2, <1>5, <1>6, <2>1, <3>1 DEF PlaceInv
      <3> QED
        BY <1>2, <3>2 DEF Reuses
    <2>3. StandingInv'
      BY <1>2, <1>3, <2>1, <2>2 DEF StandingInv
    <2>4. \A k \in Legs : RunJobs(k)' = RunJobs(k)
      BY <1>3, <1>4, <1>12 DEF RunJobs
    <2>5. \A k \in Legs : Accepted(k)' => Accepted(k)
      BY <1>2, <1>3, <1>6, <2>1 DEF Accepted
    <2>6. \A k \in Legs : RanRight(k) => RanRight(k)'
      BY <1>6 DEF RanRight, Reuses
    <2>7. RanInv'
      BY <1>2, <1>5, <2>4, <2>5, <2>6 DEF RanInv
    <2> QED
      BY <1>7, <1>9, <1>10, <2>3, <2>7
  <1> QED
    BY <1>11, <1>12

\* The client goes on: what it was promised stands, and no report is new.
LEMMA ProceedReports ==
    ASSUME MatrixInv, ReportInv, Proceeds,
           UNCHANGED <<plan, cli, honours, tool, agent, ran, lost>>
    PROVE  ReportInv'
  <1>1. /\ leg \in Legs /\ Legs' = Legs /\ Legs = 1..Len(plan) /\ leg \in Nat /\ Len(plan) \in Nat
        /\ rec \in [Legs -> Statuses \union {"none"}]
    BY LegNumbers DEF MatrixInv, MatrixTypes, Legs
  <1>2. UNCHANGED <<leg, jobs, reply>> /\ \A j \in jobs : ~j.heard
    BY DEF Proceeds
  <1>3. \/ place' = "aborted"
        \/ place = "rest" /\ place' = "ready" /\ cli /\ ~Deploys(leg)
        \/ place = "deploy" /\ reply = "done" /\ EchoAgrees /\ place' = "ready"
        \/ place = "ready" /\ place' \in {"ready", "warm"}
        \/ place = "run" /\ reply = "done" /\ place' = "watch"
        \/ place = "watch" /\ place' = "artifacts"
    BY DEF Proceeds
  <1>4. \A k : /\ Deploys(k)' = Deploys(k)
               /\ \A l : Standing(l)' = Standing(l)
               /\ RunJobs(k)' = RunJobs(k)
    BY <1>2 DEF Deploys, Standing, Asked, RunJobs
  <1>5. HolderInv' /\ WaitInv'
    BY <1>2, <1>4 DEF ReportInv, HolderInv, WaitInv
  <1>6. PlaceInv'
    BY <1>2, <1>3, <1>4 DEF ReportInv, PlaceInv
  <1>7. \/ UNCHANGED rec
        \/ /\ place = "watch"
           /\ \A k \in Legs : k # leg => rec'[k] = rec[k]
    BY <1>1 DEF Proceeds
  <1>8. \A k \in Legs : k # leg => Reported(k)' = Reported(k)
    BY <1>7 DEF Reported, Verdicts
  <1>9. ASSUME NEW k \in Legs, k <= leg, NEW j \in 1..(k - 1), Reuses(k, j)'
        PROVE  Reuses(k, j)
    <2>1. j \in Legs /\ j # leg
      BY <1>1, <1>9
    <2>2. Deploys(j)' /\ Reported(j)' /\ \A i \in (j + 1)..k : ~Deploys(i)'
      BY <1>9 DEF Reuses
    <2> QED
      BY <1>4, <1>8, <2>1, <2>2 DEF Reuses
  <1>10. Deploys(leg) /\ place' \in {"ready", "warm", "run", "watch", "artifacts"}
           => Standing(plan[leg])
    <2>1. EchoAgrees => Enacted(leg) = plan[leg]
      BY DEF EchoAgrees, Enacted
    <2> QED
      BY <1>3, <2>1 DEF ReportInv, StandingInv
  <1>11. StandingInv'
    BY <1>1, <1>2, <1>3, <1>4, <1>9, <1>10 DEF ReportInv, StandingInv
  <1>12. ASSUME NEW k \in Legs, Accepted(k)' PROVE Accepted(k)
    BY <1>2, <1>3, <1>7, <1>8, <1>12 DEF Accepted, Reported, Verdicts
  <1>13. ASSUME NEW k \in Legs, Accepted(k)' PROVE RanRight(k)'
    <2>1. RanRight(k) /\ k <= leg
      BY <1>12, <1>13, AcceptedDone DEF ReportInv, RanInv
    <2> QED
      BY <1>4, <1>9, <2>1 DEF RanRight
  <1>14. ASSUME NEW k \in Legs, rec'[k] = "open" PROVE RunJobs(k)' = {}
    BY <1>4, <1>7, <1>14 DEF ReportInv, RanInv, MatrixInv, Concludes
  <1>15. RanInv'
    BY <1>1, <1>13, <1>14 DEF ReportInv, RanInv
  <1> QED
    BY <1>5, <1>6, <1>11, <1>15 DEF ReportInv

\* The client drops the leg, having heard of all it asked for.
LEMMA DropReports ==
    ASSUME MatrixInv, ReportInv, Drops,
           UNCHANGED <<plan, cli, honours, tool, agent, ran, lost>>
    PROVE  ReportInv'
  <1>1. PICK s \in Statuses :
          /\ Over(s)
          /\ s \in Verdicts \union {"open"} => place \in {"watch", "artifacts", "cleanup"}
    BY DEF Drops
  <1>2. jobs' \subseteq jobs /\ \A j \in jobs' : ~j.heard
    BY DEF Drops
  <1>3. PlaceInv' /\ StandingInv' /\ RanInv'
    BY <1>1, <1>2, OverReports DEF ReportInv
  <1>4. HolderInv' /\ WaitInv'
    BY <1>2 DEF ReportInv, HolderInv, WaitInv, Deploys
  <1> QED
    BY <1>3, <1>4 DEF ReportInv

\* The only answer that is lost is lost.
LEMMA OnlyLoss ==
    ASSUME MatrixInv, ReportInv, MaxLost <= 1, lost < MaxLost, lost' = lost + 1,
           NEW j \in jobs, j.heard, jobs' = Unheard(j),
           UNCHANGED <<plan, cli, honours, tool, agent>>
    PROVE  /\ HolderInv' /\ WaitInv' /\ lost' <= 1
           /\ \A i \in jobs' : \E h \in jobs : i.op = h.op /\ i.leg = h.leg
  <1> DEFINE new == [j EXCEPT !.heard = FALSE]
  <1>1. j \in Job
    BY DEF MatrixInv, MatrixTypes
  <1>2. new.op = j.op /\ new.leg = j.leg /\ new.did = j.did /\ ~new.heard
    BY <1>1 DEF Job
  <1>3. jobs' = (jobs \ {j}) \union {new}
    BY DEF Unheard
  <1> HIDE DEF new
  <1>4. lost = 0 /\ lost' = 1
    BY BoundsAssumption DEF MatrixInv, MatrixTypes
  <1>5. \A i \in jobs : i = j
    BY <1>4 DEF MatrixInv, JobInv, ReportInv, WaitInv
  <1>6. jobs' = {new}
    BY <1>3, <1>5
  <1>7. HolderInv'
    BY <1>2, <1>6 DEF ReportInv, HolderInv
  <1>8. WaitInv'
    BY <1>2, <1>4, <1>6 DEF ReportInv, WaitInv, Deploys
  <1> QED
    BY <1>2, <1>4, <1>6, <1>7, <1>8

\* An answer that is lost ends the leg, or is taken for a refusal.
LEMMA LossReports ==
    ASSUME MatrixInv, ReportInv, MaxLost <= 1, AnswerLost \/ ProxyTimeout
    PROVE  ReportInv'
  <1>1. UNCHANGED <<plan, cli, honours, tool, agent, ran>>
    BY DEF AnswerLost, ProxyTimeout, Still, cluster, service
  <1>2. PICK j \in jobs : j.heard /\ jobs' = Unheard(j)
    BY DEF AnswerLost, ProxyTimeout
  <1>3. /\ HolderInv' /\ WaitInv' /\ lost' <= 1
        /\ \A i \in jobs' : \E h \in jobs : i.op = h.op /\ i.leg = h.leg
    BY <1>1, <1>2, OnlyLoss DEF AnswerLost, ProxyTimeout
  <1>4. CASE AnswerLost
    <2>1. Over("driver_exception") /\ "driver_exception" \in Statuses
          /\ "driver_exception" \notin Verdicts \union {"open"}
      BY <1>4 DEF AnswerLost, Statuses, Verdicts
    <2>2. PlaceInv' /\ StandingInv' /\ RanInv'
      BY <1>1, <1>3, <2>1, OverReports DEF ReportInv
    <2> QED
      BY <1>3, <2>2 DEF ReportInv
  <1>5. CASE ProxyTimeout
    <2>1. UNCHANGED <<leg, place, rec>> /\ reply' = "upstream"
      BY <1>5 DEF ProxyTimeout, client
    <2>2. /\ \A l : Standing(l) => Standing(l)'
          /\ \A k : RunJobs(k) = {} => RunJobs(k)' = {}
      BY <1>1, <1>3, FewerAsked
    <2>3. \A k, i : Reuses(k, i)' = Reuses(k, i) /\ Deploys(k)' = Deploys(k)
                    /\ Reported(k)' = Reported(k)
      BY <1>1, <2>1 DEF Reuses, Deploys, Reported, Verdicts
    <2>4. PlaceInv' /\ StandingInv'
      BY <1>1, <2>1, <2>2, <2>3 DEF ReportInv, PlaceInv, StandingInv
    <2>5. Legs' = Legs /\ \A k : (Accepted(k)' => Accepted(k)) /\ (RanRight(k) => RanRight(k)')
      BY <1>1, <2>1, <2>3 DEF Legs, Accepted, RanRight
    <2>6. RanInv'
      BY <1>1, <2>1, <2>2, <2>5 DEF ReportInv, RanInv
    <2> QED
      BY <1>3, <2>4, <2>6 DEF ReportInv
  <1> QED
    BY <1>4, <1>5

\* What these steps change is in no report.
LEMMA SameReports ==
    ASSUME ReportInv,
           UNCHANGED <<plan, cli, honours, leg, place, rec, reply, jobs, lost, tool, agent, ran>>
    PROVE  ReportInv'
  BY DEF ReportInv, HolderInv, WaitInv, PlaceInv, StandingInv, Standing, Asked, Reuses,
         RanInv, RanRight, Accepted, Reported, Deploys, Enacted, RunJobs, Legs, Verdicts

\* Nothing is reported yet.
LEMMA InitReports == MatrixInit => ReportInv
  <1> SUFFICES ASSUME MatrixInit PROVE ReportInv
    OBVIOUS
  <1>1. plan \in Seq(LLMs \union {NoLLM}) /\ plan # <<>>
    BY PlansAssumption DEF MatrixInit
  <1>2. HolderInv /\ WaitInv /\ PlaceInv /\ lost <= 1
    BY InstanceAssumption DEF MatrixInit, HolderInv, WaitInv, PlaceInv
  <1>3. StandingInv
    BY DEF MatrixInit, StandingInv
  <1>4. RanInv
    BY DEF MatrixInit, RanInv, Accepted, Reported, Verdicts, RunJobs
  <1> QED
    BY <1>2, <1>3, <1>4 DEF ReportInv

\* Every step keeps what is reported right, if at most one answer is lost.
LEMMA ReportKeeps ==
    MaxLost <= 1 /\ MatrixInv /\ ReportInv /\ [MatrixNext]_matrixVars => ReportInv'
  <1> SUFFICES ASSUME MaxLost <= 1, MatrixInv, ReportInv, [MatrixNext]_matrixVars
               PROVE  ReportInv'
    OBVIOUS
  <1>1. CASE Step \/ PollReady \/ PollNotReady \/ PollMissing \/ NotReadyInTime
             \/ RunNotInTime \/ Unsent
    <2>1. /\ UNCHANGED <<plan, cli, honours, tool, agent, ran, lost>>
          /\ Sends \/ Drops \/ Proceeds
      BY <1>1, ClientStep DEF ReportInv
    <2>2. CASE Sends
      BY <2>1, <2>2, SendReports DEF ReportInv
    <2> QED
      BY <2>1, <2>2, DropReports, ProceedReports
  <1>2. CASE AnswerLost \/ ProxyTimeout
    BY <1>2, LossReports
  <1>3. ASSUME NEW j \in jobs, Serve(j) PROVE ReportInv'
    BY <1>3, ReportServe
  <1>4. CASE (\E k \in Legs : RunEnds(k) \/ RunExported(k)) \/ Mirror \/ Crash \/ Tick
             \/ UNCHANGED matrixVars
    BY <1>4, SameReports DEF RunEnds, RunExported, Mirror, Crash, Tick, client, wire, cluster,
         service, matrixVars
  <1> QED
    BY <1>1, <1>2, <1>3, <1>4 DEF MatrixNext

\* RanAsReported: a leg is reported under the LLM its run was made with, if at
\* most one answer is lost; with two, TLC finds a leg that is not.
THEOREM ReportedRight == ASSUME MaxLost <= 1 PROVE MatrixSpec => []RanAsReported
  <1>1. ReportInv => RanAsReported
    BY DEF ReportInv, RanInv, RanRight, Accepted, Reuses, RanAsReported
  <1>2. MatrixInit => MatrixInv /\ ReportInv
    BY InitMatrix, InitReports
  <1>3. MatrixInv /\ ReportInv /\ [MatrixNext]_matrixVars => (MatrixInv /\ ReportInv)'
    BY MatrixKeeps, ReportKeeps
  <1> QED
    BY <1>1, <1>2, <1>3, PTL DEF MatrixSpec

-----------------------------------------------------------------------------
(* When a leg's run is accepted: the agent it finds will not crash any more *)
(* and the cache of its gateway has expired.                                *)

\* Legs before the one at hand are over; it is over only with its status, and
\* may be without one only if it never got as far as a run.
PastInv ==
    /\ place \in {"rest", "teardown", "deploy", "ready", "warm", "run", "watch", "artifacts",
                 "cleanup", "over", "aborted"}
    /\ \A k \in Legs : k < leg => rec[k] # "none"
    /\ place = "over" => rec[leg] # "none"
    /\ place = "aborted" => Untouched(leg) \/ rec[leg] # "none"

\* The polls that count are of an agent that does not crash any more, or it has
\* been ready for as many of them.
SettledInv ==
    /\ {flaps, streak, stable} \subseteq Nat
    /\ down => flaps # 0
    /\ place \in {"rest", "teardown", "deploy"} => stable = 0
    /\ Deploys(leg) \/ cli =>
         /\ place = "ready" => flaps = 0 \/ down \/ stable <= streak
         /\ place \in {"warm", "run"} => flaps = 0

\* Legs before k have ended with their runs, each on the gateway it is noted for.
Tidy(k) ==
    \A j \in 1..(k - 1) :
        /\ rec[j] \in Verdicts \union {"deploy_failed"}
        /\ ~Deploys(j) /\ count[j] > 0 => ran[j] = Instance

\* The driver has waited since the last call that a gateway's cache answers.
QuietInv ==
    /\ since \in [LLMs -> 0..Gap] /\ quiet \in [LLMs -> 0..Gap]
    /\ cli /\ count[leg] = 0 => \A l \in LLMs : quiet[l] = Gap
    /\ Tidy(leg) =>
         /\ \A l \in LLMs : (count[leg] > 0 /\ ran[leg] = l) \/ since[l] <= quiet[l]
         /\ place \notin {"rest", "over", "aborted"} /\ count[leg] = 0
              => quiet[Group(leg)] = Gap

TimingInv == PastInv /\ SettledInv /\ QuietInv

\* A leg that is over has its status.
LEMMA OverPast ==
    ASSUME MatrixInv, PastInv, NEW s \in Statuses, Over(s), UNCHANGED plan
    PROVE  PastInv'
  <1>1. /\ rec' = [rec EXCEPT ![leg] = s] /\ s # "none"
        /\ \/ place' \in {"over", "aborted"} /\ leg' = leg
           \/ place' = "rest" /\ leg' = leg + 1
    BY DEF Over, Statuses, Verdicts
  <1>2. leg \in Legs /\ Legs' = Legs /\ Legs = 1..Len(plan) /\ leg \in Nat
        /\ rec \in [Legs -> Statuses \union {"none"}]
    BY LegNumbers DEF MatrixInv, MatrixTypes, Legs
  <1>3. ASSUME NEW k \in Legs, k < leg' PROVE rec'[k] # "none"
    <2>1. k < leg \/ k = leg
      BY <1>1, <1>2, <1>3
    <2> QED
      BY <1>1, <1>2, <2>1 DEF PastInv
  <1> QED
    BY <1>1, <1>2, <1>3 DEF PastInv

\* Legs are over in their order, and none is forgotten.
LEMMA PastKeeps ==
    ASSUME MatrixInv, PlaceInv, PastInv, [MatrixNext]_matrixVars
    PROVE  PastInv'
  <1>1. leg \in Legs /\ Legs = 1..Len(plan) /\ leg \in Nat
        /\ rec \in [Legs -> Statuses \union {"none"}]
    BY LegNumbers DEF MatrixInv, MatrixTypes
  <1>2. ASSUME UNCHANGED <<plan, leg, place, rec>>, Untouched(leg) => Untouched(leg)'
        PROVE  PastInv'
    BY <1>2 DEF PastInv, Legs
  <1>3. CASE Step \/ PollReady \/ PollNotReady \/ PollMissing \/ NotReadyInTime
             \/ RunNotInTime \/ Unsent
    <2>1. /\ UNCHANGED <<plan, runs, count>>
          /\ Sends \/ Drops \/ Proceeds
      BY <1>3, ClientStep
    <2>2. CASE Sends
      <3>1. UNCHANGED <<leg, rec>> /\ place' \in {"teardown", "deploy", "run", "cleanup"}
        BY <2>2 DEF Sends
      <3> QED
        BY <2>1, <3>1 DEF PastInv, Legs
    <2>3. CASE Drops
      BY <2>1, <2>3, OverPast DEF Drops
    <2>4. CASE Proceeds
      <3>1. /\ UNCHANGED <<leg, jobs>>
            /\ place' \in {"ready", "warm", "watch", "artifacts", "aborted"}
            /\ place' = "aborted" => place = "rest"
            /\ \A k \in Legs : rec[k] # "none" => rec'[k] # "none"
        BY <1>1, <2>4 DEF Proceeds, PollReady, Verdicts
      <3>2. place' = "aborted" => Untouched(leg)'
        BY <2>1, <3>1 DEF MatrixInv, Concludes, Untouched, RunJobs
      <3> QED
        BY <2>1, <3>1, <3>2 DEF PastInv, Legs
    <2> QED
      BY <2>1, <2>2, <2>3, <2>4
  <1>4. CASE AnswerLost
    BY <1>4, OverPast DEF AnswerLost, Still, Statuses
  <1>5. CASE ProxyTimeout
    <2>1. UNCHANGED <<plan, leg, place, rec, runs, count>>
      BY <1>5 DEF ProxyTimeout, client, Still, service
    <2>2. PICK j \in jobs : jobs' = Unheard(j)
      BY <1>5 DEF ProxyTimeout
    <2>3. j \in Job
      BY DEF MatrixInv, MatrixTypes
    <2>4. [j EXCEPT !.heard = FALSE].op = j.op /\ [j EXCEPT !.heard = FALSE].leg = j.leg
      BY <2>3 DEF Job
    <2>5. RunJobs(leg) = {} => RunJobs(leg)' = {}
      BY <2>1, <2>2, <2>4 DEF RunJobs, Unheard
    <2> QED
      BY <1>2, <2>1, <2>5 DEF Untouched
  <1>6. ASSUME NEW j \in jobs, Serve(j) PROVE PastInv'
    <2>1. UNCHANGED <<plan, leg, place, rec>>
      BY <1>6, ServedJobs DEF MatrixInv
    <2>2. RunJobs(leg) = {} => RunJobs(leg)' = {} /\ j \notin RunJobs(leg)
      BY <1>6, <2>1, ServedJobs DEF RunJobs, MatrixInv
    <2>3. ASSUME Untouched(leg) PROVE count'[leg] = 0 /\ runs'[leg] = "none"
      <3>1. j \notin RunJobs(leg)
        BY <2>2, <2>3 DEF Untouched
      <3>2. CASE Accept(j)
        BY <1>1, <2>3, <3>1, <3>2 DEF Accept, Untouched, RunJobs, MatrixInv, MatrixTypes
      <3>3. CASE UNCHANGED <<runs, count>>
        BY <2>3, <3>3 DEF Untouched
      <3> QED
        BY <1>6, <3>2, <3>3 DEF Serve, DeleteAgent, DeleteTool, CreateTool, CreateAgent,
               Precheck, Upstream, service
    <2> QED
      BY <1>2, <2>1, <2>2, <2>3 DEF Untouched
  <1>7. CASE (\E k \in Legs : RunEnds(k) \/ RunExported(k)) \/ Mirror \/ Crash \/ Tick
             \/ UNCHANGED matrixVars
    <2>1. UNCHANGED <<plan, leg, place, rec, jobs, count>>
      BY <1>7 DEF RunEnds, RunExported, Mirror, Crash, Tick, client, wire, service, matrixVars
    <2>2. runs[leg] = "none" => runs'[leg] = "none"
      BY <1>7 DEF RunEnds, RunExported, Mirror, Crash, Tick, service, matrixVars, MatrixInv, MatrixTypes
    <2> QED
      BY <1>2, <2>1, <2>2 DEF Untouched, RunJobs
  <1> QED
    BY <1>3, <1>4, <1>5, <1>6, <1>7 DEF MatrixNext

\* What the client concludes from its polls holds until its run is accepted:
\* nobody else creates an agent, and one that will not crash does not.
LEMMA SettledServe ==
    ASSUME MatrixInv, ReportInv, SettledInv, NEW j \in jobs, Serve(j)
    PROVE  SettledInv'
  <1>1. UNCHANGED <<plan, cli, leg, place, stable>> /\ MatrixTypes
    BY ServedJobs DEF MatrixInv, Serve, client
  <1>2. Deploys(leg)' = Deploys(leg)
    BY <1>1 DEF Deploys
  <1>3. CASE UNCHANGED health
    BY <1>1, <1>2, <1>3 DEF SettledInv, health
  <1>4. CASE FoundDown /\ place = "run" /\ down
    <2>1. {flaps', streak'} \subseteq Nat /\ (down' => flaps' # 0)
      <3>1. {flaps, streak} \subseteq Nat /\ flaps # 0
        BY <1>4 DEF SettledInv
      <3>2. \/ UNCHANGED <<streak, flaps>>
            \/ UNCHANGED streak /\ flaps' = flaps - 1 /\ ~down'
        BY <1>4 DEF FoundDown
      <3> QED
        BY <3>1, <3>2
    <2>2. ~(Deploys(leg) \/ cli)
      BY <1>4 DEF SettledInv
    <2> QED
      BY <1>1, <1>2, <1>4, <2>1, <2>2 DEF SettledInv
  <1>5. CASE CreateAgent(j) /\ agent = NoLLM
    <2>1. flaps' \in Nat /\ streak' = 0 /\ ~down' /\ j.op = "deploy"
      BY <1>5, BoundsAssumption DEF CreateAgent
    <2>2. j.leg \in Legs /\ j.leg <= leg /\ Legs \subseteq Nat \ {0} /\ leg \in Nat
      BY LegNumbers DEF MatrixInv, MatrixTypes, Job, JobInv
    <2>3. Deploys(j.leg)
      BY <2>1 DEF ReportInv, WaitInv
    <2>4. cli => Deploys(leg)
      <3>1. cli => leg = 1
        BY DEF ReportInv, PlaceInv
      <3>2. j.leg \in Nat /\ j.leg # 0 /\ j.leg <= leg
        BY <2>2
      <3>3. cli => j.leg = leg
        BY <3>1, <3>2
      <3> QED
        BY <2>3, <3>3
    <2>5. place \in {"ready", "warm", "run"} => ~Deploys(leg)
      BY <1>5, <2>1 DEF ReportInv, StandingInv, Standing, Asked, Deploys
    <2> QED
      BY <1>1, <1>2, <2>1, <2>4, <2>5 DEF SettledInv
  <1>6. \/ UNCHANGED health
        \/ FoundDown /\ place = "run" /\ down
        \/ CreateAgent(j) /\ agent = NoLLM
    <2>1. CASE Precheck(j)
      <3>1. j.heard => place = "run"
        BY <2>1 DEF Precheck, MatrixInv, JobInv
      <3> QED
        BY <2>1, <3>1 DEF Precheck
    <2> QED
      BY <2>1 DEF Serve, DeleteAgent, DeleteTool, CreateTool, CreateAgent, Accept, Upstream,
             cluster
  <1> QED
    BY <1>3, <1>4, <1>5, <1>6

\* Polls, and a crash they have not counted over, keep what was concluded.
LEMMA SettledKeeps ==
    ASSUME MatrixInv, ReportInv, SettledInv, [MatrixNext]_matrixVars
    PROVE  SettledInv'
  <1>1. ASSUME NEW s, Over(s), UNCHANGED health PROVE SettledInv'
    BY <1>1 DEF Over, SettledInv, health
  <1>2. CASE Step \/ PollReady \/ PollNotReady \/ PollMissing \/ NotReadyInTime
             \/ RunNotInTime \/ Unsent
    <2>1. /\ UNCHANGED <<plan, cli>>
          /\ Sends \/ Drops \/ Proceeds
      BY <1>2, ClientStep DEF ReportInv
    <2>2. CASE Sends
      <3>1. /\ UNCHANGED <<leg, stable, health>>
            /\ \/ place' \in {"teardown", "deploy"} /\ place \in {"rest", "teardown", "deploy"}
               \/ place' = "run" /\ (place \in {"warm", "run"} \/ (~Deploys(leg) /\ ~cli))
               \/ place' = "cleanup"
        BY <2>2 DEF Sends
      <3>2. Deploys(leg)' = Deploys(leg)
        BY <2>1, <3>1 DEF Deploys
      <3> QED
        BY <2>1, <3>1, <3>2 DEF SettledInv, health
    <2>3. CASE Drops
      BY <1>1, <2>3 DEF Drops
    <2>4. CASE Proceeds
      <3>1. UNCHANGED leg /\ Deploys(leg)' = Deploys(leg)
        BY <2>1, <2>4 DEF Proceeds, Deploys
      <3>2. CASE /\ UNCHANGED <<stable, health>>
                 /\ \/ place' \in {"aborted", "watch", "artifacts"}
                    \/ place \in {"rest", "deploy"} /\ place' = "ready"
        BY <2>1, <3>1, <3>2 DEF SettledInv, health
      <3>3. CASE place' = "ready" /\ stable' = 0 /\ (FoundDown \/ UNCHANGED health)
        <4>1. {flaps', streak'} \subseteq Nat /\ (down' => flaps' # 0)
          BY <3>3 DEF SettledInv, FoundDown, health
        <4> QED
          BY <3>3, <4>1 DEF SettledInv
      <3>4. CASE place = "ready" /\ PollReady
        <4>1. /\ UNCHANGED <<flaps, down>> /\ ~down /\ stable' = stable + 1
              /\ streak' = IF flaps = 0 THEN streak ELSE streak + 1
              /\ flaps = 0 \/ streak < StablePolls - 1
              /\ place' = IF stable' >= StablePolls THEN "warm" ELSE "ready"
          BY <3>4 DEF PollReady
        <4>2. {flaps, streak, stable, StablePolls} \subseteq Nat
          BY BoundsAssumption DEF SettledInv
        <4>3. {flaps', streak', stable'} \subseteq Nat
          BY <4>1, <4>2
        <4>4. ASSUME Deploys(leg) \/ cli, flaps # 0
              PROVE  stable' <= streak' /\ place' = "ready"
          <5>1. stable <= streak
            BY <3>4, <4>1, <4>4 DEF SettledInv
          <5> QED
            BY <4>1, <4>2, <4>4, <5>1
        <4> QED
          BY <2>1, <3>1, <4>1, <4>3, <4>4 DEF SettledInv
      <3> QED
        BY <2>4, <3>2, <3>3, <3>4 DEF Proceeds
    <2> QED
      BY <2>1, <2>2, <2>3, <2>4
  <1>3. CASE AnswerLost
    BY <1>1, <1>3 DEF AnswerLost, Still, cluster
  <1>4. ASSUME NEW j \in jobs, Serve(j) PROVE SettledInv'
    BY <1>4, SettledServe
  <1>5. CASE Crash
    <2>1. Deploys(leg)' = Deploys(leg)
      BY <1>5 DEF Crash, client, Deploys
    <2> QED
      BY <1>5, <2>1 DEF Crash, client, SettledInv
  <1>6. CASE ProxyTimeout \/ (\E k \in Legs : RunEnds(k) \/ RunExported(k)) \/ Mirror \/ Tick
             \/ UNCHANGED matrixVars
    <2>1. UNCHANGED <<plan, cli, leg, place, stable, health>>
      BY <1>6 DEF ProxyTimeout, RunEnds, RunExported, Mirror, Tick, client, Still, cluster, matrixVars
    <2> QED
      BY <2>1 DEF SettledInv, health, Deploys
  <1> QED
    BY <1>2, <1>3, <1>4, <1>5, <1>6 DEF MatrixNext

\* A run that is accepted is the leg's own, unless its leg is over.
LEMMA AcceptedNow ==
    ASSUME MatrixInv, PastInv, NEW j \in jobs, Serve(j), Accept(j), rec[j.leg] = "none"
    PROVE  j.leg = leg /\ place = "run" /\ count[leg] = 0
  <1>1. j.leg \in Legs /\ j.leg <= leg /\ leg \in Nat /\ j.leg \in Nat
    BY LegNumbers DEF MatrixInv, MatrixTypes, Job, JobInv
  <1>2. j.leg = leg
    <2>1. ~(j.leg < leg)
      BY <1>1 DEF PastInv
    <2> QED
      BY <1>1, <2>1
  <1>3. j \in RunJobs(leg)
    BY <1>2 DEF Accept, RunJobs
  <1>4. RunJobs(leg) # {} /\ count[leg] = 0
    BY <1>1, <1>2, <1>3 DEF MatrixInv, LegInv
  <1>5. place = "run"
    BY <1>2, <1>4 DEF MatrixInv, MatrixTypes, Concludes, Untouched, PastInv
  <1> QED
    BY <1>2, <1>4, <1>5

\* Nothing of a leg that ended tidily is left that could call a gateway.
LEMMA TidyLegs ==
    ASSUME MatrixInv, Tidy(leg), NEW k \in Legs, k # leg
    PROVE  RunJobs(k) = {} /\ runs[k] # "running"
  <1>1. leg \in Nat /\ Legs = 1..Len(plan) /\ Len(plan) \in Nat
    BY LegNumbers DEF MatrixInv
  <1>2. CASE k > leg
    BY <1>2 DEF MatrixInv, LegInv, Untouched
  <1>3. CASE k < leg
    <2>1. k \in 1..(leg - 1)
      BY <1>1, <1>3
    <2> QED
      BY <2>1 DEF Tidy, MatrixInv, LegInv, Untouched, Verdicts
  <1> QED
    BY <1>1, <1>2, <1>3

\* What a leg is noted for is an LLM.
LEMMA GroupIsLLM == ASSUME MatrixInv PROVE Group(leg) \in LLMs
  BY EnactedAny, InstanceAssumption DEF MatrixInv, MatrixTypes, Group

\* What is noted when a leg is over covers the calls that its run has made.
LEMMA QuietOver ==
    ASSUME MatrixInv, MatrixInv', ReportInv', QuietInv, NEW s \in Statuses, Over(s),
           UNCHANGED <<plan, cli, ran, count, quiet>>
    PROVE  QuietInv'
  <1>1. /\ rec' = [rec EXCEPT ![leg] = s] /\ since' = [since EXCEPT ![Group(leg)] = 0]
        /\ \/ place' \in {"over", "aborted"} /\ leg' = leg
           \/ place' = "rest" /\ leg' = leg + 1 /\ ~cli
    BY DEF Over, Noted
  <1>2. leg \in Legs /\ Legs' = Legs /\ Legs = 1..Len(plan) /\ leg \in Nat
        /\ rec \in [Legs -> Statuses \union {"none"}] /\ leg' \in Legs /\ count \in [Legs -> Nat]
    BY LegNumbers DEF MatrixInv, MatrixTypes, Legs
  <1>3. Group(leg) \in LLMs /\ Gap \in Nat
    BY GroupIsLLM, BoundsAssumption
  <1>4. /\ since \in [LLMs -> 0..Gap] /\ quiet \in [LLMs -> 0..Gap]
        /\ since' \in [LLMs -> 0..Gap]
    BY <1>1, <1>3 DEF QuietInv
  <1>5. \A l \in LLMs : IF l = Group(leg) THEN since'[l] = 0 ELSE since'[l] = since[l]
    BY <1>1, <1>3, <1>4
  <1>6. cli /\ count[leg'] = 0 => \A l \in LLMs : quiet[l] = Gap
    BY <1>1 DEF QuietInv
  <1>7. ASSUME NEW m \in Nat, m = leg', Tidy(m)' PROVE Tidy(leg)
    <2>1. \A j \in 1..(leg - 1) : j \in 1..(m - 1) /\ j # leg /\ j \in Legs
      <3>1. m = leg \/ m = leg + 1
        BY <1>1, <1>7
      <3> QED
        BY <1>2, <3>1
    <2> QED
      BY <1>1, <1>2, <1>7, <2>1 DEF Tidy, Deploys, Verdicts
  <1>8. ASSUME NEW m \in Nat, m = leg', Tidy(m)', m # leg, count[leg] > 0
        PROVE  ran[leg] = Group(leg)
    <2>1. leg \in 1..(m - 1)
      <3>1. m = leg + 1
        BY <1>1, <1>8
      <3> QED
        BY <1>2, <3>1
    <2>2. /\ rec'[leg] \in Verdicts \union {"deploy_failed"} /\ rec'[leg] = s
          /\ ~Deploys(leg) => ran[leg] = Instance
      BY <1>1, <1>2, <1>8, <2>1 DEF Tidy, Deploys, Verdicts
    <2>3. \A k \in Legs : rec'[k] = "deploy_failed" => count'[k] = 0
      BY <1>2 DEF MatrixInv, LegInv, Untouched
    <2>4. s \in Verdicts
      BY <1>2, <1>8, <2>2, <2>3
    <2>5. \A k \in Legs : rec'[k] \in Verdicts => RanRight(k)'
      BY <1>2 DEF ReportInv, RanInv, Accepted, Reported, Verdicts
    <2>6. \A k \in Legs : RanRight(k)' /\ Deploys(k) => ran[k] = plan[k]
      BY DEF RanRight, Deploys
    <2> QED
      BY <1>2, <2>2, <2>4, <2>5, <2>6 DEF Group
  <1>9. ASSUME NEW m \in Nat, m = leg', Tidy(m)', NEW l \in LLMs,
               ~(count[m] > 0 /\ ran[m] = l)
        PROVE  since'[l] <= quiet[l]
    <2>1. CASE l = Group(leg)
      BY <1>3, <1>4, <1>5, <2>1
    <2>2. CASE l # Group(leg)
      <3>1. ~(count[leg] > 0 /\ ran[leg] = l)
        BY <1>7, <1>8, <1>9, <2>2
      <3> QED
        BY <1>5, <1>7, <1>9, <2>2, <3>1 DEF QuietInv
    <2> QED
      BY <2>1, <2>2
  <1>10. leg' \in Nat
    BY <1>1, <1>2
  <1> QED
    BY <1>1, <1>4, <1>6, <1>9, <1>10 DEF QuietInv

\* A leg begins when the cache of its gateway has expired.
LEMMA QuietGoesOn ==
    ASSUME MatrixInv, PlaceInv, QuietInv, UNCHANGED <<plan, cli, leg, ran, count, quiet, since>>,
           \A k \in Legs : k # leg => rec'[k] = rec[k],
           place = "rest" => Rested, place \notin {"over", "aborted"}
    PROVE  QuietInv'
  <1>1. leg \in Legs /\ Legs = 1..Len(plan) /\ leg \in Nat /\ Len(plan) \in Nat
    BY LegNumbers DEF MatrixInv, MatrixTypes
  <1>2. Tidy(leg)' => Tidy(leg)
    BY <1>1 DEF Tidy, Deploys, Verdicts
  <1>3. Group(leg)' = Group(leg) /\ Group(leg) \in LLMs
    BY GroupIsLLM DEF Group, Deploys
  <1>4. ASSUME Tidy(leg), count[leg] = 0
        PROVE  quiet[Group(leg)] = Gap
    <2>1. CASE place # "rest"
      BY <1>4, <2>1 DEF QuietInv
    <2>2. CASE cli
      BY <1>3, <1>4, <2>2 DEF QuietInv
    <2>3. CASE place = "rest" /\ ~cli
      <3>1. since[Group(leg)] = Gap /\ since[Group(leg)] <= quiet[Group(leg)]
        BY <1>3, <1>4, <2>3 DEF QuietInv, Rested
      <3>2. quiet[Group(leg)] \in 0..Gap /\ Gap \in Nat
        BY <1>3, BoundsAssumption DEF QuietInv
      <3> QED
        BY <3>1, <3>2
    <2> QED
      BY <2>1, <2>2, <2>3
  <1> QED
    BY <1>2, <1>3, <1>4 DEF QuietInv

\* A run that is accepted is the only one that calls a gateway.
LEMMA QuietServe ==
    ASSUME MatrixInv, ReportInv, QuietInv, NEW j \in jobs, Serve(j)
    PROVE  QuietInv'
  <1>1. UNCHANGED <<plan, cli, leg, place, rec, since>>
        /\ quiet' = [l \in LLMs |-> IF ran' # ran /\ ran'[j.leg] = l THEN 0 ELSE quiet[l]]
    BY DEF Serve, client
  <1>2. /\ leg \in Legs /\ Legs = 1..Len(plan) /\ leg \in Nat /\ Len(plan) \in Nat
        /\ j.leg \in Legs /\ j.leg <= leg /\ count \in [Legs -> Nat] /\ Gap \in Nat
        /\ ran \in [Legs -> LLMs \union {NoLLM}]
    BY LegNumbers, BoundsAssumption DEF MatrixInv, MatrixTypes, Job, JobInv, ReportInv, RanInv
  <1>3. CASE UNCHANGED <<ran, count>>
    <2>1. quiet' = quiet
      BY <1>1, <1>3 DEF QuietInv
    <2> QED
      BY <1>1, <1>3, <2>1 DEF QuietInv, Tidy, Deploys, Verdicts, Group
  <1>4. CASE Accept(j)
    <2>1. /\ ran' = [ran EXCEPT ![j.leg] = agent] /\ count' = [count EXCEPT ![j.leg] = @ + 1]
          /\ j \in RunJobs(j.leg)
      BY <1>4 DEF Accept, RunJobs
    <2>2. quiet' \in [LLMs -> 0..Gap]
      BY <1>1, <1>2 DEF QuietInv
    <2>3. CASE j.leg # leg
      <3>1. rec[j.leg] \notin Verdicts \union {"deploy_failed"}
        BY <1>2, <2>1 DEF MatrixInv, LegInv, Untouched
      <3>2. j.leg \in 1..(leg - 1)
        BY <1>2, <2>3
      <3>3. ~Tidy(leg)'
        BY <1>1, <3>1, <3>2 DEF Tidy, Verdicts
      <3>4. ~cli
        BY <1>2, <3>2 DEF ReportInv, PlaceInv
      <3> QED
        BY <1>1, <2>2, <3>3, <3>4 DEF QuietInv
    <2>4. CASE j.leg = leg
      <3>1. count'[leg] > 0 /\ ran'[leg] = agent /\ count[leg] = 0
        BY <1>2, <2>1, <2>4 DEF MatrixInv, LegInv
      <3>2. \A k \in 1..(leg - 1) : count'[k] = count[k] /\ ran'[k] = ran[k]
        BY <1>2, <2>1, <2>4
      <3>3. Tidy(leg)' => Tidy(leg)
        BY <1>1, <3>2 DEF Tidy, Deploys, Verdicts
      <3>4. \A l \in LLMs : l # agent => quiet'[l] = quiet[l]
        BY <1>1, <2>4, <3>1
      <3>5. Tidy(leg)' => \A l \in LLMs : l = agent \/ since[l] <= quiet'[l]
        BY <3>1, <3>3, <3>4 DEF QuietInv
      <3> QED
        BY <1>1, <1>2, <2>2, <3>1, <3>5 DEF QuietInv
    <2> QED
      BY <2>3, <2>4
  <1> QED
    BY <1>3, <1>4 DEF Serve, DeleteAgent, DeleteTool, CreateTool, CreateAgent, Precheck,
       Upstream, service

\* Time passes for the caches as it does for the driver that waits for them.
LEMMA QuietTick ==
    ASSUME MatrixInv, PlaceInv, QuietInv, Tick
    PROVE  QuietInv'
  <1>1. /\ UNCHANGED <<plan, cli, leg, place, rec, ran, count>>
        /\ since' = [l \in LLMs |-> Elapsed(since[l])]
        /\ quiet' = [l \in LLMs |->
                        IF \E k \in Legs : runs[k] = "running" /\ ran[k] = l
                        THEN 0 ELSE Elapsed(quiet[l])]
    BY DEF Tick, service
  <1>2. /\ leg \in Legs /\ Legs = 1..Len(plan) /\ leg \in Nat
        /\ count \in [Legs -> Nat] /\ Gap \in Nat
    BY LegNumbers, BoundsAssumption DEF MatrixInv, MatrixTypes
  <1>3. /\ \A n \in 0..Gap : Elapsed(n) \in 0..Gap
        /\ \A m, n \in 0..Gap : m <= n => Elapsed(m) <= Elapsed(n)
        /\ Elapsed(Gap) = Gap
    BY <1>2 DEF Elapsed
  <1>4. /\ since \in [LLMs -> 0..Gap] /\ quiet \in [LLMs -> 0..Gap]
        /\ since' \in [LLMs -> 0..Gap] /\ quiet' \in [LLMs -> 0..Gap]
    <2>1. since \in [LLMs -> 0..Gap] /\ quiet \in [LLMs -> 0..Gap]
      BY DEF QuietInv
    <2> QED
      BY <1>1, <1>2, <1>3, <2>1
  <1>5. ASSUME Tidy(leg), NEW l \in LLMs, count[leg] = 0 \/ ran[leg] # l
        PROVE  quiet'[l] = Elapsed(quiet[l])
    <2>1. \A k \in Legs : runs[k] = "running" => k = leg /\ count[leg] # 0
      BY <1>5, TidyLegs DEF MatrixInv, LegInv
    <2> QED
      BY <1>1, <1>5, <2>1
  <1>6. ASSUME cli, count[leg] = 0, NEW l \in LLMs PROVE quiet'[l] = Gap
    <2>1. Tidy(leg)
      BY <1>6 DEF PlaceInv, Tidy
    <2> QED
      BY <1>3, <1>5, <1>6, <2>1 DEF QuietInv
  <1>7. Tidy(leg)' => Tidy(leg)
    BY <1>1 DEF Tidy, Deploys, Verdicts
  <1>8. ASSUME Tidy(leg), NEW l \in LLMs, count[leg] = 0 \/ ran[leg] # l
        PROVE  since'[l] <= quiet'[l]
    <2>1. since[l] <= quiet[l] /\ since[l] \in 0..Gap /\ quiet[l] \in 0..Gap
      BY <1>2, <1>4, <1>8 DEF QuietInv
    <2>2. since'[l] = Elapsed(since[l]) /\ quiet'[l] = Elapsed(quiet[l])
      BY <1>1, <1>5, <1>8
    <2> QED
      BY <1>3, <2>1, <2>2
  <1>9. ASSUME Tidy(leg), place \notin {"rest", "over", "aborted"}, count[leg] = 0
        PROVE  quiet'[Group(leg)] = Gap
    <2>1. quiet[Group(leg)] = Gap /\ Group(leg) \in LLMs
      BY <1>9, GroupIsLLM DEF QuietInv
    <2> QED
      BY <1>3, <1>5, <1>9, <2>1
  <1>10. Group(leg)' = Group(leg)
    BY <1>1 DEF Group, Deploys
  <1>11. ASSUME Tidy(leg)'
         PROVE  /\ \A l \in LLMs : (count[leg] > 0 /\ ran[leg] = l) \/ since'[l] <= quiet'[l]
                /\ place \notin {"rest", "over", "aborted"} /\ count[leg] = 0
                     => quiet'[Group(leg)] = Gap
    <2>1. count[leg] = 0 \/ count[leg] > 0
      BY <1>2
    <2> QED
      BY <1>7, <1>8, <1>9, <1>11, <2>1
  <1>12. cli /\ count[leg] = 0 => \A l \in LLMs : quiet'[l] = Gap
    BY <1>6
  <1> QED
    BY <1>1, <1>4, <1>10, <1>11, <1>12 DEF QuietInv

\* Every step keeps the driver's account of the caches right.
LEMMA QuietKeeps ==
    ASSUME MatrixInv, ReportInv, QuietInv, MatrixInv', ReportInv', [MatrixNext]_matrixVars
    PROVE  QuietInv'
  <1>1. CASE Step \/ PollReady \/ PollNotReady \/ PollMissing \/ NotReadyInTime
             \/ RunNotInTime \/ Unsent
    <2>1. /\ UNCHANGED <<plan, cli, ran, count, quiet>>
          /\ Sends \/ Drops \/ Proceeds
      BY <1>1, ClientStep DEF ReportInv
    <2>2. CASE Drops
      BY <2>1, <2>2, QuietOver DEF Drops
    <2>3. CASE Sends
      <3>1. /\ UNCHANGED <<leg, since, rec>> /\ (place = "rest" => Rested)
            /\ place \notin {"over", "aborted"}
        BY <2>3 DEF Sends
      <3>2. PlaceInv /\ \A k \in Legs : k # leg => rec'[k] = rec[k]
        BY <3>1 DEF ReportInv
      <3> QED
        BY <2>1, <3>1, <3>2, QuietGoesOn
    <2>4. CASE Proceeds
      <3>1. /\ UNCHANGED <<leg, since>> /\ (place = "rest" => Rested)
            /\ place \notin {"over", "aborted"}
        BY <2>4 DEF Proceeds
      <3>2. PlaceInv /\ \A k \in Legs : k # leg => rec'[k] = rec[k]
        BY <2>4 DEF Proceeds, MatrixInv, MatrixTypes, ReportInv
      <3> QED
        BY <2>1, <3>1, <3>2, QuietGoesOn
    <2> QED
      BY <2>1, <2>2, <2>3, <2>4
  <1>2. CASE AnswerLost
    BY <1>2, QuietOver DEF AnswerLost, Still, service, Statuses
  <1>3. ASSUME NEW j \in jobs, Serve(j) PROVE QuietInv'
    BY <1>3, QuietServe
  <1>4. CASE Tick
    BY <1>4, QuietTick DEF ReportInv
  <1>5. CASE ProxyTimeout \/ (\E k \in Legs : RunEnds(k) \/ RunExported(k)) \/ Mirror \/ Crash
             \/ UNCHANGED matrixVars
    <2>1. UNCHANGED <<plan, cli, leg, place, since, rec, ran, count, quiet>>
      BY <1>5 DEF ProxyTimeout, RunEnds, RunExported, Mirror, Crash, client, Still, service, matrixVars
    <2> QED
      BY <2>1 DEF QuietInv, Tidy, Group, Deploys, Verdicts
  <1> QED
    BY <1>1, <1>2, <1>3, <1>4, <1>5 DEF MatrixNext

\* No leg has begun, and no gateway was called.
LEMMA InitTiming == MatrixInit => TimingInv
  <1> SUFFICES ASSUME MatrixInit PROVE TimingInv
    OBVIOUS
  <1>1. Gap \in Nat
    BY BoundsAssumption
  <1>2. PastInv
    BY LegNumbers DEF MatrixInit, PastInv
  <1>3. SettledInv
    BY DEF MatrixInit, SettledInv
  <1>4. QuietInv
    BY <1>1 DEF MatrixInit, QuietInv
  <1> QED
    BY <1>2, <1>3, <1>4 DEF TimingInv

\* All of it together, as every step keeps it.
LEMMA TimingKeeps ==
    MaxLost <= 1 /\ MatrixInv /\ ReportInv /\ TimingInv /\ [MatrixNext]_matrixVars
        => MatrixInv' /\ ReportInv' /\ TimingInv'
  <1> SUFFICES ASSUME MaxLost <= 1, MatrixInv, ReportInv, TimingInv, [MatrixNext]_matrixVars
               PROVE  MatrixInv' /\ ReportInv' /\ TimingInv'
    OBVIOUS
  <1>1. MatrixInv' /\ ReportInv'
    BY MatrixKeeps, ReportKeeps
  <1> QED
    BY <1>1, PastKeeps, SettledKeeps, QuietKeeps DEF ReportInv, TimingInv

\* The run of a leg is counted when the leg, which has none, is told of it.
LEMMA CountGrows ==
    ASSUME MatrixInv, PastInv, MatrixNext, NEW k \in Legs, count'[k] > count[k], rec[k] = "none"
    PROVE  \E j \in jobs : /\ Serve(j) /\ Accept(j) /\ j.leg = leg
                           /\ k = leg /\ place = "run" /\ count[leg] = 0
  <1>1. count \in [Legs -> Nat]
    BY DEF MatrixInv, MatrixTypes
  <1>2. count' # count
    BY <1>1
  <1>3. PICK j \in jobs : Serve(j)
    BY <1>2 DEF MatrixNext, Step, LogIn, LoginFails, TeardownOver, Redeploy, DeployRefused,
           Deployed, WarmUp, RunUnready, RunRejected, RunStarted, RunTerminal, ArtifactsOver,
           CleanedUp, PollReady, PollNotReady, PollMissing, NotReadyInTime, RunNotInTime,
           Unsent, AnswerLost, ProxyTimeout, RunEnds, RunExported, Mirror, Crash, Tick, Still, service
  <1>4. Accept(j)
    BY <1>2, <1>3 DEF Serve, DeleteAgent, DeleteTool, CreateTool, CreateAgent, Precheck,
           Upstream, service
  <1>5. j.leg \in Legs
    BY DEF MatrixInv, MatrixTypes, Job
  <1>6. k = j.leg
    BY <1>1, <1>4, <1>5 DEF Accept
  <1> QED
    BY <1>3, <1>4, <1>6, AcceptedNow

\* AcceptedSettled: a leg that waited for readiness has its run accepted by an agent that does
\* not crash any more, if at most one answer is lost.
THEOREM RunsAreSettled == ASSUME MaxLost <= 1 PROVE MatrixSpec => AcceptedSettled
  <1>1. MatrixInv /\ ReportInv /\ TimingInv /\ [MatrixNext]_matrixVars
          => [\A k \in Legs :
                count'[k] > count[k] /\ rec[k] = "none" /\ (Deploys(k) \/ cli)
                    => flaps = 0]_matrixVars
    <2> SUFFICES ASSUME MatrixInv, TimingInv, MatrixNext, NEW k \in Legs,
                        count'[k] > count[k], rec[k] = "none", Deploys(k) \/ cli
                 PROVE  flaps = 0
      OBVIOUS
    <2>1. k = leg /\ place = "run"
      BY CountGrows DEF TimingInv
    <2> QED
      BY <2>1 DEF TimingInv, SettledInv
  <1>2. MatrixInit => MatrixInv /\ ReportInv /\ TimingInv
    BY InitMatrix, InitReports, InitTiming
  <1> QED
    BY <1>1, <1>2, TimingKeeps, PTL DEF MatrixSpec, AcceptedSettled

\* CacheRested: no run of a leg begins while the cache of the gateway it calls still
\* answers, if at most one answer is lost and the legs before ended tidily.
THEOREM CacheIsCold == ASSUME MaxLost <= 1 PROVE MatrixSpec => CacheRested
  <1>1. MatrixInv /\ ReportInv /\ TimingInv /\ [MatrixNext]_matrixVars
          => [\A k \in Legs :
                count'[k] > count[k] /\ rec[k] = "none"
                /\ (\A j \in 1..(k - 1) : rec[j] \in Verdicts \union {"deploy_failed"})
                /\ (\A j \in 1..k : ~Deploys(j) /\ count'[j] > 0 => ran'[j] = Instance)
                    => quiet[ran'[k]] = Gap]_matrixVars
    <2> SUFFICES ASSUME MatrixInv, ReportInv, TimingInv, MatrixNext, NEW k \in Legs,
                        count'[k] > count[k], rec[k] = "none",
                        \A j \in 1..(k - 1) : rec[j] \in Verdicts \union {"deploy_failed"},
                        \A j \in 1..k : ~Deploys(j) /\ count'[j] > 0 => ran'[j] = Instance
                 PROVE  quiet[ran'[k]] = Gap
      OBVIOUS
    <2>1. PICK h \in jobs : /\ Serve(h) /\ Accept(h) /\ h.leg = leg
                            /\ k = leg /\ place = "run" /\ count[leg] = 0
      BY CountGrows DEF TimingInv
    <2>2. /\ leg \in Legs /\ Legs = 1..Len(plan) /\ leg \in Nat
          /\ count \in [Legs -> Nat] /\ ran \in [Legs -> LLMs \union {NoLLM}]
      BY LegNumbers DEF MatrixInv, MatrixTypes, ReportInv, RanInv
    <2>3. /\ ran' = [ran EXCEPT ![leg] = agent] /\ count' = [count EXCEPT ![leg] = @ + 1]
          /\ agent # NoLLM
      BY <2>1 DEF Accept, Missing
    <2>4. \A j \in 1..(leg - 1) : ran'[j] = ran[j] /\ count'[j] = count[j] /\ j \in 1..leg
      BY <2>2, <2>3
    <2>5. Tidy(leg)
      BY <2>1, <2>4 DEF Tidy
    <2>6. ran'[k] = Group(leg)
      <3>1. CASE Deploys(leg)
        BY <2>1, <2>2, <2>3, <3>1 DEF ReportInv, StandingInv, Standing, Group
      <3>2. CASE ~Deploys(leg)
        BY <2>1, <2>2, <2>3, <3>2 DEF Group
      <3> QED
        BY <3>1, <3>2
    <2> QED
      BY <2>1, <2>5, <2>6 DEF TimingInv, QuietInv
  <1>2. MatrixInit => MatrixInv /\ ReportInv /\ TimingInv
    BY InitMatrix, InitReports, InitTiming
  <1> QED
    BY <1>1, <1>2, TimingKeeps, PTL DEF MatrixSpec, CacheRested
=============================================================================
