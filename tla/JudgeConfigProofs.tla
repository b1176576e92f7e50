------------------------- MODULE JudgeConfigProofs -------------------------
(***************************************************************************)
(* What the judge hooks promise, for any pairs, retries and upgrades.      *)
(***************************************************************************)
EXTENDS JudgeConfig, TLAPS

(* The hooks begin with the platform's own pair and no record.              *)
LEMMA JudgeInit == Init => JudgeInv
  <1> SUFFICES ASSUME Init PROVE JudgeInv
    OBVIOUS
  <1>1. PICK p \in PlatformPairs :
          /\ target = [pair |-> p, rest |-> 0]
          /\ rendered = {p}
          /\ job = [mode |-> "none", pc |-> "current", attempt |-> 0,
                    current |-> p, want |-> p, doc |-> target]
    BY DEF Init
  <1>2. 0 \in 0..MaxRenders /\ 0 \in 0..MaxHelm /\ 0 \in 0..BackoffLimit
    BY BoundsAssumption
  <1>3. target \in Documents /\ job \in Jobs
    BY <1>1, <1>2 DEF Documents, Jobs, Pairs
  <1> QED
    BY <1>1, <1>2, <1>3
    DEF Init, JudgeInv, TypeOK, PriorKept, UninstallRestores, JobInv, At, Pairs

(* A pod that dies is started again at its mode's first call, or is the last. *)
LEMMA RetryStep ==
    ASSUME JudgeInv, job.mode # "none", Retry \/ Over
    PROVE  /\ job' \in Jobs
           /\ job'.want = job.want
           /\ \/ job'.mode = "none"
              \/ job'.mode = job.mode /\ job'.pc = First(job.mode)
  <1>1. job \in Jobs /\ BackoffLimit \in Nat
    BY BoundsAssumption DEF JudgeInv, TypeOK
  <1>2. CASE Over
    BY <1>1, <1>2 DEF Over, Jobs
  <1>3. CASE Retry /\ job.attempt < BackoffLimit
    <2>1. job' = [job EXCEPT !.attempt = @ + 1, !.pc = First(job.mode)]
      BY <1>3 DEF Retry
    <2>2. job.attempt + 1 \in 0..BackoffLimit
      BY <1>1, <1>3 DEF Jobs
    <2> QED
      BY <1>1, <2>1, <2>2 DEF Jobs, First
  <1>4. CASE Retry /\ ~(job.attempt < BackoffLimit)
    BY <1>1, <1>4 DEF Retry, Over, Jobs
  <1> QED
    BY <1>2, <1>3, <1>4

(* A failed attempt, wherever it failed.                                    *)
LEMMA DiesStep == JudgeInv /\ Dies => JudgeInv'
  <1> SUFFICES ASSUME JudgeInv, Dies PROVE JudgeInv'
    OBVIOUS
  <1>1. /\ job' \in Jobs
        /\ \/ job'.mode = "none"
           \/ job'.mode = job.mode /\ job'.pc = First(job.mode)
    BY RetryStep DEF Dies
  <1>2. UNCHANGED <<cluster, helm, platform>>
    BY DEF Dies
  <1>3. job.mode = "restore" => release = "judge"
    BY DEF JudgeInv, JobInv
  <1>4. job.mode = "apply" => release = "judge"
    BY DEF JudgeInv, JobInv
  <1> QED
    BY <1>1, <1>2, <1>3, <1>4
    DEF JudgeInv, TypeOK, PriorKept, UninstallRestores, JobInv, At, First,
        cluster, helm, platform

(* The two reads of the apply hook before it writes anything.               *)
LEMMA ReadSteps == JudgeInv /\ (ReadCurrent \/ FindPrior) => JudgeInv'
  <1> SUFFICES ASSUME JudgeInv, ReadCurrent \/ FindPrior PROVE JudgeInv'
    OBVIOUS
  <1>1. CASE ReadCurrent
    <2>1. target.pair \in Pairs
      BY DEF JudgeInv, TypeOK, Documents
    <2>2. prior = NoRecord => target.pair \in rendered
      BY DEF JudgeInv, PriorKept
    <2> QED
      BY <1>1, <2>1, <2>2
      DEF JudgeInv, TypeOK, PriorKept, UninstallRestores, JobInv, At, Jobs,
          ReadCurrent, cluster, helm, platform
  <1>2. CASE FindPrior
    BY <1>2
    DEF JudgeInv, TypeOK, PriorKept, UninstallRestores, JobInv, At, Jobs,
        FindPrior, Recorded, GoTo, Over, cluster, helm, platform
  <1> QED
    BY <1>1, <1>2

(* The record is made while there is none, of a pair the platform rendered. *)
LEMMA RecordStep == JudgeInv /\ RecordPrior => JudgeInv'
  <1> SUFFICES ASSUME JudgeInv, RecordPrior PROVE JudgeInv'
    OBVIOUS
  <1>1. job \in Jobs /\ job.mode = "apply" /\ release = "judge"
    BY DEF RecordPrior, At, JudgeInv, TypeOK, JobInv
  <1>2. job.current \in rendered /\ prior' = job.current /\ job.current \in Pairs
    BY <1>1 DEF RecordPrior, At, JudgeInv, JobInv, Jobs
  <1>3. prior' # NoRecord
    BY <1>2, NoRecordAssumption DEF Pairs
  <1>4. /\ job' \in Jobs
        /\ \/ job'.mode = "none"
           \/ job'.mode = "apply" /\ job'.pc \in {"current", "read"}
    <2>1. CASE Recorded
      BY <1>1, <2>1 DEF Recorded, Over, GoTo, Jobs
    <2>2. CASE Retry
      BY <1>1, <2>2, RetryStep DEF First
    <2> QED
      BY <2>1, <2>2 DEF RecordPrior
  <1> QED
    BY <1>1, <1>2, <1>3, <1>4
    DEF JudgeInv, TypeOK, PriorKept, UninstallRestores, JobInv, At, RecordPrior,
        helm, platform

(* The restore hook without a record ends; with one it has what to restore. *)
LEMMA LoadStep == JudgeInv /\ LoadPrior => JudgeInv'
  <1> SUFFICES ASSUME JudgeInv, LoadPrior PROVE JudgeInv'
    OBVIOUS
  <1> USE DEF JudgeInv, TypeOK, PriorKept, UninstallRestores, JobInv, At, Jobs,
              LoadPrior, cluster, helm, platform
  <1>1. CASE prior = NoRecord
    BY <1>1 DEF Uninstalled, Over
  <1>2. CASE prior # NoRecord
    BY <1>2
  <1> QED
    BY <1>1, <1>2

(* patch_target's first call.                                               *)
LEMMA DocumentStep == JudgeInv /\ ReadDocument => JudgeInv'
  BY DEF JudgeInv, TypeOK, PriorKept, UninstallRestores, JobInv, At, Jobs,
         ReadDocument, cluster, helm, platform

(* The patch: performed or not, answered or not.                            *)
LEMMA PatchStep == JudgeInv /\ Patch => JudgeInv'
  <1> SUFFICES ASSUME JudgeInv, Patch PROVE JudgeInv'
    OBVIOUS
  <1>1. /\ job \in Jobs /\ job.mode # "none" /\ prior # NoRecord
        /\ release = "judge" /\ prior \in rendered
    BY DEF Patch, JudgeInv, TypeOK, JobInv, PriorKept, Jobs
  <1>2. /\ job' \in Jobs
        /\ job'.want = job.want
        /\ \/ job'.mode = "none"
           \/ job'.mode = job.mode /\ job'.pc \in {First(job.mode), "check"}
    <2>1. CASE GoTo("check")
      BY <1>1, <2>1 DEF GoTo, Jobs
    <2>2. CASE Retry
      BY <1>1, <2>2, RetryStep
    <2> QED
      BY <2>1, <2>2 DEF Patch
  <1>3. job.mode \in {"apply", "restore"}
    BY <1>1 DEF Jobs
  <1>4. job.mode = "restore" => job.want \in rendered
    BY DEF Patch, JudgeInv, JobInv
  <1>5. /\ target' \in Documents
        /\ job.mode = "apply" \/ target'.pair \in rendered \/ UNCHANGED target
    <2>1. CASE target' = [job.doc EXCEPT !.pair = job.want]
      BY <1>1, <1>3, <1>4, <2>1 DEF Jobs, Documents
    <2>2. CASE UNCHANGED target
      BY <2>2 DEF JudgeInv, TypeOK
    <2> QED
      BY <2>1, <2>2 DEF Patch
  <1> QED
    BY <1>1, <1>2, <1>3, <1>4, <1>5
    DEF JudgeInv, TypeOK, PriorKept, UninstallRestores, JobInv, At, First, Patch,
        helm, platform

(* The reading back: only fields that say what was wanted let the record go. *)
LEMMA CheckStep == JudgeInv /\ Check => JudgeInv'
  <1> SUFFICES ASSUME JudgeInv, Check PROVE JudgeInv'
    OBVIOUS
  <1>1. /\ job \in Jobs /\ job.mode \in {"apply", "restore"} /\ release = "judge"
        /\ prior # NoRecord
    BY DEF Check, JudgeInv, TypeOK, JobInv, Jobs
  <1>2. UNCHANGED <<cluster, helm, platform>>
    BY DEF Check
  <1>3. CASE target.pair # job.want
    <2>1. Retry
      BY <1>3 DEF Check
    <2>2. /\ job' \in Jobs
          /\ \/ job'.mode = "none"
             \/ job'.mode = job.mode /\ job'.pc = First(job.mode)
      BY <1>1, <2>1, RetryStep
    <2> QED
      BY <1>1, <1>2, <2>2
      DEF JudgeInv, TypeOK, PriorKept, UninstallRestores, JobInv, At, First,
          cluster, helm, platform
  <1>4. CASE target.pair = job.want /\ job.mode = "apply"
    BY <1>1, <1>2, <1>4
    DEF Check, Over, Jobs, JudgeInv, TypeOK, PriorKept, UninstallRestores, JobInv,
        At, cluster, helm, platform
  <1>5. CASE target.pair = job.want /\ job.mode = "restore"
    BY <1>1, <1>2, <1>5
    DEF Check, GoTo, Jobs, JudgeInv, TypeOK, PriorKept, UninstallRestores, JobInv,
        At, cluster, helm, platform
  <1> QED
    BY <1>1, <1>3, <1>4, <1>5

(* The record is dropped when the fields are back.                          *)
LEMMA ForgetStep == JudgeInv /\ Forget => JudgeInv'
  <1> SUFFICES ASSUME JudgeInv, Forget PROVE JudgeInv'
    OBVIOUS
  <1>1. /\ job \in Jobs /\ job.mode = "restore" /\ release = "judge"
        /\ target.pair \in rendered
    BY DEF Forget, At, JudgeInv, TypeOK, JobInv
  <1>2. CASE Uninstalled
    BY <1>1, <1>2
    DEF Forget, Uninstalled, Over, Jobs, JudgeInv, TypeOK, PriorKept,
        UninstallRestores, JobInv, At, platform
  <1>3. CASE Retry /\ UNCHANGED helm
    <2>1. /\ job' \in Jobs
          /\ \/ job'.mode = "none"
             \/ job'.mode = "restore" /\ job'.pc = "prior"
      BY <1>1, <1>3, RetryStep DEF First
    <2> QED
      BY <1>1, <1>3, <2>1
      DEF Forget, JudgeInv, TypeOK, PriorKept, UninstallRestores, JobInv, At,
          helm, platform
  <1> QED
    BY <1>2, <1>3 DEF Forget

(* helm's operations touch neither the fields nor the record.               *)
LEMMA HelmStep ==
    JudgeInv /\ (Install \/ DropJudge \/ Uninstall \/ UninstallNoHooks) => JudgeInv'
  <1> SUFFICES ASSUME JudgeInv,
                      Install \/ DropJudge \/ Uninstall \/ UninstallNoHooks
               PROVE  JudgeInv'
    OBVIOUS
  <1>1. /\ UNCHANGED <<cluster, platform>> /\ job.mode = "none"
        /\ helms' \in 0..MaxHelm
    <2>1. HelmRuns
      BY DEF Install, DropJudge, Uninstall, UninstallNoHooks
    <2> QED
      BY <2>1, BoundsAssumption DEF HelmRuns, JudgeInv, TypeOK
  <1>2. job \in Jobs /\ 0 \in 0..BackoffLimit
    BY BoundsAssumption DEF JudgeInv, TypeOK
  <1> USE DEF JudgeInv, TypeOK, PriorKept, UninstallRestores, JobInv, At, cluster,
              platform
  <1>3. CASE Install
    <2>1. PICK pair \in JudgePairs : Start("apply", pair)
      BY <1>3 DEF Install
    <2>2. job' \in Jobs /\ job'.mode = "apply" /\ job'.pc = "current"
      BY <1>2, <2>1 DEF Start, First, Jobs, Pairs
    <2> QED
      BY <1>1, <1>3, <2>2 DEF Install
  <1>4. CASE DropJudge
    BY <1>1, <1>4 DEF DropJudge
  <1>5. CASE Uninstall
    <2>1. CASE release = "judge" /\ Start("restore", job.want) /\ UNCHANGED release
      <3>1. job' \in Jobs /\ job'.mode = "restore" /\ job'.pc = "prior"
        BY <1>2, <2>1 DEF Start, First, Jobs
      <3> QED
        BY <1>1, <1>5, <2>1, <3>1 DEF Uninstall
    <2>2. CASE release = "plain" /\ release' = "absent" /\ UNCHANGED job
      BY <1>1, <1>5, <2>2 DEF Uninstall
    <2> QED
      BY <1>5, <2>1, <2>2 DEF Uninstall
  <1>6. CASE UninstallNoHooks
    BY <1>1, <1>6 DEF UninstallNoHooks
  <1> QED
    BY <1>3, <1>4, <1>5, <1>6

(* The rossoctl release renders its document at any time.                   *)
LEMMA RenderStep == JudgeInv /\ PlatformRenders => JudgeInv'
  <1> SUFFICES ASSUME JudgeInv, PlatformRenders PROVE JudgeInv'
    OBVIOUS
  <1>1. PICK p \in PlatformPairs :
          /\ target' = [pair |-> p, rest |-> renders + 1]
          /\ rendered' = rendered \union {p}
    BY DEF PlatformRenders
  <1>2. renders + 1 \in 0..MaxRenders
    BY BoundsAssumption DEF PlatformRenders, JudgeInv, TypeOK
  <1>3. target' \in Documents /\ target'.pair = p /\ p \in Pairs
    BY <1>1, <1>2 DEF Documents, Pairs
  <1>4. rendered \subseteq rendered' /\ rendered' \subseteq Pairs /\ p \in rendered'
    BY <1>1, <1>3 DEF JudgeInv, TypeOK
  <1>5. UNCHANGED <<prior, helm, job>> /\ renders' = renders + 1
    BY DEF PlatformRenders
  <1> QED
    BY <1>2, <1>3, <1>4, <1>5
    DEF JudgeInv, TypeOK, PriorKept, UninstallRestores, JobInv, At, helm

(* JudgeInv is an invariant of the hooks.                                   *)
THEOREM JudgeInvariant == Spec => []JudgeInv
  <1>1. JudgeInv /\ UNCHANGED vars => JudgeInv'
    BY DEF JudgeInv, TypeOK, PriorKept, UninstallRestores, JobInv, At, vars,
           cluster, helm, platform
  <1>2. JudgeInv /\ [Next]_vars => JudgeInv'
    BY <1>1, DiesStep, ReadSteps, RecordStep, LoadStep, DocumentStep, PatchStep,
       CheckStep, ForgetStep, HelmStep, RenderStep DEF Next
  <1> QED
    BY <1>2, JudgeInit, PTL DEF Spec

(* The record is there as long as it is needed and holds a platform's pair. *)
THEOREM RecordKept == Spec => []PriorKept
  <1>1. JudgeInv => PriorKept
    BY DEF JudgeInv
  <1> QED
    BY <1>1, JudgeInvariant, PTL

(* An uninstall whose hook ran leaves the platform's pair and no record.    *)
THEOREM RestoresPlatform == Spec => []UninstallRestores
  <1>1. JudgeInv => UninstallRestores
    BY DEF JudgeInv
  <1> QED
    BY <1>1, JudgeInvariant, PTL
=============================================================================
