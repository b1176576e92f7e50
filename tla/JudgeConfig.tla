---------------------------- MODULE JudgeConfig ----------------------------
(***************************************************************************)
(* The install and uninstall hooks that point the platform at AutoBench's  *)
(* judge and back (deploy/helm/autobench/files/platform-config-ibac.py,    *)
(* templates/ibac-judge-hooks.yaml).                                       *)
(*                                                                         *)
(* The two fields live in a document of the rossoctl release.  `apply`     *)
(* records in PRIOR what they said, once, and patches them; `restore`      *)
(* patches them back and deletes PRIOR.  Each is a Job whose pod makes one *)
(* API call after the other, may die at any of them and is started again   *)
(* BackoffLimit times.  Meanwhile the rossoctl release may render its      *)
(* document anew.  A call is performed before its pod dies or never.       *)
(***************************************************************************)
EXTENDS Naturals

CONSTANTS
    PlatformPairs, \* (judgeEndpoint, judgeModel) the rossoctl release renders
    JudgePairs,    \* (JUDGE_ENDPOINT, JUDGE_MODEL) of the autobench release
    NoRecord,      \* PRIOR does not exist
    BackoffLimit,  \* how often a failed pod is started again
    MaxHelm,       \* bound: operations on the autobench release
    MaxRenders     \* bound: upgrades of the rossoctl release

ASSUME NoRecordAssumption == NoRecord \notin PlatformPairs \union JudgePairs
ASSUME BoundsAssumption == {BackoffLimit, MaxHelm, MaxRenders} \subseteq Nat

VARIABLES
    target,    \* TARGET: the pair, and the version of everything else in it
    prior,     \* the pair in PRIOR, or NoRecord
    release,   \* the autobench release: "absent", "plain", with the "judge"
    job,       \* the hook that runs; its mode is "none" when none does
    rendered,  \* history: the pairs the rossoctl release has rendered
    skipped,   \* history: the judge went without its hook since the restore
    renders,   \* upgrades of the rossoctl release so far
    helms      \* operations on the autobench release so far

cluster == <<target, prior>>
helm == <<release, skipped, helms>>
platform == <<rendered, renders>>
vars == <<cluster, helm, platform, job>>

Pairs == PlatformPairs \union JudgePairs
Documents == [pair : Pairs, rest : 0..MaxRenders]
Jobs == [mode : {"none", "apply", "restore"},
         pc : {"current", "prior", "record", "read", "patch", "check", "forget"},
         attempt : 0..BackoffLimit,
         current : Pairs, want : Pairs, doc : Documents]

TypeOK ==
    /\ target \in Documents
    /\ prior \in Pairs \union {NoRecord}
    /\ release \in {"absent", "plain", "judge"}
    /\ job \in Jobs
    /\ rendered \subseteq Pairs
    /\ skipped \in BOOLEAN
    /\ renders \in 0..MaxRenders
    /\ helms \in 0..MaxHelm

Init ==
    /\ \E p \in PlatformPairs :
        /\ target = [pair |-> p, rest |-> 0]
        /\ rendered = {p}
        /\ job = [mode |-> "none", pc |-> "current", attempt |-> 0,
                  current |-> p, want |-> p, doc |-> target]
    /\ prior = NoRecord
    /\ release = "absent"
    /\ skipped = FALSE
    /\ renders = 0
    /\ helms = 0

---------------------------------------------------------------------------
\* The Jobs.

Over == job' = [job EXCEPT !.mode = "none"]
GoTo(pc) == job' = [job EXCEPT !.pc = pc]
At(mode, pc) == job.mode = mode /\ job.pc = pc
First(mode) == IF mode = "apply" THEN "current" ELSE "prior"

\* sys.exit or a dead pod: the Job starts another, or is failed for good; then
\* helm marks the install failed or gives up the uninstall.
Retry ==
    IF job.attempt < BackoffLimit
      THEN job' = [job EXCEPT !.attempt = @ + 1, !.pc = First(job.mode)]
      ELSE Over

Dies ==
    /\ job.mode # "none"
    /\ Retry \/ Over   \* Over: activeDeadlineSeconds
    /\ UNCHANGED <<cluster, helm, platform>>

\* apply: read_fields(get_cm(TARGET)).
ReadCurrent ==
    /\ At("apply", "current")
    /\ job' = [job EXCEPT !.current = target.pair, !.pc = "prior"]
    /\ UNCHANGED <<cluster, helm, platform>>

\* Once there is a record: done if the fields were as desired when first read.
Recorded == IF job.current = job.want THEN Over ELSE GoTo("read")

\* Mutant: the pair is recorded on every install and upgrade.
FindPriorAlways ==
    /\ At("apply", "prior")
    /\ GoTo("record")
    /\ UNCHANGED <<cluster, helm, platform>>

FindPrior ==
    /\ At("apply", "prior")
    /\ IF prior = NoRecord THEN GoTo("record") ELSE Recorded
    /\ UNCHANGED <<cluster, helm, platform>>

RecordPrior ==
    /\ At("apply", "record")
    /\ prior' = job.current
    /\ Recorded \/ Retry   \* Retry: the answer is lost
    /\ UNCHANGED <<target, helm, platform>>

\* The restore's Job has succeeded, so helm deletes the release's objects.
Uninstalled ==
    /\ Over
    /\ release' = "absent"
    /\ skipped' = FALSE
    /\ UNCHANGED helms

LoadPrior ==
    /\ At("restore", "prior")
    /\ IF prior = NoRecord
         THEN Uninstalled
         ELSE /\ job' = [job EXCEPT !.want = prior, !.pc = "read"]
              /\ UNCHANGED helm
    /\ UNCHANGED <<cluster, platform>>

\* patch_target: three calls.
ReadDocument ==
    /\ job.mode # "none" /\ job.pc = "read"
    /\ job' = [job EXCEPT !.doc = target, !.pc = "patch"]
    /\ UNCHANGED <<cluster, helm, platform>>

\* The patch is the whole document as it was read; its status is not looked at.
Patch ==
    /\ job.mode # "none" /\ job.pc = "patch"
    /\ target' = [job.doc EXCEPT !.pair = job.want] \/ UNCHANGED target
    /\ GoTo("check") \/ Retry
    /\ UNCHANGED <<prior, helm, platform>>

\* Mutant: nobody reads back whether the patch took effect.
CheckBlind ==
    /\ job.mode # "none" /\ job.pc = "check"
    /\ IF job.mode = "apply" THEN Over ELSE GoTo("forget")
    /\ UNCHANGED <<cluster, helm, platform>>

Check ==
    /\ job.mode # "none" /\ job.pc = "check"
    /\ IF target.pair # job.want THEN Retry
       ELSE IF job.mode = "apply" THEN Over ELSE GoTo("forget")
    /\ UNCHANGED <<cluster, helm, platform>>

\* With it goes the deletion of the apply Job, whose failure only costs a retry.
Forget ==
    /\ At("restore", "forget")
    /\ prior' = NoRecord
    /\ Uninstalled \/ (Retry /\ UNCHANGED helm)
    /\ UNCHANGED <<target, platform>>

---------------------------------------------------------------------------
\* helm, on the two releases.

Start(mode, pair) ==
    job' = [job EXCEPT !.mode = mode, !.pc = First(mode), !.attempt = 0, !.want = pair]

HelmRuns == /\ job.mode = "none" /\ helms < MaxHelm /\ helms' = helms + 1
            /\ UNCHANGED <<cluster, platform>>

\* upgrade --install with ibacJudge.enabled.
Install ==
    /\ HelmRuns
    /\ release' = "judge"
    /\ \E pair \in JudgePairs : Start("apply", pair)
    /\ UNCHANGED skipped

\* An upgrade with ibacJudge.enabled=false: the template renders no hook.
DropJudge ==
    /\ HelmRuns
    /\ release = "judge"
    /\ release' = "plain"
    /\ skipped' = TRUE
    /\ UNCHANGED job

Uninstall ==
    /\ HelmRuns
    /\ \/ release = "judge" /\ Start("restore", job.want) /\ UNCHANGED release
       \/ release = "plain" /\ release' = "absent" /\ UNCHANGED job
    /\ UNCHANGED skipped

UninstallNoHooks ==
    /\ HelmRuns
    /\ release = "judge"
    /\ release' = "absent"
    /\ skipped' = TRUE
    /\ UNCHANGED job

\* An upgrade of the rossoctl release renders its document, with our fields
\* as its own values have them.
PlatformRenders ==
    /\ renders < MaxRenders
    /\ renders' = renders + 1
    /\ \E p \in PlatformPairs :
        /\ target' = [pair |-> p, rest |-> renders + 1]
        /\ rendered' = rendered \union {p}
    /\ UNCHANGED <<prior, helm, job>>

Next ==
    \/ Dies \/ ReadCurrent \/ FindPrior \/ RecordPrior \/ LoadPrior
    \/ ReadDocument \/ Patch \/ Check \/ Forget
    \/ Install \/ DropJudge \/ Uninstall \/ UninstallNoHooks
    \/ PlatformRenders

Spec == Init /\ [][Next]_vars

---------------------------------------------------------------------------
\* What the hooks are for.

(* As long as the fields hold what only apply can have written there is a    *)
(* record to restore from, and the record is what the platform itself once   *)
(* rendered, never the chart's own pair: however often the hooks are         *)
(* retried, upgraded over, skipped or killed between two calls.              *)
PriorKept ==
    /\ target.pair \notin rendered => prior # NoRecord
    /\ prior # NoRecord => prior \in rendered

(* When the release is gone and its hook ran, the fields are the platform's  *)
(* again (no pair that it never rendered) and nothing of ours is left, also  *)
(* if the patch was refused, lost, or overwritten before it was read back.   *)
UninstallRestores ==
    release = "absent" /\ ~skipped => target.pair \in rendered /\ prior = NoRecord

(* Inductive invariant: where the running hook stands.  apply patches only   *)
(* after a record is there, and what it records or restores was rendered by  *)
(* the platform; restore drops the record only when the fields are back.     *)
JobInv ==
    /\ At("apply", "prior") => (prior = NoRecord => job.current \in rendered)
    /\ At("apply", "record") => prior = NoRecord /\ job.current \in rendered
    /\ job.mode # "none" /\ job.pc \in {"read", "patch", "check"} => prior # NoRecord
    /\ job.mode = "restore" =>
        /\ job.pc \in {"prior", "read", "patch", "check", "forget"}
        /\ release = "judge"
        /\ job.pc # "prior" => job.want \in rendered /\ prior # NoRecord
        /\ job.pc = "forget" => target.pair \in rendered
    /\ job.mode = "apply" => job.pc # "forget" /\ release = "judge"

JudgeInv ==
    /\ TypeOK /\ PriorKept /\ UninstallRestores /\ JobInv
    /\ release = "plain" => skipped
=============================================================================
