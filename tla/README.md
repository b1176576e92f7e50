# AutoBench: a verification development in TLA+

AutoBench (`src/src/autobench/`) is a FastAPI service that deploys benchmarks
through the Rossoctl platform, runs them against the deployed agent and
evaluator, traces the runs to MLflow and exports their records to S3. It is one
asyncio process, with two clients of its own (a command line and a driver that
takes a matrix of runs) and two Helm hooks that point the platform at its judge
and back. What makes it hard is coroutines that are cancelled at any await,
timers that race answers, SDK code that ignores cancellation, two requests that
work on the same deployment, answers that are lost, hooks that die half way, and
values that are read before an await and used after it.

This directory holds TLA+ modules that model that behaviour, TLC configurations
that check them on small instances, and TLAPS proofs of the facts that matter
most for instances of every size. Paths below are relative to
`src/src/autobench/` unless they begin with `src/`.

## 1. Inventory

| Component | State it keeps | Operations | What is hard | Correct when |
|---|---|---|---|---|
| MCP session (`runner/mcp_session.py`) | lock, poison flag, child calls | connect, create/evaluate/delete session, list tasks, close | one session shared by all tasks; the SDK may ignore a cancel; calls cancelled at any await | one call at a time on the wire; a call left behind poisons; every caller gets out |
| Engine (`runner/engine.py`) | results, summary, semaphore, one coroutine per task | `run_benchmark`, `_one`, `_run_task` | failures, timeouts and aborts of single tasks; cancellation of the run | every task accounted for once, verdicts the evaluator's, sessions deleted, the batch ends |
| Run execution (`routes/runs.py` `_execute`, `app.py`) | the `RunState` a client polls | start, wall timeout, settle, export, shutdown | an inner task that cannot be awaited; a snapshot taken while things still move | never left non-terminal; exported as it is; frozen once over |
| Agent turn (`runner/a2a_agent.py`) | attempt, deadline, child task, transport | `send_prompt`, `_attempt`, `_bounded_consume` | retries, three timers, streams that stall | in time, never two streams at once, never a second turn after an answer |
| Deployments and run start (`routes/benchmarks.py`, `deployments.py`, `routes/runs.py` `start_run`) | `DeploymentRecords`; tool and agents in the cluster | deploy, teardown, precheck, register a run | two calls per request, each may fail or take effect late; overlapping requests; restart | an agent only beside its own tool; records and labels true; nothing half torn down |
| Run registry (`runner/registry.py`) | runs by id with their tenant | create, attach, look up | tenancy | a tenant sees its own runs |
| Run export (`routes/runs.py`, `s3_export.py`) | objects under the run's prefix | collect, settle, upload, manifest | late spans, partial upload, configuration changed in between | the manifest names what is there; the settled records are exported |
| MLflow reports (`mlflow_report.py`) | none | page traces, parse, filter, aggregate | traces that arrive meanwhile; two projections that must agree | each session's numbers once |
| Caller authentication (`auth/`, `deps.py`, `instances.py`) | JWKS cache | validate a caller, log in upstream | key rotation, concurrent fetches | a valid key is found, a withdrawn one lives on within the TTL only, a tenant is its issuer |
| Runtime configuration (`runtime_config.py`) | overrides per issuer | merge, redact | partial updates, put-back of what was shown | only the mentioned fields change |
| Public errors (`public_errors.py`) | none | classify | order of the patterns | nothing verbatim is published |
| Command line client (`cli.py`), matrix driver (`src/reference/run-12.py`) | the leg at hand, what was recorded of each | tear down, deploy, wait, warm up, run, poll, fetch artifacts | flapping readiness, lost answers, a Service still serving what nobody waits for, a gateway that caches | a leg is reported as it ran, its run is started once and on a settled agent, the set ends |
| Platform judge configuration (`src/deploy/helm/autobench/files/platform-config-ibac.py`) | the platform's two fields, the recorded prior ones | apply, restore | a hook that stops half way and is retried; another release that writes the same object | uninstall puts back what was there |
| MLflow health (`routes/mlflow.py`), tracing (`runner/tracing.py`) | per probe, the records heard on a shared logger | log in, read, write a trace, read it back | an exporter that never raises; all exporters log to one place | ok means readable, a good server is accepted, every probe is answered |
| Agent and tool routes, small routes | none | pass-through | - | - |

How they interact. `start_run` reads the deployment record, prechecks tool and
agent over Rossoctl, registers the run and creates a task for `_execute`.
`_execute` creates the inner task `_go` and waits for it with the run's wall
timeout; `_go` connects one MCP session and calls `run_benchmark`, which starts
one coroutine per task behind a semaphore. Each task calls the shared session
three times and drives one agent turn in between, all inside
`asyncio.timeout(task_timeout)`. `_execute` then settles the status and exports
the run. Clients poll the `RunState` object all the while: every await is a
point where they may look. Shutdown cancels `_execute`. The export reads the
run's traces back from MLflow through the configuration of its issuer, which
`PUT /config` may change meanwhile. Every request passes `require_caller_jwt`,
which looks its key up in the cache of the issuer's realm. The two clients see
all this from outside, as answers or their absence.

`PROJECT.json` lists every component with what is modelled of it, and the
hazards of the code line by line with the properties that cover them.

## 2. The modules

| Module | Models | Lines of the code |
|---|---|---|
| `McpSession` | the shared session: lock, bounded call, poisoning, reap, cancellation | `runner/mcp_session.py` 62-206 |
| `McpSessionProofs` | proofs about it | |
| `Engine` | the batch over the session; `M == INSTANCE McpSession` | `runner/engine.py` 40-184 |
| `EngineProofs` | proofs about it | |
| `RunExecution` | `_execute` and `_go` over the engine; `E == INSTANCE Engine` | `routes/runs.py` 56-145, 259-284, `app.py` 31-36 |
| `RunExecutionProofs` | proofs about it | |
| `RunView` | what a poller is promised (abstract) | implemented by `RunExecution` |
| `A2AClient` | one agent turn on a discrete clock | `runner/a2a_agent.py` 49-229 |
| `A2AClientProofs` | proofs about it | |
| `Workloads` | deploy, teardown, start of a run, Rossoctl's side of the calls | `routes/benchmarks.py`, `deployments.py`, `rossoctl/client.py`, `routes/runs.py` 163-256, 384-399 |
| `WorkloadsProofs` | proofs about it | |
| `JudgeConfig` | the install and uninstall hooks, call by call | `src/deploy/helm/autobench/files/platform-config-ibac.py`, `templates/ibac-judge-hooks.yaml` |
| `JudgeConfigProofs` | proofs about it | |
| `Access` | validation of a caller's key, the JWKS cache | `auth/jwks.py`, `auth/caller_jwt.py`, `auth/discovery.py`, `deps.py` |
| `AccessProofs` | proofs about it | |
| `MlflowHealth` | the round trip of `/mlflow/health` beside other exporters | `routes/mlflow.py` 97-177, 252-374, `runner/tracing.py` 84-111 |
| `Reports` | what a record counts and what the inventory marks (operators) | `mlflow_report.py` 183-334, 461-523 |
| `Export` | collecting and uploading a run's records; configuration | `routes/runs.py` 259-399, `s3_export.py` 139-223, `mlflow_report.py` 105-172, `runtime_config.py` |
| `Matrix` | both clients against the Service | `src/reference/run-12.py` 126-538, `cli.py` 127-268, 494-499 |
| `OutcomeProofs` | proofs about `Export`, `MlflowHealth` and `Matrix` | |
| `MC*` | the instances TLC checks | |

`Export` extends `Reports`. `MlflowHealth` and `Matrix` give their variables and
specifications names of their own (`HealthSpec`, `MatrixSpec`), so that
`OutcomeProofs` can extend all three. `RunExecution` contains `Engine`, which contains
`McpSession`: the three share
their variables, and a step of an inner module is a step of the outer one. The
agent turn is a stage of the engine's task (`PromptReturns`, `PromptFails`); that
a cancellation gets through it, which `Engine` takes for granted, is
`A2AClient`'s `TurnEnds`. `Matrix` has the two calls of a deploy or a teardown
and the precheck of a run again, performed one by one as in `Workloads`, there for
one client instead of any number.

A step is one coroutine from one await to the next. Where the code goes from
one await straight to the next call without suspending, `Engine` takes two steps
and says why that adds no behaviour. Definitions carry the code's names; each is
mapped to its lines in `PROJECT.json`. A definition introduced by `Mutant:`
is a plausible bug used to show that a property can fail; no specification uses it.

### McpSession

`pc[c]` is where a client is in its current call: `waiting` for the lock,
`calling` (the first `asyncio.wait`), `reaping` (the second, after the
deadline). `holder` and `waiters` are `asyncio.Lock`, FIFO, with its fast path.
`live` are the child tasks in `call_tool`. `strayed` remembers children whose
reap was cut short by a cancellation. A child may end at any time or never.

### Engine

`stage[t]` is the await a task is at; `outcome[t]` is what the body will leave
with once the cleanup in its `finally` is over. `fired` are the tasks whose
`asyncio.timeout` has expired, `doomed` those a cancellation of the run has yet
to reach. A result and its summary are one step because `append_lock` is never
held across an await. Latencies, spans and prompts are left out. `judged`, `cut`
and `deleteSent` are history for the properties.

### RunExecution

`exec` is `_execute`, `inner` is `_go`. `inner.cancel()` is not awaited; a
connect or close of the SDK may swallow it. The status, the results and the
summary are the engine's. `exported` is `run.json` as it was written.

### A2AClient

Time is a clock that starts with the turn; timers that are due fire before time
goes on. `fate[a]` is what became of the child task of attempt `a`. The engine's
timer (`taskTimer`) is armed before the turn's; closing a transport takes no
time. An attempt gets `max(remaining, 1)`: the unit of the clock is that second.

### Workloads

One benchmark in one namespace: one `tool`, an `agent` for each agent name. A
request is what it asks for, the last Rossoctl call it made, and the answer.
Rossoctl performs a call some time after it was sent, or never, also when the
handler has given up (`CallFails`) or the Service has restarted. `label[r]` is
the deployment record `start_run` reads before its precheck, later `run.llm`.
`Experiments` stands for what keys a record (issuer, agent, experiment),
`AgentOf` for `agent_name`. Validation errors, logins and the read-only routes
are left out; so are `/agents` and `/tools`, which bypass the records.

### JudgeConfig

A job is the mode, the call it is about to make, the attempt, and what it has
read. `target` is the platform's object, the pair of fields with a version of
everything else in it, because a patch writes back the whole document as read.
`prior` is the recorded pair. A pod may die at every call and is started again
up to `backoffLimit`; a patch may be refused or lost, and its status is not
looked at; the platform's release renders its document at any time. An
uninstall may skip its hooks, and an upgrade that drops the judge has none.

### Access

A token is its issuer and the `kid` it was signed with. Each request is where
it stands in `get_key`: looking up, awaiting a fetch, awaiting the forced one,
with the reply on its way. A reply carries the keys published when the realm
answered, and is stored with the time its fetch began (`_get_keys` reads the
clock first), so a slower fetch may put older keys over newer ones. A fetch
lasts any time: `http_timeout_seconds` limits its connect, its write and every
single read, not the whole. One that fails ends the request with a 500: its
exceptions are no `CallerTokenError`.

### MlflowHealth

Probes and runs share one logger: `Log` adds a record to every handler that
listens. A server is healthy (takes every span, not always at the first
attempt) or not (gives up spans, drops traces it took, answers with no JSON).

### Reports and Export

A trace is the sequence in which MLflow lists its spans; a span has a kind and
a parent that may not be there yet; `Agents` are the positions of its
`invoke_agent` spans. `RecordOf` is `parse_traces`, `CountedRows`
is `span_rows`. In `Export` spans become readable one by one in any order; a
read is one step, since spans that arrive between its requests are as if they
had come before or after it. The configuration is looked up where the code does:
at the tracer (`Start`), at the export (`Begin`, S3) and at each read (MLflow).
`Plans` is the order of the objects, the manifest last.

### Matrix

One client takes the legs of one benchmark in order (legs of others have their
own deployments and only take time): `place` is where it is, `tries` the attempts of
the request at hand, `stable` the ready polls in a row. `jobs` are the requests
the Service is serving, also those whose client has left (`heard` is false).
Agents come ready, crash, and come back up to `MaxFlaps` times. `quiet` counts
the time since each LLM was last called, `since` what the driver keeps of it per
cache group. `mirrored` is whether the directory exists that the driver writes its
results to after each leg (`Over`); only `Mirror`, at the artifacts of a leg,
makes it. The command line's client takes the first leg only; where both do
the same, definitions are mapped to the one or the other. LLMs differ by their
gateway, which the echo of a deploy names: legs that differ by the model alone,
of which the driver checks no echo, are not told apart. A failed call to
Rossoctl that is performed all the same (`CallFails` in `Workloads`) is here a
`ProxyTimeout`, counted among the lost answers: the client has its 502, and the
request performs the call later and ends there.

## 3. What is checked

Each property is stated in words above its definition. Each property of a
passing run has a mutant under which TLC finds it violated.

| Run | Instance | Shows |
|---|---|---|
| `session` | 3 clients, 2 calls each; 7852 states | `OrphansPoison`, `NoConcurrentCallTool`, `EveryCallReturns` |
| `engine_safety` | 3 tasks, 2 slots; 2.5 M states | `BatchAccounted`, `HonestVerdicts`, `SessionsCleanedUp`, `SlotsBoundTheQueue` |
| `engine_liveness` | 2 tasks, 2 slots; 52 k states | `SessionSpec` (the engine implements `McpSession`, fairness included), `BatchSucceeds`, `RunReturns` |
| `execution` | 2 tasks, 1 slot; 0.37 M states | `BackstopHolds`, `ExportFaithful`, `FrozenAfterEnd`, `ViewSpec` (the run implements `RunView`), `RunSettles` |
| `turn` | 3 attempts, budget 9, task timer at 8, 10 or 14; 2946 states | `TurnInTime`, `AloneOnSession`, `VerdictHonest`, `AnswersStand`, `TurnEnds` |
| `workloads` | 3 requests, all at once, 2 experiments, 2 LLMs; 0.4 M states | `OneDeployment`, `RecordTrue`, `LabelHonest` |
| `workloads_teardown` | the same | `TeardownLeavesNothing` violated, see below |
| `judge` | 5 helm operations, 2 platform upgrades, 3 attempts per hook; 0.3 M states | `PriorKept`, `UninstallRestores` |
| `access` | 3 requests, 2 keys, TTL 2, fetches of any length; 1.7 M states | `RotatedKeyFound`, `RevocationBound` |
| `probe` | 2 probes and a run, a good and a bad server; 9838 states | `OkIsReadable`, `HealthyAccepted`, `ProbeAnswered` |
| `export` | 2 tasks, 5 spans, one PUT of any field; 0.43 M states | `PublishedWhole`, `PublicOnlyIfAsked`, `ReportComplete`, `CountedAgree`, `ExportEnds` |
| `matrix` | plans of up to 2 legs, 2 flaps, 1 lost answer; 0.36 M states | `RanAsReported`, `LegsApart`, `AcceptedSettled`, `CacheRested`, `MatrixEnds` |

The inductive invariants of section 4 hold on these instances too; since they
are proved, no run repeats them. The type invariants of `Export`, `MlflowHealth`
and `Matrix`, of which the proofs need a part only, hold on the same instances.

Why the bounds are enough. A call on the shared session meets at most one
holder, one waiter ahead of it and one behind: three clients, and a second call
each to meet what the first left behind. Three tasks in two slots make one task
wait for a slot while two contend for the lock. The run's outcome depends on
whether some task is in each stage when it is cut; with two tasks and one slot
one is in a stage and the other still waits. Three attempts make a first, a
middle and a last one; budget, minimum and backoff are such that the budget also
runs out before the attempts do. The task timer fires before the client's deadline, in its grace, or later. Three
requests are a deployment, one that undoes it and one that meets what is left;
that more requests change nothing for `OneDeployment` is proved. In `workloads`
one experiment has a client that waits for each answer (`Exclusive`), the other
any number of clients; the LLMs are interchangeable (symmetry, no liveness).
In `judge` five operations are an install, an upgrade over it, an uninstall,
an install after it and one that skips hooks; one of the judge's pairs is also
the platform's, a judge somebody configured by hand; that more changes nothing is
proved. In `access` three requests are one that caches old keys, one that forces
a fetch and one that overtakes it; cached keys are of the same tick, one tick old
or, after two, stale, and a fetch may last as long as the TTL; keys and requests
are interchangeable. In
`export` the first task's prompt was sent twice, so its trace has two
`invoke_agent` spans, and the chat is not countable before its agent's span is
there. In `matrix` the plans are the shapes of the spec files: the same gateway
twice, two in turn, a leg that reuses the deployment of the one before, a leg
on what was left from before; an agent that will crash again is found ready in
one poll, in two, or in none before it does.
`CHECK_DEADLOCK FALSE` everywhere: these programs end.

Fairness, and why the code justifies it. The event loop runs every coroutine
that can run: weak fairness of the steps of a coroutine. A timer of
`asyncio.wait` or `asyncio.timeout` fires: weak fairness of the step it enables.
Nothing is assumed of the SDK or the agent: no child call, stream, connect,
close or flush has to end in `McpSession`, `A2AClient` and `RunExecution`. In
`Engine` alone `list_tasks`, the agent turn and the flush end: the first and
the second have deadlines of their own (that of the turn is `TurnEnds`), the
third is the exporter's. `RunSettles` needs neither. `A2AClient` assumes that
closing a local transport returns; the code does not bound that `aclose`.
`MlflowHealth` assumes that every step of a probe ends, since its calls have
timeouts, the exporter a deadline and the loop one too; not that a trace is ever
indexed. `Export` assumes the settle deadline and that requests and uploads end;
not that a span ever arrives or a read ever fails. `Matrix` assumes that time
passes, that the client's deadlines are kept and that a request whose client
still waits is served. `Workloads`, `JudgeConfig` and `Access` state no
liveness.

### Where code and documentation disagree

`workloads_teardown` checks a statement the repository makes and ends in a
counterexample (quotes under `findings` in `PROJECT.json`): teardown answers 404
at a missing agent without looking at the tool, which then refuses every later
deploy; the driver script takes that 404 for "already gone".

The following were seen while modelling. Where an exemption of a property is
named, TLC finds the case as a counterexample to the property without it, and
the exemption is as narrow as the case.

- `runner/mcp_session.py:181`: a task timeout that fires during the reap's grace
  leaves a live call on a session that is not poisoned, and the next call runs
  beside it, although "we poison on external cancellation too" (156-163).
  `NoConcurrentCallTool` exempts the strayed calls.
- `runner/engine.py:133`: a task timeout during `delete_session` replaces the
  verdict of an evaluated task by a timeout (`cut` in `HonestVerdicts`).
- `runner/engine.py:183`, `routes/runs.py:100`: the batch is done and the run
  succeeded; a flush or close that outlasts the wall timeout turns it into
  failed, after a poller may have seen succeeded. "Export failures must not fail
  the run", says the comment. `RunView` allows the revision.
- `routes/runs.py:99`: an inner task whose connect swallows the cancellation and
  returns runs the batch after the run was failed and exported (`swallowed`).
- `routes/runs.py:47-49`: the agent's client "must self-enforce" its deadline,
  but the engine's timer of the same length is armed earlier and always fires
  first (`TaskTimerFirst`): a stalled turn's child task is neither cancelled nor
  reaped, only its transport closed.
- `routes/runs.py:395`: what `_build_run_tracer` does not catch (a token
  endpoint that answers 200 without JSON, `httpx.InvalidURL`) leaves a registered
  run pending for ever (`TracerCrashes`), against "never fails the run" (387).
- `benchmarks/registry.py:222`: two spellings of one experiment ('' and
  'default') have two records for one agent (`ExclusiveAssumption`).
- `templates/ibac-judge-hooks.yaml:1`: an upgrade that turns the judge off
  renders no hook, so the platform's fields keep naming a judge that is gone,
  and a later uninstall does not restore them either (`skipped`). ADMIN_GUIDE
  1298-1300 advises this upgrade "so the apply hook reconciles the fields".
- `platform-config-ibac.py:125`: the patch carries the document as read, so what
  the platform renders in between is reverted and nobody sees it.
- `routes/mlflow.py:143`: an ERROR that another run's or probe's exporter logs
  while a good server is probed fails its write stage; the docstring of `failed`
  calls that worse than the bug it is there to catch (113-114).
  `HealthyAccepted` exempts a probe that heard one. A token endpoint that answers
  200 without JSON makes the route, "Always HTTP 200" (248), answer 500.
- `mlflow_report.py:461`: `span_rows` counts under the first `invoke_agent`
  span, `parse_traces` under the last (288-290), although the one is to "mirror
  `parse_traces` exactly" (495). A prompt sent again makes two of them;
  `CountedAgree` is about traces with one.
- `mlflow_report.py:150`: a read in which one trace's own request fails replaces a
  larger record set (`skipped` in `ReportComplete`). `routes/runs.py:301`
  promises `([], [])` on any issue; an exception other than `MLflowAuthError` and
  `httpx.HTTPError` loses the whole export (`Lost`).
- `runtime_config.py:84`: a client that puts back the configuration it was
  shown stores the redacted `***` as the secret.
- `src/reference/run-12.py:445`: `cache_group` gives a leg that reuses a
  deployment the key of the instance's default LLM, whatever it was deployed
  with: no gap is kept after the leg that deployed it (`CacheRested` names it).
- `src/reference/run-12.py:537`: the driver writes its results after each leg
  outside of the `try`, into a directory that only a leg with artifacts creates
  (249). On a machine without it the first leg that ends earlier raises
  `FileNotFoundError` and ends the set, "never let one run abort the set" (526)
  notwithstanding (`mirrored` in `MatrixEnds`).
- `src/reference/run-12.py:513`: `token()` is called outside the `try`: a login
  that fails between two legs ends the set too (`aborted` in `MatrixEnds`).
- `src/reference/run-12.py`: a leg without `deploy_body` runs also when the
  deploy before it failed (`RanAsReported`). With two answers lost, a teardown
  and a deploy performed late can replace a leg's deployment after it was found
  ready; `MaxLost = 1` keeps that out of `AcceptedSettled`, which also rests
  on an agent that will crash not being ready for as many polls as asked for.

## 4. What is proved

All theorems are for every value of the constants, under the named assumptions
of the modules: the lock's free value is no client; attempts, minimum budget,
tasks and slots are positive; an absent LLM, key set, entry or record is none of
those there are; `AgentOf` and `JwksUrl` are functions; an experiment that has one
client shares no agent; the mounted configuration and every PUT give fields
values; every span has a kind and a parent; spec files are sequences of legs.
TLC evaluates each on the instances above.

- `McpSessionProofs`. `SessionInvariant: Spec => []IInv`, and from it
  `CallsSerialised`, `OrphansAccounted`, `PoisonFinal`. `NoConcurrentCallTool` is
  not inductive: that the call a client makes is the only live one also needs who
  holds the lock at each `pc`, that each client is queued at most once, and that
  a live call is the current one of a client inside the lock, or has poisoned
  the session, or strayed. `IInv` is the conjunction of these.
- `EngineProofs`. Every step of the engine is a step of `McpSession` or leaves
  the session alone (`OwnSessionStep`), so `SessionUsed` is the safety part of
  `SessionSpec`, and the session's invariant holds within the engine without
  being proved again. `EngineInv` adds what can be said of each task by itself
  (`TaskInv`: what its session, verdict, cleanup and exit are at each stage), of
  the results (`ResultsInv`: one per task, of tasks that have ended, each honest)
  and of the run (`RunInv`: the summary is the results', success rests on every
  task being recorded). An interruption of one task touches no other's `TaskInv`;
  this is what makes any number of tasks provable. From it `BatchAccountedFor`,
  `VerdictsHonest`, `CleanupSent`, `SlotsBound`, and the action property
  `NothingAfterCancellation`.
- `RunExecutionProofs`. `ExecutionInv` is the engine's invariant through wall
  timeout and shutdown, with what the status is at each place of `_execute`
  (`StatusInv`), that an inner task left behind has ended or has its
  cancellation on the way (`LeftBehindInv`), and what was exported (`ExportInv`).
  `NeverLeftRunning`, `PartialResultsRetained` and `ExportsFaithful` follow.
  `ImplementsRunView` is the refinement of `RunView`, initial states and step by
  step: results only grow, and nothing leads back from a terminal status.
  `EngineWithinRun` and `SessionWithinRun` carry the engine's and the session's
  theorems over to the execution of a run.
- `A2AClientProofs`. `TurnInvariant: Spec => []TurnInv`, and `TurnBounded`,
  `TurnAlone`, `TurnHonest`, `TaskTimerFirst`, `AnswerFinal`. `TurnInv` adds to
  the properties where clock and timer stand at each `pc` (`TimeInv`), that all
  attempts before the current one ended at the connection (`FateInv`), and what
  each verdict is made of (`VerdictInv`): a retry is allowed only after a child
  that has ended, which makes the current stream the only live one, and every
  wait ends at the one deadline because `until` does not depend on the attempt.
- `WorkloadsProofs`. `WorkloadsInvariant: Spec => []WorkloadsInv` and
  `DeploymentsExclude` (`OneDeployment`). The tool works as a lock although the
  code never says so: POST /tools is refused while it exists. The right that
  goes with it passes from the deploy that created the tool to the agent, from
  the agent to the teardown that deleted it, and ends when the tool is deleted.
  `OneHolder` says there is one holder at most; calls performed late only pass
  on or drop the right. That teardown deletes the agent first is what makes it so.
  `RecordsInvariant`, on top of it, is about an experiment with one client:
  a late call of an earlier request could falsify its record only by taking the
  agent away, and a teardown that does so without anybody to go on (`Stuck`)
  keeps the right for ever, so that no agent comes after it. Hence `RecordsTrue`
  and `LabelsHonest`.
- `JudgeConfigProofs`. `JudgeInvariant: Spec => []JudgeInv`, and `RecordKept`
  (`PriorKept`) and `RestoresPlatform` (`UninstallRestores`). `JobInv` says where
  the running hook stands: `apply` patches only after there is a record, what it
  records or restores was rendered by the platform, and `restore` forgets only
  after it has read its patch back. A pod that dies starts from the first call,
  for which every state of the two objects is a good one.
- `AccessProofs`. `AccessInv` follows keys from the realm's answer through the
  fetch into the cache: each was published at some moment since the time it is
  stamped with (`PublishedSince`). Since the stamp is taken before the request is
  sent, an older reply that overwrites a newer one brings its older stamp along,
  and the time in `RevocationBounded` does not add up: beyond `Ttl` a withdrawn key
lets in only the caller that still waits for the very answer which has it, if
its fetch began before the withdrawal. Nothing is assumed of how long fetches
last, so for that one caller the code gives no bound. `KeyFound` rests on the
  forced fetch of every request that does not find its key.
- `OutcomeProofs`, in three parts without relation to each other. *Probes*:
  `HealthInvariant`; a probe hears its own exporter, so one that lost a span has
  heard an ERROR when it judges (`OkMeansReadable`, `HealthyNotRejected`).
  *Export*: `ExportInvariant`; what is stored is at every moment a prefix of the
  planned objects, whose last one is the manifest (`ManifestLast`); a PUT changes
  only what it mentions (`PublicWasAsked`); a read either shows everything with a
  root or is named in `troubles` (`ReportIsComplete`); `InventoryAgrees`, for
  traces with one `invoke_agent` span, in any listing order. *Matrix*:
  `OneRunPerLeg`; a leg has no run and no request for one, or one request, or
  one run, and what the client was answered tells which. It holds for any number
  of lost answers. `ReportedRight`, `RunsAreSettled` and `CacheIsCold` have the
  hypothesis `MaxLost <= 1`: with 2, TLC finds each of them violated (plans of up
  to three legs), as two requests nobody waits for, performed late, can replace a
  leg's deployment (section 3).
  With one, `ReportInv` says that what a leg works with stands: no agent with
  another LLM can be there, and a deploy that is still under way finds the agent
  in its place (`Standing`), from the answer to the deploy to the report, and
  for the legs that reuse it. `TimingInv` adds that the polls counted are of an
  agent that will not crash, or has been ready for as many readings
  (`SettledInv`), and that the driver's `since` never runs ahead of the time a
  gateway was quiet, except for the run of the leg at hand (`QuietInv`).

Theorems that state no property of a run are the inductive invariants
(`SessionInvariant`, `EngineInvariant`, `ExecutionInvariant`, `TurnInvariant`,
`WorkloadsInvariant`, `RecordsInvariant`, `JudgeInvariant`, `AccessInvariant`,
`HealthInvariant`, `ExportInvariant`), the type theorems, and `SessionUsed`,
`NothingAfterCancellation`, `EngineWithinRun`, `SessionWithinRun`, `PoisonFinal` and
`TaskTimerFirst`.

Only model-checked: liveness (`EveryCallReturns`, `BatchSucceeds`, `RunReturns`,
`RunSettles`, `TurnEnds`, `ProbeAnswered`, `ExportEnds`, `MatrixEnds`) and the
fairness in `SessionSpec`, which are out of the prover's reach. Every invariant and
action property that a passing run checks is stated by a theorem.

## 5. What is not modelled, and why

Pure data (request bodies, models' validators, report rows, percentiles and
aggregates, the classification of error texts in `public_errors.py`) except where
a property needs it; OpenTelemetry, boto3, httpx, Helm and the MCP and A2A SDKs,
which are modelled by how the code uses them; the pass-through routes of agents
and tools and the judge's proxy, which keep no state between requests; the
operator scripts beside `run-12.py` (`preflight.py` and its read-only checks, the
`gen-*.py` reports), the slide generators, installers and documentation, which
are sequential or outside the process. A token is an issuer and a `kid`: its
signature and claims are the library's. About half of the repository's Python is in
these scripts and generators; of the service's own package the modules cover the
routes, the runner, the export and the clients, and leave the request bodies,
benchmark definitions and validators, which are data. The two clients' output,
what is in their JSON files (`run-12.py` rewrites its file in place) and the commands of the command line
that only read are left out. `Export` takes MLflow's page tokens to be stable: a
read lists each trace once although new ones arrive; that the inventory stops at
`span_report_max_rows` is left out. How long things
take is modelled in `A2AClient`, `Access` and `Matrix` only; elsewhere a timer may
fire at any time, which includes `timeout_seconds` of zero or less, which the
code does not reject.

## 6. Plan

1. The full type invariants of `Export`, `MlflowHealth` and `Matrix` as theorems.
2. Action properties on top of the invariants: verdicts and labels that never
   change once given, and a configuration record that only `restore` forgets.
