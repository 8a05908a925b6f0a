# Verification of the benchmark engine

This directory is a TLA+ development of the operator benchmark engine in
`src/src/benchmark_engine/`: modules that model its components, TLC
configurations that check them on small instances, and proofs that TLAPS checks
for every value of the constants. Paths below are relative to
`src/src/benchmark_engine/` unless they name a document.

The engine runs `operator x candidate x case` jobs. For each job a controller
starts an isolated worker process, watches an append-only event log, and
classifies what comes back; the engine stores the result so that an interrupted
run can be resumed. Two kinds of things are hard in it. One is order: durable
writes, processes that outlive each other, two processes that want one GPU. The
other is a number, a tie, a zero or a stale file that quietly turns a benchmark
into a wrong claim. The first half of the development (the lock, the run, the
worker) is about the former, the second half (the supporting parts) mostly about
the latter.

## 1. The system

| Component | State | Operations | Module |
|---|---|---|---|
| GPU lock (`execution/gpu_lock.py`) | one lock file per GPU UUID; token and `_held` of each `GpuLock` | `acquire`, `_try_clear_dead`, `release` | `GpuLock` |
| Job execution under the lock (`engine.py:985-1006`) | worker processes on the GPU | take the lock, `Controller.run`, release | `GpuSession` |
| Engine (`engine.py`) | plan, jobs left, infrastructure failures, interrupt and stop flags | `execute_plan`, `build_resume_plan`, `_append_result`, closing status, exit code | `EvaluationRun`, `RunPlanning`, `CaseEvaluation` |
| Artifact writer and resume reader (`reporting/artifact_writer.py`) | manifest, `results.csv`, detail tables, `run_index.csv`, `history.csv`, `latest.json` | `initialize`, `update_status`, `_publish_complete`, `for_run` | `EvaluationRun`, `EvaluationPromise`, `ResultTables`, `WireContract` |
| Worker controller (`execution/controller.py`) | poll loop: stage, deadline, active process; response files; `controller.jsonl` | `run`, `_synthetic_response`, `_append_synthetic_lifecycle` | `WorkerRun`, `LogDrain` |
| Worker process (`execution/worker.py`) | stage, verdict, performance, response | `execute`, `_skip_from`, the report | `WorkerRun`, `CaseEvaluation`, `Settings` |
| Event log and protocol (`execution/event_log.py`, `protocol.py`) | `worker.jsonl`; requests, responses, events as JSON | `append`, `read`, `for_result`, emitter, heartbeat, `validate_event_sequence`; `to_dict`, `from_dict` | `WorkerRun`, `WireContract` |
| Process isolation and log drains (`execution/isolation.py`) | process group, pipe, bounded log | `terminate_process_group`, `BoundedLogDrain`, `bounded_append_text` | `WorkerRun`, `LogDrain` |
| CSV tables (`reporting/csv_writer.py`) | one file per table | `initialise`, `append`, `append_many`, `replace_partitions`, migrations | `ResultTables`, `StoredRows`, `TableRows` |
| Performance (`performance/`) | samples and timers of a job | R-C-C-R sampling, timers and their fallback, gate | `CaseEvaluation`, `SampleTiming` |
| Correctness (`correctness/`) | inputs, outputs and verdict of a job | evaluator, isolation of inputs, comparators | `CaseEvaluation`, `Comparison` |
| Planning, selection, configuration (`planning.py`, `selectors.py`, `suite.py`, `config.py`, `models.py`, `cli.py`) | none | selection, expansion of jobs, layers of settings, records | `RunPlanning`, `Settings`, `WireContract` |
| Registry (`registry/`) | the two operator trees | discovery, issues, source hash | `RegistryScan` |
| Model projection and its summary (`projection/`, `reporting/summary.py`) | `model_projection.csv` | rows of a job, totals | `ModelProjection` |
| Comparison of two artifacts (`reporting/compare.py`) | none | which rows rank | `StoredRows` |
| Legacy import (`reporting/legacy_import.py`) | result directories | `convert_legacy_csv` | `LegacyImport`, `StoredRows` |
| Reference operators (`src/operators/references/`) | none | `make_inputs`, cost model, comparators | `OperatorCases`, `OperatorVerdicts` |
| Environment, candidates, launchers | none that a later step depends on | queries, kernels, stand-alone scripts | not modelled |

How they interact. The engine opens every evaluation through the artifact
writer, then for each job takes the GPU lock (performance modes), calls the
controller, and releases the lock in a `finally`. The controller and the worker
share two files: the event log, which both append to, and one response file per
attempt. The engine turns the response into rows and writes outputs, samples and
the `results.csv` row in this order; the row is the completion marker that
resume reads. When the loop ends it writes the closing status of each evaluation,
and a complete one is published to `history.csv` and `latest.json`. Nothing
holds a lock over the artifacts: what a second process sees is what is durable.

What makes each one correct, and what makes it hard:

* **GPU lock.** Two live processes never hold it together; a waiter ends at its
  deadline; a dead owner is reclaimed and a living one is not. Hard: create and
  metadata are two steps, the reclaim reads twice and then unlinks by path, PIDs
  are reused, and a process may die between any two system calls.
* **Job execution.** One worker on the GPU. Hard: the lock records the controller,
  and the worker, in a session of its own, outlives it; and between the start of the
  worker and the `try` that terminates it an exception leaves `run` with the worker alive.
* **Engine and artifacts.** A recorded job is final, its row stands over its own
  details, exit code 0 tells the truth, a killed run can be resumed until it is
  complete. Hard: a kill between any two writes, fail-fast, a failing sibling,
  several processes one after the other over the same files.
* **Controller and worker.** `run` ends whatever the worker does; the response it
  returns is the one of its own attempt; the log of a finished attempt is one the
  next attempt accepts; performance is measured of correct candidates only. Hard:
  a worker that hangs or dies anywhere, an answer that comes at the time-out, a
  heartbeat thread, a torn last line, an orphan that still writes.

* **Shared tables and import.** `latest.json` moves forward, a table loses no row but
  one that was overwritten unread, an import converges and touches nothing that is in
  place. Hard: no locks, a kill between any two renames, time compared as text.
* **Log drain.** The file is bounded and says what it left out, and the worker is
  never blocked by it. Hard: one file for all attempts, descendants that keep the pipe.
* **Verdicts.** A pass speaks for every repeat and every compared point; a rank is
  earned by a full, fair, steady measurement. Hard: NaN and infinities, ties within a
  tolerance, an odd number of samples, a device that works late, a clone that shares
  storage.
* **Planning, settings, records.** A plan has what suite and command ask for, no more and no
  less; the nearest layer wins, zeros included; a resume runs the run's code with the run's
  configuration; a file is read as what was written or not at all. Hard: six layers with rules
  of their own, evaluations registered one by one, files that change meanwhile, files of
  earlier versions.
* **Projection and operators.** Totals count what was measured, once; inputs address
  only their own pages, and cost models count the work those inputs cause. Hard: jobs
  executed again after a death; divisions that round one way here and another there.

`PROJECT.json` lists every hazard at the line where it bites, with the properties
that would catch it, or the reason none does yet.

## 2. The modules and the code

### GpuLock, GpuSession

`file` is the lock file: absent, or an inode with its owner token (process and
epoch; every `GpuLock` object has a fresh token) and whether its metadata has
been written. Every system call is one action. `acquire` is
`BeginAcquire`, `Create`/`CreateExists` (`O_CREAT|O_EXCL`), `WriteMetadata` or
`WriteFails`, and `Poll` (deadline, sleep); `_try_clear_dead` is `ReadOwner`,
`ProbeOwner` (`os.kill(pid, 0)`), `Reread`, `Reclaim` (`unlink` by path);
`release` is `CheckRelease` and `Release`. `Die` kills a controller between any
two of them and `ReusePid` gives its PID to someone else and takes it back. A
failed write raises out of `acquire` with `_held` false, so its file stays, as in
the code.

`GpuSession` adds the worker process of each controller: it is started only while
the lock is held, and it goes on after its controller was killed. `release` is in a
`finally` (`LeaveRun`): `run` has returned, which it does when the worker has gone, or it has raised. An
exception between `Popen` and the `try` whose handlers terminate the worker
(`controller.py:310-348`), or one interrupt after the other within those handlers, is `AbandonWorker`:
the worker lives on, `abandoned` remembers the controller, and there is no next job (`NextJob`).
`SessionImplementsLock` proves that the session drives the lock as `GpuLock` allows.

### EvaluationPromise, EvaluationRun

`EvaluationPromise` is what the documents promise: the state machine of a
manifest, rows written once and only while the evaluation runs, `complete` only
with every row, an index of complete evaluations only.

`EvaluationRun` is the code. Each durable write is one action, and between any
two of them the process may be killed (`Die`). Opening is `CreateEvaluation`,
`RegisterRun`, `MarkRunning`; resuming is `BeginResume` (the plan is what
`run_index.csv` lists) and `CheckResumable` for each evaluation. The job loop is
`JobAnswers`, `JobFails` (any infrastructure failure), `JobInterrupted` (Ctrl-C),
then `WriteOutputs`, `WriteSamples`, `AppendRow`, or `AppendFails` in place of one.
Closing is `FinishEvaluation` with `ClosingStatus`, `AppendHistory`,
`WriteLatest`, and `ReturnOutcome` with `ExitCode`. A payload is one of five kinds, told
apart by whether it has output rows, sample rows, and passes. `outputs` and
`samples` say of each job whether the rows come from its latest attempt
(`"this"`), from an earlier one (`"old"`), or do not exist. Details that a payload does not have
are not written, and those of an earlier attempt stay: `DetailsAreCurrent` says exactly when that can be.

### WorkerRun

One job over its attempts. `log` is `worker.jsonl` line by line: the event, its
stage, its sequence number; `Torn` is an unfinished last line and `Garbled` a line
that begins with one. `responses` is indexed by attempt token, and the token is
counted from the log as the code counts it. The worker of attempt `k` is the
record `w[k]`: it goes through the lifecycle one event at a time
(`StageStarts`, and the ways a stage finishes: `Imported`, `Judged`, `Unjudged`, `JudgedUnwritten` (a verdict whose
diagnostic cannot be written: the payload goes out beside an error), `Sampled`, the exception handlers, `StageSkipped` for `_skip_from`), writes its
response, reports, exits, and may be lost at any step with or without half a line.
The controller is `StartRun` (validates the existing log), `Discover`, `Spawn`,
`Poll`/`Sleep`, `TimeOut`, `Interrupt`, `SeeExit`, `AcceptResponse` or `Synthesize`,
`CloseTranscript`, `Return`, with failures of the log drain and of
`controller.jsonl`. `KillController` ends it anywhere, with its worker or without.
`RecordedCorrectness` is how the engine classifies a response
(`_payload_for_worker_response`).

The code filters and slices its list of events; the module says the same of positions, which
an invariant can follow line by line. `LastAttempt` is where the lines of
`for_result` are, `Follows` is what one line owes to those before it, `Valid` is
`validate_event_sequence` (numbers without a gap, each line follows, the last attempt has exited), and
`MissingLines` is what `_append_synthetic_lifecycle` appends.

### ResultTables

Registration and publication by processes that overlap: `ReadIndex`/`WriteIndex` is
`append` of `run_index.csv` as read, add, replace; `WriteManifest` completes an
evaluation at an instant; `ReadHistory`/`WriteHistory`, then
`ReadHistoryAgain`/`WriteLatest`, which picks the latest row by the text of its time
(`IsNewer`). `KillWriter` stops a process at any step, `Resume` starts it again.
`overwritten` remembers that a replace dropped rows its process had never read: the
properties say what holds until that happens, which is what the code can promise
without a lock.

### LegacyImport

`convert_legacy_csv`: `Inspect` each operator's directory, `StageDirectory` and
`WriteDirectory` under a temporary name, `Rename` into place, all for several importers of one
CSV. `KillImport`, disk errors and edits by a user (`Alter`) come at any step.

### LogDrain

`BoundedLogDrain`, byte by byte in units: the worker and its descendants `Produce` into
a pipe, the thread fetches chunks, writes what fits (`Remaining`, `Overflows`), puts
one marker, keeps the tail. `waiter` is the end of `WorkerController.run`: wait, kill the
group, join. A descendant may leave the group (`Fork("escaped")`), and the file is shared by
the attempts of an evaluation.

### CaseEvaluation

One job: the evaluator's clones, reference run, repeats and comparisons
(`RunReference`, `RunCandidate`, `CloneForRepeat`, `CompareOutputs`) with the storages
that runs write to; `PrepareTimers`, the turns of R-C-C-R (`TakeTurn`, `Schedule`),
`Measure`, then the gate and the row (`Gate`, `RecordCase`). `SamplesAreFair` has two halves:
`SamplesAreInStep`, the order of the turns, and the balance of the times at which the samples of
each role are taken (`Lateness`, the sum of its turns). Numbers are their classes: an
output is right, wrong or has a NaN; a metric is within its limit, beyond it, or absent.

### Comparison, OperatorVerdicts

The comparators are functions, so a step compares one pair of outputs and `compared`
holds it with the verdict. `Comparison` has `floating_metrics`, structure checks, quantised
codes and Top-K with its ties and score tolerance; `OperatorVerdicts` has the comparators
the operators bring: oracles and state (`OracleVerdict`, `MegaVerdict`, `ReuseVerdict`,
`DsaVerdict`, `BoundedVerdict`), self-checks, rows of indices. Values are small integers, NaN and the
infinities, with IEEE's comparisons and Python's `max`.

### TableRows, StoredRows

`results.csv` of any of its four versions, with rows that are well formed, imported,
unavailable or broken: `AppendRow`, `AppendRows`, `ReplaceResult` with the checks and migrations
each makes of what it reads, and `CompareWith` (`compare_artifacts`). `Keep`, in `TableRows`, is the
list comprehension with which a replacement of partitions leaves the other rows alone; `ModelProjection` uses it too.

### RegistryScan, RunPlanning

`RegistryScan` says how far a scan gets with each directory (its states are the stages
of the scan), which issues it reports and which a selection meets; case-fold twins of operators (in either tree) and
of candidates (`HasTwin`) and the part of a directory that the source hash covers are modelled. `RunPlanning` gives a project
(`GiveProject`) and plans (`BuildPlan`): the operators that both suite and command let in and neither excludes, their candidates, and
for each operator the cases its spec says (`SpecCases`, which runs the code the reference has at that time), narrowed by names and
by the tags of both. The run registers its evaluations one by one (`RegisterEvaluation`, the first loop of `execute_plan`) and may be
interrupted after any of them. Then source, suite, candidates or environment change, and the resume is planned from the
registered evaluations (`BuildResumePlan`, `IsCompatible`).

### WireContract

Fourteen record classes as tables of fields and types (`FieldsOf`). `Construct` gives one field
any of its classes of values, `WriteWire` writes it, intact or as a file of version 1 or with a
field missing, unknown or of a wrong type, and `ReadWire` is `from_dict`. The reference the
result is compared with is `Owed`. A payload or an environment is any JSON: `IsJson` is what `json.dumps` takes, tuples and numbers as
keys included, and `AsJson` what comes back of them, lists and strings. That, and metadata with the reserved key, are the two
exceptions of `WireIsFaithful`.

### ModelProjection

Jobs write two projection rows (`Project`) and then their result (`Finish`); `DieAtWork` comes
between, and a resume executes again. The summary (`Standing`, `Total`) may be taken in any state.

### OperatorCases

One action makes the inputs of a case (`MakeCaseInputs`) or refuses it. For each of the reference
operators an operator definition gives, as a *layout*, the index tensors of `make_inputs`: the
slots each row addresses, how many it uses, whose they are, which outputs are compared, and of its
cost model the elements behind `flops` (`work`), the `throughput_units` (`units`) and the elements written (`produced`). `Refuses` is what
`make_inputs` refuses and no more. Of several query tokens `topk_transform` and `deepseek_v4_indexer_fp8_quant` check less than their
index tensors need: such cases are made, and `IsUnchecked` excepts them from the properties by name. That a page size is a power of two is not
modelled; the page sizes of the instance need not be one.

### Settings

One setting on its way: an operator's manifest, a suite and the command each give it or not
(`ReadManifest`, `ReadSuite`, `ParseCommand`), `ResolveConfig` picks, `ReadRequest` checks it in the worker,
`UseSetting` hands it on. A value is the class of it that some check tells apart (zero, negative, float, null, ...).

### SampleTiming

A host that launches calls on a stream and a device that works it off when it likes
(`DeviceWorks`): first call, warm-up, the capture of a graph and its first replay, and one
sample after the other by wall clock, events or graph replays, with the fallback of `AutoTimer`.

## 3. What is checked

Runs that pass:

| Run | Instance | Shows |
|---|---|---|
| `gpu_session` | 3 controllers, one of them mortal, one whose `run` may raise over its worker, one acquire each, one poll before the deadline | `SessionTypeOK`; `ExclusionUnlessStale`: as long as no process died with a lock file of its own, two live processes never hold the lock and no release finds its record gone; `OneWorkerUnlessStale`: nor, beside workers that an exception left behind, do two workers use the GPU; `AcquireTerminates` |
| `evaluation_run` | 2 evaluations of 2 jobs, 2 stops, 3 kinds of payload | `TypeOK`; `DetailsAreCurrent`: a row stands over details of its own attempt exactly when it holds some, and over an earlier attempt's only in a run that was stopped; `ZeroMeansPassed`; `ResultsAreFinal`; `ImplementsPromise` (refinement); `ResumedRunCompletes` |
| `worker_attempt` | 1 attempt, every exception handler and measuring policy, a torn line, one Ctrl-C or kill | `TypeOK`; `MeasuredOnlyIfCorrect`; `RunEnds` |
| `worker_retry` | 2 attempts, a heartbeat, a torn line, one Ctrl-C or kill | `NoStaleResponse`; `NumberedWithoutGap`; `TranscriptIsClosed` |
| `supporting_parts` | twelve parts side by side, each with its bounds below | the 24 properties of the next table |

The parts behind `supporting_parts` share no variable with each other. `MCSupportingParts` chooses
one of them at the start and steps only it, so its states are the sum of theirs and not the
product, and each property is about one part:

| Part | Property | It would be violated by |
|---|---|---|
| all twelve | `PartsTypeOK`: every variable of every part has its type | a drain that takes the limit for its own, whatever the file holds already |
| `ResultTables` | `PublishedIsComplete`: history and latest name complete evaluations of their candidate | reading the history before the manifest is complete |
| | `NothingIsLost`: nothing is missing but what an unread overwrite took | replacing the history by one's own row |
| | `LatestMovesForward`: `latest.json` never goes back in time | sorting by evaluation ID |
| `LegacyImport` | `ImportIsOrderly`: a refused CSV exposes nothing; directories appear in order; an import that fails leaves none of the directories it had staged | writing in place |
| | `ImportedIsKept`: what is in place is not touched | a rename that replaces |
| | `ImportConverges`: importing again ends with every directory | a directory that is there being an error |
| `LogDrain` | `LogIsHonest`: bounded, truncation marked, the tail is the end of the output | a chunk that just fits counted as too long |
| | `DrainMakesProgress`: a full log blocks nobody, and `run` returns | no longer reading once the file is full |
| `CaseEvaluation` | `RunsSeePristineInputs` | clones compared with the canonical inputs only |
| | `VerdictCoversRepeats` | comparing only the last repeat |
| | `SamplesAreFair`: any number of samples, neither role later on average | reference first in every pair |
| | `RankedIsEarned`: eligible means correct, complete, one timer, every limit kept by a metric there is | an absent metric passing its limit |
| `Comparison`, `OperatorVerdicts` | `VerdictsAreJustified`: each verdict is what its contract says, for finite and other values | a distance taken of values that are not finite |
| `StoredRows` | `RankingIsKept`: no migration makes a row rank; a speedup is of two measured rows under equal conditions | a median taken for a rank |
| | `TableKeepsRows`: a readable table stays readable and keeps its rows | checking the columns without the contract of the row |
| `RegistryScan`, `RunPlanning` | `PlanIsScoped`: exactly the implementations and cases that suite and command ask for, sound and unmistakable, nearest layer wins; what is in order is refused only for a reason of its own | "or" between layers |
| | `ResumeIsFaithful`: the registered evaluations with the code, configuration, environment and jobs of the run, with the exceptions it names, or a refusal | comparing environments and no hashes |
| `WireContract` | `WireIsFaithful`: what a constructor takes reads back as itself, JSON as JSON has it; nothing else is read | accepting the fields of either version |
| `ModelProjection` | `TotalsAreEarned`: every mapping counted once, and only when measured in one job | presence counting as measured |
| `OperatorCases` | `LayoutIsSound`: no row leaves its pages or enters another's, causal rows see their past, the compared points span the output | the expected rows of a masked GEMM taken by the older formula |
| | `CostCountsTheWork`: FLOPs count the slots that are used and written, throughput too, but for scores, where it counts masked positions as well | counting the whole context for a causal row |
| `Settings` | `SettingsAreUsable`: what the planner takes the worker takes, and uses what the highest layer says | "or" between layers |
| `SampleTiming` | `SamplesAreSteady`: a sample has its own calls only, and its timer's name | leaving a graph's first replay to the first sample |

`VerdictsAreJustified` compares the verdicts with definitions that are not written
as the code is (permutations for Top-K, quantifiers for maxima), and the operators'
comparators with one another: a stricter one passes nothing a laxer one refuses. What it
says of their errors it says of finite outputs; only full reuse refuses every other
value. `NaNsDoNotMatch` is what the document asks of the others.

Runs that TLC must find violated. Each checks one sentence of a document or a
comment against what the code does:

| Run | The sentence | What happens |
|---|---|---|
| `reclaims_only_absent_owner` | "Only a definitely absent owner PID is reclaimed" (`docs/performance.md:87`) | Two waiters have both read a dead owner's record; the faster one unlinks it and creates its own lock, the slower one unlinks that |
| `one_worker_per_gpu` | one formal performance task at a time (`design.md:820`), and exit code 130 "after worker cleanup" (`README.md:188`) | A Ctrl-C between `Popen` and the `try` of `run` (`controller.py:310-348`) leaves the worker alive while the lock is released, and a second worker starts beside it. With `Raising = {}` the same property fails by a kill: the dead controller's lock is reclaimed beside its orphan |
| `failures_have_no_samples` | a failure has no raw samples (`docs/performance.md:21-24`) | An attempt is killed after its samples were written; the next one ends in a crash, has no rows to write, and so replaces none |
| `zero_means_published` | history and latest of a complete evaluation (`design.md:993-994`) | A kill between the complete manifest and `history.csv`: the resume passes the evaluation by and ends with code 0 |
| `pass_is_proven` | "Reaching either performance stage proves ... the correctness gate" (`engine.py:475-476`) | The skipped performance stages are started too: a worker lost there after a failed verdict is recorded as passed |
| `missing_is_executed` | "execute missing result IDs only" (`docs/cli.md:48`) | A kill during an attempt leaves an incomplete transcript, which every later `run` of the evaluation refuses |
| `nans_do_not_match` | "NaNs match only under `equal_nan`" (`docs/correctness.md:70`) | The comparators of five operators take `max(abs(a - b) ...)` and fail it when it exceeds the tolerance. A NaN exceeds nothing, and in first place it hides every error after it: such a candidate is accepted |

Every property of a passing run has a mutant in `PROJECT.json`: a plausible bug in
one definition (the second read of the lock is not compared, a resume runs every job again,
a stage never started is left out of the closed transcript, and so on) with which TLC
finds that property violated.

### Bounds, and why they are enough

* `Proc` is three because the race of the reclaim needs a dead owner and two
  waiters; `Mortal` is one of them, and one acquire each keeps the state space small.
  `Raising` is another, so that a worker may be left behind beside a stale file and beside a waiter.
  The theorems hold for any number of all three. `MaxPolls = 1` lets a waiter go around the loop once. `Proc` is not
  declared symmetric because liveness is checked and `c1` is singled out.
* Two evaluations give an evaluation whose sibling failed, two jobs one that is
  recorded when the other is killed, and two stops a resume that is itself stopped.
  `Answers` has a payload with outputs and samples that passes, one with outputs
  only, one with neither; the two left out differ from these only in passing. The
  theorems cover all five, and any number of evaluations, cases and stops.
* `MaxAttempts = 2` makes a second attempt meet the log, the response file and the
  orphan of a first. The heartbeat, the torn line and the stop are one each,
  since one is what each hazard takes. `worker_attempt` opens all exception handlers
  (`Raising`) and policies (`Measures`); `worker_retry` closes the handlers,
  which change what a response says and not the files two attempts share.
* `ResultTables`: three evaluations, two of one candidate (a race needs two) and one of another
  (a table of its own); `Registered = {3}` has one under way at the start, `MaxClock = 4` at
  `InstantsPerSecond = 2` gives two seconds with and without a fraction.
* `LegacyImport`: two importers, two operators, one fault, one edit: a prefix of the directories, and a race for
  each. `LogDrain`: a limit of 4 with a marker of 2, chunks of 2, 5 units of output and two attempts, so
  that a chunk just fits, overflows in part, and meets a file that is full.
* `CaseEvaluation`: one and three repeats, 2 and 3 samples with stability from 3. `Comparison`: two finite
  values and three that are not, Top-2 of three indices, three scores at tolerance 1, so that closeness is not transitive.
  `OperatorVerdicts`: `OutputTolerance = 1` over the same values.
* `StoredRows`: one operation on every table of every version with two results. `RunPlanning`: three names of operators and
  three of candidates, of which two are case-fold twins, operators with different cases that an edit of the spec changes, eight command
  lines (by operator, exclusion, candidate, case, tag, seed, limit, evaluation), three suites, one change; `MCTrees` breaks a
  reference, a candidate, or two, and adds a twin of an operator to either tree.
* `WireContract` has no bound: one field at a time takes every class of value its checks tell apart.
  `ModelProjection`: four jobs over four mappings, times up to 2, one death.
* `OperatorCases`: the constants of the operators are scaled down (`RawContext = 24` for 65,536, `TopKCap = 3` for 2,048 and so on) such that
  every remainder a formula may leave still occurs; fifty cases, of which some are refused and some are unchecked. A prefill
  shorter than the ratio, whose cost would be zero and is refused elsewhere, does not occur. `FormalM` are the `m` of
  the formal mega cases. `Settings` follows every setting over every value class. `SampleTiming`: warm-up 0 and 2, 1 and 2 inner
  iterations, two samples.

`CHECK_DEADLOCK FALSE` stands in each configuration because these systems really
stop: a controller has no further job, a run killed before `run_index.csv` has
nothing to resume, a job has had its attempts.

### Fairness

* `FairSession`: a live process in `acquire` is scheduled and its system calls
  return (`WF` of `AcquireStep` for each live process). Nothing is assumed of who
  holds the lock, of jobs, or of workers; what ends the wait is the deadline.
* `FairSpec` of `EvaluationRun`: a process that is not killed goes on
  (`WF(ProcessStep)`), and the user resumes a run that is not finished
  (`WF(BeginResume)`). Kills are bounded by `MaxStops`, without which no promise
  of completion could hold.
* `FairSpec` of `WorkerRun`: the controller goes on (`WF(Controller)`), and its
  clock passes every deadline (`SF(TimeOut)`, strong because the deadline is
  looked at once in each turn of the loop, and every stage has a finite limit).
  Nothing is assumed of the worker, which may hang for ever.

* `PartsFairness`: an importer goes on, and begins again after it failed (a user who imports again); the drain
  thread and the end of `run` are scheduled. Nothing is assumed of the worker, of its descendants, or of the disk.
  The faults are bounded.

## 4. What is proved

`GpuLockProofs`, from `GpuLockAssumption` (the bounds are naturals, the mortal
processes are processes), for any set of controllers:

* `LockInvariant`: `Spec => []LockInv`. Exclusion is not inductive: a waiter that
  is about to unlink says nothing in `ExclusionUnlessStale`. `LockInv` adds that
  a file has an owner that issued its token and is where its content says, that a
  probed owner is dead, that a process which may unlink implies a stale owner, and
  that without one every owner owns the path. `StaleOwners` only grows, which is
  what makes the condition of the property usable step by step.
* `LockExclusion` (`ExclusionUnlessStale`), `SessionImplementsLock`, `SessionTypes`
  (`SessionTypeOK`) and `OneWorker` (`OneWorkerUnlessStale`), the last by the
  refinement, the exclusion, and that a running worker's controller holds the lock,
  died with it, or was taken out of `run` by an exception (`abandoned`).

`EvaluationRunProofs`, from `EvaluationRunAssumption`, for any number of
evaluations, cases and stops and any payloads:

* `RunInvariant`: `Spec => []RunInv`. The exit code is computed from rows and flags, so
  that it is honest is a fact about everything before it. `RunInv` carries what a
  process knows while it opens (`OpeningInv`, `ActiveInv`), that what is queued has
  no row (`JobsInv`), what is left to close (`ClosingInv`), that complete
  evaluations have every row (`CompleteInv`), the details of the job that is
  being written (`WritingInv`), that in a run which nothing stopped a queued job has no
  details and those without a row are of the job being recorded or of an evaluation that failed (`FreshInv`), and that no job is lost: without a failure or an
  interrupt what has no row is queued, and only a row that fails stops the queue
  (`CoverInv`).
* `RunTypes` (`TypeOK`), `RowsHaveTheirDetails` (`DetailsAreCurrent`), `ZeroIsHonest`
  (`ZeroMeansPassed`), `RecordedIsFinal` (`ResultsAreFinal`) follow from it.
* `RunImplementsPromise` (`ImplementsPromise`): each step of the code is a step of
  `EvaluationPromise` or a stutter.

`WorkerRunProofs`, from `WorkerRunAssumption`, for any number of attempts, heartbeats, torn
lines and stops, and any handlers and policies:

* `AttemptInvariant`: `Spec => []AttemptInv`. What the runs check is about the log, a response, or a
  measurement; none says why the next line fits. `AttemptInv` says it of each party. The
  log is in order up to its first broken line (`InOrder`), by position and not by
  induction over its length: a line is judged by the last significant line before it,
  which an append does not change. Only the worker of the last attempt writes, and it stands where the log
  ends (`OneWriter`), because a controller starts on a log whose attempts have all exited. What the
  controller knows of its attempt goes from place to place with it (`ControllerInv`); the tokens in use count the
  attempts discovered (`TokenInv`), so a response file under a token is its own worker's (`OwnResponse`);
  a worker's verdict and performance fit its place in the lifecycle (`WorkerInv`); and the answer of
  `run` fits the log it leaves (`ReplyInv`).
* `WorkerTypes` (`TypeOK`), `ResponsesAreTheirOwn` (`NoStaleResponse`), `LinesAreNumbered`
  (`NumberedWithoutGap`), `MeasuredAfterTheGate` (`MeasuredOnlyIfCorrect`) and
  `TranscriptsAreClosed` (`TranscriptIsClosed`) follow from it.

`SharedFilesProofs` is about the files that several processes replace. From `ResultTablesAssumption`, for any
number of evaluations and candidates:

* `RowsInvariant`: `TablesSpec => []RowsInv`. That nothing is lost is not inductive: a writer
  that is about to replace `history.csv` says nothing in `NothingIsLost`. `RowsInv` adds that,
  while nothing was overwritten unread, what such a writer has read is still in the table
  (`ReadIsKept`), so that a replace by what it read and its own row removes none.
* `NothingIsLostUnread` (`NothingIsLost`) follows from it: overlapping reads and replaces are
  the only way to lose a row, whatever is killed.
* `PublishedInvariant`: `TablesSpec => []PublishedInv`. What a process has read counts as much as what a
  table holds, because it is written later: `OnlyComplete` is about both. `LatestIsListed`
  ties `latest.json` to the history for as long as nothing was overwritten unread.
* `CompletePublished` (`PublishedIsComplete`) and `LatestOnlyMovesForward` (`LatestMovesForward`).
  The second rests on two lemmas: a nonempty finite set of evaluations has one that is no older than any
  (`NewestIsNewest`), and the text of two times sorts as the times do, but for a whole second
  (`StampOrder`).

And from `LegacyImportAssumption`, for any number of operators and importers, any faults and any edits:

* `ImportInvariant`: `ImportSpec => []ImportInv`. For each importer: what it has inspected is still so
  (`SeenIsRight`; a directory in place never goes), what it has passed while staging is staged whole and
  storable (`StagedIsWhole`), what it has passed while renaming is in place and the rest waits
  (`StagedIsRenamed`), and outside of both it has nothing staged (`NothingStaged`).
* `ImportsAreOrderly` (`ImportIsOrderly`) and `ImportedStays` (`ImportedIsKept`). That the directories appear in
  order although each importer renames only those it missed follows from `SeenIsRight`: an
  operator it passes over was in place when it looked.

`LogDrainProofs`, from `LogDrainAssumption`, for every limit of the file and of the tail, every size of the marker,
of a chunk and of the pipe, and any number of attempts, kills and full disks:

* `LogInvariant`: `LogSpec => []LogInv`. Pipe and chunk hold the units that follow those dealt with
  (`InTransit`); the file has units in order (`FileInOrder`); while the thread lives, its flags say whether the marker is in
  the file, and `written` how long the file is, up to the content limit (`ThreadKnows`); beyond the
  content the file has at most one marker and what faults have cut off others (`FileInv`); a marker stands for a unit that is not in the
  file, and without one every unit of the attempt is (`MarkerInv`).
* `LogStaysHonest` (`LogIsHonest`). A marker that a fault cuts is completed by no one, and the next attempt
  writes a new one: this is the slack of `MarkerSize - 1` for each fault in `LogIsBounded`, and the proof shows
  that there is no other.

`JobProofs` is about what happens within one job. From `CaseEvaluationAssumption`, for any numbers of repeats and
samples:

* `CaseInvariant`: `CaseSpec => []CaseInv`. The bundles share no storage and only those of runs that are over were written to
  (`PristineInv`); the samples are numbered by the turns they took (`BucketsInv`); what was measured was
  allowed, in full and, if formal, with one timer (`PerformanceInv`).
* `InputsArePristine` (`RunsSeePristineInputs`), `VerdictsCoverRepeats` (`VerdictCoversRepeats`) and
  `RankedWasEarned` (`RankedIsEarned`) follow from it.
* `SamplesWereFair` (`SamplesAreFair`): the turns of the two roles come in pairs whose order alternates
  (`BucketsInv`), and `LatenessIsBalanced` sums them up. `Lateness` is a recursive function, so that a sum has an equation for
  each of its terms (`LatenessIsDefined`, `LatenessIsASum`); what it comes to is argued from the least length at which it would fail,
  which takes a well-founded order and no induction rule.

From `SampleTimingAssumption`, for any warm-up, any number of inner iterations and samples, and a device however
late:

* `TimingInvariant`: `TimingSpec => []TimingInv`. A sample is a difference of two clocks, so what must be known is all that lies between them. The
  host begins a section on an idle device (`StreamFits`: between two sections the stream is empty), and within one what was done, what waits
  and what is yet to be launched add up to its calls, at one unit each, because the first call has been made and a graph was replayed
  (`StreamFits`, `SelectionFits`). With events the sample begins and ends where the device comes to
  them, wherever the stream is cut (`EventsFit`, `ReplaysFit`). No sum over the stream is taken: its items are all calls, so its length is its work.
* `SamplesStaySteady` (`SamplesAreSteady`) follows from it.

From `ComparisonAssumption` and `OperatorVerdictsAssumption`, for any sets of finite values and scores and any tolerance that their
code leaves room for (0 to 9, beside NaN and the infinities), any length of a Top-K and any range of codes:

* `VerdictsWereJustified` (`VerdictsAreJustified`). A comparison is made once, so there is no invariant to carry, and the work is in the
  lemmas: a wider tolerance passes more and what is not finite passes only for itself (`MismatchFacts`); a comparison that fails
  shows it in a row (`FailureShows`); a listing of as many indices as it has places has each of them once, by counting
  (`SameIndicesAreDifferent`), so that equal sets of indices come with a permutation (`ListingsAgree`); Python's maximum,
  until it has met a NaN, bounds every error before it (`MaxErrorBounds`); rows of the same indices sort alike (`PermutedRowsSortAlike`);
  and every comparator of an operator asks for the whole structure before it looks at a value
  (`EveryVerdictWantsTheStructure`).

`PlanningProofs`, from `RegistryScanAssumption` and `RunPlanningAssumption`, for any registry, suite, command line and number of
changes:

* `SettingInvariant`: `SettingSpec => []SettingInv`, and `SettingsStayUsable` (`SettingsAreUsable`). What the planner lets through is usable only
  because of what each layer let through before it (`LayersTaken`): `TakenIsUsable` goes over every kind of setting.
* `PlanningInvariant`: `PlanningSpec => []PlanningInv`. A resume compares files with a manifest, and neither it nor
  `ResumeIsFaithful` says why that is enough. `PlanningInv` does: the phases come in order (`PhasesFit`); a plan is what suite, command
  and registry made it, operator by operator, for as long as none of them changes (`PlanFits`); while evaluations are being registered the
  code is that of the plan (`CodeFits`); and a manifest is of an evaluation of the plan and holds what was hashed, which is the code that ran
  unless the hash leaves its entry point out (`ManifestsFit`). Versions only grow, so that what is equal to a manifest again was never changed.
* `ResumesAreFaithful` (`ResumeIsFaithful`) and `PlansAreScoped` (`PlanIsScoped`). That the plan has every pair that is wanted follows from
  its not being refused: a directory that is present and not a candidate has an issue. The number of jobs of an evaluation follows from a count of
  cases and seeds, which is where the seeds of a suite must differ. That a plan which is refused was refused for a reason of its own
  command (`RefusalFits`) goes over every way in which `BuildPlan` refuses.

`TableRowsProofs`, from `StoredRowsAssumption` and `ModelProjectionAssumption`, for tables of any length, any number of results,
jobs and evaluations, and any deaths. Both parts rest on `KeepKeeps`: what a replacement of partitions keeps are the wanted rows,
each once and in order. `Keep` is a recursive function too, and the lemma is argued like the sum above.

* `RowsInvariant`: `RowsSpec => []RowsInv`, `RankingsAreKept` (`RankingIsKept`), and `TablesKeepRows` (`TableKeepsRows`), which is
  about steps: `MigrationKeepsRows` says that a migration keeps IDs, touches no row of the current version and makes none rank,
  `WrittenRowsAreRead` that what an operation writes it can read again.
* `ProjectionInvariant`: `ProjectionSpec => []ProjectionInv`. A summary may be taken in any state, so the table must be right in each of
  them: a row is of the last execution of a mapped job (`RowsAreLast`), each of these executions has its rows there (`RowsAreThere`), and no
  two rows are of one result and role (`RowsAreSingle`). That a job which is executed again leaves nothing of its earlier execution is
  `PartitionIsReplaced`.
* `TotalsAreTheEarned` (`TotalsAreEarned`): there are as many rows in the place of a mapping as jobs executed for it
  (`RowsAreCounted`, a bijection), so the one row of a mapping is that of its one job, the summary says of it what the job came to
  (`StandingIsEarned`), and both sums are over the same mappings with the same times.

### What the proofs changed in the modules

An attempt that failed for a good reason was a finding about the model, in these places:

* The arms of a `CASE` may overlap, and then TLA+ leaves open which one is taken; TLC takes the first, as Python does. No proof could go on
  that. `Standing`, `ProjectionStatus`, `Apart` and `Exceeds` are chains of `IF` now, in the order of the code.
* NaN and the infinities are the values 10 to 12. With a score of 10, or a dequantised code that large, a finite value was taken for one of
  them: scores are assumed below 10, and `Dequant`, whose values are always finite, compares distances only.
* A sampled comparison of Top-K rows looks at the first and at the last element of a row, which a row of length zero does not have. `make_inputs`
  refuses `topk <= 0`, and now so does the assumption of `OperatorVerdicts` (`K # 0`).
* That the IDs of the results of an evaluation differ, that the seeds of a suite differ, and that a mapping is named once by its phase and
  operator are facts of the code that the model had used without saying so. They are assumptions now, which TLC evaluates.

### Only model-checked

* Liveness (`AcquireTerminates`, `ResumedRunCompletes`, `RunEnds`, `ImportConverges`, `DrainMakesProgress`): liveness under fairness and `ENABLED`
  are out of the prover's reach.
* `LayoutIsSound` and `CostCountsTheWork`: sums over sets of slots and rows by the folds of the library, and divisions by page sizes
  and ratios that are symbols. What a fold computes for every input is induction over data, and the arithmetic is not linear.
* `WireIsFaithful` and `PartsTypeOK`: the table of records that `WireContract` reads is defined recursively (a record holds records), and no theorem may
  stand in a module that reaches such a definition. `PartsTypeOK` is about the composition of the parts for TLC; the types of the parts
  above are conjuncts of their inductive invariants.
* The findings: they are runs that find a violation, and a counterexample on a small instance is one for every larger.

## 5. What is left out

* `WorkerRun` has one job; an evaluation's jobs share `worker.jsonl`, of which a
  second job sees what a second attempt sees: a valid log or a refused one. Tokens
  of different results cannot collide, because each begins with a hash of its result ID.
  It also assumes that joining the output drains ends; `LogDrain` models that, and
  `DrainMakesProgress` excepts a process that has left the worker's process group: the
  controller gives up joining after two seconds and then closes the pipe
  (`controller.py:375-383`), which waits for the thread that reads it.
* The content of lines, rows and manifests beyond what another step reads:
  summaries, diagnostics, environments.
* Floats: statistics, rates and tolerances are compared as classes or small integers.
  Tensor contents, strides and kernels; candidates; PyTorch references. Of
  `OperatorCases`, activations, weights and caches.
* `models.py`, `ids.py`: the text of IDs. `cli.py`: the subcommands that only read.
* Environment collection, candidates, and the stand-alone launchers: queries of the host, GPU
  kernels, and scripts outside of the engine.

### Behaviours met while modelling that no property states

No document says otherwise, or the disagreement is too small for a run of its own.

Runs and resumes:

* Planned evaluations whose process is killed before `_register_run` are never found
  again; a `failed` or `planned` evaluation blocks every resume of its run,
  interrupted siblings included.
* Evaluations are initialized and registered one after another (`engine.py:922-953`): those an interruption came before are not in
  `run_index.csv`, and the resume runs fewer jobs than the run had planned although nothing changed.
* A resume reads the command line of the run with rules of its own (`engine.py:218-238`): it knows
  `--case` and `--tag` in full, and argparse takes abbreviations too. It reads the suite again without
  comparing a hash. `ResumeIsFaithful` excepts both, and an entry point under `build/` or `dist/`, which
  the source hash leaves out.
* A resume accepts a candidate that has a case-fold twin by then, which a new plan would refuse.
  A sibling directory whose manifest declares another's ID and sorts before it has that other refused.
* The worker does not compare the source hash again: code that changes between planning and a
  job is run.
* `--timeout-s 0` falls back to the case's time-out (`engine.py:982`); a negative one is refused
  when the evaluation is already running.
* Evaluation IDs have a resolution of one second; the projection summary groups by them.

Worker and protocol:

* A worker that wrote an error response and dies before `WORKER_EXITED` leaves an open
  transcript that `run` accepts and the next job is refused for; a torn line and the append after
  it garble the log for good; a lock file without metadata is never reclaimed, only waited for.
* A response of more than a mebibyte, or with an error type of more than 128 bytes, is not written:
  the worker exits with code 3 and the controller synthesises a crash.
* Metadata that holds the key `__benchmark_engine_type__` with the other keys of a tag reads back
  as the tagged value (`IsMistakable`). A tuple in a result payload or an environment reads back as a list, a number in a key as a string.
* Settings that are resolved, checked and recorded but used by nothing: `graph_mode`,
  `default_comparator`, and the `rtol`, `atol` and `equal_nan` of a manifest.

Tables:

* Overlapping `append`s lose rows of `run_index.csv` and `history.csv`; a run whose row is lost is not
  found by its resume. Instants without a fraction are written without one and sort after
  others of their second.
* `convert_legacy_csv` publishes each directory atomically and not the set: an import that is killed
  leaves a prefix. One that fails while it writes a directory
  leaves that temporary directory. A row that was
  executed and has an error text passes the parser, and no table takes it.
* An integer in a number column of version 3 reads as a float after migration, so that appending the same
  row again is a conflict.
* Projection rows of a result that has no row yet are summarised with seed `unknown`.

Verdicts:

* `ExactComparator` takes NaN for unequal to itself, so a candidate that always returns the same NaN is
  called nondeterministic. A Top-K that fails for its indices while the scores agree has `passed=True` in its
  output rows (`engine.py:581-583`). Fewer samples than five are always unstable. The status `interrupted` of
  a performance payload is one the engine's classification raises for.
* The tie-aware Top-K still requires both sets of indices to be equal; so does the case of
  `deepseek_v4_topk_transform` that is named for a tie at the boundary.
* An operator comparator with an oracle does not notice that both roles wrote to their caches in the
  same way (only full reuse does), and the one of the indexer ignores every leaf but codes, weights and their product.

Operators:

* At most 256 points of an output are compared. For the routed MoE these lie almost on a diagonal: the output is nonzero in
  32 of 7,168 columns only, and two compared points fall into such a column, both in the first row
  (`deepseek_v4_trtllm_fp8_mxfp8_moe/spec.py:351-352`). `LayoutIsSound` asks that the points span the output and not that they
  are where it may differ from zero.
* Prefill cases of the paged logits compare a few points just past the visible length of a row, which DeepGEMM is told
  not to clear (`clean_logits=False`).
* Paged decode takes the compressed length rounded up and prefill rounded down; they differ when the context is no
  multiple of the ratio. `topk_transform` checks the sequence length against `topk`; for several query tokens it compares the raw context, from which their
  lengths come, with neither the length of the table nor `topk`, and accepts several requests whose rows then have no lengths of their own
  unless the case says that it is a prefill; `deepseek_v4_indexer_fp8_quant` likewise for its positions.
* The throughput units of the three logits operators are rows times compressed context, masked positions included
  (`deepseek_v4_fp8_paged_mqa_logits/spec.py:280`), while their FLOPs count the causal part: the two metrics of a prefill cannot be converted
  into one another.
* The tokens of `deepseek_v32_dsa_sparse_attention` are distinct only when 97 and the number of slots have no common factor.
  The masked GEMM compares rows beyond an expert's count.

## 6. Plan

Done: every module of section 2, model-checked; and proved, but for what section 4 lists as only model-checked. What would come next:

1. That `WorkerRun`'s answer is what `EvaluationRun` takes for a job's answer, and that `CaseEvaluation` fills in what `WorkerRun` chooses: two
   refinements that would join the three levels into one.
2. `OperatorCases` for one operator at a time, with the sums written as recursive functions like `Lateness`: that no row leaves its pages
   needs a sum only for the grouped product, whose blocks begin where those before them end.
3. `WireContract` without recursion, by one record class over leaves: then `WireIsFaithful` is a case analysis.
4. A run for each disagreement of section 5 that a document comes to speak about.
