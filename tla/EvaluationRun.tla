--------------------------- MODULE EvaluationRun ---------------------------
(***************************************************************************)
(* One run of the engine and its resumes: execute_plan (engine.py:903-1086) *)
(* over the artifacts of reporting/artifact_writer.py.  A process           *)
(* initialises or reopens every evaluation of its plan, runs the jobs that  *)
(* have no row in results.csv, and closes every evaluation it opened.       *)
(*                                                                         *)
(* Each durable write is one step: the files are replaced atomically, and  *)
(* a process may be killed between any two writes.  One process of the run  *)
(* is alive at a time.  What the writes hold beyond what resume, the exit   *)
(* code and the published index read (summary.md, logs, diagnostics) is    *)
(* left out.                                                               *)
(***************************************************************************)
EXTENDS Integers, FiniteSets

CONSTANTS
    NEval,     \* evaluations of the run: one per operator and candidate
    NCase,     \* cases (with their seeds) of every evaluation
    Answers,   \* bound: the kinds of payload its jobs may have
    MaxStops   \* bound: kills and Ctrl-C's over the whole run

(* What a job's response holds for the tables (engine.py:446-490, 550-735): a *)
(* pass that was measured, or not (correctness mode); "slow", a measurement  *)
(* that fails its gate or, by opt-in, of a candidate that failed; a failed    *)
(* correctness with its outputs; and a payload with neither outputs nor       *)
(* samples, as the engine makes one up for a hard timeout or crash.           *)
Payload == {"measured", "unmeasured", "slow", "mismatch", "synthesized"}
HasOutputs(p) == p # "synthesized"
HasSamples(p) == p \in {"measured", "slow"}
Passes(p) == p \in {"measured", "unmeasured"}

ASSUME EvaluationRunAssumption ==
    /\ NEval \in Nat \ {0}
    /\ NCase \in Nat \ {0}
    /\ Answers \subseteq Payload
    /\ MaxStops \in Nat

VARIABLES
    (* durable *)
    status,      \* evaluation_manifest.json: "none" before initialize
    registered,  \* the evaluations in run_index.csv
    row,         \* results.csv: the payload recorded for each job, or "none"
    outputs,     \* correctness_outputs.csv: which attempt of a job wrote them
    samples,     \* performance_samples.csv: likewise
    history,     \* the evaluations in their candidate's history.csv
    latest,      \* the evaluations their candidate's latest.json names
    (* the process *)
    pc,          \* where it is; "off" when no process runs
    failFast,    \* its --fail-fast
    left,        \* evaluations still to open, or still to close
    active,      \* evaluations it opened as running
    todo,        \* jobs of its plan with no row when it opened their evaluation
    job,         \* the job whose result is being written
    payload,     \* that result
    infra,       \* evaluations with an infrastructure failure in this process
    interrupted, \* Ctrl-C reached a job
    stopped,     \* no further job is started
    (* the observer *)
    exit,        \* how the last process ended, "none" before one has
    stops        \* kills and Ctrl-C's so far

durable == <<status, registered, row, outputs, samples, history, latest>>
plan == <<failFast, left, active, todo>>
progress == <<job, payload, infra, interrupted, stopped>>
vars == <<durable, plan, progress, pc, exit, stops>>

-----------------------------------------------------------------------------
Eval == 1..NEval
Case == 1..NCase
Job  == Eval \X Case

JobsOf(e) == {e} \X Case

(* Details written by the attempt that is running or ran last, or earlier.  *)
Detail == {"none", "this", "old"}

Status == {"none", "planned", "running", "complete", "failed", "interrupted"}

PC == {"off", "create", "register", "mark", "check", "pick", "outputs",
       "samples", "row", "finish", "history", "latest"}

(* The exit codes 0, 1, 2 (a command that is refused), 3 and 130, and a      *)
(* process that is killed.                                                  *)
Exit == {"none", "passed", "failed", "refused", "infrastructure",
         "interrupted", "killed"}

(* Evaluations are opened and closed, and jobs run, in the plan's order.     *)
IsFirst(e) == e \in left /\ \A f \in left : e <= f
Precedes(j, k) == j[1] < k[1] \/ (j[1] = k[1] /\ j[2] <= k[2])
IsNext(j) == j \in todo /\ \A k \in todo : Precedes(j, k)

(* What resume, the exit code and the closing status ask of results.csv.     *)
Unrecorded(e) == {j \in JobsOf(e) : row[j] = "none"}
Whole(e) == Unrecorded(e) = {}
SomeRowFails == \E j \in Job : j[1] \in registered /\ row[j] # "none" /\ ~Passes(row[j])

-----------------------------------------------------------------------------
Init ==
    /\ status = [e \in Eval |-> "none"]
    /\ registered = {}
    /\ row = [j \in Job |-> "none"]
    /\ outputs = [j \in Job |-> "none"]
    /\ samples = [j \in Job |-> "none"]
    /\ history = {} /\ latest = {}
    /\ pc = "create"
    /\ failFast \in BOOLEAN
    /\ left = Eval /\ active = {} /\ todo = {}
    /\ job = <<1, 1>> /\ payload = "mismatch"
    /\ infra = {} /\ interrupted = FALSE /\ stopped = FALSE
    /\ exit = "none" /\ stops = 0

(* ArtifactWriter.initialize up to the tables: until the evaluation is in    *)
(* run_index.csv nothing finds the directory, so its files are one write.   *)
CreateEvaluation(e) ==
    /\ pc = "create"
    /\ IsFirst(e)
    /\ status' = [status EXCEPT ![e] = "planned"]
    /\ pc' = "register"
    /\ UNCHANGED <<registered, row, outputs, samples, history, latest,
                   plan, progress, exit, stops>>

(* The last write of initialize: _register_run.                             *)
RegisterRun(e) ==
    /\ pc = "register"
    /\ IsFirst(e)
    /\ registered' = registered \cup {e}
    /\ pc' = "mark"
    /\ UNCHANGED <<status, row, outputs, samples, history, latest,
                   plan, progress, exit, stops>>

(* update_status(RUNNING), and the evaluation's jobs are all to be run.     *)
MarkRunning(e) ==
    /\ pc = "mark"
    /\ IsFirst(e)
    /\ status' = [status EXCEPT ![e] = "running"]
    /\ active' = active \cup {e}
    /\ todo' = todo \cup JobsOf(e)
    /\ left' = left \ {e}
    /\ pc' = "create"
    /\ UNCHANGED <<registered, row, outputs, samples, history, latest,
                   failFast, progress, exit, stops>>

(* --resume: the plan is what run_index.csv lists under the run ID.  With   *)
(* no row there the command is refused and nothing changes.                 *)
BeginResume ==
    /\ pc = "off"
    /\ registered # {}
    /\ failFast' \in BOOLEAN
    /\ left' = registered /\ active' = {} /\ todo' = {}
    /\ infra' = {} /\ interrupted' = FALSE /\ stopped' = FALSE
    /\ pc' = "check"
    /\ UNCHANGED <<durable, job, payload, exit, stops>>

(* A mutant of CheckResumable: only "interrupted" may be resumed.           *)
CheckInterruptedOnly(e) ==
    /\ pc = "check"
    /\ IsFirst(e)
    /\ IF status[e] \in {"interrupted", "complete"}
         THEN /\ status' = [status EXCEPT ![e] = IF @ = "interrupted" THEN "running" ELSE @]
              /\ active' = IF status[e] = "complete" THEN active ELSE active \cup {e}
              /\ todo' = todo \cup Unrecorded(e)
              /\ left' = left \ {e}
              /\ UNCHANGED <<pc, exit>>
         ELSE /\ pc' = "off" /\ exit' = "refused"
              /\ UNCHANGED <<status, active, todo, left>>
    /\ UNCHANGED <<registered, row, outputs, samples, history, latest,
                   failFast, progress, stops>>

(* A mutant of CheckResumable: a resume runs every job again.               *)
CheckAndRunAll(e) ==
    /\ pc = "check"
    /\ IsFirst(e)
    /\ IF status[e] \in {"interrupted", "running", "complete"}
         THEN /\ status' = [status EXCEPT ![e] = IF @ = "interrupted" THEN "running" ELSE @]
              /\ active' = IF status[e] = "complete" THEN active ELSE active \cup {e}
              /\ todo' = todo \cup JobsOf(e)
              /\ left' = left \ {e}
              /\ UNCHANGED <<pc, exit>>
         ELSE /\ pc' = "off" /\ exit' = "refused"
              /\ UNCHANGED <<status, active, todo, left>>
    /\ UNCHANGED <<registered, row, outputs, samples, history, latest,
                   failFast, progress, stops>>

(* The resume branch for one evaluation: an interrupted one becomes running, *)
(* a running one was left by a killed process, a complete one is passed by,  *)
(* and any other status raises ResumeMismatchError, which ends the process.  *)
CheckResumable(e) ==
    /\ pc = "check"
    /\ IsFirst(e)
    /\ IF status[e] \in {"interrupted", "running", "complete"}
         THEN /\ status' = [status EXCEPT ![e] = IF @ = "interrupted" THEN "running" ELSE @]
              /\ active' = IF status[e] = "complete" THEN active ELSE active \cup {e}
              /\ todo' = todo \cup Unrecorded(e)
              /\ left' = left \ {e}
              /\ UNCHANGED <<pc, exit>>
         ELSE /\ pc' = "off" /\ exit' = "refused"
              /\ UNCHANGED <<status, active, todo, left>>
    /\ UNCHANGED <<registered, row, outputs, samples, history, latest,
                   failFast, progress, stops>>

(* Every evaluation is open: the job loop starts.                           *)
BeginJobs ==
    /\ pc \in {"create", "check"}
    /\ left = {}
    /\ pc' = "pick"
    /\ UNCHANGED <<durable, plan, progress, exit, stops>>

Older(detail) == IF detail = "this" THEN "old" ELSE detail

(* The next job of the loop runs.  What its earlier attempts wrote to the   *)
(* detail tables is still there.                                            *)
TakeJob(j) ==
    /\ pc = "pick"
    /\ ~stopped
    /\ IsNext(j)
    /\ job' = j
    /\ todo' = todo \ {j}
    /\ outputs' = [outputs EXCEPT ![j] = Older(@)]
    /\ samples' = [samples EXCEPT ![j] = Older(@)]
    /\ UNCHANGED <<status, registered, row, history, latest, failFast, left,
                   active, exit>>

(* The worker's response has a payload: _append_result begins.              *)
JobAnswers(j) ==
    /\ TakeJob(j)
    /\ payload' \in Answers
    /\ pc' = "outputs"
    /\ UNCHANGED <<infra, interrupted, stopped, stops>>

(* The GPU lock, the controller or the protocol failed, or the response has *)
(* no usable payload: an infrastructure failure of the job's evaluation.    *)
JobFails(j) ==
    /\ TakeJob(j)
    /\ infra' = infra \cup {j[1]}
    /\ stopped' = TRUE
    /\ UNCHANGED <<pc, payload, interrupted, stops>>

(* Ctrl-C while waiting for the lock or the worker.                         *)
JobInterrupted(j) ==
    /\ TakeJob(j)
    /\ stops < MaxStops
    /\ stops' = stops + 1
    /\ interrupted' = TRUE
    /\ stopped' = TRUE
    /\ UNCHANGED <<pc, payload, infra>>

(* A mutant of WriteOutputs: rows already there are kept.                   *)
WriteOutputsOnce ==
    /\ pc = "outputs"
    /\ outputs' = IF HasOutputs(payload) /\ outputs[job] = "none"
                    THEN [outputs EXCEPT ![job] = "this"] ELSE outputs
    /\ pc' = "samples"
    /\ UNCHANGED <<status, registered, row, samples, history, latest,
                   plan, progress, exit, stops>>

(* replace_partitions of correctness_outputs.csv, called only with rows.    *)
WriteOutputs ==
    /\ pc = "outputs"
    /\ outputs' = IF HasOutputs(payload) THEN [outputs EXCEPT ![job] = "this"] ELSE outputs
    /\ pc' = "samples"
    /\ UNCHANGED <<status, registered, row, samples, history, latest,
                   plan, progress, exit, stops>>

(* replace_partitions of performance_samples.csv, called only with rows.    *)
WriteSamples ==
    /\ pc = "samples"
    /\ samples' = IF HasSamples(payload) THEN [samples EXCEPT ![job] = "this"] ELSE samples
    /\ pc' = "row"
    /\ UNCHANGED <<status, registered, row, outputs, history, latest,
                   plan, progress, exit, stops>>

(* The results.csv row, the completion marker that resume reads.            *)
AppendRow ==
    /\ pc = "row"
    /\ row' = [row EXCEPT ![job] = payload]
    /\ stopped' = (stopped \/ (failFast /\ ~Passes(payload)))
    /\ pc' = "pick"
    /\ UNCHANGED <<status, registered, outputs, samples, history, latest,
                   plan, job, payload, infra, interrupted, exit, stops>>

(* One of those writes raises (full disk, conflicting row).                 *)
AppendFails ==
    /\ pc \in {"outputs", "samples", "row"}
    /\ infra' = infra \cup {job[1]}
    /\ stopped' = TRUE
    /\ pc' = "pick"
    /\ UNCHANGED <<durable, plan, job, payload, interrupted, exit, stops>>

EndJobs ==
    /\ pc = "pick"
    /\ stopped \/ todo = {}
    /\ left' = active
    /\ pc' = "finish"
    /\ UNCHANGED <<durable, failFast, active, todo, progress, exit, stops>>

(* A mutant of ClosingStatus: an uninterrupted process has completed all.   *)
OptimisticStatus(e) ==
    IF interrupted THEN "interrupted"
    ELSE IF e \in infra THEN "failed"
    ELSE "complete"

(* A mutant of ClosingStatus: the terminal reason goes into the status.     *)
ReasonAsStatus(e) ==
    IF Whole(e) THEN "complete"
    ELSE IF interrupted THEN "user_interrupt"
    ELSE IF e \in infra THEN "infrastructure_failure"
    ELSE "fail_fast"

(* The closing status of an evaluation, by the order of the tests.          *)
ClosingStatus(e) ==
    IF Whole(e) THEN "complete"
    ELSE IF interrupted THEN "interrupted"
    ELSE IF e \in infra THEN "failed"
    ELSE IF infra # {} THEN "interrupted"
    ELSE "failed"

(* update_status for one active evaluation: the manifest.                   *)
FinishEvaluation(e) ==
    /\ pc = "finish"
    /\ IsFirst(e)
    /\ status' = [status EXCEPT ![e] = ClosingStatus(e)]
    /\ IF ClosingStatus(e) = "complete"
         THEN pc' = "history" /\ UNCHANGED left
         ELSE pc' = pc /\ left' = left \ {e}
    /\ UNCHANGED <<registered, row, outputs, samples, history, latest,
                   failFast, active, todo, progress, exit, stops>>

(* _publish_complete: the history row, then latest.json.                    *)
AppendHistory(e) ==
    /\ pc = "history"
    /\ IsFirst(e)
    /\ history' = history \cup {e}
    /\ pc' = "latest"
    /\ UNCHANGED <<status, registered, row, outputs, samples, latest,
                   plan, progress, exit, stops>>

WriteLatest(e) ==
    /\ pc = "latest"
    /\ IsFirst(e)
    /\ latest' = latest \cup {e}
    /\ left' = left \ {e}
    /\ pc' = "finish"
    /\ UNCHANGED <<status, registered, row, outputs, samples, history,
                   failFast, active, todo, progress, exit, stops>>

(* A mutant of ExitCode: infrastructure failures are not reported.          *)
ExitCodeOfRows ==
    IF interrupted THEN "interrupted"
    ELSE IF SomeRowFails THEN "failed"
    ELSE "passed"

(* RunOutcome.exit_code: passed and failed count the rows of the plan's     *)
(* evaluations, those found by a resume included.                           *)
ExitCode ==
    IF interrupted THEN "interrupted"
    ELSE IF infra # {} THEN "infrastructure"
    ELSE IF SomeRowFails THEN "failed"
    ELSE "passed"

ReturnOutcome ==
    /\ pc = "finish"
    /\ left = {}
    /\ exit' = ExitCode
    /\ pc' = "off"
    /\ UNCHANGED <<durable, plan, progress, stops>>

(* SIGKILL, loss of power, Ctrl-C or OSError outside the two try blocks.    *)
Die ==
    /\ pc # "off"
    /\ stops < MaxStops
    /\ stops' = stops + 1
    /\ pc' = "off"
    /\ exit' = "killed"
    /\ UNCHANGED <<durable, plan, progress>>

ProcessStep ==
    \/ \E e \in Eval : \/ CreateEvaluation(e) \/ RegisterRun(e) \/ MarkRunning(e)
                      \/ CheckResumable(e) \/ FinishEvaluation(e)
                      \/ AppendHistory(e) \/ WriteLatest(e)
    \/ \E j \in Job : JobAnswers(j) \/ JobFails(j) \/ JobInterrupted(j)
    \/ WriteOutputs \/ WriteSamples \/ AppendRow \/ AppendFails
    \/ BeginJobs \/ EndJobs \/ ReturnOutcome

Next == ProcessStep \/ BeginResume \/ Die

Spec == Init /\ [][Next]_vars

(* A process that is not killed goes on, and the user resumes a run that is *)
(* not finished.                                                            *)
FairSpec == Spec /\ WF_vars(ProcessStep) /\ WF_vars(BeginResume)

-----------------------------------------------------------------------------
(* Every variable has its type.                                             *)
TypeOK ==
    /\ status \in [Eval -> Status]
    /\ registered \in SUBSET Eval
    /\ row \in [Job -> Payload \cup {"none"}]
    /\ outputs \in [Job -> Detail] /\ samples \in [Job -> Detail]
    /\ history \in SUBSET Eval /\ latest \in SUBSET Eval
    /\ pc \in PC
    /\ failFast \in BOOLEAN
    /\ left \in SUBSET Eval /\ active \in SUBSET Eval
    /\ todo \in SUBSET Job
    /\ job \in Job /\ payload \in Payload
    /\ infra \in SUBSET Eval
    /\ interrupted \in BOOLEAN /\ stopped \in BOOLEAN
    /\ exit \in Exit
    /\ stops \in 0..MaxStops

(* What resume takes for finished reports its own attempt: a row that holds  *)
(* outputs or samples stands over those of its attempt, and one that holds    *)
(* none over none of its attempt (_append_result writes the details first and *)
(* replaces what it finds).  A row that holds none may stand over those an     *)
(* earlier attempt left, but only in a run that a kill or Ctrl-C stopped.      *)
DetailsAreCurrent ==
    \A j \in Job : row[j] # "none" =>
        /\ HasOutputs(row[j]) <=> outputs[j] = "this"
        /\ HasSamples(row[j]) <=> samples[j] = "this"
        /\ stops = 0 => outputs[j] # "old" /\ samples[j] # "old"

(* Exit code 0 means that every evaluation the run can name is complete and  *)
(* that every job of it has a row that passes, however many processes the    *)
(* run took and whatever their --fail-fast (RunOutcome.exit_code).          *)
ZeroMeansPassed ==
    exit = "passed" =>
        \A e \in registered :
            /\ status[e] = "complete"
            /\ \A j \in JobsOf(e) : row[j] # "none" /\ Passes(row[j])

(* A job with a row is final: no later process runs it again or touches its  *)
(* row, outputs or samples (the resume filter of execute_plan).              *)
ResultsAreFinal ==
    [][\A j \in Job : row[j] # "none" =>
          row'[j] = row[j] /\ outputs'[j] = outputs[j] /\ samples'[j] = samples[j]]_vars

(* The writes of every process, killed or not, together keep the promise of  *)
(* the artifacts: the manifest's transitions, rows once and only while the   *)
(* evaluation runs, complete only with every row, history only of complete.  *)
Promise == INSTANCE EvaluationPromise
    WITH recorded <- {j \in Job : row[j] # "none"}, published <- history
ImplementsPromise == Promise!PromiseSpec

(* A run whose every evaluation is running, interrupted or complete, as a    *)
(* kill or Ctrl-C leaves it, ends with all complete or with one failed.      *)
Resumable == \A e \in Eval : status[e] \in {"running", "interrupted", "complete"}
Settled ==
    \/ \A e \in Eval : status[e] = "complete"
    \/ \E e \in Eval : status[e] = "failed"
ResumedRunCompletes == Resumable ~> Settled

(* What the documents also say, and the code does not do.                   *)

(* A job recorded with a failure has no raw performance samples              *)
(* (docs/performance.md:21-24), those of an earlier attempt included.        *)
FailuresHaveNoSamples ==
    \A j \in Job : row[j] \in {"mismatch", "synthesized"} => samples[j] = "none"

(* A complete evaluation is in history.csv and latest.json                   *)
(* (design.md, history.csv): when a process has ended with code 0, every      *)
(* evaluation of the run is published.                                      *)
ZeroMeansPublished ==
    exit = "passed" => registered \subseteq history \cap latest
=============================================================================
