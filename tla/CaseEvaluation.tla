--------------------------- MODULE CaseEvaluation ---------------------------
(***************************************************************************)
(* What one job computes: the worker judges a candidate on a case           *)
(* (correctness/evaluator.py), measures it (performance/evaluator.py,       *)
(* timers.py, statistics.py), and the engine gates and classifies what      *)
(* comes back (performance/gate.py, _append_result of engine.py).           *)
(*                                                                         *)
(* Numbers are abstracted to what a check tells apart: an output is right,  *)
(* wrong or has a NaN; a metric is within its limit, beyond it, or there is *)
(* none.  Processes, stages and their loss are in WorkerRun.                *)
(***************************************************************************)
EXTENDS Integers, Sequences, SequencesExt, FiniteSetsExt

CONSTANTS
    RepeatCounts, \* values of correctness_determinism_repeats
    SampleCounts, \* values of performance_samples
    MinStable     \* minimum_stable_samples

ASSUME CaseEvaluationAssumption ==
    /\ IsFiniteSet(RepeatCounts) /\ RepeatCounts \subseteq Nat \ {0}
    /\ IsFiniteSet(SampleCounts) /\ SampleCounts \subseteq Nat \ {0}
    /\ MinStable \in Nat \ {0}

VARIABLES
    jobConfig,   \* the settings of the job
    step,        \* where the evaluation is
    storage,     \* the storage each input bundle lives in
    dirtied,     \* the storages a run has written to
    sawWritten,  \* a run was given inputs another run had written to
    outputs,     \* of the candidate, one for each repeat
    verdict,     \* the status of the correctness result
    timers,      \* the effective timer of each role
    turn,        \* turns of the schedule so far
    buckets,     \* order_index of each sample of each role
    performance, \* the performance part of the payload
    caseRow      \* what results.csv says

caseVars == <<jobConfig, step, storage, dirtied, sawWritten, outputs, verdict,
              timers, turn, buckets, performance, caseRow>>

-----------------------------------------------------------------------------
Role == {"reference", "candidate"}
Limit == {"slowdown", "speedup", "median", "cv", "memory"}
Raised == {"timeout", "unsupported", "oom", "error"}
None == "none"

Skipped == [status |-> "skipped"]
NoBuckets == [r \in Role |-> <<>>]
NoRow == [status |-> None]
NoJob == [timer |-> None]
NoTimers == [r \in Role |-> None]

CaseInit ==
    /\ jobConfig = NoJob
    /\ step = "idle"
    /\ storage = <<>>
    /\ dirtied = {}
    /\ sawWritten = FALSE
    /\ outputs = <<>>
    /\ verdict = None
    /\ timers = NoTimers
    /\ turn = 0
    /\ buckets = NoBuckets
    /\ performance = Skipped
    /\ caseRow = NoRow

GiveCase ==
    /\ step = "idle"
    /\ jobConfig' \in [measures: BOOLEAN, optIn: BOOLEAN, repeats: RepeatCounts,
                       samples: SampleCounts, timer: {"auto", "cuda_event"}]
    /\ step' = "inputs"
    /\ UNCHANGED <<storage, dirtied, sawWritten, outputs, verdict, timers, turn, buckets,
                   performance, caseRow>>

-----------------------------------------------------------------------------
(* Correctness.  The bundles are the canonical inputs, those of the           *)
(* reference, and those of each repeat of the candidate, in this order.      *)
Judged(status) ==
    /\ verdict' = status
    /\ step' = "judged"
    /\ storage' = <<>>
    /\ dirtied' = {}
    /\ UNCHANGED <<jobConfig, timers, turn, buckets, performance, caseRow>>

(* assert_input_isolation of the bundles, pairwise.                          *)
Isolated(bundles) == IsInjective(bundles)

(* A mutant of ClonesAreIsolated: the reference is not compared with the      *)
(* candidate.                                                               *)
ComparedWithCanonical(bundles) ==
    \A b \in 2..Len(bundles) : bundles[b] # bundles[1]

ClonesAreIsolated(bundles) == Isolated(bundles)

(* make_inputs and the first clones: clone_inputs may hand out storage that   *)
(* another bundle lives in, and any of the calls may raise.                  *)
MakeInputs ==
    /\ step = "inputs"
    /\ \/ \E r \in 1..2, c \in 1..3 :
             LET bundles == <<1, r, c>>
             IN IF ClonesAreIsolated(bundles)
                THEN /\ storage' = bundles
                     /\ step' = "reference"
                     /\ UNCHANGED <<jobConfig, dirtied, verdict, timers, turn, buckets,
                                    performance, caseRow>>
                ELSE Judged("error")
       \/ \E status \in Raised : Judged(status)
    /\ UNCHANGED <<sawWritten, outputs>>

(* A run of an implementation on bundle b may write to it.                   *)
RunsOn(b) ==
    /\ sawWritten' = (sawWritten \/ storage[b] \in dirtied)
    /\ dirtied' \in {dirtied, dirtied \cup {storage[b]}}

RunReference ==
    /\ step = "reference"
    /\ \/ /\ RunsOn(2)
          /\ step' = "candidate"
          /\ UNCHANGED <<jobConfig, storage, verdict, timers, turn, buckets, performance, caseRow>>
       \/ /\ UNCHANGED sawWritten
          /\ \E status \in Raised : Judged(status)
    /\ UNCHANGED outputs

(* One repeat of the candidate on its bundle.                                *)
RunCandidate ==
    /\ step = "candidate"
    /\ Len(outputs) < jobConfig.repeats
    /\ Len(storage) = Len(outputs) + 3
    /\ \/ /\ RunsOn(Len(storage))
          /\ \E output \in {"right", "wrong", "nan"} : outputs' = Append(outputs, output)
          /\ UNCHANGED <<jobConfig, step, storage, verdict, timers, turn, buckets, performance,
                         caseRow>>
       \/ /\ UNCHANGED <<sawWritten, outputs>>
          /\ \E status \in Raised : Judged(status)

(* The inputs of the next repeat are cloned and compared with all others.     *)
CloneForRepeat ==
    /\ step = "candidate"
    /\ Len(outputs) < jobConfig.repeats
    /\ Len(storage) = Len(outputs) + 2
    /\ \E s \in 1..(Len(storage) + 1) :
          IF ClonesAreIsolated(Append(storage, s))
          THEN /\ storage' = Append(storage, s)
               /\ UNCHANGED <<jobConfig, step, dirtied, verdict, timers, turn, buckets,
                              performance, caseRow>>
          ELSE Judged("error")
    /\ UNCHANGED <<sawWritten, outputs>>

(* ExactComparator: a NaN differs from itself.                               *)
Drifts(first, other) == first # other \/ first = "nan"

(* A mutant of HasDrift: only the last repeat is compared.                   *)
LastDrifts == Len(outputs) > 1 /\ Drifts(outputs[1], outputs[Len(outputs)])

HasDrift == \E i \in 2..Len(outputs) : Drifts(outputs[1], outputs[i])

(* The drift check, and the comparator of the spec on the first output: where  *)
(* the reference has a NaN too, its tolerance says whether they match.       *)
CompareOutputs ==
    /\ step = "candidate"
    /\ Len(outputs) = jobConfig.repeats
    /\ \/ HasDrift /\ Judged("nondeterministic")
       \/ ~HasDrift /\ outputs[1] \in {"right", "nan"} /\ Judged("pass")
       \/ ~HasDrift /\ outputs[1] \in {"wrong", "nan"} /\ Judged("fail")
       \/ ~HasDrift /\ \E status \in Raised : Judged(status)
    /\ UNCHANGED <<sawWritten, outputs>>

-----------------------------------------------------------------------------
(* Performance.  execute goes on to it unless the verdict or the mode forbids. *)
MayMeasure == jobConfig.measures /\ (verdict = "pass" \/ jobConfig.optIn)

SkipPerformance ==
    /\ step = "judged"
    /\ ~MayMeasure
    /\ performance' = Skipped
    /\ step' = "answered"
    /\ UNCHANGED <<jobConfig, storage, dirtied, sawWritten, outputs, verdict, timers,
                   turn, buckets, caseRow>>

(* The timer of each role is prepared on its own.  auto captures a graph, or   *)
(* falls back to events; a timer asked for by name works or is unsupported.   *)
PrepareTimers ==
    /\ step = "judged"
    /\ MayMeasure
    /\ \/ /\ jobConfig.timer = "auto"
          /\ timers' \in [Role -> {"cuda_graph", "cuda_event"}]
       \/ /\ jobConfig.timer # "auto"
          /\ timers' = [r \in Role |-> jobConfig.timer]
    /\ step' = "sampling"
    /\ outputs' = <<>>
    /\ UNCHANGED <<jobConfig, storage, dirtied, sawWritten, verdict, turn, buckets, performance,
                   caseRow>>

(* An exception while preparing or sampling becomes the performance status.    *)
MeasuringFails ==
    /\ \/ step = "judged" /\ MayMeasure
       \/ step = "sampling"
    /\ \E status \in {"unsupported", "oom", "error", "interrupted"} :
          performance' = [status |-> status]
    /\ step' = "answered"
    /\ timers' = NoTimers
    /\ buckets' = NoBuckets
    /\ outputs' = <<>>
    /\ UNCHANGED <<jobConfig, storage, dirtied, sawWritten, turn, verdict, caseRow>>

(* A mutant of Schedule: the reference is always the first of a pair.         *)
Alternating == <<"reference", "candidate", "reference", "candidate">>

Schedule == <<"reference", "candidate", "candidate", "reference">>

Taken == Len(buckets["reference"]) + Len(buckets["candidate"])

(* The loops of sample: each turn belongs to a role, which passes when it has    *)
(* its samples.                                                             *)
Owner == Schedule[(turn % 4) + 1]

TakeTurn ==
    /\ step = "sampling"
    /\ Taken < 2 * jobConfig.samples
    /\ turn' = turn + 1
    /\ buckets' =
          IF Len(buckets[Owner]) < jobConfig.samples
          THEN [buckets EXCEPT ![Owner] = Append(@, Taken)]
          ELSE buckets
    /\ UNCHANGED <<jobConfig, step, storage, dirtied, sawWritten, outputs, verdict, timers,
                   performance, caseRow>>

(* compute_statistics and PerformanceResult.  The medians give no slowdown and *)
(* no speedup when one of them is zero.                                     *)
Measure ==
    /\ step = "sampling"
    /\ Taken = 2 * jobConfig.samples
    /\ \E ratios \in [{"slowdown", "speedup"} -> {"within", "beyond", None}],
          median \in {"within", "beyond"},
          noisy \in {{}, {"reference"}, {"candidate"}},
          memory \in {"within", "beyond", None},
          limits \in {{}} \cup {{l} : l \in Limit},
          shared \in BOOLEAN :
          LET unstable == jobConfig.samples < MinStable \/ ("cv" \in limits /\ noisy # {})
              metric(l) == CASE l \in {"slowdown", "speedup"} -> ratios[l]
                             [] l = "median" -> median
                             [] l = "cv" -> IF "candidate" \in noisy THEN "beyond" ELSE "within"
                             [] l = "memory" -> memory
          IN /\ ratios["slowdown"] = None <=> ratios["speedup"] = None
             /\ performance' =
                [status |-> IF unstable THEN "unstable" ELSE "pass",
                 formal |-> /\ ~unstable /\ ratios["speedup"] # None
                            /\ timers["reference"] = timers["candidate"]
                            /\ ~shared /\ verdict = "pass",
                 limits |-> limits,
                 metrics |-> [l \in limits |-> metric(l)]]
    /\ step' = "answered"
    /\ UNCHANGED <<jobConfig, storage, dirtied, sawWritten, outputs, verdict, timers,
                   turn, buckets, caseRow>>

-----------------------------------------------------------------------------
(* The engine.  IsFailing: a limit that is set and its metric.                *)

(* A mutant of IsFailing: a metric that is not there passes.                 *)
IsBeyond(metric) == metric = "beyond"

IsFailing(metric) == metric # "within"

HasMeasure(perf) == perf.status \in {"pass", "unstable"}

(* evaluate_performance_gate: its status, formal and ranking_eligible.         *)
Gate(perf, policy) ==
    LET result(status, formal, eligible) ==
            [status |-> status, formal |-> formal, eligible |-> eligible]
        fails == \/ ~perf.formal
                 \/ perf.status = "unstable"
                 \/ timers["reference"] # timers["candidate"]
                 \/ \E l \in perf.limits : IsFailing(perf.metrics[l])
    IN CASE perf.status = "skipped" -> result("skipped", FALSE, FALSE)
         [] perf.status # "skipped" /\ verdict # "pass" -> result("failed", FALSE, FALSE)
         [] verdict = "pass" /\ perf.status = "unsupported" ->
                result(IF policy = "allow" THEN "passed" ELSE "failed", FALSE, FALSE)
         [] verdict = "pass" /\ perf.status # "unsupported" /\ perf.status # "skipped"
              /\ ~HasMeasure(perf) -> result("failed", FALSE, FALSE)
         [] OTHER -> result(IF fails THEN "failed" ELSE "passed", perf.formal, ~fails)

(* The checks of _append_result on the samples of a measurement.              *)
SamplesAreComplete ==
    /\ \A r \in Role : buckets[r] # <<>>
    /\ Len(buckets["reference"]) = Len(buckets["candidate"])
    /\ Range(buckets["reference"]) \cup Range(buckets["candidate"]) = 0..(Taken - 1)

CorrectnessStatus ==
    CASE verdict = "pass" -> "passed"
      [] verdict \in {"fail", "nondeterministic"} -> "failed"
      [] OTHER -> verdict

(* _overall_status and what the gate makes of it.                             *)
OverallStatus(perf, gate) ==
    CASE verdict # "pass" -> CorrectnessStatus
      [] verdict = "pass" /\ HasMeasure(perf) ->
             IF jobConfig.measures /\ gate.status = "failed" THEN "failed" ELSE "passed"
      [] verdict = "pass" /\ perf.status = "unsupported" ->
             IF jobConfig.measures /\ gate.status = "passed" THEN "passed" ELSE "unsupported"
      [] verdict = "pass" /\ perf.status = "skipped" -> "passed"
      [] OTHER -> perf.status

(* _append_result: correctness dominates what the worker says of performance,  *)
(* and a status it does not know is an infrastructure failure.               *)
RecordCase(policy) ==
    LET perf == IF verdict = "pass" \/ jobConfig.optIn THEN performance ELSE Skipped
        gate == Gate(perf, policy)
    IN /\ step = "answered"
       /\ caseRow' =
             IF perf.status = "interrupted" \/ (HasMeasure(perf) /\ ~SamplesAreComplete)
             THEN [status |-> "infrastructure"]
             ELSE [status |-> OverallStatus(perf, gate), gate |-> gate,
                   samples |-> IF HasMeasure(perf) THEN Taken ELSE 0]
       /\ step' = "recorded"
       /\ UNCHANGED <<jobConfig, storage, dirtied, sawWritten, outputs, verdict, timers,
                      turn, buckets, performance>>

CaseNext ==
    \/ GiveCase
    \/ MakeInputs
    \/ RunReference
    \/ RunCandidate
    \/ CloneForRepeat
    \/ CompareOutputs
    \/ SkipPerformance
    \/ PrepareTimers
    \/ MeasuringFails
    \/ TakeTurn
    \/ Measure
    \/ \E policy \in {"fail", "allow"} : RecordCase(policy)

CaseSpec == CaseInit /\ [][CaseNext]_caseVars

-----------------------------------------------------------------------------
CaseTypeOK ==
    /\ IF step = "idle" THEN jobConfig = NoJob
       ELSE jobConfig \in [measures : BOOLEAN, optIn : BOOLEAN, repeats : RepeatCounts,
                           samples : SampleCounts, timer : {"auto", "cuda_event"}]
    /\ step \in {"idle", "inputs", "reference", "candidate", "judged", "sampling", "answered",
                "recorded"}
    /\ storage \in Seq(Nat) /\ dirtied \subseteq Range(storage)
    /\ sawWritten \in BOOLEAN
    /\ outputs \in Seq({"right", "wrong", "nan"})
    /\ verdict \in {None, "pass", "fail", "nondeterministic"} \cup Raised
    /\ timers \in [Role -> {None, "cuda_graph", "cuda_event"}]
    /\ turn \in Nat /\ buckets \in [Role -> Seq(Nat)]
    /\ \/ performance \in [status : {"skipped", "unsupported", "oom", "error", "interrupted"}]
       \/ /\ performance.status \in {"pass", "unstable"} /\ performance.formal \in BOOLEAN
          /\ performance.limits \subseteq Limit
          /\ performance.metrics \in [performance.limits -> {"within", "beyond", None}]
    /\ \/ caseRow \in [status : {None, "infrastructure"}]
       \/ caseRow \in [status : {"passed", "failed"} \cup Raised, samples : Nat,
                        gate : [status : {"skipped", "passed", "failed"}, formal : BOOLEAN,
                                eligible : BOOLEAN]]

IsRow == caseRow.status \notin {None, "infrastructure"}

(* Every run starts on inputs that no run before it has written to, although   *)
(* implementations write to their arguments and a spec may clone badly.      *)
RunsSeePristineInputs == ~sawWritten

(* A pass speaks for every repeat, and a candidate is called nondeterministic  *)
(* only when two of its outputs differ or one of them has a NaN.             *)
VerdictCoversRepeats ==
    step = "judged" =>
        /\ verdict = "pass" =>
              /\ Len(outputs) = jobConfig.repeats
              /\ Cardinality(Range(outputs)) = 1
              /\ "wrong" \notin Range(outputs)
        /\ verdict = "nondeterministic" =>
              Cardinality(Range(outputs)) > 1 \/ "nan" \in Range(outputs)

(* The turns of sample: neither role is ever two samples ahead, the k-th       *)
(* samples of both are taken one after the other, first by the reference for   *)
(* odd k and by the candidate for even k, and what was sampled in full is what *)
(* the engine takes for complete.                                            *)
SamplesAreInStep ==
    LET r == buckets["reference"]
        c == buckets["candidate"]
    IN /\ Len(r) - Len(c) \in -1..1
       /\ \A k \in DOMAIN r \cap DOMAIN c : r[k] - c[k] = IF k % 2 = 1 THEN -1 ELSE 1
       /\ step = "sampling" /\ Taken = 2 * jobConfig.samples => SamplesAreComplete

(* How late the samples of a role were taken, all together: late[k] is that of  *)
(* the first k.                                                              *)
Lateness(samples) ==
    LET late[k \in 0..Len(samples)] == IF k = 0 THEN 0 ELSE late[k - 1] + samples[k]
    IN  late[Len(samples)]

(* R-C-C-R is fair for every number of samples: the roles keep in step, and at  *)
(* the end neither was measured later on average.                            *)
SamplesAreFair ==
    /\ SamplesAreInStep
    /\ step = "sampling" /\ Taken = 2 * jobConfig.samples =>
          Lateness(buckets["reference"]) - Lateness(buckets["candidate"]) \in -1..1

(* What may be ranked was judged correct, measured with one timer on both      *)
(* sides, in full, and every limit that is set is kept by a metric there is.  *)
(* A failed correctness is recorded as what it is, and leaves no samples      *)
(* unless the job asked for them.                                           *)
RankedIsEarned ==
    IsRow =>
        /\ caseRow.gate.eligible =>
              /\ verdict = "pass" /\ caseRow.status = "passed"
              /\ timers["reference"] = timers["candidate"]
              /\ caseRow.samples = 2 * jobConfig.samples
              /\ performance.status = "pass"
              /\ \A l \in performance.limits : performance.metrics[l] = "within"
        /\ verdict # "pass" =>
              /\ caseRow.status # "passed"
              /\ caseRow.samples > 0 => jobConfig.optIn
        /\ caseRow.status = "passed" /\ caseRow.samples > 0 => caseRow.gate.status = "passed"
=============================================================================
