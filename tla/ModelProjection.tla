---------------------------- MODULE ModelProjection ----------------------------
(***************************************************************************)
(* Model projection (projection/*.py, the projection rows of engine.py, and     *)
(* reporting/summary.py): every executed case that a projection maps is written *)
(* as two rows, its result row follows, and a run's summary multiplies, groups  *)
(* and adds up what it finds in the tables of all evaluations of the run.       *)
(*                                                                         *)
(* A process can die between the two tables; a resume executes again whatever    *)
(* has no result row.  Times are small numbers, the unit is of no matter.       *)
(***************************************************************************)
EXTENDS TableRows, Integers, Sequences, FiniteSets, SequencesExt

CONSTANTS
    Adapters,      \* mappings of all projections: [projection, phase, adapter,
                   \* operator (or "none"), instances]
    Evaluations,   \* evaluations of the run: [operator, candidate, id]
    Jobs,          \* [evaluation, result, adapter, phase, seed], adapter and phase
                   \* being symbols of its case
    MaxTime,       \* bound on the time of a call
    MaxKills       \* bound on the processes that die

ASSUME ModelProjectionAssumption ==
    /\ IsFiniteSet(Jobs)
    /\ \A j \in Jobs : j.evaluation \in Evaluations
    \* the result IDs of an evaluation are those of its cases and seeds
    /\ \A i, j \in Jobs : i.evaluation = j.evaluation /\ i.result = j.result => i = j
    \* the tables of deepseek_v4.py and glm5.py: a phase of a projection names an
    \* adapter once, and no two mappings of one phase and adapter share an operator
    /\ \A a \in Adapters : a.instances \in Nat \ {0}
    /\ \A a, b \in Adapters :
          /\ a.phase = b.phase /\ a.adapter = b.adapter
          /\ a.projection = b.projection \/ a.operator = b.operator
          => a = b
    /\ MaxTime \in Nat \ {0} /\ MaxKills \in Nat

VARIABLES
    projected,   \* model_projection.csv of each evaluation
    finished,    \* the results in results.csv of each evaluation
    atWork,      \* the jobs that are projected and not yet finished: one at most
    outcomes,    \* what the last execution of each mapped job came to
    deaths

projectionVars == <<projected, finished, atWork, outcomes, deaths>>

-----------------------------------------------------------------------------
(* projection_for_case: the first projection with a mapping for the operator and *)
(* the adapter and phase its symbols name.                                   *)
MappingsFor(job) ==
    {a \in Adapters : /\ a.adapter = job.adapter /\ a.phase = job.phase
                      /\ a.operator = job.evaluation.operator}

(* _projection_status: correctness comes first, and an unstable measurement is a  *)
(* measurement.                                                              *)
Correctness == {"passed", "failed", "unsupported", "error"}
Performance == {"passed", "unstable", "failed", "skipped", "unsupported", "error"}

ProjectionStatus(correctness, performance) ==
    IF correctness # "passed"
    THEN CASE correctness = "unsupported" -> "unsupported"
           [] correctness = "failed" -> "correctness_failed"
           [] correctness = "error" -> "unavailable"
    ELSE CASE performance = "unsupported" -> "unsupported"
           [] performance \in {"passed", "unstable"} -> "measured"
           [] performance = "skipped" -> "not_measured"
           [] performance \in {"failed", "error"} -> "unavailable"

Roles == {"reference", "candidate"}

ProjectedRow(job, outcome, role) ==
    LET m == CHOOSE m \in MappingsFor(job) : TRUE
    IN  [result |-> job.result, candidate |-> job.evaluation.candidate,
         projection |-> m.projection, phase |-> job.phase, adapter |-> job.adapter,
         role |-> role, status |-> outcome.status, time |-> outcome.time[role] * m.instances]

ResultRows(job, outcome) ==
    <<ProjectedRow(job, outcome, "reference"), ProjectedRow(job, outcome, "candidate")>>

(* replace_partitions by result_id.                                           *)
ReplacePartition(table, job, rows) ==
    Keep(table, {row \in ToSet(table) : row.result # job.result}) \o rows

-----------------------------------------------------------------------------
(* _projection_lines: the rows of a phase, a seed and an evaluation ID are a       *)
(* group.  The seed is that of the result row, where there is one.             *)
SeedOf(e, row) ==
    IF row.result \in finished[e]
    THEN (CHOOSE j \in Jobs : j.evaluation = e /\ j.result = row.result).seed
    ELSE "unknown"

KeyOf(e, row) ==
    [projection |-> row.projection, phase |-> row.phase, seed |-> SeedOf(e, row), id |-> e.id]

GroupKeys == UNION {{KeyOf(e, projected[e][i]) : i \in DOMAIN projected[e]} : e \in Evaluations}

Expected(key) == {a \in Adapters : a.projection = key.projection /\ a.phase = key.phase}

(* Places, not rows: two equal rows count as two.                               *)
Rows(key, a, role) ==
    {p \in UNION {{<<e, i>> : i \in DOMAIN projected[e]} : e \in Evaluations} :
        LET row == projected[p[1]][p[2]]
        IN  KeyOf(p[1], row) = key /\ row.adapter = a.adapter /\ row.role = role}

TheRow(key, a, role) ==
    LET p == CHOOSE p \in Rows(key, a, role) : TRUE IN projected[p[1]][p[2]]

(* A mutant of Standing: what was executed counts, measured or not.               *)
StandingByPresence(key, a) ==
    IF Rows(key, a, "candidate") = {} THEN "missing"
    ELSE IF Cardinality(Rows(key, a, "candidate")) > 1 THEN "ambiguous"
    ELSE "counted"

Standing(key, a) ==
    IF Rows(key, a, "candidate") = {} THEN "missing"
    ELSE IF Cardinality(Rows(key, a, "candidate")) > 1 THEN "ambiguous"
    ELSE IF TheRow(key, a, "candidate").status = "measured" THEN "counted"
    ELSE "unavailable"

(* The reference of a mapping counts beside its one candidate, and as one.       *)
CountsReference(key, a) ==
    /\ Standing(key, a) \in {"counted", "unavailable"}
    /\ Cardinality(Rows(key, a, "reference")) = 1
    /\ TheRow(key, a, "reference").status = "measured"

CountedAdapters(key, role) ==
    {a \in Expected(key) :
        IF role = "candidate" THEN Standing(key, a) = "counted" ELSE CountsReference(key, a)}

Total(key, role) ==
    SumFunction([a \in CountedAdapters(key, role) |-> TheRow(key, a, role).time])

-----------------------------------------------------------------------------
NoOutcome == [status |-> "never", time |-> [r \in Roles |-> 0]]

ProjectionInit ==
    /\ projected = [e \in Evaluations |-> <<>>]
    /\ finished = [e \in Evaluations |-> {}]
    /\ atWork = {} /\ outcomes = [j \in Jobs |-> NoOutcome]
    /\ deaths = 0

(* _evaluate of one job, up to its projection rows: a result that is in the table  *)
(* is not executed again.                                                    *)
Project(job, status, time) ==
    /\ atWork = {} /\ job.result \notin finished[job.evaluation]
    /\ LET outcome == [status |-> status,
                       time |-> [r \in Roles |-> IF status = "measured" THEN time[r] ELSE 0]]
           e == job.evaluation
       IN  IF MappingsFor(job) = {} THEN UNCHANGED <<outcomes, projected>>
           ELSE /\ outcomes' = [outcomes EXCEPT ![job] = outcome]
                /\ projected' = [projected EXCEPT ![e] = ReplacePartition(@, job, ResultRows(job, outcome))]
    /\ atWork' = {job}
    /\ UNCHANGED <<finished, deaths>>

(* The result row, which resume takes for the end of the job.                   *)
Finish(job) ==
    /\ job \in atWork
    /\ finished' = [finished EXCEPT ![job.evaluation] = @ \union {job.result}]
    /\ atWork' = {}
    /\ UNCHANGED <<projected, outcomes, deaths>>

DieAtWork ==
    /\ atWork # {} /\ deaths < MaxKills
    /\ deaths' = deaths + 1 /\ atWork' = {}
    /\ UNCHANGED <<projected, finished, outcomes>>

ProjectionNext ==
    \/ \E job \in Jobs, t \in 1..MaxTime :
         \E status \in {ProjectionStatus(c, p) : c \in Correctness, p \in Performance} :
           Project(job, status, [r \in Roles |-> IF r = "candidate" THEN t ELSE 1])
    \/ \E job \in Jobs : Finish(job)
    \/ DieAtWork

ProjectionSpec == ProjectionInit /\ [][ProjectionNext]_projectionVars

-----------------------------------------------------------------------------
ProjectionTypeOK ==
    /\ \A e \in Evaluations :
          projected[e] \in Seq([result : {j.result : j \in Jobs}, candidate : {e.candidate},
                               projection : {a.projection : a \in Adapters},
                               phase : {a.phase : a \in Adapters},
                               adapter : {a.adapter : a \in Adapters}, role : Roles,
                               status : {ProjectionStatus(c, p) : c \in Correctness, p \in Performance},
                               time : Nat])
    /\ \A j \in Jobs : outcomes[j].time \in [Roles -> Nat]
    /\ \A e \in Evaluations : finished[e] \subseteq {j.result : j \in Jobs}
    /\ atWork \subseteq Jobs /\ Cardinality(atWork) <= 1
    /\ deaths \in 0..MaxKills

(* The jobs whose last execution an adapter of a group stands for.               *)
Executed(key, a) ==
    {j \in Jobs : /\ outcomes[j] # NoOutcome /\ a \in MappingsFor(j) /\ j.evaluation.id = key.id
                  /\ key.seed = (IF j.result \in finished[j.evaluation] THEN j.seed ELSE "unknown")}

Earned(key, a) ==
    IF Executed(key, a) = {} THEN "missing"
    ELSE IF Cardinality(Executed(key, a)) > 1 THEN "ambiguous"
    ELSE IF \A j \in Executed(key, a) : outcomes[j].status = "measured" THEN "counted"
    ELSE "unavailable"

EarnedTime(key, a, role) ==
    LET j == CHOOSE j \in Executed(key, a) : TRUE IN outcomes[j].time[role] * a.instances

EarnedTotal(key, role) ==
    SumFunction([a \in {b \in Expected(key) : Earned(key, b) = "counted"} |->
                    EarnedTime(key, a, role)])

(* Property: a summary, whenever it is taken, counts every mapping at most once and *)
(* only when it was measured in one job, whose last execution it counts: a job that *)
(* was executed again after a death does not rival itself, two candidates for one    *)
(* mapping are ambiguous and count neither, and both totals are over the same        *)
(* mappings (_projection_lines of reporting/summary.py, and the rows of engine.py).  *)
TotalsAreEarned ==
    \A key \in GroupKeys :
        /\ \A a \in Expected(key) : Standing(key, a) = Earned(key, a)
        /\ \A role \in Roles : Total(key, role) = EarnedTotal(key, role)
=============================================================================
