------------------------------ MODULE RunPlanning ------------------------------
(***************************************************************************)
(* From a command line to jobs: the suite, the selectors, the layers of      *)
(* configuration, the plan of a run and the plan of its resume (suite.py,   *)
(* selectors.py, config.py, planning.py, and the builders of engine.py).    *)
(*                                                                         *)
(* A resume plans anew: it reads the registry and the suite as they are by   *)
(* then, and takes from the interrupted run only what its manifests hold.   *)
(***************************************************************************)
EXTENDS RegistryScan, FiniteSets

CONSTANTS
    CaseTags,        \* the cases of each operator with their tags, in the spec as it
                     \* was given and as it is when its file has been edited
    OperatorManifest,\* what operator.yaml says of the timer, the limit and CUDA
    GivenTrees,      \* bound: registries, as <<referenceDir, candidateDir>>
    GivenSuites,     \* bound: suite files
    GivenCommands,   \* bound: command lines
    MaxChanges       \* bound: changes between a run and its resume

CpuOnly == {o \in OperatorName : ~OperatorManifest[o].cuda}

\* a suite names at least one seed and none twice (suite.py); the seeds of a command
\* are any integers
ASSUME RunPlanningAssumption ==
    /\ \A o \in OperatorName, edition \in {"given", "edited"} :
          IsFiniteSet(DOMAIN CaseTags[o][edition])
    /\ GivenTrees \subseteq [OperatorName -> DirState]
                              \X [OperatorName -> [CandidateName -> DirState]]
    /\ \A s \in GivenSuites :
          s.is = "suite" /\ s.seeds \in Seq(Int) \ {<<>>} /\ IsInjective(s.seeds)
    /\ \A c \in GivenCommands : c.seeds \in Seq(Int)
    /\ MaxChanges \in Nat

VARIABLES
    suite,           \* the suite file
    command,         \* the command line of the run
    environment,     \* version of what the fingerprint of the environment is made of
    planned,         \* the plan of the run, or why there is none
    resumed,         \* the plan of the resume, likewise
    manifests,       \* what the run wrote down of the evaluations it registered
    ranCode,         \* the code the entry points had when the run was planned
    changes          \* what has changed since

planningVars == <<referenceDir, candidateDir, source, suite, command, environment,
                  planned, resumed, manifests, ranCode, changes>>

PlanningInit ==
    /\ referenceDir = [o \in OperatorName |-> "absent"]
    /\ candidateDir = [o \in OperatorName |-> [c \in CandidateName |-> "absent"]]
    /\ source = [o \in OperatorName |->
                    [i \in Implementation |-> [hashed |-> 1, excluded |-> 1]]]
    /\ suite = [is |-> "none"]
    /\ command = [is |-> "none"]
    /\ environment = 1
    /\ planned = [is |-> "none"]
    /\ resumed = [is |-> "none"]
    /\ manifests = {}
    /\ ranCode = <<>>
    /\ changes = {}

GiveProject ==
    /\ suite.is = "none"
    /\ \E tree \in GivenTrees :
          referenceDir' = tree[1] /\ candidateDir' = tree[2]
    /\ suite' \in GivenSuites
    /\ command' \in GivenCommands
    /\ UNCHANGED <<source, environment, planned, resumed, manifests, ranCode, changes>>

-----------------------------------------------------------------------------
(* resolve_evaluation_config.  A setting that may be zero (a limit, a warm-up,  *)
(* a time-out) is looked for with "is not None" in each layer.                *)
Unset == "unset"
NoLimit == -1

(* A mutant of Layered: "or", for which zero is not set.                       *)
Falsy(cli, fromSuite, fromManifest) ==
    CASE cli \notin {NoLimit, 0} -> cli
      [] cli \in {NoLimit, 0} /\ fromSuite \notin {NoLimit, 0} -> fromSuite
      [] OTHER -> fromManifest

Layered(cli, fromSuite, fromManifest) ==
    CASE cli # NoLimit -> cli
      [] cli = NoLimit /\ fromSuite # NoLimit -> fromSuite
      [] OTHER -> fromManifest

(* The timer, like every setting that is a word, with "or".                    *)
Resolved(o, cli, fromSuite) ==
    [mode |-> IF cli.mode # Unset THEN cli.mode ELSE fromSuite.mode,
     seeds |-> IF cli.seeds # <<>> THEN cli.seeds ELSE fromSuite.seeds,
     timer |-> CASE cli.timer # Unset -> cli.timer
                 [] cli.timer = Unset /\ fromSuite.timer # Unset -> fromSuite.timer
                 [] OTHER -> OperatorManifest[o].timer,
     limit |-> Layered(cli.limit, fromSuite.limit, OperatorManifest[o].limit)]

-----------------------------------------------------------------------------
(* select_operators, select_candidates and select_cases.  A pattern is a name     *)
(* here, and no pattern selects all.                                         *)
Passes(name, patterns) == patterns = {} \/ name \in patterns

SelectedOperators(cli, fromSuite) ==
    {o \in Discovered :
        /\ Passes(o, fromSuite.operators) /\ Passes(o, cli.operators)
        /\ o \notin fromSuite.excluded \cup cli.excluded}

(* A candidate the command names need not be one of the suite's.              *)
SelectedCandidates(o, cli, fromSuite) ==
    {c \in Candidates(o) :
        IF cli.candidates # {} THEN c \in cli.candidates ELSE Passes(c, fromSuite.candidates)}

SelectedCases(tagged, cases, tags, fromSuite) ==
    {k \in DOMAIN tagged :
        /\ Passes(k, cases)
        /\ fromSuite.tags # {} => tagged[k] \cap fromSuite.tags # {}
        /\ tags # {} => tagged[k] \cap tags # {}}

(* load_operator_cases: what the operator's spec says, run from its reference.   *)
CasesOfCode(o, version) == CaseTags[o][IF version = 1 THEN "given" ELSE "edited"]
SpecCases(o) == CasesOfCode(o, RunningCode(o, Reference))

(* The jobs of one evaluation.  Each has the result ID of its operator,          *)
(* candidate, case and seed, and the evaluation: a seed that is given twice     *)
(* would give one ID twice.                                                  *)
JobsOf(o, c, cases, config) ==
    {[operator |-> o, candidate |-> c, case |-> k, seed |-> s, config |-> config] :
        k \in cases, s \in Range(config.seeds)}

RefusedPlan == [is |-> "refused"]

(* PlanBuilder.build, with the checks of build_execution_plan before it.  The     *)
(* configuration is resolved and the cases are loaded for each operator.      *)
BuildPlan ==
    LET operators == SelectedOperators(command, suite)
        picked == [o \in operators |-> SelectedCandidates(o, command, suite)]
        pairs == UNION {{o} \X picked[o] : o \in operators}
        cases(o) == SelectedCases(SpecCases(o), command.cases, command.tags, suite)
        config(o) == Resolved(o, command, suite)
        refused ==
            \/ operators = {}
            \/ SelectedHaveIssues(operators, command.candidates)
            \/ \E o \in operators : picked[o] = {}
            \/ command.evaluation # Unset /\ Cardinality(pairs) # 1
            \/ \E o \in operators :
                  \/ cases(o) = {}
                  \/ ~IsInjective(config(o).seeds)
                  \/ /\ o \in CpuOnly
                     /\ config(o).mode # "correctness" /\ config(o).timer # "wall_clock"
    IN /\ suite.is # "none"
       /\ planned.is = "none"
       /\ planned' = IF refused THEN RefusedPlan
                     ELSE [is |-> "plan",
                           jobs |-> UNION {JobsOf(pair[1], pair[2], cases(pair[1]),
                                                  config(pair[1])) : pair \in pairs}]
       /\ ranCode' = [o \in OperatorName |-> [i \in Implementation |-> RunningCode(o, i)]]
       /\ UNCHANGED <<treeVars, suite, command, environment, resumed, manifests, changes>>

PairsOf(jobs) == {<<j.operator, j.candidate>> : j \in jobs}
RegisteredPairs == {<<m.operator, m.candidate>> : m \in manifests}

(* The order of plan.jobs, which the first loop of execute_plan goes along: by    *)
(* name, which is the order of the directories for names of one case.        *)
IsBefore(p, q) ==
    LET o(pair) == Position(OperatorOrder, pair[1])
        c(pair) == Position(CandidateOrder, pair[2])
    IN o(p) < o(q) \/ (o(p) = o(q) /\ c(p) < c(q))

(* execute_plan initializes and registers one evaluation after another, from what *)
(* was read for the plan.  A run that is interrupted has registered some of them. *)
RegisterEvaluation ==
    /\ planned.is = "plan"
    /\ changes = {} /\ resumed.is = "none"
    /\ \E j \in planned.jobs :
          /\ <<j.operator, j.candidate>> \notin RegisteredPairs
          /\ \A pair \in PairsOf(planned.jobs) \ RegisteredPairs :
                ~IsBefore(pair, <<j.operator, j.candidate>>)
          /\ manifests' = manifests \cup
                {[operator |-> j.operator, candidate |-> j.candidate, config |-> j.config,
                  hash |-> SourceHash(j.operator, j.candidate),
                  reference |-> SourceHash(j.operator, Reference),
                  environment |-> environment, command |-> command]}
    /\ UNCHANGED <<treeVars, suite, command, environment, planned, resumed, ranCode, changes>>

-----------------------------------------------------------------------------
(* What users do to the project before they resume.                           *)
Change(what) ==
    /\ manifests # {}
    /\ resumed.is = "none"
    /\ Cardinality(changes) < MaxChanges
    /\ changes' = changes \cup {what}
    /\ UNCHANGED <<command, planned, resumed, manifests, ranCode>>

ChangeSource ==
    /\ \E o \in OperatorName, i \in Implementation, part \in {"hashed", "excluded"} :
          EditSource(o, i, part)
    /\ Change("source")
    /\ UNCHANGED <<suite, environment>>

RemoveCandidate ==
    /\ \E o \in OperatorName, c \in CandidateName :
          /\ candidateDir[o][c] # "absent"
          /\ candidateDir' = [candidateDir EXCEPT ![o][c] = "absent"]
    /\ Change("candidates")
    /\ UNCHANGED <<referenceDir, source, suite, environment>>

EditSuite ==
    /\ suite' \in GivenSuites \ {suite}
    /\ Change("suite")
    /\ UNCHANGED <<treeVars, environment>>

ChangeEnvironment ==
    /\ environment' = environment + 1
    /\ Change("environment")
    /\ UNCHANGED <<treeVars, suite>>

-----------------------------------------------------------------------------
(* A mutant of IsCompatible: the hashes are not compared.                      *)
IsSameEnvironment(m) ==
    /\ m.operator \in References
    /\ m.candidate \in Candidates(m.operator)
    /\ m.environment = environment

(* The checks of build_resume_plan on each manifest.                          *)
IsCompatible(m) ==
    /\ m.operator \in References
    /\ m.candidate \in Candidates(m.operator)
    /\ m.reference = SourceHash(m.operator, Reference)
    /\ m.hash = SourceHash(m.operator, m.candidate)
    /\ m.environment = environment

(* _resume_selectors sees --case and --tag, and not what argparse takes for     *)
(* them: an unambiguous prefix.                                             *)
CasesOf(m) == IF m.command.abbreviates THEN {} ELSE m.command.cases
TagsOf(m) == IF m.command.abbreviates THEN {} ELSE m.command.tags

(* build_resume_plan: the evaluations are those of run_index.csv, and the cases   *)
(* of each are selected anew.                                                *)
BuildResumePlan ==
    LET cases(m) == SelectedCases(SpecCases(m.operator), CasesOf(m), TagsOf(m), suite)
        refused == \E m \in manifests :
                       \/ ~IsCompatible(m)
                       \/ OperatorHasIssue(m.operator)
                       \/ cases(m) = {}
    IN /\ manifests # {}
       /\ resumed.is = "none"
       /\ resumed' =
             IF refused THEN RefusedPlan
             ELSE [is |-> "plan",
                   jobs |-> UNION {JobsOf(m.operator, m.candidate, cases(m), m.config) :
                                      m \in manifests}]
       /\ UNCHANGED <<treeVars, suite, command, environment, planned, manifests, ranCode, changes>>

PlanningNext ==
    \/ GiveProject
    \/ BuildPlan
    \/ RegisterEvaluation
    \/ ChangeSource
    \/ RemoveCandidate
    \/ EditSuite
    \/ ChangeEnvironment
    \/ BuildResumePlan

PlanningSpec == PlanningInit /\ [][PlanningNext]_planningVars

-----------------------------------------------------------------------------
PlanningTypeOK ==
    LET Edition == [hashed : Nat, excluded : Nat]
        IsConfig(c) == /\ c.seeds \in Seq(Int) /\ c.limit \in Int
                       /\ {"mode", "seeds", "timer", "limit"} = DOMAIN c
        IsPlan(p) ==
            \/ p \in [is : {"none", "refused"}]
            \/ p.is = "plan" /\ \A j \in p.jobs :
                  /\ j.operator \in OperatorName /\ j.candidate \in CandidateName
                  /\ \E version \in 1..2 : j.case \in DOMAIN CasesOfCode(j.operator, version)
                  /\ j.seed \in Range(j.config.seeds) /\ IsConfig(j.config)
    IN /\ referenceDir \in [OperatorName -> DirState]
       /\ candidateDir \in [OperatorName -> [CandidateName -> DirState]]
       /\ source \in [OperatorName -> [Implementation -> Edition]]
       /\ suite \in GivenSuites \/ suite = [is |-> "none"]
       /\ command \in GivenCommands \/ command = [is |-> "none"]
       /\ environment \in Nat
       /\ IsPlan(planned) /\ IsPlan(resumed)
       /\ \A m \in manifests :
             /\ m.operator \in OperatorName /\ m.candidate \in CandidateName
             /\ {m.hash, m.reference, m.environment} \subseteq Nat
             /\ m.command = command /\ IsConfig(m.config)
       /\ ranCode = <<>> \/ ranCode \in [OperatorName -> [Implementation -> Nat]]
       /\ changes \subseteq {"source", "candidates", "suite", "environment"}

ClaimsOfOthers == {o \in OperatorName : referenceDir[o] = "declares other"}
          \cup {c \in CandidateName : \E o \in OperatorName :
                                        candidateDir[o][c] = "declares other"}

(* What the command names is there and in order, and nobody declares the ID of   *)
(* another.                                                                  *)
NamedIsClean ==
    /\ command.operators \in (SUBSET OperatorName) \ {{}}
    /\ command.candidates \in (SUBSET CandidateName) \ {{}}
    /\ ClaimsOfOthers = {}
    /\ \A o \in command.operators :
          /\ ~HasTwin(o, PresentReferences) /\ ~HasTwin(o, CandidateRoots)
          /\ \A c \in command.candidates :
                /\ IsSound(referenceDir[o]) /\ IsSound(candidateDir[o][c])
                /\ ~HasTwin(c, Present(o))

(* Both the suite and the command let an operator pass.                         *)
IsLetIn(o) ==
    /\ suite.operators # {} => o \in suite.operators
    /\ command.operators # {} => o \in command.operators
    /\ o \notin suite.excluded /\ o \notin command.excluded

(* A case has a name the command gave, and a tag of every set that was given.     *)
IsAsked(tagged, k) ==
    /\ command.cases # {} => k \in command.cases
    /\ \A tags \in {command.tags, suite.tags} \ {{}} : tagged[k] \cap tags # {}

(* What the suite names is a default for the candidates of a command that names   *)
(* none.                                                                     *)
IsWanted(o, c) ==
    /\ IsLetIn(o)
    /\ IF command.candidates # {} THEN c \in command.candidates
       ELSE suite.candidates # {} => c \in suite.candidates

(* The configuration of the nearest layer that gives a limit, zero included.     *)
NearestLimit(o) ==
    CASE command.limit # NoLimit -> command.limit
      [] command.limit = NoLimit /\ suite.limit # NoLimit -> suite.limit
      [] OTHER -> OperatorManifest[o].limit

(* A plan holds a job for exactly the cases the command and the suite ask for of  *)
(* every implementation they want that is in the registry: no directory that    *)
(* is there and wanted is left out, because it is wrong or for any other reason, *)
(* and nobody is mistaken for another on any file system.  Each evaluation has   *)
(* as many jobs as it has cases and seeds, with the nearest layer of             *)
(* configuration.  What is wrong elsewhere in the registry refuses no plan of    *)
(* what is in order.                                                          *)
PlanIsScoped ==
    /\ planned.is = "plan" /\ changes = {} =>
          /\ PairsOf(planned.jobs) =
                {pair \in OperatorName \X CandidateName :
                    pair[2] \in Present(pair[1]) /\ IsWanted(pair[1], pair[2])}
          /\ \A pair \in PairsOf(planned.jobs) :
                LET tagged == SpecCases(pair[1])
                    jobs == {j \in planned.jobs :
                                j.operator = pair[1] /\ j.candidate = pair[2]}
                    asked == {k \in DOMAIN tagged : IsAsked(tagged, k)}
                IN /\ {j.case : j \in jobs} = asked
                   /\ \A j \in jobs :
                         /\ j.config.limit = NearestLimit(pair[1])
                         /\ Cardinality(jobs) = Cardinality(asked) * Len(j.config.seeds)
                   /\ IsSound(referenceDir[pair[1]])
                   /\ IsSound(candidateDir[pair[1]][pair[2]])
                   /\ ~HasTwin(pair[1], PresentReferences) /\ ~HasTwin(pair[1], CandidateRoots)
                   /\ ~HasTwin(pair[2], Present(pair[1]))
    /\ planned.is = "refused" /\ NamedIsClean =>
          \/ ~IsInjective(command.seeds)
          \/ command.operators \cap CpuOnly # {} /\ command.timer # "wall_clock"
          \/ /\ command.evaluation # Unset
             /\ ~\E o, c : command.operators = {o} /\ command.candidates = {c}
          \/ \A o \in command.operators : ~IsLetIn(o)
          \/ \E o \in command.operators :
                \A k \in DOMAIN SpecCases(o) : ~IsAsked(SpecCases(o), k)

(* The code of an implementation is that of the run.                            *)
IsSameCode(o, i) == RunningCode(o, i) = ranCode[o][i]

(* A resume that is planned runs the evaluations the run has registered, and no    *)
(* other: the ones an early interruption left unregistered are lost.  It runs   *)
(* their code, in their environment and with their configuration, unless the    *)
(* entry point lies in a directory the hash leaves out; and each has the same   *)
(* jobs, unless the suite has changed, the command abbreviated an option, or     *)
(* the spec is one of the entry points the hash leaves out.  It is refused only  *)
(* when something changed.                                                    *)
ResumeIsFaithful ==
    /\ resumed.is = "plan" =>
          /\ "environment" \notin changes
          /\ PairsOf(resumed.jobs) = RegisteredPairs
          /\ RegisteredPairs \subseteq PairsOf(planned.jobs)
          /\ \A pair \in RegisteredPairs :
                LET jobs(plan) == {j \in plan.jobs :
                                      j.operator = pair[1] /\ j.candidate = pair[2]}
                IN /\ \A i \in {pair[2], Reference} :
                         IsSameCode(pair[1], i) \/ StateOf(pair[1], i) = "excluded"
                   /\ \A j \in jobs(planned), k \in jobs(resumed) : k.config = j.config
                   /\ \/ "suite" \in changes \/ command.abbreviates
                      \/ ~IsSameCode(pair[1], Reference)
                      \/ jobs(resumed) = jobs(planned)
    /\ resumed.is = "refused" => changes # {}
=============================================================================
