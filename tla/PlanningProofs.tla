--------------------------- MODULE PlanningProofs ---------------------------
(***************************************************************************)
(* Proofs about the way from a project and a command line to jobs, for any  *)
(* registry, suite and command line.  Of a setting: what the layers and the *)
(* plan let through is never refused by the worker or by the code that uses *)
(* it, and is what the highest layer that gives it says.  Of a plan: its    *)
(* jobs are of sound implementations within the selection, and what is      *)
(* refused is refused for a reason.  Of a resume: it runs the code, the     *)
(* configuration and the environment of the run, or is refused.             *)
(***************************************************************************)
EXTENDS RunPlanning, Settings, TLAPS, FiniteSetTheorems

-----------------------------------------------------------------------------
(* The way of a setting.  A layer that was read says nothing of it, or what its *)
(* checks let through.                                                       *)
SettingPlace ==
    {"manifest", "suite", "command", "resolve", "request", "use", "used", "refused"}

SettingTypes ==
    /\ setting \in Setting \cup {"none"}
    /\ settingAt \in SettingPlace
    /\ asked \in [Layer -> SettingValue \cup {Absent}]
    /\ setting = "none" => settingAt = "manifest" /\ \A l \in Layer : asked[l] = Absent

LayerTakes(l, s, v) ==
    \/ l = "manifest" /\ ManifestTakes(s, v)
    \/ l = "suite" /\ SuiteTakes(s, v)
    \/ l = "command" /\ CommandTakes(s, v)

LayersTaken ==
    settingAt # "refused" =>
        \A l \in Layer : asked[l] = Absent \/ LayerTakes(l, setting, asked[l])

ConfigFits ==
    /\ settingAt \in {"request", "use", "used"} =>
          config = Resolve(setting) /\ ConfigTakes(setting, config.is)
    /\ settingAt = "used" => used = Passed(setting, config.is)

SettingInv == SettingTypes /\ LayersTaken /\ ConfigFits

-----------------------------------------------------------------------------
(* Whatever one of the layers lets through, and every default, is good enough   *)
(* for the request and for its consumer, if it is for the plan.                *)
LEMMA TakenIsUsable ==
  ASSUME NEW s \in Setting, NEW v,
         (\E l \in Layer : LayerTakes(l, s, v)) \/ v = SettingDefault(s),
         ConfigTakes(s, v)
  PROVE  RequestTakes(s, v) /\ ConsumerTakes(s, Passed(s, v))
<1>1. ManifestTakes(s, v) \/ SuiteTakes(s, v) \/ CommandTakes(s, v) \/ v = SettingDefault(s)
  BY DEF LayerTakes
<1>2. CASE s \in CountSettings
  BY <1>1, <1>2 DEF CountSettings, NumberSettings, BoundSettings, NameSettings, FlagSettings,
     ManifestTakes, SuiteTakes, CommandTakes, SettingDefault, ConfigTakes, RequestTakes,
     ConsumerTakes, Passed, Whole
<1>3. CASE s = "warmup" \/ s = "max_memory_bytes"
  BY <1>1, <1>3 DEF CountSettings, NumberSettings, BoundSettings, NameSettings, FlagSettings,
     ManifestTakes, SuiteTakes, CommandTakes, SettingDefault, ConfigTakes, RequestTakes,
     ConsumerTakes, Passed, Whole, Size
<1>4. CASE s \in NumberSettings
  BY <1>1, <1>4 DEF CountSettings, NumberSettings, BoundSettings, NameSettings, FlagSettings,
     ManifestTakes, SuiteTakes, CommandTakes, SettingDefault, ConfigTakes, RequestTakes,
     ConsumerTakes, Passed, Whole, Size
<1>5. CASE s \in BoundSettings
  BY <1>1, <1>5 DEF CountSettings, NumberSettings, BoundSettings, NameSettings, FlagSettings,
     ManifestTakes, SuiteTakes, CommandTakes, SettingDefault, ConfigTakes, RequestTakes,
     ConsumerTakes, Passed, Whole, Size
<1>6. CASE s \in NameSettings
  BY <1>1, <1>6 DEF CountSettings, NumberSettings, BoundSettings, NameSettings, FlagSettings,
     ManifestTakes, SuiteTakes, CommandTakes, SettingDefault, ConfigTakes, RequestTakes,
     ConsumerTakes, Passed
<1>7. CASE s \in FlagSettings
  BY <1>1, <1>7 DEF CountSettings, NumberSettings, BoundSettings, NameSettings, FlagSettings,
     ManifestTakes, SuiteTakes, CommandTakes, SettingDefault, ConfigTakes, RequestTakes,
     ConsumerTakes, Passed
<1> QED
  BY <1>2, <1>3, <1>4, <1>5, <1>6, <1>7 DEF Setting

(* Resolve takes what the command, else the suite, else the manifest says: a zero *)
(* or a false that a layer lets through is given, where "or" would not see it.  *)
LEMMA GivenIsSet ==
  ASSUME SettingTypes, LayersTaken, settingAt # "refused", setting \in Setting,
         NEW l \in {"suite", "command"}
  PROVE  Sets(setting, l) <=> asked[l] # Absent
<1>1. l \in Layer /\ (asked[l] = Absent \/ LayerTakes(l, setting, asked[l]))
  BY DEF LayersTaken, Layer
<1>2. CASE ~UsesOr(setting, l)
  BY <1>2 DEF Sets
<1>3. CASE asked[l] = Absent
  BY <1>3 DEF Sets, IsTruthy
<1>4. CASE UsesOr(setting, l) /\ SuiteTakes(setting, asked[l])
  BY <1>4 DEF UsesOr, Sets, IsTruthy, SuiteTakes, NameSettings, CountSettings, NumberSettings,
     BoundSettings, FlagSettings, Absent
<1>5. CASE UsesOr(setting, l) /\ l = "command" /\ CommandTakes(setting, asked[l])
  BY <1>5 DEF UsesOr, Sets, IsTruthy, CommandTakes, NameSettings, CountSettings, NumberSettings,
     BoundSettings, FlagSettings, Absent
<1> QED
  BY <1>1, <1>2, <1>3, <1>4, <1>5 DEF LayerTakes

LEMMA ResolvedIsTaken ==
  ASSUME SettingTypes, LayersTaken, settingAt # "refused", setting \in Setting
  PROVE  LET v == Resolve(setting).is
         IN (\E l \in Layer : LayerTakes(l, setting, v)) \/ v = SettingDefault(setting)
<1>1. \A l \in Layer : asked[l] # Absent => LayerTakes(l, setting, asked[l])
  BY DEF LayersTaken
<1>2. /\ Sets(setting, "command") <=> asked["command"] # Absent
      /\ Sets(setting, "suite") <=> asked["suite"] # Absent
  BY GivenIsSet
<1>3. CASE Sets(setting, "command")
  BY <1>1, <1>2, <1>3 DEF Resolve, Layer
<1>4. CASE ~Sets(setting, "command") /\ Sets(setting, "suite")
  BY <1>1, <1>2, <1>4 DEF Resolve, Layer
<1>5. CASE ~Sets(setting, "command") /\ ~Sets(setting, "suite")
  BY <1>1, <1>5 DEF Resolve, Layer
<1> QED
  BY <1>3, <1>4, <1>5

-----------------------------------------------------------------------------
LEMMA SettingInitInv == SettingInit => SettingInv
BY DEF SettingInit, SettingInv, SettingTypes, SettingPlace, LayersTaken, ConfigFits, Layer

(* A layer is read, and what it says is refused or let through.                 *)
LEMMA ReadStep ==
  ASSUME SettingInv, ReadManifest \/ ReadSuite \/ ParseCommand
  PROVE  SettingInv'
<1>0. SettingTypes /\ LayersTaken
  BY DEF SettingInv
<1>1. PICK l \in Layer, next \in {"suite", "command", "resolve"}, v \in SettingValue \cup {Absent} :
         /\ settingAt = l /\ setting # "none"
         /\ asked' = [asked EXCEPT ![l] = v]
         /\ \/ settingAt' = next /\ (v = Absent \/ LayerTakes(l, setting, v))
            \/ settingAt' = "refused"
         /\ setting' = setting
  <2>1. CASE ReadManifest
    BY <2>1 DEF ReadManifest, Read, Layer, LayerTakes
  <2>2. CASE ReadSuite
    BY <2>2 DEF ReadSuite, Read, Layer, LayerTakes
  <2>3. CASE ParseCommand
    BY <2>3 DEF ParseCommand, Read, Layer, LayerTakes
  <2> QED
    BY <2>1, <2>2, <2>3
<1>2. settingAt # "refused" /\ settingAt' \in SettingPlace
  BY <1>1 DEF Layer, SettingPlace
<1>3. /\ asked' \in [Layer -> SettingValue \cup {Absent}]
      /\ asked'[l] = v /\ \A k \in Layer \ {l} : asked'[k] = asked[k]
  BY <1>0, <1>1 DEF SettingTypes
<1>4. SettingTypes'
  BY <1>0, <1>1, <1>2, <1>3 DEF SettingTypes
<1>5. LayersTaken'
  BY <1>0, <1>1, <1>2, <1>3 DEF LayersTaken
<1>6. ConfigFits'
  BY <1>1 DEF ConfigFits
<1> QED
  BY <1>4, <1>5, <1>6 DEF SettingInv

(* From then on the layers stay what they are, and so does what Resolve makes of *)
(* them.                                                                     *)
LEMMA ResolveStep ==
  ASSUME SettingInv, Follow \/ ResolveConfig \/ ReadRequest \/ UseSetting
  PROVE  SettingInv'
<1>0. SettingTypes /\ LayersTaken /\ ConfigFits
  BY DEF SettingInv
<1>1. CASE Follow
  BY <1>0, <1>1 DEF Follow, SettingInv, SettingTypes, SettingPlace, LayersTaken, ConfigFits
<1>2. CASE ResolveConfig
  <2>1. /\ setting' = setting /\ asked' = asked /\ settingAt = "resolve"
        /\ settingAt' \in {"request", "refused"}
        /\ settingAt' = "request" =>
              config' = Resolve(setting) /\ ConfigTakes(setting, Resolve(setting).is)
    BY <1>2 DEF ResolveConfig
  <2>2. Resolve(setting)' = Resolve(setting)
    BY <2>1 DEF Resolve, Sets
  <2>3. SettingTypes'
    BY <1>0, <2>1 DEF SettingTypes, SettingPlace
  <2>4. LayersTaken'
    BY <1>0, <2>1 DEF LayersTaken
  <2>5. ConfigFits'
    BY <2>1, <2>2 DEF ConfigFits
  <2> QED
    BY <2>3, <2>4, <2>5 DEF SettingInv
<1>3. ASSUME settingAt \in {"request", "use"}
      PROVE  /\ setting \in Setting
             /\ RequestTakes(setting, config.is)
             /\ ConsumerTakes(setting, Passed(setting, config.is))
  <2>1. setting \in Setting /\ settingAt # "refused"
    BY <1>0, <1>3 DEF SettingTypes
  <2>2. config = Resolve(setting) /\ ConfigTakes(setting, config.is)
    BY <1>0, <1>3 DEF ConfigFits
  <2> QED
    BY <1>0, <2>1, <2>2, ResolvedIsTaken, TakenIsUsable
<1>4. CASE ReadRequest \/ UseSetting
  <2>1. /\ setting' = setting /\ asked' = asked /\ config' = config
        /\ settingAt \in {"request", "use"} /\ settingAt' \in {"use", "used"}
        /\ settingAt' = "used" => used' = Passed(setting, config.is)
    BY <1>0, <1>3, <1>4 DEF ReadRequest, UseSetting, ConfigFits
  <2>2. Resolve(setting)' = Resolve(setting)
    BY <2>1 DEF Resolve, Sets
  <2>3. SettingTypes'
    BY <1>0, <2>1 DEF SettingTypes, SettingPlace
  <2>4. LayersTaken'
    BY <1>0, <2>1 DEF LayersTaken
  <2>5. ConfigFits'
    BY <1>0, <2>1, <2>2 DEF ConfigFits
  <2> QED
    BY <2>3, <2>4, <2>5 DEF SettingInv
<1> QED
  BY <1>1, <1>2, <1>4

-----------------------------------------------------------------------------
(* Whatever was read, every layer that was passed let it through, and what is   *)
(* configured and used is what Resolve makes of the layers.                    *)
THEOREM SettingInvariant == SettingSpec => []SettingInv
<1>1. SettingInv /\ UNCHANGED settingVars => SettingInv'
  BY DEF settingVars, SettingInv, SettingTypes, LayersTaken, ConfigFits, Resolve, Sets
<1>2. SettingInv /\ [SettingNext]_settingVars => SettingInv'
  BY <1>1, ReadStep, ResolveStep DEF SettingNext
<1> QED
  BY <1>2, SettingInitInv, PTL DEF SettingSpec

(* For every setting and whatever each layer says of it: what the checks of the  *)
(* manifest, of the suite, of the command (registry/validation.py, suite.py,    *)
(* cli.py) and of the plan (ResolvedEvaluationConfig) let through is refused     *)
(* neither by the worker's request nor by its consumer, and is what the highest *)
(* layer that gives it says, a zero, a false and a lifted bound included.       *)
THEOREM SettingsStayUsable == SettingSpec => []SettingsAreUsable
<1>1. ASSUME SettingInv PROVE SettingsAreUsable
  <2>0. SettingTypes /\ LayersTaken /\ ConfigFits
    BY <1>1 DEF SettingInv
  <2>1. settingAt # "broken"
    BY <2>0 DEF SettingTypes, SettingPlace
  <2> DEFINE given == {l \in Layer : asked[l] # Absent}
             highest == CHOOSE l \in given : \A k \in given \ {l} : Outranks(l, k)
             wanted == IF given = {} THEN SettingDefault(setting) ELSE asked[highest]
  <2>2. SUFFICES ASSUME settingAt = "used"
                 PROVE  IF wanted = "null" THEN used \in {"null", "unbounded"} ELSE used = wanted
    BY <2>1 DEF SettingsAreUsable
  <2>3. setting \in Setting
    BY <2>0, <2>2 DEF SettingTypes
  <2>4. /\ Sets(setting, "command") <=> asked["command"] # Absent
        /\ Sets(setting, "suite") <=> asked["suite"] # Absent
    BY <2>0, <2>2, <2>3, GivenIsSet
  <2>5. used = Passed(setting, Resolve(setting).is)
    BY <2>0, <2>2 DEF ConfigFits
  <2>6. Resolve(setting).is = wanted
    <3>1. CASE asked["command"] # Absent
      <4>1. highest = "command"
        BY <3>1 DEF Layer, Outranks
      <4>2. given # {}
        BY <3>1 DEF Layer
      <4> QED
        BY <2>4, <3>1, <4>1, <4>2 DEF Resolve
    <3>2. CASE asked["command"] = Absent /\ asked["suite"] # Absent
      <4>1. highest = "suite"
        BY <3>2 DEF Layer, Outranks
      <4>2. given # {}
        BY <3>2 DEF Layer
      <4> QED
        BY <2>4, <3>2, <4>1, <4>2 DEF Resolve
    <3>3. CASE asked["command"] = Absent /\ asked["suite"] = Absent /\ asked["manifest"] # Absent
      <4>1. given = {"manifest"}
        BY <3>3 DEF Layer
      <4>2. highest = "manifest"
        BY <4>1
      <4> QED
        BY <2>4, <3>3, <4>1, <4>2 DEF Resolve
    <3>4. CASE \A l \in Layer : asked[l] = Absent
      BY <2>4, <3>4 DEF Resolve, Layer
    <3> QED
      BY <3>1, <3>2, <3>3, <3>4 DEF Layer
  <2> QED
    BY <2>5, <2>6 DEF Passed
<1> QED
  BY <1>1, SettingInvariant, PTL

-----------------------------------------------------------------------------
(* A run and its resume.  The phases come in order: nothing is written down     *)
(* before a plan, changes and a resume come after that.                        *)
PhasesFit ==
    /\ suite.is \in {"none", "suite"}
    /\ planned.is \in {"none", "refused", "plan"}
    /\ resumed.is \in {"none", "refused", "plan"}
    /\ suite.is = "none" => planned.is = "none"
    /\ planned.is # "plan" => manifests = {}
    /\ manifests = {} => changes = {} /\ resumed.is = "none"
    /\ suite.is = "suite" =>
          /\ suite.seeds \in Seq(Int) \ {<<>>}
          /\ IsInjective(suite.seeds)
          /\ command.seeds \in Seq(Int)
    /\ environment \in Nat
    /\ candidateDir \in [OperatorName -> [CandidateName -> DirState]]

(* What a plan of these pairs holds, of the code the run was planned with.       *)
PlannedCases(o) ==
    SelectedCases(CasesOfCode(o, ranCode[o][Reference]), command.cases, command.tags, suite)

JobsOfPairs(pairs) ==
    UNION {JobsOf(pair[1], pair[2], PlannedCases(pair[1]), Resolved(pair[1], command, suite)) :
              pair \in pairs}

JobsAt(jobs, pair) == {j \in jobs : j.operator = pair[1] /\ j.candidate = pair[2]}

WantedPairs ==
    {pair \in OperatorName \X CandidateName :
        pair[2] \in Present(pair[1]) /\ IsWanted(pair[1], pair[2])}

PairInScope(pair) ==
    /\ pair[2] \in Candidates(pair[1])
    /\ ~OperatorHasIssue(pair[1]) /\ ~CandidateHasIssue(pair[1], pair[2])
    /\ PlannedCases(pair[1]) # {}
    /\ Resolved(pair[1], command, suite).seeds \in Seq(Int) \ {<<>>}
    /\ IsInjective(Resolved(pair[1], command, suite).seeds)

(* The jobs of a plan are those of the pairs that are wanted, for as long as      *)
(* nothing changes; those of some pairs until the suite does; and a job has the  *)
(* configuration of its pair for ever.                                        *)
PlanFits ==
    planned.is = "plan" =>
        /\ changes = {} => /\ planned.jobs = JobsOfPairs(WantedPairs)
                           /\ \A pair \in WantedPairs : PairInScope(pair)
        /\ "suite" \notin changes => \E pairs : planned.jobs = JobsOfPairs(pairs)
        /\ \A j \in planned.jobs :
              /\ j.operator \in OperatorName /\ j.candidate \in CandidateName
              /\ j.seed \in Range(j.config.seeds)
        /\ \A j, k \in planned.jobs :
              j.operator = k.operator /\ j.candidate = k.candidate => j.config = k.config

(* The code of a run is that of its plan until something changes.               *)
CodeFits ==
    planned.is = "plan" /\ changes = {} =>
        \A o \in OperatorName, i \in Implementation : ranCode[o][i] = RunningCode(o, i)

(* A manifest is that of a job, and holds what was hashed.  An entry point that is *)
(* hashed ran that code.                                                      *)
ManifestFits(m) ==
    /\ m.operator \in OperatorName /\ m.candidate \in CandidateName
    /\ m.command = command
    /\ m.environment \in Nat /\ m.environment <= environment
    /\ "environment" \in changes <=> m.environment # environment
    /\ changes = {} => /\ m.hash = SourceHash(m.operator, m.candidate)
                       /\ m.reference = SourceHash(m.operator, Reference)
    /\ StateOf(m.operator, m.candidate) \notin {"absent", "excluded"} =>
          ranCode[m.operator][m.candidate] = m.hash
    /\ StateOf(m.operator, Reference) \notin {"absent", "excluded"} =>
          ranCode[m.operator][Reference] = m.reference
    /\ \E j \in planned.jobs :
          j.operator = m.operator /\ j.candidate = m.candidate /\ j.config = m.config

ManifestsFit == \A m \in manifests : ManifestFits(m)

(* A command that names only what is in order is refused for a reason of its own. *)
OwnReason ==
    \/ ~IsInjective(command.seeds)
    \/ command.operators \cap CpuOnly # {} /\ command.timer # "wall_clock"
    \/ /\ command.evaluation # Unset
       /\ ~\E o, c : command.operators = {o} /\ command.candidates = {c}
    \/ \A o \in command.operators : ~IsLetIn(o)
    \/ \E o \in command.operators : \A k \in DOMAIN SpecCases(o) : ~IsAsked(SpecCases(o), k)

RefusalFits == planned.is = "refused" /\ NamedIsClean => OwnReason

PlanningInv ==
    PhasesFit /\ PlanFits /\ CodeFits /\ ManifestsFit /\ RefusalFits /\ ResumeIsFaithful

-----------------------------------------------------------------------------
LEMMA PlanningInitInv == PlanningInit => PlanningInv
<1> SUFFICES ASSUME PlanningInit PROVE PlanningInv
  OBVIOUS
<1>1. /\ suite.is = "none" /\ planned.is = "none" /\ resumed.is = "none"
      /\ manifests = {} /\ changes = {} /\ environment = 1
      /\ candidateDir = [o \in OperatorName |-> [c \in CandidateName |-> "absent"]]
  BY DEF PlanningInit
<1>2. PhasesFit
  BY <1>1 DEF PhasesFit, DirState
<1>3. PlanFits /\ CodeFits /\ ManifestsFit /\ RefusalFits /\ ResumeIsFaithful
  BY <1>1 DEF PlanFits, CodeFits, ManifestsFit, RefusalFits, ResumeIsFaithful
<1> QED
  BY <1>2, <1>3 DEF PlanningInv

(* What is in the registry, and what is wrong with it, depends on the directories. *)
LEMMA RegistryStays ==
  ASSUME referenceDir' = referenceDir, candidateDir' = candidateDir
  PROVE  /\ \A o : Present(o)' = Present(o)
         /\ PresentReferences' = PresentReferences /\ CandidateRoots' = CandidateRoots
         /\ \A o : Candidates(o)' = Candidates(o)
         /\ \A o : OperatorHasIssue(o)' <=> OperatorHasIssue(o)
         /\ \A o, c : CandidateHasIssue(o, c)' <=> CandidateHasIssue(o, c)
         /\ \A o, i : StateOf(o, i)' = StateOf(o, i)
<1>1. /\ \A o : Present(o)' = Present(o)
      /\ PresentReferences' = PresentReferences
  BY DEF Present, PresentReferences
<1>2. CandidateRoots' = CandidateRoots /\ \A o : HasCandidates(o)' <=> HasCandidates(o)
  BY <1>1 DEF CandidateRoots, HasCandidates
<1>3. \A o : ReferenceHasIssue(o)' <=> ReferenceHasIssue(o)
  BY DEF ReferenceHasIssue
<1>4. References' = References
  BY <1>3 DEF References
<1>5. \A o, c : CandidateIsWrong(o, c)' <=> CandidateIsWrong(o, c)
  BY DEF CandidateIsWrong
<1>6. \A o : Candidates(o)' = Candidates(o)
  BY <1>4, <1>5 DEF Candidates
<1>7. \A o : OperatorHasIssue(o)' <=> OperatorHasIssue(o)
  BY <1>1, <1>2, <1>3, <1>4 DEF OperatorHasIssue
<1>8. \A o, c : CandidateHasIssue(o, c)' <=> CandidateHasIssue(o, c)
  BY <1>1, <1>5 DEF CandidateHasIssue
<1>9. \A o, i : StateOf(o, i)' = StateOf(o, i)
  BY DEF StateOf
<1> QED
  BY <1>1, <1>2, <1>6, <1>7, <1>8, <1>9

(* What a plan holds depends on the command, on the suite and on the code it was   *)
(* planned with.                                                              *)
LEMMA JobsStay ==
  ASSUME UNCHANGED <<suite, command, ranCode>>
  PROVE  /\ \A o : PlannedCases(o)' = PlannedCases(o)
         /\ \A o : Resolved(o, command, suite)' = Resolved(o, command, suite)
         /\ \A pairs : JobsOfPairs(pairs)' = JobsOfPairs(pairs)
<1>1. \A o : PlannedCases(o)' = PlannedCases(o)
  BY DEF PlannedCases, SelectedCases
<1>2. \A o : Resolved(o, command, suite)' = Resolved(o, command, suite)
  BY DEF Resolved
<1> QED
  BY <1>1, <1>2 DEF JobsOfPairs, JobsOf

LEMMA ScopeStays ==
  ASSUME UNCHANGED <<referenceDir, candidateDir, suite, command, ranCode>>
  PROVE  /\ WantedPairs' = WantedPairs
         /\ \A pair : PairInScope(pair)' <=> PairInScope(pair)
<1>1. WantedPairs' = WantedPairs
  BY RegistryStays DEF WantedPairs, IsWanted, IsLetIn
<1>2. \A pair : PairInScope(pair)' <=> PairInScope(pair)
  BY RegistryStays, JobsStay DEF PairInScope
<1> QED
  BY <1>1, <1>2

-----------------------------------------------------------------------------
(* What is selected of a registry without issues in the scope is what is wanted.  *)
Operators == SelectedOperators(command, suite)
Pairs == UNION {{o} \X SelectedCandidates(o, command, suite) : o \in Operators}

LEMMA PairsAreWanted ==
  ASSUME ~SelectedHaveIssues(Operators, command.candidates)
  PROVE  /\ Pairs = WantedPairs
         /\ \A pair \in Pairs :
               /\ pair[1] \in Operators /\ pair[2] \in Candidates(pair[1])
               /\ ~OperatorHasIssue(pair[1]) /\ ~CandidateHasIssue(pair[1], pair[2])
<1>1. ASSUME NEW pair \in Pairs
      PROVE  /\ pair = <<pair[1], pair[2]>>
             /\ pair[1] \in Operators /\ pair[2] \in SelectedCandidates(pair[1], command, suite)
  BY DEF Pairs
<1>2. ASSUME NEW o \in Operators, NEW c \in SelectedCandidates(o, command, suite)
      PROVE  /\ o \in OperatorName /\ c \in CandidateName
             /\ c \in Candidates(o) /\ c \in Present(o) /\ IsWanted(o, c)
             /\ ~OperatorHasIssue(o) /\ ~CandidateHasIssue(o, c)
  <2>1. o \in OperatorName /\ IsLetIn(o)
    BY DEF Operators, SelectedOperators, Discovered, PresentReferences, CandidateRoots, Passes,
       IsLetIn
  <2>2. c \in Candidates(o) /\ IsWanted(o, c)
    BY <2>1 DEF SelectedCandidates, Passes, IsWanted
  <2>3. c \in CandidateName /\ c \in Present(o)
    BY <2>2 DEF Candidates, Present
  <2>4. command.candidates = {} \/ c \in command.candidates
    BY DEF SelectedCandidates
  <2>5. ~OperatorHasIssue(o) /\ ~CandidateHasIssue(o, c)
    BY <2>3, <2>4 DEF SelectedHaveIssues
  <2> QED
    BY <2>1, <2>2, <2>3, <2>5
<1>3. \A pair \in Pairs : pair \in WantedPairs
  BY <1>1, <1>2 DEF WantedPairs
<1>4. ASSUME NEW pair \in WantedPairs PROVE pair \in Pairs
  <2> DEFINE o == pair[1]
             c == pair[2]
  <2>1. /\ pair = <<o, c>> /\ o \in OperatorName /\ c \in CandidateName
        /\ c \in Present(o) /\ IsWanted(o, c)
    BY DEF WantedPairs
  <2> HIDE DEF o, c
  <2>2. o \in Operators
    BY <2>1 DEF Operators, SelectedOperators, Discovered, CandidateRoots, HasCandidates, Passes,
       IsWanted, IsLetIn
  <2>3. command.candidates = {} \/ c \in command.candidates
    BY <2>1 DEF IsWanted
  <2>4. ~OperatorHasIssue(o) /\ ~CandidateHasIssue(o, c)
    BY <2>1, <2>2, <2>3 DEF SelectedHaveIssues
  <2>5. o \in References
    BY <2>1, <2>4 DEF OperatorHasIssue, HasCandidates
  <2>6. c \in Candidates(o)
    BY <2>1, <2>4, <2>5 DEF CandidateHasIssue, Candidates, Present
  <2>7. c \in SelectedCandidates(o, command, suite)
    BY <2>1, <2>6 DEF SelectedCandidates, IsWanted, Passes
  <2> QED
    BY <2>1, <2>2, <2>7 DEF Pairs
<1>5. Pairs = WantedPairs
  <2>1. WantedPairs \subseteq Pairs /\ Pairs \subseteq WantedPairs
    BY <1>3, <1>4
  <2> QED
    BY <2>1
<1> QED
  BY <1>1, <1>2, <1>5

LEMMA OwnIdIsFirst ==
  ASSUME NEW S, NEW order \in Seq(S), IsInjective(order), NEW dir,
         NEW name \in Range(order), \A x \in Range(order) : dir[x] # "declares other"
  PROVE  ~IsDuplicate(order, dir, name)
<1> DEFINE p == Position(order, name)
<1>1. p \in DOMAIN order /\ order[p] = name
  BY DEF Position, Range
<1>2. p \in Nat /\ \A i \in 1..(p - 1) : i \in DOMAIN order
  <2>1. order \in Seq(S)
    OBVIOUS
  <2>2. DOMAIN order = 1..Len(order) /\ Len(order) \in Nat
    BY ONLY <2>1
  <2> HIDE DEF p
  <2> QED
    BY ONLY <1>1, <2>2
<1>3. \A x \in Range(order) : Declared(order, x, dir[x]) = x
  BY DEF Declared
<1> HIDE DEF p
<1>4. ASSUME NEW i \in 1..(p - 1), Declared(order, order[i], dir[order[i]]) =
                                   Declared(order, name, dir[name])
      PROVE  FALSE
  <2>1. i \in DOMAIN order /\ i # p
    <3>1. i \in 1..(p - 1)
      BY <1>4
    <3> QED
      BY ONLY <1>2, <3>1
  <2>2. order[i] \in Range(order)
    BY <2>1 DEF Range
  <2>3. order[i] = order[p]
    BY <1>1, <1>3, <1>4, <2>2
  <2> QED
    BY <1>1, <2>1, <2>3 DEF IsInjective
<1> QED
  BY <1>4 DEF IsDuplicate, p

(* An operator that is named, let in and in order is selected with the candidates  *)
(* that are named, and nothing is wrong with them.                             *)
LEMMA CleanIsPicked ==
  ASSUME NamedIsClean, NEW o \in command.operators, NEW c \in command.candidates
  PROVE  /\ IsLetIn(o) => o \in Operators
         /\ c \in SelectedCandidates(o, command, suite)
         /\ ~OperatorHasIssue(o) /\ ~CandidateHasIssue(o, c)
<1>1. /\ o \in OperatorName /\ c \in CandidateName
      /\ IsSound(referenceDir[o]) /\ IsSound(candidateDir[o][c])
      /\ ~HasTwin(o, PresentReferences) /\ ~HasTwin(o, CandidateRoots)
      /\ ~HasTwin(c, Present(o))
  BY DEF NamedIsClean
<1>2. /\ \A x \in OperatorName : referenceDir[x] # "declares other"
      /\ \A d \in CandidateName : candidateDir[o][d] # "declares other"
  BY <1>1 DEF NamedIsClean, ClaimsOfOthers
<1>3. ~IsDuplicate(OperatorOrder, referenceDir, o)
  BY <1>1, <1>2, OwnIdIsFirst, RegistryScanAssumption DEF OperatorName
<1>4. ~IsDuplicate(CandidateOrder, candidateDir[o], c)
  BY <1>1, <1>2, OwnIdIsFirst, RegistryScanAssumption DEF CandidateName
<1>5. referenceDir[o] # "absent" /\ candidateDir[o][c] # "absent"
  BY <1>1 DEF IsSound
<1>6. ~ReferenceHasIssue(o) /\ o \in References
  BY <1>1, <1>3, <1>5 DEF ReferenceHasIssue, References
<1>7. ~CandidateIsWrong(o, c) /\ c \in Candidates(o)
  BY <1>1, <1>4, <1>5, <1>6 DEF CandidateIsWrong, Candidates
<1>8. o \in Discovered
  BY <1>1, <1>5 DEF Discovered, PresentReferences
<1>9. IsLetIn(o) => o \in Operators
  BY <1>8 DEF Operators, SelectedOperators, Passes, IsLetIn
<1>10. ~OperatorHasIssue(o) /\ ~CandidateHasIssue(o, c)
  BY <1>1, <1>6, <1>7 DEF OperatorHasIssue, CandidateHasIssue
<1> QED
  BY <1>7, <1>9, <1>10 DEF SelectedCandidates

LEMMA CleanScopeIsPicked ==
  ASSUME NamedIsClean
  PROVE  /\ \A o \in Operators : o \in command.operators /\ IsLetIn(o)
         /\ \A o \in command.operators : IsLetIn(o) => o \in Operators
         /\ ~SelectedHaveIssues(Operators, command.candidates)
         /\ \A o \in Operators : SelectedCandidates(o, command, suite) = command.candidates
         /\ command.candidates # {}
<1>1. command.operators # {} /\ command.candidates # {}
  BY DEF NamedIsClean
<1>2. \A o \in Operators : o \in command.operators /\ IsLetIn(o)
  BY <1>1 DEF Operators, SelectedOperators, Passes, IsLetIn
<1>3. \A o \in Operators : SelectedCandidates(o, command, suite) = command.candidates
  <2> TAKE o \in Operators
  <2>1. \A c \in command.candidates : c \in SelectedCandidates(o, command, suite)
    BY <1>2, CleanIsPicked
  <2>2. \A c \in SelectedCandidates(o, command, suite) : c \in command.candidates
    BY <1>1 DEF SelectedCandidates
  <2> QED
    BY <2>1, <2>2
<1>4. ~SelectedHaveIssues(Operators, command.candidates)
  BY <1>1, <1>2, CleanIsPicked DEF SelectedHaveIssues
<1> QED
  BY <1>1, <1>2, <1>3, <1>4, CleanIsPicked

(* One operator and one candidate that are in order are one evaluation.           *)
LEMMA OnePairIsPicked ==
  ASSUME NamedIsClean, NEW o, NEW c, command.operators = {o}, command.candidates = {c},
         IsLetIn(o)
  PROVE  Cardinality(Pairs) = 1
<1>1. Operators = {o}
  BY CleanScopeIsPicked
<1>2. SelectedCandidates(o, command, suite) = {c}
  BY <1>1, CleanScopeIsPicked
<1>3. Pairs = {o} \X {c}
  BY <1>1, <1>2 DEF Pairs
<1>4. {o} \X {c} = {<<o, c>>}
  OBVIOUS
<1> QED
  BY <1>3, <1>4, FS_Singleton

-----------------------------------------------------------------------------
LEMMA GiveProjectStep ==
  ASSUME PlanningInv, GiveProject
  PROVE  PlanningInv'
<1>1. /\ suite.is = "none" /\ planned.is = "none" /\ manifests = {} /\ changes = {}
      /\ resumed.is = "none" /\ environment \in Nat
  BY DEF PlanningInv, PhasesFit, GiveProject
<1>2. /\ suite' \in GivenSuites /\ command' \in GivenCommands
      /\ UNCHANGED <<environment, planned, resumed, manifests, changes>>
  BY DEF GiveProject
<1>3. candidateDir' \in [OperatorName -> [CandidateName -> DirState]]
  BY RunPlanningAssumption DEF GiveProject
<1>4. PhasesFit'
  BY <1>1, <1>2, <1>3, RunPlanningAssumption DEF PhasesFit
<1>5. (PlanFits /\ CodeFits /\ ManifestsFit /\ RefusalFits /\ ResumeIsFaithful)'
  BY <1>1, <1>2 DEF PlanFits, CodeFits, ManifestsFit, RefusalFits, ResumeIsFaithful
<1> QED
  BY <1>4, <1>5 DEF PlanningInv

LEMMA JobOf ==
  ASSUME NEW o, NEW c, NEW cases, NEW resolved, NEW j \in JobsOf(o, c, cases, resolved)
  PROVE  /\ j.operator = o /\ j.candidate = c /\ j.config = resolved
         /\ j.case \in cases /\ j.seed \in Range(resolved.seeds)
BY DEF JobsOf

LEMMA ResolvedSeeds ==
  ASSUME PhasesFit, suite.is = "suite", NEW o
  PROVE  /\ Resolved(o, command, suite).seeds \in Seq(Int) \ {<<>>}
         /\ ~IsInjective(Resolved(o, command, suite).seeds) => ~IsInjective(command.seeds)
BY DEF PhasesFit, Resolved

LEMMA ReasonStays ==
  ASSUME UNCHANGED <<suite, command>>, \A o : SpecCases(o)' = SpecCases(o)
  PROVE  OwnReason' <=> OwnReason
<1>1. \A o : IsLetIn(o)' <=> IsLetIn(o)
  BY DEF IsLetIn
<1>2. \A o, k : IsAsked(SpecCases(o), k)' <=> IsAsked(SpecCases(o), k)
  BY DEF IsAsked
<1> QED
  BY <1>1, <1>2 DEF OwnReason, CpuOnly

LEMMA BuildPlanStep ==
  ASSUME PlanningInv, BuildPlan
  PROVE  PlanningInv'
<1>0. PhasesFit
  BY DEF PlanningInv
<1> DEFINE cases(o) == SelectedCases(SpecCases(o), command.cases, command.tags, suite)
           resolved(o) == Resolved(o, command, suite)
           jobs == UNION {JobsOf(pair[1], pair[2], cases(pair[1]), resolved(pair[1])) :
                             pair \in Pairs}
<1>1. /\ suite.is = "suite" /\ planned.is = "none" /\ manifests = {} /\ changes = {}
      /\ resumed.is = "none"
      /\ UNCHANGED <<referenceDir, candidateDir, source, suite, command, environment, resumed,
                     manifests, changes>>
  BY <1>0 DEF BuildPlan, PhasesFit, treeVars
<1>2. \A o \in OperatorName, i \in Implementation : ranCode'[o][i] = RunningCode(o, i)
  BY DEF BuildPlan
<1>3. \/ /\ planned' = [is |-> "plan", jobs |-> jobs]
         /\ ~SelectedHaveIssues(Operators, command.candidates)
         /\ \A o \in Operators : cases(o) # {} /\ IsInjective(resolved(o).seeds)
      \/ /\ planned' = RefusedPlan
         /\ \/ Operators = {}
            \/ SelectedHaveIssues(Operators, command.candidates)
            \/ \E o \in Operators : SelectedCandidates(o, command, suite) = {}
            \/ command.evaluation # Unset /\ Cardinality(Pairs) # 1
            \/ \E o \in Operators : cases(o) = {}
            \/ \E o \in Operators : ~IsInjective(resolved(o).seeds)
            \/ \E o \in Operators : o \in CpuOnly /\ resolved(o).timer # "wall_clock"
  <2>1. UNION {{o} \X [p \in Operators |-> SelectedCandidates(p, command, suite)][o] :
                  o \in Operators} = Pairs
    BY DEF Pairs
  <2>2. \A o \in Operators :
           [p \in Operators |-> SelectedCandidates(p, command, suite)][o] =
              SelectedCandidates(o, command, suite)
    OBVIOUS
  <2> HIDE DEF Pairs
  <2> QED
    BY <2>1, <2>2 DEF BuildPlan, Operators
<1>4. PhasesFit'
  BY <1>0, <1>1, <1>3 DEF PhasesFit, RefusedPlan
<1>5. ManifestsFit' /\ ResumeIsFaithful'
  BY <1>1 DEF ManifestsFit, ResumeIsFaithful
<1>6. CodeFits'
  BY <1>1, <1>2 DEF CodeFits, RunningCode, StateOf
<1>7. PlanFits'
  <2> SUFFICES ASSUME planned'.is = "plan" PROVE PlanFits'
    BY DEF PlanFits
  <2>1. /\ planned'.jobs = jobs
        /\ ~SelectedHaveIssues(Operators, command.candidates)
        /\ \A o \in Operators : cases(o) # {} /\ IsInjective(resolved(o).seeds)
    <3> HIDE DEF jobs
    <3> QED
      BY <1>3 DEF RefusedPlan
  <2>2. /\ Pairs = WantedPairs
        /\ \A pair \in Pairs :
              /\ pair[1] \in Operators /\ pair[2] \in Candidates(pair[1])
              /\ ~OperatorHasIssue(pair[1]) /\ ~CandidateHasIssue(pair[1], pair[2])
    BY <2>1, PairsAreWanted
  <2>3. \A o \in OperatorName : PlannedCases(o)' = cases(o)
    <3> TAKE o \in OperatorName
    <3>1. ranCode'[o][Reference] = RunningCode(o, Reference)
      BY <1>2 DEF Implementation
    <3> QED
      BY <1>1, <3>1 DEF PlannedCases, SpecCases, SelectedCases
  <2>4. \A o : Resolved(o, command, suite)' = resolved(o)
    BY <1>1 DEF Resolved
  <2>5. WantedPairs' = WantedPairs /\ \A pair \in WantedPairs : pair[1] \in OperatorName
    BY <1>1, RegistryStays DEF WantedPairs, IsWanted, IsLetIn
  <2>6. JobsOfPairs(WantedPairs)' = jobs
    <3> HIDE DEF cases, resolved
    <3>1. \A pair \in WantedPairs :
             JobsOf(pair[1], pair[2], PlannedCases(pair[1]), Resolved(pair[1], command, suite))' =
                JobsOf(pair[1], pair[2], cases(pair[1]), resolved(pair[1]))
      BY <2>3, <2>4, <2>5 DEF JobsOf
    <3> QED
      BY <2>2, <2>5, <3>1 DEF JobsOfPairs
  <2>7. \A pair \in WantedPairs : PairInScope(pair)'
    <3> TAKE pair \in WantedPairs
    <3>1. /\ pair[2] \in Candidates(pair[1])'
          /\ ~OperatorHasIssue(pair[1])' /\ ~CandidateHasIssue(pair[1], pair[2])'
      BY <1>1, <2>2, RegistryStays
    <3>2. PlannedCases(pair[1])' # {} /\ IsInjective(Resolved(pair[1], command, suite)'.seeds)
      BY <2>1, <2>2, <2>3, <2>4, <2>5
    <3>3. Resolved(pair[1], command, suite)'.seeds \in Seq(Int) \ {<<>>}
      <4> HIDE DEF resolved
      <4>1. resolved(pair[1]).seeds \in Seq(Int) \ {<<>>}
        BY <1>0, <1>1, ResolvedSeeds DEF resolved
      <4> QED
        BY <2>4, <4>1
    <3> QED
      BY <3>1, <3>2, <3>3 DEF PairInScope
  <2> HIDE DEF jobs, cases, resolved
  <2>8. planned'.jobs = JobsOfPairs(WantedPairs)'
    BY <2>1, <2>6
  <2>9. \A j \in planned'.jobs :
           /\ j.operator \in OperatorName /\ j.candidate \in CandidateName
           /\ j.seed \in Range(j.config.seeds)
           /\ j.config = resolved(j.operator)
    <3> TAKE j \in planned'.jobs
    <3>1. PICK pair \in Pairs : j \in JobsOf(pair[1], pair[2], cases(pair[1]), resolved(pair[1]))
      BY <2>1 DEF jobs
    <3> QED
      BY <2>2, <3>1, JobOf DEF WantedPairs
  <2> QED
    BY <1>1, <2>5, <2>7, <2>8, <2>9 DEF PlanFits
<1>8. RefusalFits'
  <2> SUFFICES ASSUME planned'.is = "refused", NamedIsClean' PROVE OwnReason'
    BY DEF RefusalFits
  <2>1. NamedIsClean
    BY <1>1, RegistryStays DEF NamedIsClean, ClaimsOfOthers
  <2>2. \/ Operators = {}
        \/ command.evaluation # Unset /\ Cardinality(Pairs) # 1
        \/ \E o \in Operators : cases(o) = {}
        \/ \E o \in Operators : ~IsInjective(resolved(o).seeds)
        \/ \E o \in Operators : o \in CpuOnly /\ resolved(o).timer # "wall_clock"
    <3> HIDE DEF jobs, cases, resolved
    <3> QED
      BY <1>3, <2>1, CleanScopeIsPicked
  <2>3. \A o \in Operators : o \in command.operators /\ IsLetIn(o)
    BY <2>1, CleanScopeIsPicked
  <2>4. OwnReason
    <3>1. CASE Operators = {}
      BY <2>1, <3>1, CleanScopeIsPicked DEF OwnReason
    <3>2. CASE command.evaluation # Unset /\ Cardinality(Pairs) # 1
      <4>1. ASSUME NEW o, NEW c, command.operators = {o}, command.candidates = {c}
            PROVE  \A x \in command.operators : ~IsLetIn(x)
        BY <2>1, <3>2, <4>1, OnePairIsPicked
      <4> QED
        BY <3>2, <4>1 DEF OwnReason
    <3>3. ASSUME NEW o \in Operators, cases(o) = {} PROVE OwnReason
      <4>1. ASSUME NEW k \in DOMAIN SpecCases(o) PROVE ~IsAsked(SpecCases(o), k)
        <5>1. k \notin cases(o)
          BY <3>3
        <5> QED
          BY <5>1 DEF SelectedCases, Passes, IsAsked
      <4> QED
        BY <2>3, <4>1 DEF OwnReason
    <3>4. ASSUME NEW o \in Operators, ~IsInjective(resolved(o).seeds) PROVE OwnReason
      BY <1>0, <1>1, <3>4, ResolvedSeeds DEF OwnReason
    <3>5. ASSUME NEW o \in Operators, o \in CpuOnly, resolved(o).timer # "wall_clock"
          PROVE  OwnReason
      <4>1. command.timer # "wall_clock"
        BY <3>5 DEF Resolved, Unset
      <4> QED
        BY <2>3, <3>5, <4>1 DEF OwnReason
    <3> QED
      BY <2>2, <3>1, <3>2, <3>3, <3>4, <3>5
  <2>5. \A o : SpecCases(o)' = SpecCases(o)
    BY <1>1, RegistryStays DEF SpecCases, RunningCode
  <2> QED
    BY <1>1, <2>4, <2>5, ReasonStays
<1> QED
  BY <1>4, <1>5, <1>6, <1>7, <1>8 DEF PlanningInv

-----------------------------------------------------------------------------
LEMMA CodeStays ==
  ASSUME UNCHANGED treeVars
  PROVE  /\ \A o, i : RunningCode(o, i)' = RunningCode(o, i)
         /\ \A o, i : SourceHash(o, i)' = SourceHash(o, i)
         /\ \A o, i : StateOf(o, i)' = StateOf(o, i)
         /\ \A o : SpecCases(o)' = SpecCases(o)
<1>1. referenceDir' = referenceDir /\ candidateDir' = candidateDir /\ source' = source
  BY DEF treeVars
<1>2. \A o, i : StateOf(o, i)' = StateOf(o, i)
  BY <1>1, RegistryStays
<1>3. \A o, i : RunningCode(o, i)' = RunningCode(o, i)
  BY <1>1, <1>2 DEF RunningCode
<1> QED
  BY <1>1, <1>2, <1>3 DEF SourceHash, SpecCases

(* A step that leaves the project and the plan alone.                            *)
LEMMA PlanStays ==
  ASSUME PlanFits, CodeFits, RefusalFits,
         UNCHANGED <<treeVars, suite, command, planned, ranCode, changes>>
  PROVE  (PlanFits /\ CodeFits /\ RefusalFits)'
<1>1. /\ UNCHANGED <<suite, command, planned, ranCode, changes>>
      /\ UNCHANGED treeVars
      /\ referenceDir' = referenceDir /\ candidateDir' = candidateDir
  BY DEF treeVars
<1>2. PlanFits'
  BY <1>1, ScopeStays, JobsStay DEF PlanFits
<1>3. CodeFits'
  BY <1>1, CodeStays DEF CodeFits
<1>4. RefusalFits'
  <2>1. NamedIsClean' <=> NamedIsClean
    BY <1>1, RegistryStays DEF NamedIsClean, ClaimsOfOthers
  <2>2. OwnReason' <=> OwnReason
    BY <1>1, CodeStays, ReasonStays
  <2> QED
    BY <1>1, <2>1, <2>2 DEF RefusalFits
<1> QED
  BY <1>2, <1>3, <1>4

LEMMA ManifestStays ==
  ASSUME UNCHANGED <<treeVars, command, environment, planned, ranCode, changes>>
  PROVE  \A m : ManifestFits(m)' <=> ManifestFits(m)
BY CodeStays DEF ManifestFits

LEMMA RegisterEvaluationStep ==
  ASSUME PlanningInv, RegisterEvaluation
  PROVE  PlanningInv'
<1>0. PhasesFit /\ PlanFits /\ CodeFits /\ ManifestsFit /\ RefusalFits
  BY DEF PlanningInv
<1>1. /\ planned.is = "plan" /\ changes = {} /\ resumed.is = "none"
      /\ UNCHANGED <<treeVars, suite, command, environment, planned, resumed, ranCode, changes>>
  BY DEF RegisterEvaluation
<1>2. PICK j \in planned.jobs :
         manifests' = manifests \cup
            {[operator |-> j.operator, candidate |-> j.candidate, config |-> j.config,
              hash |-> SourceHash(j.operator, j.candidate),
              reference |-> SourceHash(j.operator, Reference),
              environment |-> environment, command |-> command]}
  BY DEF RegisterEvaluation
<1>3. PhasesFit'
  <2>1. candidateDir' = candidateDir /\ UNCHANGED <<suite, command, environment, planned, resumed>>
    BY <1>1 DEF treeVars
  <2> QED
    BY <1>0, <1>1, <1>2, <2>1 DEF PhasesFit
<1>4. (PlanFits /\ CodeFits /\ RefusalFits)'
  BY <1>0, <1>1, PlanStays
<1>5. ManifestsFit'
  <2>1. ASSUME NEW m \in manifests', m \notin manifests PROVE ManifestFits(m)
    <3>1. /\ m.operator = j.operator /\ m.candidate = j.candidate
          /\ m.config = j.config /\ m.command = command /\ m.environment = environment
          /\ m.hash = SourceHash(j.operator, j.candidate)
          /\ m.reference = SourceHash(j.operator, Reference)
      BY <1>2, <2>1
    <3>2. j.operator \in OperatorName /\ j.candidate \in CandidateName
      BY <1>0, <1>1 DEF PlanFits
    <3>3. \A i \in Implementation :
             StateOf(j.operator, i) # "excluded" =>
                 ranCode[j.operator][i] = SourceHash(j.operator, i)
      BY <1>0, <1>1, <3>2 DEF CodeFits, RunningCode, SourceHash
    <3>4. j.candidate \in Implementation /\ Reference \in Implementation
      BY <3>2 DEF Implementation
    <3>5. environment \in Nat /\ environment <= environment
      BY <1>0 DEF PhasesFit
    <3> QED
      BY <1>1, <3>1, <3>2, <3>3, <3>4, <3>5 DEF ManifestFits
  <2>2. \A m \in manifests' : ManifestFits(m)
    BY <1>0, <2>1 DEF ManifestsFit
  <2> QED
    BY <1>1, <2>2, ManifestStays DEF ManifestsFit
<1>6. ResumeIsFaithful'
  BY <1>1 DEF ResumeIsFaithful
<1> QED
  BY <1>3, <1>4, <1>5, <1>6 DEF PlanningInv

-----------------------------------------------------------------------------
(* Whatever users do, what the manifests hold stays true of the run, and a thing *)
(* that is not noted as changed is as it was.                                 *)
LEMMA ChangeKeeps ==
  ASSUME PlanningInv, NEW what, Change(what),
         referenceDir' = referenceDir,
         candidateDir' \in [OperatorName -> [CandidateName -> DirState]],
         \A o \in OperatorName, c \in CandidateName :
            candidateDir'[o][c] \in {candidateDir[o][c], "absent"},
         IF what = "suite" THEN suite' \in GivenSuites ELSE suite' = suite,
         environment' = IF what = "environment" THEN environment + 1 ELSE environment
  PROVE  PlanningInv'
<1>0. PhasesFit /\ PlanFits /\ ManifestsFit
  BY DEF PlanningInv
<1>1. /\ manifests # {} /\ planned.is = "plan" /\ resumed.is = "none"
      /\ changes' = changes \cup {what} /\ changes' # {}
      /\ UNCHANGED <<command, planned, resumed, manifests, ranCode>>
      /\ environment \in Nat
  BY <1>0 DEF Change, PhasesFit
<1>2. PhasesFit'
  <2>1. suite.is = "suite"
    BY <1>0, <1>1 DEF PhasesFit
  <2>2. environment' \in Nat
    BY <1>1
  <2> QED
    BY <1>0, <1>1, <2>1, <2>2, RunPlanningAssumption DEF PhasesFit
<1>3. PlanFits'
  <2>1. "suite" \notin changes' => suite' = suite /\ "suite" \notin changes
    BY <1>1
  <2>2. suite' = suite => \A pairs : JobsOfPairs(pairs)' = JobsOfPairs(pairs)
    BY <1>1, JobsStay
  <2> QED
    BY <1>0, <1>1, <2>1, <2>2 DEF PlanFits
<1>4. ManifestsFit'
  <2>1. ASSUME NEW m, ManifestFits(m) PROVE ManifestFits(m)'
    <3>1. /\ m.environment <= environment' /\ m.environment \in Nat
          /\ "environment" \in changes' <=> m.environment # environment'
      BY <1>1, <2>1 DEF ManifestFits
    <3>2. \A i \in {m.candidate, Reference} :
             StateOf(m.operator, i)' \in {StateOf(m.operator, i), "absent"}
      BY <2>1 DEF StateOf, ManifestFits
    <3> QED
      BY <1>1, <2>1, <3>1, <3>2 DEF ManifestFits
  <2> QED
    BY <1>0, <1>1, <2>1 DEF ManifestsFit
<1>5. CodeFits' /\ RefusalFits' /\ ResumeIsFaithful'
  BY <1>1 DEF CodeFits, RefusalFits, ResumeIsFaithful
<1> QED
  BY <1>2, <1>3, <1>4, <1>5 DEF PlanningInv

LEMMA ChangeStep ==
  ASSUME PlanningInv, ChangeSource \/ RemoveCandidate \/ EditSuite \/ ChangeEnvironment
  PROVE  PlanningInv'
<1>1. candidateDir \in [OperatorName -> [CandidateName -> DirState]]
  BY DEF PlanningInv, PhasesFit
<1>2. CASE ChangeSource
  <2>1. /\ Change("source") /\ UNCHANGED <<referenceDir, candidateDir, suite, environment>>
    BY <1>2 DEF ChangeSource, EditSource
  <2> QED
    BY <1>1, <2>1, ChangeKeeps
<1>3. CASE RemoveCandidate
  <2>1. Change("candidates") /\ UNCHANGED <<referenceDir, suite, environment>>
    BY <1>3 DEF RemoveCandidate
  <2>2. PICK o \in OperatorName, c \in CandidateName :
           candidateDir' = [candidateDir EXCEPT ![o][c] = "absent"]
    BY <1>3 DEF RemoveCandidate
  <2>3. candidateDir' \in [OperatorName -> [CandidateName -> DirState]]
    BY <1>1, <2>2 DEF DirState
  <2>4. \A p \in OperatorName, d \in CandidateName :
           candidateDir'[p][d] \in {candidateDir[p][d], "absent"}
    BY <1>1, <2>2
  <2> QED
    BY <2>1, <2>3, <2>4, ChangeKeeps
<1>4. CASE EditSuite
  <2>1. Change("suite") /\ suite' \in GivenSuites
        /\ UNCHANGED <<referenceDir, candidateDir, environment>>
    BY <1>4 DEF EditSuite, treeVars
  <2> QED
    BY <1>1, <2>1, ChangeKeeps
<1>5. CASE ChangeEnvironment
  <2>1. Change("environment") /\ environment' = environment + 1
        /\ UNCHANGED <<referenceDir, candidateDir, suite>>
    BY <1>5 DEF ChangeEnvironment, treeVars
  <2> QED
    BY <1>1, <2>1, ChangeKeeps
<1> QED
  BY <1>2, <1>3, <1>4, <1>5

-----------------------------------------------------------------------------
(* A resume whose manifests are compatible runs the code that was hashed.       *)
LEMMA CompatibleRunsTheCode ==
  ASSUME ManifestsFit, NEW m \in manifests, IsCompatible(m), NEW i \in {m.candidate, Reference}
  PROVE  IsSameCode(m.operator, i) \/ StateOf(m.operator, i) = "excluded"
<1>1. /\ m.operator \in References /\ m.candidate \in Candidates(m.operator)
      /\ m.reference = SourceHash(m.operator, Reference)
      /\ m.hash = SourceHash(m.operator, m.candidate)
  BY DEF IsCompatible
<1>2. ManifestFits(m)
  BY DEF ManifestsFit
<1>3. StateOf(m.operator, Reference) # "absent"
  BY <1>1 DEF References, StateOf
<1>4. StateOf(m.operator, m.candidate) # "absent"
  BY <1>1, <1>3 DEF Candidates, StateOf
<1>5. CASE i = Reference
  BY <1>1, <1>2, <1>3, <1>5 DEF ManifestFits, RunningCode, SourceHash, IsSameCode
<1>6. CASE i = m.candidate
  BY <1>1, <1>2, <1>4, <1>6 DEF ManifestFits, RunningCode, SourceHash, IsSameCode
<1> QED
  BY <1>5, <1>6

(* The cases a resume selects of the code of the run hold those of the run, and are *)
(* those when no option was abbreviated.                                        *)
LEMMA CasesAreSelectedAgain ==
  ASSUME NEW m, m.command = command, NEW o, IsSameCode(o, Reference)
  PROVE  /\ PlannedCases(o)
               \subseteq SelectedCases(SpecCases(o), CasesOf(m), TagsOf(m), suite)
         /\ ~command.abbreviates =>
               SelectedCases(SpecCases(o), CasesOf(m), TagsOf(m), suite) = PlannedCases(o)
<1>1. ~command.abbreviates => CasesOf(m) = command.cases /\ TagsOf(m) = command.tags
  BY DEF CasesOf, TagsOf
<1>2. command.abbreviates => CasesOf(m) = {} /\ TagsOf(m) = {}
  BY DEF CasesOf, TagsOf
<1>3. SpecCases(o) = CasesOfCode(o, ranCode[o][Reference])
  BY DEF SpecCases, IsSameCode
<1>4. PlannedCases(o) = SelectedCases(SpecCases(o), command.cases, command.tags, suite)
  BY <1>3 DEF PlannedCases
<1>5. SelectedCases(SpecCases(o), command.cases, command.tags, suite)
         \subseteq SelectedCases(SpecCases(o), {}, {}, suite)
  BY DEF SelectedCases, Passes
<1> QED
  BY <1>1, <1>2, <1>4, <1>5

(* With nothing changed a resume is not refused.                               *)
LEMMA UnchangedIsResumed ==
  ASSUME PlanningInv, changes = {}, NEW m \in manifests
  PROVE  /\ IsCompatible(m) /\ ~OperatorHasIssue(m.operator)
         /\ SelectedCases(SpecCases(m.operator), CasesOf(m), TagsOf(m), suite) # {}
<1>1. /\ planned.is = "plan" /\ ManifestFits(m)
      /\ planned.jobs = JobsOfPairs(WantedPairs)
      /\ \A pair \in WantedPairs : PairInScope(pair)
  BY DEF PlanningInv, PhasesFit, PlanFits, ManifestsFit
<1>2. PICK j \in planned.jobs : j.operator = m.operator /\ j.candidate = m.candidate
  BY <1>1 DEF ManifestFits
<1>3. PICK pair \in WantedPairs :
         j \in JobsOf(pair[1], pair[2], PlannedCases(pair[1]), Resolved(pair[1], command, suite))
  BY <1>1, <1>2 DEF JobsOfPairs
<1>4. pair[1] = m.operator /\ pair[2] = m.candidate
  BY <1>2, <1>3, JobOf
<1>5. /\ m.candidate \in Candidates(m.operator) /\ ~OperatorHasIssue(m.operator)
      /\ PlannedCases(m.operator) # {}
  BY <1>1, <1>3, <1>4 DEF PairInScope
<1>6. m.operator \in References
  BY <1>5 DEF Candidates
<1>7. IsCompatible(m)
  BY <1>1, <1>5, <1>6 DEF ManifestFits, IsCompatible
<1>8. IsSameCode(m.operator, Reference) /\ m.command = command
  <2>1. m.operator \in OperatorName /\ m.command = command /\ Reference \in Implementation
    BY <1>1 DEF ManifestFits, Implementation
  <2> QED
    BY <1>1, <2>1 DEF PlanningInv, CodeFits, IsSameCode
<1> QED
  BY <1>5, <1>7, <1>8, CasesAreSelectedAgain

(* The jobs of one pair of a plan.                                              *)
LEMMA JobsOfOnePair ==
  ASSUME NEW pairs, planned.jobs = JobsOfPairs(pairs), NEW pair, NEW j \in JobsAt(planned.jobs, pair)
  PROVE  /\ JobsAt(planned.jobs, pair) =
               JobsOf(pair[1], pair[2], PlannedCases(pair[1]), Resolved(pair[1], command, suite))
         /\ j.config = Resolved(pair[1], command, suite)
<1> DEFINE own(p) == JobsOf(p[1], p[2], PlannedCases(p[1]), Resolved(p[1], command, suite))
<1>1. \A k : k \in planned.jobs <=> \E p \in pairs : k \in own(p)
  BY DEF JobsOfPairs
<1>2. \A p : \A k \in own(p) : k.operator = p[1] /\ k.candidate = p[2]
                               /\ k.config = Resolved(p[1], command, suite)
  BY JobOf
<1>3. \A k : k \in JobsAt(planned.jobs, pair) <=>
                k \in planned.jobs /\ k.operator = pair[1] /\ k.candidate = pair[2]
  BY DEF JobsAt
<1>4. \A p : p[1] = pair[1] /\ p[2] = pair[2] => own(p) = own(pair)
  OBVIOUS
<1> HIDE DEF own
<1>5. PICK p \in pairs : j \in own(p)
  BY <1>1, <1>3
<1>6. p[1] = pair[1] /\ p[2] = pair[2] /\ own(p) = own(pair)
      /\ j.config = Resolved(pair[1], command, suite)
  BY <1>2, <1>3, <1>4, <1>5
<1>7. \A k \in JobsAt(planned.jobs, pair) : k \in own(pair)
  BY <1>1, <1>2, <1>3, <1>4
<1>8. \A k \in own(pair) : k \in JobsAt(planned.jobs, pair)
  BY <1>1, <1>2, <1>3, <1>5, <1>6
<1>9. JobsAt(planned.jobs, pair) = own(pair)
  BY <1>7, <1>8 DEF JobsAt
<1> QED
  BY <1>6, <1>9 DEF own

LEMMA BuildResumePlanStep ==
  ASSUME PlanningInv, BuildResumePlan
  PROVE  PlanningInv'
<1>0. PhasesFit /\ PlanFits /\ CodeFits /\ ManifestsFit /\ RefusalFits
  BY DEF PlanningInv
<1> DEFINE cases(m) == SelectedCases(SpecCases(m.operator), CasesOf(m), TagsOf(m), suite)
           again == UNION {JobsOf(m.operator, m.candidate, cases(m), m.config) :
                              m \in manifests}
<1>1. /\ manifests # {} /\ planned.is = "plan" /\ resumed.is = "none"
      /\ UNCHANGED <<treeVars, suite, command, environment, planned, manifests, ranCode, changes>>
  BY <1>0 DEF BuildResumePlan, PhasesFit
<1>2. \/ /\ resumed' = RefusedPlan
         /\ \E m \in manifests :
               ~IsCompatible(m) \/ OperatorHasIssue(m.operator) \/ cases(m) = {}
      \/ /\ resumed' = [is |-> "plan", jobs |-> again]
         /\ \A m \in manifests : IsCompatible(m) /\ cases(m) # {}
  BY DEF BuildResumePlan
<1>3. (PlanFits /\ CodeFits /\ ManifestsFit /\ RefusalFits)'
  BY <1>0, <1>1, PlanStays, ManifestStays DEF ManifestsFit
<1>4. PhasesFit'
  <2>1. resumed'.is \in {"refused", "plan"} /\ candidateDir' = candidateDir
    BY <1>1, <1>2 DEF RefusedPlan, treeVars
  <2> QED
    BY <1>0, <1>1, <2>1 DEF PhasesFit
<1>5. ResumeIsFaithful'
  <2>1. ASSUME resumed'.is = "refused" PROVE changes # {}
    BY <1>2, <2>1, UnchangedIsResumed
  <2>2. ASSUME resumed'.is = "plan"
        PROVE  /\ "environment" \notin changes
               /\ PairsOf(resumed'.jobs) = RegisteredPairs
               /\ RegisteredPairs \subseteq PairsOf(planned.jobs)
               /\ \A pair \in RegisteredPairs :
                     /\ \A i \in {pair[2], Reference} :
                           IsSameCode(pair[1], i) \/ StateOf(pair[1], i) = "excluded"
                     /\ \A j \in JobsAt(planned.jobs, pair), k \in JobsAt(resumed'.jobs, pair) :
                           k.config = j.config
                     /\ \/ "suite" \in changes \/ command.abbreviates
                        \/ ~IsSameCode(pair[1], Reference)
                        \/ JobsAt(resumed'.jobs, pair) = JobsAt(planned.jobs, pair)
    <3>1. resumed'.jobs = again /\ \A m \in manifests : IsCompatible(m) /\ cases(m) # {}
      <4> HIDE DEF again, cases
      <4> QED
        BY <1>2, <2>2 DEF RefusedPlan
    <3>2. \A m \in manifests : ManifestFits(m)
      BY <1>0 DEF ManifestsFit
    <3>3. "environment" \notin changes
      BY <1>1, <3>1, <3>2 DEF ManifestFits, IsCompatible
    <3>4. ASSUME NEW m \in manifests
          PROVE  /\ m.command = command
                 /\ \E j \in planned.jobs :
                       /\ j.operator = m.operator /\ j.candidate = m.candidate
                       /\ j.config = m.config /\ j.seed \in Range(m.config.seeds)
      BY <1>0, <1>1, <3>2 DEF ManifestFits, PlanFits
    <3> HIDE DEF cases
    <3>5. \A k : k \in resumed'.jobs <=>
             \E m \in manifests : k \in JobsOf(m.operator, m.candidate, cases(m), m.config)
      BY <3>1
    <3> HIDE DEF again
    <3>6. \A m \in manifests :
             \A k \in JobsOf(m.operator, m.candidate, cases(m), m.config) :
                k.operator = m.operator /\ k.candidate = m.candidate /\ k.config = m.config
      BY JobOf
    <3>7. PairsOf(resumed'.jobs) = RegisteredPairs
      <4>1. \A pair \in PairsOf(resumed'.jobs) : pair \in RegisteredPairs
        BY <3>5, <3>6 DEF PairsOf, RegisteredPairs
      <4>2. ASSUME NEW m \in manifests PROVE <<m.operator, m.candidate>> \in PairsOf(resumed'.jobs)
        <5>1. PICK k \in cases(m), s \in Range(m.config.seeds) : TRUE
          BY <3>1, <3>4
        <5>2. [operator |-> m.operator, candidate |-> m.candidate, case |-> k, seed |-> s,
               config |-> m.config] \in JobsOf(m.operator, m.candidate, cases(m), m.config)
          BY <5>1 DEF JobsOf
        <5>3. PICK j \in JobsOf(m.operator, m.candidate, cases(m), m.config) : TRUE
          BY <5>2
        <5>4. j \in resumed'.jobs /\ j.operator = m.operator /\ j.candidate = m.candidate
          BY <3>5, <3>6, <5>3
        <5> QED
          BY <5>4 DEF PairsOf
      <4>3. \A pair \in RegisteredPairs : pair \in PairsOf(resumed'.jobs)
        BY <4>2 DEF RegisteredPairs
      <4> QED
        BY <4>1, <4>3 DEF RegisteredPairs, PairsOf
    <3>8. RegisteredPairs \subseteq PairsOf(planned.jobs)
      <4>1. ASSUME NEW m \in manifests PROVE <<m.operator, m.candidate>> \in PairsOf(planned.jobs)
        BY <3>4 DEF PairsOf
      <4> QED
        BY <4>1 DEF RegisteredPairs
    <3>9. ASSUME NEW pair \in RegisteredPairs
          PROVE  /\ \A i \in {pair[2], Reference} :
                       IsSameCode(pair[1], i) \/ StateOf(pair[1], i) = "excluded"
                 /\ \A j \in JobsAt(planned.jobs, pair), k \in JobsAt(resumed'.jobs, pair) :
                       k.config = j.config
                 /\ \/ "suite" \in changes \/ command.abbreviates
                    \/ ~IsSameCode(pair[1], Reference)
                    \/ JobsAt(resumed'.jobs, pair) = JobsAt(planned.jobs, pair)
      <4>1. PICK m \in manifests : pair = <<m.operator, m.candidate>>
        BY <3>9 DEF RegisteredPairs
      <4>2. pair[1] = m.operator /\ pair[2] = m.candidate
        BY <4>1
      <4>3. \A i \in {pair[2], Reference} :
               IsSameCode(pair[1], i) \/ StateOf(pair[1], i) = "excluded"
        BY <1>0, <3>1, <4>2, CompatibleRunsTheCode
      <4>4. ASSUME NEW j \in JobsAt(planned.jobs, pair), NEW k \in JobsAt(resumed'.jobs, pair)
            PROVE  k.config = j.config
        <5>1. /\ j \in planned.jobs /\ j.operator = pair[1] /\ j.candidate = pair[2]
              /\ k \in resumed'.jobs /\ k.operator = pair[1] /\ k.candidate = pair[2]
          BY DEF JobsAt
        <5>2. PICK n \in manifests : /\ k.operator = n.operator /\ k.candidate = n.candidate
                                     /\ k.config = n.config
          BY <3>5, <3>6, <5>1
        <5>3. PICK l \in planned.jobs : /\ l.operator = n.operator /\ l.candidate = n.candidate
                                        /\ l.config = n.config
          BY <3>4
        <5> QED
          BY <1>0, <1>1, <5>1, <5>2, <5>3 DEF PlanFits
      <4>5. ASSUME "suite" \notin changes, ~command.abbreviates, IsSameCode(pair[1], Reference)
            PROVE  JobsAt(resumed'.jobs, pair) = JobsAt(planned.jobs, pair)
        <5> DEFINE own == JobsOf(pair[1], pair[2], PlannedCases(pair[1]),
                                 Resolved(pair[1], command, suite))
        <5>1. PICK pairs : planned.jobs = JobsOfPairs(pairs)
          BY <1>0, <1>1, <4>5 DEF PlanFits
        <5>2. PICK j \in planned.jobs : /\ j.operator = pair[1] /\ j.candidate = pair[2]
                                        /\ j.config = m.config
          BY <3>4, <4>2
        <5>3. j \in JobsAt(planned.jobs, pair)
          BY <5>2 DEF JobsAt
        <5>4. JobsAt(planned.jobs, pair) = own
          BY <5>1, <5>3, JobsOfOnePair
        <5>5. \A l \in JobsAt(planned.jobs, pair) : l.config = Resolved(pair[1], command, suite)
          BY <5>1, JobsOfOnePair
        <5>6. ASSUME NEW n \in manifests, n.operator = pair[1], n.candidate = pair[2]
              PROVE  JobsOf(n.operator, n.candidate, cases(n), n.config) = own
          <6>1. cases(n) = PlannedCases(pair[1])
            BY <3>4, <4>5, <5>6, CasesAreSelectedAgain DEF cases
          <6>2. PICK l \in planned.jobs : /\ l.operator = n.operator /\ l.candidate = n.candidate
                                          /\ l.config = n.config
            BY <3>4
          <6>3. l \in JobsAt(planned.jobs, pair)
            BY <5>6, <6>2 DEF JobsAt
          <6>4. n.config = Resolved(pair[1], command, suite)
            BY <5>5, <6>2, <6>3
          <6> QED
            BY <5>6, <6>1, <6>4
        <5> HIDE DEF own
        <5>7. \A k \in own : k.operator = pair[1] /\ k.candidate = pair[2]
          BY JobOf DEF own
        <5>8. \A k \in JobsAt(resumed'.jobs, pair) : k \in own
          <6> TAKE k \in JobsAt(resumed'.jobs, pair)
          <6>1. k \in resumed'.jobs /\ k.operator = pair[1] /\ k.candidate = pair[2]
            BY DEF JobsAt
          <6>2. PICK n \in manifests : k \in JobsOf(n.operator, n.candidate, cases(n), n.config)
            BY <3>5, <6>1
          <6>3. n.operator = pair[1] /\ n.candidate = pair[2]
            BY <3>6, <6>1, <6>2
          <6> QED
            BY <5>6, <6>2, <6>3
        <5>9. \A k \in own : k \in JobsAt(resumed'.jobs, pair)
          <6>1. own = JobsOf(m.operator, m.candidate, cases(m), m.config)
            BY <4>2, <5>6
          <6>2. \A k \in own : k \in resumed'.jobs
            BY <3>5, <6>1
          <6> QED
            BY <5>7, <6>2 DEF JobsAt
        <5>10. JobsAt(resumed'.jobs, pair) = own
          BY <5>8, <5>9 DEF JobsAt
        <5> QED
          BY <5>4, <5>10
      <4> QED
        BY <4>3, <4>4, <4>5
    <3> QED
      BY <3>3, <3>7, <3>8, <3>9
  <2>3. /\ \A o, i : IsSameCode(o, i)' <=> IsSameCode(o, i)
        /\ \A o, i : StateOf(o, i)' = StateOf(o, i)
        /\ RegisteredPairs' = RegisteredPairs
        /\ changes' = changes /\ planned' = planned /\ command' = command
    BY <1>1, CodeStays DEF IsSameCode, RegisteredPairs
  <2> QED
    BY <2>1, <2>2, <2>3 DEF ResumeIsFaithful, JobsAt
<1> QED
  BY <1>3, <1>4, <1>5 DEF PlanningInv

-----------------------------------------------------------------------------
(* A plan holds what is wanted of a registry in order, the manifests hold what      *)
(* was planned and hashed for each evaluation that was registered before an        *)
(* interruption, and a resume that compares them is faithful to those.             *)
THEOREM PlanningInvariant == PlanningSpec => []PlanningInv
<1>1. ASSUME PlanningInv, UNCHANGED planningVars PROVE PlanningInv'
  <2>1. /\ UNCHANGED <<treeVars, suite, command, environment, planned, manifests, ranCode, changes>>
        /\ UNCHANGED treeVars /\ candidateDir' = candidateDir /\ resumed' = resumed
    BY <1>1 DEF planningVars, treeVars
  <2>2. (PlanFits /\ CodeFits /\ RefusalFits)'
    BY <1>1, <2>1, PlanStays DEF PlanningInv
  <2>3. ManifestsFit'
    BY <1>1, <2>1, ManifestStays DEF PlanningInv, ManifestsFit
  <2>4. PhasesFit'
    BY <1>1, <2>1 DEF PlanningInv, PhasesFit
  <2>5. ResumeIsFaithful'
    <3>1. /\ \A o, i : IsSameCode(o, i)' <=> IsSameCode(o, i)
          /\ \A o, i : StateOf(o, i)' = StateOf(o, i)
          /\ RegisteredPairs' = RegisteredPairs
      BY <2>1, CodeStays DEF IsSameCode, RegisteredPairs
    <3> QED
      BY <1>1, <2>1, <3>1 DEF PlanningInv, ResumeIsFaithful
  <2> QED
    BY <2>2, <2>3, <2>4, <2>5 DEF PlanningInv
<1>2. PlanningInv /\ [PlanningNext]_planningVars => PlanningInv'
  BY <1>1, GiveProjectStep, BuildPlanStep, RegisterEvaluationStep, ChangeStep,
     BuildResumePlanStep
     DEF PlanningNext
<1> QED
  BY <1>2, PlanningInitInv, PTL DEF PlanningSpec

(* Whatever projects, suites and commands there are, whatever evaluations a run has  *)
(* registered when it is interrupted, and whatever changes before its resume: a       *)
(* resume that is planned (build_resume_plan of engine.py) has exactly the evaluations *)
(* that were registered, with the configuration and in the environment of the run,    *)
(* and runs the code that was hashed, except of an entry point the hash leaves out.    *)
(* Each has the jobs it had, unless the suite has changed, the command abbreviated an  *)
(* option or the reference is no longer the code of the run.  A resume is refused only *)
(* when something has changed.                                                       *)
THEOREM ResumesAreFaithful == PlanningSpec => []ResumeIsFaithful
BY PlanningInvariant, PTL DEF PlanningInv

-----------------------------------------------------------------------------
LEMMA PlacesAreCounted ==
  ASSUME NEW n \in Nat
  PROVE  IsFiniteSet(1..n) /\ Cardinality(1..n) = n
<1>1. /\ IsFiniteSet(1..n)
      /\ Cardinality(1..n) = IF 1 > n THEN 0 ELSE n - 1 + 1
  BY FS_Interval
<1> QED
  BY <1>1

LEMMA CasesAreFinite ==
  ASSUME NEW o \in OperatorName
  PROVE  IsFiniteSet(PlannedCases(o))
<1>1. \A version : IsFiniteSet(DOMAIN CasesOfCode(o, version))
  BY RunPlanningAssumption DEF CasesOfCode
<1>2. PlannedCases(o) \subseteq DOMAIN CasesOfCode(o, ranCode[o][Reference])
  BY DEF PlannedCases, SelectedCases
<1> QED
  BY <1>1, <1>2, FS_Subset

(* No two of the cases and places of seeds give one job: an evaluation has as many  *)
(* jobs as the product of the two.                                             *)
LEMMA JobsAreCounted ==
  ASSUME NEW o, NEW c, NEW cases, IsFiniteSet(cases), NEW resolved,
         resolved.seeds \in Seq(Int), IsInjective(resolved.seeds)
  PROVE  Cardinality(JobsOf(o, c, cases, resolved)) = Cardinality(cases) * Len(resolved.seeds)
<1> DEFINE Job(k, s) == [operator |-> o, candidate |-> c, case |-> k, seed |-> s,
                         config |-> resolved]
           seeds == resolved.seeds
           n == Len(seeds)
           jobs == JobsOf(o, c, cases, resolved)
           row == 1..n
           places == cases \X row
           job == [p \in places |-> Job(p[1], seeds[p[2]])]
<1>1. n \in Nat /\ DOMAIN seeds = row
  <2>1. seeds \in Seq(Int)
    OBVIOUS
  <2> HIDE DEF seeds
  <2> QED
    BY <2>1
<1>2. IsFiniteSet(row) /\ Cardinality(row) = n
  BY <1>1, PlacesAreCounted
<1>3. IsFiniteSet(places) /\ Cardinality(places) = Cardinality(cases) * n
  <2> HIDE DEF row, n, places
  <2>1. IsFiniteSet(cases \X row) /\ Cardinality(cases \X row) = Cardinality(cases) * Cardinality(row)
    BY <1>2, FS_Product
  <2> QED
    BY <1>2, <2>1 DEF places
<1>4. \A p \in places : p = <<p[1], p[2]>> /\ p[1] \in cases /\ p[2] \in row
  OBVIOUS
<1>5. \A k \in cases, s \in Range(seeds) : Job(k, s) \in jobs
  BY DEF JobsOf
<1>6. \A j \in jobs : \E k \in cases, s \in Range(seeds) : j = Job(k, s)
  BY DEF JobsOf
<1>7. \A i \in row : seeds[i] \in Range(seeds)
  BY <1>1 DEF Range
<1>8. job \in [places -> jobs]
  <2> HIDE DEF jobs, seeds, row, places
  <2>1. \A p \in places : Job(p[1], seeds[p[2]]) \in jobs
    BY <1>4, <1>5, <1>7
  <2> QED
    BY <2>1
<1>9. ASSUME NEW p \in places, NEW q \in places, job[p] = job[q] PROVE p = q
  <2>1. p[1] = q[1] /\ seeds[p[2]] = seeds[q[2]]
    BY <1>9
  <2>2. p[2] \in DOMAIN seeds /\ q[2] \in DOMAIN seeds
    BY <1>1, <1>4
  <2>3. IsInjective(seeds)
    OBVIOUS
  <2> HIDE DEF job, seeds, places, row
  <2>4. p[2] = q[2]
    BY <2>1, <2>2, <2>3 DEF IsInjective
  <2>5. p = <<p[1], p[2]>> /\ q = <<q[1], q[2]>>
    BY <1>4
  <2> QED
    BY <2>1, <2>4, <2>5, Zenon
<1>10. ASSUME NEW j \in jobs PROVE \E p \in places : job[p] = j
  <2>1. PICK k \in cases, s \in Range(seeds) : j = Job(k, s)
    BY <1>6
  <2>2. PICK i \in row : s = seeds[i]
    BY <1>1 DEF Range
  <2>3. <<k, i>> \in places /\ job[<<k, i>>] = j
    BY <2>1, <2>2
  <2> QED
    BY <2>3
<1> HIDE DEF places, job, jobs
<1>11. job \in Bijection(places, jobs)
  BY <1>8, <1>9, <1>10 DEF Bijection, Injection, Surjection, IsInjective
<1>12. Cardinality(jobs) = Cardinality(places)
  BY <1>3, <1>11, FS_Bijection DEF ExistsBijection
<1> QED
  BY <1>3, <1>12 DEF jobs

(* The jobs of a pair that is wanted, while nothing has changed.                   *)
LEMMA WantedHasItsJobs ==
  ASSUME PlanFits, CodeFits, planned.is = "plan", changes = {}, NEW pair \in WantedPairs
  PROVE  LET chosen == {k \in DOMAIN SpecCases(pair[1]) : IsAsked(SpecCases(pair[1]), k)}
             jobs == JobsAt(planned.jobs, pair)
         IN /\ jobs # {} /\ {j.case : j \in jobs} = chosen
            /\ \A j \in jobs : /\ j.config.limit = NearestLimit(pair[1])
                               /\ Cardinality(jobs) = Cardinality(chosen) * Len(j.config.seeds)
<1> DEFINE o == pair[1]
           c == pair[2]
           chosen == {k \in DOMAIN SpecCases(o) : IsAsked(SpecCases(o), k)}
           resolved == Resolved(o, command, suite)
           jobs == JobsAt(planned.jobs, pair)
<1>1. /\ o \in OperatorName /\ c \in CandidateName /\ PairInScope(pair)
      /\ planned.jobs = JobsOfPairs(WantedPairs)
  BY DEF PlanFits, WantedPairs
<1>2. PlannedCases(o) = chosen
  <2>1. ranCode[o][Reference] = RunningCode(o, Reference)
    BY <1>1 DEF CodeFits, Implementation
  <2>2. PlannedCases(o) = SelectedCases(SpecCases(o), command.cases, command.tags, suite)
    BY <2>1 DEF PlannedCases, SpecCases
  <2> QED
    BY <2>2 DEF SelectedCases, Passes, IsAsked
<1>3. /\ chosen # {} /\ resolved.seeds \in Seq(Int) \ {<<>>} /\ IsInjective(resolved.seeds)
  BY <1>1, <1>2 DEF PairInScope
<1> HIDE DEF chosen, resolved, o, c
<1>4. PICK k0 \in chosen, s0 \in Range(resolved.seeds) : TRUE
  <2> DEFINE seeds == resolved.seeds
  <2>1. seeds \in Seq(Int) \ {<<>>}
    BY <1>3
  <2> HIDE DEF seeds
  <2>2. 1 \in DOMAIN seeds
    BY <2>1
  <2>3. seeds[1] \in Range(seeds)
    BY <2>2 DEF Range
  <2> QED
    BY <1>3, <2>3 DEF seeds
<1> DEFINE own == JobsOf(o, c, chosen, resolved)
           Job(k, s) == [operator |-> o, candidate |-> c, case |-> k, seed |-> s,
                         config |-> resolved]
<1>5. \A k \in chosen, s \in Range(resolved.seeds) : Job(k, s) \in own
  BY DEF JobsOf
<1>6. \A j \in own : /\ j.operator = o /\ j.candidate = c /\ j.config = resolved
                     /\ j.case \in chosen
  BY JobOf
<1> HIDE DEF own
<1>7. own \subseteq planned.jobs
  BY <1>1, <1>2 DEF JobsOfPairs, own, o, c, resolved
<1>8. \A j \in own : j \in jobs
  BY <1>6, <1>7 DEF JobsAt, o, c
<1>9. Job(k0, s0) \in jobs
  BY <1>4, <1>5, <1>8
<1>10. jobs = own
  <2>1. PICK j0 \in jobs : TRUE
    BY <1>9
  <2> QED
    BY <1>1, <1>2, <2>1, JobsOfOnePair DEF own, o, c, resolved
<1>11. {j.case : j \in jobs} = chosen
  <2>1. \A k \in chosen : \E j \in jobs : j.case = k
    <3> TAKE k \in chosen
    <3>1. Job(k, s0) \in jobs /\ Job(k, s0).case = k
      BY <1>4, <1>5, <1>8
    <3> HIDE DEF Job
    <3> QED
      BY <3>1
  <2>2. \A j \in jobs : j.case \in chosen
    BY <1>6, <1>10
  <2> HIDE DEF jobs
  <2> QED
    BY <2>1, <2>2
<1>12. resolved.limit = NearestLimit(o)
  BY DEF resolved, Resolved, Layered, NearestLimit
<1>13. Cardinality(own) = Cardinality(chosen) * Len(resolved.seeds)
  <2>1. IsFiniteSet(chosen)
    BY <1>1, <1>2, CasesAreFinite
  <2> QED
    BY <1>3, <2>1, JobsAreCounted DEF own
<1>14. \A j \in jobs : /\ j.config.limit = NearestLimit(o)
                       /\ Cardinality(jobs) = Cardinality(chosen) * Len(j.config.seeds)
  BY <1>6, <1>10, <1>12, <1>13
<1> HIDE DEF jobs
<1>15. jobs # {}
  BY <1>9
<1> QED
  BY <1>11, <1>14, <1>15 DEF jobs, chosen, o

(* Every plan, whatever registry, suite and command it comes of, has jobs for exactly *)
(* the pairs in the registry that the suite and the command want, all of them sound    *)
(* and none mistaken for another, each with exactly the cases both ask for, once for    *)
(* each seed, by the configuration of the nearest layer; and a command that names only  *)
(* what is in order is refused for no reason that lies elsewhere in the registry        *)
(* (build_execution_plan of engine.py, planning.py, selectors.py, issues.py).           *)
THEOREM PlansAreScoped == PlanningSpec => []PlanIsScoped
<1>1. ASSUME PlanningInv PROVE PlanIsScoped
  <2>0. PlanFits /\ CodeFits /\ RefusalFits
    BY <1>1 DEF PlanningInv
  <2>1. ASSUME planned.is = "plan", changes = {}
        PROVE  /\ PairsOf(planned.jobs) = WantedPairs
               /\ \A pair \in WantedPairs :
                     /\ IsSound(referenceDir[pair[1]])
                     /\ IsSound(candidateDir[pair[1]][pair[2]])
                     /\ ~HasTwin(pair[1], PresentReferences) /\ ~HasTwin(pair[1], CandidateRoots)
                     /\ ~HasTwin(pair[2], Present(pair[1]))
    <3>1. /\ planned.jobs = JobsOfPairs(WantedPairs)
          /\ \A pair \in WantedPairs : PairInScope(pair)
      BY <2>0, <2>1 DEF PlanFits
    <3>2. \A j \in planned.jobs : <<j.operator, j.candidate>> \in WantedPairs
      <4> TAKE j \in planned.jobs
      <4>1. PICK pair \in WantedPairs :
               j \in JobsOf(pair[1], pair[2], PlannedCases(pair[1]),
                            Resolved(pair[1], command, suite))
        BY <3>1 DEF JobsOfPairs
      <4>2. j.operator = pair[1] /\ j.candidate = pair[2]
        BY <4>1, JobOf
      <4>3. pair = <<pair[1], pair[2]>>
        BY DEF WantedPairs
      <4> QED
        BY <4>2, <4>3
    <3>3. ASSUME NEW pair \in WantedPairs PROVE pair \in PairsOf(planned.jobs)
      <4>1. PICK j \in JobsAt(planned.jobs, pair) : TRUE
        BY <2>0, <2>1, WantedHasItsJobs
      <4>2. j \in planned.jobs /\ j.operator = pair[1] /\ j.candidate = pair[2]
        BY DEF JobsAt
      <4>3. pair = <<pair[1], pair[2]>>
        BY DEF WantedPairs
      <4> QED
        BY <4>2, <4>3 DEF PairsOf
    <3>4. PairsOf(planned.jobs) = WantedPairs
      <4>1. \A pair \in PairsOf(planned.jobs) : pair \in WantedPairs
        BY <3>2 DEF PairsOf
      <4> HIDE DEF WantedPairs
      <4> QED
        BY <3>3, <4>1
    <3>5. ASSUME NEW pair \in WantedPairs
          PROVE  /\ IsSound(referenceDir[pair[1]])
                 /\ IsSound(candidateDir[pair[1]][pair[2]])
                 /\ ~HasTwin(pair[1], PresentReferences) /\ ~HasTwin(pair[1], CandidateRoots)
                 /\ ~HasTwin(pair[2], Present(pair[1]))
      <4>1. /\ pair[2] \in Candidates(pair[1]) /\ ~OperatorHasIssue(pair[1])
            /\ ~CandidateHasIssue(pair[1], pair[2])
        BY <3>1 DEF PairInScope
      <4>2. /\ pair[1] \in References /\ pair[2] \in Present(pair[1])
            /\ ~CandidateIsWrong(pair[1], pair[2])
        BY <4>1 DEF Candidates, Present
      <4> QED
        BY <4>1, <4>2 DEF References, ReferenceHasIssue, CandidateIsWrong, CandidateHasIssue,
           OperatorHasIssue
    <3> QED
      BY <3>4, <3>5
  <2>2. planned.is = "plan" /\ changes = {} =>
           \A pair \in WantedPairs :
              LET chosen == {k \in DOMAIN SpecCases(pair[1]) : IsAsked(SpecCases(pair[1]), k)}
                  jobs == JobsAt(planned.jobs, pair)
              IN /\ {j.case : j \in jobs} = chosen
                 /\ \A j \in jobs :
                       /\ j.config.limit = NearestLimit(pair[1])
                       /\ Cardinality(jobs) = Cardinality(chosen) * Len(j.config.seeds)
    BY <2>0, WantedHasItsJobs
  <2> QED
    BY <2>0, <2>1, <2>2 DEF PlanIsScoped, RefusalFits, OwnReason, JobsAt, WantedPairs
<1> QED
  BY <1>1, PlanningInvariant, PTL

=============================================================================
