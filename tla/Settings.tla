------------------------------ MODULE Settings ------------------------------
(***************************************************************************)
(* The way of one setting of an evaluation: an operator's manifest, a suite*)
(* and the command each may give it (registry/validation.py, suite.py,     *)
(* cli.py), resolve_evaluation_config picks one, the worker reads it from  *)
(* its request (config.py, protocol.py) and hands it to the code that uses *)
(* it.  Each layer checks with rules of its own, and each in its own style:*)
(* "is not None" here, "or" there, bool before int.                        *)
(*                                                                         *)
(* A value is the class of it that some check tells apart.                 *)
(***************************************************************************)
EXTENDS Integers

VARIABLES
    setting,    \* the one that is followed
    asked,      \* what each layer says of it
    settingAt,  \* how far it is
    config,     \* its value in the ResolvedEvaluationConfig
    used        \* what the worker uses

settingVars == <<setting, asked, settingAt, config, used>>

-----------------------------------------------------------------------------
CountSettings == {"samples", "inner_iterations", "timeout_s", "determinism_repeats"}
NumberSettings == {"regression_threshold_pct", "gpu_lock_timeout_s", "rtol", "atol"}
BoundSettings == {"min_speedup", "max_candidate_median_ms", "max_cv"}
NameSettings == {"timer", "unsupported_policy", "graph_mode"}
FlagSettings == {"perf_on_correctness_fail", "equal_nan"}
Setting == CountSettings \cup NumberSettings \cup BoundSettings \cup NameSettings
              \cup FlagSettings \cup {"warmup", "max_memory_bytes"}

\* those of a manifest only: a suite or a command that gives one is refused
ManifestOnly ==
    {"timeout_s", "determinism_repeats", "rtol", "atol", "graph_mode", "equal_nan"}

Layer == {"manifest", "suite", "command"}
Absent == "absent"
Whole == {"negative", "zero", "positive"}
Size == {"zero", "positive", "fraction"}   \* finite and not negative
SettingValue ==
    Whole \cup {"fraction", "infinite", "null", "text", "named", "true", "false"}

\* what PerformanceManifest and CorrectnessManifest have where a manifest is silent
SettingDefault(s) ==
    CASE s \in CountSettings \cup {"warmup", "regression_threshold_pct", "gpu_lock_timeout_s"} ->
              "positive"
      [] s \in {"rtol", "atol"} -> "zero"
      [] s \in {"min_speedup", "max_candidate_median_ms", "max_memory_bytes"} -> "null"
      [] s = "max_cv" -> "fraction"
      [] s \in NameSettings -> "named"
      [] s \in FlagSettings -> "false"

-----------------------------------------------------------------------------
(* What the checks of a manifest let through.                                  *)
ManifestTakes(s, v) ==
    CASE s \in CountSettings -> v = "positive"
      [] s = "warmup" -> v \in Whole \ {"negative"}
      [] s \in NumberSettings -> v \in Size
      [] s \in BoundSettings -> v \in Size \cup {"null"}
      [] s = "max_memory_bytes" -> v \in (Whole \ {"negative"}) \cup {"null"}
      [] s \in NameSettings -> v = "named"
      [] s \in FlagSettings -> v \in {"true", "false"}

(* A suite has no way to lift a bound: null is no number.                       *)
SuiteTakes(s, v) ==
    /\ s \notin ManifestOnly
    /\ CASE s \in CountSettings -> v = "positive"
         [] s \in {"warmup", "max_memory_bytes"} -> v \in Whole \ {"negative"}
         [] s \in NumberSettings \cup BoundSettings -> v \in Size
         [] s \in NameSettings -> v = "named"
         [] s \in FlagSettings -> v \in {"true", "false"}

(* The command checks types and choices only; its flag can only be set.         *)
CommandTakes(s, v) ==
    /\ s \notin ManifestOnly
    /\ CASE s \in CountSettings \cup {"warmup", "max_memory_bytes"} -> v \in Whole
         [] s \in NumberSettings \cup BoundSettings ->
                v \in Whole \cup {"fraction", "infinite"}
         [] s \in NameSettings -> v = "named"
         [] s \in FlagSettings -> v = "true"

(* ResolvedEvaluationConfig.__post_init__, in the engine and in the worker.     *)
ConfigTakes(s, v) ==
    CASE s \in CountSettings -> v \notin {"negative", "zero"}
      [] s = "warmup" -> v # "negative"
      [] s \in NumberSettings -> v \in Size
      [] s \in BoundSettings -> v \in Size \cup {"null"}
      [] s = "max_memory_bytes" -> v \in {"zero", "positive", "null"}
      [] s \in NameSettings -> v = "named"
      [] s \in FlagSettings -> TRUE

(* from_dict of the request the worker reads.                                   *)
RequestTakes(s, v) ==
    CASE s \in CountSettings \cup {"warmup"} -> v \in Whole
      [] s \in NumberSettings -> v \in Whole \cup {"fraction", "infinite"}
      [] s \in BoundSettings -> v \in Whole \cup {"fraction", "infinite", "null"}
      [] s = "max_memory_bytes" -> v \in Whole \cup {"null"}
      [] s \in NameSettings -> v \in {"text", "named"}
      [] s \in FlagSettings -> v \in {"true", "false"}

(* PerformanceConfig, TimerConfig, PerformanceGateConfig, StageTimeouts, GpuLock *)
(* and CorrectnessEvaluator.  Nothing uses rtol, atol, equal_nan and graph_mode. *)
ConsumerTakes(s, v) ==
    CASE s \in {"samples", "inner_iterations"} -> v = "positive"
      [] s = "timeout_s" -> v \in {"positive", "fraction"}
      [] s = "determinism_repeats" -> v \notin {"negative", "zero"}
      [] s = "warmup" -> v \in {"zero", "positive"}
      [] s \in {"regression_threshold_pct", "min_speedup", "max_candidate_median_ms"} ->
              v \in Size \cup {"null"}
      [] s = "max_cv" -> v \in Size \cup {"unbounded"}
      [] s = "max_memory_bytes" -> v \in {"zero", "positive", "null"}
      [] s = "gpu_lock_timeout_s" -> v # "negative"
      [] s \in {"timer", "unsupported_policy"} -> v = "named"
      [] OTHER -> TRUE

-----------------------------------------------------------------------------
(* resolve_evaluation_config: most settings are looked for with "is not None",  *)
(* some with "or", for which zero and false are not given either.               *)
IsTruthy(v) == v \notin {Absent, "zero", "false", "null"}
UsesOr(s, l) == s \in NameSettings \/ (s \in {"samples", "inner_iterations"} /\ l = "suite")

(* A mutant of Sets: "or" throughout.                                           *)
SetsTruthy(s, l) == IsTruthy(asked[l])
Sets(s, l) == IF UsesOr(s, l) THEN IsTruthy(asked[l]) ELSE asked[l] # Absent

Resolve(s) ==
    CASE Sets(s, "command") -> [from |-> "command", is |-> asked["command"]]
      [] ~Sets(s, "command") /\ Sets(s, "suite") -> [from |-> "suite", is |-> asked["suite"]]
      [] OTHER -> [from |-> "manifest",
                   is |-> IF asked["manifest"] = Absent THEN SettingDefault(s) ELSE asked["manifest"]]

\* the worker's argument to PerformanceConfig; the gate is given the bound itself
Passed(s, v) == IF s = "max_cv" /\ v = "null" THEN "unbounded" ELSE v

NoConfig == [from |-> Absent, is |-> Absent]

SettingInit ==
    /\ setting = "none"
    /\ asked = [l \in Layer |-> Absent]
    /\ settingAt = "manifest"
    /\ config = NoConfig
    /\ used = Absent

Follow ==
    /\ setting = "none"
    /\ setting' \in Setting
    /\ UNCHANGED <<asked, settingAt, config, used>>

Read(l, Takes(_, _), next) ==
    /\ settingAt = l /\ setting # "none"
    /\ \E v \in SettingValue \cup {Absent} :
          /\ asked' = [asked EXCEPT ![l] = v]
          /\ settingAt' = IF v = Absent \/ Takes(setting, v) THEN next ELSE "refused"
    /\ UNCHANGED <<setting, config, used>>

ReadManifest == Read("manifest", ManifestTakes, "suite")
ReadSuite == Read("suite", SuiteTakes, "command")
ParseCommand == Read("command", CommandTakes, "resolve")

ResolveConfig ==
    /\ settingAt = "resolve"
    /\ IF ConfigTakes(setting, Resolve(setting).is)
       THEN config' = Resolve(setting) /\ settingAt' = "request"
       ELSE settingAt' = "refused" /\ UNCHANGED config
    /\ UNCHANGED <<setting, asked, used>>

ReadRequest ==
    /\ settingAt = "request"
    /\ settingAt' = IF RequestTakes(setting, config.is) /\ ConfigTakes(setting, config.is)
                    THEN "use" ELSE "broken"
    /\ UNCHANGED <<setting, asked, config, used>>

UseSetting ==
    /\ settingAt = "use"
    /\ IF ConsumerTakes(setting, Passed(setting, config.is))
       THEN used' = Passed(setting, config.is) /\ settingAt' = "used"
       ELSE settingAt' = "broken" /\ UNCHANGED used
    /\ UNCHANGED <<setting, asked, config>>

SettingNext ==
    \/ Follow
    \/ ReadManifest \/ ReadSuite \/ ParseCommand
    \/ ResolveConfig \/ ReadRequest \/ UseSetting

SettingSpec == SettingInit /\ [][SettingNext]_settingVars

-----------------------------------------------------------------------------
SettingTypeOK ==
    /\ setting \in Setting \cup {"none"}
    /\ asked \in [Layer -> SettingValue \cup {Absent}]
    /\ settingAt \in Layer \cup {"resolve", "request", "use", "used", "refused", "broken"}
    /\ config \in [from : Layer \cup {Absent}, is : SettingValue \cup {Absent}]
    /\ used \in SettingValue \cup {Absent, "unbounded"}

Outranks(l, k) == <<l, k>> \in {<<"command", "suite">>, <<"command", "manifest">>,
                                <<"suite", "manifest">>}

\* A setting that passed the checks of the layers and of the plan is never refused
\* by the worker or by the code that uses it, and what is used is what the highest
\* layer that gives it says, a zero, a false and a lifted bound included.
SettingsAreUsable ==
    /\ settingAt # "broken"
    /\ settingAt = "used" =>
          LET given == {l \in Layer : asked[l] # Absent}
              wanted == IF given = {} THEN SettingDefault(setting)
                        ELSE asked[CHOOSE l \in given : \A k \in given \ {l} : Outranks(l, k)]
          IN IF wanted = "null" THEN used \in {"null", "unbounded"} ELSE used = wanted
=============================================================================
