----------------------------- MODULE WireContract -----------------------------
(***************************************************************************)
(* The records that cross a process boundary or a restart as JSON (models.py, *)
(* config.py, execution/protocol.py, EvaluationManifest of                    *)
(* reporting/artifact_writer.py): what a constructor accepts, what to_dict     *)
(* writes and what from_dict makes of a file that is intact, was written by an *)
(* older version or is not what it should be.                                *)
(*                                                                         *)
(* A record is a function of its fields.  The objects a dictionary nests for    *)
(* layout alone (correctness and performance of the configuration, reference,  *)
(* candidate and environment of the manifest) are flattened.                  *)
(***************************************************************************)
EXTENDS Integers, Sequences, FiniteSets, SequencesExt

VARIABLES
    wirePhase,   \* "idle", "constructed", "raised", "written", "read"
    sent,        \* the record the sender constructs
    change,      \* how the file differs from what the sender wrote
    wire,        \* the JSON object in the file
    received     \* what from_dict returns, or Refused

wireVars == <<wirePhase, sent, change, wire, received>>

-----------------------------------------------------------------------------
(* Values.  Scalars have their text as v, containers their items or members.     *)
Scalar(t, v) == [t |-> t, v |-> v]
Nothing == Scalar("none", "")
Str(s) == Scalar("string", s)
Integer(n) == Scalar("integer", n)
Float(x) == Scalar("float", x)
List(seq) == [t |-> "list", items |-> seq]
Tuple(seq) == [t |-> "tuple", items |-> seq]
FrozenSet(set) == [t |-> "frozenset", items |-> set]
Object(m) == [t |-> "map", m |-> m]
Keyed(m) == [t |-> "keyed", m |-> m]    \* a mapping by numbers, given by their texts
Record(f) == [t |-> "record", m |-> f]
Refused == [t |-> "refused", m |-> <<>>]

TagKey == "__benchmark_engine_type__"
Tagged(tag, key, x) == Object(TagKey :> Str(tag) @@ key :> x)

(* _encode_metadata: tuples, sets, paths and the three enumerations travel as    *)
(* tagged objects.  A set is written in an order of its own.                  *)
RECURSIVE Encode(_)
Encode(x) ==
    CASE x.t \in {"none", "string", "bool", "integer", "float"} -> x
      [] x.t = "enum" -> Object(TagKey :> Str("enum") @@ "enum" :> Str("ResultStatus")
                               @@ "value" :> Str(x.v))
      [] x.t = "path" -> Tagged("path", "value", Str(x.v))
      [] x.t = "tuple" -> Tagged("tuple", "items", List([i \in DOMAIN x.items |-> Encode(x.items[i])]))
      [] x.t = "frozenset" -> Tagged("frozenset", "items", List(SetToSeq({Encode(y) : y \in x.items})))
      [] x.t = "list" -> List([i \in DOMAIN x.items |-> Encode(x.items[i])])
      [] x.t = "map" -> Object([k \in DOMAIN x.m |-> Encode(x.m[k])])

(* What _encode_metadata raises at: an object that is no metadata, a number that  *)
(* is not finite, a key that is no string.                                  *)
RECURSIVE IsMetadata(_)
IsMetadata(x) ==
    CASE x.t \in {"object", "keyed"} -> FALSE
      [] x.t = "float" -> x.v \notin {"nan", "inf"}
      [] x.t \in {"tuple", "list"} -> \A i \in DOMAIN x.items : IsMetadata(x.items[i])
      [] x.t = "frozenset" -> \A y \in x.items : IsMetadata(y)
      [] x.t = "map" -> \A k \in DOMAIN x.m : IsMetadata(x.m[k])
      [] OTHER -> TRUE

(* _decode_metadata.  An object is taken for a tagged value when its keys are     *)
(* exactly those of the tag, whoever wrote it.                               *)
HasTag(x, tag, keys) ==
    /\ TagKey \in DOMAIN x.m /\ x.m[TagKey] = Str(tag)
    /\ DOMAIN x.m = {TagKey} \union keys

RECURSIVE Decode(_)
Decode(x) ==
    CASE x.t = "list" -> List([i \in DOMAIN x.items |-> Decode(x.items[i])])
      [] x.t # "list" /\ x.t # "map" -> x
      [] x.t = "map" /\ HasTag(x, "path", {"value"}) -> Scalar("path", x.m["value"].v)
      [] x.t = "map" /\ HasTag(x, "tuple", {"items"}) ->
            Tuple([i \in DOMAIN x.m["items"].items |-> Decode(x.m["items"].items[i])])
      [] x.t = "map" /\ HasTag(x, "frozenset", {"items"}) ->
            FrozenSet({Decode(y) : y \in Range(x.m["items"].items)})
      [] x.t = "map" /\ HasTag(x, "enum", {"enum", "value"}) -> Scalar("enum", x.m["value"].v)
      [] OTHER -> Object([k \in DOMAIN x.m |-> Decode(x.m[k])])

(* Metadata a tag would be read into: a mapping with the reserved key.          *)
RECURSIVE HasReservedKey(_)
HasReservedKey(x) ==
    CASE x.t \in {"tuple", "list"} -> \E i \in DOMAIN x.items : HasReservedKey(x.items[i])
      [] x.t = "frozenset" -> \E y \in x.items : HasReservedKey(y)
      [] x.t = "map" -> TagKey \in DOMAIN x.m \/ \E k \in DOMAIN x.m : HasReservedKey(x.m[k])
      [] x.t = "record" -> \E k \in DOMAIN x.m : HasReservedKey(x.m[k])
      [] OTHER -> FALSE

(* json.dumps: what it refuses, and what json.loads makes of what it wrote.  A     *)
(* tuple is written as a list and a number in a key as its text.              *)
RECURSIVE IsJson(_)
IsJson(x) ==
    CASE x.t \in {"object", "path", "frozenset"} -> FALSE
      [] x.t = "float" -> x.v \notin {"nan", "inf"}
      [] x.t \in {"tuple", "list"} -> \A i \in DOMAIN x.items : IsJson(x.items[i])
      [] x.t \in {"map", "keyed"} -> \A k \in DOMAIN x.m : IsJson(x.m[k])
      [] OTHER -> TRUE

RECURSIVE AsJson(_)
AsJson(x) ==
    CASE x.t \in {"tuple", "list"} -> List([i \in DOMAIN x.items |-> AsJson(x.items[i])])
      [] x.t \in {"map", "keyed"} -> Object([k \in DOMAIN x.m |-> AsJson(x.m[k])])
      [] OTHER -> x

-----------------------------------------------------------------------------
(* The kinds of fields, and the fields of each class.  The name of a class is     *)
(* the kind of a field that holds a record of it.                            *)
Choice ==
    [mode |-> {"all", "correctness", "performance"}, role |-> {"reference", "candidate"},
     timer |-> {"auto", "cuda_event", "cuda_graph", "wall_clock"},
     graph_mode |-> {"auto", "enabled", "disabled"}, policy |-> {"fail", "allow"},
     outcome |-> {"success", "error", "timeout", "oom", "crashed", "unsupported", "interrupted"},
     stage |-> {"startup", "import", "build", "correctness", "warmup", "sampling", "report", "complete"},
     event |-> {"DISCOVERED", "HEARTBEAT", "WORKER_EXITED"}, status |-> {"heartbeat", "success", "error"},
     state |-> {"planned", "running", "complete", "failed", "interrupted"}]

ConfigCore ==
    [mode |-> "mode", seeds |-> "seeds", default_comparator |-> "string", rtol |-> "number",
     atol |-> "number", equal_nan |-> "bool", determinism_repeats |-> "integer",
     timer |-> "timer", graph_mode |-> "graph_mode", warmup |-> "integer", samples |-> "integer",
     inner_iterations |-> "integer", timeout_s |-> "integer", regression_threshold_pct |-> "number"]
ConfigGates ==
    [perf_on_correctness_fail |-> "bool", min_speedup |-> "optional number",
     max_candidate_median_ms |-> "optional number", max_cv |-> "optional number",
     max_memory_bytes |-> "optional integer", unsupported_policy |-> "policy",
     gpu_lock_timeout_s |-> "number"]

EvaluationIdentityFields ==
    [run_id |-> "id", evaluation_id |-> "id", operator_id |-> "id", candidate_id |-> "id"]

ImplementationSpecFields ==
    [operator_id |-> "string", implementation_id |-> "string", role |-> "role", root |-> "path",
     entrypoint |-> "string", source_hash |-> "string", manifest_version |-> "integer"]

CaseSpecFields ==
    [case_id |-> "string", symbols |-> "metadata", seed |-> "integer", tags |-> "tags",
     timeout_s |-> "optional integer"]

InputBundleFields ==
    [args |-> "arguments", kwargs |-> "metadata", observed_state |-> "metadata"]

OutputLeafFields ==
    [path |-> "string", dtype |-> "string", shape |-> "integers", device |-> "string",
     stride |-> "optional integers", layout |-> "optional string",
     comparator |-> "optional string", metadata |-> "metadata"]

OutputBundleFields ==
    [leaves |-> "leaves", metadata |-> "metadata"]

EvaluationJobFields ==
    [identity |-> "EvaluationIdentity", reference |-> "ImplementationSpec",
     candidate |-> "ImplementationSpec", case |-> "CaseSpec", mode |-> "mode",
     output_dir |-> "path", result_id |-> "string",
     resolved_config |-> "ResolvedEvaluationConfig"]

EvaluationPlanFields ==
    [run_id |-> "string", mode |-> "mode", jobs |-> "jobs", environment_fingerprint |-> "string",
     suite_id |-> "string", fingerprint_kind |-> "string"]

StageTimeoutsFields ==
    [import_s |-> "number", build_s |-> "number", correctness_s |-> "number",
     performance_s |-> "number"]

WorkerRequestFields ==
    [identity |-> "EvaluationIdentity", result_id |-> "id", reference_root |-> "absolute",
     reference_entrypoint |-> "string", spec_entrypoint |-> "string",
     candidate_root |-> "absolute", candidate_entrypoint |-> "string",
     artifact_root |-> "absolute", case |-> "CaseSpec", mode |-> "mode",
     resolved_config |-> "ResolvedEvaluationConfig", cuda_devices |-> "devices",
     build_argv |-> "strings", timeouts |-> "StageTimeouts"]

WorkerResponseFields ==
    [identity |-> "EvaluationIdentity", result_id |-> "id", outcome |-> "outcome",
     stage |-> "stage", worker_pid |-> "integer", started_at_utc |-> "string",
     finished_at_utc |-> "string", elapsed_s |-> "number", stage_elapsed_s |-> "durations",
     diagnostic_path |-> "optional string",
     error_type |-> "optional string", error_message |-> "optional string",
     exit_code |-> "optional integer",
     result_payload |-> "payload"]

WorkerEventFields ==
    [sequence |-> "integer", event |-> "event", timestamp_utc |-> "string", pid |-> "integer",
     identity |-> "EvaluationIdentity", result_id |-> "id", stage |-> "stage",
     status |-> "status", elapsed_s |-> "number", child_pids |-> "integers",
     log_tail |-> "tail", message |-> "optional string"]

EvaluationManifestFields ==
    [identity |-> "EvaluationIdentity", status |-> "state", original_command |-> "strings",
     resolved_config |-> "ResolvedEvaluationConfig", reference_source_hash |-> "string",
     candidate_source_hash |-> "string", environment_snapshot |-> "json",
     environment_fingerprint |-> "string", suite_id |-> "string", mode |-> "mode",
     created_at_utc |-> "string", updated_at_utc |-> "string",
     terminal_reason |-> "optional string"]

FieldsOf ==
    [EvaluationIdentity |-> EvaluationIdentityFields,
     ImplementationSpec |-> ImplementationSpecFields,
     CaseSpec |-> CaseSpecFields,
     InputBundle |-> InputBundleFields,
     OutputLeaf |-> OutputLeafFields,
     OutputBundle |-> OutputBundleFields,
     ResolvedEvaluationConfig |-> ConfigCore @@ ConfigGates,
     EvaluationJob |-> EvaluationJobFields,
     EvaluationPlan |-> EvaluationPlanFields,
     StageTimeouts |-> StageTimeoutsFields,
     WorkerRequest |-> WorkerRequestFields,
     WorkerResponse |-> WorkerResponseFields,
     WorkerEvent |-> WorkerEventFields,
     EvaluationManifest |-> EvaluationManifestFields]

Classes == DOMAIN FieldsOf
ItemClass == [leaves |-> "OutputLeaf", jobs |-> "EvaluationJob"]

(* The fields a file may leave out, which the default then stands for.  A        *)
(* configuration leaves out all of its gates or none; a request leaves out its   *)
(* devices exactly when it is of version 1.                                   *)
OptionalOf(class) ==
    CASE class = "CaseSpec" -> {"timeout_s"}
      [] class = "OutputLeaf" -> {"stride", "layout", "comparator", "metadata"}
      [] class = "OutputBundle" -> {"metadata"}
      [] class = "EvaluationJob" -> {"result_id", "resolved_config"}
      [] class = "EvaluationPlan" -> {"suite_id", "fingerprint_kind"}
      [] class = "WorkerResponse" -> {"result_payload"}
      [] OTHER -> {}

Older(class) ==
    CASE class = "ResolvedEvaluationConfig" -> DOMAIN ConfigGates
      [] class = "WorkerRequest" -> {"cuda_devices"}
      [] OTHER -> {}

(* The version a file states; the others have none.                           *)
VersionOf == [WorkerRequest |-> Integer("2"), WorkerResponse |-> Integer("1"), WorkerEvent |-> Integer("1"),
              EvaluationManifest |-> Integer("1")]

DefaultOf ==
    [timeout_s |-> Nothing, stride |-> Nothing, layout |-> Nothing, comparator |-> Nothing,
     metadata |-> Object(<<>>), result_id |-> Str(""), suite_id |-> Str(""),
     fingerprint_kind |-> Str("runtime"), result_payload |-> Nothing, cuda_devices |-> Tuple(<<>>),
     perf_on_correctness_fail |-> Scalar("bool", "false"), min_speedup |-> Nothing,
     max_candidate_median_ms |-> Nothing, max_cv |-> Float("0.1"), max_memory_bytes |-> Nothing,
     unsupported_policy |-> Str("fail"), gpu_lock_timeout_s |-> Float("600.0")]

(* One record of each class, and the other values a field is given.  A file      *)
(* never holds more than one of them.                                        *)
RECURSIVE Usual(_, _)
Usual(kind, field) ==
    CASE kind \in Classes ->
            Record([f \in DOMAIN FieldsOf[kind] |->
                IF kind = "ResolvedEvaluationConfig" /\ f \in DOMAIN ConfigGates THEN DefaultOf[f]
                ELSE Usual(FieldsOf[kind][f], f)])
      [] kind \in DOMAIN ItemClass -> Tuple(<<Usual(ItemClass[kind], field)>>)
      [] kind \in DOMAIN Choice ->
            Str(IF kind = "mode" THEN "all" ELSE CHOOSE x \in Choice[kind] : TRUE)
      [] kind \in {"id", "string", "tail"} -> Str("text")
      [] kind = "integer" -> Integer("1")
      [] kind = "number" -> Float("1.5")
      [] kind = "bool" -> Scalar("bool", "false")
      [] kind \in {"metadata", "json"} -> Object("k" :> Integer("1"))
      [] kind = "durations" -> Object("import" :> Float("1.5"))
      [] kind = "path" -> Scalar("path", "relative")
      [] kind = "absolute" -> Scalar("path", "/absolute")
      [] kind = "tags" -> FrozenSet({Str("a"), Str("b")})
      [] kind \in {"seeds", "arguments"} -> Tuple(<<Integer("1"), Integer("0")>>)
      [] kind = "integers" -> Tuple(<<Integer("2"), Integer("1")>>)
      [] kind = "strings" -> Tuple(<<Str("text")>>)
      [] kind = "devices" -> Tuple(<<Str("cuda:0"), Str("cuda:1")>>)
      [] OTHER -> Nothing

(* The default configuration is the usual one.                                *)
Default(f) ==
    IF f = "resolved_config" THEN Usual("ResolvedEvaluationConfig", f) ELSE DefaultOf[f]

Metadata ==
    {Scalar("path", "p"), Float("nan"), Scalar("object", "tensor"), Keyed("1" :> Nothing),
     Tuple(<<FrozenSet({Scalar("enum", "passed"), Scalar("path", "p")}), List(<<Nothing>>)>>),
     Tagged("tuple", "items", List(<<>>)),
     Object(TagKey :> Str("tuple") @@ "k" :> Tuple(<<>>))}

OverAMegabyte == Object("k" :> Str("over a megabyte"))

Jsons ==
    {Tagged("tuple", "items", List(<<>>)), Keyed("1" :> Nothing), OverAMegabyte}
    \union {Object("k" :> x) :
               x \in {Float("nan"), Scalar("object", "tensor"), FrozenSet({Nothing}),
                      Tuple(<<Integer("1")>>), Keyed("1" :> Tuple(<<Nothing>>)),
                      Tagged("path", "value", Str("p"))}}

Others(kind) ==
    CASE kind = "metadata" ->
            {Object("k" :> x) : x \in Metadata} \union {Tagged("path", "value", Str("p"))}
      [] kind = "payload" -> Jsons \union {List(<<>>)}
      [] kind = "json" -> Jsons
      [] kind = "arguments" -> {Tuple(<<x>>) : x \in Metadata}
      [] kind \in DOMAIN Choice -> {Str(x) : x \in Choice[kind]}
      [] kind = "id" -> {Str("no id")}
      [] kind = "string" -> {Str("")}
      [] kind = "tail" -> {Str(""), Str("longer than the limit")}
      [] kind = "strings" -> {Tuple(<<>>), Tuple(<<Str("")>>), Tuple(<<Integer("1")>>)}
      [] kind = "integer" -> {Integer("0"), Integer("-1")}
      [] kind = "number" -> {Float("0.0"), Float("nan"), Float("-1.5")}
      [] kind = "optional integer" -> {Integer("1"), Integer("-1")}
      [] kind = "optional number" -> {Nothing, Float("1.5"), Float("nan"), Float("-1.5")}
      [] kind = "optional string" -> {Str("text"), Str("longer than the limit"), Str("../up")}
      [] kind = "durations" -> {Object("other" :> Float("1.5")), Object("import" :> Float("nan"))}
      [] kind = "bool" -> {Scalar("bool", "true")}
      [] kind = "absolute" -> {Scalar("path", "relative")}
      [] kind = "optional integers" -> {Tuple(<<Integer("1")>>)}
      [] kind = "integers" -> {Tuple(<<>>), Tuple(<<Integer("1"), Integer("0")>>)}
      [] kind \in {"seeds", "tags", "leaves", "jobs"} -> {Tuple(<<>>)}
      [] kind = "devices" -> {Tuple(<<>>), Tuple(<<Str("cuda:0"), Str("cuda:0")>>), Tuple(<<Str("cpu")>>)}
      [] OTHER -> {}

-----------------------------------------------------------------------------
(* __post_init__ of each class.                                               *)
Positive == {"determinism_repeats", "samples", "inner_iterations", "timeout_s", "import_s",
             "build_s", "correctness_s", "performance_s", "worker_pid", "pid"}
AtLeastZero == {"warmup", "rtol", "atol", "regression_threshold_pct", "min_speedup", "max_cv",
                "max_candidate_median_ms", "max_memory_bytes", "gpu_lock_timeout_s", "elapsed_s",
                "sequence"}
NeverEmpty == {"reference_source_hash", "candidate_source_hash", "environment_fingerprint",
               "suite_id", "created_at_utc", "updated_at_utc"}
Checked == {"ResolvedEvaluationConfig", "StageTimeouts", "WorkerRequest", "WorkerResponse", "WorkerEvent"}
IdsMatter == {"WorkerRequest", "WorkerResponse", "WorkerEvent"}

FieldIsAccepted(class, f, kind, x) ==
    CASE kind = "metadata" \/ kind = "arguments" -> IsMetadata(x)
      [] class \in Checked /\ f \in Positive -> x.v \notin {"0", "-1", "0.0", "-1.5", "nan"}
      [] class \in Checked /\ f \in AtLeastZero -> x.v \notin {"-1", "-1.5", "nan"}
      [] class = "EvaluationManifest" /\ f \in NeverEmpty -> x # Str("")
      [] kind = "seeds" -> x # Tuple(<<>>)
      [] kind = "id" /\ class \in IdsMatter -> x # Str("no id")
      [] kind = "EvaluationIdentity" /\ class \in IdsMatter ->
            \A g \in DOMAIN x.m : x.m[g] # Str("no id")
      [] kind = "EvaluationIdentity" /\ class = "EvaluationManifest" -> x.m.run_id # Str("no id")
      [] kind = "absolute" -> x.v = "/absolute"
      [] kind = "devices" -> x = Usual(kind, f) \/ x = Tuple(<<>>)
      [] kind = "tags" -> x.t = "frozenset"
      [] kind = "durations" -> x = Usual(kind, f)
      [] kind = "payload" /\ x = Nothing -> TRUE
      [] kind \in {"payload", "json"} ->
            x.t = "map" /\ IsJson(x) /\ (kind = "payload" => x # OverAMegabyte)
      [] kind = "strings" ->
            \A i \in DOMAIN x.items :
                x.items[i].t = "string" /\ (class = "WorkerRequest" => x.items[i] # Str(""))
      [] kind = "integers" /\ class = "WorkerEvent" ->
            \A i \in DOMAIN x.items : x.items[i].v \notin {"0", "-1"}
      [] kind = "tail" -> x # Str("longer than the limit")
      [] kind = "optional string" /\ class \in IdsMatter ->
            CASE f = "diagnostic_path" -> x \notin {Str("longer than the limit"), Str("../up")}
              [] OTHER -> x # Str("longer than the limit")
      [] OTHER -> TRUE

Accepts(class, r) ==
    /\ \A f \in DOMAIN r.m : FieldIsAccepted(class, f, FieldsOf[class][f], r.m[f])
    /\ class \in {"WorkerRequest", "EvaluationManifest"} => r.m.mode = r.m.resolved_config.m.mode

(* to_dict: what the file holds of a field.                                    *)
RECURSIVE WriteField(_, _)
WriteRecord(class, r) ==
    Object([f \in DOMAIN r.m |-> WriteField(FieldsOf[class][f], r.m[f])])
WriteField(kind, x) ==
    CASE kind \in Classes -> WriteRecord(kind, x)
      [] kind \in DOMAIN ItemClass ->
            List([i \in DOMAIN x.items |-> WriteRecord(ItemClass[kind], x.items[i])])
      [] kind = "metadata" -> Encode(x)
      [] kind = "arguments" -> List([i \in DOMAIN x.items |-> Encode(x.items[i])])
      [] kind \in {"payload", "json"} -> AsJson(x)
      [] kind \in {"path", "absolute"} -> Str(x.v)
      [] x.t = "tuple" -> List(x.items)
      [] x.t = "frozenset" -> List(SetToSeq(x.items))
      [] OTHER -> x

ToDict(class, r) ==
    Object(WriteRecord(class, r).m
          @@ IF class \in DOMAIN VersionOf THEN "schema_version" :> VersionOf[class] ELSE <<>>)

-----------------------------------------------------------------------------
(* from_dict.  The keys come first, then the type of every field, then the       *)
(* constructor.                                                             *)
HasType(kind, j) ==
    CASE kind \in {"id", "string", "tail", "path"} \union DOMAIN Choice -> j.t = "string"
      [] kind = "absolute" -> j = Str("/absolute")
      [] kind = "integer" -> j.t = "integer"
      [] kind = "number" -> j.t \in {"integer", "float"}
      [] kind = "bool" -> j.t = "bool"
      [] kind = "optional integer" -> j.t \in {"none", "integer"}
      [] kind = "optional number" -> j.t \in {"none", "integer", "float"}
      [] kind = "optional string" -> j.t \in {"none", "string"}
      [] kind \in {"integers", "seeds"} ->
            j.t = "list" /\ \A i \in DOMAIN j.items : j.items[i].t = "integer"
      [] kind = "optional integers" -> j.t \in {"none", "list"}
      [] kind \in {"strings", "tags", "devices"} ->
            j.t = "list" /\ \A i \in DOMAIN j.items : j.items[i].t = "string"
      [] kind \in {"arguments"} \union DOMAIN ItemClass -> j.t = "list"
      [] kind = "payload" -> j.t \in {"none", "map"}
      [] kind = "metadata" -> j.t = "map" /\ Decode(j).t = "map"
      [] OTHER -> j.t = "map"

HasKeys(class, keys) ==
    LET names == DOMAIN FieldsOf[class]
    IN  keys \subseteq names /\ (names \ OptionalOf(class) \subseteq keys \/ keys = names \ Older(class))

(* A mutant of IsOfVersion: a request of either version may have devices or not.  *)
IsOfSomeVersion(class, j) ==
    class \in DOMAIN VersionOf => j.m["schema_version"] \in {Integer("1"), Integer("2")}

IsOfVersion(class, j) ==
    class \in DOMAIN VersionOf =>
        /\ "schema_version" \in DOMAIN j.m
        /\ IF class = "WorkerRequest"
           THEN j.m["schema_version"] = Integer(IF "cuda_devices" \in DOMAIN j.m THEN "2" ELSE "1")
           ELSE j.m["schema_version"] = VersionOf[class]

RECURSIVE ReadField(_, _)
ReadRecord(class, keys, j) ==
    IF \A f \in keys : HasType(FieldsOf[class][f], j.m[f])
    THEN LET r == Record([f \in DOMAIN FieldsOf[class] |->
                     IF f \in keys THEN ReadField(FieldsOf[class][f], j.m[f]) ELSE Default(f)])
         IN  IF (\A f \in DOMAIN r.m : r.m[f] # Refused) /\ Accepts(class, r) THEN r ELSE Refused
    ELSE Refused
ReadField(kind, j) ==
    CASE kind \in Classes -> ReadRecord(kind, DOMAIN j.m, j)
      [] kind \in DOMAIN ItemClass ->
            Tuple([i \in DOMAIN j.items |->
                        ReadRecord(ItemClass[kind], DOMAIN j.items[i].m, j.items[i])])
      [] kind = "metadata" -> Decode(j)
      [] kind = "arguments" -> Tuple([i \in DOMAIN j.items |-> Decode(j.items[i])])
      [] kind \in {"path", "absolute"} -> Scalar("path", j.v)
      [] kind = "tags" -> FrozenSet(Range(j.items))
      [] kind \in DOMAIN Choice -> IF j.v \in Choice[kind] THEN j ELSE Refused
      [] j.t = "list" -> Tuple(j.items)
      [] OTHER -> j

FromDict(class, j) ==
    LET keys == DOMAIN j.m \ (IF class \in DOMAIN VersionOf THEN {"schema_version"} ELSE {})
    IN  IF HasKeys(class, keys) /\ IsOfVersion(class, j) THEN ReadRecord(class, keys, j) ELSE Refused

-----------------------------------------------------------------------------
WireInit ==
    /\ wirePhase = "idle" /\ sent = [class |-> "none", record |-> Nothing]
    /\ change = [how |-> "intact", field |-> ""] /\ wire = Nothing /\ received = Nothing

(* The constructor of a record: it raises, or the record exists.                *)
Construct(class, f, x) ==
    /\ wirePhase = "idle"
    /\ LET r == Record([Usual(class, "").m EXCEPT ![f] = x])
       IN  /\ sent' = [class |-> class, record |-> r]
           /\ wirePhase' = IF Accepts(class, r) THEN "constructed" ELSE "raised"
    /\ UNCHANGED <<change, wire, received>>

(* to_json into a file, which is intact when it is read, or an older version's,    *)
(* or is not what the sender wrote: a key dropped, added or of another type.      *)
Rewritten(class, j, how, f) ==
    CASE how = "intact" -> j.m
      [] how = "dropped" -> [k \in DOMAIN j.m \ {f} |-> j.m[k]]
      [] how = "added" -> j.m @@ "unknown" :> Nothing
      [] how = "retyped" -> [j.m EXCEPT ![f] = Scalar("bool", "true")]
      [] how = "older" ->
            LET kept == [k \in DOMAIN j.m \ Older(class) |-> j.m[k]]
            IN  IF class \in DOMAIN VersionOf THEN [kept EXCEPT !["schema_version"] = Integer("1")] ELSE kept
      [] how = "other version" -> [j.m EXCEPT !["schema_version"] = Integer("3")]

Changes(class) ==
    [how : {"intact", "added"}, field : {""}]
    \union [how : {"dropped", "retyped"}, field : DOMAIN FieldsOf[class]]
    \union [how : IF Older(class) # {} THEN {"older"} ELSE {}, field : {""}]
    \union [how : IF class \in DOMAIN VersionOf THEN {"other version"} ELSE {}, field : {""}]

WriteWire(c) ==
    /\ wirePhase = "constructed" /\ c \in Changes(sent.class)
    /\ change' = c
    /\ wire' = Object(Rewritten(sent.class, ToDict(sent.class, sent.record), c.how, c.field))
    /\ wirePhase' = "written"
    /\ UNCHANGED <<sent, received>>

ReadWire ==
    /\ wirePhase = "written"
    /\ received' = FromDict(sent.class, wire)
    /\ wirePhase' = "read"
    /\ UNCHANGED <<sent, change, wire>>

WireNext ==
    \/ \E class \in Classes : \E f \in DOMAIN FieldsOf[class] :
           \E x \in Others(FieldsOf[class][f]) \union {Usual(class, "").m[f]} : Construct(class, f, x)
    \/ \E class \in Classes : \E c \in Changes(class) : WriteWire(c)
    \/ ReadWire

WireSpec == WireInit /\ [][WireNext]_wireVars

-----------------------------------------------------------------------------
WireTypeOK ==
    /\ wirePhase \in {"idle", "constructed", "raised", "written", "read"}
    /\ IF wirePhase = "idle" THEN sent = [class |-> "none", record |-> Nothing]
       ELSE sent.class \in Classes /\ sent.record.t = "record"
    /\ IF wirePhase \in {"written", "read"} THEN change \in Changes(sent.class) /\ wire.t = "map"
       ELSE change = [how |-> "intact", field |-> ""] /\ wire = Nothing
    /\ IF wirePhase = "read" THEN received.t \in {"record", "refused"} ELSE received = Nothing

(* What a reader owes: the record itself for an intact file, but its payload or   *)
(* environment as JSON has them; the default for a field a file of an older version *)
(* lacks; nothing for any other file.                                       *)
WithDefaults(r, fields) ==
    Record([f \in DOMAIN r.m |-> IF f \in fields THEN Default(f) ELSE r.m[f]])

Owed ==
    LET kind == FieldsOf[sent.class]
        r == Record([f \in DOMAIN sent.record.m |->
                        IF kind[f] \in {"payload", "json"} THEN AsJson(sent.record.m[f])
                        ELSE sent.record.m[f]])
    IN  CASE change.how = "intact" -> r
          [] change.how = "older" -> WithDefaults(r, Older(sent.class))
          [] change.how = "dropped" /\ change.field \in OptionalOf(sent.class) ->
                WithDefaults(r, {change.field})
          [] change.how = "retyped" /\ kind[change.field] = "bool" ->
                Record([r.m EXCEPT ![change.field] = Scalar("bool", "true")])
          [] OTHER -> Refused

(* Metadata with the reserved key is the exception: from_dict cannot tell it      *)
(* from a value that was encoded.                                           *)
IsMistakable ==
    \E f \in DOMAIN sent.record.m :
        /\ FieldsOf[sent.class][f] \in {"metadata", "arguments"}
        /\ HasReservedKey(sent.record.m[f])

(* Property: whatever passes a constructor reads back as the same record, tuples, *)
(* sets, paths and enumerations included, with two exceptions: metadata with the  *)
(* reserved key, and the tuples and number keys of a result_payload or an          *)
(* environment_snapshot, which json.dumps accepts and which come back as lists and *)
(* strings.  A file of version 1 reads as a record of this version with the       *)
(* defaults; and no other file, however close, is read as a record (_check_keys,  *)
(* _fields and the typed readers of each from_dict).                            *)
WireIsFaithful ==
    wirePhase = "read" /\ ~IsMistakable => received = Owed
=============================================================================
