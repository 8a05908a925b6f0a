------------------------- MODULE MCSupportingParts -------------------------
(***************************************************************************)
(* The parts of the engine that share no state with one another, side by   *)
(* side: a behaviour picks one of them and takes its steps, the variables  *)
(* of the others keep their initial values.                                *)
(***************************************************************************)
EXTENDS ResultTables, LegacyImport, LogDrain, CaseEvaluation, OperatorVerdicts,
        StoredRows, RunPlanning, WireContract, ModelProjection, OperatorCases, Settings,
        SampleTiming, TLC

VARIABLE part

-----------------------------------------------------------------------------
MCCandidateOf == <<"a", "a", "b">>

MCOperatorOrder == <<"Gemm", "gemm", "topk">>
MCCandidateOrder == <<"V1", "v1", "v2">>
MCFolded == "V1" :> "v1" @@ "v1" :> "v1" @@ "v2" :> "v2"
         @@ "Gemm" :> "gemm" @@ "gemm" :> "gemm" @@ "topk" :> "topk"
MCGemmCases == "small" :> {"smoke"} @@ "large" :> {"full"}
MCCaseTags ==
    [o \in Range(MCOperatorOrder) |->
        IF o = "topk" THEN [given |-> "tiny" :> {"smoke"}, edited |-> "tiny" :> {"full"}]
        ELSE [given |-> MCGemmCases, edited |-> MCGemmCases @@ "huge" :> {"smoke"}]]
MCOperatorManifest ==
    [o \in Range(MCOperatorOrder) |->
        IF o = "topk" THEN [timer |-> "auto", limit |-> 4, cuda |-> FALSE]
        ELSE [timer |-> "cuda_event", limit |-> 5, cuda |-> TRUE]]

MCReferences == "Gemm" :> "absent" @@ "gemm" :> "good" @@ "topk" :> "good"
MCNoCandidates == "V1" :> "absent" @@ "v1" :> "absent" @@ "v2" :> "absent"
MCCandidates == "Gemm" :> MCNoCandidates
             @@ "gemm" :> [MCNoCandidates EXCEPT !["v1"] = "good", !["v2"] = "good"]
             @@ "topk" :> [MCNoCandidates EXCEPT !["v1"] = "good"]
WithCandidate(d, o) ==
    {[d EXCEPT ![o][c] = s] : c \in Range(MCCandidateOrder), s \in DirState}

\* the reference of gemm or of topk and v1 of gemm, or two candidates of gemm, that
\* are in any state; a reference or candidates by a name that gemm is mistaken for,
\* which is no ID
MCTrees ==
    {<<[MCReferences EXCEPT !["gemm"] = s], [MCCandidates EXCEPT !["gemm"]["v1"] = u]>> :
        s, u \in DirState}
    \cup {<<[MCReferences EXCEPT !["topk"] = s], MCCandidates>> :
              s \in DirState \ {"declares other"}}
    \cup ({MCReferences}
        \X UNION {WithCandidate(d, "gemm") : d \in WithCandidate(MCCandidates, "gemm")})
    \cup {<<[MCReferences EXCEPT !["Gemm"] = "stopped"], MCCandidates>>,
          <<MCReferences, [MCCandidates EXCEPT !["Gemm"]["v1"] = "stopped"]>>}
MCSuite == [is |-> "suite", mode |-> "all", operators |-> {}, excluded |-> {},
            candidates |-> {}, tags |-> {}, seeds |-> <<0, 1>>, timer |-> Unset,
            limit |-> NoLimit]
MCSuites ==
    {MCSuite,
     [MCSuite EXCEPT !.candidates = {"v1"}, !.tags = {"smoke"}, !.seeds = <<0>>, !.limit = 3],
     [MCSuite EXCEPT !.operators = {"gemm", "Gemm"}, !.excluded = {"Gemm"},
                     !.timer = "wall_clock"]}
MCRun == [is |-> "run", operators |-> {}, excluded |-> {}, candidates |-> {}, cases |-> {},
          tags |-> {}, abbreviates |-> FALSE, mode |-> Unset, seeds |-> <<>>,
          limit |-> NoLimit, timer |-> Unset, evaluation |-> Unset]
MCCommands ==
    {MCRun,
     [MCRun EXCEPT !.timer = "wall_clock"],
     [MCRun EXCEPT !.operators = {"gemm", "topk"}, !.excluded = {"topk"}],
     [MCRun EXCEPT !.operators = {"gemm"}, !.candidates = {"v1"}, !.seeds = <<7>>,
                   !.limit = 0],
     [MCRun EXCEPT !.operators = {"gemm"}, !.candidates = {"v2"}, !.cases = {"large"}],
     [MCRun EXCEPT !.operators = {"gemm"}, !.candidates = {"v1", "v2"}, !.tags = {"smoke"},
                   !.abbreviates = TRUE],
     [MCRun EXCEPT !.operators = {"gemm"}, !.candidates = {"v1"}, !.seeds = <<7, 7>>],
     [MCRun EXCEPT !.operators = {"topk"}, !.candidates = {"v1"}, !.mode = "correctness",
                   !.evaluation = "e1"]}

MCAdapters ==
    {[projection |-> "deepseek", phase |-> "prefill", adapter |-> "logits",
      operator |-> "o1", instances |-> 3],
     [projection |-> "deepseek", phase |-> "prefill", adapter |-> "topk",
      operator |-> "o2", instances |-> 1],
     [projection |-> "deepseek", phase |-> "prefill", adapter |-> "dense",
      operator |-> "none", instances |-> 1],
     [projection |-> "deepseek", phase |-> "decode", adapter |-> "logits",
      operator |-> "o1", instances |-> 2]}
MCEvaluation(o, c) == [operator |-> o, candidate |-> c, id |-> "second"]
MCEvaluations == {MCEvaluation("o1", "c1"), MCEvaluation("o1", "c2"), MCEvaluation("o2", "c1")}
MCJob(o, c, r, a) ==
    [evaluation |-> MCEvaluation(o, c), result |-> r, adapter |-> a,
     phase |-> "prefill", seed |-> "0"]
MCJobs == {MCJob("o1", "c1", "r1", "logits"), MCJob("o1", "c2", "r3", "logits"),
           MCJob("o2", "c1", "r4", "topk"), MCJob("o2", "c1", "r5", "logits")}

MCPaged == [op |-> "paged_logits", phase |-> "unsaid", batch |-> 1, query |-> 1, raw |-> 7,
            performance |-> FALSE]
MCTopK == [op |-> "topk", phase |-> "unsaid", batch |-> 1, query |-> 1, length |-> 6,
           seqLen |-> 5, topk |-> 3, raw |-> 0, performance |-> FALSE]
MCQuant == [op |-> "indexer_quant", phase |-> "unsaid", batch |-> 1, query |-> 1, raw |-> 5,
            position |-> 2]
MCOpCases ==
    {[MCPaged EXCEPT !.batch = 2],
     [MCPaged EXCEPT !.batch = 3, !.raw = 8, !.performance = TRUE],
     [MCPaged EXCEPT !.query = 4, !.raw = 9, !.performance = TRUE, !.phase = "prefill"],
     [MCPaged EXCEPT !.query = 4, !.raw = 9],
     [MCPaged EXCEPT !.query = 2, !.batch = 2, !.performance = TRUE],
     [MCPaged EXCEPT !.batch = 2, !.phase = "prefill"],
     [op |-> "full_reuse_logits", m |-> 4],
     [op |-> "full_reuse_logits", m |-> 5],
     [op |-> "mega_logits", m |-> 6],
     [op |-> "mega_logits", m |-> 2],
     [MCTopK EXCEPT !.batch = 2],
     [MCTopK EXCEPT !.batch = 2, !.topk = 2],
     [MCTopK EXCEPT !.query = 3, !.raw = 12, !.performance = TRUE, !.phase = "prefill"],
     [MCTopK EXCEPT !.query = 3, !.raw = 4],
     [MCTopK EXCEPT !.query = 3, !.raw = 20],
     [MCTopK EXCEPT !.query = 3, !.raw = 12, !.batch = 2],
     [MCTopK EXCEPT !.query = 3, !.raw = 12, !.batch = 2, !.phase = "prefill"],
     [MCTopK EXCEPT !.seqLen = 1],
     [MCTopK EXCEPT !.topk = 4],
     [op |-> "sparse_decode", batch |-> 2, raw |-> 13, ratio |-> 2, page |-> 3],
     [op |-> "sparse_decode", batch |-> 2, raw |-> 5, ratio |-> 4, page |-> 1],
     [op |-> "dense_swa", batch |-> 2, raw |-> 3],
     [op |-> "dense_swa", batch |-> 2, raw |-> 9],
     [op |-> "sparse_prefill", query |-> 2, raw |-> 5, ratio |-> 2, topk |-> 2],
     [op |-> "sparse_prefill", query |-> 1, raw |-> 5, ratio |-> 2, topk |-> 1],
     [op |-> "dsa_sparse", tokens |-> 2, pages |-> 2, topk |-> 4, valid |-> 3],
     [op |-> "glm5_sparse", query |-> 2, raw |-> 4, topk |-> 2],
     [op |-> "glm5_unified", query |-> 3, raw |-> 2, topk |-> 2],
     [op |-> "glm5_dense", query |-> 2, raw |-> 5, sm90 |-> TRUE],
     [op |-> "glm5_dense", query |-> 2, raw |-> 5, sm90 |-> FALSE],
     [op |-> "glm5_index_score", phase |-> "prefill", m |-> 2, raw |-> 6],
     [op |-> "glm5_index_score", phase |-> "decode", m |-> 2, raw |-> 6],
     [op |-> "fp8_gemm", m |-> 3, n |-> 4],
     [op |-> "projection", batch |-> 2, m |-> 2, n |-> 3],
     [op |-> "glm5_indexer", kind |-> "index_k_proj", m |-> 2, raw |-> 3],
     [op |-> "glm5_indexer", kind |-> "index_q_upproj", m |-> 2, raw |-> 3],
     [op |-> "glm5_indexer", kind |-> "index_weights_proj", m |-> 2, raw |-> 3],
     [op |-> "glm5_indexer", kind |-> "index_score", m |-> 1, raw |-> 3],
     [op |-> "vector_add", size |-> 1],
     [MCQuant EXCEPT !.query = 3, !.phase = "prefill"],
     [MCQuant EXCEPT !.batch = 2],
     [MCQuant EXCEPT !.batch = 2, !.query = 2],
     [MCQuant EXCEPT !.batch = 2, !.query = 2, !.phase = "prefill"],
     [op |-> "grouped_gemm", rows |-> 4],
     [op |-> "masked_gemm", rows |-> 5],
     [op |-> "moe", m |-> 1, pattern |-> "no_local"],
     [op |-> "moe", m |-> 1, pattern |-> "repeated_local"],
     [op |-> "moe", m |-> 4, pattern |-> "legacy_uniform_ep0"],
     [op |-> "moe", m |-> 1, pattern |-> "legacy_uniform_ep0"],
     [op |-> "deepep_dispatch"]}

-----------------------------------------------------------------------------
Parts == {"tables", "import", "drain", "case", "comparison", "rows", "planning",
          "wire", "projection", "operators", "settings", "timing"}

PartsInit ==
    /\ part \in Parts
    /\ TablesInit /\ ImportInit /\ LogInit /\ CaseInit /\ ComparisonInit
    /\ RowsInit /\ PlanningInit /\ WireInit /\ ProjectionInit
    /\ CaseInputsInit /\ SettingInit /\ TimingInit

PartsNext ==
    /\ part' = part
    /\ \/ part = "tables" /\ TablesNext
       \/ part # "tables" /\ UNCHANGED tableVars
    /\ \/ part = "import" /\ ImportNext
       \/ part # "import" /\ UNCHANGED importVars
    /\ \/ part = "drain" /\ LogNext
       \/ part # "drain" /\ UNCHANGED drainVars
    /\ \/ part = "case" /\ CaseNext
       \/ part # "case" /\ UNCHANGED caseVars
    /\ \/ part = "comparison" /\ VerdictNext
       \/ part # "comparison" /\ UNCHANGED comparisonVars
    /\ \/ part = "rows" /\ RowsNext
       \/ part # "rows" /\ UNCHANGED rowVars
    /\ \/ part = "planning" /\ PlanningNext
       \/ part # "planning" /\ UNCHANGED planningVars
    /\ \/ part = "wire" /\ WireNext
       \/ part # "wire" /\ UNCHANGED wireVars
    /\ \/ part = "projection" /\ ProjectionNext
       \/ part # "projection" /\ UNCHANGED projectionVars
    /\ \/ part = "operators" /\ CaseInputsNext
       \/ part # "operators" /\ UNCHANGED caseLayoutVars
    /\ \/ part = "settings" /\ SettingNext
       \/ part # "settings" /\ UNCHANGED settingVars
    /\ \/ part = "timing" /\ TimingNext
       \/ part # "timing" /\ UNCHANGED timingVars

partsVars == <<part, tableVars, importVars, drainVars, caseVars, comparisonVars,
               rowVars, planningVars, wireVars, projectionVars, caseLayoutVars, settingVars,
               timingVars>>

\* an import or a drain is only scheduled in the behaviours that picked it
PartsFairness ==
    /\ \A i \in Importer :
          /\ WF_importVars(part = "import" /\ CsvIsGiven /\ Proceed(i))
          /\ WF_importVars(part = "import" /\ CsvIsGiven /\ BeginAgain(i))
    /\ WF_drainVars(part = "drain" /\ Thread)
    /\ WF_drainVars(part = "drain" /\ Waiter)

PartsSpec == PartsInit /\ [][PartsNext]_partsVars /\ PartsFairness

\* Every variable of every part has its type.
PartsTypeOK ==
    /\ part \in Parts
    /\ TablesTypeOK /\ ImportTypeOK /\ LogTypeOK /\ CaseTypeOK /\ VerdictTypeOK /\ RowsTypeOK
    /\ PlanningTypeOK /\ WireTypeOK /\ ProjectionTypeOK /\ LayoutTypeOK /\ SettingTypeOK
    /\ TimingTypeOK
=============================================================================
