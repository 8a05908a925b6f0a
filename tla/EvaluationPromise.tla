------------------------- MODULE EvaluationPromise -------------------------
(***************************************************************************)
(* What the documents promise of an evaluation's artifacts, whichever       *)
(* processes write them and wherever they stop (docs/architecture.md,       *)
(* docs/result-layout.md): the manifest's state machine, rows that are       *)
(* written once and only while the evaluation runs, a complete evaluation    *)
(* that has every row, and an index of complete evaluations only.           *)
(***************************************************************************)
CONSTANTS
    Eval,   \* the evaluations of a run
    Case    \* the cases of every evaluation

VARIABLES
    status,     \* the manifest's status, "none" before there is a manifest
    recorded,   \* the jobs with a row in results.csv
    published   \* the evaluations in their candidate's history.csv

promiseVars == <<status, recorded, published>>

JobsOf(e) == {e} \X Case

PromiseInit ==
    /\ status = [e \in Eval |-> "none"]
    /\ recorded = {}
    /\ published = {}

MoveTo(e, from, to) ==
    /\ status[e] = from
    /\ status' = [status EXCEPT ![e] = to]
    /\ UNCHANGED <<recorded, published>>

Complete(e) ==
    /\ JobsOf(e) \subseteq recorded
    /\ MoveTo(e, "running", "complete")

Record(e, c) ==
    /\ status[e] = "running"
    /\ <<e, c>> \notin recorded
    /\ recorded' = recorded \cup {<<e, c>>}
    /\ UNCHANGED <<status, published>>

Publish(e) ==
    /\ status[e] = "complete"
    /\ published' = published \cup {e}
    /\ UNCHANGED <<status, recorded>>

PromiseNext ==
    \E e \in Eval :
        \/ MoveTo(e, "none", "planned")
        \/ MoveTo(e, "planned", "running")
        \/ MoveTo(e, "interrupted", "running")
        \/ MoveTo(e, "running", "interrupted")
        \/ MoveTo(e, "running", "failed")
        \/ Complete(e)
        \/ \E c \in Case : Record(e, c)
        \/ Publish(e)

PromiseSpec == PromiseInit /\ [][PromiseNext]_promiseVars
=============================================================================
