-------------------------- MODULE MCEvaluationRun --------------------------
(***************************************************************************)
(* Two evaluations of two jobs each, with two stops: enough for an          *)
(* evaluation that is closed while its sibling failed, a job whose first    *)
(* attempt left details, and a resume that is itself stopped.  A payload     *)
(* with outputs and samples, one with outputs only, and one with neither,    *)
(* the first of which passes.                                                *)
(***************************************************************************)
EXTENDS EvaluationRun

MCNEval == 2
MCNCase == 2
MCAnswers == {"measured", "mismatch", "synthesized"}
MCMaxStops == 2
=============================================================================
