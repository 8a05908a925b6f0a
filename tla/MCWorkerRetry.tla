--------------------------- MODULE MCWorkerRetry ---------------------------
(***************************************************************************)
(* Two attempts: a kill or a Ctrl-C ends the first, and the second meets its *)
(* log, its response and perhaps its orphaned worker.  Workers judge, hang,  *)
(* crash and are killed, but raise no exception.                            *)
(***************************************************************************)
EXTENDS WorkerRun

MCMeasures == {"passed"}
MCRaising == {}
=============================================================================
