-------------------------- MODULE MCWorkerAttempt --------------------------
(***************************************************************************)
(* One attempt with every exception handler of the worker, every policy for  *)
(* measuring, a torn line, and a Ctrl-C or a kill.                          *)
(***************************************************************************)
EXTENDS WorkerRun

MCMeasures == {"never", "passed", "always"}
MCRaising == Stage
=============================================================================
