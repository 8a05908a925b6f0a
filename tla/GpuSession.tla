----------------------------- MODULE GpuSession -----------------------------
(***************************************************************************)
(* What the GPU lock is for: the engine holds it around one call of        *)
(* Controller.run (engine.py:985-1006), which starts a worker process in a  *)
(* session of its own and returns only after that process group is gone.   *)
(* The recorded PID is the controller's, and the GPU is used by the worker: *)
(* a controller killed by SIGKILL leaves its worker running, and so does an *)
(* exception that leaves run where no handler terminates the worker.        *)
(***************************************************************************)
EXTENDS GpuLock

CONSTANT Raising  \* bound: the controllers whose run may raise over a live worker

ASSUME RaisingAssumption == Raising \subseteq Proc

VARIABLES
    worker,    \* each controller's worker process: "none", "running", "exited"
    abandoned  \* the controllers an exception took out of run over a live worker

sessionVars == <<worker, abandoned>>
vars == <<lockVars, sessionVars>>

SessionInit ==
    /\ Init
    /\ worker = [p \in Proc |-> "none"]
    /\ abandoned = {}

(* The engine creates the next job's GpuLock and enters acquire.  After an  *)
(* exception of run there is no next job (engine.py:1007-1018).             *)
NextJob(p) ==
    /\ p \notin abandoned
    /\ BeginAcquire(p)
    /\ worker' = [worker EXCEPT ![p] = "none"]
    /\ UNCHANGED abandoned

(* A mutant of StartWorker: the worker is started without waiting for the lock. *)
StartWorkerEarly(p) ==
    /\ pc[p] \in {"trying", "held"}
    /\ worker[p] = "none"
    /\ worker' = [worker EXCEPT ![p] = "running"]
    /\ UNCHANGED <<lockVars, abandoned>>

(* Popen, once per job, while the lock is held.                             *)
StartWorker(p) ==
    /\ pc[p] = "held"
    /\ worker[p] = "none"
    /\ worker' = [worker EXCEPT ![p] = "running"]
    /\ UNCHANGED <<lockVars, abandoned>>

(* The worker ends by itself or is terminated with its process group.  A   *)
(* worker whose controller died can only end by itself.                     *)
WorkerExit(p) ==
    /\ worker[p] = "running"
    /\ worker' = [worker EXCEPT ![p] = "exited"]
    /\ UNCHANGED <<lockVars, abandoned>>

(* An exception leaves run over a live worker: between Popen and the try    *)
(* nothing terminates it (a KeyboardInterrupt, a drain that does not start), *)
(* and further interrupts can cut off both calls of terminate_process_group. *)
AbandonWorker(p) ==
    /\ p \in Raising
    /\ pc[p] = "held"
    /\ worker[p] = "running"
    /\ abandoned' = abandoned \cup {p}
    /\ UNCHANGED <<lockVars, worker>>

(* The engine's finally clause: release comes after Controller.run has      *)
(* returned, which it does when the worker has gone, or has raised.         *)
LeaveRun(p) ==
    /\ worker[p] # "running" \/ p \in abandoned
    /\ ReleaseStep(p)
    /\ UNCHANGED sessionVars

Unattended(p) == (AcquireStep(p) \/ Die(p)) /\ UNCHANGED sessionVars

SessionNext ==
    \E p \in Proc :
        \/ /\ alive[p]
           /\ \/ NextJob(p) \/ StartWorker(p) \/ AbandonWorker(p)
              \/ LeaveRun(p) \/ Unattended(p)
        \/ WorkerExit(p)
        \/ ReusePid(p) /\ UNCHANGED sessionVars

SessionSpec == SessionInit /\ [][SessionNext]_vars

(* A live process in acquire is scheduled and its system calls return;      *)
(* nothing is assumed of workers, of jobs, or of who holds the lock.        *)
FairSession ==
    /\ SessionSpec
    /\ \A p \in Proc : WF_vars(alive[p] /\ AcquireStep(p) /\ UNCHANGED sessionVars)

-----------------------------------------------------------------------------
(* Every variable has its type, the lock's included.                        *)
SessionTypeOK ==
    /\ TypeOK
    /\ worker \in [Proc -> {"none", "running", "exited"}]
    /\ abandoned \in SUBSET Raising

Running == {p \in Proc : worker[p] = "running"}

(* Beside the workers that an exception of run left behind, at most one      *)
(* worker runs on the GPU, as long as no controller died with a lock file of *)
(* its own (engine.py:985-1006).                                             *)
OneWorkerUnlessStale == StaleOwners = {} => Cardinality(Running \ abandoned) <= 1

(* "Only one formal performance task at a time on a single GPU"             *)
(* (design.md:820), taken without a condition: neither a kill of a           *)
(* controller nor an exception of run leaves a worker beside the next one.   *)
OneWorkerPerGpu == Cardinality(Running) <= 1

(* acquire ends: it returns, raises GpuLockTimeout or the write error, or   *)
(* its process is killed, whoever holds or abandoned the lock.              *)
AcquireTerminates ==
    \A p \in Proc : pc[p] \in Acquiring ~> pc[p] \notin Acquiring \/ ~alive[p]
=============================================================================
