------------------------------ MODULE GpuLock ------------------------------
(***************************************************************************)
(* The cross-process lock that serialises performance jobs on one physical *)
(* GPU (src/src/benchmark_engine/execution/gpu_lock.py).  The lock is one  *)
(* file: it is created with O_CREAT|O_EXCL, its owner's metadata is        *)
(* written in a second step, a waiter reclaims it when the recorded PID is *)
(* definitely absent, and the owner unlinks it on release.                 *)
(*                                                                         *)
(* Every system call is a step of its own, so that processes interleave    *)
(* between them, and a process may be killed between any two of them.      *)
(***************************************************************************)
EXTENDS Integers, FiniteSets

CONSTANTS
    Proc,         \* the controller processes that want the GPU
    Mortal,       \* bound: the processes that may be killed
    MaxAcquires,  \* bound: GpuLock objects a process creates, one per job
    MaxPolls      \* bound: polls of one acquire before its deadline has passed

ASSUME GpuLockAssumption ==
    /\ Mortal \subseteq Proc
    /\ MaxAcquires \in Nat \ {0}
    /\ MaxPolls \in Nat

VARIABLES
    file,      \* the lock file: NoFile, or its inode's owner token and content
    pc,        \* where each process is; kept when the process dies
    snapshot,  \* the record a waiter read first in _try_clear_dead
    alive,     \* FALSE once the process was killed
    reused,    \* dead processes whose PID an unrelated process now has
    epoch,     \* how many GpuLock objects a process has created
    polls      \* polls of the current acquire

lockVars == <<file, pc, snapshot, alive, reused, epoch, polls>>

-----------------------------------------------------------------------------
NoFile == [owner |-> "none", epoch |-> 0, written |-> FALSE]

(* owner_token is fresh for every GpuLock object: a process and its epoch.  *)
(* An inode whose metadata is not written yet parses as no JSON.            *)
Record == [owner : Proc, epoch : 1..MaxAcquires, written : BOOLEAN]

PC == {"idle", "trying", "created", "held", "clearing", "probing",
       "rereading", "unlinking", "waiting", "releasing",
       "timed_out", "write_failed", "release_error"}

Acquiring == {"trying", "created", "clearing", "probing", "rereading",
              "unlinking", "waiting"}

(* Between a successful O_EXCL create and the unlink of release.            *)
Owning == {"created", "held", "releasing"}

(* The inode p created is the one the path names now.                       *)
OwnsPath(p) == file # NoFile /\ file.owner = p /\ file.epoch = epoch[p]

(* What owner p writes into its inode, before and after its metadata.       *)
Token(p, written) == [owner |-> p, epoch |-> epoch[p], written |-> written]

Readable == file # NoFile /\ file.written

(* os.kill(pid, 0) raises ProcessLookupError: the only answer _try_clear_dead *)
(* acts on.  A live or reused PID answers True or a permission error.         *)
PidAbsent(p) == ~alive[p] /\ p \notin reused

Goto(p, label) == pc' = [pc EXCEPT ![p] = label]

-----------------------------------------------------------------------------
Init ==
    /\ file = NoFile
    /\ pc = [p \in Proc |-> "idle"]
    /\ snapshot = [p \in Proc |-> NoFile]
    /\ alive = [p \in Proc |-> TRUE]
    /\ reused = {}
    /\ epoch = [p \in Proc |-> 0]
    /\ polls = [p \in Proc |-> 0]

(* acquire() entered: a new owner token and a new deadline.                 *)
BeginAcquire(p) ==
    /\ pc[p] = "idle"
    /\ epoch[p] < MaxAcquires
    /\ epoch' = [epoch EXCEPT ![p] = @ + 1]
    /\ polls' = [polls EXCEPT ![p] = 0]
    /\ Goto(p, "trying")
    /\ UNCHANGED <<file, snapshot, alive, reused>>

(* os.open(O_CREAT | O_EXCL) succeeds: the file exists and is empty.        *)
Create(p) ==
    /\ pc[p] = "trying"
    /\ file = NoFile
    /\ file' = Token(p, FALSE)
    /\ Goto(p, "created")
    /\ UNCHANGED <<snapshot, alive, reused, epoch, polls>>

(* os.open raises FileExistsError.                                          *)
CreateExists(p) ==
    /\ pc[p] = "trying"
    /\ file # NoFile
    /\ Goto(p, "clearing")
    /\ UNCHANGED <<file, snapshot, alive, reused, epoch, polls>>

(* The metadata goes to the inode that was created, even when the path no   *)
(* longer names it.                                                         *)
WriteMetadata(p) ==
    /\ pc[p] = "created"
    /\ file' = IF OwnsPath(p) THEN Token(p, TRUE) ELSE file
    /\ Goto(p, "held")
    /\ UNCHANGED <<snapshot, alive, reused, epoch, polls>>

(* write, flush or fsync raises OSError: acquire propagates it with _held   *)
(* still false, so nothing ever unlinks the file, whole or partial.         *)
WriteFails(p) ==
    /\ pc[p] = "created"
    /\ \E complete \in BOOLEAN :
          file' = IF OwnsPath(p) THEN Token(p, complete) ELSE file
    /\ Goto(p, "write_failed")
    /\ UNCHANGED <<snapshot, alive, reused, epoch, polls>>

(* _try_clear_dead: the first read; an absent or malformed file is left.    *)
ReadOwner(p) ==
    /\ pc[p] = "clearing"
    /\ IF Readable
         THEN /\ snapshot' = [snapshot EXCEPT ![p] = file]
              /\ Goto(p, "probing")
         ELSE /\ Goto(p, "waiting")
              /\ UNCHANGED snapshot
    /\ UNCHANGED <<file, alive, reused, epoch, polls>>

(* _pid_alive of the recorded PID.                                          *)
ProbeOwner(p) ==
    /\ pc[p] = "probing"
    /\ Goto(p, IF PidAbsent(snapshot[p].owner) THEN "rereading" ELSE "waiting")
    /\ UNCHANGED <<file, snapshot, alive, reused, epoch, polls>>

(* A mutant of Reread: the second read is not compared with the first.      *)
RereadBlindly(p) ==
    /\ pc[p] = "rereading"
    /\ Goto(p, IF Readable THEN "unlinking" ELSE "waiting")
    /\ UNCHANGED <<file, snapshot, alive, reused, epoch, polls>>

(* The second read must return the very record that was probed.             *)
Reread(p) ==
    /\ pc[p] = "rereading"
    /\ Goto(p, IF file = snapshot[p] THEN "unlinking" ELSE "waiting")
    /\ UNCHANGED <<file, snapshot, alive, reused, epoch, polls>>

(* path.unlink(): removes whatever the path names by now.                   *)
Reclaim(p) ==
    /\ pc[p] = "unlinking"
    /\ file' = NoFile
    /\ Goto(p, "waiting")
    /\ UNCHANGED <<snapshot, alive, reused, epoch, polls>>

(* A mutant of Poll: the deadline is computed again on every turn of the loop. *)
PollWithFreshDeadline(p) ==
    /\ pc[p] = "waiting"
    /\ polls' = [polls EXCEPT ![p] = 0]
    /\ Goto(p, "trying")
    /\ UNCHANGED <<file, snapshot, alive, reused, epoch>>

(* A mutant of Poll: the deadline is missed by one poll.                     *)
PollPastDeadline(p) ==
    /\ pc[p] = "waiting"
    /\ polls' = [polls EXCEPT ![p] = @ + 1]
    /\ Goto(p, IF polls[p] > MaxPolls THEN "timed_out" ELSE "trying")
    /\ UNCHANGED <<file, snapshot, alive, reused, epoch>>

(* Past the deadline GpuLockTimeout is raised, else the process sleeps and  *)
(* tries again.  The clock is free until MaxPolls polls, then it has passed. *)
Poll(p) ==
    /\ pc[p] = "waiting"
    /\ \/ Goto(p, "timed_out") /\ UNCHANGED polls
       \/ /\ polls[p] < MaxPolls
          /\ polls' = [polls EXCEPT ![p] = @ + 1]
          /\ Goto(p, "trying")
    /\ UNCHANGED <<file, snapshot, alive, reused, epoch>>

(* release(): the record must still carry this token and PID.               *)
CheckRelease(p) ==
    /\ pc[p] = "held"
    /\ Goto(p, IF OwnsPath(p) /\ Readable THEN "releasing" ELSE "release_error")
    /\ UNCHANGED <<file, snapshot, alive, reused, epoch, polls>>

(* release(): unlink, or FileNotFoundError turned into GpuLockError.        *)
Release(p) ==
    /\ pc[p] = "releasing"
    /\ file' = NoFile
    /\ Goto(p, IF file = NoFile THEN "release_error" ELSE "idle")
    /\ UNCHANGED <<snapshot, alive, reused, epoch, polls>>

(* SIGKILL or loss of power of one controller.  Its file stays.             *)
Die(p) ==
    /\ p \in Mortal
    /\ alive' = [alive EXCEPT ![p] = FALSE]
    /\ UNCHANGED <<file, pc, snapshot, reused, epoch, polls>>

(* The kernel gives a dead process's PID to an unrelated process, and that  *)
(* process ends.                                                            *)
ReusePid(p) ==
    /\ ~alive[p]
    /\ reused' = IF p \in reused THEN reused \ {p} ELSE reused \cup {p}
    /\ UNCHANGED <<file, pc, snapshot, alive, epoch, polls>>

AcquireStep(p) ==
    \/ Create(p) \/ CreateExists(p) \/ WriteMetadata(p) \/ WriteFails(p)
    \/ ReadOwner(p) \/ ProbeOwner(p) \/ Reread(p) \/ Reclaim(p) \/ Poll(p)

ReleaseStep(p) == CheckRelease(p) \/ Release(p)

Next ==
    \E p \in Proc :
        \/ alive[p] /\ (BeginAcquire(p) \/ AcquireStep(p) \/ ReleaseStep(p) \/ Die(p))
        \/ ReusePid(p)

Spec == Init /\ [][Next]_lockVars

-----------------------------------------------------------------------------
(* Every variable has its type.                                             *)
TypeOK ==
    /\ file \in Record \cup {NoFile}
    /\ pc \in [Proc -> PC]
    /\ snapshot \in [Proc -> Record \cup {NoFile}]
    /\ alive \in [Proc -> BOOLEAN]
    /\ reused \in SUBSET Proc
    /\ epoch \in [Proc -> 0..MaxAcquires]
    /\ polls \in [Proc -> 0..MaxPolls]

Holding(p) == alive[p] /\ pc[p] \in {"held", "releasing"}

(* Two live processes never hold the lock together.                         *)
MutualExclusion == \A p, q \in Proc : Holding(p) /\ Holding(q) => p = q

(* Processes that died with a lock file of theirs possibly left behind.     *)
StaleOwners == {p \in Proc : ~alive[p] /\ pc[p] \in Owning \cup {"write_failed"}}

(* As long as no process died between creating its lock file and removing  *)
(* it, two live processes never hold the lock together and no release finds *)
(* its record gone, whatever other processes die, whatever PIDs are reused, *)
(* and although a waiter unlinks by path (gpu_lock.py:147-198).            *)
ExclusionUnlessStale ==
    StaleOwners = {} =>
        /\ MutualExclusion
        /\ \A p \in Proc : pc[p] # "release_error"

(* "Only a definitely absent owner PID is reclaimed" (docs/performance.md): *)
(* a waiter's unlink removes only a record whose owner is dead.             *)
ReclaimsOnlyAbsentOwner ==
    [][\A p \in Proc :
          pc[p] = "unlinking" /\ pc'[p] = "waiting" /\ file # NoFile
              => ~alive[file.owner]]_lockVars
=============================================================================
