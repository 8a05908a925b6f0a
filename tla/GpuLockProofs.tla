--------------------------- MODULE GpuLockProofs ---------------------------
(***************************************************************************)
(* Mutual exclusion of the GPU lock for every set of controllers, as long  *)
(* as no process dies leaving its lock file behind, and what follows for   *)
(* the workers that run under it.                                          *)
(***************************************************************************)
EXTENDS GpuSession, TLAPS, FiniteSetTheorems

(* The file the path names was created by a process that has not finished  *)
(* with it, in that process's current acquire, and a holder's is complete. *)
FileHasOwner ==
    file # NoFile =>
        /\ pc[file.owner] \in Owning \cup {"write_failed"}
        /\ file.epoch = epoch[file.owner]
        /\ pc[file.owner] \in {"held", "releasing"} => file.written

(* A waiter past its probe compares with a record whose owner is dead.     *)
ProbedOwnersAreDead ==
    \A p \in Proc :
        /\ pc[p] \in {"probing", "rereading"} => snapshot[p] \in Record
        /\ pc[p] = "rereading" => ~alive[snapshot[p].owner]

(* Only a left-behind file brings a waiter to the unlink: this is what the *)
(* second read of _try_clear_dead is for.                                  *)
UnlinkNeedsStale ==
    \A p \in Proc : pc[p] = "unlinking" => StaleOwners # {}

(* Without a left-behind file every owner still owns the path.             *)
OwnersOwnPath ==
    StaleOwners = {} =>
        \A p \in Proc :
            /\ pc[p] \in Owning => OwnsPath(p)
            /\ pc[p] # "release_error"

(* A process past idle has created a GpuLock object.                       *)
TokensIssued == \A p \in Proc : pc[p] # "idle" => epoch[p] # 0

LockInv ==
    /\ TypeOK
    /\ TokensIssued
    /\ FileHasOwner
    /\ ProbedOwnersAreDead
    /\ UnlinkNeedsStale
    /\ OwnersOwnPath

USE GpuLockAssumption

-----------------------------------------------------------------------------
(* An empty lock directory satisfies the invariant.                        *)
LEMMA InitLockInv == Init => LockInv
BY DEF Init, LockInv, TypeOK, TokensIssued, FileHasOwner, ProbedOwnersAreDead,
       UnlinkNeedsStale, OwnersOwnPath, PC, Owning

(* The absent file is no record.                                           *)
LEMMA NoFileIsNoRecord == NoFile \notin Record
BY DEF NoFile, Record

(* Every step keeps the types and the token count. *)
LEMMA TypeStep == TypeOK /\ TokensIssued /\ [Next]_lockVars => (TypeOK /\ TokensIssued)'
<1> SUFFICES ASSUME TypeOK, TokensIssued, [Next]_lockVars PROVE (TypeOK /\ TokensIssued)'
  OBVIOUS
<1> USE DEF TypeOK, TokensIssued, PC, Goto, Record, NoFile, Token, Readable, OwnsPath
<1>0. CASE UNCHANGED lockVars
  BY <1>0 DEF lockVars
<1>1. ASSUME NEW p \in Proc, alive[p], BeginAcquire(p) PROVE (TypeOK /\ TokensIssued)'
  BY <1>1 DEF BeginAcquire
<1>2. ASSUME NEW p \in Proc, alive[p], Create(p) PROVE (TypeOK /\ TokensIssued)'
  BY <1>2 DEF Create
<1>3. ASSUME NEW p \in Proc, alive[p], CreateExists(p) PROVE (TypeOK /\ TokensIssued)'
  BY <1>3 DEF CreateExists
<1>4. ASSUME NEW p \in Proc, alive[p], WriteMetadata(p) PROVE (TypeOK /\ TokensIssued)'
  BY <1>4 DEF WriteMetadata
<1>5. ASSUME NEW p \in Proc, alive[p], WriteFails(p) PROVE (TypeOK /\ TokensIssued)'
  BY <1>5 DEF WriteFails
<1>6. ASSUME NEW p \in Proc, alive[p], ReadOwner(p) PROVE (TypeOK /\ TokensIssued)'
  BY <1>6 DEF ReadOwner
<1>7. ASSUME NEW p \in Proc, alive[p], ProbeOwner(p) PROVE (TypeOK /\ TokensIssued)'
  BY <1>7 DEF ProbeOwner
<1>8. ASSUME NEW p \in Proc, alive[p], Reread(p) PROVE (TypeOK /\ TokensIssued)'
  BY <1>8 DEF Reread
<1>9. ASSUME NEW p \in Proc, alive[p], Reclaim(p) PROVE (TypeOK /\ TokensIssued)'
  BY <1>9 DEF Reclaim
<1>10. ASSUME NEW p \in Proc, alive[p], Poll(p) PROVE (TypeOK /\ TokensIssued)'
  BY <1>10 DEF Poll
<1>11. ASSUME NEW p \in Proc, alive[p], CheckRelease(p) PROVE (TypeOK /\ TokensIssued)'
  BY <1>11 DEF CheckRelease
<1>12. ASSUME NEW p \in Proc, alive[p], Release(p) PROVE (TypeOK /\ TokensIssued)'
  BY <1>12 DEF Release
<1>13. ASSUME NEW p \in Proc, alive[p], Die(p) PROVE (TypeOK /\ TokensIssued)'
  BY <1>13 DEF Die
<1>14. ASSUME NEW p \in Proc, ReusePid(p) PROVE (TypeOK /\ TokensIssued)'
  BY <1>14 DEF ReusePid
<1> QED
  BY <1>0, <1>1, <1>2, <1>3, <1>4, <1>5, <1>6, <1>7, <1>8, <1>9, <1>10, <1>11,
     <1>12, <1>13, <1>14
     DEF Next, AcquireStep, ReleaseStep

(* Every step keeps the file's owner in place. *)
LEMMA FileStep == LockInv /\ [Next]_lockVars => FileHasOwner'
<1> SUFFICES ASSUME LockInv, [Next]_lockVars PROVE FileHasOwner'
  OBVIOUS
<1> USE DEF LockInv, TypeOK, TokensIssued, PC, Goto, Record, NoFile, Token, Readable, OwnsPath, FileHasOwner, Owning
<1>0. CASE UNCHANGED lockVars
  BY <1>0 DEF lockVars
<1>1. ASSUME NEW p \in Proc, alive[p], BeginAcquire(p) PROVE FileHasOwner'
  BY <1>1 DEF BeginAcquire
<1>2. ASSUME NEW p \in Proc, alive[p], Create(p) PROVE FileHasOwner'
  BY <1>2 DEF Create
<1>3. ASSUME NEW p \in Proc, alive[p], CreateExists(p) PROVE FileHasOwner'
  BY <1>3 DEF CreateExists
<1>4. ASSUME NEW p \in Proc, alive[p], WriteMetadata(p) PROVE FileHasOwner'
  BY <1>4 DEF WriteMetadata
<1>5. ASSUME NEW p \in Proc, alive[p], WriteFails(p) PROVE FileHasOwner'
  <2>1. PICK complete \in BOOLEAN :
           file' = IF OwnsPath(p) THEN Token(p, complete) ELSE file
    BY <1>5 DEF WriteFails
  <2>2. CASE OwnsPath(p)
    BY <1>5, <2>1, <2>2 DEF WriteFails
  <2>3. CASE ~OwnsPath(p)
    BY <1>5, <2>1, <2>3 DEF WriteFails
  <2> QED
    BY <2>2, <2>3
<1>6. ASSUME NEW p \in Proc, alive[p], ReadOwner(p) PROVE FileHasOwner'
  BY <1>6 DEF ReadOwner
<1>7. ASSUME NEW p \in Proc, alive[p], ProbeOwner(p) PROVE FileHasOwner'
  BY <1>7 DEF ProbeOwner
<1>8. ASSUME NEW p \in Proc, alive[p], Reread(p) PROVE FileHasOwner'
  BY <1>8 DEF Reread
<1>9. ASSUME NEW p \in Proc, alive[p], Reclaim(p) PROVE FileHasOwner'
  BY <1>9 DEF Reclaim
<1>10. ASSUME NEW p \in Proc, alive[p], Poll(p) PROVE FileHasOwner'
  BY <1>10 DEF Poll
<1>11. ASSUME NEW p \in Proc, alive[p], CheckRelease(p) PROVE FileHasOwner'
  BY <1>11 DEF CheckRelease
<1>12. ASSUME NEW p \in Proc, alive[p], Release(p) PROVE FileHasOwner'
  BY <1>12 DEF Release
<1>13. ASSUME NEW p \in Proc, alive[p], Die(p) PROVE FileHasOwner'
  BY <1>13 DEF Die
<1>14. ASSUME NEW p \in Proc, ReusePid(p) PROVE FileHasOwner'
  BY <1>14 DEF ReusePid
<1> QED
  BY <1>0, <1>1, <1>2, <1>3, <1>4, <1>5, <1>6, <1>7, <1>8, <1>9, <1>10, <1>11,
     <1>12, <1>13, <1>14
     DEF Next, AcquireStep, ReleaseStep

(* A probed owner stays dead: nothing revives a process. *)
LEMMA ProbeStep == LockInv /\ [Next]_lockVars => ProbedOwnersAreDead'
<1> SUFFICES ASSUME LockInv, [Next]_lockVars PROVE ProbedOwnersAreDead'
  OBVIOUS
<1> USE DEF LockInv, TypeOK, PC, Goto, NoFile, Readable, ProbedOwnersAreDead, PidAbsent
<1>0. CASE UNCHANGED lockVars
  BY <1>0 DEF lockVars
<1>1. ASSUME NEW p \in Proc, alive[p], BeginAcquire(p) PROVE ProbedOwnersAreDead'
  BY <1>1 DEF BeginAcquire
<1>2. ASSUME NEW p \in Proc, alive[p], Create(p) PROVE ProbedOwnersAreDead'
  BY <1>2 DEF Create
<1>3. ASSUME NEW p \in Proc, alive[p], CreateExists(p) PROVE ProbedOwnersAreDead'
  BY <1>3 DEF CreateExists
<1>4. ASSUME NEW p \in Proc, alive[p], WriteMetadata(p) PROVE ProbedOwnersAreDead'
  BY <1>4 DEF WriteMetadata
<1>5. ASSUME NEW p \in Proc, alive[p], WriteFails(p) PROVE ProbedOwnersAreDead'
  BY <1>5 DEF WriteFails
<1>6. ASSUME NEW p \in Proc, alive[p], ReadOwner(p) PROVE ProbedOwnersAreDead'
  BY <1>6 DEF ReadOwner
<1>7. ASSUME NEW p \in Proc, alive[p], ProbeOwner(p) PROVE ProbedOwnersAreDead'
  BY <1>7 DEF ProbeOwner
<1>8. ASSUME NEW p \in Proc, alive[p], Reread(p) PROVE ProbedOwnersAreDead'
  BY <1>8 DEF Reread
<1>9. ASSUME NEW p \in Proc, alive[p], Reclaim(p) PROVE ProbedOwnersAreDead'
  BY <1>9 DEF Reclaim
<1>10. ASSUME NEW p \in Proc, alive[p], Poll(p) PROVE ProbedOwnersAreDead'
  BY <1>10 DEF Poll
<1>11. ASSUME NEW p \in Proc, alive[p], CheckRelease(p) PROVE ProbedOwnersAreDead'
  BY <1>11 DEF CheckRelease
<1>12. ASSUME NEW p \in Proc, alive[p], Release(p) PROVE ProbedOwnersAreDead'
  BY <1>12 DEF Release
<1>13. ASSUME NEW p \in Proc, alive[p], Die(p) PROVE ProbedOwnersAreDead'
  BY <1>13 DEF Die
<1>14. ASSUME NEW p \in Proc, ReusePid(p) PROVE ProbedOwnersAreDead'
  BY <1>14 DEF ReusePid
<1> QED
  BY <1>0, <1>1, <1>2, <1>3, <1>4, <1>5, <1>6, <1>7, <1>8, <1>9, <1>10, <1>11,
     <1>12, <1>13, <1>14
     DEF Next, AcquireStep, ReleaseStep

(* A left-behind file is never forgotten: dead processes keep their place. *)
LEMMA StaleStep == LockInv /\ [Next]_lockVars => StaleOwners \subseteq StaleOwners'
<1> SUFFICES ASSUME LockInv, [Next]_lockVars PROVE StaleOwners \subseteq StaleOwners'
  OBVIOUS
<1> USE DEF LockInv, TypeOK, PC, Goto, StaleOwners, Owning
<1>0. CASE UNCHANGED lockVars
  BY <1>0 DEF lockVars
<1>1. ASSUME NEW p \in Proc, alive[p], BeginAcquire(p) PROVE StaleOwners \subseteq StaleOwners'
  BY <1>1 DEF BeginAcquire
<1>2. ASSUME NEW p \in Proc, alive[p], Create(p) PROVE StaleOwners \subseteq StaleOwners'
  BY <1>2 DEF Create
<1>3. ASSUME NEW p \in Proc, alive[p], CreateExists(p) PROVE StaleOwners \subseteq StaleOwners'
  BY <1>3 DEF CreateExists
<1>4. ASSUME NEW p \in Proc, alive[p], WriteMetadata(p) PROVE StaleOwners \subseteq StaleOwners'
  BY <1>4 DEF WriteMetadata
<1>5. ASSUME NEW p \in Proc, alive[p], WriteFails(p) PROVE StaleOwners \subseteq StaleOwners'
  BY <1>5 DEF WriteFails
<1>6. ASSUME NEW p \in Proc, alive[p], ReadOwner(p) PROVE StaleOwners \subseteq StaleOwners'
  BY <1>6 DEF ReadOwner
<1>7. ASSUME NEW p \in Proc, alive[p], ProbeOwner(p) PROVE StaleOwners \subseteq StaleOwners'
  BY <1>7 DEF ProbeOwner
<1>8. ASSUME NEW p \in Proc, alive[p], Reread(p) PROVE StaleOwners \subseteq StaleOwners'
  BY <1>8 DEF Reread
<1>9. ASSUME NEW p \in Proc, alive[p], Reclaim(p) PROVE StaleOwners \subseteq StaleOwners'
  BY <1>9 DEF Reclaim
<1>10. ASSUME NEW p \in Proc, alive[p], Poll(p) PROVE StaleOwners \subseteq StaleOwners'
  BY <1>10 DEF Poll
<1>11. ASSUME NEW p \in Proc, alive[p], CheckRelease(p) PROVE StaleOwners \subseteq StaleOwners'
  BY <1>11 DEF CheckRelease
<1>12. ASSUME NEW p \in Proc, alive[p], Release(p) PROVE StaleOwners \subseteq StaleOwners'
  BY <1>12 DEF Release
<1>13. ASSUME NEW p \in Proc, alive[p], Die(p) PROVE StaleOwners \subseteq StaleOwners'
  BY <1>13 DEF Die
<1>14. ASSUME NEW p \in Proc, ReusePid(p) PROVE StaleOwners \subseteq StaleOwners'
  BY <1>14 DEF ReusePid
<1> QED
  BY <1>0, <1>1, <1>2, <1>3, <1>4, <1>5, <1>6, <1>7, <1>8, <1>9, <1>10, <1>11,
     <1>12, <1>13, <1>14
     DEF Next, AcquireStep, ReleaseStep

(* Only a left-behind file leads to an unlink by a waiter. *)
LEMMA UnlinkStep == LockInv /\ [Next]_lockVars => UnlinkNeedsStale'
<1> SUFFICES ASSUME LockInv, [Next]_lockVars PROVE UnlinkNeedsStale'
  OBVIOUS
<1> USE DEF LockInv, TypeOK, PC, Goto, UnlinkNeedsStale
<1>a. StaleOwners \subseteq StaleOwners'
  BY StaleStep
<1>0. CASE UNCHANGED lockVars
  BY <1>a, <1>0 DEF lockVars
<1>1. ASSUME NEW p \in Proc, alive[p], BeginAcquire(p) PROVE UnlinkNeedsStale'
  BY <1>a, <1>1 DEF BeginAcquire
<1>2. ASSUME NEW p \in Proc, alive[p], Create(p) PROVE UnlinkNeedsStale'
  BY <1>a, <1>2 DEF Create
<1>3. ASSUME NEW p \in Proc, alive[p], CreateExists(p) PROVE UnlinkNeedsStale'
  BY <1>a, <1>3 DEF CreateExists
<1>4. ASSUME NEW p \in Proc, alive[p], WriteMetadata(p) PROVE UnlinkNeedsStale'
  BY <1>a, <1>4 DEF WriteMetadata
<1>5. ASSUME NEW p \in Proc, alive[p], WriteFails(p) PROVE UnlinkNeedsStale'
  BY <1>a, <1>5 DEF WriteFails
<1>6. ASSUME NEW p \in Proc, alive[p], ReadOwner(p) PROVE UnlinkNeedsStale'
  BY <1>a, <1>6 DEF ReadOwner
<1>7. ASSUME NEW p \in Proc, alive[p], ProbeOwner(p) PROVE UnlinkNeedsStale'
  BY <1>a, <1>7 DEF ProbeOwner
<1>8. ASSUME NEW p \in Proc, alive[p], Reread(p) PROVE UnlinkNeedsStale'
  <2>1. CASE file = snapshot[p]
    <3>1. file \in Record /\ ~alive[file.owner]
      BY <1>8, <2>1 DEF Reread, ProbedOwnersAreDead
    <3>2. file.owner \in StaleOwners
      BY <3>1, NoFileIsNoRecord DEF FileHasOwner, StaleOwners, Record
    <3> QED
      BY <1>a, <3>2
  <2>2. CASE file /= snapshot[p]
    BY <1>a, <1>8, <2>2 DEF Reread
  <2> QED
    BY <2>1, <2>2
<1>9. ASSUME NEW p \in Proc, alive[p], Reclaim(p) PROVE UnlinkNeedsStale'
  BY <1>a, <1>9 DEF Reclaim
<1>10. ASSUME NEW p \in Proc, alive[p], Poll(p) PROVE UnlinkNeedsStale'
  BY <1>a, <1>10 DEF Poll
<1>11. ASSUME NEW p \in Proc, alive[p], CheckRelease(p) PROVE UnlinkNeedsStale'
  BY <1>a, <1>11 DEF CheckRelease
<1>12. ASSUME NEW p \in Proc, alive[p], Release(p) PROVE UnlinkNeedsStale'
  BY <1>a, <1>12 DEF Release
<1>13. ASSUME NEW p \in Proc, alive[p], Die(p) PROVE UnlinkNeedsStale'
  BY <1>a, <1>13 DEF Die
<1>14. ASSUME NEW p \in Proc, ReusePid(p) PROVE UnlinkNeedsStale'
  BY <1>a, <1>14 DEF ReusePid
<1> QED
  BY <1>0, <1>1, <1>2, <1>3, <1>4, <1>5, <1>6, <1>7, <1>8, <1>9, <1>10, <1>11,
     <1>12, <1>13, <1>14
     DEF Next, AcquireStep, ReleaseStep

(* Without a left-behind file the owners keep the path. *)
LEMMA OwnersStep == LockInv /\ [Next]_lockVars => OwnersOwnPath'
<1> SUFFICES ASSUME LockInv, [Next]_lockVars PROVE OwnersOwnPath'
  OBVIOUS
<1> USE DEF LockInv, TypeOK, TokensIssued, PC, Goto, Record, NoFile, Token, Readable, OwnsPath, OwnersOwnPath, UnlinkNeedsStale, FileHasOwner, Owning
<1>a. StaleOwners \subseteq StaleOwners'
  BY StaleStep
<1>0. CASE UNCHANGED lockVars
  BY <1>a, <1>0 DEF lockVars
<1>1. ASSUME NEW p \in Proc, alive[p], BeginAcquire(p) PROVE OwnersOwnPath'
  BY <1>a, <1>1 DEF BeginAcquire
<1>2. ASSUME NEW p \in Proc, alive[p], Create(p) PROVE OwnersOwnPath'
  BY <1>a, <1>2 DEF Create
<1>3. ASSUME NEW p \in Proc, alive[p], CreateExists(p) PROVE OwnersOwnPath'
  BY <1>a, <1>3 DEF CreateExists
<1>4. ASSUME NEW p \in Proc, alive[p], WriteMetadata(p) PROVE OwnersOwnPath'
  BY <1>a, <1>4 DEF WriteMetadata
<1>5. ASSUME NEW p \in Proc, alive[p], WriteFails(p) PROVE OwnersOwnPath'
  BY <1>a, <1>5 DEF WriteFails
<1>6. ASSUME NEW p \in Proc, alive[p], ReadOwner(p) PROVE OwnersOwnPath'
  BY <1>a, <1>6 DEF ReadOwner
<1>7. ASSUME NEW p \in Proc, alive[p], ProbeOwner(p) PROVE OwnersOwnPath'
  BY <1>a, <1>7 DEF ProbeOwner
<1>8. ASSUME NEW p \in Proc, alive[p], Reread(p) PROVE OwnersOwnPath'
  BY <1>a, <1>8 DEF Reread
<1>9. ASSUME NEW p \in Proc, alive[p], Reclaim(p) PROVE OwnersOwnPath'
  BY <1>a, <1>9 DEF Reclaim
<1>10. ASSUME NEW p \in Proc, alive[p], Poll(p) PROVE OwnersOwnPath'
  BY <1>a, <1>10 DEF Poll
<1>11. ASSUME NEW p \in Proc, alive[p], CheckRelease(p) PROVE OwnersOwnPath'
  BY <1>a, <1>11 DEF CheckRelease
<1>12. ASSUME NEW p \in Proc, alive[p], Release(p) PROVE OwnersOwnPath'
  BY <1>a, <1>12 DEF Release
<1>13. ASSUME NEW p \in Proc, alive[p], Die(p) PROVE OwnersOwnPath'
  BY <1>a, <1>13 DEF Die
<1>14. ASSUME NEW p \in Proc, ReusePid(p) PROVE OwnersOwnPath'
  BY <1>a, <1>14 DEF ReusePid
<1> QED
  BY <1>0, <1>1, <1>2, <1>3, <1>4, <1>5, <1>6, <1>7, <1>8, <1>9, <1>10, <1>11,
     <1>12, <1>13, <1>14
     DEF Next, AcquireStep, ReleaseStep

(* LockInv holds in every reachable state, for every set of controllers.   *)
THEOREM LockInvariant == Spec => []LockInv
<1>1. LockInv /\ [Next]_lockVars => LockInv'
  BY TypeStep, FileStep, ProbeStep, UnlinkStep, OwnersStep DEF LockInv
<1> QED
  BY InitLockInv, <1>1, PTL DEF Spec

(* Two live processes never hold the lock together and no release fails,   *)
(* unless a process died leaving its lock file behind (gpu_lock.py:147-198). *)
THEOREM LockExclusion == Spec => []ExclusionUnlessStale
<1>1. LockInv => ExclusionUnlessStale
  BY DEF LockInv, OwnersOwnPath, ExclusionUnlessStale, MutualExclusion,
         Holding, OwnsPath, Owning
<1> QED
  BY <1>1, LockInvariant, PTL

-----------------------------------------------------------------------------
(* The session: a controller with a running worker waits in Controller.run, *)
(* unless an exception took it out of run.                                  *)
WaitsForWorker ==
    /\ worker \in [Proc -> {"none", "running", "exited"}]
    /\ \A p \in Proc \ abandoned : worker[p] = "running" => pc[p] = "held"

(* Every session step is a step of the lock or leaves it alone.            *)
LEMMA SessionStep == [SessionNext]_vars => [Next]_lockVars
BY DEF SessionNext, vars, lockVars, Next, NextJob, StartWorker, AbandonWorker,
       LeaveRun, Unattended, WorkerExit

(* The engine's job loop uses the lock as its specification allows.        *)
THEOREM SessionImplementsLock == SessionSpec => Spec
<1>1. SessionInit => Init
  BY DEF SessionInit
<1> QED
  BY <1>1, SessionStep, PTL DEF SessionSpec, Spec

(* A controller that no exception took out of Controller.run does not leave *)
(* it before its worker is gone.                                            *)
LEMMA WaitStep ==
    TypeOK /\ WaitsForWorker /\ [SessionNext]_vars => WaitsForWorker'
<1> SUFFICES ASSUME TypeOK, WaitsForWorker, [SessionNext]_vars
             PROVE  WaitsForWorker'
  OBVIOUS
<1> USE DEF WaitsForWorker, TypeOK, PC
<1>1. CASE UNCHANGED vars
  BY <1>1 DEF vars, lockVars, sessionVars
<1>2. ASSUME NEW p \in Proc, NextJob(p) PROVE WaitsForWorker'
  BY <1>2 DEF NextJob, BeginAcquire, Goto
<1>3. ASSUME NEW p \in Proc, StartWorker(p) PROVE WaitsForWorker'
  BY <1>3 DEF StartWorker, lockVars
<1>4. ASSUME NEW p \in Proc, LeaveRun(p) PROVE WaitsForWorker'
  BY <1>4 DEF LeaveRun, ReleaseStep, CheckRelease, Release, Goto, sessionVars
<1>5. ASSUME NEW p \in Proc, AcquireStep(p), UNCHANGED sessionVars
      PROVE WaitsForWorker'
  <2>1. pc[p] # "held" /\ \A q \in Proc \ {p} : pc'[q] = pc[q]
    BY <1>5 DEF AcquireStep, Create, CreateExists, WriteMetadata, WriteFails,
               ReadOwner, ProbeOwner, Reread, Reclaim, Poll, Goto
  <2> QED
    BY <1>5, <2>1 DEF sessionVars
<1>6. ASSUME NEW p \in Proc, Die(p) \/ ReusePid(p), UNCHANGED sessionVars
      PROVE WaitsForWorker'
  BY <1>6 DEF Die, ReusePid, sessionVars
<1>7. ASSUME NEW p \in Proc, WorkerExit(p) PROVE WaitsForWorker'
  BY <1>7 DEF WorkerExit, lockVars
<1>8. ASSUME NEW p \in Proc, AbandonWorker(p) PROVE WaitsForWorker'
  BY <1>8 DEF AbandonWorker, lockVars
<1> QED
  BY <1>1, <1>2, <1>3, <1>4, <1>5, <1>6, <1>7, <1>8 DEF SessionNext, Unattended

(* Every variable of a session keeps its type, the lock's included.         *)
THEOREM SessionTypes == SessionSpec => []SessionTypeOK
<1> DEFINE WorkerOK == /\ worker \in [Proc -> {"none", "running", "exited"}]
                       /\ abandoned \in SUBSET Raising
<1>1. SessionInit => WorkerOK
  BY DEF SessionInit
<1>2. WorkerOK /\ [SessionNext]_vars => WorkerOK'
  BY DEF SessionNext, vars, sessionVars, NextJob, StartWorker, AbandonWorker,
         LeaveRun, Unattended, WorkerExit
<1>3. SessionSpec => []WorkerOK
  BY <1>1, <1>2, PTL DEF SessionSpec
<1>4. LockInv /\ WorkerOK => SessionTypeOK
  BY DEF LockInv, SessionTypeOK
<1>5. QED
  BY <1>3, <1>4, LockInvariant, SessionImplementsLock, PTL

(* Beside the workers that exceptions of run left behind, at most one uses  *)
(* the GPU, for every number of controllers, unless a controller died with  *)
(* its lock file in place (engine.py:985-1006).                            *)
THEOREM OneWorker == SessionSpec => []OneWorkerUnlessStale
<1>1. SessionInit => WaitsForWorker
  BY DEF SessionInit, WaitsForWorker
<1>2. LockInv /\ WaitsForWorker => OneWorkerUnlessStale
  <2> SUFFICES ASSUME LockInv, WaitsForWorker, StaleOwners = {}
               PROVE  Cardinality(Running \ abandoned) <= 1
    BY DEF OneWorkerUnlessStale
  <2>1. \A p, q \in Running \ abandoned : p = q
    BY DEF LockInv, OwnersOwnPath, Running, WaitsForWorker, OwnsPath, Owning
  <2>2. CASE Running \ abandoned = {}
    BY <2>2, FS_EmptySet
  <2>3. ASSUME NEW p \in Running \ abandoned
        PROVE  Cardinality(Running \ abandoned) <= 1
    <3>1. Running \ abandoned = {p}
      BY <2>1, <2>3
    <3>2. Cardinality({p}) = 1
      BY FS_Singleton, Zenon
    <3> QED
      BY <3>1, <3>2
  <2> QED
    BY <2>2, <2>3
<1>3. LockInv => TypeOK
  BY DEF LockInv
<1> QED
  BY <1>1, <1>2, <1>3, WaitStep, LockInvariant, SessionImplementsLock, PTL
     DEF SessionSpec
=============================================================================
