------------------------ MODULE EvaluationRunProofs ------------------------
(***************************************************************************)
(* Proofs about EvaluationRun for any number of evaluations, cases and      *)
(* stops: a row never stands for the details of another attempt, exit code  *)
(* 0 means that everything passed, and the writes of all processes together *)
(* implement EvaluationPromise.                                            *)
(***************************************************************************)
EXTENDS EvaluationRun, TLAPS

Opening == {"create", "register", "mark"}
Writing == {"outputs", "samples", "row"}
Looping == {"pick"} \cup Writing
Closing == {"finish", "history", "latest"}
Opened  == Opening \cup {"check"} \cup Looping

-----------------------------------------------------------------------------
(* The first process opens fresh directories, in the plan's order.           *)
OpeningInv ==
    pc \in Opening =>
        /\ exit = "none"
        /\ \A e \in left :
             status[e] = IF pc # "create" /\ IsFirst(e) THEN "planned" ELSE "none"
        /\ pc = "mark" => \A e \in left : IsFirst(e) => e \in registered

(* What a process opened is listed and running until it starts to close.    *)
ActiveInv ==
    /\ active \subseteq registered
    /\ pc = "check" => left \subseteq registered
    /\ pc \in Opened => \A e \in active : status[e] = "running"

(* Every job still to run, and the one being recorded, has no row.          *)
JobsInv ==
    /\ \A j \in todo : row[j] = "none"
    /\ pc \in Opened => \A j \in todo : j[1] \in active
    /\ pc \in Writing => row[job] = "none" /\ job[1] \in active /\ job \notin todo

(* What is left to close is running, but for the one being published.       *)
ClosingInv ==
    pc \in Closing =>
        \A e \in left :
            /\ status[e] = IF pc # "finish" /\ IsFirst(e) THEN "complete" ELSE "running"
            /\ e \in registered

(* Unopened evaluations have no row, complete ones have every row, and only  *)
(* complete ones are in history.csv.                                        *)
CompleteInv ==
    /\ \A j \in Job : row[j] # "none" => status[j[1]] \notin {"none", "planned"}
    /\ \A e \in Eval : status[e] = "complete" => Whole(e)
    /\ \A e \in history : status[e] = "complete"

(* The details written so far for the job being recorded.                   *)
WritingInv ==
    /\ pc = "outputs" => outputs[job] # "this"
    /\ pc \in {"samples", "row"} => (HasOutputs(payload) <=> outputs[job] = "this")
    /\ pc \in {"outputs", "samples"} => samples[job] # "this"
    /\ pc = "row" => (HasSamples(payload) <=> samples[job] = "this")

(* Before any kill or Ctrl-C no attempt is repeated: a job to be run has no  *)
(* details yet, and one with details and no row is being recorded, or its    *)
(* evaluation failed or is about to, which no resume accepts.                *)
Clean(j) == outputs[j] = "none" /\ samples[j] = "none"
Doomed(j) ==
    \/ pc \in Writing /\ j = job
    \/ pc \in Looping /\ j[1] \in infra \cap active
    \/ pc \in Closing /\ j[1] \in infra \cap left
    \/ status[j[1]] = "failed"
FreshInv ==
    stops = 0 =>
        /\ ~interrupted
        /\ \A j \in Job : outputs[j] # "old" /\ samples[j] # "old"
        /\ \A j \in todo : Clean(j)
        /\ \A j \in Job : row[j] = "none" => Clean(j) \/ Doomed(j)

(* No job of the plan is lost: without a failure or an interrupt, what has   *)
(* no row is queued, and only a row that fails stops the queue.             *)
Pending == todo \cup (IF pc \in Writing THEN {job} ELSE {})
Undisturbed == infra = {} /\ ~interrupted
CoverInv ==
    /\ pc \in Opened =>
         \A e \in registered \ (IF pc \in Looping THEN {} ELSE left) :
             /\ e \in active \/ status[e] = "complete"
             /\ Undisturbed => Unrecorded(e) \subseteq Pending
    /\ pc \in Opened /\ stopped /\ Undisturbed => SomeRowFails
    /\ pc \in Closing =>
         \A e \in registered :
             /\ e \in left \/ (Whole(e) => status[e] = "complete")
             /\ Undisturbed => SomeRowFails \/ Whole(e)

RunInv ==
    /\ TypeOK
    /\ OpeningInv /\ ActiveInv /\ JobsInv /\ ClosingInv /\ CompleteInv
    /\ WritingInv /\ FreshInv /\ DetailsAreCurrent
    /\ CoverInv /\ ZeroMeansPassed

-----------------------------------------------------------------------------
(* Every step keeps the types.                                              *)
LEMMA TypeStep ==
    TypeOK /\ [Next]_vars => TypeOK'
<1> SUFFICES ASSUME TypeOK, [Next]_vars
             PROVE  TypeOK'
  OBVIOUS
<1>1. ASSUME NEW e \in Eval, CreateEvaluation(e)
      PROVE  TypeOK'
  BY <1>1 DEF CreateEvaluation, TypeOK, Status, PC, plan, progress
<1>2. ASSUME NEW e \in Eval, RegisterRun(e)
      PROVE  TypeOK'
  BY <1>2 DEF RegisterRun, TypeOK, PC, plan, progress
<1>3. ASSUME NEW e \in Eval, MarkRunning(e)
      PROVE  TypeOK'
  BY <1>3 DEF MarkRunning, TypeOK, Status, PC, JobsOf, Job, progress
<1>4. ASSUME NEW e \in Eval, CheckResumable(e)
      PROVE  TypeOK'
  BY <1>4
     DEF CheckResumable, TypeOK, Status, PC, Exit, JobsOf, Job, Unrecorded, progress
<1>5. ASSUME NEW e \in Eval, FinishEvaluation(e)
      PROVE  TypeOK'
  BY <1>5 DEF FinishEvaluation, TypeOK, Status, PC, ClosingStatus, progress
<1>6. ASSUME NEW e \in Eval, AppendHistory(e)
      PROVE  TypeOK'
  BY <1>6 DEF AppendHistory, TypeOK, PC, plan, progress
<1>7. ASSUME NEW e \in Eval, WriteLatest(e)
      PROVE  TypeOK'
  BY <1>7 DEF WriteLatest, TypeOK, PC, progress
<1>8. ASSUME NEW j \in Job, JobAnswers(j)
      PROVE  TypeOK'
  BY <1>8, EvaluationRunAssumption DEF JobAnswers, TakeJob, TypeOK, Detail, PC, Older
<1>9. ASSUME NEW j \in Job, JobFails(j)
      PROVE  TypeOK'
  BY <1>9 DEF JobFails, TakeJob, TypeOK, Detail, Job, Older
<1>10. ASSUME NEW j \in Job, JobInterrupted(j)
      PROVE  TypeOK'
  BY <1>10, EvaluationRunAssumption DEF JobInterrupted, TakeJob, TypeOK, Detail, Older
<1>11. CASE WriteOutputs
  BY <1>11 DEF WriteOutputs, TypeOK, Detail, PC, plan, progress
<1>12. CASE WriteSamples
  BY <1>12 DEF WriteSamples, TypeOK, Detail, PC, plan, progress
<1>13. CASE AppendRow
  BY <1>13 DEF AppendRow, TypeOK, PC, plan
<1>14. CASE AppendFails
  BY <1>14 DEF AppendFails, TypeOK, PC, Job, durable, plan
<1>15. CASE BeginJobs
  BY <1>15 DEF BeginJobs, TypeOK, PC, durable, plan, progress
<1>16. CASE EndJobs
  BY <1>16 DEF EndJobs, TypeOK, PC, durable, progress
<1>17. CASE ReturnOutcome
  BY <1>17 DEF ReturnOutcome, TypeOK, PC, Exit, ExitCode, durable, plan, progress
<1>18. CASE BeginResume
  BY <1>18 DEF BeginResume, TypeOK, PC, durable
<1>19. CASE Die
  BY <1>19, EvaluationRunAssumption DEF Die, TypeOK, PC, Exit, durable, plan, progress
<1>20. CASE UNCHANGED vars
  BY <1>20 DEF vars, TypeOK, durable, plan, progress
<1>21. QED
  BY <1>1, <1>2, <1>3, <1>4, <1>5, <1>6, <1>7, <1>8, <1>9, <1>10, <1>11, <1>12,
     <1>13, <1>14, <1>15, <1>16, <1>17, <1>18, <1>19, <1>20
     DEF Next, ProcessStep

(* Every step keeps the opening order.                                      *)
LEMMA OpeningStep ==
    TypeOK /\ OpeningInv /\ [Next]_vars => OpeningInv'
<1> SUFFICES ASSUME TypeOK, OpeningInv, [Next]_vars
             PROVE  OpeningInv'
  OBVIOUS
<1>1. ASSUME NEW e \in Eval, CreateEvaluation(e)
      PROVE  OpeningInv'
  BY <1>1 DEF CreateEvaluation, TypeOK, OpeningInv, Opening, IsFirst, Eval, plan
<1>2. ASSUME NEW e \in Eval, RegisterRun(e)
      PROVE  OpeningInv'
  BY <1>2 DEF RegisterRun, OpeningInv, Opening, IsFirst, Eval, plan
<1>3. ASSUME NEW e \in Eval, MarkRunning(e)
      PROVE  OpeningInv'
  BY <1>3 DEF MarkRunning, OpeningInv, Opening, IsFirst, Eval
<1>4. ASSUME NEW e \in Eval, CheckResumable(e)
      PROVE  OpeningInv'
  BY <1>4 DEF CheckResumable, OpeningInv, Opening
<1>5. ASSUME NEW e \in Eval, FinishEvaluation(e)
      PROVE  OpeningInv'
  BY <1>5 DEF FinishEvaluation, OpeningInv, Opening
<1>6. ASSUME NEW e \in Eval, AppendHistory(e)
      PROVE  OpeningInv'
  BY <1>6 DEF AppendHistory, OpeningInv, Opening
<1>7. ASSUME NEW e \in Eval, WriteLatest(e)
      PROVE  OpeningInv'
  BY <1>7 DEF WriteLatest, OpeningInv, Opening
<1>8. ASSUME NEW j \in Job, JobAnswers(j)
      PROVE  OpeningInv'
  BY <1>8 DEF JobAnswers, OpeningInv, Opening
<1>9. ASSUME NEW j \in Job, JobFails(j)
      PROVE  OpeningInv'
  BY <1>9 DEF JobFails, TakeJob, OpeningInv, IsFirst
<1>10. ASSUME NEW j \in Job, JobInterrupted(j)
      PROVE  OpeningInv'
  BY <1>10 DEF JobInterrupted, TakeJob, OpeningInv, IsFirst
<1>11. CASE WriteOutputs
  BY <1>11 DEF WriteOutputs, OpeningInv, Opening
<1>12. CASE WriteSamples
  BY <1>12 DEF WriteSamples, OpeningInv, Opening
<1>13. CASE AppendRow
  BY <1>13 DEF AppendRow, OpeningInv, Opening
<1>14. CASE AppendFails
  BY <1>14 DEF AppendFails, OpeningInv, Opening
<1>15. CASE BeginJobs
  BY <1>15 DEF BeginJobs, OpeningInv, Opening
<1>16. CASE EndJobs
  BY <1>16 DEF EndJobs, OpeningInv, Opening
<1>17. CASE ReturnOutcome
  BY <1>17 DEF ReturnOutcome, OpeningInv, Opening
<1>18. CASE BeginResume
  BY <1>18 DEF BeginResume, OpeningInv, Opening
<1>19. CASE Die
  BY <1>19 DEF Die, OpeningInv, Opening
<1>20. CASE UNCHANGED vars
  BY <1>20 DEF vars, OpeningInv, IsFirst, durable, plan
<1>21. QED
  BY <1>1, <1>2, <1>3, <1>4, <1>5, <1>6, <1>7, <1>8, <1>9, <1>10, <1>11, <1>12,
     <1>13, <1>14, <1>15, <1>16, <1>17, <1>18, <1>19, <1>20
     DEF Next, ProcessStep

(* Every step keeps what is active listed and running.                      *)
LEMMA ActiveStep ==
    TypeOK /\ OpeningInv /\ ActiveInv /\ [Next]_vars => ActiveInv'
<1> SUFFICES ASSUME TypeOK, OpeningInv, ActiveInv, [Next]_vars
             PROVE  ActiveInv'
  OBVIOUS
<1>1. ASSUME NEW e \in Eval, CreateEvaluation(e)
      PROVE  ActiveInv'
  BY <1>1
     DEF CreateEvaluation, OpeningInv, ActiveInv, Opening, Opened, IsFirst, plan
<1>2. ASSUME NEW e \in Eval, RegisterRun(e)
      PROVE  ActiveInv'
  BY <1>2 DEF RegisterRun, ActiveInv, Opening, Opened, plan
<1>3. ASSUME NEW e \in Eval, MarkRunning(e)
      PROVE  ActiveInv'
  BY <1>3 DEF MarkRunning, TypeOK, OpeningInv, ActiveInv, Opening, Opened, IsFirst
<1>4. ASSUME NEW e \in Eval, CheckResumable(e)
      PROVE  ActiveInv'
  <2>1. CASE status[e] \in {"interrupted", "running", "complete"}
    <3>1. active' \subseteq registered'
      BY <1>4, <2>1 DEF CheckResumable, IsFirst, ActiveInv
    <3>2. ASSUME NEW f \in active'
          PROVE  status'[f] = "running"
      <4>1. f \in active => status[f] = "running"
        BY <1>4 DEF CheckResumable, ActiveInv, Opened
      <4>2. f = e => status[f] \in {"running", "interrupted"}
        BY <1>4, <2>1, <3>2, <4>1 DEF CheckResumable
      <4>3. QED
        BY <1>4, <2>1, <3>2, <4>1, <4>2 DEF CheckResumable, TypeOK
    <3>3. pc' = "check" => left' \subseteq registered'
      BY <1>4, <2>1 DEF CheckResumable, ActiveInv
    <3>4. QED
      BY <3>1, <3>2, <3>3 DEF ActiveInv
  <2>2. CASE status[e] \notin {"interrupted", "running", "complete"}
    BY <1>4, <2>2 DEF CheckResumable, ActiveInv, Opened
  <2>3. QED
    BY <2>1, <2>2
<1>5. ASSUME NEW e \in Eval, FinishEvaluation(e)
      PROVE  ActiveInv'
  BY <1>5 DEF FinishEvaluation, ActiveInv, Opening, Opened, Looping, Writing
<1>6. ASSUME NEW e \in Eval, AppendHistory(e)
      PROVE  ActiveInv'
  BY <1>6 DEF AppendHistory, ActiveInv, Opening, Opened, Looping, Writing, plan
<1>7. ASSUME NEW e \in Eval, WriteLatest(e)
      PROVE  ActiveInv'
  BY <1>7 DEF WriteLatest, ActiveInv, Opening, Opened, Looping, Writing
<1>8. ASSUME NEW j \in Job, JobAnswers(j)
      PROVE  ActiveInv'
  BY <1>8 DEF JobAnswers, TakeJob, ActiveInv, Opened, Looping
<1>9. ASSUME NEW j \in Job, JobFails(j)
      PROVE  ActiveInv'
  BY <1>9 DEF JobFails, TakeJob, ActiveInv
<1>10. ASSUME NEW j \in Job, JobInterrupted(j)
      PROVE  ActiveInv'
  BY <1>10 DEF JobInterrupted, TakeJob, ActiveInv
<1>11. CASE WriteOutputs
  BY <1>11 DEF WriteOutputs, ActiveInv, Opened, Looping, Writing, plan
<1>12. CASE WriteSamples
  BY <1>12 DEF WriteSamples, ActiveInv, Opened, Looping, Writing, plan
<1>13. CASE AppendRow
  BY <1>13 DEF AppendRow, ActiveInv, Opened, Looping, Writing, plan
<1>14. CASE AppendFails
  BY <1>14 DEF AppendFails, ActiveInv, Opened, Looping, Writing, durable, plan
<1>15. CASE BeginJobs
  BY <1>15 DEF BeginJobs, ActiveInv, Opening, Opened, durable, plan
<1>16. CASE EndJobs
  BY <1>16 DEF EndJobs, ActiveInv, Opened, Looping, durable
<1>17. CASE ReturnOutcome
  BY <1>17
     DEF ReturnOutcome, ActiveInv, Opening, Opened, Looping, Writing, durable, plan
<1>18. CASE BeginResume
  BY <1>18 DEF BeginResume, ActiveInv, durable
<1>19. CASE Die
  BY <1>19 DEF Die, ActiveInv, Opening, Opened, Looping, Writing, durable, plan
<1>20. CASE UNCHANGED vars
  BY <1>20 DEF vars, ActiveInv, durable, plan
<1>21. QED
  BY <1>1, <1>2, <1>3, <1>4, <1>5, <1>6, <1>7, <1>8, <1>9, <1>10, <1>11, <1>12,
     <1>13, <1>14, <1>15, <1>16, <1>17, <1>18, <1>19, <1>20
     DEF Next, ProcessStep

(* Every step keeps the queued jobs unrecorded.                             *)
LEMMA JobsStep ==
    TypeOK /\ OpeningInv /\ ActiveInv /\ JobsInv /\ CompleteInv /\ [Next]_vars => JobsInv'
<1> SUFFICES ASSUME TypeOK, OpeningInv, ActiveInv, JobsInv, CompleteInv, [Next]_vars
             PROVE  JobsInv'
  OBVIOUS
<1>1. ASSUME NEW e \in Eval, CreateEvaluation(e)
      PROVE  JobsInv'
  BY <1>1 DEF CreateEvaluation, JobsInv, Opened, Opening, Writing, plan
<1>2. ASSUME NEW e \in Eval, RegisterRun(e)
      PROVE  JobsInv'
  BY <1>2 DEF RegisterRun, JobsInv, Opened, Opening, Writing, plan
<1>3. ASSUME NEW e \in Eval, MarkRunning(e)
      PROVE  JobsInv'
  BY <1>3
     DEF MarkRunning, OpeningInv, CompleteInv, IsFirst, JobsInv, Job, JobsOf, Opened,
         Opening, Writing
<1>4. ASSUME NEW e \in Eval, CheckResumable(e)
      PROVE  JobsInv'
  BY <1>4
     DEF CheckResumable, CompleteInv, Whole, JobsInv, JobsOf, Unrecorded, Opened,
         Writing
<1>5. ASSUME NEW e \in Eval, FinishEvaluation(e)
      PROVE  JobsInv'
  BY <1>5 DEF FinishEvaluation, JobsInv, Opened, Opening, Looping, Writing
<1>6. ASSUME NEW e \in Eval, AppendHistory(e)
      PROVE  JobsInv'
  BY <1>6 DEF AppendHistory, JobsInv, Opened, Opening, Looping, Writing, plan
<1>7. ASSUME NEW e \in Eval, WriteLatest(e)
      PROVE  JobsInv'
  BY <1>7 DEF WriteLatest, JobsInv, Opened, Opening, Looping, Writing
<1>8. ASSUME NEW j \in Job, JobAnswers(j)
      PROVE  JobsInv'
  BY <1>8 DEF JobAnswers, TakeJob, IsNext, JobsInv, Opened, Looping
<1>9. ASSUME NEW j \in Job, JobFails(j)
      PROVE  JobsInv'
  BY <1>9 DEF JobFails, TakeJob, JobsInv, Writing
<1>10. ASSUME NEW j \in Job, JobInterrupted(j)
      PROVE  JobsInv'
  BY <1>10 DEF JobInterrupted, TakeJob, JobsInv, Writing
<1>11. CASE WriteOutputs
  BY <1>11 DEF WriteOutputs, JobsInv, Opened, Looping, Writing, plan, progress
<1>12. CASE WriteSamples
  BY <1>12 DEF WriteSamples, JobsInv, Opened, Looping, Writing, plan, progress
<1>13. CASE AppendRow
  BY <1>13 DEF AppendRow, JobsInv, Opened, Looping, Writing, plan
<1>14. CASE AppendFails
  BY <1>14 DEF AppendFails, JobsInv, Opened, Looping, Writing, durable, plan
<1>15. CASE BeginJobs
  BY <1>15 DEF BeginJobs, JobsInv, Opened, Opening, Writing, durable, plan
<1>16. CASE EndJobs
  BY <1>16 DEF EndJobs, JobsInv, Opened, Looping, Writing, durable
<1>17. CASE ReturnOutcome
  BY <1>17 DEF ReturnOutcome, JobsInv, Opened, Opening, Looping, Writing, durable, plan
<1>18. CASE BeginResume
  BY <1>18 DEF BeginResume, JobsInv, Writing
<1>19. CASE Die
  BY <1>19 DEF Die, JobsInv, Opened, Opening, Looping, Writing, durable, plan
<1>20. CASE UNCHANGED vars
  BY <1>20 DEF vars, JobsInv, durable, plan, progress
<1>21. QED
  BY <1>1, <1>2, <1>3, <1>4, <1>5, <1>6, <1>7, <1>8, <1>9, <1>10, <1>11, <1>12,
     <1>13, <1>14, <1>15, <1>16, <1>17, <1>18, <1>19, <1>20
     DEF Next, ProcessStep

(* Every step keeps what is left to close running.                          *)
LEMMA ClosingStep ==
    TypeOK /\ ActiveInv /\ ClosingInv /\ [Next]_vars => ClosingInv'
<1> SUFFICES ASSUME TypeOK, ActiveInv, ClosingInv, [Next]_vars
             PROVE  ClosingInv'
  OBVIOUS
<1>1. ASSUME NEW e \in Eval, CreateEvaluation(e)
      PROVE  ClosingInv'
  BY <1>1 DEF CreateEvaluation, ClosingInv, Closing
<1>2. ASSUME NEW e \in Eval, RegisterRun(e)
      PROVE  ClosingInv'
  BY <1>2 DEF RegisterRun, ClosingInv, Closing
<1>3. ASSUME NEW e \in Eval, MarkRunning(e)
      PROVE  ClosingInv'
  BY <1>3 DEF MarkRunning, ClosingInv, Closing
<1>4. ASSUME NEW e \in Eval, CheckResumable(e)
      PROVE  ClosingInv'
  BY <1>4 DEF CheckResumable, ClosingInv, Closing
<1>5. ASSUME NEW e \in Eval, FinishEvaluation(e)
      PROVE  ClosingInv'
  <2>1. status[e] = "running" /\ \A f \in left : status[f] = "running" /\ f \in registered
    BY <1>5 DEF FinishEvaluation, IsFirst, ClosingInv, Closing
  <2>2. CASE ClosingStatus(e) = "complete"
    <3>1. \A f \in left : IsFirst(f) => f = e
      BY <1>5 DEF FinishEvaluation, IsFirst, Eval
    <3>2. pc' = "history" /\ left' = left /\ registered' = registered
      BY <1>5, <2>2 DEF FinishEvaluation
    <3>3. \A f \in left : status'[f] = IF f = e THEN "complete" ELSE "running"
      BY <1>5, <2>1, <2>2 DEF FinishEvaluation, TypeOK
    <3>4. IsFirst(e)' /\ \A f \in left' : IsFirst(f)' => f = e
      BY <1>5, <3>1, <3>2 DEF FinishEvaluation, IsFirst
    <3>5. QED
      BY <2>1, <3>2, <3>3, <3>4 DEF ClosingInv
  <2>3. CASE ClosingStatus(e) # "complete"
    BY <1>5, <2>1, <2>3 DEF FinishEvaluation, ClosingInv
  <2>4. QED
    BY <2>2, <2>3
<1>6. ASSUME NEW e \in Eval, AppendHistory(e)
      PROVE  ClosingInv'
  BY <1>6 DEF AppendHistory, ClosingInv, Closing, IsFirst, plan
<1>7. ASSUME NEW e \in Eval, WriteLatest(e)
      PROVE  ClosingInv'
  BY <1>7 DEF WriteLatest, ClosingInv, Closing, IsFirst, Eval
<1>8. ASSUME NEW j \in Job, JobAnswers(j)
      PROVE  ClosingInv'
  BY <1>8 DEF JobAnswers, ClosingInv, Closing
<1>9. ASSUME NEW j \in Job, JobFails(j)
      PROVE  ClosingInv'
  BY <1>9 DEF JobFails, TakeJob, ClosingInv, IsFirst
<1>10. ASSUME NEW j \in Job, JobInterrupted(j)
      PROVE  ClosingInv'
  BY <1>10 DEF JobInterrupted, TakeJob, ClosingInv, IsFirst
<1>11. CASE WriteOutputs
  BY <1>11 DEF WriteOutputs, ClosingInv, Closing
<1>12. CASE WriteSamples
  BY <1>12 DEF WriteSamples, ClosingInv, Closing
<1>13. CASE AppendRow
  BY <1>13 DEF AppendRow, ClosingInv, Closing
<1>14. CASE AppendFails
  BY <1>14 DEF AppendFails, ClosingInv, Closing
<1>15. CASE BeginJobs
  BY <1>15 DEF BeginJobs, ClosingInv, Closing
<1>16. CASE EndJobs
  BY <1>16 DEF EndJobs, ActiveInv, ClosingInv, Opened, Looping, durable
<1>17. CASE ReturnOutcome
  BY <1>17 DEF ReturnOutcome, ClosingInv, Closing
<1>18. CASE BeginResume
  BY <1>18 DEF BeginResume, ClosingInv, Closing
<1>19. CASE Die
  BY <1>19 DEF Die, ClosingInv, Closing
<1>20. CASE UNCHANGED vars
  BY <1>20 DEF vars, ClosingInv, IsFirst, durable, plan
<1>21. QED
  BY <1>1, <1>2, <1>3, <1>4, <1>5, <1>6, <1>7, <1>8, <1>9, <1>10, <1>11, <1>12,
     <1>13, <1>14, <1>15, <1>16, <1>17, <1>18, <1>19, <1>20
     DEF Next, ProcessStep

(* Every step keeps complete evaluations whole.                             *)
LEMMA CompleteStep ==
    TypeOK /\ OpeningInv /\ ActiveInv /\ JobsInv /\ ClosingInv /\ CompleteInv /\ [Next]_vars => CompleteInv'
<1> SUFFICES ASSUME TypeOK, OpeningInv, ActiveInv, JobsInv, ClosingInv, CompleteInv, [Next]_vars
             PROVE  CompleteInv'
  OBVIOUS
<1>1. ASSUME NEW e \in Eval, CreateEvaluation(e)
      PROVE  CompleteInv'
  BY <1>1 DEF CreateEvaluation, OpeningInv, CompleteInv, Whole, Unrecorded, IsFirst,
         Opening
<1>2. ASSUME NEW e \in Eval, RegisterRun(e)
      PROVE  CompleteInv'
  BY <1>2 DEF RegisterRun, CompleteInv, Whole, Unrecorded
<1>3. ASSUME NEW e \in Eval, MarkRunning(e)
      PROVE  CompleteInv'
  BY <1>3
     DEF MarkRunning, OpeningInv, CompleteInv, Whole, Unrecorded, IsFirst, Opening
<1>4. ASSUME NEW e \in Eval, CheckResumable(e)
      PROVE  CompleteInv'
  BY <1>4 DEF CheckResumable, TypeOK, CompleteInv, Whole, Unrecorded, Job
<1>5. ASSUME NEW e \in Eval, FinishEvaluation(e)
      PROVE  CompleteInv'
  BY <1>5 DEF FinishEvaluation, CompleteInv, Whole, Unrecorded, ClosingStatus
<1>6. ASSUME NEW e \in Eval, AppendHistory(e)
      PROVE  CompleteInv'
  BY <1>6
     DEF AppendHistory, CompleteInv, ClosingInv, Whole, Unrecorded, IsFirst, Closing
<1>7. ASSUME NEW e \in Eval, WriteLatest(e)
      PROVE  CompleteInv'
  BY <1>7 DEF WriteLatest, CompleteInv, Whole, Unrecorded
<1>8. ASSUME NEW j \in Job, JobAnswers(j)
      PROVE  CompleteInv'
  BY <1>8 DEF JobAnswers, TakeJob, CompleteInv, Whole, Unrecorded
<1>9. ASSUME NEW j \in Job, JobFails(j)
      PROVE  CompleteInv'
  BY <1>9 DEF JobFails, TakeJob, CompleteInv, Whole, Unrecorded
<1>10. ASSUME NEW j \in Job, JobInterrupted(j)
      PROVE  CompleteInv'
  BY <1>10 DEF JobInterrupted, TakeJob, CompleteInv, Whole, Unrecorded
<1>11. CASE WriteOutputs
  BY <1>11 DEF WriteOutputs, CompleteInv, Whole, Unrecorded
<1>12. CASE WriteSamples
  BY <1>12 DEF WriteSamples, CompleteInv, Whole, Unrecorded
<1>13. CASE AppendRow
  BY <1>13
     DEF AppendRow, CompleteInv, JobsInv, ActiveInv, Whole, Unrecorded, Opened,
         Looping, Writing
<1>14. CASE AppendFails
  BY <1>14 DEF AppendFails, CompleteInv, Whole, Unrecorded, durable
<1>15. CASE BeginJobs
  BY <1>15 DEF BeginJobs, CompleteInv, Whole, Unrecorded, durable
<1>16. CASE EndJobs
  BY <1>16 DEF EndJobs, CompleteInv, Whole, Unrecorded, durable
<1>17. CASE ReturnOutcome
  BY <1>17 DEF ReturnOutcome, CompleteInv, Whole, Unrecorded, durable
<1>18. CASE BeginResume
  BY <1>18 DEF BeginResume, CompleteInv, Whole, Unrecorded, durable
<1>19. CASE Die
  BY <1>19 DEF Die, CompleteInv, Whole, Unrecorded, durable
<1>20. CASE UNCHANGED vars
  BY <1>20 DEF vars, CompleteInv, Whole, Unrecorded, durable
<1>21. QED
  BY <1>1, <1>2, <1>3, <1>4, <1>5, <1>6, <1>7, <1>8, <1>9, <1>10, <1>11, <1>12,
     <1>13, <1>14, <1>15, <1>16, <1>17, <1>18, <1>19, <1>20
     DEF Next, ProcessStep

(* No attempt is repeated before a process of the run was stopped.          *)
LEMMA FreshStep ==
    TypeOK /\ OpeningInv /\ ActiveInv /\ JobsInv /\ ClosingInv /\ CompleteInv /\ FreshInv /\ [Next]_vars => FreshInv'
<1> SUFFICES ASSUME TypeOK, OpeningInv, ActiveInv, JobsInv, ClosingInv, CompleteInv, FreshInv, [Next]_vars
             PROVE  FreshInv'
  OBVIOUS
<1>1. ASSUME NEW e \in Eval, CreateEvaluation(e)
      PROVE  FreshInv'
  <2>1. /\ pc = "create" /\ pc' = "register" /\ status[e] = "none" /\ e \in Eval
        /\ \A f \in Eval : f # e => status'[f] = status[f]
        /\ UNCHANGED <<row, outputs, samples, stops, interrupted, todo>>
    BY <1>1 DEF CreateEvaluation, TypeOK, OpeningInv, Opening, IsFirst, plan, progress
  <2>2. \A j \in Job : Doomed(j) => Doomed(j)'
    BY <2>1 DEF Doomed, Looping, Writing, Closing, Job
  <2> QED
    BY <2>1, <2>2 DEF FreshInv, Clean
<1>2. ASSUME NEW e \in Eval, RegisterRun(e)
      PROVE  FreshInv'
  BY <1>2 DEF RegisterRun, FreshInv, OpeningInv, Clean, plan, progress, Doomed, Opening, Opened, Looping, Writing, Closing
<1>3. ASSUME NEW e \in Eval, MarkRunning(e)
      PROVE  FreshInv'
  <2>1. /\ pc = "mark" /\ pc' = "create" /\ status[e] = "planned"
        /\ \A f \in Eval : f # e => status'[f] = status[f]
        /\ UNCHANGED <<row, outputs, samples, stops, interrupted>>
        /\ todo' = todo \cup JobsOf(e)
    BY <1>3 DEF MarkRunning, TypeOK, OpeningInv, Opening, IsFirst, progress
  <2>2. \A j \in Job : Doomed(j) => Doomed(j)'
    BY <2>1 DEF Doomed, Looping, Writing, Closing, Job
  <2>3. \A j \in JobsOf(e) : j \in Job /\ row[j] = "none" /\ ~Doomed(j)
    <3>1. \A j \in JobsOf(e) : j \in Job /\ j[1] = e
      BY DEF JobsOf, Job
    <3> QED
      BY <2>1, <3>1 DEF CompleteInv, Doomed, Looping, Writing, Closing
  <2> QED
    BY <2>1, <2>2, <2>3 DEF FreshInv, Clean
<1>4. ASSUME NEW e \in Eval, CheckResumable(e)
      PROVE  FreshInv'
  <2>1. /\ pc = "check" /\ pc' \in {"check", "off"}
        /\ \A f \in Eval : status[f] = "failed" => status'[f] = "failed"
        /\ UNCHANGED <<row, outputs, samples, stops, interrupted>>
        /\ \A j \in todo' \ todo : j \in Unrecorded(e) /\ status[e] # "failed"
    BY <1>4 DEF CheckResumable, TypeOK, progress
  <2>2. \A j \in Job : Doomed(j) => Doomed(j)'
    BY <2>1 DEF Doomed, Looping, Writing, Closing, Job
  <2>3. \A j \in todo' \ todo : j \in Job /\ row[j] = "none" /\ ~Doomed(j)
    <3>1. \A j \in Unrecorded(e) : j \in Job /\ j[1] = e /\ row[j] = "none"
      BY DEF Unrecorded, JobsOf, Job
    <3> QED
      BY <2>1, <3>1 DEF Doomed, Looping, Writing, Closing
  <2> QED
    BY <2>1, <2>2, <2>3 DEF FreshInv, Clean
<1>5. ASSUME NEW e \in Eval, FinishEvaluation(e)
      PROVE  FreshInv'
  <2>1. /\ pc = "finish" /\ pc' \in {"finish", "history"}
        /\ status' = [status EXCEPT ![e] = ClosingStatus(e)]
        /\ left' = IF ClosingStatus(e) = "complete" THEN left ELSE left \ {e}
        /\ UNCHANGED <<row, outputs, samples, stops, interrupted, infra, todo, job>>
    BY <1>5 DEF FinishEvaluation, progress
  <2>2. ASSUME ~interrupted, NEW j \in Job, row[j] = "none", Doomed(j)
        PROVE  Doomed(j)'
    <3>1. j[1] \in Eval /\ j \in Unrecorded(j[1])
      BY <2>2 DEF Unrecorded, JobsOf, Job
    <3>2. CASE j[1] # e
      BY <2>1, <2>2, <3>1, <3>2 DEF Doomed, TypeOK, Looping, Writing, Closing
    <3>3. CASE j[1] = e
      <4>1. status[e] # "failed" => e \in infra
        BY <2>1, <2>2, <3>3 DEF Doomed, Looping, Writing
      <4>2. status[e] # "failed"
        BY <1>5 DEF FinishEvaluation, ClosingInv, Closing, IsFirst
      <4>3. ClosingStatus(e) = "failed"
        BY <2>2, <3>1, <3>3, <4>1, <4>2 DEF ClosingStatus, Whole
      <4> QED
        BY <2>1, <3>1, <3>3, <4>3 DEF Doomed, TypeOK
    <3> QED
      BY <3>2, <3>3
  <2> QED
    BY <2>1, <2>2 DEF FreshInv, Clean
<1>6. ASSUME NEW e \in Eval, AppendHistory(e)
      PROVE  FreshInv'
  BY <1>6 DEF AppendHistory, FreshInv, Clean, plan, progress, Doomed, Opening, Opened, Looping, Writing, Closing
<1>7. ASSUME NEW e \in Eval, WriteLatest(e)
      PROVE  FreshInv'
  <2>1. /\ pc = "latest" /\ pc' = "finish" /\ left' = left \ {e}
        /\ UNCHANGED <<status, row, outputs, samples, stops, interrupted, infra, todo>>
    BY <1>7 DEF WriteLatest, progress
  <2>2. Whole(e)
    BY <1>7 DEF WriteLatest, ClosingInv, Closing, CompleteInv, IsFirst
  <2>3. ASSUME NEW j \in Job, row[j] = "none", Doomed(j)
        PROVE  Doomed(j)'
    <3>1. j \in Unrecorded(j[1])
      BY <2>3 DEF Unrecorded, JobsOf, Job
    <3>2. j[1] # e
      BY <2>2, <3>1 DEF Whole
    <3> QED
      BY <2>1, <2>3, <3>2 DEF Doomed, Looping, Writing, Closing
  <2> QED
    BY <2>1, <2>3 DEF FreshInv, Clean
<1>8. ASSUME NEW j \in Job, JobAnswers(j)
      PROVE  FreshInv'
  BY <1>8 DEF JobAnswers, FreshInv, TakeJob, IsNext, TypeOK, Older, Clean, Doomed, Opening, Opened, Looping, Writing, Closing
<1>9. ASSUME NEW j \in Job, JobFails(j)
      PROVE  FreshInv'
  BY <1>9 DEF JobFails, FreshInv, TakeJob, IsNext, TypeOK, Older, Clean, JobsInv, Doomed, Opening, Opened, Looping, Writing, Closing
<1>10. ASSUME NEW j \in Job, JobInterrupted(j)
      PROVE  FreshInv'
  BY <1>10 DEF JobInterrupted, FreshInv, TypeOK, Doomed, Opening, Opened, Looping, Writing, Closing
<1>11. CASE WriteOutputs
  BY <1>11 DEF WriteOutputs, FreshInv, TypeOK, JobsInv, Clean, plan, progress, Doomed, Opening, Opened, Looping, Writing, Closing
<1>12. CASE WriteSamples
  BY <1>12 DEF WriteSamples, FreshInv, TypeOK, JobsInv, Clean, plan, progress, Doomed, Opening, Opened, Looping, Writing, Closing
<1>13. CASE AppendRow
  <2>1. /\ pc = "row" /\ pc' = "pick"
        /\ \A k \in Job : row'[k] = "none" => row[k] = "none" /\ k # job
        /\ UNCHANGED <<status, infra, active, left, outputs, samples, stops,
                       interrupted, todo>>
    BY <1>13 DEF AppendRow, TypeOK, Payload, plan
  <2>2. \A k \in Job : k # job /\ Doomed(k) => Doomed(k)'
    BY <2>1 DEF Doomed, Looping, Writing, Closing
  <2> QED
    BY <2>1, <2>2 DEF FreshInv, Clean
<1>14. CASE AppendFails
  BY <1>14 DEF AppendFails, FreshInv, TypeOK, JobsInv, Clean, durable, plan, Doomed, Opening, Opened, Looping, Writing, Closing
<1>15. CASE BeginJobs
  BY <1>15 DEF BeginJobs, FreshInv, Clean, durable, plan, progress, Doomed, Opening, Opened, Looping, Writing, Closing
<1>16. CASE EndJobs
  BY <1>16 DEF EndJobs, FreshInv, Clean, durable, progress, Doomed, Opening, Opened, Looping, Writing, Closing
<1>17. CASE ReturnOutcome
  BY <1>17 DEF ReturnOutcome, FreshInv, Clean, durable, plan, progress, Doomed, Opening, Opened, Looping, Writing, Closing
<1>18. CASE BeginResume
  BY <1>18 DEF BeginResume, FreshInv, Clean, durable, Doomed, Opening, Opened, Looping, Writing, Closing
<1>19. CASE Die
  BY <1>19 DEF Die, FreshInv, TypeOK, Doomed, Opening, Opened, Looping, Writing, Closing
<1>20. CASE UNCHANGED vars
  BY <1>20 DEF FreshInv, vars, durable, plan, progress, Clean, Doomed, Opening, Opened, Looping, Writing, Closing
<1>21. QED
  BY <1>1, <1>2, <1>3, <1>4, <1>5, <1>6, <1>7, <1>8, <1>9, <1>10, <1>11, <1>12,
     <1>13, <1>14, <1>15, <1>16, <1>17, <1>18, <1>19, <1>20
     DEF Next, ProcessStep

(* Every step keeps recorded details those of the recorded attempt.         *)
LEMMA WritingStep ==
    TypeOK /\ JobsInv /\ WritingInv /\ FreshInv /\ DetailsAreCurrent /\ [Next]_vars => (WritingInv /\ DetailsAreCurrent)'
<1> SUFFICES ASSUME TypeOK, JobsInv, WritingInv, FreshInv, DetailsAreCurrent, [Next]_vars
             PROVE  (WritingInv /\ DetailsAreCurrent)'
  OBVIOUS
<1>1. ASSUME NEW e \in Eval, CreateEvaluation(e)
      PROVE  (WritingInv /\ DetailsAreCurrent)'
  BY <1>1 DEF CreateEvaluation, WritingInv, DetailsAreCurrent
<1>2. ASSUME NEW e \in Eval, RegisterRun(e)
      PROVE  (WritingInv /\ DetailsAreCurrent)'
  BY <1>2 DEF RegisterRun, WritingInv, DetailsAreCurrent
<1>3. ASSUME NEW e \in Eval, MarkRunning(e)
      PROVE  (WritingInv /\ DetailsAreCurrent)'
  BY <1>3 DEF MarkRunning, WritingInv, DetailsAreCurrent
<1>4. ASSUME NEW e \in Eval, CheckResumable(e)
      PROVE  (WritingInv /\ DetailsAreCurrent)'
  BY <1>4 DEF CheckResumable, WritingInv, DetailsAreCurrent
<1>5. ASSUME NEW e \in Eval, FinishEvaluation(e)
      PROVE  (WritingInv /\ DetailsAreCurrent)'
  BY <1>5 DEF FinishEvaluation, WritingInv, DetailsAreCurrent
<1>6. ASSUME NEW e \in Eval, AppendHistory(e)
      PROVE  (WritingInv /\ DetailsAreCurrent)'
  BY <1>6 DEF AppendHistory, WritingInv, DetailsAreCurrent
<1>7. ASSUME NEW e \in Eval, WriteLatest(e)
      PROVE  (WritingInv /\ DetailsAreCurrent)'
  BY <1>7 DEF WriteLatest, WritingInv, DetailsAreCurrent
<1>8. ASSUME NEW j \in Job, JobAnswers(j)
      PROVE  (WritingInv /\ DetailsAreCurrent)'
  BY <1>8 DEF JobAnswers, TakeJob, IsNext, Older, TypeOK, WritingInv, DetailsAreCurrent, JobsInv
<1>9. ASSUME NEW j \in Job, JobFails(j)
      PROVE  (WritingInv /\ DetailsAreCurrent)'
  BY <1>9 DEF JobFails, TakeJob, IsNext, WritingInv, DetailsAreCurrent, JobsInv
<1>10. ASSUME NEW j \in Job, JobInterrupted(j)
      PROVE  (WritingInv /\ DetailsAreCurrent)'
  BY <1>10 DEF JobInterrupted, TakeJob, IsNext, TypeOK, WritingInv, DetailsAreCurrent, JobsInv
<1>11. CASE WriteOutputs
  BY <1>11 DEF WriteOutputs, TypeOK, JobsInv, Writing, WritingInv, DetailsAreCurrent, progress
<1>12. CASE WriteSamples
  BY <1>12 DEF WriteSamples, TypeOK, JobsInv, Writing, WritingInv, DetailsAreCurrent, progress
<1>13. CASE AppendRow
  BY <1>13 DEF AppendRow, TypeOK, FreshInv, WritingInv, DetailsAreCurrent
<1>14. CASE AppendFails
  BY <1>14 DEF AppendFails, WritingInv, DetailsAreCurrent, durable
<1>15. CASE BeginJobs
  BY <1>15 DEF BeginJobs, WritingInv, DetailsAreCurrent, durable
<1>16. CASE EndJobs
  BY <1>16 DEF EndJobs, WritingInv, DetailsAreCurrent, durable
<1>17. CASE ReturnOutcome
  BY <1>17 DEF ReturnOutcome, WritingInv, DetailsAreCurrent, durable
<1>18. CASE BeginResume
  BY <1>18 DEF BeginResume, WritingInv, DetailsAreCurrent, durable
<1>19. CASE Die
  BY <1>19 DEF Die, TypeOK, WritingInv, DetailsAreCurrent, durable
<1>20. CASE UNCHANGED vars
  BY <1>20 DEF vars, WritingInv, DetailsAreCurrent, durable, progress
<1>21. QED
  BY <1>1, <1>2, <1>3, <1>4, <1>5, <1>6, <1>7, <1>8, <1>9, <1>10, <1>11, <1>12,
     <1>13, <1>14, <1>15, <1>16, <1>17, <1>18, <1>19, <1>20
     DEF Next, ProcessStep

(* No step loses a job.                                                     *)
LEMMA CoverStep ==
    TypeOK /\ OpeningInv /\ ActiveInv /\ JobsInv /\ ClosingInv /\ CompleteInv /\ CoverInv /\ [Next]_vars => CoverInv'
<1> SUFFICES ASSUME TypeOK, OpeningInv, ActiveInv, JobsInv, ClosingInv, CompleteInv, CoverInv, [Next]_vars
             PROVE  CoverInv'
  OBVIOUS
<1>1. ASSUME NEW e \in Eval, CreateEvaluation(e)
      PROVE  CoverInv'
  BY <1>1
     DEF CreateEvaluation, CoverInv, Pending, Undisturbed, SomeRowFails, Unrecorded,
         IsFirst, Opened, Opening, Looping, Writing, Closing, plan, progress
<1>2. ASSUME NEW e \in Eval, RegisterRun(e)
      PROVE  CoverInv'
  BY <1>2 DEF RegisterRun, CoverInv, Pending, Undisturbed, SomeRowFails, Unrecorded,
         IsFirst, Opened, Opening, Looping, Writing, Closing, plan, progress
<1>3. ASSUME NEW e \in Eval, MarkRunning(e)
      PROVE  CoverInv'
  BY <1>3 DEF MarkRunning, OpeningInv, CoverInv, Pending, Undisturbed, SomeRowFails,
         Unrecorded, Opened, Opening, Looping, Writing, Closing, progress
<1>4. ASSUME NEW e \in Eval, CheckResumable(e)
      PROVE  CoverInv'
  BY <1>4 DEF CheckResumable, TypeOK, CoverInv, Pending, Undisturbed, SomeRowFails,
         Unrecorded, Opened, Looping, Writing, Closing, progress
<1>5. ASSUME NEW e \in Eval, FinishEvaluation(e)
      PROVE  CoverInv'
  BY <1>5
     DEF FinishEvaluation, CoverInv, Undisturbed, SomeRowFails, Whole, Unrecorded,
         ClosingStatus, Opened, Opening, Looping, Writing, Closing, progress
<1>6. ASSUME NEW e \in Eval, AppendHistory(e)
      PROVE  CoverInv'
  BY <1>6 DEF AppendHistory, CoverInv, Undisturbed, SomeRowFails, Whole, Unrecorded,
         Opened, Opening, Looping, Writing, Closing, plan, progress
<1>7. ASSUME NEW e \in Eval, WriteLatest(e)
      PROVE  CoverInv'
  BY <1>7 DEF WriteLatest, CoverInv, ClosingInv, Undisturbed, SomeRowFails, Whole,
         Unrecorded, Opened, Opening, Looping, Writing, Closing, progress
<1>8. ASSUME NEW j \in Job, JobAnswers(j)
      PROVE  CoverInv'
  BY <1>8 DEF JobAnswers, TakeJob, CoverInv, Pending, Undisturbed, Unrecorded,
         ClosingStatus, Opened, Looping, Writing, Closing
<1>9. ASSUME NEW j \in Job, JobFails(j)
      PROVE  CoverInv'
  BY <1>9 DEF JobFails, TakeJob, CoverInv, ActiveInv, Undisturbed, Closing
<1>10. ASSUME NEW j \in Job, JobInterrupted(j)
      PROVE  CoverInv'
  BY <1>10 DEF JobInterrupted, TakeJob, CoverInv, Undisturbed, Looping, Closing
<1>11. CASE WriteOutputs
  BY <1>11
     DEF WriteOutputs, CoverInv, Pending, Undisturbed, SomeRowFails, Unrecorded,
         Opened, Looping, Writing, Closing, plan, progress
<1>12. CASE WriteSamples
  BY <1>12
     DEF WriteSamples, CoverInv, Pending, Undisturbed, SomeRowFails, Unrecorded,
         Opened, Looping, Writing, Closing, plan, progress
<1>13. CASE AppendRow
  <2> USE <1>13
  <2>1. /\ pc = "row" /\ pc' = "pick" /\ row' = [row EXCEPT ![job] = payload]
        /\ UNCHANGED <<registered, active, todo, status, infra, interrupted, left>>
        /\ job \in Job /\ payload # "none" /\ row[job] = "none" /\ job[1] \in registered
    BY DEF AppendRow, TypeOK, Payload, JobsInv, ActiveInv, Writing, plan
  <2>2. SomeRowFails => SomeRowFails'
    BY <2>1 DEF SomeRowFails
  <2>3. ~Passes(payload) => SomeRowFails'
    BY <2>1 DEF SomeRowFails, TypeOK
  <2>4. stopped' /\ Undisturbed' => SomeRowFails'
    <3>1. Undisturbed' => Undisturbed
      BY <2>1 DEF Undisturbed
    <3>2. stopped' => stopped \/ ~Passes(payload)
      BY DEF AppendRow
    <3>3. stopped /\ Undisturbed => SomeRowFails
      BY <2>1 DEF CoverInv, Opened, Looping, Writing
    <3>4. QED
      BY <2>2, <2>3, <3>1, <3>2, <3>3
  <2>5. ASSUME NEW e \in registered
        PROVE  /\ e \in active \/ status[e] = "complete"
               /\ Undisturbed => Unrecorded(e)' \subseteq todo
    <3>1. Unrecorded(e)' = Unrecorded(e) \ {job}
      BY <2>1 DEF Unrecorded, TypeOK
    <3>2. Undisturbed => Unrecorded(e) \subseteq todo \cup {job}
      BY <2>1 DEF CoverInv, Pending, Opened, Looping, Writing
    <3>3. QED
      BY <2>1, <3>1, <3>2 DEF CoverInv, Opened, Looping, Writing
  <2>6. QED
    BY <2>1, <2>4, <2>5 DEF CoverInv, Pending, Undisturbed, Closing
<1>14. CASE AppendFails
  BY <1>14
     DEF AppendFails, CoverInv, Undisturbed, Opened, Looping, Writing, Closing,
         durable, plan
<1>15. CASE BeginJobs
  BY <1>15
     DEF BeginJobs, CoverInv, Pending, Undisturbed, SomeRowFails, Unrecorded, Opened,
         Opening, Writing, Closing, durable, plan, progress
<1>16. CASE EndJobs
  BY <1>16
     DEF EndJobs, CoverInv, Pending, Undisturbed, SomeRowFails, Whole, Unrecorded,
         Opened, Looping, Writing, durable, progress
<1>17. CASE ReturnOutcome
  BY <1>17 DEF ReturnOutcome, CoverInv, Opened, Opening, Looping, Writing, Closing
<1>18. CASE BeginResume
  BY <1>18 DEF BeginResume, CoverInv, Looping, Writing, Closing, durable
<1>19. CASE Die
  BY <1>19 DEF Die, CoverInv, Opened, Opening, Looping, Writing, Closing
<1>20. CASE UNCHANGED vars
  BY <1>20
     DEF vars, CoverInv, Pending, Undisturbed, SomeRowFails, Whole, Unrecorded,
         durable, plan, progress
<1>21. QED
  BY <1>1, <1>2, <1>3, <1>4, <1>5, <1>6, <1>7, <1>8, <1>9, <1>10, <1>11, <1>12,
     <1>13, <1>14, <1>15, <1>16, <1>17, <1>18, <1>19, <1>20
     DEF Next, ProcessStep

(* Every step keeps the meaning of exit code 0.                             *)
LEMMA ZeroStep ==
    RunInv /\ [Next]_vars => ZeroMeansPassed'
<1> SUFFICES ASSUME RunInv, [Next]_vars
             PROVE  ZeroMeansPassed'
  OBVIOUS
<1>1. ASSUME NEW e \in Eval, CreateEvaluation(e)
      PROVE  ZeroMeansPassed'
  BY <1>1 DEF CreateEvaluation, RunInv, OpeningInv, ZeroMeansPassed, Opening
<1>2. ASSUME NEW e \in Eval, RegisterRun(e)
      PROVE  ZeroMeansPassed'
  BY <1>2 DEF RegisterRun, RunInv, OpeningInv, ZeroMeansPassed, Opening
<1>3. ASSUME NEW e \in Eval, MarkRunning(e)
      PROVE  ZeroMeansPassed'
  BY <1>3 DEF MarkRunning, RunInv, OpeningInv, ZeroMeansPassed, Opening
<1>4. ASSUME NEW e \in Eval, CheckResumable(e)
      PROVE  ZeroMeansPassed'
  BY <1>4 DEF CheckResumable, RunInv, TypeOK, ZeroMeansPassed
<1>5. ASSUME NEW e \in Eval, FinishEvaluation(e)
      PROVE  ZeroMeansPassed'
  BY <1>5
     DEF FinishEvaluation, RunInv, ClosingInv, ZeroMeansPassed, IsFirst, Closing
<1>6. ASSUME NEW e \in Eval, AppendHistory(e)
      PROVE  ZeroMeansPassed'
  BY <1>6 DEF AppendHistory, RunInv, ZeroMeansPassed
<1>7. ASSUME NEW e \in Eval, WriteLatest(e)
      PROVE  ZeroMeansPassed'
  BY <1>7 DEF WriteLatest, RunInv, ZeroMeansPassed
<1>8. ASSUME NEW j \in Job, JobAnswers(j)
      PROVE  ZeroMeansPassed'
  BY <1>8 DEF JobAnswers, TakeJob, RunInv, ActiveInv, ZeroMeansPassed, IsFirst
<1>9. ASSUME NEW j \in Job, JobFails(j)
      PROVE  ZeroMeansPassed'
  BY <1>9 DEF JobFails, TakeJob, RunInv, ZeroMeansPassed, plan, progress
<1>10. ASSUME NEW j \in Job, JobInterrupted(j)
      PROVE  ZeroMeansPassed'
  BY <1>10 DEF JobInterrupted, TakeJob, RunInv, ZeroMeansPassed, Job, Looping
<1>11. CASE WriteOutputs
  BY <1>11 DEF WriteOutputs, RunInv, ZeroMeansPassed
<1>12. CASE WriteSamples
  BY <1>12 DEF WriteSamples, RunInv, ZeroMeansPassed
<1>13. CASE AppendRow
  BY <1>13 DEF AppendRow, RunInv, JobsInv, ZeroMeansPassed, Writing
<1>14. CASE AppendFails
  BY <1>14 DEF AppendFails, RunInv, ZeroMeansPassed, durable
<1>15. CASE BeginJobs
  BY <1>15 DEF BeginJobs, RunInv, ZeroMeansPassed, durable
<1>16. CASE EndJobs
  BY <1>16 DEF EndJobs, RunInv, ZeroMeansPassed, durable
<1>17. CASE ReturnOutcome
  BY <1>17
     DEF ReturnOutcome, RunInv, TypeOK, CoverInv, ZeroMeansPassed, Undisturbed,
         SomeRowFails, ExitCode, Whole, Unrecorded, Job, JobsOf, Closing, durable
<1>18. CASE BeginResume
  BY <1>18 DEF BeginResume, RunInv, ZeroMeansPassed, durable
<1>19. CASE Die
  BY <1>19 DEF Die, ZeroMeansPassed
<1>20. CASE UNCHANGED vars
  BY <1>20 DEF vars, RunInv, ZeroMeansPassed, durable
<1>21. QED
  BY <1>1, <1>2, <1>3, <1>4, <1>5, <1>6, <1>7, <1>8, <1>9, <1>10, <1>11, <1>12,
     <1>13, <1>14, <1>15, <1>16, <1>17, <1>18, <1>19, <1>20
     DEF Next, ProcessStep
-----------------------------------------------------------------------------
(* The first process starts in the invariant.                               *)
LEMMA InitRunInv ==
    Init => RunInv
<1> SUFFICES ASSUME Init PROVE RunInv
  OBVIOUS
<1>1. TypeOK
  <2>1. <<1, 1>> \in Job /\ 0 \in 0..MaxStops
    BY EvaluationRunAssumption DEF Job, Eval, Case
  <2>2. QED
    BY <2>1 DEF Init, TypeOK, Payload, Detail, Status, PC, Exit
<1>2. OpeningInv /\ ActiveInv /\ JobsInv /\ ClosingInv
  BY DEF Init, OpeningInv, ActiveInv, JobsInv, ClosingInv, Writing, Closing
<1>3. CompleteInv /\ WritingInv /\ FreshInv /\ DetailsAreCurrent
  BY DEF Init, CompleteInv, WritingInv, FreshInv, Clean, DetailsAreCurrent
<1>4. CoverInv /\ ZeroMeansPassed
  BY DEF Init, CoverInv, ZeroMeansPassed
<1>5. QED
  BY <1>1, <1>2, <1>3, <1>4 DEF RunInv

(* Every step, and no step, keeps the invariant.                            *)
LEMMA RunInvStep ==
    RunInv /\ [Next]_vars => RunInv'
<1> SUFFICES ASSUME RunInv, [Next]_vars PROVE RunInv'
  OBVIOUS
<1>1. TypeOK' /\ OpeningInv' /\ ActiveInv' /\ JobsInv'
  BY TypeStep, OpeningStep, ActiveStep, JobsStep DEF RunInv
<1>2. ClosingInv' /\ CompleteInv' /\ FreshInv' /\ (WritingInv /\ DetailsAreCurrent)'
  BY ClosingStep, CompleteStep, FreshStep, WritingStep DEF RunInv
<1>3. CoverInv' /\ ZeroMeansPassed'
  BY CoverStep, ZeroStep DEF RunInv
<1>4. QED
  BY <1>1, <1>2, <1>3 DEF RunInv

(* The inductive invariant of a run, its types included.                    *)
THEOREM RunInvariant == Spec => []RunInv
<1>1. QED
  BY InitRunInv, RunInvStep, PTL DEF Spec

(* Every variable of a run keeps its type, for any number of evaluations.    *)
THEOREM RunTypes == Spec => []TypeOK
<1>1. RunInv => TypeOK
  BY DEF RunInv
<1>2. QED
  BY <1>1, RunInvariant, PTL

(* A row of results.csv stands over details of its own attempt exactly when  *)
(* it holds some, wherever the processes of the run were killed, and over an  *)
(* earlier attempt's only in a run that was stopped.                         *)
THEOREM RowsHaveTheirDetails == Spec => []DetailsAreCurrent
<1>1. RunInv => DetailsAreCurrent
  BY DEF RunInv
<1>2. QED
  BY <1>1, RunInvariant, PTL

(* Exit code 0 means that every evaluation the run can name is complete and  *)
(* every job of it passed.                                                  *)
THEOREM ZeroIsHonest == Spec => []ZeroMeansPassed
<1>1. RunInv => ZeroMeansPassed
  BY DEF RunInv
<1>2. QED
  BY <1>1, RunInvariant, PTL

-----------------------------------------------------------------------------
(* No step of a later process touches a job that has a row.                 *)
THEOREM RecordedIsFinal == Spec => ResultsAreFinal
<1> DEFINE Final == \A j \in Job : row[j] # "none" =>
                      row'[j] = row[j] /\ outputs'[j] = outputs[j] /\ samples'[j] = samples[j]
<1>1. ASSUME RunInv, Next
      PROVE  Final
  <2>1. TypeOK /\ JobsInv
    BY <1>1 DEF RunInv
  <2>2. ASSUME NEW e \in Eval, CreateEvaluation(e)
        PROVE  Final
    BY <2>2 DEF CreateEvaluation
  <2>3. ASSUME NEW e \in Eval, RegisterRun(e)
        PROVE  Final
    BY <2>3 DEF RegisterRun
  <2>4. ASSUME NEW e \in Eval, MarkRunning(e)
        PROVE  Final
    BY <2>4 DEF MarkRunning
  <2>5. ASSUME NEW e \in Eval, CheckResumable(e)
        PROVE  Final
    BY <2>5 DEF CheckResumable
  <2>6. ASSUME NEW e \in Eval, FinishEvaluation(e)
        PROVE  Final
    BY <2>6 DEF FinishEvaluation
  <2>7. ASSUME NEW e \in Eval, AppendHistory(e)
        PROVE  Final
    BY <2>7 DEF AppendHistory
  <2>8. ASSUME NEW e \in Eval, WriteLatest(e)
        PROVE  Final
    BY <2>8 DEF WriteLatest
  <2>9. ASSUME NEW j \in Job, JobAnswers(j)
        PROVE  Final
    BY <2>1, <2>9 DEF JobAnswers, TakeJob, IsNext, JobsInv
  <2>10. ASSUME NEW j \in Job, JobFails(j)
        PROVE  Final
    BY <2>1, <2>10 DEF JobFails, TakeJob, IsNext, JobsInv
  <2>11. ASSUME NEW j \in Job, JobInterrupted(j)
        PROVE  Final
    BY <2>1, <2>11 DEF JobInterrupted, TakeJob, IsNext, JobsInv
  <2>12. CASE WriteOutputs
    BY <2>1, <2>12 DEF WriteOutputs, JobsInv, Writing
  <2>13. CASE WriteSamples
    BY <2>1, <2>13 DEF WriteSamples, JobsInv, Writing
  <2>14. CASE AppendRow
    BY <2>1, <2>14 DEF AppendRow, JobsInv, Writing
  <2>15. CASE AppendFails
    BY <2>1, <2>15 DEF AppendFails, durable
  <2>16. CASE BeginJobs
    BY <2>1, <2>16 DEF BeginJobs, durable
  <2>17. CASE EndJobs
    BY <2>1, <2>17 DEF EndJobs, durable
  <2>18. CASE ReturnOutcome
    BY <2>1, <2>18 DEF ReturnOutcome, durable
  <2>19. CASE BeginResume
    BY <2>1, <2>19 DEF BeginResume, durable
  <2>20. CASE Die
    BY <2>1, <2>20 DEF Die, durable
  <2>21. QED
    BY <1>1, <2>2, <2>3, <2>4, <2>5, <2>6, <2>7, <2>8, <2>9, <2>10, <2>11, <2>12,
       <2>13, <2>14, <2>15, <2>16, <2>17, <2>18, <2>19, <2>20
       DEF Next, ProcessStep
<1>2. RunInv /\ [Next]_vars => [Final]_vars
  BY <1>1
<1>3. QED
  BY <1>2, RunInvariant, PTL DEF Spec, ResultsAreFinal

-----------------------------------------------------------------------------
(* The abstract variable: the jobs with a row.                              *)
Recorded == {j \in Job : row[j] # "none"}

(* The first process starts with no manifest, no row and no history.        *)
LEMMA InitKeepsPromise ==
    Init => Promise!PromiseInit
BY DEF Init, Promise!PromiseInit

(* Every step is a step of the promise, or leaves its variables alone.       *)
LEMMA StepKeepsPromise ==
    RunInv /\ [Next]_vars => [Promise!PromiseNext]_(Promise!promiseVars)
<1> DEFINE Kept == UNCHANGED <<status, row, history>>
<1> SUFFICES ASSUME RunInv, [Next]_vars
             PROVE  [Promise!PromiseNext]_(Promise!promiseVars)
  OBVIOUS
<1> USE DEF RunInv
<1>1. ASSUME Kept
      PROVE  UNCHANGED Promise!promiseVars
  BY <1>1 DEF Promise!promiseVars
<1>2. ASSUME NEW e \in Eval, CreateEvaluation(e)
      PROVE  Promise!PromiseNext
  <2>1. Promise!MoveTo(e, "none", "planned")
    BY <1>2 DEF CreateEvaluation, OpeningInv, Opening, IsFirst, Promise!MoveTo
  <2>2. QED
    BY <2>1 DEF Promise!PromiseNext
<1>3. ASSUME NEW e \in Eval, RegisterRun(e)
      PROVE  Kept
  BY <1>3 DEF RegisterRun
<1>4. ASSUME NEW e \in Eval, MarkRunning(e)
      PROVE  Promise!PromiseNext
  <2>1. Promise!MoveTo(e, "planned", "running")
    BY <1>4 DEF MarkRunning, OpeningInv, Opening, IsFirst, Promise!MoveTo
  <2>2. QED
    BY <2>1 DEF Promise!PromiseNext
<1>5. ASSUME NEW e \in Eval, CheckResumable(e)
      PROVE  Promise!PromiseNext \/ Kept
  <2>1. CASE status[e] = "interrupted"
    <3>1. Promise!MoveTo(e, "interrupted", "running")
      BY <1>5, <2>1 DEF CheckResumable, Promise!MoveTo
    <3>2. QED
      BY <3>1 DEF Promise!PromiseNext
  <2>2. CASE status[e] # "interrupted"
    BY <1>5, <2>2 DEF CheckResumable, TypeOK
  <2>3. QED
    BY <2>1, <2>2
<1>6. ASSUME NEW e \in Eval, FinishEvaluation(e)
      PROVE  Promise!PromiseNext
  <2>1. status[e] = "running" /\ status' = [status EXCEPT ![e] = ClosingStatus(e)]
    BY <1>6 DEF FinishEvaluation, ClosingInv, Closing, IsFirst
  <2>2. UNCHANGED <<row, history>>
    BY <1>6 DEF FinishEvaluation
  <2>3. CASE Whole(e)
    <3>1. Promise!JobsOf(e) \subseteq Recorded
      BY <2>3 DEF Promise!JobsOf, Recorded, Whole, Unrecorded, JobsOf, Job
    <3>2. Promise!Complete(e)
      BY <2>1, <2>2, <2>3, <3>1
         DEF Promise!Complete, Promise!MoveTo, ClosingStatus, Recorded
    <3>3. QED
      BY <3>2 DEF Promise!PromiseNext
  <2>4. CASE ~Whole(e)
    <3>1. ClosingStatus(e) \in {"interrupted", "failed"}
      BY <2>4 DEF ClosingStatus
    <3>2. Promise!MoveTo(e, "running", "interrupted") \/ Promise!MoveTo(e, "running", "failed")
      BY <2>1, <2>2, <3>1 DEF Promise!MoveTo
    <3>3. QED
      BY <3>2 DEF Promise!PromiseNext
  <2>5. QED
    BY <2>3, <2>4
<1>7. ASSUME NEW e \in Eval, AppendHistory(e)
      PROVE  Promise!PromiseNext
  <2>1. Promise!Publish(e)
    BY <1>7 DEF AppendHistory, ClosingInv, Closing, IsFirst, Promise!Publish
  <2>2. QED
    BY <2>1 DEF Promise!PromiseNext
<1>8. ASSUME NEW e \in Eval, WriteLatest(e)
      PROVE  Kept
  BY <1>8 DEF WriteLatest
<1>9. ASSUME NEW j \in Job, JobAnswers(j)
      PROVE  Kept
  BY <1>9 DEF JobAnswers, TakeJob
<1>10. ASSUME NEW j \in Job, JobFails(j)
      PROVE  Kept
  BY <1>10 DEF JobFails, TakeJob
<1>11. ASSUME NEW j \in Job, JobInterrupted(j)
      PROVE  Kept
  BY <1>11 DEF JobInterrupted, TakeJob
<1>12. ASSUME WriteOutputs
      PROVE  Kept
  BY <1>12 DEF WriteOutputs
<1>13. ASSUME WriteSamples
      PROVE  Kept
  BY <1>13 DEF WriteSamples
<1>14. ASSUME AppendRow
      PROVE  Promise!PromiseNext
  <2>1. /\ job \in Job /\ payload # "none"
        /\ row[job] = "none" /\ status[job[1]] = "running"
    BY <1>14
       DEF AppendRow, TypeOK, JobsInv, ActiveInv, Payload, Opened, Looping, Writing
  <2>2. row' = [row EXCEPT ![job] = payload] /\ UNCHANGED <<status, history>>
    BY <1>14 DEF AppendRow
  <2>3. Recorded' = Recorded \cup {job} /\ job \notin Recorded
    BY <2>1, <2>2 DEF Recorded, TypeOK
  <2>4. PICK e \in Eval, c \in Case : job = <<e, c>>
    BY <2>1 DEF Job
  <2>5. Promise!Record(e, c)
    BY <2>1, <2>2, <2>3, <2>4 DEF Promise!Record, Recorded
  <2>6. QED
    BY <2>5 DEF Promise!PromiseNext
<1>15. ASSUME AppendFails
      PROVE  Kept
  BY <1>15 DEF AppendFails, durable
<1>16. ASSUME BeginJobs
      PROVE  Kept
  BY <1>16 DEF BeginJobs, durable
<1>17. ASSUME EndJobs
      PROVE  Kept
  BY <1>17 DEF EndJobs, durable
<1>18. ASSUME ReturnOutcome
      PROVE  Kept
  BY <1>18 DEF ReturnOutcome, durable
<1>19. ASSUME BeginResume
      PROVE  Kept
  BY <1>19 DEF BeginResume, durable
<1>20. ASSUME Die
      PROVE  Kept
  BY <1>20 DEF Die, durable
<1>21. ASSUME UNCHANGED vars
      PROVE  Kept
  BY <1>21 DEF vars, durable
<1>22. QED
  BY <1>1, <1>2, <1>3, <1>4, <1>5, <1>6, <1>7, <1>8, <1>9, <1>10, <1>11, <1>12,
     <1>13, <1>14, <1>15, <1>16, <1>17, <1>18, <1>19, <1>20, <1>21
     DEF Next, ProcessStep

(* The engine implements the documents' promise about the artifacts.        *)
THEOREM RunImplementsPromise == Spec => ImplementsPromise
<1>1. QED
  BY InitKeepsPromise, StepKeepsPromise, RunInvariant, PTL
     DEF Spec, ImplementsPromise, Promise!PromiseSpec

=============================================================================
