----------------------------- MODULE WorkerRun -----------------------------
(***************************************************************************)
(* One job's attempts: WorkerController.run (execution/controller.py)       *)
(* starts a worker process (execution/worker.py), watches the event log     *)
(* both append to (execution/event_log.py), and returns the worker's        *)
(* response or one of its own, which the engine classifies (engine.py).     *)
(*                                                                         *)
(* A worker may hang, crash or be killed at any step, and outlives a        *)
(* controller that is killed: it runs in a session of its own.  An append   *)
(* to the log is one step, but a killed writer may leave part of a line.    *)
(* "oom" stands for out of memory and for unsupported, where the engine      *)
(* tells them from other errors.                                            *)
(***************************************************************************)
EXTENDS Integers, Sequences, FiniteSets

CONSTANTS
    MaxAttempts,   \* bound: attempts of the job, over all controllers
    MaxBeats,      \* bound: heartbeats, over all workers
    MaxTorn,       \* bound: lines a killed worker leaves unfinished
    MaxStops,      \* bound: Ctrl-C's and kills of a controller
    Measures,      \* bound: the policies for measuring performance
    Raising        \* bound: the stages in which a worker may catch an exception

(* WorkerStage; 0 is a response's "complete".                               *)
Import == 1
Build == 2
Correctness == 3
Warmup == 4
Sampling == 5
Stage == Import..Sampling

ASSUME WorkerRunAssumption ==
    /\ MaxAttempts \in Nat \ {0}
    /\ MaxBeats \in Nat
    /\ MaxTorn \in Nat
    /\ MaxStops \in Nat
    /\ Measures \subseteq {"never", "passed", "always"}
    /\ Raising \subseteq Stage

VARIABLES
    (* durable *)
    log,        \* logs/worker.jsonl, one entry per line
    responses,  \* the response file of each attempt token
    (* the worker of each attempt *)
    w,
    (* the controller *)
    pc,         \* where run is; "idle" outside it
    attempt,    \* attempts begun
    stage,      \* the stage it holds the worker to be in
    seen,       \* the last stage it saw active, 0 before any
    ended,      \* why it left the poll loop
    reply,      \* the response it is about to return
    result,     \* how run ended: "returned", an exception, or not at all
    (* the job and the bounds *)
    measure,    \* performance is measured of candidates that "passed",
                \* "always" (perf_on_correctness_fail) or "never" (the mode)
    beats, stops

watch  == <<attempt, stage, seen, ended>>
vars   == <<log, responses, w, pc, watch, reply, result, measure, beats, stops>>

-----------------------------------------------------------------------------
Attempt == 1..MaxAttempts

(* EventName: the lifecycle in its order, and the lines outside of it.      *)
Discovered == 1
WorkerStarted == 2
StartOf(s) == 2 * s + 1
FinishOf(s) == 2 * s + 2
ReportWritten == 13
WorkerExited == 14
Lifecycle == Discovered..WorkerExited
Heartbeat == 0
Torn == -1       \* an unfinished last line
Garbled == -2    \* a line that begins with a torn one

Line(e, s, q) == [event |-> e, stage |-> s, seq |-> q]
LastSeq == IF log = <<>> THEN 0 ELSE log[Len(log)].seq

(* An append after a torn line completes that line.                         *)
Appended(lines, line) ==
    IF lines # <<>> /\ lines[Len(lines)].event = Torn
      THEN [lines EXCEPT ![Len(lines)].event = Garbled]
      ELSE Append(lines, line)

IsBroken(line) == line.event \in {Torn, Garbled}
CanTear == Cardinality({i \in DOMAIN log : IsBroken(log[i])}) < MaxTorn

(* The stage whose STARTED is the last significant event.                   *)
StageAt(e) == IF \E s \in Stage : e = StartOf(s)
                THEN CHOOSE s \in Stage : e = StartOf(s) ELSE 0

Latest(positions) == CHOOSE i \in positions : \A j \in positions : j <= i

(* Of the lines at some positions, the last event that is no heartbeat.      *)
LastEvent(lines, positions) ==
    LET significant == {i \in positions : lines[i].event \in Lifecycle}
    IN IF significant = {} THEN 0 ELSE lines[Latest(significant)].event

(* The lifecycle goes on with line i, from the start again after its end, or  *)
(* line i is a heartbeat within the stage it names.                          *)
Follows(lines, i) ==
    LET prior == LastEvent(lines, 1..(i - 1)) IN
    \/ lines[i].event = (prior % WorkerExited) + 1
    \/ /\ lines[i].event = Heartbeat
       /\ StageAt(prior) # 0 /\ lines[i].stage = StageAt(prior)

(* validate_event_sequence: sequence numbers without a gap, and whole        *)
(* attempts one after the other.                                            *)
Valid(lines) ==
    /\ lines # <<>>
    /\ \A i \in DOMAIN lines : lines[i].seq = lines[1].seq + i - 1 /\ Follows(lines, i)
    /\ LastEvent(lines, DOMAIN lines) = WorkerExited

(* for_result: where the lines of the last attempt are, without a torn one.   *)
LastAttempt ==
    {i \in DOMAIN log : /\ ~IsBroken(log[i])
                       /\ \A j \in DOMAIN log : log[j].event = Discovered => j <= i}

(* _active_stage of those lines.                                            *)
ActiveStage == StageAt(LastEvent(log, LastAttempt))

-----------------------------------------------------------------------------
(* A response: "measured" performance passed its gate or not, which is no    *)
(* matter here; verdict and perf are "none" when there is no payload.        *)
Response(k, by, o, s, v, p) ==
    [of |-> k, by |-> by, outcome |-> o, stage |-> s, verdict |-> v, perf |-> p]
NoResponse == Response(0, "none", "none", 0, "none", "none")

Outcome == {"success", "error", "oom", "crashed", "timeout", "interrupted"}

NewWorker ==
    [life |-> "none", token |-> 0, at |-> 0, seq |-> 0, wrote |-> FALSE,
     skip |-> FALSE, verdict |-> "none", perf |-> "none",
     outcome |-> "success", failed |-> 0]

Init ==
    /\ log = <<>>
    /\ responses = [t \in Attempt |-> NoResponse]
    /\ w = [k \in Attempt |-> NewWorker]
    /\ pc = "idle"
    /\ attempt = 0 /\ stage = Import /\ seen = 0 /\ ended = "none"
    /\ reply = NoResponse
    /\ result = "none"
    /\ measure \in Measures
    /\ beats = 0 /\ stops = 0

-----------------------------------------------------------------------------
(* The worker of attempt k.  Emit: EventEmitter.emit, one append under the   *)
(* emitter's lock, and what the worker has decided by then.                  *)
Alive(k) == w[k].life = "alive"

Emit(k, event, s, decided) ==
    /\ log' = Appended(log, Line(event, s, w[k].seq))
    /\ w' = [w EXCEPT ![k] = [decided EXCEPT !.at = event, !.seq = @ + 1]]
    /\ UNCHANGED <<responses, pc, watch, reply, result, measure, beats, stops>>

WorkerStarts(k) ==
    /\ Alive(k)
    /\ w[k].at = Discovered
    /\ Emit(k, WorkerStarted, 0, w[k])

(* Every stage is started, also those that are skipped (_skip_from).        *)
StageStarts(k, s) ==
    /\ Alive(k)
    /\ w[k].at = StartOf(s) - 1
    /\ Emit(k, StartOf(s), s, w[k])

Finish(k, s, decided) ==
    /\ Alive(k)
    /\ w[k].at = StartOf(s)
    /\ Emit(k, FinishOf(s), s, decided)

StageSkipped(k, s) ==
    /\ w[k].skip
    /\ Finish(k, s, w[k])

Imported(k, s) ==
    /\ s \in {Import, Build}
    /\ ~w[k].skip
    /\ Finish(k, s, w[k])

(* The exception handlers of import and build: every later stage is skipped, *)
(* and the response has no payload.                                         *)
ImportFails(k, s) ==
    /\ s \in {Import, Build} \cap Raising
    /\ ~w[k].skip
    /\ Finish(k, s, [w[k] EXCEPT !.skip = TRUE, !.outcome = "error", !.failed = s])

(* A mutant of Judged: a failed verdict is measured like a passed one.       *)
JudgedAndMeasured(k, v) ==
    /\ ~w[k].skip
    /\ Finish(k, Correctness,
              [w[k] EXCEPT !.verdict = v,
                           !.skip = (measure = "never"),
                           !.perf = IF measure = "never" THEN "skipped" ELSE "none"])

(* The evaluator's verdict, and the correctness gate.                       *)
Judged(k, v) ==
    LET skip == measure = "never" \/ (v = "fail" /\ measure # "always") IN
    /\ ~w[k].skip
    /\ Finish(k, Correctness,
              [w[k] EXCEPT !.verdict = v, !.skip = skip,
                           !.perf = IF skip THEN "skipped" ELSE "none"])

(* Correctness has no verdict.  Before the spec is validated (o may then be  *)
(* "success": an import-only fixture) the rest is skipped; after it, the      *)
(* assertion on the payload ends the process, unless the opt-in passes it by. *)
Unjudged(k, o, validated) ==
    /\ Correctness \in Raising
    /\ ~w[k].skip
    /\ validated => o = "error"
    /\ Finish(k, Correctness,
              [w[k] EXCEPT !.outcome = o,
                           !.failed = IF o = "success" THEN 0 ELSE Correctness,
                           !.skip = ~validated,
                           !.life = IF validated /\ measure # "always"
                                      THEN "dead" ELSE "alive"])

(* The verdict is a failure and its diagnostic cannot be written: the response  *)
(* has the verdict beside an error, and the opt-in measures all the same.      *)
JudgedUnwritten(k, o) ==
    LET skip == measure # "always" IN
    /\ Correctness \in Raising
    /\ ~w[k].skip
    /\ Finish(k, Correctness,
              [w[k] EXCEPT !.verdict = "fail", !.skip = skip,
                           !.perf = IF skip THEN "skipped" ELSE "none",
                           !.outcome = o, !.failed = Correctness])

WarmedUp(k) ==
    /\ ~w[k].skip
    /\ Finish(k, Warmup, w[k])

(* Without a verdict there is no payload to put the failure into: the process *)
(* can only die within the stage.                                           *)
WarmupFails(k) ==
    /\ Warmup \in Raising
    /\ ~w[k].skip /\ w[k].verdict # "none"
    /\ Finish(k, Warmup, [w[k] EXCEPT !.skip = TRUE, !.perf = "failed",
                                      !.outcome = "error", !.failed = Warmup])

Sampled(k) ==
    /\ ~w[k].skip /\ w[k].verdict # "none"
    /\ Finish(k, Sampling, [w[k] EXCEPT !.perf = "measured"])

SamplingFails(k) ==
    /\ Sampling \in Raising
    /\ ~w[k].skip /\ w[k].verdict # "none"
    /\ Finish(k, Sampling, [w[k] EXCEPT !.perf = "failed", !.outcome = "error",
                                        !.failed = Sampling])

WriteResponse(k) ==
    /\ Alive(k)
    /\ w[k].at = FinishOf(Sampling) /\ ~w[k].wrote
    /\ responses' = [responses EXCEPT ![w[k].token] =
                       Response(k, "worker", w[k].outcome, w[k].failed,
                                w[k].verdict, w[k].perf)]
    /\ w' = [w EXCEPT ![k].wrote = TRUE]
    /\ UNCHANGED <<log, pc, watch, reply, result, measure, beats, stops>>

Report(k, event) ==
    /\ Alive(k)
    /\ w[k].wrote
    /\ event \in {ReportWritten, WorkerExited} /\ w[k].at = event - 1
    /\ Emit(k, event, 0, w[k])

(* The heartbeat thread, under the same lock and only within a stage.        *)
Beat(k) ==
    /\ Alive(k)
    /\ beats < MaxBeats
    /\ StageAt(w[k].at) # 0
    /\ log' = Appended(log, Line(Heartbeat, StageAt(w[k].at), w[k].seq))
    /\ w' = [w EXCEPT ![k].seq = @ + 1]
    /\ beats' = beats + 1
    /\ UNCHANGED <<responses, pc, watch, reply, result, measure, stops>>

(* The end of a worker: a return from main, or a kill that may cut the line   *)
(* it is writing.                                                           *)
Ends(k) ==
    /\ w' = [w EXCEPT ![k].life = "dead"]
    /\ \/ log' = log
       \/ CanTear /\ w[k].at < WorkerExited /\ log' = Appended(log, Line(Torn, 0, w[k].seq))

WorkerEnds(k) ==
    /\ Alive(k)
    /\ Ends(k)
    /\ UNCHANGED <<responses, pc, watch, reply, result, measure, beats, stops>>

WorkerStep(k) ==
    \/ WorkerStarts(k) \/ WriteResponse(k) \/ Beat(k) \/ WorkerEnds(k)
    \/ \E s \in Stage :
         \/ StageStarts(k, s) \/ StageSkipped(k, s) \/ Imported(k, s)
         \/ ImportFails(k, s)
    \/ \E v \in {"pass", "fail"} : Judged(k, v)
    \/ \E o \in {"success", "error", "oom"}, validated \in BOOLEAN : Unjudged(k, o, validated)
    \/ \E o \in {"error", "oom"} : JudgedUnwritten(k, o)
    \/ WarmedUp(k) \/ WarmupFails(k) \/ Sampled(k) \/ SamplingFails(k)
    \/ \E event \in {ReportWritten, WorkerExited} : Report(k, event)

-----------------------------------------------------------------------------
(* A mutant of AttemptNumber: every attempt uses the first one's files.      *)
FirstAttempt == 1

(* The token of the next attempt counts the DISCOVERED lines of the result.  *)
AttemptNumber == 1 + Cardinality({i \in DOMAIN log : log[i].event = Discovered})

(* run's local variables end with it.                                       *)
Leave(r) ==
    /\ pc' = "idle"
    /\ result' = r
    /\ stage' = Import /\ seen' = 0 /\ ended' = "none"

(* The engine runs a job that has no row: at first, and again after a kill or *)
(* a Ctrl-C.                                                                *)
MayRun == pc = "idle" /\ attempt < MaxAttempts /\ result \in {"none", "interrupted"}

(* A worker that has ended is forgotten with its attempt.                    *)
Begin ==
    /\ attempt' = attempt + 1
    /\ w' = [k \in Attempt |->
               IF k = attempt + 1 THEN [NewWorker EXCEPT !.token = AttemptNumber]
               ELSE IF Alive(k) THEN w[k] ELSE NewWorker]
    /\ result' = "none"
    /\ pc' = "discover"

(* A mutant of StartRun: an incomplete log is taken as it is.                *)
StartUnchecked ==
    /\ MayRun
    /\ Begin
    /\ UNCHANGED <<log, responses, stage, seen, ended, reply, measure, beats, stops>>

(* run refuses an existing log that is invalid.                             *)
StartRun ==
    /\ MayRun
    /\ IF log = <<>> \/ Valid(log)
         THEN Begin
         ELSE result' = "refused" /\ UNCHANGED <<attempt, w, pc>>
    /\ UNCHANGED <<log, responses, stage, seen, ended, reply, measure, beats, stops>>

Discover ==
    /\ pc = "discover"
    /\ log' = Appended(log, Line(Discovered, 0, LastSeq + 1))
    /\ w' = [w EXCEPT ![attempt].at = Discovered, ![attempt].seq = LastSeq + 2]
    /\ pc' = "spawn"
    /\ UNCHANGED <<responses, watch, reply, result, measure, beats, stops>>

Spawn ==
    /\ pc = "spawn"
    /\ w' = [w EXCEPT ![attempt].life = "alive"]
    /\ stage' = Import /\ seen' = 0 /\ ended' = "none"
    /\ pc' = "poll"
    /\ UNCHANGED <<log, responses, attempt, reply, result, measure, beats, stops>>

(* A mutant of Poll: the clock restarts whenever a stage is active.          *)
PollWithFreshDeadline ==
    /\ pc = "poll"
    /\ Alive(attempt)
    /\ IF ActiveStage # 0
         THEN stage' = ActiveStage /\ seen' = ActiveStage /\ pc' = "poll"
         ELSE pc' = "check" /\ UNCHANGED <<stage, seen>>
    /\ UNCHANGED <<log, responses, w, attempt, ended, reply, result, measure, beats, stops>>

(* A mutant of Poll: the end of a stage is taken for a stage.                *)
PollAnyChange ==
    /\ pc = "poll"
    /\ Alive(attempt)
    /\ IF ActiveStage # seen
         THEN stage' = ActiveStage /\ seen' = ActiveStage /\ pc' = "poll"
         ELSE pc' = "check" /\ UNCHANGED <<stage, seen>>
    /\ UNCHANGED <<log, responses, w, attempt, ended, reply, result, measure, beats, stops>>

(* One turn of the loop: a new active stage restarts the clock, else the     *)
(* deadline of the last stage is checked.                                   *)
Poll ==
    /\ pc = "poll"
    /\ Alive(attempt)
    /\ IF ActiveStage \notin {0, seen}
         THEN stage' = ActiveStage /\ seen' = ActiveStage /\ pc' = "poll"
         ELSE pc' = "check" /\ UNCHANGED <<stage, seen>>
    /\ UNCHANGED <<log, responses, w, attempt, ended, reply, result, measure, beats, stops>>

Sleep ==
    /\ pc = "check"
    /\ pc' = "poll"
    /\ UNCHANGED <<log, responses, w, watch, reply, result, measure, beats, stops>>

(* terminate_process_group, also of a worker that has just ended.            *)
Terminate ==
    IF Alive(attempt) THEN Ends(attempt) ELSE UNCHANGED <<log, w>>

TimeOut ==
    /\ pc = "check"
    /\ Terminate
    /\ ended' = "timeout"
    /\ pc' = "collect"
    /\ UNCHANGED <<responses, attempt, stage, seen, reply, result, measure, beats, stops>>

(* Ctrl-C in the loop.                                                      *)
Interrupt ==
    /\ pc \in {"poll", "check"}
    /\ stops < MaxStops
    /\ stops' = stops + 1
    /\ Terminate
    /\ ended' = "interrupted"
    /\ pc' = "collect"
    /\ UNCHANGED <<responses, attempt, stage, seen, reply, result, measure, beats>>

SeeExit ==
    /\ pc = "poll"
    /\ ~Alive(attempt)
    /\ ended' = "exited"
    /\ pc' = "collect"
    /\ UNCHANGED <<log, responses, w, attempt, stage, seen, reply, result, measure, beats, stops>>

(* A log drain that does not finish or had an error raises ControllerError.  *)
DrainFails ==
    /\ pc = "collect"
    /\ Leave("failed")
    /\ UNCHANGED <<log, responses, w, attempt, reply, measure, beats, stops>>

(* The worker's response counts when the worker ended by itself.            *)
AcceptResponse ==
    LET found == responses[w[attempt].token] IN
    /\ pc = "collect"
    /\ ended = "exited" /\ found # NoResponse
    /\ reply' = found
    /\ pc' = "return"
    /\ UNCHANGED <<log, responses, w, watch, result, measure, beats, stops>>

(* Otherwise the controller writes one, over a late one of the worker.       *)
Synthesize(o) ==
    /\ pc = "collect"
    /\ \/ ended = "exited" /\ responses[w[attempt].token] = NoResponse
          /\ o \in {"crashed", "oom"}
       \/ ended \in {"timeout", "interrupted"} /\ o = ended
    /\ reply' = Response(attempt, "controller", o, stage, "none", "none")
    /\ responses' = [responses EXCEPT ![w[attempt].token] = reply']
    /\ pc' = "close"
    /\ UNCHANGED <<log, w, watch, result, measure, beats, stops>>

(* The lines from event e on, numbered from q.                              *)
LinesFrom(e, q) ==
    [i \in 1..(WorkerExited - e + 1) |->
        Line(e + i - 1,
             IF \E s \in Stage : e + i - 1 \in {StartOf(s), FinishOf(s)}
               THEN (e + i - 2) \div 2 ELSE 0,
             q + i - 1)]

(* A mutant of MissingLines: the stages never started are left out.          *)
LinesOfStartedStages ==
    LET reached == LastEvent(log, LastAttempt)
        next == IF StageAt(reached) # 0 THEN reached + 1 ELSE ReportWritten
    IN IF next <= reached THEN <<>>
       ELSE LinesFrom(next, log[Latest(LastAttempt)].seq + 1)

(* What the lifecycle of the last attempt still lacks.                      *)
MissingLines ==
    LET reached == LastEvent(log, LastAttempt)
    IN LinesFrom(reached + 1, log[Latest(LastAttempt)].seq + 1)

(* _append_synthetic_lifecycle, after the last line that can be read.  The   *)
(* first of the lines completes a torn one.                                 *)
CloseTranscript ==
    /\ pc = "close"
    /\ \E missing \in {MissingLines} :
          log' = IF missing = <<>> THEN log
                 ELSE Appended(log, missing[1]) \o Tail(missing)
    /\ pc' = "return"
    /\ UNCHANGED <<responses, w, watch, reply, result, measure, beats, stops>>

(* The log is validated again; only a success is refused for it.             *)
Return ==
    /\ pc = "return"
    /\ Leave(IF reply.outcome = "success" /\ ~Valid(log) THEN "failed"
             ELSE IF reply.outcome = "interrupted" THEN "interrupted"
             ELSE "returned")
    /\ UNCHANGED <<log, responses, w, attempt, reply, measure, beats, stops>>

(* controller.jsonl has reached its limit.                                   *)
ReturnFails ==
    /\ pc = "return"
    /\ Leave("failed")
    /\ UNCHANGED <<log, responses, w, attempt, reply, measure, beats, stops>>

(* The controller is killed, alone or with its worker (a power failure).     *)
KillController ==
    /\ pc # "idle"
    /\ stops < MaxStops
    /\ stops' = stops + 1
    /\ Leave("none")
    /\ reply' = NoResponse
    /\ Terminate \/ UNCHANGED <<log, w>>
    /\ UNCHANGED <<responses, attempt, measure, beats>>

Controller ==
    \/ Discover \/ Spawn \/ Poll \/ Sleep \/ SeeExit \/ AcceptResponse
    \/ \E o \in Outcome : Synthesize(o)
    \/ CloseTranscript \/ Return

Next ==
    \/ Controller
    \/ StartRun \/ TimeOut \/ Interrupt \/ DrainFails \/ ReturnFails \/ KillController
    \/ \E k \in Attempt : WorkerStep(k)

Spec == Init /\ [][Next]_vars

(* The controller goes on and its clock passes every deadline; nothing is     *)
(* assumed of a worker.                                                      *)
FairSpec == Spec /\ WF_vars(Controller) /\ SF_vars(TimeOut)

-----------------------------------------------------------------------------
(* What the engine records of a response (_payload_for_worker_response):     *)
(* the correctness of the row, or "none" for an infrastructure failure.      *)
PerformanceFailures == {"error", "timeout", "oom", "crashed"}

RecordedCorrectness(r) ==
    IF r.verdict # "none" THEN r.verdict
    ELSE IF r.stage = Correctness /\ r.outcome \in {"timeout", "oom"} THEN "fail"
    ELSE IF r.stage \in {Warmup, Sampling} /\ r.outcome \in PerformanceFailures THEN "pass"
    ELSE "none"

(* Every variable has its type.                                             *)
Responses == [of : 0..MaxAttempts, by : {"none", "worker", "controller"},
              outcome : Outcome \cup {"none"}, stage : 0..Sampling,
              verdict : {"none", "pass", "fail"},
              perf : {"none", "skipped", "failed", "measured"}]
Worker == [life : {"none", "alive", "dead"}, token : 0..MaxAttempts,
           at : 0..WorkerExited, seq : Nat, wrote : BOOLEAN, skip : BOOLEAN,
           verdict : {"none", "pass", "fail"},
           perf : {"none", "skipped", "failed", "measured"},
           outcome : {"success", "error", "oom"}, failed : 0..Sampling]
TypeOK ==
    /\ log \in Seq([event : Garbled..WorkerExited, stage : 0..Sampling, seq : Nat])
    /\ responses \in [Attempt -> Responses]
    /\ w \in [Attempt -> Worker]
    /\ pc \in {"idle", "discover", "spawn", "poll", "check", "collect", "close", "return"}
    /\ attempt \in 0..MaxAttempts
    /\ stage \in Stage /\ seen \in 0..Sampling
    /\ ended \in {"none", "exited", "timeout", "interrupted"}
    /\ reply \in Responses
    /\ result \in {"none", "refused", "failed", "interrupted", "returned"}
    /\ measure \in {"never", "passed", "always"}
    /\ beats \in 0..MaxBeats /\ stops \in 0..MaxStops

(* A response comes from the attempt that returns it, whatever files earlier  *)
(* attempts and their workers left or still write (the attempt tokens of      *)
(* run), and a worker's verdict is the one its evaluator gave.                *)
NoStaleResponse ==
    pc = "return" \/ result = "returned" =>
        /\ reply.of = attempt
        /\ reply.by = "worker" =>
             reply.verdict = w[attempt].verdict /\ reply.perf = w[attempt].perf

(* Whatever two controllers, an orphaned worker and heartbeats append, the    *)
(* lines that can be read are numbered without a gap: no two attempts write   *)
(* at the same time (the validation run starts with; EventEmitter's lock).    *)
NumberedWithoutGap ==
    \A i \in 2..Len(log) :
        ~IsBroken(log[i - 1]) /\ ~IsBroken(log[i]) =>
            log[i].seq = log[i - 1].seq + 1

(* When run returns a response of its own, or a success, the next attempt of  *)
(* the evaluation finds a log it accepts; a torn line is the exception        *)
(* (_append_synthetic_lifecycle).                                            *)
TranscriptIsClosed ==
    /\ result \in {"returned", "interrupted"}
    /\ reply.by = "controller" \/ reply.outcome = "success"
    /\ \A i \in DOMAIN log : ~IsBroken(log[i])
    => Valid(log)

(* A measured performance is recorded only of a candidate that passed, or by  *)
(* opt-in, in a mode that measures, and by a worker that went through every   *)
(* stage (the correctness gate of execute).                                  *)
MeasuredOnlyIfCorrect ==
    result = "returned" /\ reply.perf = "measured" =>
        /\ measure # "never"
        /\ RecordedCorrectness(reply) = "pass" \/ measure = "always"
        /\ w[attempt].at >= FinishOf(Sampling)

(* run ends, even if its worker hangs in a stage for ever.                   *)
RunEnds == pc # "idle" ~> pc = "idle"

(* What the code and the documents also say, and the code does not do.       *)

(* A row with a passed correctness is of a candidate whose evaluator passed   *)
(* it ("Reaching either performance stage proves that the trusted worker      *)
(* completed the correctness gate", engine.py:475-476).                      *)
PassIsProven ==
    result = "returned" /\ RecordedCorrectness(reply) = "pass" =>
        w[attempt].verdict = "pass"

(* A resume executes the result IDs that are missing (docs/cli.md:48): run is *)
(* not refused after a kill or a Ctrl-C.                                     *)
MissingIsExecuted == result # "refused"
=============================================================================
