---------------------------- MODULE SampleTiming ----------------------------
(***************************************************************************)
(* The timers (performance/timers.py) and the preparation of one           *)
(* implementation (_prepare_implementation of performance/evaluator.py):   *)
(* the host launches calls on a stream the device works off when it likes, *)
(* and a timer must charge a sample with its own calls and nothing else.   *)
(* The turns the two roles take are in CaseEvaluation.                     *)
(*                                                                         *)
(* Time is the work the device has done: a call takes one unit; the first  *)
(* call and the first replay of a graph take SetupTime units more.         *)
(***************************************************************************)
EXTENDS Integers, Sequences

CONSTANTS
    Warmups,     \* values of warmup
    Inners,      \* values of inner_iterations
    NSamples,    \* samples of the implementation
    SetupTime    \* what compiling a kernel or instantiating a graph takes

ASSUME SampleTimingAssumption ==
    /\ Warmups \subseteq Nat /\ Inners \subseteq Nat \ {0}
    /\ NSamples \in Nat \ {0} /\ SetupTime \in Nat \ {0}

VARIABLES
    timing,     \* the settings, and what the device can do
    phase,      \* what the host is doing
    stream,     \* the work and the events the device has not come to
    now,        \* the work the device has done
    began,      \* the clock when the host began what it is doing
    launches,   \* calls the host has yet to launch for it
    warm,       \* the callable has been called
    graph,      \* the captured graph: its calls, and whether it was replayed
    marks,      \* when the device came to the two events
    selection,  \* the TimerSelection the timer reports
    durations,  \* first_call_ms and warmup_ms
    samples     \* the raw samples, each with the timer that took it

timingVars == <<timing, phase, stream, now, began, launches, warm, graph, marks,
                selection, durations, samples>>

-----------------------------------------------------------------------------
TimerName == {"auto", "cuda_event", "cuda_graph", "wall_clock"}
Device == {"cpu", "stream", "graphs"}   \* no CUDA; captures fail; captures work

Work(units) == [is |-> "work", units |-> units]
Event(mark) == [is |-> "event", mark |-> mark]
NoGraph == [calls |-> 0, replayed |-> FALSE]

TimingInit ==
    /\ timing = [timer |-> "none"]
    /\ phase = "new"
    /\ stream = <<>>
    /\ now = 0
    /\ began = 0
    /\ launches = 0
    /\ warm = FALSE
    /\ graph = NoGraph
    /\ marks = [start |-> 0, end |-> 0]
    /\ selection = [effective |-> "none", reason |-> FALSE]
    /\ durations = [first |-> 0, warmup |-> 0]
    /\ samples = <<>>

\* a synchronize returns
Synchronized == stream = <<>>

(* The device, at its own pace.                                                *)
DeviceWorks ==
    /\ stream # <<>>
    /\ LET item == Head(stream)
       IN IF item.is = "work"
          THEN now' = now + item.units /\ UNCHANGED marks
          ELSE marks' = [marks EXCEPT ![item.mark] = now] /\ UNCHANGED now
    /\ stream' = Tail(stream)
    /\ UNCHANGED <<timing, phase, began, launches, warm, graph, selection, durations,
                   samples>>

\* the host begins a section it times: at once, or when the device is idle
Section(name, calls) == phase' = name /\ began' = now /\ launches' = calls

(* Without a device a call is done when it returns.                            *)
LaunchCall ==
    /\ launches > 0
    /\ LET units == IF warm THEN 1 ELSE 1 + SetupTime
       IN IF timing.device = "cpu"
          THEN now' = now + units /\ UNCHANGED stream
          ELSE stream' = Append(stream, Work(units)) /\ UNCHANGED now
    /\ warm' = TRUE
    /\ launches' = launches - 1
    /\ UNCHANGED <<timing, phase, began, graph, marks, selection, durations, samples>>

-----------------------------------------------------------------------------
(* _prepare_implementation: the first call, the warm-up, the timer.             *)
CallFirst ==
    /\ phase = "new" /\ Synchronized
    /\ timing' \in [timer : TimerName, device : Device, warmup : Warmups, inner : Inners]
    /\ Section("first", 1)
    /\ UNCHANGED <<stream, now, warm, graph, marks, selection, durations, samples>>

WarmUp ==
    /\ phase = "first" /\ launches = 0 /\ Synchronized
    /\ durations' = [durations EXCEPT !.first = now - began]
    /\ Section("warmup", timing.warmup)
    /\ UNCHANGED <<timing, stream, now, warm, graph, marks, selection, samples>>

EndWarmUp ==
    /\ phase = "warmup" /\ launches = 0 /\ Synchronized
    /\ durations' = [durations EXCEPT !.warmup = now - began]
    /\ phase' = "prepare"
    /\ UNCHANGED <<timing, stream, now, began, launches, warm, graph, marks, selection,
                   samples>>

Selects(effective, reason) == selection' = [effective |-> effective, reason |-> reason]

\* wall_clock and cuda_event, for which there is nothing to capture
PrepareSimple ==
    /\ phase = "prepare"
    /\ timing.timer \in {"wall_clock", "cuda_event"}
    /\ Selects(timing.timer, FALSE)
    /\ phase' = IF timing.timer = "cuda_event" /\ timing.device = "cpu" THEN "unsupported"
                ELSE "ready"
    /\ UNCHANGED <<timing, stream, now, began, launches, warm, graph, marks, durations,
                   samples>>

(* A mutant of CaptureGraph leaves the first replay to the first sample.        *)
CaptureOnly ==
    /\ phase = "prepare"
    /\ timing.timer \in {"cuda_graph", "auto"} /\ timing.device = "graphs"
    /\ graph' = [calls |-> timing.inner, replayed |-> FALSE]
    /\ Selects("cuda_graph", FALSE)
    /\ phase' = "capture"
    /\ UNCHANGED <<timing, stream, now, began, launches, warm, marks, durations, samples>>

\* a replay is one piece of work, whatever the graph holds
ReplayWork == Work(IF graph.replayed THEN graph.calls ELSE graph.calls + SetupTime)

(* The graph holds the calls of a whole sample, and is replayed once untimed.   *)
CaptureGraph ==
    /\ phase = "prepare"
    /\ timing.timer \in {"cuda_graph", "auto"} /\ timing.device = "graphs"
    /\ graph' = [calls |-> timing.inner, replayed |-> TRUE]
    /\ stream' = Append(stream, Work(timing.inner + SetupTime))
    /\ Selects("cuda_graph", FALSE)
    /\ phase' = "capture"
    /\ UNCHANGED <<timing, now, began, launches, warm, marks, durations, samples>>

EndCapture ==
    /\ phase = "capture" /\ Synchronized
    /\ phase' = "ready"
    /\ UNCHANGED <<timing, stream, now, began, launches, warm, graph, marks, selection,
                   durations, samples>>

(* auto falls back to events and says why; without CUDA these fail as well.     *)
FailCapture ==
    /\ phase = "prepare"
    /\ timing.timer \in {"cuda_graph", "auto"} /\ timing.device # "graphs"
    /\ IF timing.timer = "auto" /\ timing.device = "stream"
       THEN Selects("cuda_event", TRUE) /\ phase' = "ready"
       ELSE phase' = "unsupported" /\ UNCHANGED selection
    /\ UNCHANGED <<timing, stream, now, began, launches, warm, graph, marks, durations,
                   samples>>

-----------------------------------------------------------------------------
Sampled(timer, elapsed) ==
    /\ samples' = Append(samples, [timer |-> timer, elapsed |-> elapsed])
    /\ phase' = "ready"

\* one sample of each timer; the evaluator asks for one at a time
BeginWallSample ==
    /\ phase = "ready" /\ Len(samples) < NSamples
    /\ timing.timer = "wall_clock" /\ Synchronized
    /\ Section("wall", timing.inner)
    /\ UNCHANGED <<timing, stream, now, warm, graph, marks, selection, durations, samples>>

EndWallSample ==
    /\ phase = "wall" /\ launches = 0 /\ Synchronized
    /\ Sampled("wall_clock", now - began)
    /\ UNCHANGED <<timing, stream, now, began, launches, warm, graph, marks, selection,
                   durations>>

BeginEventSample ==
    /\ phase = "ready" /\ Len(samples) < NSamples
    /\ timing.timer # "wall_clock" /\ graph = NoGraph
    /\ stream' = Append(stream, Event("start"))
    /\ Section("events", timing.inner)
    /\ UNCHANGED <<timing, now, warm, graph, marks, selection, durations, samples>>

RecordEnd ==
    /\ phase = "events" /\ launches = 0
    /\ stream' = Append(stream, Event("end"))
    /\ phase' = "cuda_event"
    /\ UNCHANGED <<timing, now, began, launches, warm, graph, marks, selection,
                   durations, samples>>

ReplaySample ==
    /\ phase = "ready" /\ Len(samples) < NSamples
    /\ graph # NoGraph
    /\ stream' = stream \o <<Event("start"), ReplayWork, Event("end")>>
    /\ graph' = [graph EXCEPT !.replayed = TRUE]
    /\ phase' = "cuda_graph"
    /\ UNCHANGED <<timing, now, began, launches, warm, marks, selection, durations,
                   samples>>

EndEventSample ==
    /\ phase \in {"cuda_event", "cuda_graph"} /\ Synchronized
    /\ Sampled(phase, marks.end - marks.start)
    /\ UNCHANGED <<timing, stream, now, began, launches, warm, graph, marks, selection,
                   durations>>

TimingNext ==
    \/ DeviceWorks \/ LaunchCall
    \/ CallFirst \/ WarmUp \/ EndWarmUp
    \/ PrepareSimple \/ CaptureGraph \/ EndCapture \/ FailCapture
    \/ BeginWallSample \/ EndWallSample
    \/ BeginEventSample \/ RecordEnd \/ ReplaySample \/ EndEventSample

TimingSpec == TimingInit /\ [][TimingNext]_timingVars

-----------------------------------------------------------------------------
TimingTypeOK ==
    LET Marked == [is : {"event"}, mark : {"start", "end"}]
        Timed == TimerName \ {"auto"}
    IN /\ phase \in {"new", "first", "warmup", "prepare", "capture", "ready", "unsupported", "wall",
                    "events"} \cup Timed
       /\ IF phase = "new" THEN timing = [timer |-> "none"]
          ELSE timing \in [timer : TimerName, device : Device, warmup : Warmups, inner : Inners]
       /\ stream \in Seq([is : {"work"}, units : Nat] \cup Marked)
       /\ now \in Nat /\ began \in 0..now /\ launches \in Nat
       /\ warm \in BOOLEAN
       /\ graph = NoGraph \/ graph \in [calls : Inners, replayed : BOOLEAN]
       /\ marks \in [start : 0..now, end : 0..now]
       /\ selection \in [effective : Timed \cup {"none"}, reason : BOOLEAN]
       /\ durations \in [first : Nat, warmup : Nat]
       /\ samples \in Seq([timer : Timed, elapsed : Nat]) /\ Len(samples) <= NSamples

\* A raw sample is charged with its inner_iterations calls and with no call, no
\* compilation and no graph set-up from before it, however late the device works; and
\* the timer the result names is the one that took the samples, a fallback said.
SamplesAreSteady ==
    /\ \A i \in DOMAIN samples :
          /\ samples[i].elapsed = timing.inner
          /\ samples[i].timer = selection.effective
    /\ phase \notin {"new", "first"} => durations.first = 1 + SetupTime
    /\ samples # <<>> =>
          /\ durations.warmup = timing.warmup
          /\ timing.timer = "auto" => (selection.reason <=> timing.device = "stream")
          /\ timing.timer # "auto" => selection = [effective |-> timing.timer, reason |-> FALSE]
=============================================================================
