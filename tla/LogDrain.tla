------------------------------ MODULE LogDrain ------------------------------
(***************************************************************************)
(* The output of a worker and the end of WorkerController.run that waits    *)
(* for it (BoundedLogDrain of execution/isolation.py, controller.py).       *)
(*                                                                         *)
(* A pipe leads from the worker and its descendants to a thread of the      *)
(* controller, which keeps a capped file and a capped tail of it.  The file *)
(* is one per evaluation: every attempt of every job appends to it.  Only   *)
(* the process group of the worker is killed; a process that has left it    *)
(* keeps the pipe open.  One of the two drains is modelled: they share      *)
(* nothing, and are joined one after the other.                             *)
(***************************************************************************)
EXTENDS Integers, Sequences, SequencesExt

CONSTANTS
    FileLimit,    \* file_limit_bytes, in units of output
    MarkerSize,   \* len(TRUNCATED_MARKER)
    SummaryLimit, \* summary_limit_bytes
    ChunkSize,    \* what the drain asks of the pipe in one read
    PipeSize,     \* what the pipe holds before a writer blocks
    MaxOutput,    \* bound: units of output in all attempts
    MaxRuns,      \* bound: attempts that append to the file
    MaxDrainFaults \* bound: kills of the controller and full disks

ASSUME LogDrainAssumption ==
    /\ MarkerSize \in Nat \ {0}
    /\ FileLimit \in Nat /\ FileLimit > MarkerSize
    /\ SummaryLimit \in Nat \ {0}
    /\ ChunkSize \in Nat \ {0}
    /\ PipeSize \in Nat \ {0}
    /\ {MaxOutput, MaxRuns, MaxDrainFaults} \subseteq Nat

VARIABLES
    runs,        \* attempts so far
    holders,     \* processes that hold the write end of the pipe
    output,      \* units written so far: a unit is the number it has
    first,       \* output when this attempt began
    pipe,        \* units in the pipe
    chunk,       \* what source.read has gathered and not returned
    file,        \* the log: units, and Marker units
    tail,        \* _tail
    truncated,
    markerWritten,
    written,
    drain,       \* where the thread is
    waiter,      \* where run is
    drainFaults

drainVars == <<runs, holders, output, first, pipe, chunk, file, tail, truncated,
               markerWritten, written, drain, waiter, drainFaults>>

pipeVars == <<holders, output, pipe>>
threadVars == <<chunk, file, tail, truncated, markerWritten, written, drain>>
attemptVars == <<runs, first, drainFaults>>

-----------------------------------------------------------------------------
Marker == 0
MarkerText == [i \in 1..MarkerSize |-> Marker]

ContentLimit == FileLimit - MarkerSize
Least(a, b) == IF a <= b THEN a ELSE b
HasMarker(log) ==
    \E i \in 1..Len(log) :
        i + MarkerSize - 1 <= Len(log) /\ SubSeq(log, i, i + MarkerSize - 1) = MarkerText

LogInit ==
    /\ runs = 0
    /\ holders = {}
    /\ output = 0
    /\ first = 0
    /\ pipe = <<>>
    /\ chunk = <<>>
    /\ file = <<>>
    /\ tail = <<>>
    /\ truncated = FALSE
    /\ markerWritten = FALSE
    /\ written = 0
    /\ drain = "ended"
    /\ waiter = "returned"
    /\ drainFaults = 0

(* run starts a worker and a drain; the drain looks at the file of the       *)
(* attempts before it.                                                      *)
StartDrain ==
    /\ waiter \in {"returned", "dead"}
    /\ runs < MaxRuns
    /\ runs' = runs + 1
    /\ holders' = {"leader"}
    /\ first' = output
    /\ pipe' = <<>>
    /\ chunk' = <<>>
    /\ tail' = <<>>
    /\ markerWritten' = HasMarker(file)
    /\ truncated' = HasMarker(file)
    /\ written' = Least(Len(file), ContentLimit)
    /\ drain' = "reading"
    /\ waiter' = "running"
    /\ UNCHANGED <<output, file, drainFaults>>

-----------------------------------------------------------------------------
(* The worker and its descendants.                                          *)
PipeIsRead == drain \in {"reading", "writing"}

Produce ==
    /\ holders # {}
    /\ PipeIsRead
    /\ output < MaxOutput
    /\ Len(pipe) < PipeSize
    /\ output' = output + 1
    /\ pipe' = Append(pipe, output + 1)
    /\ UNCHANGED <<holders, threadVars, attemptVars, waiter>>

(* A descendant in the worker's process group, or in a session of its own.   *)
Fork(p) ==
    /\ "leader" \in holders
    /\ p \in {"child", "escaped"} \ holders
    /\ holders' = holders \cup {p}
    /\ UNCHANGED <<output, pipe, threadVars, attemptVars, waiter>>

ProcessEnds(p) ==
    /\ p \in holders
    /\ holders' = holders \ {p}
    /\ UNCHANGED <<output, pipe, threadVars, attemptVars, waiter>>

-----------------------------------------------------------------------------
(* A mutant of Fetch: a full log is no longer read.                          *)
FetchUntilFull ==
    /\ drain = "reading"
    /\ ~truncated
    /\ pipe # <<>>
    /\ Len(chunk) < ChunkSize
    /\ chunk' = Append(chunk, Head(pipe))
    /\ pipe' = Tail(pipe)
    /\ UNCHANGED <<holders, output, file, tail, truncated, markerWritten, written, drain,
                   attemptVars, waiter>>

(* The thread.  source.read(64K) of a buffered reader returns when it has    *)
(* them all, or at the end of the pipe, and holds the reader's lock.         *)
Fetch ==
    /\ drain = "reading"
    /\ pipe # <<>>
    /\ Len(chunk) < ChunkSize
    /\ chunk' = Append(chunk, Head(pipe))
    /\ pipe' = Tail(pipe)
    /\ UNCHANGED <<holders, output, file, tail, truncated, markerWritten, written, drain,
                   attemptVars, waiter>>

EndOfPipe == pipe = <<>> /\ holders = {}

ReadReturns ==
    /\ drain = "reading"
    /\ chunk # <<>>
    /\ Len(chunk) = ChunkSize \/ EndOfPipe
    /\ drain' = "writing"
    /\ UNCHANGED <<pipeVars, chunk, file, tail, truncated, markerWritten, written,
                   attemptVars, waiter>>

LastUnits(units, n) == SubSeq(units, Len(units) - Least(n, Len(units)) + 1, Len(units))
FirstUnits(units, n) == SubSeq(units, 1, Least(n, Len(units)))

Remembers(units) == LastUnits(tail \o units, SummaryLimit)

(* A mutant of Remaining: the limit is the limit of the whole file.          *)
RemainingOfFile == FileLimit - written

Remaining == ContentLimit - written

(* A mutant of Overflows: a chunk that just fits is taken for one too long.   *)
OverflowsWhenFull(units) == Len(units) >= Remaining

Overflows(units) == Len(units) > Remaining

(* What an iteration of the loop appends to the file.                        *)
Part == IF markerWritten THEN <<>> ELSE FirstUnits(chunk, Remaining)
Addition ==
    Part \o (IF Overflows(chunk) /\ ~markerWritten THEN MarkerText ELSE <<>>)

WriteChunk ==
    /\ drain = "writing"
    /\ tail' = Remembers(chunk)
    /\ file' = file \o Addition
    /\ written' = written + Len(Part)
    /\ truncated' = (truncated \/ Overflows(chunk))
    /\ markerWritten' = (markerWritten \/ truncated')
    /\ chunk' = <<>>
    /\ drain' = "reading"
    /\ UNCHANGED <<pipeVars, attemptVars, waiter>>

(* The disk is full: a part of it is written, the thread keeps the error and  *)
(* closes the pipe.                                                         *)
WriteChunkFails ==
    /\ drain = "writing"
    /\ drainFaults < MaxDrainFaults
    /\ drainFaults' = drainFaults + 1
    /\ \E n \in 0..(Len(Addition) - 1) : file' = file \o SubSeq(Addition, 1, n)
    /\ tail' = Remembers(chunk)
    /\ chunk' = <<>>
    /\ pipe' = <<>>
    /\ drain' = "failed"
    /\ UNCHANGED <<holders, output, truncated, markerWritten, written, runs, first, waiter>>

EndDrain ==
    /\ drain = "reading"
    /\ chunk = <<>>
    /\ EndOfPipe
    /\ drain' = "ended"
    /\ UNCHANGED <<pipeVars, chunk, file, tail, truncated, markerWritten, written,
                   attemptVars, waiter>>

-----------------------------------------------------------------------------
(* The controller.  A time-out, an interrupt, or the worker's own exit: each *)
(* way ends with the KILL of the worker's process group.                     *)
Terminate ==
    /\ waiter = "running"
    /\ waiter' = "killing"
    /\ UNCHANGED <<pipeVars, threadVars, attemptVars>>

KillGroup ==
    /\ \/ waiter = "killing"
       \/ waiter = "running" /\ "leader" \notin holders
    /\ holders' = holders \cap {"escaped"}
    /\ waiter' = "joining"
    /\ UNCHANGED <<output, pipe, threadVars, attemptVars>>

(* drain.join(2): the thread has ended, with or without an error, ...        *)
Join ==
    /\ waiter = "joining"
    /\ ~PipeIsRead
    /\ waiter' = "returned"
    /\ UNCHANGED <<pipeVars, threadVars, attemptVars>>

(* ... or two seconds have passed.                                          *)
JoinTimesOut ==
    /\ waiter = "joining"
    /\ PipeIsRead
    /\ waiter' = "closing"
    /\ UNCHANGED <<pipeVars, threadVars, attemptVars>>

(* drain.source.close() needs the lock that a blocked read holds.  The next   *)
(* read of a closed pipe is an error, after the chunk at hand.               *)
CloseSource ==
    /\ waiter = "closing"
    /\ drain # "reading"
    /\ waiter' = "returned"
    /\ \/ /\ ~PipeIsRead
          /\ UNCHANGED <<pipeVars, threadVars>>
       \/ /\ PipeIsRead
          /\ tail' = Remembers(chunk)
          /\ file' = file \o Addition
          /\ chunk' = <<>>
          /\ pipe' = <<>>
          /\ drain' = "failed"
          /\ UNCHANGED <<holders, output, truncated, markerWritten, written>>
    /\ UNCHANGED attemptVars

(* The thread dies with the controller.  The worker does not, and writes to    *)
(* a pipe that nobody reads.                                                *)
KillDrain ==
    /\ waiter \notin {"returned", "dead"}
    /\ drainFaults < MaxDrainFaults
    /\ drainFaults' = drainFaults + 1
    /\ waiter' = "dead"
    /\ drain' = IF PipeIsRead THEN "failed" ELSE drain
    /\ \E n \in 0..(IF drain = "writing" THEN Len(Addition) ELSE 0) :
          file' = file \o SubSeq(Addition, 1, n)
    /\ chunk' = <<>>
    /\ pipe' = <<>>
    /\ UNCHANGED <<runs, holders, output, first, tail, truncated, markerWritten, written>>

-----------------------------------------------------------------------------
Thread == Fetch \/ ReadReturns \/ WriteChunk \/ EndDrain
Waiter == KillGroup \/ Join \/ JoinTimesOut \/ CloseSource

LogNext ==
    \/ StartDrain
    \/ Produce
    \/ \E p \in {"child", "escaped"} : Fork(p)
    \/ \E p \in holders : ProcessEnds(p)
    \/ Thread
    \/ WriteChunkFails
    \/ Terminate
    \/ Waiter
    \/ KillDrain

(* The threads of the controller are scheduled.  Nothing is assumed of the     *)
(* processes that hold the pipe.                                            *)
LogFairness == WF_drainVars(Thread) /\ WF_drainVars(Waiter)

LogSpec == LogInit /\ [][LogNext]_drainVars /\ LogFairness

-----------------------------------------------------------------------------
Unit == 1..MaxOutput
InFile == Range(file) \ {Marker}

(* Every variable has its type; a part never ends beyond the content limit.  *)
LogTypeOK ==
    /\ runs \in 0..MaxRuns
    /\ holders \subseteq {"leader", "child", "escaped"}
    /\ output \in 0..MaxOutput
    /\ first \in 0..output
    /\ pipe \in Seq(Unit) /\ Len(pipe) <= PipeSize
    /\ chunk \in Seq(Unit) /\ Len(chunk) <= ChunkSize
    /\ file \in Seq(Unit \cup {Marker})
    /\ tail \in Seq(Unit) /\ Len(tail) <= SummaryLimit
    /\ truncated \in BOOLEAN
    /\ markerWritten \in BOOLEAN
    /\ written \in 0..ContentLimit
    /\ drain \in {"reading", "writing", "ended", "failed"}
    /\ waiter \in {"running", "killing", "joining", "closing", "returned", "dead"}
    /\ drainFaults \in 0..MaxDrainFaults

(* The log keeps its limit over any number of attempts that append to it.     *)
(* Only a marker that a kill or a full disk has cut is written once more.    *)
LogIsBounded == Len(file) <= FileLimit + drainFaults * (MarkerSize - 1)

(* The log says whether it is whole: what a drain that ended has not kept of   *)
(* its attempt is announced by the marker, and a marker is there only         *)
(* because something was left out.  What is kept is in order.                *)
MarkerTellsTruncation ==
    /\ drain = "ended" /\ waiter = "returned" =>
          (first + 1)..output \subseteq InFile \/ HasMarker(file)
    /\ HasMarker(file) => \E n \in 1..output : n \notin InFile
    /\ \A i, j \in 1..Len(file) :
          i < j /\ file[i] # Marker /\ file[j] # Marker => file[i] < file[j]

(* The diagnostic of a failed attempt shows the end of its own output, also    *)
(* when the log has been full for long.                                     *)
TailIsRecent ==
    LET seen == output - Len(pipe) - Len(chunk)
    IN PipeIsRead \/ drain = "ended" =>
          tail = [i \in 1..Least(SummaryLimit, seen - first) |->
                     seen - Least(SummaryLimit, seen - first) + i]

(* The log of an attempt is bounded, says what it left out, and its tail shows *)
(* the end of the attempt.                                                    *)
LogIsHonest == LogIsBounded /\ MarkerTellsTruncation /\ TailIsRecent

(* A full log never blocks the worker: a full pipe is emptied, or closed.     *)
WorkerIsDrained == (Len(pipe) = PipeSize) ~> (Len(pipe) < PipeSize)

(* When the worker has ended, or is killed, run returns, unless a process      *)
(* that left the worker's process group still holds the pipe.                *)
RunReturns ==
    [](waiter \in {"killing", "joining"} \/ (waiter = "running" /\ "leader" \notin holders)
       => <>(waiter \in {"returned", "dead"} \/ "escaped" \in holders))

(* Neither the worker nor its controller waits for the drain for ever.          *)
DrainMakesProgress == WorkerIsDrained /\ RunReturns
=============================================================================
