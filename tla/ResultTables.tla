---------------------------- MODULE ResultTables ----------------------------
(***************************************************************************)
(* The tables several runs share: run_index.csv of the results root, and    *)
(* history.csv and latest.json of every candidate                           *)
(* (reporting/artifact_writer.py, AtomicCsvTable of csv_writer.py).         *)
(*                                                                         *)
(* Nothing locks them.  A process reads a table, adds its row and replaces  *)
(* the file, and any other process may act in between: a replace may        *)
(* overwrite rows it never read.  Each evaluation is written by a process   *)
(* of its own, registered when it is opened and published when complete.    *)
(***************************************************************************)
EXTENDS Integers, FiniteSets

CONSTANTS
    NWriters,     \* evaluations that are run at the same time
    CandidateOf,  \* the candidate of each
    Registered,   \* those that are under way at the start
    MaxClock,     \* bound: instants at which evaluations complete
    InstantsPerSecond \* bound: the first instant of a second has no fraction

Evaluation == 1..NWriters
Candidate == {CandidateOf[e] : e \in Evaluation}

ASSUME ResultTablesAssumption ==
    /\ NWriters \in Nat \ {0}
    /\ DOMAIN CandidateOf = Evaluation
    /\ Registered \subseteq Evaluation
    /\ InstantsPerSecond \in Nat \ {0}
    /\ MaxClock \in Nat /\ MaxClock >= InstantsPerSecond

VARIABLES
    runIndex,    \* the evaluations with a row in run_index.csv
    history,     \* of each candidate: those with a row in its history.csv
    latest,      \* of each candidate: the one latest.json names, 0 without one
    completed,   \* updated_at_utc of each complete manifest, 0 before
    at,          \* where the process of each evaluation is
    rows,        \* the rows it read and has not used yet
    overwritten  \* a file was replaced by a writer that had not read it all

tableVars == <<runIndex, history, latest, completed, at, rows, overwritten>>

-----------------------------------------------------------------------------
Place == {"new", "registering", "running", "complete", "appending",
          "appended", "pointing", "published", "killed"}

TablesInit ==
    /\ runIndex = Registered
    /\ history = [c \in Candidate |-> {}]
    /\ latest = [c \in Candidate |-> 0]
    /\ completed = [e \in Evaluation |-> 0]
    /\ at = [e \in Evaluation |-> IF e \in Registered THEN "running" ELSE "new"]
    /\ rows = [e \in Evaluation |-> {}]
    /\ overwritten = FALSE

HistoryOf(e) == history[CandidateOf[e]]

(* isoformat() leaves out a fraction of zero, and "." sorts before "Z": the   *)
(* text of a whole second sorts after those of every other instant of it.   *)
StampRank(t) ==
    LET second == t \div InstantsPerSecond
        fraction == t % InstantsPerSecond
    IN second * (InstantsPerSecond + 1)
         + (IF fraction = 0 THEN InstantsPerSecond ELSE fraction)

(* A mutant of IsNewer: the evaluation IDs alone.                            *)
HasHigherId(e, f) == e >= f

(* The key latest.json is chosen by: the text of the time stamp, and the     *)
(* evaluation ID, here the number, breaks ties.                             *)
IsNewer(e, f) ==
    \/ StampRank(completed[e]) > StampRank(completed[f])
    \/ completed[e] = completed[f] /\ e >= f

Newest(evaluations) ==
    CHOOSE e \in evaluations : \A f \in evaluations : IsNewer(e, f)

Moves(e, from, to) ==
    /\ at[e] = from
    /\ at' = [at EXCEPT ![e] = to]

(* AtomicCsvTable.append and the second read of _publish_complete: read_rows *)
(* of the table as it is now.                                               *)
Reads(e, table) == rows' = [rows EXCEPT ![e] = table]

(* _write_rows after a read: whoever replaced the table since is overwritten. *)
Replaces(e, table) == overwritten' = (overwritten \/ table # rows[e])

Forgets(e) == rows' = [rows EXCEPT ![e] = {}]

(* _register_run: append to run_index.csv reads the table ...               *)
ReadIndex(e) ==
    /\ Moves(e, "new", "registering")
    /\ Reads(e, runIndex)
    /\ UNCHANGED <<runIndex, history, latest, completed, overwritten>>

(* ... and replaces it.                                                     *)
WriteIndex(e) ==
    /\ Moves(e, "registering", "running")
    /\ runIndex' = rows[e] \cup {e}
    /\ Replaces(e, runIndex)
    /\ Forgets(e)
    /\ UNCHANGED <<history, latest, completed>>

(* update_status(COMPLETE): the manifest with its time stamp.  The clock does *)
(* not run backwards: no earlier than those that have completed.             *)
WriteManifest(e) ==
    /\ Moves(e, "running", "complete")
    /\ \E now \in InstantsPerSecond..MaxClock :
          /\ \A f \in Evaluation : completed[f] <= now
          /\ completed' = [completed EXCEPT ![e] = now]
    /\ UNCHANGED <<runIndex, history, latest, rows, overwritten>>

(* A mutant of ReadHistory: the history is read before the manifest is there. *)
ReadHistoryEarly(e) ==
    /\ at[e] \in {"running", "complete"}
    /\ at' = [at EXCEPT ![e] = "appending"]
    /\ Reads(e, HistoryOf(e))
    /\ UNCHANGED <<runIndex, history, latest, completed, overwritten>>

(* _publish_complete: append to history.csv reads the table ...             *)
ReadHistory(e) ==
    /\ Moves(e, "complete", "appending")
    /\ Reads(e, HistoryOf(e))
    /\ UNCHANGED <<runIndex, history, latest, completed, overwritten>>

(* A mutant of WriteHistory: an overwritten history is taken for a fresh one. *)
WriteOwnRow(e) ==
    /\ Moves(e, "appending", "appended")
    /\ history' = [history EXCEPT ![CandidateOf[e]] = {e}]
    /\ Replaces(e, HistoryOf(e))
    /\ Forgets(e)
    /\ UNCHANGED <<runIndex, latest, completed>>

(* ... and replaces it, unless the row is there already.                    *)
WriteHistory(e) ==
    /\ Moves(e, "appending", "appended")
    /\ IF e \in rows[e]
         THEN UNCHANGED <<history, overwritten>>
         ELSE /\ history' = [history EXCEPT ![CandidateOf[e]] = rows[e] \cup {e}]
              /\ Replaces(e, HistoryOf(e))
    /\ Forgets(e)
    /\ UNCHANGED <<runIndex, latest, completed>>

(* latest.json is rebuilt from the durable history ...                      *)
ReadHistoryAgain(e) ==
    /\ Moves(e, "appended", "pointing")
    /\ Reads(e, HistoryOf(e))
    /\ UNCHANGED <<runIndex, history, latest, completed, overwritten>>

(* ... and replaced.                                                        *)
WriteLatest(e) ==
    /\ Moves(e, "pointing", "published")
    /\ latest' = [latest EXCEPT ![CandidateOf[e]] = Newest(rows[e])]
    /\ Replaces(e, HistoryOf(e))
    /\ Forgets(e)
    /\ UNCHANGED <<runIndex, history, completed>>

(* A resume finds an evaluation by its row of run_index.csv, and runs it on   *)
(* unless it is complete: what a kill left unpublished stays so.             *)
Resume(e) ==
    /\ e \in runIndex
    /\ completed[e] = 0
    /\ Moves(e, "killed", "running")
    /\ UNCHANGED <<runIndex, history, latest, completed, rows, overwritten>>

KillWriter(e) ==
    /\ at[e] \notin {"published", "killed"}
    /\ at' = [at EXCEPT ![e] = "killed"]
    /\ Forgets(e)
    /\ UNCHANGED <<runIndex, history, latest, completed, overwritten>>

TablesNext ==
    \/ \E e \in Evaluation :
          \/ ReadIndex(e) \/ WriteIndex(e) \/ WriteManifest(e)
          \/ ReadHistory(e) \/ WriteHistory(e) \/ ReadHistoryAgain(e) \/ WriteLatest(e)
          \/ Resume(e) \/ KillWriter(e)

TablesSpec == TablesInit /\ [][TablesNext]_tableVars

-----------------------------------------------------------------------------
(* Every variable has its type.                                             *)
TablesTypeOK ==
    /\ runIndex \subseteq Evaluation
    /\ history \in [Candidate -> SUBSET Evaluation]
    /\ latest \in [Candidate -> Evaluation \cup {0}]
    /\ completed \in [Evaluation -> 0..MaxClock]
    /\ at \in [Evaluation -> Place]
    /\ rows \in [Evaluation -> SUBSET Evaluation]
    /\ overwritten \in BOOLEAN

(* Whatever runs overlap and wherever they are killed, history.csv and       *)
(* latest.json name only complete evaluations of their candidate             *)
(* (docs/result-layout.md).                                                  *)
PublishedIsComplete ==
    \A c \in Candidate, e \in Evaluation :
        e \in history[c] \/ latest[c] = e =>
            CandidateOf[e] = c /\ completed[e] # 0

(* As long as no replace overwrote a row it had not read, every evaluation    *)
(* that ran on after registering can be found by a resume, and every one that *)
(* ran on after publishing is in history.csv.                                *)
NothingIsLost ==
    ~overwritten =>
        \A e \in Evaluation :
            /\ at[e] \in Place \ {"new", "registering", "killed"} => e \in runIndex
            /\ at[e] \in {"appended", "pointing", "published"} => e \in HistoryOf(e)

(* As long as no replace overwrote a row it had not read, latest.json never    *)
(* moves to an evaluation that completed earlier, whichever is published last *)
(* ("rather than from the evaluation whose idempotent publication happened    *)
(* to run last", artifact_writer.py:574), but for one that completed at a     *)
(* whole second, whose text does not sort by time.                           *)
LatestMovesForward ==
    [][~overwritten' =>
          \A c \in Candidate :
              LET new == completed[latest'[c]]  old == completed[latest[c]]
              IN latest'[c] # latest[c] /\ latest[c] # 0 =>
                     \/ new >= old
                     \/ /\ new % InstantsPerSecond = 0
                        /\ new \div InstantsPerSecond = old \div InstantsPerSecond]_tableVars
=============================================================================
