------------------------------ MODULE StoredRows ------------------------------
(***************************************************************************)
(* The rows of results.csv: AtomicCsvTable and the contracts and migrations *)
(* of four schema versions (reporting/csv_writer.py), and what compare      *)
(* makes of two such tables (reporting/compare.py).                        *)
(*                                                                         *)
(* A step is one operation of one process on a table that may have any      *)
(* content, also one an earlier release or a text editor left.  The kills   *)
(* and the races of a replaced file are in ResultTables.                   *)
(***************************************************************************)
EXTENDS TableRows, Integers, Sequences, SequencesExt

CONSTANTS
    ResultId,     \* values of result_id; a case and a seed give one each
    MaxEdits      \* bound: operations on it

ASSUME StoredRowsAssumption ==
    /\ IsFiniteSet(ResultId)
    /\ MaxEdits \in Nat

VARIABLES
    table,        \* results.csv: the version of its header, its rows
    edits,
    answer        \* what the last operation answered

rowVars == <<table, edits, answer>>

-----------------------------------------------------------------------------
(* A row is the columns that decide something, as text.  number is that of a   *)
(* number column that was given an integer; conditions stands for the columns *)
(* two rows must share to be compared; foreign for the columns an import      *)
(* cannot fill, or fills with what the contract says.                        *)
Empty == ""

Measured(id) ==
    [id |-> id, imported |-> FALSE, provenance |-> "known", graphMs |-> Empty,
     eligible |-> "true", gate |-> "passed", median |-> "positive",
     conditions |-> "these", number |-> "1"]

Imported(id) ==
    [id |-> id, imported |-> TRUE, graphMs |-> "finite", errorType |-> Empty,
     errorMessage |-> Empty, foreign |-> Empty]

Unavailable(id) ==
    [Imported(id) EXCEPT !.graphMs = Empty, !.errorType = "legacy_unavailable",
                         !.errorMessage = "text"]

(* Rows that have at most one other value than such a row.                    *)
LikeMeasured(m) ==
    {m, [m EXCEPT !.provenance = Empty], [m EXCEPT !.graphMs = "finite"],
     [m EXCEPT !.eligible = "false"], [m EXCEPT !.gate = "failed"],
     [m EXCEPT !.median = Empty], [m EXCEPT !.median = "zero"],
     [m EXCEPT !.conditions = "others"], [m EXCEPT !.number = "1.0"]}

LikeImported(r) ==
    {r, [r EXCEPT !.graphMs = Empty], [r EXCEPT !.graphMs = "finite"],
     [r EXCEPT !.graphMs = "infinite"], [r EXCEPT !.errorType = "other"],
     [r EXCEPT !.errorMessage = "text"], [r EXCEPT !.foreign = "filled"]}

RowsOf(id) ==
    LikeMeasured(Measured(id)) \cup LikeImported(Imported(id)) \cup LikeImported(Unavailable(id))

Rows4 == UNION {RowsOf(id) : id \in ResultId}

(* _validate_results_v4_row.                                                *)
MeasuredIsValid(row) == row.provenance # Empty /\ row.graphMs = Empty

ImportIsValid(row) ==
    /\ row.foreign = Empty
    /\ \/ row.errorType = "legacy_unavailable" /\ row.graphMs = Empty
       \/ row.errorType = Empty /\ row.errorMessage = Empty /\ row.graphMs = "finite"

IsValid4(row) == IF row.imported THEN ImportIsValid(row) ELSE MeasuredIsValid(row)

-----------------------------------------------------------------------------
(* A header the schema does not know has version 0.                           *)
Schema == 1..4

(* Versions 1 and 2 have no columns for the gate and the ranking, and those     *)
(* before 4 none for imports.                                               *)
RowsOfVersion(v) ==
    CASE v = 4 -> Rows4
      [] v = 3 -> {row \in Rows4 : ~row.imported /\ row.graphMs = Empty}
      [] OTHER -> {[row EXCEPT !.eligible = Empty, !.gate = Empty] :
                      row \in {r \in Rows4 : ~r.imported /\ r.graphMs = Empty}}

(* A mutant of Migrate: a row with a median is taken for one that ranked.      *)
MigrateRanked(row, v) ==
    CASE v = 4 -> row
      [] v = 3 -> [row EXCEPT !.number = "1.0"]
      [] OTHER -> [row EXCEPT !.number = "1.0", !.gate = "passed",
                              !.eligible = IF row.median = Empty THEN "false" ELSE "true"]

(* _migrate_results_v1 and _migrate_results_to_v4, through _parse_stored_row    *)
(* and normalise, where an integer of a number column becomes a float.       *)
Migrate(row, v) ==
    CASE v = 4 -> row
      [] v = 3 -> [row EXCEPT !.number = "1.0"]
      [] OTHER -> [row EXCEPT !.number = "1.0", !.eligible = "false", !.gate = "skipped"]

Ids(rows) == {rows[i].id : i \in DOMAIN rows}

(* read_rows, which refuses the table or migrates all of its rows.             *)
Readable(t) ==
    /\ t.version \in Schema
    /\ \A i, j \in DOMAIN t.rows : i # j => t.rows[i].id # t.rows[j].id
    /\ \A i \in DOMAIN t.rows : IsValid4(Migrate(t.rows[i], t.version))

ReadRows(t) == [i \in DOMAIN t.rows |-> Migrate(t.rows[i], t.version)]

(* _write_rows: the current header.                                         *)
WriteRows(rows) == table' = [version |-> 4, rows |-> rows]

Answers(result) == edits < MaxEdits /\ edits' = edits + 1 /\ answer' = [is |-> result]

RefusedEdit == Answers("refused") /\ UNCHANGED table

(* A mutant of Normalises: the contract of a row is checked when it is read.   *)
NormalisesColumns(row) == row.id \in ResultId

(* normalise of a row that is given: the columns have their types here, and      *)
(* the contract of the row is checked.                                      *)
Normalises(row) == IsValid4(row)

WithId(rows, id) == {rows[i] : i \in {j \in DOMAIN rows : rows[j].id = id}}

(* append.                                                                  *)
AppendRow(row) ==
    LET rows == ReadRows(table)
        same == WithId(rows, row.id)
    IN IF ~Normalises(row) \/ ~Readable(table) \/ same \notin {{}, {row}}
       THEN RefusedEdit
       ELSE IF same = {row}
       THEN Answers("unchanged") /\ UNCHANGED table
       ELSE Answers("written") /\ WriteRows(Append(rows, row))

(* append_many of two rows: a batch is written whole or not at all, and rows     *)
(* that are stored already are passed over.                                 *)
AppendRows(row, other) ==
    LET rows == ReadRows(table)
        same == WithId(rows, row.id)
        first == IF same = {} THEN Append(rows, row) ELSE rows
        again == WithId(first, other.id)
        second == IF again = {} THEN Append(first, other) ELSE first
    IN IF \/ ~Readable(table)
          \/ ~Normalises(row) \/ ~Normalises(other)
          \/ same \notin {{}, {row}} \/ again \notin {{}, {other}}
       THEN RefusedEdit
       ELSE IF second = rows
       THEN Answers("unchanged") /\ UNCHANGED table
       ELSE Answers("written") /\ WriteRows(second)

(* replace_partitions of one result.                                        *)
ReplaceResult(row) ==
    LET rows == ReadRows(table)
        rest == Keep(rows, {other \in ToSet(rows) : other.id # row.id})
    IN IF ~Normalises(row) \/ ~Readable(table)
       THEN RefusedEdit
       ELSE Answers("replaced") /\ WriteRows(Append(rest, row))

-----------------------------------------------------------------------------
(* A row that a comparison with the baseline may rank.                         *)
Ranks(row) == row.eligible = "true" /\ row.gate = "passed"

(* compare_artifacts with a table of one evaluation as the baseline: either is   *)
(* refused, the cases or the conditions differ, or every case gets its answer. *)
CompareWith(baseline) ==
    LET now == ReadRows(table)
        old == ReadRows(baseline)
        pairs == {pair \in ToSet(now) \X ToSet(old) : pair[1].id = pair[2].id}
        refused == \/ ~Readable(table) \/ ~Readable(baseline)
                   \/ \E row \in ToSet(now) \cup ToSet(old) : row.imported
                   \/ Ids(now) # Ids(old)
                   \/ \E pair \in pairs : pair[1].conditions # pair[2].conditions
        isRanked(pair) == \A row \in {pair[1], pair[2]} : Ranks(row) /\ row.median = "positive"
    IN /\ edits < MaxEdits
       /\ edits' = edits + 1
       /\ UNCHANGED table
       /\ answer' = IF refused THEN [is |-> "refused"]
                    ELSE [is |-> "compared", versions |-> {table.version, baseline.version},
                          pairs |-> pairs, ranked |-> {pair \in pairs : isRanked(pair)}]

-----------------------------------------------------------------------------
RowsInit ==
    /\ table = [version |-> 4, rows |-> <<>>]
    /\ edits = 0
    /\ answer = [is |-> "none"]

(* The table a process finds: any row, a good one before or after it.          *)
GiveTable ==
    /\ answer.is = "none"
    /\ \E v \in Schema, id \in ResultId : \E row \in RowsOfVersion(v), n \in 0..2 :
          LET good == IF v <= 2 THEN [Measured(id) EXCEPT !.eligible = Empty, !.gate = Empty]
                      ELSE Measured(id)
              rows == CASE n = 0 -> <<row>>
                        [] n = 1 -> <<good, row>>
                        [] n = 2 -> <<row, good>>
          IN \E header \in {0, v} : table' = [version |-> header, rows |-> rows]
    /\ answer' = [is |-> "given"]
    /\ UNCHANGED edits

RowsNext ==
    \/ GiveTable
    \/ \E row \in Rows4 : AppendRow(row) \/ ReplaceResult(row)
    \/ \E row \in Rows4, id \in ResultId : AppendRows(Measured(id), row)
    \/ \E v \in Schema : \E row \in RowsOfVersion(v) :
          CompareWith([version |-> v, rows |-> <<row>>])

RowsSpec == RowsInit /\ [][RowsNext]_rowVars

-----------------------------------------------------------------------------
RowsTypeOK ==
    LET MeasuredRow ==
            [id : ResultId, imported : {FALSE}, provenance : {"known", Empty},
             graphMs : {"finite", Empty}, eligible : {"true", "false", Empty},
             gate : {"passed", "failed", "skipped", Empty}, median : {"positive", "zero", Empty},
             conditions : {"these", "others"}, number : {"1", "1.0"}]
        ImportedRow ==
            [id : ResultId, imported : {TRUE}, graphMs : {"finite", "infinite", Empty},
             errorType : {"legacy_unavailable", "other", Empty}, errorMessage : {"text", Empty},
             foreign : {"filled", Empty}]
    IN /\ table \in [version : {0} \cup Schema, rows : Seq(MeasuredRow \cup ImportedRow)]
       /\ edits \in 0..MaxEdits
       /\ \/ answer \in [is : {"none", "given", "refused", "unchanged", "written", "replaced"}]
          \/ /\ answer.is = "compared" /\ answer.versions \subseteq Schema
             /\ answer.ranked \subseteq answer.pairs
             /\ answer.pairs \subseteq MeasuredRow \X MeasuredRow

(* Whatever operations follow one another, a table that can be read stays one   *)
(* that can be read, and every row in it stays the same but for a result that *)
(* is replaced.  One that cannot be read, or an operation that is refused,    *)
(* changes nothing, not even the part of a batch that would do.               *)
TableKeepsRows ==
    [][answer.is # "none" =>
          IF ~Readable(table) \/ answer'.is \in {"refused", "unchanged", "compared"}
          THEN table' = table
          ELSE LET before == ToSet(ReadRows(table))
                   after == ToSet(ReadRows(table'))
               IN /\ Readable(table')
                  /\ \A row \in before \ after :
                        answer'.is = "replaced" /\ row.id = Last(table'.rows).id]_rowVars

(* No migration makes a row rank that was not written as one, and compare       *)
(* gives a speedup only for two measured rows of the same conditions that     *)
(* both rank and have a positive median.                                    *)
RankingIsKept ==
    /\ table.version \in 1..2 => \A row \in ToSet(ReadRows(table)) : ~Ranks(row)
    /\ answer.is = "compared" =>
          \A pair \in answer.ranked :
              /\ pair[1].conditions = pair[2].conditions
              /\ \A row \in {pair[1], pair[2]} :
                    /\ ~row.imported /\ row.provenance # Empty
                    /\ row.eligible = "true" /\ row.gate = "passed"
                    /\ row.median = "positive"
=============================================================================
