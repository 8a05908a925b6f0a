--------------------------- MODULE TableRowsProofs ---------------------------
(***************************************************************************)
(* Proofs about the rows of the tables: what a replacement of partitions      *)
(* keeps (TableRows), what an operation on results.csv keeps and what compare   *)
(* ranks (StoredRows), and that the totals of a model projection are earned       *)
(* (ModelProjection).                                                      *)
(***************************************************************************)
EXTENDS StoredRows, ModelProjection, TLAPS, SequenceTheorems, WellFoundedInduction,
        FiniteSetTheorems

-----------------------------------------------------------------------------
(* Keep.  place takes every kept row to the row of the table it is, in the order *)
(* of the table.                                                           *)
IsPlace(rows, wanted, n, kept, place) ==
    /\ place \in [1..Len(kept) -> 1..n]
    /\ \A k \in 1..Len(kept) : kept[k] = rows[place[k]] /\ rows[place[k]] \in wanted
    /\ \A k, l \in 1..Len(kept) : k < l => place[k] < place[l]
    /\ \A i \in 1..n : rows[i] \in wanted => \E k \in 1..Len(kept) : place[k] = i

(* kept is what is kept of the first n rows.                                  *)
IsKept(S, rows, wanted, n, kept) ==
    /\ kept \in Seq(S)
    /\ \E place : IsPlace(rows, wanted, n, kept, place)

KeptOfNext(rows, wanted, n, kept) ==
    IF rows[n] \in wanted THEN Append(kept, rows[n]) ELSE kept

LEMMA NothingIsKeptOfNothing ==
  ASSUME NEW S, NEW rows \in Seq(S), NEW wanted
  PROVE  IsKept(S, rows, wanted, 0, <<>>)
<1> DEFINE none == <<>>
<1>1. none \in Seq(S) /\ Len(none) = 0
  BY EmptySeq
<1> DEFINE place == [k \in 1..0 |-> k]
<1>2. IsPlace(rows, wanted, 0, none, place)
  <2> HIDE DEF none
  <2>1. 1..Len(none) = {} /\ 1..0 = {}
    BY <1>1
  <2>2. place \in [1..Len(none) -> 1..0]
    BY <2>1
  <2> QED
    BY <2>1, <2>2 DEF IsPlace
<1> QED
  BY <1>1, <1>2 DEF IsKept

LEMMA NextRowIsKeptOrNot ==
  ASSUME NEW S, NEW rows \in Seq(S), NEW wanted, NEW n \in 1..Len(rows), NEW kept,
         IsKept(S, rows, wanted, n - 1, kept)
  PROVE  IsKept(S, rows, wanted, n, KeptOfNext(rows, wanted, n, kept))
<1>1. PICK place : IsPlace(rows, wanted, n - 1, kept, place)
  BY DEF IsKept
<1>2. kept \in Seq(S) /\ rows[n] \in S /\ Len(kept) \in Nat /\ n \in Nat \ {0}
  BY DEF IsKept
<1>3. CASE rows[n] \notin wanted
  <2>1. KeptOfNext(rows, wanted, n, kept) = kept
    BY <1>3 DEF KeptOfNext
  <2>2. place \in [1..Len(kept) -> 1..n]
    BY <1>1, <1>2 DEF IsPlace
  <2>3. ASSUME NEW i \in 1..n, rows[i] \in wanted
        PROVE  \E k \in 1..Len(kept) : place[k] = i
    <3>1. i # n /\ i \in 1..(n - 1)
      BY <1>2, <1>3, <2>3
    <3> QED
      BY <3>1, <2>3, <1>1 DEF IsPlace
  <2>4. IsPlace(rows, wanted, n, kept, place)
    BY <2>2, <2>3, <1>1 DEF IsPlace
  <2> QED
    BY <2>1, <2>4, <1>2 DEF IsKept
<1>4. CASE rows[n] \in wanted
  <2> DEFINE m == Len(kept)
             more == Append(kept, rows[n])
             next == [k \in 1..(m + 1) |-> IF k = m + 1 THEN n ELSE place[k]]
  <2>1. KeptOfNext(rows, wanted, n, kept) = more
    BY <1>4 DEF KeptOfNext
  <2>2. /\ more \in Seq(S) /\ Len(more) = m + 1 /\ m \in Nat
        /\ more[m + 1] = rows[n]
        /\ \A k \in 1..m : more[k] = kept[k]
    BY <1>2
  <2>3. place \in [1..m -> 1..(n - 1)]
    BY <1>1 DEF IsPlace
  <2> HIDE DEF m, more
  <2>4. next[m + 1] = n /\ \A k \in 1..m : next[k] = place[k] /\ next[k] \in 1..(n - 1)
    BY <2>2, <2>3
  <2>5. next \in [1..Len(more) -> 1..n]
    BY <1>2, <2>2, <2>3
  <2> HIDE DEF next
  <2>6. ASSUME NEW k \in 1..Len(more)
        PROVE  more[k] = rows[next[k]] /\ rows[next[k]] \in wanted
    <3>1. CASE k = m + 1
      BY <3>1, <2>2, <2>4, <1>4
    <3>2. CASE k \in 1..m
      BY <3>2, <2>2, <2>4, <1>1 DEF IsPlace, m
    <3> QED
      BY <3>1, <3>2, <2>2
  <2>7. ASSUME NEW k \in 1..Len(more), NEW l \in 1..Len(more), k < l
        PROVE  next[k] < next[l]
    <3>1. k \in 1..m
      BY <2>2, <2>7
    <3>2. CASE l = m + 1
      BY <3>1, <3>2, <2>4, <1>2
    <3>3. CASE l \in 1..m
      <4>1. place[k] < place[l]
        BY <3>1, <3>3, <2>7, <1>1 DEF IsPlace, m
      <4> QED
        BY <4>1, <3>1, <3>3, <2>4
    <3> QED
      BY <3>2, <3>3, <2>2
  <2>8. ASSUME NEW i \in 1..n, rows[i] \in wanted
        PROVE  \E k \in 1..Len(more) : next[k] = i
    <3>1. CASE i = n
      BY <3>1, <2>2, <2>4
    <3>2. CASE i \in 1..(n - 1)
      <4>1. PICK k \in 1..m : place[k] = i
        BY <3>2, <2>8, <1>1 DEF IsPlace, m
      <4> QED
        BY <4>1, <2>2, <2>4
    <3> QED
      BY <3>1, <3>2, <1>2
  <2>9. IsPlace(rows, wanted, n, more, next)
    BY <2>5, <2>6, <2>7, <2>8 DEF IsPlace
  <2> QED
    BY <2>1, <2>2, <2>9 DEF IsKept
<1> QED
  BY <1>3, <1>4

(* The recursive function of Keep, up to n rows.                              *)
KeepsUpTo(rows, wanted, n, f) ==
    f = [i \in 0..n |-> IF i = 0 THEN <<>>
                        ELSE IF rows[i] \in wanted THEN Append(f[i - 1], rows[i])
                        ELSE f[i - 1]]

LEMMA KeepIsDefined ==
  ASSUME NEW rows, NEW wanted, NEW n \in Nat
  PROVE  \E f : KeepsUpTo(rows, wanted, n, f)
<1> DEFINE Bad == {i \in Nat : ~ \E f : KeepsUpTo(rows, wanted, i, f)}
<1>1. SUFFICES ASSUME Bad # {} PROVE FALSE
  OBVIOUS
<1>2. PICK i \in Bad : \A j \in Bad : ~(<<j, i>> \in OpToRel(<, Nat))
  BY <1>1, NatLessThanWellFounded, WFMin
<1>3. i \in Nat /\ \A j \in Nat : j < i => j \notin Bad
  BY <1>2 DEF OpToRel
<1>4. i # 0
  <2> DEFINE f == [k \in 0..0 |-> <<>>]
  <2>1. KeepsUpTo(rows, wanted, 0, f)
    BY DEF KeepsUpTo
  <2> QED
    BY <2>1, <1>2
<1>5. i - 1 \in Nat /\ i - 1 \notin Bad
  BY <1>3, <1>4
<1>6. PICK f : KeepsUpTo(rows, wanted, i - 1, f)
  BY <1>5
<1> DEFINE g == [k \in 0..i |-> IF k = i THEN KeptOfNext(rows, wanted, i, f[i - 1]) ELSE f[k]]
<1>7. \A k \in 0..(i - 1) : g[k] = f[k]
  BY <1>3
<1>8. g[i] = KeptOfNext(rows, wanted, i, g[i - 1])
  BY <1>3, <1>4, <1>7
<1>9. ASSUME NEW k \in 0..i
      PROVE  g[k] = IF k = 0 THEN <<>>
                    ELSE IF rows[k] \in wanted THEN Append(g[k - 1], rows[k])
                    ELSE g[k - 1]
  <2> HIDE DEF g
  <2>1. CASE k = i
    BY <2>1, <1>4, <1>8 DEF KeptOfNext
  <2>2. CASE k \in 0..(i - 1)
    <3>1. f[k] = IF k = 0 THEN <<>>
                 ELSE IF rows[k] \in wanted THEN Append(f[k - 1], rows[k])
                 ELSE f[k - 1]
      BY <2>2, <1>6 DEF KeepsUpTo
    <3>2. k # 0 => k - 1 \in 0..(i - 1)
      BY <2>2, <1>3
    <3> QED
      BY <3>1, <3>2, <2>2, <1>7
  <2> QED
    BY <2>1, <2>2, <1>3
<1>10. KeepsUpTo(rows, wanted, i, g)
  BY <1>9 DEF KeepsUpTo
<1> QED
  BY <1>2, <1>10

(* What a replacement keeps of a table are the wanted rows of it, each once and    *)
(* in order (the comprehension of replace_partitions).                        *)
LEMMA KeepKeeps ==
  ASSUME NEW S, NEW rows \in Seq(S), NEW wanted
  PROVE  IsKept(S, rows, wanted, Len(rows), Keep(rows, wanted))
<1> DEFINE n == Len(rows)
           f == CHOOSE f : KeepsUpTo(rows, wanted, n, f)
<1>1. n \in Nat
  OBVIOUS
<1>2. KeepsUpTo(rows, wanted, n, f)
  BY <1>1, KeepIsDefined
<1>3. Keep(rows, wanted) = f[n]
  BY DEF Keep, KeepsUpTo
<1> HIDE DEF f
<1> DEFINE Bad == {i \in 0..n : ~IsKept(S, rows, wanted, i, f[i])}
<1>4. SUFFICES ASSUME Bad # {} PROVE FALSE
  BY <1>1, <1>3
<1>5. PICK i \in Bad : \A j \in Bad : ~(<<j, i>> \in OpToRel(<, Nat))
  <2>1. Bad \subseteq Nat
    BY <1>1
  <2> HIDE DEF Bad
  <2> QED
    BY <2>1, <1>4, NatLessThanWellFounded, WFMin
<1>6. i \in Nat /\ i \in 0..n /\ \A j \in 0..n : j < i => j \notin Bad
  <2> HIDE DEF n
  <2>1. i \in 0..n
    BY <1>5
  <2>2. 0..n \subseteq Nat
    BY <1>1
  <2> HIDE DEF Bad
  <2> QED
    BY <2>1, <2>2, <1>5 DEF OpToRel
<1>7. f[i] = IF i = 0 THEN <<>> ELSE KeptOfNext(rows, wanted, i, f[i - 1])
  BY <1>2, <1>6 DEF KeepsUpTo, KeptOfNext
<1>8. i # 0
  BY <1>5, <1>7, NothingIsKeptOfNothing
<1>9. i \in 1..n /\ IsKept(S, rows, wanted, i - 1, f[i - 1])
  BY <1>1, <1>6, <1>8
<1>10. IsKept(S, rows, wanted, i, KeptOfNext(rows, wanted, i, f[i - 1]))
  BY <1>9, NextRowIsKeptOrNot
<1> QED
  BY <1>5, <1>7, <1>8, <1>10

-----------------------------------------------------------------------------
(* StoredRows: the table.                                                   *)
Cell ==
    {"", "known", "finite", "infinite", "true", "false", "passed", "failed", "skipped",
     "positive", "zero", "these", "others", "1", "1.0", "legacy_unavailable", "text",
     "other", "filled"}

MeasuredRow ==
    [id : ResultId, imported : {FALSE}, provenance : Cell, graphMs : Cell,
     eligible : Cell, gate : Cell, median : Cell, conditions : Cell, number : Cell]

ImportedRow ==
    [id : ResultId, imported : {TRUE}, graphMs : Cell, errorType : Cell,
     errorMessage : Cell, foreign : Cell]

StoredRow == MeasuredRow \cup ImportedRow

(* The tables before version 4 know nothing of imports.                         *)
IsTable(t) ==
    /\ t.version \in 0..4
    /\ t.rows \in Seq(StoredRow)
    /\ t.version \in 1..3 => \A i \in DOMAIN t.rows : t.rows[i] \in MeasuredRow

(* A speedup is one of two measured rows that rank.                            *)
IsRankedPair(pair) ==
    /\ pair[1].conditions = pair[2].conditions
    /\ \A row \in {pair[1], pair[2]} :
          /\ ~row.imported /\ row.provenance # Empty
          /\ row.eligible = "true" /\ row.gate = "passed" /\ row.median = "positive"

SpeedupsFit == answer.is = "compared" => \A pair \in answer.ranked : IsRankedPair(pair)

RowsInv == IsTable(table) /\ SpeedupsFit

LEMMA MeasuredFits ==
  ASSUME NEW id \in ResultId
  PROVE  /\ Measured(id) \in MeasuredRow
         /\ [Measured(id) EXCEPT !.eligible = Empty, !.gate = Empty] \in MeasuredRow
  BY DEF Measured, MeasuredRow, Empty, Cell

LEMMA ChangedMeasuredFits ==
  ASSUME NEW row \in MeasuredRow, NEW x \in Cell
  PROVE  /\ [row EXCEPT !.provenance = x] \in MeasuredRow
         /\ [row EXCEPT !.graphMs = x] \in MeasuredRow
         /\ [row EXCEPT !.eligible = x] \in MeasuredRow
         /\ [row EXCEPT !.gate = x] \in MeasuredRow
         /\ [row EXCEPT !.median = x] \in MeasuredRow
         /\ [row EXCEPT !.conditions = x] \in MeasuredRow
         /\ [row EXCEPT !.number = x] \in MeasuredRow
  BY DEF MeasuredRow

LEMMA ChangedImportFits ==
  ASSUME NEW row \in ImportedRow, NEW x \in Cell
  PROVE  /\ [row EXCEPT !.graphMs = x] \in ImportedRow
         /\ [row EXCEPT !.errorType = x] \in ImportedRow
         /\ [row EXCEPT !.errorMessage = x] \in ImportedRow
         /\ [row EXCEPT !.foreign = x] \in ImportedRow
  BY DEF ImportedRow

LEMMA GivenRowsFit ==
  ASSUME NEW id \in ResultId, NEW row \in RowsOf(id)
  PROVE  row \in StoredRow /\ (~row.imported => row \in MeasuredRow)
<1>1. Imported(id) \in ImportedRow
  BY DEF Imported, ImportedRow, Empty, Cell
<1>2. Unavailable(id) \in ImportedRow
  BY <1>1 DEF Unavailable, ImportedRow, Empty, Cell
<1>3. /\ Empty \in Cell /\ "finite" \in Cell /\ "infinite" \in Cell /\ "false" \in Cell
      /\ "failed" \in Cell /\ "zero" \in Cell /\ "others" \in Cell /\ "1.0" \in Cell
      /\ "other" \in Cell /\ "text" \in Cell /\ "filled" \in Cell
  BY DEF Empty, Cell
<1>4. ASSUME NEW m \in MeasuredRow PROVE LikeMeasured(m) \subseteq MeasuredRow
  BY ZenonT(30), <1>3, <1>4, ChangedMeasuredFits DEF LikeMeasured
<1>5. ASSUME NEW r \in ImportedRow PROVE LikeImported(r) \subseteq ImportedRow
  BY <1>3, <1>5, ChangedImportFits DEF LikeImported
<1>6. row \in MeasuredRow \/ row \in ImportedRow
  BY <1>1, <1>2, <1>4, <1>5, MeasuredFits DEF RowsOf
<1>7. row \in ImportedRow => row.imported
  BY DEF ImportedRow
<1> QED
  BY <1>6, <1>7 DEF StoredRow

LEMMA VersionedRowsFit ==
  ASSUME NEW v \in Schema, NEW row \in RowsOfVersion(v)
  PROVE  row \in StoredRow /\ (v \in 1..3 => row \in MeasuredRow)
<1>1. ASSUME NEW r \in Rows4 PROVE r \in StoredRow /\ (~r.imported => r \in MeasuredRow)
  BY <1>1, GivenRowsFit DEF Rows4
<1>2. Empty \in Cell
  BY DEF Empty, Cell
<1>3. CASE v = 4
  BY <1>1, <1>3 DEF RowsOfVersion
<1>4. CASE v = 3
  BY <1>1, <1>4 DEF RowsOfVersion, StoredRow
<1>5. CASE v \in 1..2
  <2>1. PICK r \in Rows4 : ~r.imported /\ row = [r EXCEPT !.eligible = Empty, !.gate = Empty]
    <3> DEFINE rows == {[r EXCEPT !.eligible = Empty, !.gate = Empty] :
                           r \in {o \in Rows4 : ~o.imported /\ o.graphMs = Empty}}
    <3>1. v # 3 /\ v # 4
      BY <1>5
    <3>2. RowsOfVersion(v) = rows
      BY <3>1 DEF RowsOfVersion
    <3>3. row \in rows
      BY <3>2
    <3> QED
      BY <3>3
  <2>2. r \in MeasuredRow
    BY <2>1, <1>1
  <2>3. row \in MeasuredRow
    BY <2>1, <2>2, <1>2 DEF MeasuredRow
  <2> QED
    BY <2>3 DEF StoredRow
<1> QED
  BY <1>3, <1>4, <1>5 DEF Schema

(* A migration keeps the ID of a row, changes none of the current version, and     *)
(* makes none rank.                                                         *)
LEMMA MigrationKeepsRows ==
  ASSUME NEW v \in Schema, NEW row \in StoredRow, v \in 1..3 => row \in MeasuredRow
  PROVE  /\ Migrate(row, v) \in StoredRow
         /\ Migrate(row, v).id = row.id
         /\ v = 4 => Migrate(row, v) = row
         /\ v \in 1..2 => ~Ranks(Migrate(row, v))
<1>1. "1.0" \in Cell /\ "false" \in Cell /\ "skipped" \in Cell
  BY DEF Cell
<1>2. CASE v = 4
  BY <1>2 DEF Migrate
<1>3. CASE v = 3
  <2>1. row \in MeasuredRow
    BY <1>3
  <2>2. Migrate(row, v) = [row EXCEPT !.number = "1.0"]
    BY <1>3 DEF Migrate
  <2>3. Migrate(row, v) \in MeasuredRow /\ Migrate(row, v).id = row.id
    BY <1>1, <2>1, <2>2 DEF MeasuredRow
  <2> QED
    BY <1>3, <2>3 DEF StoredRow
<1>4. CASE v \in 1..2
  <2>1. row \in MeasuredRow
    BY <1>4
  <2>2. Migrate(row, v) = [row EXCEPT !.number = "1.0", !.eligible = "false", !.gate = "skipped"]
    BY <1>4 DEF Migrate
  <2>3. Migrate(row, v) \in MeasuredRow /\ Migrate(row, v).id = row.id
    BY <1>1, <2>1, <2>2 DEF MeasuredRow
  <2>4. Migrate(row, v).eligible = "false"
    BY <2>1, <2>2 DEF MeasuredRow
  <2> QED
    BY <1>4, <2>3, <2>4 DEF StoredRow, Ranks
<1> QED
  BY <1>2, <1>3, <1>4 DEF Schema

LEMMA ReadRowsFit ==
  ASSUME NEW t, IsTable(t), t.version \in Schema
  PROVE  /\ ReadRows(t) \in Seq(StoredRow)
         /\ Len(ReadRows(t)) = Len(t.rows)
         /\ \A i \in 1..Len(t.rows) : /\ ReadRows(t)[i] = Migrate(t.rows[i], t.version)
                                      /\ ReadRows(t)[i].id = t.rows[i].id
         /\ t.version \in 1..2 => \A i \in 1..Len(t.rows) : ~Ranks(ReadRows(t)[i])
<1> DEFINE rows == t.rows
           v == t.version
           n == Len(rows)
<1>1. rows \in Seq(StoredRow) /\ n \in Nat /\ DOMAIN rows = 1..n
  <2>1. rows \in Seq(StoredRow)
    BY DEF IsTable
  <2> HIDE DEF rows
  <2> QED
    BY ONLY <2>1
<1>2. ASSUME NEW i \in 1..n
      PROVE  rows[i] \in StoredRow /\ (v \in 1..3 => rows[i] \in MeasuredRow)
  BY <1>1, <1>2 DEF IsTable
<1> HIDE DEF rows
<1>3. ReadRows(t) = [i \in 1..n |-> Migrate(rows[i], v)]
  BY <1>1 DEF ReadRows, rows
<1>4. ASSUME NEW i \in 1..n
      PROVE  /\ Migrate(rows[i], v) \in StoredRow
             /\ Migrate(rows[i], v).id = rows[i].id
             /\ v \in 1..2 => ~Ranks(Migrate(rows[i], v))
  BY <1>2, MigrationKeepsRows
<1> HIDE DEF n, v
<1>5. ReadRows(t) \in Seq(StoredRow) /\ Len(ReadRows(t)) = n
  <2>1. n \in Nat
    BY <1>1
  <2>2. ReadRows(t) \in [1..n -> StoredRow]
    BY <1>3, <1>4
  <2> QED
    BY ONLY <2>1, <2>2, SeqDef, LenProperties
<1> QED
  BY <1>3, <1>4, <1>5 DEF rows, n, v

LEMMA RowsInitInv == RowsInit => RowsInv
<1> SUFFICES ASSUME RowsInit PROVE RowsInv
  OBVIOUS
<1>1. table.version = 4 /\ table.rows = <<>> /\ answer.is = "none"
  BY DEF RowsInit
<1>2. <<>> \in Seq(StoredRow)
  BY EmptySeq
<1> QED
  BY <1>1, <1>2 DEF RowsInv, IsTable, SpeedupsFit

LEMMA AnswersFit ==
  ASSUME NEW result \in {"refused", "unchanged", "written", "replaced"}, Answers(result)
  PROVE  SpeedupsFit' /\ answer'.is = result
  BY DEF Answers, SpeedupsFit

LEMMA WrittenFits ==
  ASSUME NEW rows \in Seq(StoredRow), WriteRows(rows)
  PROVE  IsTable(table)' /\ table'.version = 4 /\ table'.rows = rows
<1>1. table'.version = 4 /\ table'.rows = rows
  BY DEF WriteRows
<1> QED
  BY <1>1 DEF IsTable

LEMMA RefusedFits == RowsInv /\ RefusedEdit => RowsInv'
<1> SUFFICES ASSUME RowsInv, RefusedEdit PROVE RowsInv'
  OBVIOUS
<1>1. table' = table /\ Answers("refused")
  BY DEF RefusedEdit
<1>2. SpeedupsFit'
  BY <1>1, AnswersFit
<1>3. IsTable(table)'
  BY <1>1 DEF RowsInv, IsTable
<1> QED
  BY <1>2, <1>3 DEF RowsInv

LEMMA UnchangedFits == RowsInv /\ Answers("unchanged") /\ UNCHANGED table => RowsInv'
<1> SUFFICES ASSUME RowsInv, Answers("unchanged"), UNCHANGED table PROVE RowsInv'
  OBVIOUS
<1>1. SpeedupsFit'
  BY AnswersFit
<1>2. IsTable(table)'
  BY DEF RowsInv, IsTable
<1> QED
  BY <1>1, <1>2 DEF RowsInv

LEMMA AllRowsFit ==
  ASSUME NEW row \in Rows4
  PROVE  row \in StoredRow
  BY GivenRowsFit DEF Rows4

LEMMA CurrentRowsFit ==
  ASSUME IsTable(table), Readable(table)
  PROVE  ReadRows(table) \in Seq(StoredRow)
  BY ReadRowsFit DEF Readable

LEMMA AppendRowInv ==
  ASSUME RowsInv, NEW row \in Rows4, AppendRow(row)
  PROVE  RowsInv'
<1> DEFINE rows == ReadRows(table)
<1>1. \/ RefusedEdit
      \/ Answers("unchanged") /\ UNCHANGED table
      \/ Readable(table) /\ Answers("written") /\ WriteRows(Append(rows, row))
  BY DEF AppendRow
<1>2. CASE Readable(table) /\ Answers("written") /\ WriteRows(Append(rows, row))
  <2>1. rows \in Seq(StoredRow) /\ row \in StoredRow
    BY <1>2, CurrentRowsFit, AllRowsFit DEF RowsInv
  <2>2. Append(rows, row) \in Seq(StoredRow)
    BY <2>1, AppendProperties
  <2> QED
    BY <1>2, <2>2, WrittenFits, AnswersFit DEF RowsInv
<1> QED
  BY <1>1, <1>2, RefusedFits, UnchangedFits

(* What append_many writes of two rows: the first, the second or both.            *)
LEMMA AppendRowsWrites ==
  ASSUME NEW row, NEW other, AppendRows(row, other), answer'.is = "written"
  PROVE  /\ Readable(table)
         /\ Normalises(row) /\ Normalises(other)
         /\ LET rows == ReadRows(table)
            IN  \/ /\ WithId(rows, row.id) = {}
                   /\ \/ WriteRows(Append(rows, row))
                      \/ /\ WithId(Append(rows, row), other.id) = {}
                         /\ WriteRows(Append(Append(rows, row), other))
                \/ /\ WithId(rows, other.id) = {}
                   /\ WriteRows(Append(rows, other))
<1> DEFINE rows == ReadRows(table)
           same == WithId(rows, row.id)
           first == IF same = {} THEN Append(rows, row) ELSE rows
           again == WithId(first, other.id)
           second == IF again = {} THEN Append(first, other) ELSE first
<1>1. ~ RefusedEdit /\ ~ Answers("unchanged")
  BY DEF RefusedEdit, Answers
<1>2. /\ Readable(table) /\ Normalises(row) /\ Normalises(other)
      /\ second # rows /\ WriteRows(second)
  BY <1>1 DEF AppendRows
<1>3. CASE same = {} /\ again = {}
  <2>1. first = Append(rows, row) /\ second = Append(first, other)
    BY <1>3
  <2> QED
    BY <1>2, <1>3, <2>1
<1>4. CASE same = {} /\ again # {}
  <2>1. second = Append(rows, row)
    BY <1>4
  <2> QED
    BY <1>2, <1>4, <2>1
<1>5. CASE same # {}
  <2>1. first = rows
    BY <1>5
  <2>2. again = {} /\ second = Append(rows, other)
    BY <1>2, <2>1
  <2> QED
    BY <1>2, <2>1, <2>2
<1> QED
  BY <1>3, <1>4, <1>5

LEMMA AppendRowsInv ==
  ASSUME RowsInv, NEW row \in StoredRow, NEW other \in StoredRow, AppendRows(row, other)
  PROVE  RowsInv'
<1>1. \/ RefusedEdit
      \/ Answers("unchanged") /\ UNCHANGED table
      \/ Answers("written")
  BY DEF AppendRows
<1>2. CASE Answers("written")
  <2>1. answer'.is = "written" /\ SpeedupsFit'
    BY <1>2, AnswersFit
  <2> DEFINE rows == ReadRows(table)
  <2>2. /\ Readable(table)
        /\ \/ WriteRows(Append(rows, row))
           \/ WriteRows(Append(Append(rows, row), other))
           \/ WriteRows(Append(rows, other))
    BY <2>1, AppendRowsWrites
  <2>3. rows \in Seq(StoredRow)
    BY <2>2, CurrentRowsFit DEF RowsInv
  <2> HIDE DEF rows
  <2>4. /\ Append(rows, row) \in Seq(StoredRow)
        /\ Append(rows, other) \in Seq(StoredRow)
    BY <2>3, AppendProperties
  <2>5. Append(Append(rows, row), other) \in Seq(StoredRow)
    BY <2>4, AppendProperties
  <2>6. IsTable(table)'
    BY <2>2, <2>4, <2>5, WrittenFits
  <2> QED
    BY <2>1, <2>6 DEF RowsInv
<1> QED
  BY <1>1, <1>2, RefusedFits, UnchangedFits

LEMMA ReplaceResultInv ==
  ASSUME RowsInv, NEW row \in Rows4, ReplaceResult(row)
  PROVE  RowsInv'
<1> DEFINE rows == ReadRows(table)
           rest == Keep(rows, {other \in ToSet(rows) : other.id # row.id})
<1>1. \/ RefusedEdit
      \/ Readable(table) /\ Answers("replaced") /\ WriteRows(Append(rest, row))
  BY DEF ReplaceResult
<1>2. CASE Readable(table) /\ Answers("replaced") /\ WriteRows(Append(rest, row))
  <2>1. rows \in Seq(StoredRow) /\ row \in StoredRow
    BY <1>2, CurrentRowsFit, AllRowsFit DEF RowsInv
  <2> HIDE DEF rows
  <2>2. rest \in Seq(StoredRow)
    BY <2>1, KeepKeeps DEF IsKept
  <2> HIDE DEF rest
  <2>3. Append(rest, row) \in Seq(StoredRow)
    BY <2>1, <2>2, AppendProperties
  <2> QED
    BY <1>2, <2>3, WrittenFits, AnswersFit DEF RowsInv, rest, rows
<1> QED
  BY <1>1, <1>2, RefusedFits

LEMMA CompareWithInv ==
  ASSUME RowsInv, NEW baseline, CompareWith(baseline)
  PROVE  RowsInv' /\ answer'.is \in {"refused", "compared"} /\ table' = table
<1> DEFINE now == ReadRows(table)
           old == ReadRows(baseline)
           pairs == {pair \in ToSet(now) \X ToSet(old) : pair[1].id = pair[2].id}
           refused == \/ ~Readable(table) \/ ~Readable(baseline)
                      \/ \E row \in ToSet(now) \cup ToSet(old) : row.imported
                      \/ Ids(now) # Ids(old)
                      \/ \E pair \in pairs : pair[1].conditions # pair[2].conditions
           isRanked(pair) == \A row \in {pair[1], pair[2]} : Ranks(row) /\ row.median = "positive"
           compared == [is |-> "compared", versions |-> {table.version, baseline.version},
                        pairs |-> pairs, ranked |-> {pair \in pairs : isRanked(pair)}]
<1>1. table' = table /\ answer' = IF refused THEN [is |-> "refused"] ELSE compared
  BY DEF CompareWith
<1>2. IsTable(table)'
  BY <1>1 DEF RowsInv, IsTable
<1>3. CASE refused
  <2>1. answer'.is = "refused"
    BY <1>1, <1>3
  <2> QED
    BY <1>1, <1>2, <2>1 DEF RowsInv, SpeedupsFit
<1>4. CASE ~refused
  <2>1. answer' = compared
    BY <1>1, <1>4
  <2>2. answer'.is = "compared" /\ answer'.ranked = {pair \in pairs : isRanked(pair)}
    <3> HIDE DEF pairs, isRanked
    <3> QED
      BY <2>1
  <2>3. ASSUME NEW pair \in pairs, isRanked(pair)
        PROVE  IsRankedPair(pair)
    <3>1. pair[1] \in ToSet(now) /\ pair[2] \in ToSet(old)
      OBVIOUS
    <3>2. pair[1].conditions = pair[2].conditions
      BY <1>4
    <3>3. ASSUME NEW row \in ToSet(now) \cup ToSet(old)
          PROVE  ~row.imported /\ row.provenance # Empty
      <4>1. ~row.imported
        BY <1>4
      <4>2. IsValid4(row)
        <5>1. Readable(table) /\ Readable(baseline)
          BY <1>4
        <5>2. CASE row \in ToSet(now)
          BY <5>1, <5>2 DEF ToSet, Readable, ReadRows
        <5>3. CASE row \in ToSet(old)
          BY <5>1, <5>3 DEF ToSet, Readable, ReadRows
        <5> QED
          BY <5>2, <5>3
      <4> QED
        BY <4>1, <4>2 DEF IsValid4, MeasuredIsValid
    <3> HIDE DEF now, old, pairs, refused
    <3> QED
      BY <2>3, <3>1, <3>2, <3>3 DEF IsRankedPair, Ranks
  <2>4. SpeedupsFit'
    <3> HIDE DEF pairs, isRanked, compared
    <3> QED
      BY <2>2, <2>3 DEF SpeedupsFit
  <2> QED
    BY <1>1, <1>2, <2>2, <2>4 DEF RowsInv
<1> QED
  BY <1>3, <1>4

LEMMA GiveTableInv ==
  ASSUME GiveTable
  PROVE  RowsInv'
<1> DEFINE Good(id, v) == IF v <= 2 THEN [Measured(id) EXCEPT !.eligible = Empty, !.gate = Empty]
                          ELSE Measured(id)
           Given(id, v, row, n) == CASE n = 0 -> <<row>>
                                     [] n = 1 -> <<Good(id, v), row>>
                                     [] n = 2 -> <<row, Good(id, v)>>
<1>0. PICK v \in Schema, id \in ResultId :
         \E row \in RowsOfVersion(v), n \in 0..2 : \E header \in {0, v} :
            table' = [version |-> header, rows |-> Given(id, v, row, n)]
  BY DEF GiveTable
<1>1. PICK row \in RowsOfVersion(v), n \in 0..2 : \E header \in {0, v} :
         table' = [version |-> header, rows |-> Given(id, v, row, n)]
  BY <1>0
<1> DEFINE good == Good(id, v)
<1>2. /\ good \in MeasuredRow /\ good \in StoredRow
  BY MeasuredFits DEF StoredRow
<1>3. row \in StoredRow /\ (v \in 1..3 => row \in MeasuredRow)
  BY VersionedRowsFit
<1>4. Given(id, v, row, n) \in {<<row>>, <<good, row>>, <<row, good>>}
  <2> HIDE DEF Good
  <2>1. n = 0 \/ n = 1 \/ n = 2
    OBVIOUS
  <2> QED
    BY <2>1
<1> HIDE DEF good, Given, Good
<1> DEFINE rows == Given(id, v, row, n)
<1>5. PICK header \in {0, v} : table' = [version |-> header, rows |-> rows]
  BY <1>1
<1>6. rows \in Seq(StoredRow)
  <2>1. <<row>> \in Seq(StoredRow) /\ <<good, row>> \in Seq(StoredRow)
    BY <1>2, <1>3
  <2>2. <<row, good>> \in Seq(StoredRow)
    BY <1>2, <1>3
  <2> HIDE DEF rows
  <2> QED
    BY <1>4, <2>1, <2>2, Zenon DEF rows
<1>7. v \in 1..3 => \A i \in DOMAIN rows : rows[i] \in MeasuredRow
  BY <1>2, <1>3, <1>4
<1>8. table'.version = header /\ table'.rows = rows
  BY <1>5
<1>9. IsTable(table)'
  BY <1>6, <1>7, <1>8 DEF IsTable, Schema
<1>10. SpeedupsFit'
  BY DEF GiveTable, SpeedupsFit
<1> QED
  BY <1>9, <1>10 DEF RowsInv

LEMMA RowsNextInv == RowsInv /\ [RowsNext]_rowVars => RowsInv'
<1> SUFFICES ASSUME RowsInv, [RowsNext]_rowVars PROVE RowsInv'
  OBVIOUS
<1>1. CASE GiveTable
  BY <1>1, GiveTableInv
<1>2. ASSUME NEW row \in Rows4, AppendRow(row) \/ ReplaceResult(row)
      PROVE  RowsInv'
  BY <1>2, AppendRowInv, ReplaceResultInv
<1>3. ASSUME NEW row \in Rows4, NEW id \in ResultId, AppendRows(Measured(id), row)
      PROVE  RowsInv'
  <2>1. Measured(id) \in StoredRow /\ row \in StoredRow
    BY MeasuredFits, AllRowsFit DEF StoredRow
  <2> QED
    BY <1>3, <2>1, AppendRowsInv
<1>4. ASSUME NEW baseline, CompareWith(baseline)
      PROVE  RowsInv'
  BY <1>4, CompareWithInv
<1>5. CASE UNCHANGED rowVars
  BY <1>5, Zenon DEF RowsInv, IsTable, SpeedupsFit, rowVars
<1> QED
  BY <1>1, <1>2, <1>3, <1>4, <1>5 DEF RowsNext

(* A results.csv has the rows of its version, and a speedup is one of two measured  *)
(* rows that rank (csv_writer.py, compare_artifacts).                          *)
THEOREM RowsInvariant == RowsSpec => []RowsInv
<1>1. RowsInit => RowsInv
  BY RowsInitInv
<1>2. RowsInv /\ [RowsNext]_rowVars => RowsInv'
  BY RowsNextInv
<1> QED
  BY <1>1, <1>2, PTL DEF RowsSpec

(* No migration makes a row rank, and compare gives a speedup only for two        *)
(* measured rows of the same conditions that both rank and have a positive      *)
(* median (_migrate_results_v1, compare_artifacts).                           *)
THEOREM RankingsAreKept == RowsSpec => []RankingIsKept
<1>1. RowsInv => RankingIsKept
  <2> SUFFICES ASSUME RowsInv PROVE RankingIsKept
    OBVIOUS
  <2>1. ASSUME table.version \in 1..2, NEW row \in ToSet(ReadRows(table)) PROVE ~Ranks(row)
    <3> DEFINE rows == ReadRows(table)
    <3>1. /\ rows \in Seq(StoredRow) /\ Len(rows) = Len(table.rows)
          /\ \A i \in 1..Len(table.rows) : ~Ranks(rows[i])
      <4>1. table.version \in Schema
        BY <2>1 DEF Schema
      <4> QED
        BY <2>1, <4>1, ReadRowsFit DEF RowsInv
    <3> HIDE DEF rows
    <3>2. DOMAIN rows = 1..Len(rows)
      <4>1. rows \in Seq(StoredRow)
        BY <3>1
      <4> QED
        BY ONLY <4>1
    <3>3. PICK i \in DOMAIN rows : row = rows[i]
      BY <2>1 DEF rows, ToSet
    <3> QED
      BY <3>1, <3>2, <3>3
  <2> QED
    BY <2>1 DEF RowsInv, SpeedupsFit, RankingIsKept, IsRankedPair
<1> QED
  BY <1>1, RowsInvariant, PTL

-----------------------------------------------------------------------------
(* Rows that read_rows accepts when they are of the current version.             *)
AreGood(rows) ==
    /\ rows \in Seq(StoredRow)
    /\ \A i, j \in DOMAIN rows : i # j => rows[i].id # rows[j].id
    /\ \A i \in DOMAIN rows : IsValid4(rows[i])

LEMMA SeqFacts ==
  ASSUME NEW S, NEW s \in Seq(S)
  PROVE  /\ Len(s) \in Nat /\ DOMAIN s = 1..Len(s)
         /\ \A i \in 1..Len(s) : s[i] \in S
         /\ ToSet(s) = {s[i] : i \in 1..Len(s)}
<1>1. Len(s) \in Nat /\ DOMAIN s = 1..Len(s) /\ \A i \in 1..Len(s) : s[i] \in S
  BY LenProperties, ElementOfSeq
<1> QED
  BY <1>1 DEF ToSet

LEMMA ReadRowsAreGood ==
  ASSUME IsTable(table), Readable(table)
  PROVE  AreGood(ReadRows(table))
<1> DEFINE rows == ReadRows(table)
           n == Len(table.rows)
<1>1. /\ rows \in Seq(StoredRow) /\ Len(rows) = n
      /\ \A i \in 1..n : /\ rows[i] = Migrate(table.rows[i], table.version)
                         /\ rows[i].id = table.rows[i].id
  BY ReadRowsFit DEF Readable
<1>2. /\ \A i, j \in 1..n : i # j => table.rows[i].id # table.rows[j].id
      /\ \A i \in 1..n : IsValid4(Migrate(table.rows[i], table.version))
  <2>1. table.rows \in Seq(StoredRow)
    BY DEF IsTable
  <2>2. DOMAIN table.rows = 1..n
    BY <2>1, SeqFacts
  <2> QED
    BY <2>2 DEF Readable
<1> HIDE DEF rows, n
<1>3. DOMAIN rows = 1..n
  BY <1>1, SeqFacts
<1> QED
  BY <1>1, <1>2, <1>3 DEF AreGood, rows

LEMMA AppendedRowsAreGood ==
  ASSUME NEW rows, AreGood(rows), NEW row \in StoredRow, IsValid4(row),
         WithId(rows, row.id) = {}
  PROVE  AreGood(Append(rows, row)) /\ ToSet(rows) \subseteq ToSet(Append(rows, row))
<1> DEFINE n == Len(rows)
           more == Append(rows, row)
<1>1. /\ rows \in Seq(StoredRow) /\ n \in Nat /\ DOMAIN rows = 1..n
      /\ ToSet(rows) = {rows[i] : i \in 1..n}
  BY SeqFacts DEF AreGood
<1>2. /\ more \in Seq(StoredRow) /\ Len(more) = n + 1 /\ more[n + 1] = row
      /\ \A i \in 1..n : more[i] = rows[i]
  BY <1>1, AppendProperties
<1>3. DOMAIN more = 1..(n + 1) /\ ToSet(more) = {more[i] : i \in 1..(n + 1)}
  BY ZenonT(30), <1>2, SeqFacts
<1>4. \A i \in 1..n : rows[i].id # row.id
  BY ZenonT(30), <1>1 DEF WithId
<1>5. /\ \A i, j \in 1..n : i # j => rows[i].id # rows[j].id
      /\ \A i \in 1..n : IsValid4(rows[i])
  BY <1>1 DEF AreGood
<1> HIDE DEF n, more
<1>6. \A i, j \in 1..(n + 1) : i # j => more[i].id # more[j].id
  <2> TAKE i, j \in 1..(n + 1)
  <2>1. (i \in 1..n \/ i = n + 1) /\ (j \in 1..n \/ j = n + 1)
    BY <1>1
  <2> QED
    BY <2>1, <1>2, <1>4, <1>5
<1>7. \A i \in 1..(n + 1) : IsValid4(more[i])
  <2> TAKE i \in 1..(n + 1)
  <2>1. i \in 1..n \/ i = n + 1
    BY <1>1
  <2> QED
    BY <2>1, <1>2, <1>5
<1>8. ToSet(rows) \subseteq ToSet(more)
  <2>1. ASSUME NEW i \in 1..n PROVE rows[i] = more[i] /\ i \in 1..(n + 1)
    BY <1>1, <1>2
  <2> QED
    BY <2>1, <1>1, <1>3
<1> QED
  BY <1>2, <1>3, <1>6, <1>7, <1>8 DEF AreGood, more

LEMMA KeptRowsAreGood ==
  ASSUME NEW rows, AreGood(rows), NEW wanted
  PROVE  /\ AreGood(Keep(rows, wanted))
         /\ ToSet(Keep(rows, wanted)) = ToSet(rows) \cap wanted
<1> DEFINE n == Len(rows)
           kept == Keep(rows, wanted)
           m == Len(kept)
<1>1. /\ rows \in Seq(StoredRow) /\ n \in Nat /\ DOMAIN rows = 1..n
      /\ ToSet(rows) = {rows[i] : i \in 1..n}
  BY SeqFacts DEF AreGood
<1>2. IsKept(StoredRow, rows, wanted, n, kept)
  BY <1>1, KeepKeeps
<1> HIDE DEF kept
<1>3. /\ kept \in Seq(StoredRow) /\ m \in Nat /\ DOMAIN kept = 1..m
      /\ ToSet(kept) = {kept[i] : i \in 1..m}
  BY <1>2, SeqFacts DEF IsKept
<1>4. PICK place : IsPlace(rows, wanted, n, kept, place)
  BY <1>2 DEF IsKept
<1> HIDE DEF n, m
<1>5. /\ place \in [1..m -> 1..n]
      /\ \A k \in 1..m : kept[k] = rows[place[k]] /\ rows[place[k]] \in wanted
      /\ \A k, l \in 1..m : k < l => place[k] < place[l]
      /\ \A i \in 1..n : rows[i] \in wanted => \E k \in 1..m : place[k] = i
  BY <1>4 DEF IsPlace, m
<1>6. \A k, l \in 1..m : k # l => place[k] # place[l]
  <2> TAKE k, l \in 1..m
  <2>1. k \in Nat /\ l \in Nat /\ place[k] \in Nat /\ place[l] \in Nat
    BY <1>1, <1>3, <1>5
  <2> QED
    BY <2>1, <1>5
<1>7. /\ \A i, j \in 1..n : i # j => rows[i].id # rows[j].id
      /\ \A i \in 1..n : IsValid4(rows[i])
  BY <1>1 DEF AreGood
<1>8. AreGood(kept)
  <2>1. \A i, j \in 1..m : i # j => kept[i].id # kept[j].id
    BY <1>5, <1>6, <1>7
  <2>2. \A i \in 1..m : IsValid4(kept[i])
    BY <1>5, <1>7
  <2> QED
    BY <1>3, <2>1, <2>2 DEF AreGood
<1>9. ToSet(kept) = ToSet(rows) \cap wanted
  <2>1. ASSUME NEW k \in 1..m PROVE kept[k] \in ToSet(rows) \cap wanted
    BY <1>1, <1>5
  <2>2. ASSUME NEW r \in ToSet(rows) \cap wanted PROVE r \in ToSet(kept)
    <3>1. PICK i \in 1..n : r = rows[i]
      BY <1>1
    <3>2. PICK k \in 1..m : place[k] = i
      BY <3>1, <1>5
    <3> QED
      BY <3>1, <3>2, <1>3, <1>5
  <2> QED
    BY <2>1, <2>2, <1>3
<1> QED
  BY <1>8, <1>9 DEF kept

LEMMA WrittenRowsAreRead ==
  ASSUME NEW rows, AreGood(rows), WriteRows(rows)
  PROVE  Readable(table') /\ ReadRows(table') = rows /\ table'.rows = rows
<1>1. table'.version = 4 /\ table'.rows = rows
  BY DEF WriteRows
<1>2. \A r : Migrate(r, 4) = r
  BY DEF Migrate
<1>3. rows \in Seq(StoredRow) /\ DOMAIN rows = 1..Len(rows)
  BY SeqFacts DEF AreGood
<1>4. Readable(table')
  BY <1>1, <1>2 DEF Readable, Schema, AreGood
<1>5. ReadRows(table') = [i \in DOMAIN rows |-> rows[i]]
  BY <1>1, <1>2 DEF ReadRows
<1>6. rows = [i \in DOMAIN rows |-> rows[i]]
  BY <1>3
<1> QED
  BY <1>1, <1>4, <1>5, <1>6

(* An operation that answered and did not refuse keeps every row but the one it    *)
(* replaced.                                                               *)
StepKeepsRows ==
    IF ~Readable(table) \/ answer'.is \in {"refused", "unchanged", "compared"}
    THEN table' = table
    ELSE LET before == ToSet(ReadRows(table))
             after == ToSet(ReadRows(table'))
         IN /\ Readable(table')
            /\ \A row \in before \ after :
                  answer'.is = "replaced" /\ row.id = Last(table'.rows).id

LEMMA SameTableKeepsRows ==
  ASSUME table' = table, answer'.is \in {"refused", "unchanged", "compared"}
  PROVE  StepKeepsRows
  BY DEF StepKeepsRows

LEMMA MoreRowsKeepRows ==
  ASSUME NEW rows, AreGood(rows), WriteRows(rows), Readable(table),
         answer'.is \notin {"refused", "unchanged", "compared"},
         ToSet(ReadRows(table)) \subseteq ToSet(rows)
  PROVE  StepKeepsRows
  BY WrittenRowsAreRead DEF StepKeepsRows

LEMMA AppendRowKeepsRows ==
  ASSUME RowsInv, NEW row \in Rows4, AppendRow(row)
  PROVE  StepKeepsRows
<1> DEFINE rows == ReadRows(table)
           same == WithId(rows, row.id)
<1>1. \/ RefusedEdit
      \/ Answers("unchanged") /\ UNCHANGED table
      \/ /\ Readable(table) /\ Normalises(row) /\ same = {}
         /\ Answers("written") /\ WriteRows(Append(rows, row))
  BY DEF AppendRow
<1>2. CASE RefusedEdit \/ (Answers("unchanged") /\ UNCHANGED table)
  BY <1>2, SameTableKeepsRows DEF RefusedEdit, Answers
<1>3. CASE /\ Readable(table) /\ Normalises(row) /\ same = {}
           /\ Answers("written") /\ WriteRows(Append(rows, row))
  <2>1. AreGood(rows) /\ row \in StoredRow /\ IsValid4(row)
    BY <1>3, ReadRowsAreGood, AllRowsFit DEF RowsInv, Normalises
  <2>2. AreGood(Append(rows, row)) /\ ToSet(rows) \subseteq ToSet(Append(rows, row))
    BY <1>3, <2>1, AppendedRowsAreGood
  <2>3. answer'.is = "written"
    BY <1>3, AnswersFit
  <2> QED
    BY <1>3, <2>2, <2>3, MoreRowsKeepRows
<1> QED
  BY <1>1, <1>2, <1>3

LEMMA AppendRowsKeepsRows ==
  ASSUME RowsInv, NEW row \in StoredRow, NEW other \in StoredRow, AppendRows(row, other)
  PROVE  StepKeepsRows
<1>1. \/ RefusedEdit
      \/ Answers("unchanged") /\ UNCHANGED table
      \/ Answers("written")
  BY DEF AppendRows
<1>2. CASE RefusedEdit \/ (Answers("unchanged") /\ UNCHANGED table)
  BY <1>2, SameTableKeepsRows DEF RefusedEdit, Answers
<1>3. CASE Answers("written")
  <2> DEFINE rows == ReadRows(table)
  <2>1. answer'.is = "written"
    BY <1>3, AnswersFit
  <2>2. /\ Readable(table) /\ IsValid4(row) /\ IsValid4(other)
        /\ \/ /\ WithId(rows, row.id) = {}
              /\ \/ WriteRows(Append(rows, row))
                 \/ /\ WithId(Append(rows, row), other.id) = {}
                    /\ WriteRows(Append(Append(rows, row), other))
           \/ /\ WithId(rows, other.id) = {}
              /\ WriteRows(Append(rows, other))
    BY <2>1, AppendRowsWrites DEF Normalises
  <2>3. AreGood(rows)
    BY <2>2, ReadRowsAreGood DEF RowsInv
  <2>4. CASE /\ WithId(rows, row.id) = {}
             /\ WriteRows(Append(rows, row))
    <3>1. AreGood(Append(rows, row)) /\ ToSet(rows) \subseteq ToSet(Append(rows, row))
      BY <2>2, <2>3, <2>4, AppendedRowsAreGood
    <3> QED
      BY <2>1, <2>2, <2>4, <3>1, MoreRowsKeepRows
  <2>5. CASE /\ WithId(rows, row.id) = {}
             /\ WithId(Append(rows, row), other.id) = {}
             /\ WriteRows(Append(Append(rows, row), other))
    <3> DEFINE first == Append(rows, row)
    <3>1. AreGood(first) /\ ToSet(rows) \subseteq ToSet(first)
      BY <2>2, <2>3, <2>5, AppendedRowsAreGood
    <3> HIDE DEF first
    <3>2. AreGood(Append(first, other)) /\ ToSet(first) \subseteq ToSet(Append(first, other))
      <4>1. WithId(first, other.id) = {}
        BY <2>5 DEF first
      <4> QED
        BY <2>2, <3>1, <4>1, AppendedRowsAreGood
    <3>3. WriteRows(Append(first, other))
      BY <2>5 DEF first
    <3>4. ToSet(rows) \subseteq ToSet(Append(first, other))
      BY <3>1, <3>2
    <3> QED
      BY <2>1, <2>2, <3>2, <3>3, <3>4, MoreRowsKeepRows
  <2>6. CASE /\ WithId(rows, other.id) = {}
             /\ WriteRows(Append(rows, other))
    <3>1. AreGood(Append(rows, other)) /\ ToSet(rows) \subseteq ToSet(Append(rows, other))
      BY <2>2, <2>3, <2>6, AppendedRowsAreGood
    <3> QED
      BY <2>1, <2>2, <2>6, <3>1, MoreRowsKeepRows
  <2> QED
    BY <2>2, <2>4, <2>5, <2>6
<1> QED
  BY <1>1, <1>2, <1>3

LEMMA ReplaceResultKeepsRows ==
  ASSUME RowsInv, NEW row \in Rows4, ReplaceResult(row)
  PROVE  StepKeepsRows
<1> DEFINE rows == ReadRows(table)
           others == {other \in ToSet(rows) : other.id # row.id}
           rest == Keep(rows, others)
<1>1. \/ RefusedEdit
      \/ /\ Readable(table) /\ Normalises(row)
         /\ Answers("replaced") /\ WriteRows(Append(rest, row))
  BY DEF ReplaceResult
<1>2. CASE RefusedEdit
  BY <1>2, SameTableKeepsRows DEF RefusedEdit, Answers
<1>3. CASE /\ Readable(table) /\ Normalises(row)
           /\ Answers("replaced") /\ WriteRows(Append(rest, row))
  <2>1. AreGood(rows) /\ row \in StoredRow /\ IsValid4(row)
    BY <1>3, ReadRowsAreGood, AllRowsFit DEF RowsInv, Normalises
  <2>2. AreGood(rest) /\ ToSet(rest) = ToSet(rows) \cap others
    BY <2>1, KeptRowsAreGood
  <2>3. \A r \in ToSet(rows) : r \in others <=> r.id # row.id
    OBVIOUS
  <2> HIDE DEF rows, others, rest
  <2>4. rest \in Seq(StoredRow) /\ DOMAIN rest = 1..Len(rest) /\ Len(rest) \in Nat
        /\ \A i \in 1..Len(rest) : rest[i] \in ToSet(rest)
    BY <2>2, SeqFacts DEF AreGood
  <2>5. WithId(rest, row.id) = {}
    <3>1. ASSUME NEW i \in 1..Len(rest) PROVE rest[i].id # row.id
      BY <2>2, <2>3, <2>4
    <3> QED
      BY <3>1, <2>4 DEF WithId
  <2> DEFINE more == Append(rest, row)
  <2>6. AreGood(more) /\ ToSet(rest) \subseteq ToSet(more)
    BY <2>1, <2>2, <2>5, AppendedRowsAreGood
  <2>7. more \in Seq(StoredRow) /\ Len(more) = Len(rest) + 1 /\ more[Len(rest) + 1] = row
    BY <2>1, <2>4, AppendProperties
  <2>8. WriteRows(more)
    BY <1>3
  <2> HIDE DEF more
  <2>9. Readable(table') /\ ReadRows(table') = more /\ Last(table'.rows) = row
    BY <2>6, <2>7, <2>8, WrittenRowsAreRead DEF Last
  <2>10. \A r \in ToSet(rows) \ ToSet(more) : r.id = row.id
    BY <2>2, <2>3, <2>6
  <2>11. answer'.is = "replaced"
    BY <1>3, AnswersFit
  <2> QED
    BY <1>3, <2>9, <2>10, <2>11 DEF StepKeepsRows, rows
<1> QED
  BY <1>1, <1>2, <1>3

(* Whatever operations follow one another, a table that can be read stays one     *)
(* that can be read and keeps its rows but for one that is replaced; one that      *)
(* cannot be read, or an operation that is refused, changes nothing (append,      *)
(* append_many and replace_partitions of csv_writer.py, compare_artifacts).     *)
THEOREM TablesKeepRows == RowsSpec => TableKeepsRows
<1>1. RowsInv /\ RowsNext /\ answer.is # "none" => StepKeepsRows
  <2> SUFFICES ASSUME RowsInv, RowsNext, answer.is # "none" PROVE StepKeepsRows
    OBVIOUS
  <2>1. ~ GiveTable
    BY DEF GiveTable
  <2>2. ASSUME NEW row \in Rows4, AppendRow(row) \/ ReplaceResult(row)
        PROVE  StepKeepsRows
    BY <2>2, AppendRowKeepsRows, ReplaceResultKeepsRows
  <2>3. ASSUME NEW row \in Rows4, NEW id \in ResultId, AppendRows(Measured(id), row)
        PROVE  StepKeepsRows
    <3>1. Measured(id) \in StoredRow /\ row \in StoredRow
      BY MeasuredFits, AllRowsFit DEF StoredRow
    <3> QED
      BY <2>3, <3>1, AppendRowsKeepsRows
  <2>4. ASSUME NEW baseline, CompareWith(baseline)
        PROVE  StepKeepsRows
    BY <2>4, CompareWithInv, SameTableKeepsRows
  <2> QED
    BY <2>1, <2>2, <2>3, <2>4 DEF RowsNext
<1>2. RowsInv /\ [RowsNext]_rowVars
        => [answer.is # "none" =>
              IF ~Readable(table) \/ answer'.is \in {"refused", "unchanged", "compared"}
              THEN table' = table
              ELSE LET before == ToSet(ReadRows(table))
                       after == ToSet(ReadRows(table'))
                   IN /\ Readable(table')
                      /\ \A row \in before \ after :
                            answer'.is = "replaced" /\ row.id = Last(table'.rows).id]_rowVars
  BY <1>1, Zenon DEF StepKeepsRows
<1> QED
  BY <1>2, RowsInvariant, PTL DEF RowsSpec, TableKeepsRows

-----------------------------------------------------------------------------
(* ModelProjection: the rows of each evaluation are those of the last outcomes    *)
(* of its mapped jobs, each of them once.                                    *)
Outcome ==
    [status : {"never", "unsupported", "correctness_failed", "unavailable", "measured",
               "not_measured"},
     time : [Roles -> Nat]]

ProjectedRows == {ProjectedRow(j, o, r) : j \in Jobs, o \in Outcome, r \in Roles}

ProjectionFits ==
    /\ projected \in [Evaluations -> Seq(ProjectedRows)]
    /\ finished \in [Evaluations -> SUBSET {j.result : j \in Jobs}]
    /\ outcomes \in [Jobs -> Outcome]
    /\ atWork \subseteq Jobs

WasProjected(j) == outcomes[j] # NoOutcome

LastRow(j, role) == ProjectedRow(j, outcomes[j], role)

(* What was executed has a mapping.                                           *)
ProjectedAreMapped == \A j \in Jobs : WasProjected(j) => MappingsFor(j) # {}

(* Every row is one of the last execution of its job ...                          *)
RowsAreLast ==
    \A e \in Evaluations : \A i \in 1..Len(projected[e]) :
        \E j \in Jobs, role \in Roles :
            j.evaluation = e /\ WasProjected(j) /\ projected[e][i] = LastRow(j, role)

(* ... that is there ...                                                      *)
RowsAreThere ==
    \A j \in Jobs, role \in Roles :
        WasProjected(j) => \E i \in 1..Len(projected[j.evaluation]) :
                              projected[j.evaluation][i] = LastRow(j, role)

(* ... once.                                                               *)
RowsAreSingle ==
    \A e \in Evaluations : \A i, k \in 1..Len(projected[e]) :
        /\ projected[e][i].result = projected[e][k].result
        /\ projected[e][i].role = projected[e][k].role
        => i = k

ProjectionInv ==
    ProjectionFits /\ ProjectedAreMapped /\ RowsAreLast /\ RowsAreThere /\ RowsAreSingle

LEMMA OutcomesFit ==
  ASSUME NEW c \in Correctness, NEW p \in Performance
  PROVE  ProjectionStatus(c, p) \in {"unsupported", "correctness_failed", "unavailable",
                                     "measured", "not_measured"}
<1>1. CASE c = "unsupported"
  BY <1>1 DEF ProjectionStatus
<1>2. CASE c = "failed"
  BY <1>2 DEF ProjectionStatus
<1>3. CASE c = "error"
  BY <1>3 DEF ProjectionStatus
<1>4. CASE c = "passed"
  BY <1>4 DEF ProjectionStatus, Performance
<1> QED
  BY <1>1, <1>2, <1>3, <1>4 DEF Correctness

LEMMA RowFields ==
  ASSUME NEW j, NEW o, NEW role
  PROVE  /\ ProjectedRow(j, o, role).result = j.result
         /\ ProjectedRow(j, o, role).phase = j.phase
         /\ ProjectedRow(j, o, role).adapter = j.adapter
         /\ ProjectedRow(j, o, role).role = role
         /\ ProjectedRow(j, o, role).status = o.status
         /\ LET m == CHOOSE m \in MappingsFor(j) : TRUE
            IN  /\ ProjectedRow(j, o, role).projection = m.projection
                /\ ProjectedRow(j, o, role).time = o.time[role] * m.instances
  BY DEF ProjectedRow

LEMMA ProjectionInitInv == ProjectionInit => ProjectionInv
<1> SUFFICES ASSUME ProjectionInit PROVE ProjectionInv
  OBVIOUS
<1>1. \A e \in Evaluations : projected[e] = <<>> /\ finished[e] = {}
  BY DEF ProjectionInit
<1>2. \A j \in Jobs : outcomes[j] = NoOutcome
  BY DEF ProjectionInit
<1>3. NoOutcome \in Outcome
  BY DEF NoOutcome, Outcome
<1>4. <<>> \in Seq(ProjectedRows) /\ Len(<<>>) = 0
  BY EmptySeq
<1>5. ProjectionFits
  BY <1>3, <1>4 DEF ProjectionInit, ProjectionFits
<1>6. \A e \in Evaluations : 1..Len(projected[e]) = {}
  BY <1>1, <1>4
<1> QED
  BY <1>2, <1>5, <1>6
     DEF ProjectionInv, ProjectedAreMapped, WasProjected, RowsAreLast, RowsAreThere, RowsAreSingle

(* The table of an evaluation after its job was executed: what was kept of it, in  *)
(* its places, and the two rows of the job.                                   *)
IsReplaced(table0, job, o, place, kept, table1) ==
    LET m == Len(kept)
    IN  /\ m \in Nat /\ Len(table1) = m + 2
        /\ table1[m + 1] = ProjectedRow(job, o, "reference")
        /\ table1[m + 2] = ProjectedRow(job, o, "candidate")
        /\ place \in [1..m -> 1..Len(table0)]
        /\ \A k \in 1..m : /\ table1[k] = table0[place[k]]
                           /\ table1[k].result # job.result
        /\ \A k, l \in 1..m : k # l => place[k] # place[l]
        /\ \A i \in 1..Len(table0) :
              table0[i].result # job.result => \E k \in 1..m : place[k] = i

LEMMA PartitionIsReplaced ==
  ASSUME NEW table0 \in Seq(ProjectedRows), NEW job \in Jobs, NEW o \in Outcome
  PROVE  LET table1 == ReplacePartition(table0, job, ResultRows(job, o))
         IN  /\ table1 \in Seq(ProjectedRows)
             /\ \E place, kept : IsReplaced(table0, job, o, place, kept, table1)
<1> DEFINE n == Len(table0)
           others == {row \in ToSet(table0) : row.result # job.result}
           kept == Keep(table0, others)
           m == Len(kept)
           rows == ResultRows(job, o)
           table1 == kept \o rows
<1>1. n \in Nat /\ ToSet(table0) = {table0[i] : i \in 1..n}
  BY SeqFacts
<1>2. IsKept(ProjectedRows, table0, others, n, kept)
  BY KeepKeeps
<1>3. rows \in Seq(ProjectedRows) /\ Len(rows) = 2
      /\ rows[1] = ProjectedRow(job, o, "reference") /\ rows[2] = ProjectedRow(job, o, "candidate")
  <2> DEFINE x == ProjectedRow(job, o, "reference")
             y == ProjectedRow(job, o, "candidate")
  <2>1. x \in ProjectedRows /\ y \in ProjectedRows
    BY DEF ProjectedRows, Roles
  <2>2. rows = <<x, y>>
    BY DEF ResultRows
  <2> HIDE DEF x, y, rows
  <2>3. rows \in Seq(ProjectedRows) /\ Len(rows) = 2 /\ rows[1] = x /\ rows[2] = y
    BY <2>1, <2>2
  <2> QED
    BY <2>3 DEF x, y
<1>4. ReplacePartition(table0, job, rows) = table1
  BY DEF ReplacePartition
<1> HIDE DEF kept, rows, others
<1>5. kept \in Seq(ProjectedRows) /\ m \in Nat
  BY <1>2, SeqFacts DEF IsKept
<1>6. /\ table1 \in Seq(ProjectedRows) /\ Len(table1) = m + 2
      /\ \A k \in 1..m : table1[k] = kept[k]
      /\ table1[m + 1] = rows[1] /\ table1[m + 2] = rows[2]
  <2>1. /\ table1 \in Seq(ProjectedRows) /\ Len(table1) = m + Len(rows)
        /\ \A i \in 1..(m + Len(rows)) : table1[i] = IF i <= m THEN kept[i] ELSE rows[i - m]
    BY <1>3, <1>5, ConcatProperties
  <2> HIDE DEF m, table1
  <2>2. m + 1 \in 1..(m + 2) /\ m + 2 \in 1..(m + 2) /\ (m + 1) - m = 1 /\ (m + 2) - m = 2
        /\ ~(m + 1 <= m) /\ ~(m + 2 <= m) /\ \A k \in 1..m : k \in 1..(m + 2) /\ k <= m
    BY <1>5
  <2> QED
    BY <2>1, <2>2, <1>3
<1> HIDE DEF table1
<1>7. PICK place : IsPlace(table0, others, n, kept, place)
  BY <1>2 DEF IsKept
<1> HIDE DEF n, m
<1>8. /\ place \in [1..m -> 1..n]
      /\ \A k \in 1..m : kept[k] = table0[place[k]] /\ table0[place[k]] \in others
      /\ \A k, l \in 1..m : k < l => place[k] < place[l]
      /\ \A i \in 1..n : table0[i] \in others => \E k \in 1..m : place[k] = i
  BY <1>7 DEF IsPlace, m
<1>9. \A k, l \in 1..m : k # l => place[k] # place[l]
  <2> TAKE k, l \in 1..m
  <2>1. k \in Nat /\ l \in Nat /\ place[k] \in Nat /\ place[l] \in Nat
    BY <1>1, <1>5, <1>8
  <2> QED
    BY <2>1, <1>8
<1>10. \A k \in 1..m : table1[k] = table0[place[k]] /\ table1[k].result # job.result
  BY <1>6, <1>8 DEF others
<1>11. \A i \in 1..n : table0[i].result # job.result => \E k \in 1..m : place[k] = i
  BY <1>1, <1>8 DEF others
<1>12. IsReplaced(table0, job, o, place, kept, table1)
  BY <1>3, <1>5, <1>6, <1>8, <1>9, <1>10, <1>11 DEF IsReplaced, n, m
<1> QED
  BY <1>4, <1>6, <1>12 DEF rows

(* An execution of a mapped job.                                              *)
Projects(job, o) ==
    LET e == job.evaluation
    IN  /\ outcomes' = [outcomes EXCEPT ![job] = o]
        /\ projected' = [projected EXCEPT ![e] = ReplacePartition(@, job, ResultRows(job, o))]

LEMMA ProjectStep ==
  ASSUME ProjectionInv, NEW job \in Jobs, MappingsFor(job) # {},
         NEW o \in Outcome, o # NoOutcome, Projects(job, o)
  PROVE  /\ outcomes' \in [Jobs -> Outcome]
         /\ projected' \in [Evaluations -> Seq(ProjectedRows)]
         /\ (ProjectedAreMapped /\ RowsAreLast /\ RowsAreThere /\ RowsAreSingle)'
<1> DEFINE e == job.evaluation
           table0 == projected[e]
           table1 == ReplacePartition(table0, job, ResultRows(job, o))
<1>1. e \in Evaluations /\ \A j \in Jobs : j.evaluation \in Evaluations
  BY ModelProjectionAssumption
<1>2. \A j \in Jobs : j.evaluation = e /\ j.result = job.result => j = job
  BY ModelProjectionAssumption
<1>3. projected \in [Evaluations -> Seq(ProjectedRows)] /\ outcomes \in [Jobs -> Outcome]
  BY DEF ProjectionInv, ProjectionFits
<1>4. table1 \in Seq(ProjectedRows) /\ \E place, kept : IsReplaced(table0, job, o, place, kept, table1)
  <2>1. table0 \in Seq(ProjectedRows)
    BY <1>1, <1>3
  <2> QED
    BY <2>1, PartitionIsReplaced
<1>5. PICK place, kept : IsReplaced(table0, job, o, place, kept, table1)
  BY <1>4
<1>6. /\ outcomes' = [outcomes EXCEPT ![job] = o]
      /\ projected' = [projected EXCEPT ![e] = table1]
  BY DEF Projects
<1> HIDE DEF table1, e
<1>7. /\ outcomes'[job] = o /\ \A j \in Jobs : j # job => outcomes'[j] = outcomes[j]
      /\ projected'[e] = table1
      /\ \A f \in Evaluations : f # e => projected'[f] = projected[f]
      /\ outcomes' \in [Jobs -> Outcome]
      /\ projected' \in [Evaluations -> Seq(ProjectedRows)]
  BY <1>1, <1>3, <1>4, <1>6
<1> DEFINE m == Len(kept)
           n == Len(table0)
<1> HIDE DEF table0
<1>8. /\ m \in Nat /\ Len(table1) = m + 2
      /\ table1[m + 1] = ProjectedRow(job, o, "reference")
      /\ table1[m + 2] = ProjectedRow(job, o, "candidate")
      /\ place \in [1..m -> 1..n]
      /\ \A k \in 1..m : table1[k] = table0[place[k]] /\ table1[k].result # job.result
      /\ \A k, l \in 1..m : k # l => place[k] # place[l]
      /\ \A i \in 1..n : table0[i].result # job.result => \E k \in 1..m : place[k] = i
  BY <1>5 DEF IsReplaced
<1>9. /\ \A j \in Jobs : WasProjected(j)' <=> (j = job \/ WasProjected(j))
      /\ \A j \in Jobs, role \in Roles :
            LastRow(j, role)' = IF j = job THEN ProjectedRow(job, o, role) ELSE LastRow(j, role)
  BY <1>7 DEF WasProjected, LastRow
<1>10. \A role : /\ ProjectedRow(job, o, role).result = job.result
                 /\ ProjectedRow(job, o, role).role = role
  BY RowFields
<1>11. \A i \in 1..Len(table1) : i \in 1..m \/ i = m + 1 \/ i = m + 2
  BY <1>8
<1>12. m + 1 \in 1..Len(table1) /\ m + 2 \in 1..Len(table1) /\ 1..m \subseteq 1..Len(table1)
  BY <1>8
<1> HIDE DEF m, n
<1>13. ProjectedAreMapped'
  BY <1>9 DEF ProjectionInv, ProjectedAreMapped
<1>14. RowsAreLast'
  <2>1. ASSUME NEW i \in 1..Len(table1)
        PROVE  \E j \in Jobs, role \in Roles :
                  j.evaluation = e /\ WasProjected(j)' /\ table1[i] = LastRow(j, role)'
    <3>1. CASE i \in 1..m
      <4>1. /\ place[i] \in 1..Len(projected[e]) /\ table1[i] = projected[e][place[i]]
            /\ table1[i].result # job.result
        BY <3>1, <1>8 DEF n, table0
      <4>2. PICK j \in Jobs, role \in Roles :
              j.evaluation = e /\ WasProjected(j) /\ projected[e][place[i]] = LastRow(j, role)
        BY <4>1, <1>1 DEF ProjectionInv, RowsAreLast
      <4>3. j # job
        <5>1. LastRow(j, role).result = j.result
          BY DEF LastRow, ProjectedRow
        <5> QED
          BY <5>1, <4>1, <4>2
      <4> QED
        BY <4>1, <4>2, <4>3, <1>9
    <3>2. CASE i = m + 1
      BY <3>2, <1>8, <1>9 DEF e, Roles
    <3>3. CASE i = m + 2
      BY <3>3, <1>8, <1>9 DEF e, Roles
    <3> QED
      BY <3>1, <3>2, <3>3, <1>11
  <2>2. ASSUME NEW f \in Evaluations, NEW i \in 1..Len(projected'[f])
        PROVE  \E j \in Jobs, role \in Roles :
                  j.evaluation = f /\ WasProjected(j)' /\ projected'[f][i] = LastRow(j, role)'
    <3>1. CASE f = e
      BY <3>1, <2>1, <2>2, <1>7
    <3>2. CASE f # e
      <4>1. projected'[f] = projected[f]
        BY <3>2, <1>7
      <4>2. PICK j \in Jobs, role \in Roles :
              j.evaluation = f /\ WasProjected(j) /\ projected[f][i] = LastRow(j, role)
        BY <4>1, <2>2 DEF ProjectionInv, RowsAreLast
      <4>3. j # job
        BY <3>2, <4>2 DEF e
      <4> QED
        BY <4>1, <4>2, <4>3, <1>9
    <3> QED
      BY <3>1, <3>2
  <2> QED
    BY <2>2 DEF RowsAreLast
<1>15. RowsAreThere'
  <2>1. ASSUME NEW j \in Jobs, NEW role \in Roles, WasProjected(j)'
        PROVE  \E i \in 1..Len(projected'[j.evaluation]) :
                  projected'[j.evaluation][i] = LastRow(j, role)'
    <3>1. CASE j = job
      <4>1. j.evaluation = e /\ projected'[e] = table1
        BY <3>1, <1>7 DEF e
      <4>2. role = "reference" \/ role = "candidate"
        BY DEF Roles
      <4> QED
        BY <3>1, <4>1, <4>2, <1>8, <1>9, <1>12
    <3>2. CASE j # job
      <4>1. PICK i \in 1..Len(projected[j.evaluation]) :
              projected[j.evaluation][i] = LastRow(j, role)
        BY <3>2, <2>1, <1>9 DEF ProjectionInv, RowsAreThere
      <4>2. LastRow(j, role)' = LastRow(j, role)
        BY <3>2, <1>9
      <4>3. CASE j.evaluation # e
        <5>1. projected'[j.evaluation] = projected[j.evaluation]
          BY <4>3, <1>1, <1>7
        <5> QED
          BY <5>1, <4>1, <4>2
      <4>4. CASE j.evaluation = e
        <5>1. LastRow(j, role).result = j.result
          BY DEF LastRow, ProjectedRow
        <5>2. j.result # job.result
          BY <3>2, <4>4, <1>2
        <5>3. i \in 1..n /\ table0[i] = LastRow(j, role) /\ table0[i].result # job.result
          BY <5>1, <5>2, <4>1, <4>4 DEF table0, n
        <5>4. PICK k \in 1..m : place[k] = i
          BY <5>3, <1>8
        <5>5. k \in 1..Len(table1) /\ table1[k] = LastRow(j, role)
          BY <5>3, <5>4, <1>8, <1>12
        <5> QED
          BY <5>5, <4>2, <4>4, <1>7
      <4> QED
        BY <4>3, <4>4
    <3> QED
      BY <3>1, <3>2
  <2> QED
    BY <2>1 DEF RowsAreThere
<1>16. RowsAreSingle'
  <2>1. ASSUME NEW i \in 1..Len(table1), NEW k \in 1..Len(table1),
               table1[i].result = table1[k].result, table1[i].role = table1[k].role
        PROVE  i = k
    <3>1. CASE i \in 1..m /\ k \in 1..m
      <4>1. /\ place[i] \in 1..Len(projected[e]) /\ table1[i] = projected[e][place[i]]
            /\ place[k] \in 1..Len(projected[e]) /\ table1[k] = projected[e][place[k]]
        BY <3>1, <1>8 DEF n, table0
      <4>2. place[i] = place[k]
        BY <4>1, <2>1, <1>1 DEF ProjectionInv, RowsAreSingle
      <4> QED
        BY <3>1, <4>2, <1>8
    <3>2. table1[m + 1].result = job.result /\ table1[m + 2].result = job.result
          /\ table1[m + 1].role = "reference" /\ table1[m + 2].role = "candidate"
      BY <1>8, <1>10
    <3>3. \A l \in 1..m : table1[l].result # job.result
      BY <1>8
    <3> QED
      BY <2>1, <3>1, <3>2, <3>3, <1>11
  <2>2. ASSUME NEW f \in Evaluations, NEW i \in 1..Len(projected'[f]),
               NEW k \in 1..Len(projected'[f]),
               projected'[f][i].result = projected'[f][k].result,
               projected'[f][i].role = projected'[f][k].role
        PROVE  i = k
    <3>1. CASE f = e
      BY <3>1, <2>1, <2>2, <1>7
    <3>2. CASE f # e
      <4>1. projected'[f] = projected[f]
        BY <3>2, <1>7
      <4> QED
        BY <4>1, <2>2 DEF ProjectionInv, RowsAreSingle
    <3> QED
      BY <3>1, <3>2
  <2> QED
    BY <2>2 DEF RowsAreSingle
<1> QED
  BY <1>7, <1>13, <1>14, <1>15, <1>16

LEMMA SameRowsFit ==
  ASSUME ProjectionInv, UNCHANGED <<projected, outcomes>>
  PROVE  (ProjectedAreMapped /\ RowsAreLast /\ RowsAreThere /\ RowsAreSingle)'
<1>1. projected' = projected /\ outcomes' = outcomes
  OBVIOUS
<1>2. ProjectedAreMapped'
  BY <1>1 DEF ProjectionInv, ProjectedAreMapped, WasProjected
<1>3. RowsAreLast'
  BY <1>1 DEF ProjectionInv, RowsAreLast, WasProjected, LastRow
<1>4. RowsAreThere'
  BY <1>1 DEF ProjectionInv, RowsAreThere, WasProjected, LastRow
<1>5. RowsAreSingle'
  BY <1>1 DEF ProjectionInv, RowsAreSingle
<1> QED
  BY <1>2, <1>3, <1>4, <1>5

LEMMA ProjectInv ==
  ASSUME ProjectionInv, NEW job \in Jobs,
         NEW status \in {ProjectionStatus(c, p) : c \in Correctness, p \in Performance},
         NEW time \in [Roles -> Nat], Project(job, status, time)
  PROVE  ProjectionInv'
<1> DEFINE o == [status |-> status,
                 time |-> [r \in Roles |-> IF status = "measured" THEN time[r] ELSE 0]]
<1>1. status \in {"unsupported", "correctness_failed", "unavailable", "measured", "not_measured"}
  BY OutcomesFit
<1>2. o \in Outcome /\ o # NoOutcome
  BY <1>1 DEF Outcome, NoOutcome
<1>3. /\ UNCHANGED finished /\ atWork' = {job}
      /\ IF MappingsFor(job) = {} THEN UNCHANGED <<outcomes, projected>> ELSE Projects(job, o)
  BY DEF Project, Projects
<1> HIDE DEF o
<1>4. CASE MappingsFor(job) = {}
  <2>1. UNCHANGED <<outcomes, projected>>
    BY <1>3, <1>4
  <2>2. ProjectionFits'
    BY <1>3, <2>1 DEF ProjectionInv, ProjectionFits
  <2>3. (ProjectedAreMapped /\ RowsAreLast /\ RowsAreThere /\ RowsAreSingle)'
    BY <2>1, SameRowsFit
  <2> QED
    BY <2>2, <2>3 DEF ProjectionInv
<1>5. CASE MappingsFor(job) # {}
  <2>1. Projects(job, o)
    BY <1>3, <1>5
  <2>2. /\ outcomes' \in [Jobs -> Outcome]
        /\ projected' \in [Evaluations -> Seq(ProjectedRows)]
        /\ (ProjectedAreMapped /\ RowsAreLast /\ RowsAreThere /\ RowsAreSingle)'
    BY <1>2, <1>5, <2>1, ProjectStep
  <2>3. ProjectionFits'
    BY <1>3, <2>2 DEF ProjectionInv, ProjectionFits
  <2> QED
    BY <2>2, <2>3 DEF ProjectionInv
<1> QED
  BY <1>4, <1>5

LEMMA ProjectionNextInv == ProjectionInv /\ [ProjectionNext]_projectionVars => ProjectionInv'
<1> SUFFICES ASSUME ProjectionInv, [ProjectionNext]_projectionVars PROVE ProjectionInv'
  OBVIOUS
<1>1. UNCHANGED <<projected, outcomes>>
        => (ProjectedAreMapped /\ RowsAreLast /\ RowsAreThere /\ RowsAreSingle)'
  BY SameRowsFit
<1>2. ASSUME NEW job \in Jobs, NEW t \in 1..MaxTime,
             NEW status \in {ProjectionStatus(c, p) : c \in Correctness, p \in Performance},
             Project(job, status, [r \in Roles |-> IF r = "candidate" THEN t ELSE 1])
      PROVE  ProjectionInv'
  <2> DEFINE time == [r \in Roles |-> IF r = "candidate" THEN t ELSE 1]
  <2>1. time \in [Roles -> Nat]
    BY ModelProjectionAssumption
  <2> HIDE DEF time
  <2>2. Project(job, status, time)
    BY <1>2 DEF time
  <2> QED
    BY <2>1, <2>2, ProjectInv
<1>3. ASSUME NEW job \in Jobs, Finish(job)
      PROVE  ProjectionInv'
  <2>1. ProjectionFits'
    BY <1>3, ModelProjectionAssumption DEF Finish, ProjectionInv, ProjectionFits
  <2> QED
    BY <1>1, <1>3, <2>1 DEF Finish, ProjectionInv
<1>4. CASE DieAtWork
  <2>1. ProjectionFits'
    BY <1>4 DEF DieAtWork, ProjectionInv, ProjectionFits
  <2> QED
    BY <1>1, <1>4, <2>1 DEF DieAtWork, ProjectionInv
<1>5. CASE UNCHANGED projectionVars
  <2>1. ProjectionFits'
    BY <1>5, Zenon DEF projectionVars, ProjectionInv, ProjectionFits
  <2> QED
    BY <1>1, <1>5, <2>1 DEF projectionVars, ProjectionInv
<1>6. CASE ProjectionNext
  <2>1. CASE \E job \in Jobs, t \in 1..MaxTime :
               \E status \in {ProjectionStatus(c, p) : c \in Correctness, p \in Performance} :
                  Project(job, status, [r \in Roles |-> IF r = "candidate" THEN t ELSE 1])
    <3>1. PICK job \in Jobs, t \in 1..MaxTime :
               \E status \in {ProjectionStatus(c, p) : c \in Correctness, p \in Performance} :
                  Project(job, status, [r \in Roles |-> IF r = "candidate" THEN t ELSE 1])
      BY <2>1
    <3>2. PICK status \in {ProjectionStatus(c, p) : c \in Correctness, p \in Performance} :
                  Project(job, status, [r \in Roles |-> IF r = "candidate" THEN t ELSE 1])
      BY <3>1
    <3> QED
      BY <3>2, <1>2
  <2>2. CASE \E job \in Jobs : Finish(job)
    BY <2>2, <1>3
  <2>3. CASE DieAtWork
    BY <2>3, <1>4
  <2> QED
    BY <1>6, <2>1, <2>2, <2>3 DEF ProjectionNext
<1> QED
  BY <1>5, <1>6

(* The projection rows of an evaluation are those of the last execution of its      *)
(* mapped jobs, each once, whatever died between the two tables (_append_result,  *)
(* replace_partitions).                                                     *)
THEOREM ProjectionInvariant == ProjectionSpec => []ProjectionInv
<1>1. ProjectionInit => ProjectionInv
  BY ProjectionInitInv
<1>2. ProjectionInv /\ [ProjectionNext]_projectionVars => ProjectionInv'
  BY ProjectionNextInv
<1> QED
  BY <1>1, <1>2, PTL DEF ProjectionSpec

-----------------------------------------------------------------------------
(* The summary: a place holds the row that a job's last execution left.           *)
Holds(p, j, role) ==
    p[1] = j.evaluation /\ projected[p[1]][p[2]] = LastRow(j, role)

LEMMA MappingIsTheOne ==
  ASSUME NEW j \in Jobs, NEW m \in MappingsFor(j)
  PROVE  m \in Adapters /\ m = CHOOSE x \in MappingsFor(j) : TRUE
<1> DEFINE c == CHOOSE x \in MappingsFor(j) : TRUE
<1>1. c \in MappingsFor(j)
  OBVIOUS
<1> HIDE DEF c
<1>2. /\ m \in Adapters /\ m.adapter = j.adapter /\ m.phase = j.phase
      /\ m.operator = j.evaluation.operator
      /\ c \in Adapters /\ c.adapter = j.adapter /\ c.phase = j.phase
      /\ c.operator = j.evaluation.operator
  BY <1>1 DEF MappingsFor
<1>3. m = c
  BY <1>2, ModelProjectionAssumption
<1> QED
  BY <1>2, <1>3 DEF c

LEMMA PlacesOfRows ==
  ASSUME NEW key, NEW a, NEW role, NEW p
  PROVE  p \in Rows(key, a, role)
           <=> \E e \in Evaluations : \E i \in DOMAIN projected[e] :
                  /\ p = <<e, i>>
                  /\ KeyOf(e, projected[e][i]) = key
                  /\ projected[e][i].adapter = a.adapter
                  /\ projected[e][i].role = role
<1> DEFINE Places == UNION {{<<e, i>> : i \in DOMAIN projected[e]} : e \in Evaluations}
           Fits(e, i) == /\ KeyOf(e, projected[e][i]) = key
                         /\ projected[e][i].adapter = a.adapter
                         /\ projected[e][i].role = role
<1>1. p \in Rows(key, a, role) <=> p \in Places /\ Fits(p[1], p[2])
  BY Zenon DEF Rows
<1>2. p \in Places <=> \E e \in Evaluations : \E i \in DOMAIN projected[e] : p = <<e, i>>
  OBVIOUS
<1> HIDE DEF Places, Fits
<1>3. \A e, i : p = <<e, i>> => p[1] = e /\ p[2] = i
  OBVIOUS
<1>4. p \in Rows(key, a, role)
        <=> \E e \in Evaluations : \E i \in DOMAIN projected[e] : p = <<e, i>> /\ Fits(e, i)
  BY <1>1, <1>2, <1>3
<1> QED
  BY <1>4, Zenon DEF Fits

(* The key of the last row of a job is that of its mapping and its evaluation.      *)
LEMMA KeyOfLastRow ==
  ASSUME ProjectionInv, NEW j \in Jobs, NEW role \in Roles, WasProjected(j),
         NEW m \in MappingsFor(j)
  PROVE  /\ KeyOf(j.evaluation, LastRow(j, role))
              = [projection |-> m.projection, phase |-> j.phase,
                 seed |-> IF j.result \in finished[j.evaluation] THEN j.seed ELSE "unknown",
                 id |-> j.evaluation.id]
         /\ LastRow(j, role).adapter = j.adapter
         /\ LastRow(j, role).role = role
         /\ LastRow(j, role).result = j.result
         /\ LastRow(j, role).status = outcomes[j].status
         /\ LastRow(j, role).time = outcomes[j].time[role] * m.instances
<1> DEFINE row == LastRow(j, role)
           c == CHOOSE x \in MappingsFor(j) : TRUE
<1>1. m = c
  BY MappingIsTheOne
<1>2. /\ row.result = j.result /\ row.phase = j.phase /\ row.adapter = j.adapter
      /\ row.role = role /\ row.status = outcomes[j].status
      /\ row.projection = c.projection /\ row.time = outcomes[j].time[role] * c.instances
  BY DEF LastRow, ProjectedRow
<1> HIDE DEF row, c
<1>3. SeedOf(j.evaluation, row)
        = IF j.result \in finished[j.evaluation] THEN j.seed ELSE "unknown"
  <2> DEFINE l == CHOOSE l \in Jobs : l.evaluation = j.evaluation /\ l.result = row.result
  <2>1. l \in Jobs /\ l.evaluation = j.evaluation /\ l.result = row.result
    BY <1>2
  <2> HIDE DEF l
  <2>2. l = j
    BY <1>2, <2>1, ModelProjectionAssumption
  <2> QED
    BY <1>2, <2>2 DEF SeedOf, l
<1> QED
  BY <1>1, <1>2, <1>3 DEF KeyOf, row

(* Everything that was executed for an adapter of a group has its row there, ...    *)
LEMMA ExecutedHaveRows ==
  ASSUME ProjectionInv, NEW key \in GroupKeys, NEW a \in Expected(key), NEW role \in Roles,
         NEW j \in Executed(key, a)
  PROVE  \E p \in Rows(key, a, role) : Holds(p, j, role)
<1>1. /\ j \in Jobs /\ WasProjected(j) /\ a \in MappingsFor(j) /\ j.evaluation.id = key.id
      /\ key.seed = IF j.result \in finished[j.evaluation] THEN j.seed ELSE "unknown"
  BY DEF Executed, WasProjected
<1>2. a.projection = key.projection /\ a.phase = key.phase
  BY DEF Expected
<1>3. a.adapter = j.adapter /\ a.phase = j.phase
  BY <1>1 DEF MappingsFor
<1> DEFINE e == j.evaluation
<1>4. e \in Evaluations /\ projected[e] \in Seq(ProjectedRows)
  BY <1>1, ModelProjectionAssumption DEF ProjectionInv, ProjectionFits
<1>5. PICK i \in 1..Len(projected[e]) : projected[e][i] = LastRow(j, role)
  BY <1>1 DEF ProjectionInv, RowsAreThere
<1> HIDE DEF e
<1>6. i \in DOMAIN projected[e]
  BY <1>4, <1>5, SeqFacts
<1>7. key = [projection |-> key.projection, phase |-> key.phase, seed |-> key.seed, id |-> key.id]
  BY DEF GroupKeys, KeyOf
<1>8. /\ KeyOf(e, LastRow(j, role))
           = [projection |-> a.projection, phase |-> j.phase,
              seed |-> IF j.result \in finished[e] THEN j.seed ELSE "unknown", id |-> e.id]
      /\ LastRow(j, role).adapter = j.adapter /\ LastRow(j, role).role = role
  BY <1>1, KeyOfLastRow DEF e
<1>9. KeyOf(e, projected[e][i]) = key
  <2>1. /\ key.seed = IF j.result \in finished[e] THEN j.seed ELSE "unknown"
        /\ e.id = key.id
    BY <1>1 DEF e
  <2>2. a.projection = key.projection /\ j.phase = key.phase
    BY <1>2, <1>3
  <2> QED
    BY <1>5, <1>7, <1>8, <2>1, <2>2
<1>10. projected[e][i].adapter = a.adapter /\ projected[e][i].role = role
  BY <1>3, <1>5, <1>8
<1> DEFINE p == <<e, i>>
<1>11. p \in Rows(key, a, role)
  BY <1>4, <1>6, <1>9, <1>10, PlacesOfRows
<1>12. Holds(p, j, role)
  BY <1>5 DEF Holds, e
<1> QED
  BY <1>11, <1>12

(* ... and every row there is of something executed.                            *)
LEMMA RowsAreExecuted ==
  ASSUME ProjectionInv, NEW key \in GroupKeys, NEW a \in Expected(key), NEW role \in Roles,
         NEW p \in Rows(key, a, role)
  PROVE  /\ \E j \in Executed(key, a) : Holds(p, j, role)
         /\ \E e \in Evaluations : \E i \in 1..Len(projected[e]) : p = <<e, i>>
<1>1. PICK e \in Evaluations : \E i \in DOMAIN projected[e] :
         /\ p = <<e, i>>
         /\ KeyOf(e, projected[e][i]) = key
         /\ projected[e][i].adapter = a.adapter
         /\ projected[e][i].role = role
  BY PlacesOfRows
<1>2. PICK i \in DOMAIN projected[e] :
         /\ p = <<e, i>>
         /\ KeyOf(e, projected[e][i]) = key
         /\ projected[e][i].adapter = a.adapter
         /\ projected[e][i].role = role
  BY <1>1
<1>3. i \in 1..Len(projected[e])
  <2>1. projected[e] \in Seq(ProjectedRows)
    BY DEF ProjectionInv, ProjectionFits
  <2> QED
    BY <2>1, <1>2, SeqFacts
<1>4. PICK j \in Jobs, r \in Roles :
         j.evaluation = e /\ WasProjected(j) /\ projected[e][i] = LastRow(j, r)
  BY <1>3 DEF ProjectionInv, RowsAreLast
<1>5. PICK m \in MappingsFor(j) : TRUE
  BY <1>4 DEF ProjectionInv, ProjectedAreMapped
<1>6. /\ KeyOf(e, LastRow(j, r))
           = [projection |-> m.projection, phase |-> j.phase,
              seed |-> IF j.result \in finished[e] THEN j.seed ELSE "unknown", id |-> e.id]
      /\ LastRow(j, r).adapter = j.adapter /\ LastRow(j, r).role = r
  BY <1>4, <1>5, KeyOfLastRow
<1>7. r = role /\ j.adapter = a.adapter
  BY <1>2, <1>4, <1>6
<1>8. /\ key.projection = m.projection /\ key.phase = j.phase /\ key.id = e.id
      /\ key.seed = IF j.result \in finished[e] THEN j.seed ELSE "unknown"
  BY <1>2, <1>4, <1>6
<1>9. a = m
  <2>1. /\ m \in Adapters /\ m.adapter = j.adapter /\ m.phase = j.phase
    BY <1>5 DEF MappingsFor
  <2>2. a \in Adapters /\ a.projection = key.projection /\ a.phase = key.phase
    BY DEF Expected
  <2> QED
    BY <2>1, <2>2, <1>7, <1>8, ModelProjectionAssumption
<1>10. j \in Executed(key, a)
  BY <1>4, <1>5, <1>8, <1>9 DEF Executed, WasProjected
<1>11. Holds(p, j, role)
  BY <1>2, <1>4, <1>7 DEF Holds
<1> QED
  BY <1>2, <1>3, <1>10, <1>11

LEMMA PlacesAreSingle ==
  ASSUME ProjectionInv, NEW key \in GroupKeys, NEW a \in Expected(key), NEW role \in Roles,
         NEW p \in Rows(key, a, role), NEW q \in Rows(key, a, role), NEW j \in Jobs,
         Holds(p, j, role), Holds(q, j, role)
  PROVE  p = q
<1>1. PICK e \in Evaluations : \E i \in 1..Len(projected[e]) : p = <<e, i>>
  BY RowsAreExecuted
<1>2. PICK i \in 1..Len(projected[e]) : p = <<e, i>>
  BY <1>1
<1>3. PICK f \in Evaluations : \E k \in 1..Len(projected[f]) : q = <<f, k>>
  BY RowsAreExecuted
<1>4. PICK k \in 1..Len(projected[f]) : q = <<f, k>>
  BY <1>3
<1>5. /\ e = j.evaluation /\ f = j.evaluation
      /\ projected[e][i] = LastRow(j, role) /\ projected[f][k] = LastRow(j, role)
  BY <1>2, <1>4 DEF Holds
<1>6. i = k
  BY <1>5, Zenon DEF ProjectionInv, RowsAreSingle
<1> QED
  BY <1>2, <1>4, <1>5, <1>6

LEMMA JobsAreSingle ==
  ASSUME NEW p, NEW role, NEW j \in Jobs, NEW l \in Jobs,
         Holds(p, j, role), Holds(p, l, role)
  PROVE  j = l
<1>1. j.evaluation = l.evaluation /\ LastRow(j, role) = LastRow(l, role)
  BY DEF Holds
<1>2. LastRow(j, role).result = j.result /\ LastRow(l, role).result = l.result
  BY DEF LastRow, ProjectedRow
<1> QED
  BY <1>1, <1>2, ModelProjectionAssumption

(* So there are as many rows as executions.                                    *)
LEMMA RowsAreCounted ==
  ASSUME ProjectionInv, NEW key \in GroupKeys, NEW a \in Expected(key), NEW role \in Roles
  PROVE  /\ IsFiniteSet(Executed(key, a))
         /\ Cardinality(Rows(key, a, role)) = Cardinality(Executed(key, a))
<1> DEFINE S == Executed(key, a)
           T == Rows(key, a, role)
           place == [j \in S |-> CHOOSE p \in T : Holds(p, j, role)]
<1>1. IsFiniteSet(S)
  <2>1. S \in SUBSET Jobs
    BY DEF Executed
  <2> QED
    BY <2>1, FS_Subset, ModelProjectionAssumption
<1>2. ASSUME NEW j \in S PROVE j \in Jobs /\ place[j] \in T /\ Holds(place[j], j, role)
  <2>1. j \in Jobs
    BY DEF Executed
  <2>2. \E p \in T : Holds(p, j, role)
    BY ExecutedHaveRows
  <2> HIDE DEF S, T
  <2> QED
    BY <2>1, <2>2
<1>3. \A j, l \in S : place[j] = place[l] => j = l
  <2> HIDE DEF place, S, T
  <2> TAKE j, l \in S
  <2> HAVE place[j] = place[l]
  <2> QED
    BY <1>2, JobsAreSingle
<1>4. ASSUME NEW p \in T PROVE \E j \in S : place[j] = p
  <2>1. PICK j \in S : Holds(p, j, role)
    BY RowsAreExecuted
  <2>2. j \in Jobs /\ place[j] \in T /\ Holds(place[j], j, role)
    BY <1>2
  <2> HIDE DEF place
  <2>3. place[j] = p
    BY <2>1, <2>2, PlacesAreSingle
  <2> QED
    BY <2>3
<1>5. place \in [S -> T]
  BY <1>2
<1>6. ExistsBijection(S, T)
  <2> HIDE DEF place, S, T
  <2>1. place \in Bijection(S, T)
    BY <1>3, <1>4, <1>5 DEF Bijection, Injection, Surjection, IsInjective
  <2> QED
    BY <2>1 DEF ExistsBijection
<1> QED
  BY <1>1, <1>6, FS_Bijection

(* When one job was executed, the only row is the one it left last.               *)
LEMMA TheRowIsTheLast ==
  ASSUME ProjectionInv, NEW key \in GroupKeys, NEW a \in Expected(key), NEW role \in Roles,
         Executed(key, a) # {}, ~(Cardinality(Executed(key, a)) > 1)
  PROVE  \E j \in Jobs : /\ Executed(key, a) = {j}
                         /\ Cardinality(Rows(key, a, role)) = 1
                         /\ TheRow(key, a, role).status = outcomes[j].status
                         /\ TheRow(key, a, role).time = outcomes[j].time[role] * a.instances
<1> DEFINE S == Executed(key, a)
           T == Rows(key, a, role)
<1>1. IsFiniteSet(S) /\ Cardinality(T) = Cardinality(S)
  BY RowsAreCounted
<1>2. Cardinality(S) \in Nat /\ Cardinality(S) # 0
  BY <1>1, FS_CardinalityType, FS_EmptySet
<1>3. Cardinality(S) = 1
  BY <1>2
<1>4. PICK j : S = {j}
  BY <1>1, <1>3, FS_Singleton
<1>5. j \in Jobs /\ WasProjected(j) /\ a \in MappingsFor(j)
  BY <1>4 DEF Executed, WasProjected
<1>6. \E p \in T : Holds(p, j, role)
  BY <1>4, ExecutedHaveRows
<1> DEFINE q == CHOOSE p \in T : TRUE
<1>7. q \in T
  BY <1>6
<1>8. TheRow(key, a, role) = projected[q[1]][q[2]]
  BY DEF TheRow
<1> HIDE DEF q
<1>9. PICK l \in S : Holds(q, l, role)
  BY <1>7, RowsAreExecuted
<1>10. TheRow(key, a, role) = LastRow(j, role)
  BY <1>4, <1>8, <1>9 DEF Holds
<1>11. /\ LastRow(j, role).status = outcomes[j].status
       /\ LastRow(j, role).time = outcomes[j].time[role] * a.instances
  BY <1>5, KeyOfLastRow
<1> QED
  BY <1>1, <1>3, <1>4, <1>5, <1>10, <1>11

(* What a summary says of a mapping is what its executions came to ...              *)
LEMMA StandingIsEarned ==
  ASSUME ProjectionInv, NEW key \in GroupKeys, NEW a \in Expected(key)
  PROVE  Standing(key, a) = Earned(key, a)
<1> DEFINE S == Executed(key, a)
           T == Rows(key, a, "candidate")
<1>0. "candidate" \in Roles
  BY DEF Roles
<1>1. Cardinality(T) = Cardinality(S)
  BY <1>0, RowsAreCounted
<1>2. T = {} <=> S = {}
  BY <1>0, ExecutedHaveRows, RowsAreExecuted
<1>3. CASE S = {}
  BY <1>2, <1>3 DEF Standing, Earned
<1>4. CASE S # {} /\ Cardinality(S) > 1
  <2>1. T # {} /\ Cardinality(T) > 1
    BY <1>1, <1>2, <1>4
  <2>2. Standing(key, a) = "ambiguous"
    BY <2>1 DEF Standing
  <2> QED
    BY <1>4, <2>2 DEF Earned
<1>5. CASE S # {} /\ ~(Cardinality(S) > 1)
  <2>1. PICK j \in Jobs : S = {j} /\ TheRow(key, a, "candidate").status = outcomes[j].status
    BY <1>0, <1>5, TheRowIsTheLast
  <2>2. T # {} /\ ~(Cardinality(T) > 1)
    BY <1>1, <1>2, <1>5
  <2> HIDE DEF T
  <2>3. Standing(key, a) = IF outcomes[j].status = "measured" THEN "counted" ELSE "unavailable"
    BY <2>1, <2>2 DEF Standing, T
  <2>4. Earned(key, a) = IF outcomes[j].status = "measured" THEN "counted" ELSE "unavailable"
    BY <1>5, <2>1 DEF Earned
  <2> QED
    BY <2>3, <2>4
<1> QED
  BY <1>3, <1>4, <1>5

(* ... and it adds up the same mappings for both roles ...                          *)
LEMMA CountedIsEarned ==
  ASSUME ProjectionInv, NEW key \in GroupKeys, NEW role \in Roles
  PROVE  CountedAdapters(key, role) = {a \in Expected(key) : Earned(key, a) = "counted"}
<1>1. ASSUME NEW a \in Expected(key)
      PROVE  CountsReference(key, a) <=> Earned(key, a) = "counted"
  <2>0. "reference" \in Roles
    BY DEF Roles
  <2>1. Standing(key, a) = Earned(key, a)
    BY StandingIsEarned
  <2>2. CASE Executed(key, a) = {} \/ Cardinality(Executed(key, a)) > 1
    <3>1. Earned(key, a) \in {"missing", "ambiguous"}
      BY <2>2 DEF Earned
    <3> QED
      BY <2>1, <3>1 DEF CountsReference
  <2>3. CASE Executed(key, a) # {} /\ ~(Cardinality(Executed(key, a)) > 1)
    <3>1. PICK j \in Jobs : /\ Executed(key, a) = {j}
                            /\ Cardinality(Rows(key, a, "reference")) = 1
                            /\ TheRow(key, a, "reference").status = outcomes[j].status
      BY <2>0, <2>3, TheRowIsTheLast
    <3>2. Earned(key, a) = IF outcomes[j].status = "measured" THEN "counted" ELSE "unavailable"
      BY <2>3, <3>1 DEF Earned
    <3> QED
      BY <2>1, <3>1, <3>2 DEF CountsReference
  <2> QED
    BY <2>2, <2>3
<1>2. ASSUME NEW a \in Expected(key)
      PROVE  Standing(key, a) = Earned(key, a)
  BY StandingIsEarned
<1> QED
  BY <1>1, <1>2 DEF CountedAdapters

(* ... with the times that were measured.                                       *)
LEMMA TotalIsEarned ==
  ASSUME ProjectionInv, NEW key \in GroupKeys, NEW role \in Roles
  PROVE  Total(key, role) = EarnedTotal(key, role)
<1> DEFINE C == CountedAdapters(key, role)
           D == {b \in Expected(key) : Earned(key, b) = "counted"}
           f == [a \in C |-> TheRow(key, a, role).time]
           g == [a \in D |-> EarnedTime(key, a, role)]
<1>1. C = D
  BY CountedIsEarned
<1>2. ASSUME NEW a \in D
      PROVE  TheRow(key, a, role).time = EarnedTime(key, a, role)
  <2>1. a \in Expected(key) /\ Earned(key, a) = "counted"
    OBVIOUS
  <2>2. Executed(key, a) # {} /\ ~(Cardinality(Executed(key, a)) > 1)
    BY <2>1 DEF Earned
  <2>3. PICK j \in Jobs : /\ Executed(key, a) = {j}
                          /\ TheRow(key, a, role).time = outcomes[j].time[role] * a.instances
    BY <2>1, <2>2, TheRowIsTheLast
  <2>4. (CHOOSE l \in Executed(key, a) : TRUE) = j
    BY <2>3
  <2> QED
    BY <2>3, <2>4 DEF EarnedTime
<1> HIDE DEF C, D
<1>3. f = g
  BY <1>1, <1>2
<1>4. Total(key, role) = SumFunction(f)
  BY DEF Total, C
<1>5. EarnedTotal(key, role) = SumFunction(g)
  BY DEF EarnedTotal, D
<1> QED
  BY <1>3, <1>4, <1>5

(* A summary, whenever it is taken, counts a mapping at most once and only when it  *)
(* was measured in one job, whose last execution it counts, and adds up the same    *)
(* mappings for the reference and the candidates (_projection_lines).             *)
THEOREM TotalsAreTheEarned == ProjectionSpec => []TotalsAreEarned
<1>1. ProjectionInv => TotalsAreEarned
  BY StandingIsEarned, TotalIsEarned DEF TotalsAreEarned
<1> QED
  BY <1>1, ProjectionInvariant, PTL

=============================================================================
