------------------------------ MODULE TableRows ------------------------------
(***************************************************************************)
(* What the tables of reporting/csv_writer.py share: the rows a replacement  *)
(* of partitions leaves alone, in their order.                             *)
(***************************************************************************)
EXTENDS Integers, Sequences

(* The rows of a table that are kept, one for one and in the order of the table: *)
(* kept[n] is what is kept of the first n rows.                              *)
Keep(rows, wanted) ==
    LET kept[n \in 0..Len(rows)] ==
            IF n = 0 THEN <<>>
            ELSE IF rows[n] \in wanted THEN Append(kept[n - 1], rows[n])
            ELSE kept[n - 1]
    IN  kept[Len(rows)]
=============================================================================
