---------------------------- MODULE LegacyImport ----------------------------
(***************************************************************************)
(* convert_legacy_csv (reporting/legacy_import.py): one CSV of the legacy   *)
(* launcher becomes one result directory per operator.                     *)
(*                                                                         *)
(* The identities are hashes of the CSV, so every import of it aims at the  *)
(* same directories.  An import first looks at all of them, then writes the *)
(* missing ones under temporary names, and renames those into place at the  *)
(* end.  Nothing locks the results root: imports may overlap, and be killed *)
(* at any step.                                                            *)
(***************************************************************************)
EXTENDS Integers, FiniteSets

CONSTANTS
    Importer,      \* processes that import the CSV
    NOps,          \* its operators, in sorted order
    MaxImportFaults,\* bound: imports that are killed or meet a disk error
    MaxAlterations \* bound: imported directories a user edits

Op == 1..NOps

ASSUME LegacyImportAssumption ==
    /\ IsFiniteSet(Importer)
    /\ NOps \in Nat \ {0}
    /\ MaxImportFaults \in Nat
    /\ MaxAlterations \in Nat

VARIABLES
    rowsOf,     \* what the CSV holds of each operator
    target,     \* the result directory of each operator
    importer,   \* where each process is
    next,       \* the operator it is at
    missing,    \* the operators it found without a directory (targets)
    staged,     \* those whose temporary directory it recorded (staged)
    temporary,  \* its temporary directories as they are on disk
    leaked,     \* the temporary directories nobody will remove, and why
    importFaults,
    alterations

importVars == <<rowsOf, target, importer, next, missing, staged, temporary,
                leaked, importFaults, alterations>>

-----------------------------------------------------------------------------
(* Of an operator the CSV may hold rows _parse_csv refuses; rows of a        *)
(* candidate whose name a directory has in other case; an executed row with  *)
(* an error text, which _parse_csv accepts and no table stores; or good rows. *)
RowsOfOperator == {"unread", "refused", "colliding", "unstorable", "good"}
Phase == {"idle", "inspecting", "staging", "renaming", "done", "failed", "killed"}

ImportInit ==
    /\ rowsOf = [o \in Op |-> "unread"]
    /\ target = [o \in Op |-> "absent"]
    /\ importer = [i \in Importer |-> "idle"]
    /\ next = [i \in Importer |-> 1]
    /\ missing = [i \in Importer |-> {}]
    /\ staged = [i \in Importer |-> {}]
    /\ temporary = [i \in Importer |-> [o \in Op |-> "absent"]]
    /\ leaked = {}
    /\ importFaults = 0
    /\ alterations = 0

NoTemporary == [o \in Op |-> "absent"]

Leftovers(i) == {temporary[i][o] : o \in Op} \ {"absent"}

-----------------------------------------------------------------------------
(* _parse_csv and _stable_identities: all of the CSV or nothing.             *)
BeginImport(i) ==
    /\ importer[i] \in {"idle", "done", "failed", "killed"}
    /\ importer' = [importer EXCEPT ![i] =
                       IF \E o \in Op : rowsOf[o] = "refused" THEN "failed" ELSE "inspecting"]
    /\ next' = [next EXCEPT ![i] = 1]
    /\ missing' = [missing EXCEPT ![i] = {}]
    /\ UNCHANGED <<rowsOf, target, staged, temporary, leaked, importFaults, alterations>>

(* A mutant of Inspect: a directory that is there is an error.                *)
InspectFresh(i) ==
    LET o == next[i]
        bad == rowsOf[o] = "colliding" \/ target[o] # "absent"
    IN /\ importer[i] = "inspecting"
       /\ o <= NOps
       /\ importer' = [importer EXCEPT ![i] = IF bad THEN "failed" ELSE @]
       /\ next' = [next EXCEPT ![i] = IF bad THEN @ ELSE @ + 1]
       /\ missing' = [missing EXCEPT ![i] = IF ~bad THEN @ \cup {o} ELSE @]
       /\ UNCHANGED <<rowsOf, target, staged, temporary, leaked, importFaults, alterations>>

(* The first loop of convert_legacy_csv: _casefold_safe, and for a directory *)
(* that exists the hashes of its manifest (_validate_directory) and the files *)
(* the CSV should give, written to a directory that is removed again.         *)
Inspect(i) ==
    LET o == next[i]
        bad == rowsOf[o] = "colliding" \/ target[o] = "altered"
    IN /\ importer[i] = "inspecting"
       /\ o <= NOps
       /\ importer' = [importer EXCEPT ![i] = IF bad THEN "failed" ELSE @]
       /\ next' = [next EXCEPT ![i] = IF bad THEN @ ELSE @ + 1]
       /\ missing' = [missing EXCEPT ![i] =
                         IF ~bad /\ target[o] = "absent" THEN @ \cup {o} ELSE @]
       /\ UNCHANGED <<rowsOf, target, staged, temporary, leaked, importFaults, alterations>>

BeginStaging(i) ==
    /\ importer[i] = "inspecting"
    /\ next[i] = NOps + 1
    /\ importer' = [importer EXCEPT ![i] = "staging"]
    /\ next' = [next EXCEPT ![i] = 1]
    /\ UNCHANGED <<rowsOf, target, missing, staged, temporary, leaked, importFaults,
                   alterations>>

(* The operator a loop over missing operators is at.                         *)
IsAt(i, o) == o \in missing[i] /\ next[i] <= o /\ \A p \in missing[i] : p < o => p < next[i]

(* _write_directory: mkdir, then the tables one by one, the manifest last.    *)
WriteDirectory(i, o) ==
    /\ importer[i] = "staging"
    /\ IsAt(i, o)
    /\ temporary[i][o] = "absent"
    /\ temporary' = [temporary EXCEPT ![i][o] = "partial"]
    /\ UNCHANGED <<rowsOf, target, importer, next, missing, staged, leaked, importFaults,
                   alterations>>

(* A mutant of StageDirectory: the directory is written where it will be.     *)
StageInPlace(i, o) ==
    /\ importer[i] = "staging"
    /\ IsAt(i, o)
    /\ temporary[i][o] = "partial"
    /\ rowsOf[o] # "unstorable"
    /\ target[o] = "absent"
    /\ target' = [target EXCEPT ![o] = "whole"]
    /\ temporary' = [temporary EXCEPT ![i][o] = "whole"]
    /\ staged' = [staged EXCEPT ![i] = @ \cup {o}]
    /\ next' = [next EXCEPT ![i] = o + 1]
    /\ UNCHANGED <<rowsOf, importer, missing, leaked, importFaults, alterations>>

(* The directory is whole and validates: staged.append.                      *)
StageDirectory(i, o) ==
    /\ importer[i] = "staging"
    /\ IsAt(i, o)
    /\ temporary[i][o] = "partial"
    /\ rowsOf[o] # "unstorable"
    /\ temporary' = [temporary EXCEPT ![i][o] = "whole"]
    /\ staged' = [staged EXCEPT ![i] = @ \cup {o}]
    /\ next' = [next EXCEPT ![i] = o + 1]
    /\ UNCHANGED <<rowsOf, target, importer, missing, leaked, importFaults, alterations>>

(* The except clause removes what was staged.  A directory that is still      *)
(* being written is not staged yet, and stays.                               *)
CleansUp(i) ==
    LET rest == [o \in Op |-> IF o \in staged[i] THEN "absent" ELSE temporary[i][o]]
    IN /\ importer' = [importer EXCEPT ![i] = "failed"]
       /\ leaked' = leaked \cup {<<rest[o], "failed">> : o \in {p \in Op : rest[p] # "absent"}}
       /\ temporary' = [temporary EXCEPT ![i] = NoTemporary]
       /\ staged' = [staged EXCEPT ![i] = {}]

(* The table refuses a row, or the disk a file: an exception within the try  *)
(* block.                                                                   *)
FailStaging(i, o) ==
    /\ importer[i] = "staging"
    /\ IsAt(i, o)
    /\ temporary[i][o] = "partial"
    /\ \/ rowsOf[o] = "unstorable" /\ UNCHANGED importFaults
       \/ importFaults < MaxImportFaults /\ importFaults' = importFaults + 1
    /\ CleansUp(i)
    /\ UNCHANGED <<rowsOf, target, next, missing, alterations>>

BeginRenaming(i) ==
    /\ importer[i] = "staging"
    /\ \A o \in missing[i] : o < next[i]
    /\ importer' = [importer EXCEPT ![i] = "renaming"]
    /\ next' = [next EXCEPT ![i] = 1]
    /\ UNCHANGED <<rowsOf, target, missing, staged, temporary, leaked, importFaults,
                   alterations>>

(* A mutant of Rename: it replaces a directory that appeared meanwhile.       *)
RenameOver(i, o) ==
    /\ importer[i] = "renaming"
    /\ IsAt(i, o)
    /\ target' = [target EXCEPT ![o] = temporary[i][o]]
    /\ temporary' = [temporary EXCEPT ![i][o] = "absent"]
    /\ next' = [next EXCEPT ![i] = o + 1]
    /\ UNCHANGED <<rowsOf, importer, missing, staged, leaked, importFaults, alterations>>

(* replace_directory onto a free name.                                       *)
Rename(i, o) ==
    /\ importer[i] = "renaming"
    /\ IsAt(i, o)
    /\ target[o] = "absent"
    /\ target' = [target EXCEPT ![o] = temporary[i][o]]
    /\ temporary' = [temporary EXCEPT ![i][o] = "absent"]
    /\ next' = [next EXCEPT ![i] = o + 1]
    /\ UNCHANGED <<rowsOf, importer, missing, staged, leaked, importFaults, alterations>>

(* A directory that is not empty cannot be replaced: OSError.                *)
FailRename(i, o) ==
    /\ importer[i] = "renaming"
    /\ IsAt(i, o)
    /\ target[o] # "absent"
    /\ CleansUp(i)
    /\ UNCHANGED <<rowsOf, target, next, missing, importFaults, alterations>>

(* The report is returned.                                                  *)
FinishImport(i) ==
    /\ importer[i] = "renaming"
    /\ \A o \in missing[i] : o < next[i]
    /\ importer' = [importer EXCEPT ![i] = "done"]
    /\ staged' = [staged EXCEPT ![i] = {}]
    /\ UNCHANGED <<rowsOf, target, next, missing, temporary, leaked, importFaults, alterations>>

KillImport(i) ==
    /\ importFaults < MaxImportFaults
    /\ importer[i] \in {"inspecting", "staging", "renaming"}
    /\ importFaults' = importFaults + 1
    /\ importer' = [importer EXCEPT ![i] = "killed"]
    /\ leaked' = leaked \cup {<<content, "killed">> : content \in Leftovers(i)}
    /\ temporary' = [temporary EXCEPT ![i] = NoTemporary]
    /\ staged' = [staged EXCEPT ![i] = {}]
    /\ UNCHANGED <<rowsOf, target, next, missing, alterations>>

(* The CSV is given: it does not change while it is imported.                *)
GiveCsv ==
    /\ rowsOf = [o \in Op |-> "unread"]
    /\ rowsOf' \in [Op -> RowsOfOperator \ {"unread"}]
    /\ UNCHANGED <<target, importer, next, missing, staged, temporary, leaked, importFaults,
                   alterations>>

(* A user edits an imported directory.                                       *)
Alter(o) ==
    /\ alterations < MaxAlterations
    /\ target[o] = "whole"
    /\ alterations' = alterations + 1
    /\ target' = [target EXCEPT ![o] = "altered"]
    /\ UNCHANGED <<rowsOf, importer, next, missing, staged, temporary, leaked, importFaults>>

Proceed(i) ==
    \/ Inspect(i)
    \/ BeginStaging(i)
    \/ \E o \in Op : WriteDirectory(i, o) \/ StageDirectory(i, o) \/ FailStaging(i, o)
    \/ BeginRenaming(i)
    \/ \E o \in Op : Rename(i, o) \/ FailRename(i, o)
    \/ FinishImport(i)

CsvIsGiven == \A o \in Op : rowsOf[o] # "unread"

ImportNext ==
    \/ GiveCsv
    \/ CsvIsGiven /\ \E i \in Importer : BeginImport(i) \/ Proceed(i) \/ KillImport(i)
    \/ \E o \in Op : Alter(o)

BeginAgain(i) == importer[i] # "done" /\ BeginImport(i)

(* A process that is not killed runs on, and a user imports again until it is *)
(* done.                                                                    *)
ImportFairness ==
    \A i \in Importer :
        /\ WF_importVars(CsvIsGiven /\ Proceed(i))
        /\ WF_importVars(CsvIsGiven /\ BeginAgain(i))

ImportSpec == ImportInit /\ [][ImportNext]_importVars /\ ImportFairness

-----------------------------------------------------------------------------
(* Every variable has its type.                                             *)
ImportTypeOK ==
    /\ rowsOf \in [Op -> RowsOfOperator]
    /\ target \in [Op -> {"absent", "whole", "altered"}]
    /\ importer \in [Importer -> Phase]
    /\ next \in [Importer -> 1..(NOps + 1)]
    /\ missing \in [Importer -> SUBSET Op]
    /\ staged \in [Importer -> SUBSET Op]
    /\ temporary \in [Importer -> [Op -> {"absent", "partial", "whole"}]]
    /\ leaked \subseteq {"partial", "whole"} \X {"failed", "killed"}
    /\ importFaults \in 0..MaxImportFaults
    /\ alterations \in 0..MaxAlterations

(* A CSV with anything wrong in it, wherever it is, exposes nothing: all of    *)
(* it is staged before the first directory gets its name.                    *)
RefusedExposesNothing ==
    (\E o \in Op : rowsOf[o] # "good") => \A o \in Op : target[o] = "absent"

(* Whatever imports overlap and wherever they are killed, the directories     *)
(* appear in the order of the operators: an import that is under way has      *)
(* exposed an initial part of its CSV, never an arbitrary one.               *)
ExposedInOrder ==
    \A o \in Op : target[o] # "absent" => \A p \in 1..o : target[p] # "absent"

(* An import that returns leaves every directory of its report in place and   *)
(* no temporary directory; one that fails leaves at most the directory it was *)
(* writing, and never one of those it had staged.                            *)
ImportCleansUp ==
    /\ \A i \in Importer :
          importer[i] = "done" =>
              Leftovers(i) = {} /\ \A o \in Op : target[o] # "absent"
    /\ <<"whole", "failed">> \notin leaked

(* A CSV that is refused exposes nothing, one that is accepted exposes its     *)
(* directories in order, and what an import leaves behind is as said above.   *)
ImportIsOrderly == RefusedExposesNothing /\ ExposedInOrder /\ ImportCleansUp

(* No import changes a directory that is in place: not one of another import  *)
(* of the CSV, nor one that a user has edited.                               *)
ImportedIsKept ==
    [][\A o \in Op : target[o] # "absent" =>
          target'[o] = target[o] \/ alterations' # alterations]_importVars

(* Importing again converges: of a good CSV whose directories nobody edits     *)
(* every directory is eventually in place, whichever imports are killed or    *)
(* lose the race for a name.                                                *)
ImportConverges ==
    <>[](\/ \E o \in Op : rowsOf[o] # "good"
         \/ alterations > 0
         \/ \A o \in Op : target[o] = "whole")
=============================================================================
