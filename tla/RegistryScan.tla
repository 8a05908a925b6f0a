----------------------------- MODULE RegistryScan -----------------------------
(***************************************************************************)
(* The registry (registry/filesystem.py, issues.py, validation.py): what a  *)
(* scan of operators/references and operators/candidates takes for valid,   *)
(* which issues it reports, and which of them a selected scope meets.       *)
(*                                                                         *)
(* A scan never stops at an issue, and what is wrong with a directory is     *)
(* abstracted to how far the scan gets with it.  The directory that holds the *)
(* candidates of an operator is there when one of them is, and is no symlink. *)
(***************************************************************************)
EXTENDS Integers, Sequences, SequencesExt

CONSTANTS
    OperatorOrder,   \* names of operator directories, as _directories sorts them
    CandidateOrder,  \* names of candidate directories, likewise
    Folded           \* casefold of a name

OperatorName == Range(OperatorOrder)
CandidateName == Range(CandidateOrder)

ASSUME RegistryScanAssumption ==
    /\ OperatorOrder \in Seq(OperatorName) /\ CandidateOrder \in Seq(CandidateName)
    /\ IsInjective(OperatorOrder)
    /\ IsInjective(CandidateOrder)
    /\ OperatorName \cup CandidateName \subseteq DOMAIN Folded

VARIABLES
    referenceDir,    \* the directory of each operator's reference
    candidateDir,    \* the directory of each candidate
    source           \* versions of the part of a directory that is hashed, and of
                     \* the part that is not

treeVars == <<referenceDir, candidateDir, source>>

-----------------------------------------------------------------------------
(* A directory is absent or good; the scan stops at it before its manifest is   *)
(* read (a symlink, a name that is no ID, a manifest that does not parse), or *)
(* finds a flaw later (no file at an entry point, no hash of its source); its *)
(* manifest declares the ID of another; or its entry point lies below build/   *)
(* or dist/, which the hash leaves out.                                      *)
DirState == {"absent", "good", "excluded", "stopped", "flawed", "declares other"}

Stays(state) == state \notin {"absent", "stopped"}
IsSound(state) == state \in {"good", "excluded"}

Position(order, name) == CHOOSE i \in DOMAIN order : order[i] = name

(* The ID a manifest declares.                                              *)
Declared(order, name, state) ==
    IF state # "declares other" THEN name
    ELSE order[IF Position(order, name) = Len(order) THEN 1 ELSE Position(order, name) + 1]

(* declared_references and declared_candidates: the first to declare an ID has   *)
(* it, whatever its directory is called.                                    *)
IsDuplicate(order, dir, name) ==
    \E i \in 1..(Position(order, name) - 1) :
        /\ Stays(dir[order[i]]) /\ Stays(dir[name])
        /\ Declared(order, order[i], dir[order[i]]) = Declared(order, name, dir[name])

(* _directories of the roots of references, of candidates, and of one operator's *)
(* candidates.                                                               *)
Present(o) == {c \in CandidateName : candidateDir[o][c] # "absent"}
HasCandidates(o) == Present(o) # {}

PresentReferences == {o \in OperatorName : referenceDir[o] # "absent"}
CandidateRoots == {o \in OperatorName : HasCandidates(o)}

(* _case_collisions: two directories a file system that ignores case mixes up.  *)
HasTwin(name, names) == name \in names /\ \E d \in names \ {name} : Folded[d] = Folded[name]

(* discover: the first loop.                                                *)
ReferenceHasIssue(o) ==
    /\ referenceDir[o] # "absent"
    /\ ~IsSound(referenceDir[o]) \/ IsDuplicate(OperatorOrder, referenceDir, o)

References == {o \in OperatorName : referenceDir[o] # "absent" /\ ~ReferenceHasIssue(o)}

(* discover: the second loop.                                               *)
CandidateIsWrong(o, c) ==
    ~IsSound(candidateDir[o][c]) \/ IsDuplicate(CandidateOrder, candidateDir[o], c)

Candidates(o) ==
    {c \in CandidateName :
        o \in References /\ candidateDir[o][c] # "absent" /\ ~CandidateIsWrong(o, c)}

Discovered == PresentReferences \cup CandidateRoots

-----------------------------------------------------------------------------
(* selected_registry_issues.  An issue is owned by the directory its path lies   *)
(* in; an operator without a valid reference is an issue of its own, and so is  *)
(* a collision, which leaves both directories in the registry.               *)
OperatorHasIssue(o) ==
    \/ ReferenceHasIssue(o)
    \/ HasTwin(o, PresentReferences) \/ HasTwin(o, CandidateRoots)
    \/ HasCandidates(o) /\ o \notin References

CandidateHasIssue(o, c) ==
    c \in Present(o) /\ (CandidateIsWrong(o, c) \/ HasTwin(c, Present(o)))

(* The candidate patterns are names here; none select every candidate.          *)
SelectedHaveIssues(operators, patterns) ==
    \E o \in operators :
        \/ OperatorHasIssue(o)
        \/ \E c \in CandidateName :
              CandidateHasIssue(o, c) /\ (patterns = {} \/ c \in patterns)

-----------------------------------------------------------------------------
Reference == "reference"
Implementation == CandidateName \cup {Reference}

StateOf(o, i) == IF i = Reference THEN referenceDir[o] ELSE candidateDir[o][i]

(* compute_source_hash of an implementation's directory: what lies below build/  *)
(* and dist/ is left out.                                                   *)
SourceHash(o, i) == source[o][i].hashed

(* What the entry point of an implementation runs.                            *)
RunningCode(o, i) ==
    IF StateOf(o, i) = "excluded" THEN source[o][i].excluded ELSE source[o][i].hashed

(* An edit of an implementation between two scans.                            *)
EditSource(o, i, part) ==
    /\ StateOf(o, i) # "absent"
    /\ source' = [source EXCEPT ![o][i][part] = @ + 1]
    /\ UNCHANGED <<referenceDir, candidateDir>>
=============================================================================
