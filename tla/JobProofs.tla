------------------------------ MODULE JobProofs ------------------------------
(***************************************************************************)
(* Proofs about the evaluation of one case, for any number of repeats and   *)
(* samples: no run sees inputs that were written to, a verdict speaks for   *)
(* every repeat, the samples are taken in step and in full, and what may be *)
(* ranked was judged correct and measured.  And about the timers, for any   *)
(* warm-up, any number of inner iterations and of samples, and a device     *)
(* however late: a sample is charged with its own calls and nothing else,   *)
(* and carries the name of its timer.  And about the comparators, for any    *)
(* finite values and scores below the codes of NaN and the infinities, and    *)
(* any range of codes: a verdict is one that its contract justifies.         *)
(***************************************************************************)
EXTENDS CaseEvaluation, SampleTiming, OperatorVerdicts, TLAPS, FiniteSetTheorems,
        SequenceTheorems, WellFoundedInduction

Output == {"right", "wrong", "nan"}
Verdict == {None, "pass", "fail", "nondeterministic"} \cup Raised
Unjudged == {"idle", "inputs", "reference", "candidate"}
Ended == {"answered", "recorded"}
JobSettings == [measures: BOOLEAN, optIn: BOOLEAN, repeats: RepeatCounts,
                samples: SampleCounts, timer: {"auto", "cuda_event"}]

-----------------------------------------------------------------------------
CaseTypes ==
    /\ step \in Unjudged \cup {"judged", "sampling"} \cup Ended
    /\ step # "idle" => jobConfig \in JobSettings
    /\ storage \in Seq(Nat)
    /\ outputs \in Seq(Output)
    /\ verdict \in Verdict
    /\ turn \in Nat
    /\ buckets \in [Role -> Seq(Nat)]

(* The bundles share no storage, and only those of runs that are over were     *)
(* written to: the next run gets the last one.                               *)
PristineInv ==
    /\ ~sawWritten
    /\ step \in {"idle", "inputs"} => storage = <<>> /\ dirtied = {} /\ outputs = <<>>
    /\ step = "reference" => dirtied = {} /\ outputs = <<>> /\ Len(storage) = 3
    /\ step = "candidate" =>
          /\ Len(storage) \in {Len(outputs) + 2, Len(outputs) + 3}
          /\ dirtied \subseteq {storage[b] : b \in 1..(Len(outputs) + 2)}
    /\ IsInjective(storage)

VerdictInv ==
    /\ step \notin Unjudged => verdict # None
    /\ VerdictCoversRepeats

(* How far the roles are apart after t turns.                                *)
StepsApart(t, r, c) ==
    \/ t % 4 \in {0, 2} /\ r = c
    \/ t % 4 = 1 /\ r = c + 1
    \/ t % 4 = 3 /\ c = r + 1

(* The turns that the k-th samples of the reference r and the candidate c had.  *)
Numbered(r, c) ==
    /\ \A k \in DOMAIN r : r[k] = IF k % 2 = 1 THEN 2 * k - 2 ELSE 2 * k - 1
    /\ \A k \in DOMAIN c : c[k] = IF k % 2 = 1 THEN 2 * k - 1 ELSE 2 * k - 2

(* The samples are numbered in the order they were taken, each once, and the   *)
(* two roles are never more than one sample apart.                           *)
BucketsInv ==
    /\ step \in Unjudged \cup {"judged"} => turn = 0 /\ buckets = NoBuckets
    /\ Range(buckets["reference"]) \cup Range(buckets["candidate"]) = 0..(Taken - 1)
    /\ step = "sampling" =>
          /\ MayMeasure
          /\ Taken = turn
          /\ Taken <= 2 * jobConfig.samples
    /\ \/ buckets = NoBuckets
       \/ StepsApart(turn, Len(buckets["reference"]), Len(buckets["candidate"]))
    /\ Numbered(buckets["reference"], buckets["candidate"])

(* What was measured was measured in full, of a job that measures; a formal   *)
(* measurement is a stable one, with one timer, of a candidate that passed.   *)
Measured ==
    /\ Taken = 2 * jobConfig.samples
    /\ HasMeasure(performance)
    /\ performance.formal =>
          /\ performance.status = "pass"
          /\ timers["reference"] = timers["candidate"]

PerformanceInv ==
    /\ step \in Ended =>
          \/ performance = Skipped
          \/ /\ MayMeasure
             /\ \/ Measured
                \/ \E status \in {"unsupported", "oom", "error", "interrupted"} :
                      performance = [status |-> status]
    /\ step # "recorded" => caseRow = NoRow
    /\ RankedIsEarned

CaseInv == CaseTypes /\ PristineInv /\ VerdictInv /\ BucketsInv /\ PerformanceInv

-----------------------------------------------------------------------------
LEMMA CaseInitInv == CaseInit => CaseInv
<1> SUFFICES ASSUME CaseInit PROVE CaseInv
  OBVIOUS
<1> USE DEF CaseInit
<1>1. CaseTypes
  BY DEF CaseTypes, Unjudged, Verdict, NoBuckets
<1>2. PristineInv
  BY DEF PristineInv, IsInjective
<1>3. VerdictInv
  BY DEF VerdictInv, Unjudged, VerdictCoversRepeats
<1>4. BucketsInv
  <2>1. buckets["reference"] = <<>> /\ buckets["candidate"] = <<>>
    BY DEF NoBuckets, Role
  <2>2. Range(<<>>) = {} /\ Numbered(<<>>, <<>>)
    BY DEF Range, Numbered
  <2> QED
    BY <2>1, <2>2 DEF BucketsInv, Taken
<1>5. PerformanceInv
  BY DEF PerformanceInv, Ended, RankedIsEarned, IsRow, NoRow
<1> QED
  BY <1>1, <1>2, <1>3, <1>4, <1>5 DEF CaseInv

-----------------------------------------------------------------------------
(* The schedule is R-C-C-R.                                                  *)
LEMMA OwnerOfTurn ==
  ASSUME turn \in Nat
  PROVE  /\ turn % 4 \in 0..3
         /\ Owner = IF turn % 4 \in {0, 3} THEN "reference" ELSE "candidate"
         /\ Owner \in Role
<1>1. turn % 4 \in 0..3
  OBVIOUS
<1>2. /\ Schedule[1] = "reference" /\ Schedule[2] = "candidate"
      /\ Schedule[3] = "candidate" /\ Schedule[4] = "reference"
  BY DEF Schedule
<1>3. turn % 4 = 0 \/ turn % 4 = 1 \/ turn % 4 = 2 \/ turn % 4 = 3
  BY <1>1
<1>4. Owner = IF turn % 4 \in {0, 3} THEN "reference" ELSE "candidate"
  BY <1>2, <1>3 DEF Owner
<1> QED
  BY <1>1, <1>4 DEF Role

(* A verdict ends the correctness stage and gives the bundles up.            *)
LEMMA JudgedTypes ==
  ASSUME CaseTypes, step # "idle", NEW status \in Verdict, Judged(status),
         outputs' = outputs
  PROVE  CaseTypes'
<1>1. storage' \in Seq(Nat) /\ step' = "judged" /\ verdict' \in Verdict
  BY DEF Judged
<1> QED
  BY <1>1 DEF CaseTypes, Judged, Unjudged

(* Every variable keeps its type.                                            *)
LEMMA CaseTypesStep ==
  ASSUME CaseTypes, CaseNext
  PROVE  CaseTypes'
<1>0. Raised \subseteq Verdict /\ {"pass", "fail", "nondeterministic"} \subseteq Verdict
  BY DEF Verdict
<1>1. CASE GiveCase
  BY <1>1 DEF GiveCase, CaseTypes, JobSettings, Unjudged
<1>2. CASE MakeInputs
  <2>1. ASSUME NEW r \in 1..2, NEW c \in 1..3, storage' = <<1, r, c>>, step' = "reference",
               UNCHANGED <<jobConfig, dirtied, verdict, timers, turn, buckets,
                           performance, caseRow, outputs>>
        PROVE  CaseTypes'
    BY <1>2, <2>1 DEF CaseTypes, Unjudged, MakeInputs
  <2>2. ASSUME NEW status \in Raised \cup {"error"}, Judged(status), outputs' = outputs
        PROVE  CaseTypes'
    BY <1>0, <1>2, <2>2, JudgedTypes DEF MakeInputs, Raised
  <2> QED
    BY <1>2, <2>1, <2>2 DEF MakeInputs
<1>3. CASE RunReference
  <2>1. CASE \E status \in Raised : Judged(status)
    BY <1>0, <1>3, <2>1, JudgedTypes DEF RunReference
  <2> QED
    BY <1>3, <2>1 DEF RunReference, CaseTypes, Unjudged
<1>4. CASE RunCandidate
  <2>1. CASE outputs' = outputs /\ \E status \in Raised : Judged(status)
    BY <1>0, <1>4, <2>1, JudgedTypes DEF RunCandidate
  <2>2. CASE \E output \in Output : outputs' = Append(outputs, output)
    BY <1>4, <2>2, <2>1 DEF RunCandidate, CaseTypes, Unjudged
  <2> QED
    BY <1>4, <2>1, <2>2 DEF RunCandidate, Output
<1>5. CASE CloneForRepeat
  <2>1. CASE Judged("error")
    BY <1>0, <1>5, <2>1, JudgedTypes DEF CloneForRepeat, Raised
  <2>2. ASSUME NEW s \in 1..(Len(storage) + 1), storage' = Append(storage, s)
        PROVE  storage' \in Seq(Nat)
    BY <2>2 DEF CaseTypes
  <2>3. CASE ~Judged("error")
    BY <1>5, <2>2, <2>3 DEF CloneForRepeat, CaseTypes, Unjudged
  <2> QED
    BY <2>1, <2>3
<1>6. CASE CompareOutputs
  BY <1>0, <1>6, JudgedTypes DEF CompareOutputs
<1>7. CASE SkipPerformance \/ Measure
  BY <1>7 DEF SkipPerformance, Measure, CaseTypes, Ended
<1>8. CASE PrepareTimers
  BY <1>8 DEF PrepareTimers, CaseTypes
<1>9. CASE MeasuringFails
  BY <1>9 DEF MeasuringFails, CaseTypes, NoBuckets, Ended
<1>10. CASE TakeTurn
  <2>1. Taken \in Nat /\ turn + 1 \in Nat /\ Owner \in Role
    BY OwnerOfTurn DEF CaseTypes, Taken, Role
  <2>2. buckets' \in [Role -> Seq(Nat)]
    BY <1>10, <2>1 DEF TakeTurn, CaseTypes
  <2> QED
    BY <1>10, <2>1, <2>2 DEF TakeTurn, CaseTypes
<1>11. ASSUME NEW policy \in {"fail", "allow"}, RecordCase(policy) PROVE CaseTypes'
  BY <1>11 DEF RecordCase, CaseTypes, Ended
<1> QED
  BY <1>1, <1>2, <1>3, <1>4, <1>5, <1>6, <1>7, <1>8, <1>9, <1>10, <1>11 DEF CaseNext

-----------------------------------------------------------------------------
(* Given up, the bundles are pristine.                                       *)
LEMMA JudgedIsPristine ==
  ASSUME NEW status, Judged(status), ~sawWritten, sawWritten' = sawWritten
  PROVE  PristineInv'
  BY DEF Judged, PristineInv, IsInjective

(* The bundles of a later stage are the ones that were given up.             *)
LEMMA LaterIsPristine ==
  ASSUME PristineInv, UNCHANGED <<storage, dirtied, sawWritten>>,
         step' \in {"sampling", "answered", "recorded"}
  PROVE  PristineInv'
  BY DEF PristineInv, IsInjective

(* assert_input_isolation holds of every bundle a run gets, and a run writes    *)
(* to its own.                                                              *)
LEMMA PristineStep ==
  ASSUME CaseTypes, PristineInv, CaseNext
  PROVE  PristineInv'
<1>1. CASE GiveCase
  BY <1>1 DEF GiveCase, PristineInv, IsInjective
<1>2. CASE MakeInputs
  <2>1. ASSUME NEW r \in 1..2, NEW c \in 1..3, ClonesAreIsolated(<<1, r, c>>),
               storage' = <<1, r, c>>, step' = "reference",
               UNCHANGED <<dirtied, sawWritten, outputs>>
        PROVE  PristineInv'
    <3>1. IsInjective(storage') /\ Len(storage') = 3
      BY <2>1 DEF ClonesAreIsolated, Isolated
    <3> QED
      BY <1>2, <2>1, <3>1 DEF MakeInputs, PristineInv, IsInjective
  <2> QED
    BY <1>2, <2>1, JudgedIsPristine DEF MakeInputs, PristineInv
<1>3. CASE RunReference
  <2>1. CASE RunsOn(2) /\ step' = "candidate" /\ UNCHANGED <<storage, outputs>>
    <3>1. ~sawWritten' /\ dirtied' \subseteq {storage[2]}
      BY <1>3, <2>1 DEF RunReference, PristineInv, RunsOn
    <3>2. dirtied' \subseteq {storage[b] : b \in 1..(Len(outputs) + 2)}
      BY <1>3, <3>1 DEF RunReference, PristineInv
    <3> QED
      BY <1>3, <2>1, <3>1, <3>2 DEF RunReference, PristineInv, IsInjective
  <2> QED
    BY <1>3, <2>1, JudgedIsPristine DEF RunReference, PristineInv
<1>4. CASE RunCandidate
  <2>1. ASSUME NEW output \in Output, outputs' = Append(outputs, output),
               RunsOn(Len(storage)), UNCHANGED <<step, storage>>
        PROVE  PristineInv'
    <3>1. /\ Len(outputs) \in Nat /\ Len(outputs') = Len(outputs) + 1
          /\ Len(storage) = Len(outputs) + 3
      BY <1>4, <2>1 DEF RunCandidate, CaseTypes
    <3>2. ASSUME NEW b \in 1..(Len(outputs) + 2) PROVE storage[b] # storage[Len(storage)]
      <4>1. b \in DOMAIN storage /\ Len(storage) \in DOMAIN storage /\ b # Len(storage)
        BY <3>1 DEF CaseTypes
      <4> QED
        BY <4>1 DEF PristineInv, IsInjective
    <3>3. storage[Len(storage)] \notin dirtied
      BY <1>4, <3>2 DEF RunCandidate, PristineInv
    <3>4. ~sawWritten'
      BY <2>1, <3>3 DEF PristineInv, RunsOn
    <3>5. dirtied' \subseteq {storage[b] : b \in 1..(Len(outputs') + 2)}
      <4>1. dirtied \subseteq {storage[b] : b \in 1..(Len(outputs) + 2)}
        BY <1>4 DEF RunCandidate, PristineInv
      <4>2. 1..(Len(outputs) + 2) \subseteq 1..(Len(outputs') + 2)
            /\ Len(storage) \in 1..(Len(outputs') + 2)
        BY <3>1
      <4> QED
        BY <2>1, <4>1, <4>2 DEF RunsOn
    <3> QED
      BY <1>4, <2>1, <3>1, <3>4, <3>5 DEF RunCandidate, PristineInv, IsInjective
  <2> QED
    BY <1>4, <2>1, JudgedIsPristine DEF RunCandidate, PristineInv, Output
<1>5. CASE CloneForRepeat
  <2>1. ASSUME NEW s \in 1..(Len(storage) + 1), ClonesAreIsolated(Append(storage, s)),
               storage' = Append(storage, s), UNCHANGED <<step, dirtied, outputs, sawWritten>>
        PROVE  PristineInv'
    <3>1. Len(outputs) \in Nat /\ Len(storage) = Len(outputs) + 2 /\ step = "candidate"
      BY <1>5 DEF CloneForRepeat, CaseTypes
    <3>2. IsInjective(storage')
      BY <2>1 DEF ClonesAreIsolated, Isolated
    <3>3. /\ Len(storage') = Len(outputs) + 3
          /\ \A b \in 1..(Len(outputs) + 2) : storage'[b] = storage[b]
      BY <2>1, <3>1 DEF CaseTypes
    <3>4. dirtied \subseteq {storage'[b] : b \in 1..(Len(outputs) + 2)}
      BY <3>1, <3>3 DEF PristineInv
    <3> QED
      BY <2>1, <3>1, <3>2, <3>3, <3>4 DEF PristineInv
  <2> QED
    BY <1>5, <2>1, JudgedIsPristine DEF CloneForRepeat, PristineInv
<1>6. CASE CompareOutputs
  BY <1>6, JudgedIsPristine DEF CompareOutputs, PristineInv
<1>7. CASE SkipPerformance \/ Measure \/ \E policy \in {"fail", "allow"} : RecordCase(policy)
  BY <1>7, LaterIsPristine DEF SkipPerformance, Measure, RecordCase
<1>8. CASE PrepareTimers
  BY <1>8 DEF PrepareTimers, PristineInv, IsInjective
<1>9. CASE MeasuringFails
  BY <1>9 DEF MeasuringFails, PristineInv, IsInjective
<1>10. CASE TakeTurn
  BY <1>10, LaterIsPristine DEF TakeTurn
<1> QED
  BY <1>1, <1>2, <1>3, <1>4, <1>5, <1>6, <1>7, <1>8, <1>9, <1>10 DEF CaseNext

-----------------------------------------------------------------------------
(* The outputs of a candidate are few enough to count.                       *)
LEMMA OutputsAreFinite == ASSUME CaseTypes PROVE IsFiniteSet(Range(outputs))
<1>1. IsFiniteSet({"right", "wrong", "nan"})
  <2>1. IsFiniteSet({"right"})
    BY FS_Singleton
  <2>2. IsFiniteSet({"right"} \cup {"wrong"})
    BY <2>1, FS_AddElement
  <2>3. IsFiniteSet(({"right"} \cup {"wrong"}) \cup {"nan"})
    BY ONLY <2>2, FS_AddElement
  <2>4. {"right", "wrong", "nan"} = ({"right"} \cup {"wrong"}) \cup {"nan"}
    OBVIOUS
  <2> QED
    BY <2>3, <2>4
<1>2. Range(outputs) \in SUBSET Output
  BY DEF CaseTypes, Range
<1> QED
  BY <1>1, <1>2, FS_Subset DEF Output

(* Without drift all repeats gave one output, which is not a NaN if there are   *)
(* several.                                                                  *)
LEMMA NoDriftIsOneOutput ==
  ASSUME CaseTypes, Len(outputs) # 0, ~HasDrift
  PROVE  Range(outputs) = {outputs[1]}
<1>1. \A i \in DOMAIN outputs : outputs[i] = outputs[1]
  <2>1. DOMAIN outputs = 1..Len(outputs) /\ Len(outputs) \in Nat
    BY DEF CaseTypes
  <2>2. ASSUME NEW i \in DOMAIN outputs, i # 1 PROVE outputs[i] = outputs[1]
    BY <2>1, <2>2 DEF HasDrift, Drifts
  <2> QED
    BY <2>2
<1>2. 1 \in DOMAIN outputs
  BY DEF CaseTypes
<1> QED
  BY <1>1, <1>2 DEF Range

LEMMA DriftShows ==
  ASSUME CaseTypes, HasDrift
  PROVE  Cardinality(Range(outputs)) > 1 \/ "nan" \in Range(outputs)
<1>1. PICK i \in 2..Len(outputs) : Drifts(outputs[1], outputs[i])
  BY DEF HasDrift
<1>2. {1, i} \subseteq DOMAIN outputs
  BY DEF CaseTypes
<1>3. outputs[1] \in Range(outputs) /\ outputs[i] \in Range(outputs)
  BY <1>2 DEF Range
<1>4. CASE outputs[1] = "nan"
  BY <1>3, <1>4
<1>5. CASE outputs[1] # outputs[i]
  <2>1. IsFiniteSet(Range(outputs))
    BY OutputsAreFinite
  <2>2. Cardinality(Range(outputs)) \in Nat
    BY <2>1, FS_CardinalityType
  <2>3. Cardinality(Range(outputs)) # 0
    BY <1>3, <2>1, FS_EmptySet
  <2>4. Cardinality(Range(outputs)) # 1
    BY <1>3, <1>5, <2>1, FS_Singleton
  <2> QED
    BY <2>2, <2>3, <2>4
<1> QED
  BY <1>1, <1>4, <1>5 DEF Drifts

(* A verdict that says nothing of the repeats.                               *)
LEMMA RaisedIsJudged ==
  ASSUME NEW status \in Raised \cup {"fail"}, Judged(status)
  PROVE  VerdictInv'
  BY DEF Judged, VerdictInv, VerdictCoversRepeats, Raised, None

LEMMA CompareOutputsStep ==
  ASSUME CaseTypes, CompareOutputs
  PROVE  VerdictInv'
<1>1. Len(outputs) # 0 /\ step' = "judged" /\ UNCHANGED <<outputs, jobConfig>>
  BY CaseEvaluationAssumption DEF CompareOutputs, CaseTypes, JobSettings, Judged
<1>2. CASE HasDrift /\ verdict' = "nondeterministic"
  BY <1>1, <1>2, DriftShows DEF VerdictInv, VerdictCoversRepeats, None
<1>3. CASE ~HasDrift /\ outputs[1] \in {"right", "nan"} /\ verdict' = "pass"
  <2>1. Range(outputs) = {outputs[1]}
    BY <1>1, <1>3, NoDriftIsOneOutput
  <2>2. Cardinality(Range(outputs)) = 1 /\ "wrong" \notin Range(outputs)
    BY <1>3, <2>1, FS_Singleton
  <2>3. Len(outputs') = jobConfig'.repeats
    BY <1>1 DEF CompareOutputs
  <2> QED
    BY <1>1, <1>3, <2>2, <2>3 DEF VerdictInv, VerdictCoversRepeats, None
<1>4. CASE \E status \in Raised \cup {"fail"} : Judged(status)
  BY <1>4, RaisedIsJudged
<1> QED
  BY <1>2, <1>3, <1>4 DEF CompareOutputs, Judged

(* A verdict is given once, and speaks for the outputs there are.             *)
LEMMA VerdictStep ==
  ASSUME CaseTypes, VerdictInv, CaseNext
  PROVE  VerdictInv'
<1>1. CASE GiveCase
  BY <1>1 DEF GiveCase, VerdictInv, VerdictCoversRepeats, Unjudged
<1>2. CASE MakeInputs
  BY <1>2, RaisedIsJudged DEF MakeInputs, VerdictInv, VerdictCoversRepeats, Unjudged, Raised
<1>3. CASE RunReference
  BY <1>3, RaisedIsJudged DEF RunReference, VerdictInv, VerdictCoversRepeats, Unjudged
<1>4. CASE RunCandidate
  BY <1>4, RaisedIsJudged DEF RunCandidate, VerdictInv, VerdictCoversRepeats, Unjudged
<1>5. CASE CloneForRepeat
  BY <1>5, RaisedIsJudged DEF CloneForRepeat, VerdictInv, VerdictCoversRepeats, Unjudged,
                              Raised
<1>6. CASE CompareOutputs
  BY <1>6, CompareOutputsStep
<1>7. CASE SkipPerformance \/ Measure \/ \E policy \in {"fail", "allow"} : RecordCase(policy)
  BY <1>7 DEF SkipPerformance, Measure, RecordCase, VerdictInv, VerdictCoversRepeats,
              Unjudged
<1>8. CASE PrepareTimers \/ MeasuringFails \/ TakeTurn
  BY <1>8 DEF PrepareTimers, MeasuringFails, TakeTurn, VerdictInv, VerdictCoversRepeats,
              Unjudged
<1> QED
  BY <1>1, <1>2, <1>3, <1>4, <1>5, <1>6, <1>7, <1>8 DEF CaseNext

-----------------------------------------------------------------------------
(* A job asks for some samples.                                              *)
LEMMA SamplesArePositive ==
  ASSUME CaseTypes, step # "idle"
  PROVE  jobConfig.samples \in Nat \ {0}
<1>1. jobConfig \in JobSettings
  BY DEF CaseTypes
<1>2. jobConfig.samples \in SampleCounts
  BY <1>1 DEF JobSettings
<1> QED
  BY <1>2, CaseEvaluationAssumption

(* A sample more of one role.                                                *)
LEMMA RangeOfAppend ==
  ASSUME NEW S, NEW s \in Seq(S), NEW x \in S
  PROVE  Range(Append(s, x)) = Range(s) \cup {x}
<1>1. /\ DOMAIN s = 1..Len(s) /\ Len(s) \in Nat
      /\ DOMAIN Append(s, x) = 1..(Len(s) + 1)
      /\ \A i \in 1..Len(s) : Append(s, x)[i] = s[i]
      /\ Append(s, x)[Len(s) + 1] = x
  OBVIOUS
<1>2. 1..(Len(s) + 1) = 1..Len(s) \cup {Len(s) + 1}
  BY <1>1
<1> QED
  BY <1>1, <1>2 DEF Range

(* Whose turn it is, and how far the roles are apart after it.                *)
LEMMA NextTurn ==
  ASSUME NEW t \in Nat, NEW r \in Nat, NEW c \in Nat, NEW n \in Nat,
         StepsApart(t, r, c), r + c < 2 * n
  PROVE  /\ t % 4 \in {0, 3} => r < n /\ StepsApart(t + 1, r + 1, c)
         /\ t % 4 \notin {0, 3} => c < n /\ StepsApart(t + 1, r, c + 1)
<1>1. t % 4 \in 0..3
  OBVIOUS
<1>2. (t + 1) % 4 = IF t % 4 = 3 THEN 0 ELSE (t % 4) + 1
  OBVIOUS
<1> DEFINE m == t % 4
           k == (t + 1) % 4
<1>3. m \in 0..3 /\ (k = IF m = 3 THEN 0 ELSE m + 1)
  BY <1>1, <1>2
<1>4. \/ m \in {0, 2} /\ r = c
      \/ m = 1 /\ r = c + 1
      \/ m = 3 /\ c = r + 1
  BY DEF StepsApart
<1> HIDE DEF m, k
<1>5. \/ m = 0 /\ k = 1 /\ r < n /\ r + 1 = c + 1
      \/ m = 1 /\ k = 2 /\ c < n /\ r = c + 1
      \/ m = 2 /\ k = 3 /\ c < n /\ c + 1 = r + 1
      \/ m = 3 /\ k = 0 /\ r < n /\ r + 1 = c
  <2>1. CASE m = 0
    BY <1>3, <1>4, <2>1
  <2>2. CASE m = 1
    BY <1>3, <1>4, <2>2
  <2>3. CASE m = 2
    BY <1>3, <1>4, <2>3
  <2>4. CASE m = 3
    BY <1>3, <1>4, <2>4
  <2> QED
    BY <1>3, <2>1, <2>2, <2>3, <2>4
<1> QED
  BY <1>5 DEF m, k, StepsApart

(* The k-th sample of a role has the turn that Numbered says.                 *)
LEMMA NumberedReference ==
  ASSUME NEW r \in Seq(Nat), NEW c \in Seq(Nat), Numbered(r, c), NEW t \in Nat,
         t = Len(r) + Len(c), StepsApart(t, Len(r), Len(c)), t % 4 \in {0, 3}
  PROVE  Numbered(Append(r, t), c)
<1> DEFINE k == Len(r) + 1
           l == Len(c)
<1>1. k \in Nat /\ l \in Nat /\ t = (k - 1) + l
  OBVIOUS
<1>2. \/ t % 4 = 0 /\ k = l + 1
      \/ t % 4 = 3 /\ k = l
  BY <1>1 DEF StepsApart
<1>3. t = IF k % 2 = 1 THEN 2 * k - 2 ELSE 2 * k - 1
  <2> HIDE DEF k, l
  <2> QED
    BY ONLY <1>1, <1>2, t \in Nat
<1>4. /\ DOMAIN Append(r, t) = DOMAIN r \cup {k}
      /\ \A n \in DOMAIN r : Append(r, t)[n] = r[n]
      /\ Append(r, t)[k] = t
  <2>1. DOMAIN r = 1..Len(r) /\ DOMAIN Append(r, t) = 1..(Len(r) + 1) /\ Len(r) \in Nat
    OBVIOUS
  <2> QED
    BY SMTT(30), <2>1
<1> HIDE DEF k, l
<1> QED
  BY <1>3, <1>4 DEF Numbered

LEMMA NumberedCandidate ==
  ASSUME NEW r \in Seq(Nat), NEW c \in Seq(Nat), Numbered(r, c), NEW t \in Nat,
         t = Len(r) + Len(c), StepsApart(t, Len(r), Len(c)), t % 4 \notin {0, 3}
  PROVE  Numbered(r, Append(c, t))
<1> DEFINE k == Len(c) + 1
           l == Len(r)
<1>1. k \in Nat /\ l \in Nat /\ t = (k - 1) + l
  OBVIOUS
<1>2. \/ t % 4 = 1 /\ l = k
      \/ t % 4 = 2 /\ k = l + 1
  BY <1>1 DEF StepsApart
<1>3. t = IF k % 2 = 1 THEN 2 * k - 1 ELSE 2 * k - 2
  <2> HIDE DEF k, l
  <2> QED
    BY ONLY <1>1, <1>2, t \in Nat
<1>4. /\ DOMAIN Append(c, t) = DOMAIN c \cup {k}
      /\ \A n \in DOMAIN c : Append(c, t)[n] = c[n]
      /\ Append(c, t)[k] = t
  <2>1. DOMAIN c = 1..Len(c) /\ DOMAIN Append(c, t) = 1..(Len(c) + 1) /\ Len(c) \in Nat
    OBVIOUS
  <2> QED
    BY <2>1
<1> HIDE DEF k, l
<1> QED
  BY <1>3, <1>4 DEF Numbered

LEMMA StillInStep ==
  ASSUME BucketsInv, step = "sampling", step' = step, UNCHANGED <<jobConfig, verdict>>,
         turn \in Nat, turn' = turn + 1, turn < 2 * jobConfig.samples,
         jobConfig.samples \in Nat, NEW r \in Nat, NEW c \in Nat, r + c = turn + 1,
         Len(buckets'["reference"]) = r, Len(buckets'["candidate"]) = c,
         Range(buckets'["reference"]) \cup Range(buckets'["candidate"]) = 0..turn,
         StepsApart(turn + 1, r, c), Numbered(buckets'["reference"], buckets'["candidate"])
  PROVE  BucketsInv'
<1>1. Taken' = turn + 1
  BY DEF Taken
<1>2. Taken' <= 2 * jobConfig'.samples /\ 0..(Taken' - 1) = 0..turn
  BY <1>1
<1> QED
  BY <1>1, <1>2 DEF BucketsInv, MayMeasure, Unjudged

(* The loops of sample: the role whose turn it is has room, and is not ahead.  *)
LEMMA TakeTurnStep ==
  ASSUME CaseTypes, BucketsInv, TakeTurn
  PROVE  BucketsInv'
<1> DEFINE R == Len(buckets["reference"])
           C == Len(buckets["candidate"])
           N == jobConfig.samples
<1>1. buckets["reference"] \in Seq(Nat) /\ buckets["candidate"] \in Seq(Nat)
  BY DEF CaseTypes, Role
<1>2. /\ step = "sampling" /\ step' = step /\ UNCHANGED <<jobConfig, verdict>>
      /\ turn' = turn + 1 /\ Taken = turn /\ R + C = turn /\ R + C < 2 * N
  BY DEF TakeTurn, BucketsInv, Taken
<1>3. R \in Nat /\ C \in Nat /\ turn \in Nat /\ N \in Nat
  <2>1. N \in Nat
    BY <1>2, SamplesArePositive
  <2>2. turn \in Nat
    BY DEF CaseTypes
  <2>3. R \in Nat /\ C \in Nat
    BY <1>1
  <2> QED
    BY <2>1, <2>2, <2>3
<1>4. StepsApart(turn, R, C)
  <2>1. CASE buckets = NoBuckets
    <3>1. R = 0 /\ C = 0
      BY <2>1 DEF NoBuckets, Role
    <3>2. turn = 0
      BY <1>2, <3>1
    <3> QED
      BY <3>1, <3>2 DEF StepsApart
  <2>2. CASE buckets # NoBuckets
    BY <2>2 DEF BucketsInv
  <2> QED
    BY <2>1, <2>2
<1>5. (Owner = IF turn % 4 \in {0, 3} THEN "reference" ELSE "candidate") /\ Owner \in Role
  BY <1>3, OwnerOfTurn
<1>6. /\ turn % 4 \in {0, 3} => R < N /\ StepsApart(turn + 1, R + 1, C)
      /\ turn % 4 \notin {0, 3} => C < N /\ StepsApart(turn + 1, R, C + 1)
  BY <1>2, <1>3, <1>4, NextTurn
<1>7. buckets' = [buckets EXCEPT ![Owner] = Append(@, turn)]
  BY <1>2, <1>5, <1>6 DEF TakeTurn
<1>8. Range(buckets["reference"]) \cup Range(buckets["candidate"]) = 0..(turn - 1)
  BY <1>2 DEF BucketsInv
<1>9. 0..(turn - 1) \cup {turn} = 0..turn
  BY <1>3
<1>10. /\ Range(Append(buckets["reference"], turn)) = Range(buckets["reference"]) \cup {turn}
       /\ Range(Append(buckets["candidate"], turn)) = Range(buckets["candidate"]) \cup {turn}
  BY <1>1, <1>3, RangeOfAppend
<1> DEFINE r == buckets["reference"]
           c == buckets["candidate"]
<1>11. Numbered(r, c)
  BY DEF BucketsInv
<1>12. CASE turn % 4 \in {0, 3}
  <2>1. /\ buckets'["reference"] = Append(buckets["reference"], turn)
        /\ buckets'["candidate"] = buckets["candidate"]
    BY <1>5, <1>7, <1>12 DEF CaseTypes, Role
  <2>2. Len(buckets'["reference"]) = R + 1 /\ Len(buckets'["candidate"]) = C
    BY <1>1, <2>1
  <2>3. Range(buckets'["reference"]) \cup Range(buckets'["candidate"]) = 0..turn
    BY <1>8, <1>9, <1>10, <2>1
  <2>4. StepsApart(turn + 1, R + 1, C)
    BY <1>6, <1>12
  <2>5. R + 1 \in Nat /\ (R + 1) + C = turn + 1
    <3>1. R + C = turn /\ R \in Nat /\ C \in Nat
      BY <1>2, <1>3
    <3> HIDE DEF R, C
    <3> QED
      BY ONLY <3>1
  <2>6. Numbered(buckets'["reference"], buckets'["candidate"])
    BY <1>1, <1>2, <1>3, <1>4, <1>12, <1>11, <2>1, NumberedReference
  <2> QED
    BY <1>2, <1>3, <2>2, <2>3, <2>4, <2>5, <2>6, StillInStep
<1>13. CASE turn % 4 \notin {0, 3}
  <2>1. /\ buckets'["candidate"] = Append(buckets["candidate"], turn)
        /\ buckets'["reference"] = buckets["reference"]
    BY <1>5, <1>7, <1>13 DEF CaseTypes, Role
  <2>2. Len(buckets'["reference"]) = R /\ Len(buckets'["candidate"]) = C + 1
    BY <1>1, <2>1
  <2>3. Range(buckets'["reference"]) \cup Range(buckets'["candidate"]) = 0..turn
    BY <1>8, <1>9, <1>10, <2>1
  <2>4. StepsApart(turn + 1, R, C + 1)
    BY <1>6, <1>13
  <2>5. C + 1 \in Nat /\ R + (C + 1) = turn + 1
    <3>1. R + C = turn /\ R \in Nat /\ C \in Nat
      BY <1>2, <1>3
    <3> HIDE DEF R, C
    <3> QED
      BY ONLY <3>1
  <2>6. Numbered(buckets'["reference"], buckets'["candidate"])
    BY <1>1, <1>2, <1>3, <1>4, <1>13, <1>11, <2>1, NumberedCandidate
  <2> QED
    BY <1>2, <1>3, <2>2, <2>3, <2>4, <2>5, <2>6, StillInStep
<1> QED
  BY <1>12, <1>13

LEMMA BucketsStep ==
  ASSUME CaseTypes, BucketsInv, CaseNext
  PROVE  BucketsInv'
<1> DEFINE Correctness == Unjudged \cup {"judged"}
<1>1. CASE step \in Unjudged /\ step' \in Correctness /\ UNCHANGED <<turn, buckets>>
  BY <1>1 DEF BucketsInv, Taken, Unjudged, StepsApart
<1>2. CASE GiveCase \/ MakeInputs \/ RunReference \/ RunCandidate \/ CloneForRepeat
           \/ CompareOutputs
  <2>1. step \in Unjudged /\ step' \in Correctness /\ UNCHANGED <<turn, buckets>>
    BY <1>2 DEF GiveCase, MakeInputs, RunReference, RunCandidate, CloneForRepeat,
                CompareOutputs, Judged, Unjudged
  <2> QED
    BY <1>1, <2>1
<1>3. CASE SkipPerformance \/ Measure \/ \E policy \in {"fail", "allow"} : RecordCase(policy)
  <2>1. step' \in Ended /\ UNCHANGED <<turn, buckets>>
    BY <1>3 DEF SkipPerformance, Measure, RecordCase, Ended
  <2> QED
    BY <2>1 DEF BucketsInv, Taken, Unjudged, Ended, StepsApart
<1>4. CASE PrepareTimers
  <2>1. turn = 0 /\ Taken = 0
    BY <1>4 DEF PrepareTimers, BucketsInv, NoBuckets, Role, Taken
  <2>2. jobConfig.samples \in Nat \ {0}
    BY <1>4, SamplesArePositive DEF PrepareTimers
  <2>3. 0 <= 2 * jobConfig.samples
    BY <2>2
  <2> QED
    BY <1>4, <2>1, <2>3 DEF PrepareTimers, BucketsInv, Taken, MayMeasure, Unjudged, StepsApart
<1>5. CASE MeasuringFails
  <2>1. /\ buckets' = NoBuckets /\ step' = "answered"
        /\ buckets'["reference"] = <<>> /\ buckets'["candidate"] = <<>>
    BY <1>5 DEF MeasuringFails, NoBuckets, Role
  <2>2. Range(<<>>) = {} /\ Taken' = 0
    BY <2>1 DEF Range, Taken
  <2>3. 0..(Taken' - 1) = {} /\ Numbered(<<>>, <<>>)
    BY <2>2 DEF Numbered
  <2> QED
    BY <2>1, <2>2, <2>3 DEF BucketsInv, Unjudged
<1>6. CASE TakeTurn
  BY <1>6, TakeTurnStep
<1> QED
  BY <1>2, <1>3, <1>4, <1>5, <1>6 DEF CaseNext

(* Taken in full, the samples are what _append_result takes for complete.      *)
LEMMA FullIsComplete ==
  ASSUME CaseTypes, BucketsInv, step = "sampling", Taken = 2 * jobConfig.samples
  PROVE  SamplesAreComplete
<1> DEFINE R == Len(buckets["reference"])
           C == Len(buckets["candidate"])
           N == jobConfig.samples
<1>1. buckets["reference"] \in Seq(Nat) /\ buckets["candidate"] \in Seq(Nat)
  BY DEF CaseTypes, Role
<1>2. R \in Nat /\ C \in Nat
  BY <1>1
<1>3. N \in Nat /\ N # 0
  BY SamplesArePositive
<1>4. R + C = 2 * N /\ turn = 2 * N
  BY DEF Taken, BucketsInv
<1>5. buckets # NoBuckets
  <2>1. CASE buckets = NoBuckets
    <3>1. R = 0 /\ C = 0
      BY <2>1 DEF NoBuckets, Role
    <3> HIDE DEF R, C, N
    <3> QED
      BY <1>3, <1>4, <3>1
  <2> QED
    BY <2>1
<1>6. StepsApart(turn, R, C)
  BY <1>5 DEF BucketsInv
<1>7. R = C /\ R = N
  <2>1. R = C \/ R = C + 1 \/ C = R + 1
    BY <1>6 DEF StepsApart
  <2> HIDE DEF R, C, N
  <2> QED
    BY <1>2, <1>3, <1>4, <2>1
<1>8. \A r \in Role : buckets[r] # <<>>
  <2>1. R # 0 /\ C # 0
    BY <1>3, <1>7
  <2> QED
    BY <2>1 DEF Role
<1> QED
  BY <1>7, <1>8 DEF SamplesAreComplete, BucketsInv

-----------------------------------------------------------------------------
(* The gate: what is eligible was judged correct, measured with one timer,      *)
(* formally, and keeps every limit.                                          *)
LEMMA EligibleIsEarned ==
  ASSUME NEW perf, NEW policy, Gate(perf, policy).eligible
  PROVE  /\ verdict = "pass"
         /\ HasMeasure(perf)
         /\ Gate(perf, policy).status = "passed"
         /\ perf.formal
         /\ perf.status # "unstable"
         /\ timers["reference"] = timers["candidate"]
         /\ \A l \in perf.limits : perf.metrics[l] = "within"
<1>1. CASE perf.status = "skipped"
  BY <1>1 DEF Gate
<1>2. CASE perf.status # "skipped" /\ verdict # "pass"
  BY <1>2 DEF Gate
<1>3. CASE perf.status = "unsupported" /\ verdict = "pass"
  BY <1>3 DEF Gate
<1>4. CASE perf.status \notin {"skipped", "unsupported"} /\ verdict = "pass"
           /\ ~HasMeasure(perf)
  BY <1>4 DEF Gate
<1>5. CASE verdict = "pass" /\ HasMeasure(perf)
  BY <1>5 DEF Gate, HasMeasure, IsFailing
<1> QED
  BY <1>1, <1>2, <1>3, <1>4, <1>5

(* A measurement of a candidate that passed either passes the gate or fails.   *)
LEMMA GateDecides ==
  ASSUME NEW perf, NEW policy, verdict = "pass", HasMeasure(perf)
  PROVE  Gate(perf, policy).status \in {"passed", "failed"}
  BY DEF Gate, HasMeasure

(* Correctness dominates the status of a row.                                *)
LEMMA CorrectnessDominates ==
  ASSUME NEW perf, NEW gate
  PROVE  /\ verdict # "pass" => OverallStatus(perf, gate) = CorrectnessStatus
         /\ verdict = "pass" /\ HasMeasure(perf) =>
               OverallStatus(perf, gate) =
                  IF jobConfig.measures /\ gate.status = "failed" THEN "failed" ELSE "passed"
  BY DEF OverallStatus, HasMeasure

LEMMA FailureIsNoPass ==
  ASSUME verdict \in Verdict \ {None}, verdict # "pass"
  PROVE  CorrectnessStatus # "passed"
  BY DEF CorrectnessStatus, Verdict, Raised

LEMMA NoRowIsRanked == ASSUME caseRow = NoRow PROVE RankedIsEarned
  BY DEF RankedIsEarned, IsRow, NoRow

LEMMA RecordCaseStep ==
  ASSUME CaseTypes, VerdictInv, PerformanceInv, NEW policy \in {"fail", "allow"},
         RecordCase(policy)
  PROVE  RankedIsEarned'
<1> DEFINE perf == IF verdict = "pass" \/ jobConfig.optIn THEN performance ELSE Skipped
           gate == Gate(perf, policy)
<1>1. /\ step = "answered"
      /\ UNCHANGED <<jobConfig, verdict, timers, buckets, performance>>
      /\ \/ caseRow' = [status |-> "infrastructure"]
         \/ caseRow' = [status |-> OverallStatus(perf, gate), gate |-> gate,
                        samples |-> IF HasMeasure(perf) THEN Taken ELSE 0]
  BY DEF RecordCase
<1>2. CASE caseRow' = [status |-> "infrastructure"]
  BY <1>2 DEF RankedIsEarned, IsRow
<1>3. CASE caseRow' = [status |-> OverallStatus(perf, gate), gate |-> gate,
                       samples |-> IF HasMeasure(perf) THEN Taken ELSE 0]
  <2>1. verdict \in Verdict \ {None}
    BY <1>1 DEF CaseTypes, VerdictInv, Unjudged
  <2>2. HasMeasure(perf) => perf = performance /\ (verdict = "pass" \/ jobConfig.optIn)
    BY DEF HasMeasure, Skipped
  <2>3. HasMeasure(performance) => MayMeasure /\ Measured
    BY <1>1 DEF PerformanceInv, HasMeasure, Skipped, Ended
  <2>4. /\ caseRow'.status = OverallStatus(perf, gate)
        /\ caseRow'.gate = gate
        /\ caseRow'.samples = IF HasMeasure(perf) THEN Taken ELSE 0
    BY <1>3
  <2>5. ASSUME gate.eligible
        PROVE  /\ verdict = "pass" /\ OverallStatus(perf, gate) = "passed"
               /\ timers["reference"] = timers["candidate"]
               /\ caseRow'.samples = 2 * jobConfig.samples
               /\ performance.status = "pass"
               /\ \A l \in performance.limits : performance.metrics[l] = "within"
    <3>1. /\ verdict = "pass" /\ HasMeasure(perf) /\ gate.status = "passed"
          /\ perf.status # "unstable"
          /\ timers["reference"] = timers["candidate"]
          /\ \A l \in perf.limits : perf.metrics[l] = "within"
      BY <2>5, EligibleIsEarned
    <3>2. OverallStatus(perf, gate) = "passed"
      BY <3>1, CorrectnessDominates
    <3>3. perf = performance /\ Taken = 2 * jobConfig.samples
      BY <2>2, <2>3, <3>1 DEF Measured
    <3> HIDE DEF perf, gate
    <3> QED
      BY <2>4, <3>1, <3>2, <3>3 DEF HasMeasure
  <2>6. ASSUME verdict # "pass"
        PROVE  /\ OverallStatus(perf, gate) # "passed"
               /\ caseRow'.samples > 0 => jobConfig.optIn
    <3>1. OverallStatus(perf, gate) # "passed"
      BY <2>1, <2>6, CorrectnessDominates, FailureIsNoPass
    <3>2. caseRow'.samples > 0 => jobConfig.optIn
      BY <2>2, <2>4, <2>6
    <3> QED
      BY <3>1, <3>2
  <2>7. ASSUME OverallStatus(perf, gate) = "passed", caseRow'.samples > 0
        PROVE  gate.status = "passed"
    <3>1. HasMeasure(perf) /\ verdict = "pass"
      BY <2>4, <2>6, <2>7
    <3>2. jobConfig.measures
      BY <2>2, <2>3, <3>1 DEF MayMeasure
    <3> QED
      BY <2>7, <3>1, <3>2, CorrectnessDominates, GateDecides
  <2> HIDE DEF perf, gate
  <2> QED
    BY <1>1, <2>4, <2>5, <2>6, <2>7 DEF RankedIsEarned
<1> QED
  BY <1>1, <1>2, <1>3

(* A row is written once, when all is said.                                   *)
LEMMA PerformanceStep ==
  ASSUME CaseTypes, VerdictInv, BucketsInv, PerformanceInv, CaseNext
  PROVE  PerformanceInv'
<1>1. CASE step # "recorded" /\ step' \notin Ended /\ UNCHANGED caseRow
  BY <1>1, NoRowIsRanked DEF PerformanceInv, Ended, RankedIsEarned, IsRow, NoRow
<1>2. CASE GiveCase \/ MakeInputs \/ RunReference \/ RunCandidate \/ CloneForRepeat
           \/ CompareOutputs \/ PrepareTimers \/ TakeTurn
  <2>1. step # "recorded" /\ step' \notin Ended /\ UNCHANGED caseRow
    BY <1>2 DEF GiveCase, MakeInputs, RunReference, RunCandidate, CloneForRepeat,
                CompareOutputs, PrepareTimers, TakeTurn, Judged, Ended
  <2> QED
    BY <1>1, <2>1
<1>3. ASSUME step \notin Ended, UNCHANGED caseRow,
             \/ performance' = Skipped
             \/ MayMeasure' /\ Measured'
             \/ /\ MayMeasure'
                /\ \E status \in {"unsupported", "oom", "error", "interrupted"} :
                      performance' = [status |-> status]
      PROVE  PerformanceInv'
  <2>1. caseRow' = NoRow
    BY <1>3 DEF PerformanceInv, Ended
  <2>2. RankedIsEarned'
    BY <2>1 DEF RankedIsEarned, IsRow, NoRow
  <2> QED
    BY <1>3, <2>1, <2>2 DEF PerformanceInv
<1>4. CASE SkipPerformance
  BY <1>3, <1>4 DEF SkipPerformance, Ended
<1>5. CASE MeasuringFails
  <2>1. MayMeasure'
    BY <1>5 DEF MeasuringFails, BucketsInv, MayMeasure
  <2> QED
    BY <1>3, <1>5, <2>1 DEF MeasuringFails, Ended
<1>6. CASE Measure
  <2>1. MayMeasure' /\ Taken' = 2 * jobConfig'.samples
    BY <1>6 DEF Measure, BucketsInv, MayMeasure, Taken
  <2>2. /\ UNCHANGED timers
        /\ performance'.status \in {"unstable", "pass"}
        /\ performance'.formal =>
              performance'.status = "pass" /\ timers["reference"] = timers["candidate"]
    BY <1>6 DEF Measure
  <2>3. Measured'
    BY <2>1, <2>2 DEF Measured, HasMeasure
  <2> QED
    BY <1>3, <1>6, <2>1, <2>3 DEF Measure, Ended
<1>7. ASSUME NEW policy \in {"fail", "allow"}, RecordCase(policy) PROVE PerformanceInv'
  <2>1. RankedIsEarned'
    BY <1>7, RecordCaseStep
  <2>2. /\ step = "answered" /\ step' = "recorded"
        /\ UNCHANGED <<jobConfig, verdict, timers, buckets, performance>>
    BY <1>7 DEF RecordCase
  <2>3. (MayMeasure' <=> MayMeasure) /\ (Measured' <=> Measured)
    BY <2>2 DEF MayMeasure, Measured, Taken
  <2> QED
    BY <2>1, <2>2, <2>3 DEF PerformanceInv, Ended
<1> QED
  BY <1>2, <1>4, <1>5, <1>6, <1>7 DEF CaseNext

LEMMA CaseNextInv == CaseInv /\ [CaseNext]_caseVars => CaseInv'
<1> SUFFICES ASSUME CaseInv, [CaseNext]_caseVars PROVE CaseInv'
  OBVIOUS
<1>1. CASE CaseNext
  BY <1>1, CaseTypesStep, PristineStep, VerdictStep, BucketsStep, PerformanceStep DEF CaseInv
<1>2. CASE UNCHANGED caseVars
  <2>1. CaseTypes' /\ PristineInv'
    BY <1>2 DEF caseVars, CaseInv, CaseTypes, PristineInv, IsInjective
  <2>2. VerdictInv'
    BY <1>2 DEF caseVars, CaseInv, VerdictInv, VerdictCoversRepeats
  <2>3. BucketsInv'
    BY <1>2 DEF caseVars, CaseInv, BucketsInv, Taken, MayMeasure
  <2>4. PerformanceInv'
    BY <1>2 DEF caseVars, CaseInv, PerformanceInv, Measured, Taken, MayMeasure,
                RankedIsEarned, IsRow
  <2> QED
    BY <2>1, <2>2, <2>3, <2>4 DEF CaseInv
<1> QED
  BY <1>1, <1>2

-----------------------------------------------------------------------------
(* The inductive invariant of an evaluation.                                  *)
THEOREM CaseInvariant == CaseSpec => []CaseInv
<1> QED
  BY CaseInitInv, CaseNextInv, PTL DEF CaseSpec

(* clone_inputs and assert_input_isolation together: no run of an             *)
(* implementation is given inputs that another run has written to.           *)
THEOREM InputsArePristine == CaseSpec => []RunsSeePristineInputs
<1>1. CaseInv => RunsSeePristineInputs
  BY DEF CaseInv, PristineInv, RunsSeePristineInputs
<1> QED
  BY <1>1, CaseInvariant, PTL

(* evaluate_correctness passes a candidate only for all of its repeats, and     *)
(* calls it nondeterministic only for outputs that show it.                   *)
THEOREM VerdictsCoverRepeats == CaseSpec => []VerdictCoversRepeats
<1>1. CaseInv => VerdictCoversRepeats
  BY DEF CaseInv, VerdictInv
<1> QED
  BY <1>1, CaseInvariant, PTL

(* sample takes turns that keep the roles within one sample of each other, and  *)
(* ends with as many of each, numbered without a gap.                         *)
THEOREM SamplesStayInStep == CaseSpec => []SamplesAreInStep
<1>1. ASSUME CaseInv PROVE SamplesAreInStep
  <2> DEFINE R == Len(buckets["reference"])
             C == Len(buckets["candidate"])
  <2>1. R \in Nat /\ C \in Nat
    BY <1>1 DEF CaseInv, CaseTypes, Role
  <2>2. R = C \/ R = C + 1 \/ C = R + 1
    BY <1>1 DEF CaseInv, BucketsInv, StepsApart, NoBuckets, Role
  <2>3. R - C \in -1..1
    <3> HIDE DEF R, C
    <3> QED
      BY <2>1, <2>2
  <2>4. step = "sampling" /\ Taken = 2 * jobConfig.samples => SamplesAreComplete
    BY <1>1, FullIsComplete DEF CaseInv
  <2>5. ASSUME NEW k \in DOMAIN buckets["reference"] \cap DOMAIN buckets["candidate"]
        PROVE  buckets["reference"][k] - buckets["candidate"][k] = IF k % 2 = 1 THEN -1 ELSE 1
    <3>1. k \in Nat
      BY <1>1, <2>1 DEF CaseInv, CaseTypes, Role
    <3>2. Numbered(buckets["reference"], buckets["candidate"])
      BY <1>1 DEF CaseInv, BucketsInv
    <3> QED
      BY <3>1, <3>2 DEF Numbered
  <2> QED
    BY <2>3, <2>4, <2>5 DEF SamplesAreInStep
<1>2. CaseInv => SamplesAreInStep
  BY <1>1
<1> QED
  BY <1>2, CaseInvariant, PTL

(* The recursive function of Lateness, up to n samples.                      *)
LateUpTo(orders, n, f) ==
    f = [k \in 0..n |-> IF k = 0 THEN 0 ELSE f[k - 1] + orders[k]]

LEMMA LatenessIsDefined ==
  ASSUME NEW orders, NEW n \in Nat
  PROVE  \E f : LateUpTo(orders, n, f)
<1> DEFINE Bad == {i \in Nat : ~ \E f : LateUpTo(orders, i, f)}
<1>1. SUFFICES ASSUME Bad # {} PROVE FALSE
  OBVIOUS
<1>2. PICK i \in Bad : \A j \in Bad : ~(<<j, i>> \in OpToRel(<, Nat))
  BY <1>1, NatLessThanWellFounded, WFMin
<1>3. i \in Nat /\ \A j \in Nat : j < i => j \notin Bad
  BY <1>2 DEF OpToRel
<1>4. i # 0
  <2> DEFINE f == [k \in 0..0 |-> 0]
  <2>1. LateUpTo(orders, 0, f)
    BY DEF LateUpTo
  <2> QED
    BY <2>1, <1>2
<1>5. i - 1 \in Nat /\ i - 1 \notin Bad
  BY <1>3, <1>4
<1>6. PICK f : LateUpTo(orders, i - 1, f)
  BY <1>5
<1> DEFINE g == [k \in 0..i |-> IF k = i THEN f[i - 1] + orders[i] ELSE f[k]]
<1>7. \A k \in 0..(i - 1) : g[k] = f[k]
  BY <1>3
<1>8. g[i] = g[i - 1] + orders[i]
  BY <1>3, <1>4, <1>7
<1>9. ASSUME NEW k \in 0..i
      PROVE  g[k] = IF k = 0 THEN 0 ELSE g[k - 1] + orders[k]
  <2> HIDE DEF g
  <2>1. CASE k = i
    BY <2>1, <1>4, <1>8
  <2>2. CASE k \in 0..(i - 1)
    <3>1. f[k] = IF k = 0 THEN 0 ELSE f[k - 1] + orders[k]
      BY <2>2, <1>6 DEF LateUpTo
    <3>2. k # 0 => k - 1 \in 0..(i - 1)
      BY <2>2, <1>3
    <3> QED
      BY <3>1, <3>2, <2>2, <1>7
  <2> QED
    BY <2>1, <2>2, <1>3
<1>10. LateUpTo(orders, i, g)
  BY <1>9 DEF LateUpTo
<1> QED
  BY <1>2, <1>10

LEMMA LatenessIsASum ==
  ASSUME NEW orders \in Seq(Nat)
  PROVE  \E f : LateUpTo(orders, Len(orders), f) /\ Lateness(orders) = f[Len(orders)]
<1> DEFINE n == Len(orders)
           f == CHOOSE f : LateUpTo(orders, n, f)
<1>1. n \in Nat
  OBVIOUS
<1>2. LateUpTo(orders, n, f)
  BY <1>1, LatenessIsDefined
<1>3. Lateness(orders) = f[n]
  BY DEF Lateness, LateUpTo
<1> QED
  BY <1>2, <1>3

LEMMA SumsApart ==
  ASSUME NEW a \in Nat, NEW b \in Nat, NEW x \in Nat, NEW y \in Nat
  PROVE  (a + x) - (b + y) = (a - b) + (x - y)
OBVIOUS

(* Pair by pair, the reference makes up for the sample that it is ahead.        *)
LEMMA LatenessIsBalanced ==
  ASSUME NEW r \in Seq(Nat), NEW c \in Seq(Nat), Len(r) = Len(c),
         \A k \in DOMAIN r \cap DOMAIN c : r[k] - c[k] = IF k % 2 = 1 THEN -1 ELSE 1
  PROVE  Lateness(r) - Lateness(c) \in -1..1
<1> DEFINE n == Len(r)
<1>1. n \in Nat /\ Len(c) = n
  OBVIOUS
<1>2. \A k \in 1..n : r[k] \in Nat /\ c[k] \in Nat
                     /\ r[k] - c[k] = IF k % 2 = 1 THEN -1 ELSE 1
  <2>1. DOMAIN r = 1..n /\ DOMAIN c = 1..n
    BY <1>1
  <2>2. \A k \in 1..n : r[k] \in Nat /\ c[k] \in Nat
    BY <1>1
  <2>3. \A k \in 1..n : r[k] - c[k] = IF k % 2 = 1 THEN -1 ELSE 1
    <3> HIDE DEF n
    <3> QED
      BY <2>1
  <2> QED
    BY <2>2, <2>3
<1>3. PICK f : LateUpTo(r, n, f) /\ Lateness(r) = f[n]
  BY LatenessIsASum
<1>4. PICK g : LateUpTo(c, n, g) /\ Lateness(c) = g[n]
  BY <1>1, LatenessIsASum
<1> HIDE DEF n
<1> DEFINE Balanced(k) == f[k] \in Nat /\ g[k] \in Nat
                          /\ f[k] - g[k] = IF k % 2 = 1 THEN -1 ELSE 0
           Bad == {k \in 0..n : ~Balanced(k)}
<1>5. Balanced(0)
  BY <1>1, <1>3, <1>4 DEF LateUpTo
<1>6. ASSUME NEW k \in 1..n, Balanced(k - 1)
      PROVE  Balanced(k)
  <2>1. f[k] = f[k - 1] + r[k] /\ g[k] = g[k - 1] + c[k]
    BY <1>1, <1>3, <1>4 DEF LateUpTo
  <2>2. (k - 1) % 2 = 1 <=> ~(k % 2 = 1)
    <3>1. k \in Nat
      BY <1>1
    <3> QED
      BY ONLY <3>1
  <2>3. r[k] \in Nat /\ c[k] \in Nat /\ r[k] - c[k] = IF k % 2 = 1 THEN -1 ELSE 1
    BY <1>2
  <2>4. /\ f[k - 1] \in Nat /\ g[k - 1] \in Nat
        /\ f[k - 1] - g[k - 1] = IF k % 2 = 1 THEN 0 ELSE -1
    BY <1>6, <2>2
  <2> DEFINE a == f[k - 1]
             b == g[k - 1]
             x == r[k]
             y == c[k]
  <2>5. f[k] = a + x /\ g[k] = b + y /\ a \in Nat /\ b \in Nat /\ x \in Nat /\ y \in Nat
    BY <2>1, <2>3, <2>4
  <2> HIDE DEF a, b, x, y
  <2>6. f[k] \in Nat /\ g[k] \in Nat /\ f[k] - g[k] = (a - b) + (x - y)
    BY <2>5, SumsApart
  <2>7. CASE k % 2 = 1
    BY <2>3, <2>4, <2>6, <2>7 DEF a, b, x, y
  <2>8. CASE ~(k % 2 = 1)
    BY <2>3, <2>4, <2>6, <2>8 DEF a, b, x, y
  <2> QED
    BY <2>7, <2>8
<1> HIDE DEF Balanced
<1>7. Bad = {}
  <2>1. SUFFICES ASSUME Bad # {} PROVE FALSE
    OBVIOUS
  <2>2. Bad \subseteq Nat
    BY <1>1
  <2> HIDE DEF Bad
  <2>3. PICK k \in Bad : \A j \in Bad : ~(<<j, k>> \in OpToRel(<, Nat))
    BY <2>1, <2>2, NatLessThanWellFounded, WFMin
  <2>4. k \in 0..n /\ ~Balanced(k) /\ \A j \in 0..n : j < k => Balanced(j)
    BY <2>2, <2>3, <1>1 DEF OpToRel, Bad
  <2>5. k \in 1..n /\ k - 1 \in 0..n /\ k - 1 < k
    BY <2>4, <1>1, <1>5
  <2> QED
    BY <2>4, <2>5, <1>6
<1>8. Balanced(n)
  BY <1>1, <1>7
<1> QED
  BY <1>3, <1>4, <1>8 DEF Balanced

(* For any number of samples the schedule is fair: in step, and neither role    *)
(* later than the other on average (sample of performance/evaluator.py).         *)
THEOREM SamplesWereFair == CaseSpec => []SamplesAreFair
<1>1. ASSUME CaseInv, SamplesAreInStep PROVE SamplesAreFair
  <2> DEFINE r == buckets["reference"]
             c == buckets["candidate"]
  <2>1. r \in Seq(Nat) /\ c \in Seq(Nat)
    BY <1>1 DEF CaseInv, CaseTypes, Role
  <2>2. \A k \in DOMAIN r \cap DOMAIN c : r[k] - c[k] = IF k % 2 = 1 THEN -1 ELSE 1
    BY <1>1 DEF SamplesAreInStep
  <2>3. step = "sampling" /\ Taken = 2 * jobConfig.samples => Len(r) = Len(c)
    BY <1>1 DEF SamplesAreInStep, SamplesAreComplete
  <2> HIDE DEF r, c
  <2>4. Len(r) = Len(c) => Lateness(r) - Lateness(c) \in -1..1
    BY <2>1, <2>2, LatenessIsBalanced
  <2> QED
    BY <1>1, <2>3, <2>4 DEF SamplesAreFair, r, c
<1>2. CaseInv /\ SamplesAreInStep => SamplesAreFair
  BY <1>1
<1> QED
  BY <1>2, CaseInvariant, SamplesStayInStep, PTL

(* What _append_result may rank was judged correct, measured in full with one   *)
(* timer, and keeps every limit the gate was given; a failed correctness is    *)
(* recorded as a failure.                                                    *)
THEOREM RankedWasEarned == CaseSpec => []RankedIsEarned
<1>1. CaseInv => RankedIsEarned
  BY DEF CaseInv, PerformanceInv
<1> QED
  BY <1>1, CaseInvariant, PTL

-----------------------------------------------------------------------------
(* The timers.                                                              *)
Item == [is : {"work"}, units : Nat] \cup [is : {"event"}, mark : {"start", "end"}]
TimingSettings == [timer : TimerName, device : Device, warmup : Warmups, inner : Inners]
Prepared == {"ready", "capture", "wall", "events", "cuda_event", "cuda_graph"}

-----------------------------------------------------------------------------
(* What waits on the stream: calls, between the two events of their sample.    *)
Calls(s) == \A i \in 1..Len(s) : s[i] = Work(1)

CallsThenEnd(s) ==
    /\ Len(s) >= 1 /\ s[Len(s)] = Event("end")
    /\ \A i \in 1..(Len(s) - 1) : s[i] = Work(1)

StartThenCalls(s) ==
    /\ Len(s) >= 1 /\ s[1] = Event("start")
    /\ \A i \in 2..Len(s) : s[i] = Work(1)

StartCallsEnd(s) ==
    /\ Len(s) >= 2 /\ s[1] = Event("start") /\ s[Len(s)] = Event("end")
    /\ \A i \in 2..(Len(s) - 1) : s[i] = Work(1)

(* A replay is one piece of work, however many calls it holds.                *)
ReplayEnd(s, n) == Len(s) = 2 /\ s[1] = Work(n) /\ s[2] = Event("end")
StartReplayEnd(s, n) ==
    Len(s) = 3 /\ s[1] = Event("start") /\ s[2] = Work(n) /\ s[3] = Event("end")

-----------------------------------------------------------------------------
TimingTypes ==
    /\ phase \in {"new", "first", "warmup", "prepare", "unsupported"} \cup Prepared
    /\ phase # "new" => timing \in TimingSettings
    /\ stream \in Seq(Item)
    /\ now \in Nat /\ began \in Nat /\ launches \in Nat
    /\ warm \in BOOLEAN
    /\ marks \in [start : Nat, end : Nat]
    /\ durations \in [first : Int, warmup : Int]
    /\ samples \in Seq([timer : TimerName, elapsed : Int])

(* Between two sections the stream is empty.  Within one, what the device has  *)
(* done since its beginning, what waits, and what is yet to be launched make  *)
(* up its calls.  After the first call every call costs one unit.             *)
StreamFits ==
    /\ phase \in {"new", "prepare", "ready", "unsupported"} => stream = <<>>
    /\ phase \notin {"first", "warmup", "wall", "events"} => launches = 0
    /\ phase = "new" => ~warm
    /\ phase = "first" =>
          \/ launches = 1 /\ ~warm /\ stream = <<>> /\ now = began
          \/ launches = 0 /\ warm /\ stream = <<Work(1 + SetupTime)>> /\ now = began
          \/ launches = 0 /\ warm /\ stream = <<>> /\ now = began + 1 + SetupTime
    /\ phase \notin {"new", "first"} => warm
    /\ phase = "warmup" =>
          Calls(stream) /\ now + Len(stream) + launches = began + timing.warmup
    /\ phase = "wall" =>
          Calls(stream) /\ now + Len(stream) + launches = began + timing.inner

(* A sample that is timed by events begins and ends where the device comes to  *)
(* them.                                                                     *)
EventsFit ==
    /\ phase = "events" =>
          \/ StartThenCalls(stream) /\ Len(stream) + launches = timing.inner + 1
          \/ Calls(stream) /\ now + Len(stream) + launches = marks.start + timing.inner
    /\ phase = "cuda_event" =>
          \/ StartCallsEnd(stream) /\ Len(stream) = timing.inner + 2
          \/ CallsThenEnd(stream) /\ now + Len(stream) = marks.start + timing.inner + 1
          \/ stream = <<>> /\ marks.end = marks.start + timing.inner

ReplaysFit ==
    phase = "cuda_graph" =>
        \/ StartReplayEnd(stream, timing.inner)
        \/ ReplayEnd(stream, timing.inner) /\ now = marks.start
        \/ CallsThenEnd(stream) /\ Len(stream) = 1 /\ now = marks.start + timing.inner
        \/ stream = <<>> /\ marks.end = marks.start + timing.inner

(* Without CUDA nothing waits on a stream, and no event is recorded.           *)
DeviceFits ==
    /\ phase # "new" /\ timing.device = "cpu" => stream = <<>>
    /\ phase \in Prepared /\ timing.device = "cpu" => timing.timer = "wall_clock"

(* What the preparation has chosen; a graph was replayed before any sample.    *)
SelectionFits ==
    /\ phase \in Prepared =>
         \/ /\ graph = NoGraph /\ timing.timer \in {"wall_clock", "cuda_event"}
            /\ selection = [effective |-> timing.timer, reason |-> FALSE]
         \/ /\ graph = NoGraph /\ timing.timer = "auto" /\ timing.device = "stream"
            /\ selection = [effective |-> "cuda_event", reason |-> TRUE]
         \/ /\ graph = [calls |-> timing.inner, replayed |-> TRUE]
            /\ timing.timer \in {"cuda_graph", "auto"} /\ timing.device = "graphs"
            /\ selection = [effective |-> "cuda_graph", reason |-> FALSE]
    /\ phase \in {"new", "first", "warmup", "prepare"} => graph = NoGraph
    /\ phase = "wall" => timing.timer = "wall_clock"
    /\ phase \in {"events", "cuda_event"} => timing.timer # "wall_clock" /\ graph = NoGraph
    /\ phase \in {"capture", "cuda_graph"} => graph # NoGraph

SamplesFit ==
    /\ \A i \in DOMAIN samples :
          samples[i].elapsed = timing.inner /\ samples[i].timer = selection.effective
    /\ phase \notin {"new", "first"} => durations.first = 1 + SetupTime
    /\ phase \in {"prepare"} \cup Prepared => durations.warmup = timing.warmup
    /\ samples # <<>> => phase \in Prepared

TimingInv ==
    /\ TimingTypes /\ StreamFits /\ EventsFit /\ ReplaysFit
    /\ DeviceFits /\ SelectionFits /\ SamplesFit

-----------------------------------------------------------------------------
LEMMA Sizes ==
  /\ Warmups \subseteq Nat /\ Inners \subseteq Nat
  /\ \A n \in Inners : n # 0
  /\ NSamples \in Nat /\ SetupTime \in Nat /\ SetupTime # 0
BY SampleTimingAssumption

(* Work and events, and what is on a stream that grows or shrinks by an item.  *)
LEMMA Items ==
  /\ \A n \in Nat : Work(n) \in Item /\ Work(n).is = "work" /\ Work(n).units = n
  /\ \A m \in {"start", "end"} : Event(m) \in Item /\ Event(m).is = "event" /\ Event(m).mark = m
BY DEF Item, Work, Event

LEMMA NothingOn ==
  /\ Len(<<>>) = 0 /\ <<>> \in Seq(Item)
  /\ Calls(<<>>)
  /\ \A s \in Seq(Item) : s = <<>> <=> Len(s) = 0
<1>1. Len(<<>>) = 0 /\ <<>> \in Seq(Item)
  OBVIOUS
<1>2. Calls(<<>>)
  BY ONLY <1>1 DEF Calls
<1>3. \A s \in Seq(Item) : s = <<>> <=> Len(s) = 0
  BY EmptySeq
<1> QED
  BY <1>1, <1>2, <1>3

LEMMA Appends ==
  ASSUME NEW s \in Seq(Item), NEW x \in Item
  PROVE  /\ Append(s, x) \in Seq(Item) /\ Len(Append(s, x)) = Len(s) + 1 /\ Len(s) \in Nat
         /\ \A i \in 1..Len(s) : Append(s, x)[i] = s[i]
         /\ Append(s, x)[Len(s) + 1] = x
OBVIOUS

LEMMA CallLaunched ==
  ASSUME NEW s \in Seq(Item)
  PROVE  /\ Calls(s) => Calls(Append(s, Work(1)))
         /\ StartThenCalls(s) => StartThenCalls(Append(s, Work(1)))
<1> DEFINE t == Append(s, Work(1))
<1>1. /\ t \in Seq(Item) /\ Len(t) = Len(s) + 1 /\ Len(s) \in Nat
      /\ \A i \in 1..Len(s) : t[i] = s[i]
      /\ t[Len(s) + 1] = Work(1)
  BY Appends, Items
<1> HIDE DEF t
<1>2. Calls(s) => Calls(t)
  BY <1>1 DEF Calls
<1>3. StartThenCalls(s) => StartThenCalls(t)
  BY <1>1 DEF StartThenCalls
<1> QED
  BY <1>2, <1>3 DEF t

LEMMA EventRecorded ==
  ASSUME NEW s \in Seq(Item)
  PROVE  /\ Calls(s) => CallsThenEnd(Append(s, Event("end")))
         /\ StartThenCalls(s) => StartCallsEnd(Append(s, Event("end")))
         /\ s = <<>> => StartThenCalls(Append(s, Event("start")))
<1>1. \A x \in Item :
         /\ Append(s, x) \in Seq(Item) /\ Len(Append(s, x)) = Len(s) + 1 /\ Len(s) \in Nat
         /\ \A i \in 1..Len(s) : Append(s, x)[i] = s[i]
         /\ Append(s, x)[Len(s) + 1] = x
  BY Appends
<1>2. Calls(s) => CallsThenEnd(Append(s, Event("end")))
  BY <1>1, Items DEF Calls, CallsThenEnd
<1>3. StartThenCalls(s) => StartCallsEnd(Append(s, Event("end")))
  BY <1>1, Items DEF StartThenCalls, StartCallsEnd
<1>4. s = <<>> => StartThenCalls(Append(s, Event("start")))
  <2>1. s = <<>> => Len(s) = 0
    BY NothingOn
  <2> QED
    BY <1>1, <2>1, Items DEF StartThenCalls
<1> QED
  BY <1>2, <1>3, <1>4

LEMMA ItemDone ==
  ASSUME NEW s \in Seq(Item), s # <<>>
  PROVE  /\ Tail(s) \in Seq(Item) /\ Len(s) \in Nat \ {0} /\ Len(Tail(s)) = Len(s) - 1
         /\ Head(s) = s[1] /\ Head(s) \in Item
         /\ Calls(s) => Head(s) = Work(1) /\ Calls(Tail(s))
         /\ StartThenCalls(s) => Head(s) = Event("start") /\ Calls(Tail(s))
         /\ StartCallsEnd(s) => Head(s) = Event("start") /\ CallsThenEnd(Tail(s))
         /\ CallsThenEnd(s) =>
               \/ Len(s) = 1 /\ Head(s) = Event("end") /\ Tail(s) = <<>>
               \/ Len(s) > 1 /\ Head(s) = Work(1) /\ CallsThenEnd(Tail(s))
         /\ \A n \in Nat :
               /\ StartReplayEnd(s, n) => Head(s) = Event("start") /\ ReplayEnd(Tail(s), n)
               /\ ReplayEnd(s, n) =>
                     Head(s) = Work(n) /\ CallsThenEnd(Tail(s)) /\ Len(Tail(s)) = 1
<1> DEFINE t == Tail(s)
<1>1. /\ t \in Seq(Item) /\ Len(s) \in Nat \ {0} /\ Len(t) = Len(s) - 1
      /\ \A i \in 1..Len(t) : t[i] = s[i + 1]
      /\ Head(s) = s[1]
  <2>1. /\ Head(s) \in Item /\ t \in Seq(Item) /\ Len(t) = Len(s) - 1 /\ Head(s) = s[1]
        /\ \A i \in 1..Len(t) : t[i] = s[i + 1]
    BY HeadTailProperties
  <2>2. Len(s) \in Nat /\ Len(s) # 0
    BY NothingOn
  <2> QED
    BY <2>1, <2>2
<1>2. Head(s) \in Item
  BY <1>1
<1> HIDE DEF t
<1>3. t = <<>> <=> Len(t) = 0
  BY <1>1, NothingOn
<1>4. Calls(s) => s[1] = Work(1) /\ Calls(t)
  BY <1>1 DEF Calls
<1>5. StartThenCalls(s) => s[1] = Event("start") /\ Calls(t)
  BY <1>1 DEF Calls, StartThenCalls
<1>6. StartCallsEnd(s) => s[1] = Event("start") /\ CallsThenEnd(t)
  BY <1>1 DEF CallsThenEnd, StartCallsEnd
<1>7. CallsThenEnd(s) =>
         \/ Len(s) = 1 /\ s[1] = Event("end") /\ t = <<>>
         \/ Len(s) > 1 /\ s[1] = Work(1) /\ CallsThenEnd(t)
  BY SMTT(30), <1>1, <1>3 DEF CallsThenEnd
<1>8. \A n \in Nat :
         /\ StartReplayEnd(s, n) => s[1] = Event("start") /\ ReplayEnd(t, n)
         /\ ReplayEnd(s, n) => s[1] = Work(n) /\ CallsThenEnd(t) /\ Len(t) = 1
  BY <1>1 DEF CallsThenEnd, StartReplayEnd, ReplayEnd
<1> QED
  BY <1>1, <1>2, <1>4, <1>5, <1>6, <1>7, <1>8 DEF t

-----------------------------------------------------------------------------
LEMMA TimingInitInv == TimingInit => TimingInv
<1> SUFFICES ASSUME TimingInit PROVE TimingInv
  OBVIOUS
<1>0. /\ phase = "new" /\ stream = <<>> /\ now = 0 /\ began = 0 /\ launches = 0
      /\ warm = FALSE /\ graph = NoGraph /\ marks = [start |-> 0, end |-> 0]
      /\ durations = [first |-> 0, warmup |-> 0] /\ samples = <<>>
  BY DEF TimingInit
<1>1. samples \in Seq([timer : TimerName, elapsed : Int]) /\ DOMAIN samples = {}
  <2>1. \A S : <<>> \in Seq(S)
    OBVIOUS
  <2>2. DOMAIN <<>> = {}
    OBVIOUS
  <2> QED
    BY <1>0, <2>1, <2>2
<1>2. TimingTypes
  <2>1. stream \in Seq(Item)
    BY ONLY <1>0, NothingOn
  <2>2. /\ phase \in {"new", "first", "warmup", "prepare", "unsupported"} \cup Prepared
        /\ now \in Nat /\ began \in Nat /\ launches \in Nat /\ warm \in BOOLEAN
    BY ONLY <1>0
  <2>3. marks \in [start : Nat, end : Nat] /\ durations \in [first : Int, warmup : Int]
    BY ONLY <1>0
  <2> QED
    BY ONLY <1>0, <1>1, <2>1, <2>2, <2>3 DEF TimingTypes
<1>3. StreamFits /\ EventsFit /\ ReplaysFit
  BY <1>0 DEF StreamFits, EventsFit, ReplaysFit
<1>4. DeviceFits /\ SelectionFits
  BY <1>0 DEF DeviceFits, SelectionFits, Prepared
<1>5. SamplesFit
  <2>1. ~(samples # <<>>) /\ phase = "new" /\ phase \notin Prepared
    BY <1>0 DEF Prepared
  <2> QED
    BY ONLY <1>1, <2>1 DEF SamplesFit
<1> QED
  BY <1>2, <1>3, <1>4, <1>5 DEF TimingInv

(* The device does the next piece of work, or comes to the next event.          *)
LEMMA DeviceStep ==
  ASSUME TimingInv, DeviceWorks
  PROVE  TimingInv'
<1>0. /\ TimingTypes /\ StreamFits /\ EventsFit /\ ReplaysFit
      /\ DeviceFits /\ SelectionFits /\ SamplesFit
  BY DEF TimingInv
<1>1. /\ stream \in Seq(Item) /\ stream # <<>> /\ stream' = Tail(stream)
      /\ UNCHANGED <<timing, phase, began, launches, warm, graph, selection, durations,
                     samples>>
  BY <1>0 DEF DeviceWorks, TimingTypes
<1>2. /\ now \in Nat /\ began \in Nat /\ launches \in Nat /\ SetupTime \in Nat
      /\ marks.start \in Nat /\ marks.end \in Nat /\ marks \in [start : Nat, end : Nat]
      /\ phase # "new" => timing.inner \in Nat /\ timing.warmup \in Nat
  BY <1>0, Sizes DEF TimingTypes, TimingSettings
<1>3. \A n \in Nat : Head(stream) = Work(n) => now' = now + n /\ marks' = marks
  BY Items DEF DeviceWorks
<1>4. \A m \in {"start", "end"} :
         Head(stream) = Event(m) => now' = now /\ marks' = [marks EXCEPT ![m] = now]
  BY Items DEF DeviceWorks
<1>5. /\ Tail(stream) \in Seq(Item) /\ Len(stream) \in Nat \ {0}
      /\ Len(Tail(stream)) = Len(stream) - 1
      /\ Head(stream) \in Item
  BY <1>1, ItemDone
<1>6. TimingTypes'
  <2>1. now' \in Nat /\ marks' \in [start : Nat, end : Nat]
    <3>1. CASE Head(stream) \in [is : {"work"}, units : Nat]
      <4>1. Head(stream) = Work(Head(stream).units) /\ Head(stream).units \in Nat
        BY <3>1 DEF Work
      <4> QED
        BY <1>2, <1>3, <4>1
    <3>2. CASE Head(stream) \in [is : {"event"}, mark : {"start", "end"}]
      <4>1. Head(stream) = Event(Head(stream).mark) /\ Head(stream).mark \in {"start", "end"}
        BY <3>2 DEF Event
      <4> QED
        BY <1>2, <1>4, <4>1
    <3> QED
      BY <1>5, <3>1, <3>2 DEF Item
  <2> QED
    BY <1>0, <1>1, <1>5, <2>1, Zenon DEF TimingTypes
<1>7. StreamFits'
  <2>1. phase \notin {"new", "prepare", "ready", "unsupported"}
    BY <1>0, <1>1 DEF StreamFits
  <2>2. ASSUME phase = "first"
        PROVE launches = 0 /\ warm /\ stream' = <<>> /\ now' = began + 1 + SetupTime
    <3>1. launches = 0 /\ warm /\ stream = <<Work(1 + SetupTime)>> /\ now = began
      BY <1>0, <1>1, <2>2 DEF StreamFits
    <3>2. Head(stream) = Work(1 + SetupTime) /\ 1 + SetupTime \in Nat /\ Len(stream) = 1
      BY <1>2, <3>1
    <3>3. now' = now + (1 + SetupTime)
      BY <1>3, <3>2
    <3>4. stream' = <<>>
      BY <1>1, <1>5, <3>2, NothingOn
    <3> QED
      BY <1>2, <3>1, <3>3, <3>4
  <2>3. ASSUME Calls(stream) PROVE Calls(stream') /\ now' + Len(stream') = now + Len(stream)
    <3>1. Head(stream) = Work(1) /\ Calls(Tail(stream))
      BY <1>1, <2>3, ItemDone
    <3>2. now' = now + 1
      BY <1>3, <3>1
    <3> QED
      BY <1>1, <1>2, <1>5, <3>1, <3>2
  <2>4. ASSUME phase = "warmup"
        PROVE  Calls(stream') /\ now' + Len(stream') + launches = began + timing.warmup
    BY <1>0, <2>3, <2>4 DEF StreamFits
  <2>5. ASSUME phase = "wall"
        PROVE  Calls(stream') /\ now' + Len(stream') + launches = began + timing.inner
    BY <1>0, <2>3, <2>5 DEF StreamFits
  <2> QED
    BY <1>0, <1>1, <2>1, <2>2, <2>4, <2>5 DEF StreamFits
<1>8. EventsFit'
  <2>1. ASSUME phase = "events" PROVE EventsFit'
    <3>1. CASE StartThenCalls(stream) /\ Len(stream) + launches = timing.inner + 1
      <4>1. Head(stream) = Event("start") /\ Calls(Tail(stream))
        BY <1>1, <3>1, ItemDone
      <4>2. now' = now /\ marks'.start = now
        BY <1>2, <1>4, <4>1
      <4>3. now' + Len(stream') + launches = marks'.start + timing.inner
        BY SMTT(30), <1>1, <1>2, <1>5, <2>1, <3>1, <4>2
      <4> QED
        BY <1>1, <2>1, <4>1, <4>3 DEF EventsFit
    <3>2. CASE Calls(stream) /\ now + Len(stream) + launches = marks.start + timing.inner
      <4>1. Head(stream) = Work(1) /\ Calls(Tail(stream))
        BY <1>1, <3>2, ItemDone
      <4>2. now' = now + 1 /\ marks' = marks
        BY <1>3, <4>1
      <4>3. now' + Len(stream') + launches = marks'.start + timing.inner
        BY <1>1, <1>2, <1>5, <2>1, <3>2, <4>2
      <4> QED
        BY <1>1, <2>1, <4>1, <4>3 DEF EventsFit
    <3> QED
      BY <1>0, <2>1, <3>1, <3>2 DEF EventsFit
  <2>2. ASSUME phase = "cuda_event" PROVE EventsFit'
    <3>1. CASE StartCallsEnd(stream) /\ Len(stream) = timing.inner + 2
      <4>1. Head(stream) = Event("start") /\ CallsThenEnd(Tail(stream))
        BY <1>1, <3>1, ItemDone
      <4>2. now' = now /\ marks'.start = now
        BY <1>2, <1>4, <4>1
      <4>3. timing.inner \in Nat /\ Len(stream') = Len(stream) - 1
        BY <1>1, <1>2, <1>5, <2>2
      <4>4. now' + Len(stream') = marks'.start + timing.inner + 1
        BY ONLY <1>2, <3>1, <4>2, <4>3
      <4> QED
        BY <1>1, <2>2, <4>1, <4>4 DEF EventsFit
    <3>2. CASE CallsThenEnd(stream) /\ now + Len(stream) = marks.start + timing.inner + 1
      <4>1. CASE Len(stream) = 1 /\ Head(stream) = Event("end") /\ Tail(stream) = <<>>
        <5>1. marks'.start = marks.start /\ marks'.end = now
          BY <1>2, <1>4, <4>1
        <5>2. marks'.end = marks'.start + timing.inner
          BY <1>2, <2>2, <3>2, <4>1, <5>1
        <5> QED
          BY <1>1, <2>2, <4>1, <5>2 DEF EventsFit
      <4>2. CASE Len(stream) > 1 /\ Head(stream) = Work(1) /\ CallsThenEnd(Tail(stream))
        <5>1. now' = now + 1 /\ marks' = marks
          BY <1>3, <4>2
        <5>2. now' + Len(stream') = marks'.start + timing.inner + 1
          BY <1>1, <1>2, <1>5, <2>2, <3>2, <5>1
        <5> QED
          BY <1>1, <2>2, <4>2, <5>2 DEF EventsFit
      <4> QED
        BY <1>1, <3>2, <4>1, <4>2, ItemDone
    <3> QED
      BY <1>0, <1>1, <2>2, <3>1, <3>2 DEF EventsFit
  <2> QED
    BY <1>1, <2>1, <2>2 DEF EventsFit
<1>9. ReplaysFit'
  <2> SUFFICES ASSUME phase = "cuda_graph"
               PROVE  \/ ReplayEnd(stream', timing.inner) /\ now' = marks'.start
                      \/ /\ CallsThenEnd(stream') /\ Len(stream') = 1
                         /\ now' = marks'.start + timing.inner
                      \/ stream' = <<>> /\ marks'.end = marks'.start + timing.inner
    BY <1>1 DEF ReplaysFit
  <2>0. timing.inner \in Nat
    BY <1>2
  <2>1. CASE StartReplayEnd(stream, timing.inner)
    <3>1. Head(stream) = Event("start") /\ ReplayEnd(Tail(stream), timing.inner)
      BY <1>1, <2>0, <2>1, ItemDone
    <3> QED
      BY <1>1, <1>2, <1>4, <3>1
  <2>2. CASE ReplayEnd(stream, timing.inner) /\ now = marks.start
    <3>1. /\ Head(stream) = Work(timing.inner) /\ CallsThenEnd(Tail(stream))
          /\ Len(Tail(stream)) = 1
      BY <1>1, <2>0, <2>2, ItemDone
    <3> QED
      BY <1>1, <1>2, <1>3, <2>0, <2>2, <3>1
  <2>3. CASE CallsThenEnd(stream) /\ Len(stream) = 1 /\ now = marks.start + timing.inner
    <3>1. Head(stream) = Event("end") /\ Tail(stream) = <<>>
      BY <1>1, <2>3, ItemDone
    <3>2. marks'.start = marks.start /\ marks'.end = now
      BY <1>2, <1>4, <3>1
    <3> QED
      BY <1>1, <2>3, <3>1, <3>2
  <2> QED
    BY <1>0, <1>1, <2>1, <2>2, <2>3 DEF ReplaysFit
<1>10. DeviceFits' /\ SelectionFits' /\ SamplesFit'
  BY <1>0, <1>1 DEF DeviceFits, SelectionFits, SamplesFit
<1> QED
  BY <1>6, <1>7, <1>8, <1>9, <1>10 DEF TimingInv

(* The host launches a call: done at once without a device, else on the stream. *)
LEMMA LaunchStep ==
  ASSUME TimingInv, LaunchCall
  PROVE  TimingInv'
<1>0. /\ TimingTypes /\ StreamFits /\ EventsFit /\ ReplaysFit
      /\ DeviceFits /\ SelectionFits /\ SamplesFit
  BY DEF TimingInv
<1>1. /\ launches' = launches - 1 /\ warm' = TRUE /\ launches # 0
      /\ UNCHANGED <<timing, phase, began, graph, marks, selection, durations, samples>>
  BY <1>0 DEF LaunchCall, TimingTypes
<1>2. /\ now \in Nat /\ began \in Nat /\ launches \in Nat /\ SetupTime \in Nat
      /\ marks.start \in Nat /\ stream \in Seq(Item) /\ launches' \in Nat
      /\ phase \in {"first", "warmup", "wall", "events"}
      /\ timing.inner \in Nat /\ timing.warmup \in Nat
  <2>1. phase \in {"first", "warmup", "wall", "events"}
    BY <1>0, <1>1 DEF StreamFits
  <2>2. /\ now \in Nat /\ began \in Nat /\ launches \in Nat /\ SetupTime \in Nat
        /\ marks.start \in Nat /\ stream \in Seq(Item) /\ timing \in TimingSettings
    BY <1>0, <2>1, Sizes DEF TimingTypes
  <2>3. timing.inner \in Nat /\ timing.warmup \in Nat
    BY <2>2, Sizes DEF TimingSettings
  <2>4. launches' \in Nat
    BY <1>1, <2>2
  <2> QED
    BY <2>1, <2>2, <2>3, <2>4
<1>3. ASSUME warm, timing.device = "cpu"
      PROVE  now' = now + 1 /\ stream' = stream /\ Len(stream) = 0 /\ stream = <<>>
  <2>1. now' = now + 1 /\ stream' = stream
    BY <1>3 DEF LaunchCall
  <2>2. stream = <<>>
    BY <1>0, <1>2, <1>3 DEF DeviceFits
  <2> QED
    BY ONLY <2>1, <2>2, NothingOn
<1>4. ASSUME warm, timing.device # "cpu" PROVE now' = now /\ stream' = Append(stream, Work(1))
  BY <1>3, <1>4 DEF LaunchCall
<1>5. ASSUME ~warm
      PROVE  /\ phase = "first" /\ launches = 1 /\ stream = <<>> /\ now = began
             /\ \/ timing.device = "cpu" /\ now' = now + (1 + SetupTime) /\ stream' = stream
                \/ /\ timing.device # "cpu" /\ now' = now
                   /\ stream' = Append(stream, Work(1 + SetupTime))
  <2>1. phase = "first" /\ launches = 1 /\ stream = <<>> /\ now = began
    BY <1>0, <1>1, <1>2, <1>5 DEF StreamFits
  <2>2. \/ timing.device = "cpu" /\ now' = now + (1 + SetupTime) /\ stream' = stream
        \/ timing.device # "cpu" /\ now' = now /\ stream' = Append(stream, Work(1 + SetupTime))
    BY <1>5 DEF LaunchCall
  <2> QED
    BY <2>1, <2>2
<1>6. ASSUME warm
      PROVE  /\ Calls(stream) => /\ Calls(stream')
                                 /\ now' + Len(stream') + launches' = now + Len(stream) + launches
             /\ StartThenCalls(stream) => /\ StartThenCalls(stream')
                                          /\ Len(stream') + launches' = Len(stream) + launches
             /\ now' \in Nat /\ stream' \in Seq(Item)
  <2>1. Len(stream) \in Nat
    BY <1>2
  <2>2. CASE timing.device = "cpu"
    <3>1. ~StartThenCalls(stream)
      BY <1>3, <1>6, <2>2 DEF StartThenCalls
    <3>2. now' = now + 1 /\ stream' = stream /\ Len(stream) = 0
      BY <1>3, <1>6, <2>2
    <3>3. now' + Len(stream') + launches' = now + Len(stream) + launches /\ now' \in Nat
      BY ONLY <1>1, <1>2, <3>2
    <3> QED
      BY ONLY <1>2, <3>1, <3>2, <3>3
  <2>3. CASE timing.device # "cpu"
    <3>1. now' = now /\ stream' = Append(stream, Work(1))
      BY <1>4, <1>6, <2>3
    <3>2. stream' \in Seq(Item) /\ Len(stream') = Len(stream) + 1
      BY <1>2, <3>1, Appends, Items
    <3>3. /\ now' + Len(stream') + launches' = now + Len(stream) + launches
          /\ Len(stream') + launches' = Len(stream) + launches
      BY ONLY <1>1, <1>2, <2>1, <3>1, <3>2
    <3>4. /\ Calls(stream) => Calls(stream')
          /\ StartThenCalls(stream) => StartThenCalls(stream')
      BY ONLY <1>2, <3>1, CallLaunched
    <3> QED
      BY ONLY <1>2, <3>1, <3>2, <3>3, <3>4
  <2> QED
    BY <2>2, <2>3
<1>7. TimingTypes'
  <2>1. now' \in Nat /\ stream' \in Seq(Item)
    <3>1. CASE ~warm
      <4>1. now' \in Nat
        BY ONLY <1>2, <1>5, <3>1
      <4>2. 1 + SetupTime \in Nat /\ Work(1 + SetupTime) \in Item
        BY <1>2, Items
      <4> QED
        BY <1>2, <1>5, <3>1, <4>1, <4>2, Appends
    <3> QED
      BY <1>6, <3>1
  <2> QED
    BY <1>0, <1>1, <1>2, <2>1, Zenon DEF TimingTypes
<1>8. StreamFits'
  <2>1. ASSUME phase = "first"
        PROVE  /\ launches' = 0
               /\ \/ stream' = <<Work(1 + SetupTime)>> /\ now' = began
                  \/ stream' = <<>> /\ now' = began + 1 + SetupTime
    <3>1. ~warm /\ launches = 1
      BY <1>0, <1>1, <2>1 DEF StreamFits
    <3>2. Append(<<>>, Work(1 + SetupTime)) = <<Work(1 + SetupTime)>>
      OBVIOUS
    <3>3. /\ stream = <<>> /\ now = began
          /\ \/ now' = now + (1 + SetupTime) /\ stream' = stream
             \/ now' = now /\ stream' = Append(stream, Work(1 + SetupTime))
      BY <1>5, <3>1
    <3>4. launches' = 0 /\ now + (1 + SetupTime) = now + 1 + SetupTime
      BY <1>1, <1>2, <3>1
    <3> QED
      BY <3>2, <3>3, <3>4
  <2>2. ASSUME phase \in {"warmup", "wall"}
        PROVE  Calls(stream') /\ now' + Len(stream') + launches' = now + Len(stream) + launches
    <3>1. warm /\ Calls(stream)
      BY <1>0, <2>2 DEF StreamFits
    <3> QED
      BY <1>6, <3>1
  <2> QED
    BY <1>0, <1>1, <1>2, <2>1, <2>2 DEF StreamFits
<1>9. EventsFit'
  <2>1. ASSUME phase = "events" PROVE warm
    BY <1>0, <2>1 DEF StreamFits
  <2> QED
    BY <1>0, <1>1, <1>2, <1>6, <2>1 DEF EventsFit
<1>10. ReplaysFit'
  BY <1>1, <1>2 DEF ReplaysFit
<1>11. DeviceFits'
  <2>1. timing.device = "cpu" => stream' = <<>>
    BY <1>3, <1>5
  <2> QED
    BY <1>0, <1>1, <2>1 DEF DeviceFits
<1>12. SelectionFits' /\ SamplesFit'
  BY <1>0, <1>1 DEF SelectionFits, SamplesFit
<1> QED
  BY <1>7, <1>8, <1>9, <1>10, <1>11, <1>12 DEF TimingInv

(* The preparation of an implementation: the host times its first call and the  *)
(* warm-up when the device is idle, ...                                       *)
LEMMA WarmUpStep ==
  ASSUME TimingInv, CallFirst \/ WarmUp \/ EndWarmUp
  PROVE  TimingInv'
<1>0. /\ TimingTypes /\ StreamFits /\ EventsFit /\ ReplaysFit
      /\ DeviceFits /\ SelectionFits /\ SamplesFit
  BY DEF TimingInv
<1>1. ASSUME CallFirst PROVE TimingInv'
  <2>1. /\ phase = "new" /\ phase' = "first" /\ timing' \in TimingSettings
        /\ began' = now /\ launches' = 1 /\ stream = <<>>
        /\ UNCHANGED <<stream, now, warm, graph, marks, selection, durations, samples>>
    BY <1>1 DEF CallFirst, Section, TimingSettings, Synchronized
  <2>2. ~warm /\ graph = NoGraph /\ samples = <<>>
    BY <1>0, <2>1 DEF StreamFits, SelectionFits, SamplesFit, Prepared
  <2>3. TimingTypes'
    <3>1. began' \in Nat /\ launches' \in Nat
          /\ phase' \in {"new", "first", "warmup", "prepare", "unsupported"} \cup Prepared
      BY <1>0, <2>1 DEF TimingTypes
    <3> QED
      BY <1>0, <2>1, <3>1, Zenon DEF TimingTypes
  <2>4. StreamFits' /\ EventsFit' /\ ReplaysFit'
    BY <2>1, <2>2 DEF StreamFits, EventsFit, ReplaysFit
  <2>5. DeviceFits' /\ SelectionFits'
    BY <2>1, <2>2 DEF DeviceFits, SelectionFits, Prepared
  <2>6. SamplesFit'
    <3>1. DOMAIN samples' = {} /\ ~(samples' # <<>>)
      BY <2>1, <2>2
    <3>2. phase' = "first" /\ phase' \notin Prepared
      BY <2>1 DEF Prepared
    <3> QED
      BY ONLY <3>1, <3>2 DEF SamplesFit, Prepared
  <2> QED
    BY <2>3, <2>4, <2>5, <2>6 DEF TimingInv
<1>2. ASSUME WarmUp PROVE TimingInv'
  <2>1. /\ phase = "first" /\ phase' = "warmup" /\ launches = 0 /\ stream = <<>>
        /\ began' = now /\ launches' = timing.warmup
        /\ durations' = [durations EXCEPT !.first = now - began]
        /\ UNCHANGED <<timing, stream, now, warm, graph, marks, selection, samples>>
    BY <1>2 DEF WarmUp, Section, Synchronized
  <2>2. /\ warm /\ now = began + 1 + SetupTime /\ Len(stream) = 0
        /\ timing \in TimingSettings /\ timing.warmup \in Nat
        /\ now \in Nat /\ began \in Nat /\ SetupTime \in Nat
        /\ durations \in [first : Int, warmup : Int]
    <3>1. warm /\ now = began + 1 + SetupTime
      <4>1. stream # <<Work(1 + SetupTime)>>
        BY <2>1
      <4> QED
        BY <1>0, <2>1, <4>1 DEF StreamFits
    <3>2. Len(stream) = 0
      BY ONLY <2>1, NothingOn
    <3>3. timing \in TimingSettings /\ timing.warmup \in Nat
      BY <1>0, <2>1, Sizes DEF TimingTypes, TimingSettings
    <3> QED
      BY <1>0, <3>1, <3>2, <3>3, Sizes DEF TimingTypes
  <2>3. /\ durations'.first = 1 + SetupTime /\ durations' \in [first : Int, warmup : Int]
    BY <2>1, <2>2
  <2>4. TimingTypes'
    <3>1. phase' \in {"new", "first", "warmup", "prepare", "unsupported"} \cup Prepared
      BY <2>1
    <3> QED
      BY <1>0, <2>1, <2>2, <2>3, <3>1, Zenon DEF TimingTypes
  <2>5. StreamFits'
    <3>1. Calls(stream') /\ now' + Len(stream') + launches' = began' + timing'.warmup
      BY <2>1, <2>2, NothingOn
    <3> QED
      BY <2>1, <2>2, <3>1 DEF StreamFits
  <2>6. EventsFit' /\ ReplaysFit'
    BY <2>1 DEF EventsFit, ReplaysFit
  <2>7. DeviceFits' /\ SelectionFits'
    BY <1>0, <2>1 DEF DeviceFits, SelectionFits, Prepared
  <2>8. SamplesFit'
    BY <1>0, <2>1, <2>3 DEF SamplesFit, Prepared
  <2> QED
    BY <2>4, <2>5, <2>6, <2>7, <2>8 DEF TimingInv
<1>3. ASSUME EndWarmUp PROVE TimingInv'
  <2>1. /\ phase = "warmup" /\ phase' = "prepare" /\ launches = 0 /\ stream = <<>>
        /\ durations' = [durations EXCEPT !.warmup = now - began]
        /\ UNCHANGED <<timing, stream, now, began, launches, warm, graph, marks, selection,
                       samples>>
    BY <1>3 DEF EndWarmUp, Synchronized
  <2>2. /\ now \in Nat /\ began \in Nat /\ durations \in [first : Int, warmup : Int]
        /\ now = began + timing.warmup /\ timing.warmup \in Nat /\ warm
    <3>1. Len(stream) = 0
      BY ONLY <2>1, NothingOn
    <3>2. timing.warmup \in Nat
      BY <1>0, <2>1, Sizes DEF TimingTypes, TimingSettings
    <3>3. warm /\ now + Len(stream) + launches = began + timing.warmup
      BY <1>0, <2>1 DEF StreamFits
    <3>4. now \in Nat /\ began \in Nat /\ durations \in [first : Int, warmup : Int]
      BY <1>0 DEF TimingTypes
    <3>5. now + 0 + 0 = began + timing.warmup
      BY ONLY <2>1, <3>1, <3>3
    <3> QED
      BY <3>2, <3>3, <3>4, <3>5
  <2>3. /\ durations'.warmup = timing.warmup /\ durations'.first = durations.first
        /\ durations' \in [first : Int, warmup : Int]
    BY <2>1, <2>2
  <2>4. TimingTypes'
    <3>1. phase' \in {"new", "first", "warmup", "prepare", "unsupported"} \cup Prepared
      BY <2>1
    <3> QED
      BY <1>0, <2>1, <2>3, <3>1, Zenon DEF TimingTypes
  <2>5. StreamFits' /\ EventsFit' /\ ReplaysFit'
    BY <2>1, <2>2 DEF StreamFits, EventsFit, ReplaysFit
  <2>6. DeviceFits' /\ SelectionFits'
    BY <1>0, <2>1 DEF DeviceFits, SelectionFits, Prepared
  <2>7. SamplesFit'
    BY <1>0, <2>1, <2>3 DEF SamplesFit, Prepared
  <2> QED
    BY <2>4, <2>5, <2>6, <2>7 DEF TimingInv
<1> QED
  BY <1>1, <1>2, <1>3

(* ... and then its timer is chosen.                                          *)
LEMMA PrepareStep ==
  ASSUME TimingInv, PrepareSimple \/ CaptureGraph \/ FailCapture \/ EndCapture
  PROVE  TimingInv'
<1>0. /\ TimingTypes /\ StreamFits /\ EventsFit /\ ReplaysFit
      /\ DeviceFits /\ SelectionFits /\ SamplesFit
  BY DEF TimingInv
<1>1. phase = "prepare" => /\ warm /\ stream = <<>> /\ launches = 0 /\ samples = <<>>
                           /\ graph = NoGraph /\ timing \in TimingSettings
  BY <1>0 DEF StreamFits, SamplesFit, SelectionFits, TimingTypes, Prepared
<1>2. ASSUME PrepareSimple \/ FailCapture PROVE TimingInv'
  <2>1. /\ phase = "prepare" /\ phase' \in {"ready", "unsupported"}
        /\ UNCHANGED <<timing, stream, now, began, launches, warm, graph, marks, durations,
                       samples>>
    BY <1>2 DEF PrepareSimple, FailCapture
  <2>2. phase' = "ready" =>
           /\ timing.device = "cpu" => timing.timer = "wall_clock"
           /\ \/ /\ timing.timer \in {"wall_clock", "cuda_event"}
                 /\ selection' = [effective |-> timing.timer, reason |-> FALSE]
              \/ /\ timing.timer = "auto" /\ timing.device = "stream"
                 /\ selection' = [effective |-> "cuda_event", reason |-> TRUE]
    BY <1>2 DEF PrepareSimple, FailCapture, Selects
  <2>3. TimingTypes'
    <3>1. phase' \in {"new", "first", "warmup", "prepare", "unsupported"} \cup Prepared
      BY <2>1 DEF Prepared
    <3> QED
      BY <1>0, <1>1, <2>1, <3>1, Zenon DEF TimingTypes
  <2>4. StreamFits' /\ EventsFit' /\ ReplaysFit'
    BY <1>1, <2>1 DEF StreamFits, EventsFit, ReplaysFit
  <2>5. DeviceFits' /\ SelectionFits'
    BY <1>1, <2>1, <2>2 DEF DeviceFits, SelectionFits, Prepared
  <2>6. SamplesFit'
    <3>1. DOMAIN samples' = {} /\ ~(samples' # <<>>)
      BY <1>1, <2>1
    <3>2. durations'.first = 1 + SetupTime /\ durations'.warmup = timing'.warmup
      BY <1>0, <2>1 DEF SamplesFit
    <3> QED
      BY ONLY <3>1, <3>2 DEF SamplesFit
  <2> QED
    BY <2>3, <2>4, <2>5, <2>6 DEF TimingInv
<1>3. ASSUME CaptureGraph PROVE TimingInv'
  <2>1. /\ phase = "prepare" /\ phase' = "capture"
        /\ timing.timer \in {"cuda_graph", "auto"} /\ timing.device = "graphs"
        /\ graph' = [calls |-> timing.inner, replayed |-> TRUE]
        /\ stream' = Append(stream, Work(timing.inner + SetupTime))
        /\ selection' = [effective |-> "cuda_graph", reason |-> FALSE]
        /\ UNCHANGED <<timing, now, began, launches, warm, marks, durations, samples>>
    BY <1>3 DEF CaptureGraph, Selects
  <2>2. stream' \in Seq(Item)
    <3>0. timing \in TimingSettings
      BY <1>1, <2>1
    <3>00. timing.inner \in Nat /\ SetupTime \in Nat
      BY ONLY <3>0, Sizes DEF TimingSettings
    <3>1. timing.inner + SetupTime \in Nat
      BY ONLY <3>00
    <3>2. Work(timing.inner + SetupTime) \in Item /\ stream \in Seq(Item)
      BY <1>0, <3>1, Items DEF TimingTypes
    <3> QED
      BY <2>1, <3>2, Appends
  <2>3. TimingTypes'
    <3>1. phase' \in {"new", "first", "warmup", "prepare", "unsupported"} \cup Prepared
      BY <2>1 DEF Prepared
    <3> QED
      BY <1>0, <1>1, <2>1, <2>2, <3>1, Zenon DEF TimingTypes
  <2>4. StreamFits' /\ EventsFit' /\ ReplaysFit'
    BY <1>1, <2>1 DEF StreamFits, EventsFit, ReplaysFit
  <2>5. DeviceFits' /\ SelectionFits'
    <3>1. graph' # NoGraph
      BY <2>1 DEF NoGraph
    <3> QED
      BY <2>1, <3>1 DEF DeviceFits, SelectionFits, Prepared
  <2>6. SamplesFit'
    <3>1. DOMAIN samples' = {} /\ ~(samples' # <<>>)
      BY <1>1, <2>1
    <3>2. durations'.first = 1 + SetupTime /\ durations'.warmup = timing'.warmup
      BY <1>0, <2>1 DEF SamplesFit
    <3> QED
      BY ONLY <3>1, <3>2 DEF SamplesFit
  <2> QED
    BY <2>3, <2>4, <2>5, <2>6 DEF TimingInv
<1>4. ASSUME EndCapture PROVE TimingInv'
  <2>1. /\ phase = "capture" /\ phase' = "ready" /\ stream = <<>>
        /\ UNCHANGED <<timing, stream, now, began, launches, warm, graph, marks, selection,
                       durations, samples>>
    BY <1>4 DEF EndCapture, Synchronized
  <2>2. TimingTypes'
    <3>1. phase' \in {"new", "first", "warmup", "prepare", "unsupported"} \cup Prepared
      BY <2>1 DEF Prepared
    <3> QED
      BY <1>0, <2>1, <3>1, Zenon DEF TimingTypes
  <2>3. StreamFits' /\ EventsFit' /\ ReplaysFit'
    BY <1>0, <2>1 DEF StreamFits, EventsFit, ReplaysFit
  <2>4. DeviceFits' /\ SelectionFits' /\ SamplesFit'
    BY <1>0, <2>1 DEF DeviceFits, SelectionFits, SamplesFit, Prepared
  <2> QED
    BY <2>2, <2>3, <2>4 DEF TimingInv
<1> QED
  BY <1>2, <1>3, <1>4

-----------------------------------------------------------------------------
(* A sample is begun on an idle device, ...                                    *)
LEMMA BeginSampleStep ==
  ASSUME TimingInv, BeginWallSample \/ BeginEventSample \/ RecordEnd \/ ReplaySample
  PROVE  TimingInv'
<1>0. /\ TimingTypes /\ StreamFits /\ EventsFit /\ ReplaysFit
      /\ DeviceFits /\ SelectionFits /\ SamplesFit
  BY DEF TimingInv
<1>1. /\ phase \in {"ready", "events"} /\ warm /\ timing \in TimingSettings
      /\ timing.inner \in Nat /\ now \in Nat
      /\ stream \in Seq(Item)
      /\ phase = "ready" => stream = <<>> /\ launches = 0
  <2>1. phase \in {"ready", "events"}
    BY DEF BeginWallSample, BeginEventSample, RecordEnd, ReplaySample
  <2>2. timing \in TimingSettings /\ now \in Nat /\ stream \in Seq(Item)
    BY <1>0, <2>1 DEF TimingTypes
  <2>3. timing.inner \in Nat
    BY <2>2, Sizes DEF TimingSettings
  <2> QED
    BY <1>0, <2>1, <2>2, <2>3 DEF StreamFits
<1>2. /\ phase' \in {"wall", "events", "cuda_event", "cuda_graph"}
      /\ UNCHANGED <<timing, now, warm, marks, selection, durations, samples>>
  BY DEF BeginWallSample, BeginEventSample, RecordEnd, ReplaySample, Section
<1>3. SamplesFit'
  BY <1>0, <1>1, <1>2 DEF SamplesFit, Prepared
<1>4. ASSUME stream' \in Seq(Item), began' \in Nat, launches' \in Nat PROVE TimingTypes'
  <2>1. phase' \in {"new", "first", "warmup", "prepare", "unsupported"} \cup Prepared
    BY <1>2 DEF Prepared
  <2> QED
    BY <1>0, <1>1, <1>2, <1>4, <2>1, Zenon DEF TimingTypes
<1>5. ASSUME BeginWallSample PROVE TimingInv'
  <2>1. /\ phase = "ready" /\ phase' = "wall" /\ timing.timer = "wall_clock"
        /\ began' = now /\ launches' = timing.inner /\ stream' = stream /\ graph' = graph
    BY <1>5 DEF BeginWallSample, Section
  <2>2. TimingTypes'
    BY <1>1, <1>4, <2>1
  <2>3. StreamFits'
    <3>1. Calls(stream') /\ Len(stream') = 0
      BY ONLY <1>1, <2>1, NothingOn
    <3>2. now' + Len(stream') + launches' = began' + timing'.inner
      BY ONLY <1>1, <1>2, <2>1, <3>1
    <3> QED
      BY <1>1, <1>2, <2>1, <3>1, <3>2 DEF StreamFits
  <2>4. EventsFit' /\ ReplaysFit'
    BY <2>1 DEF EventsFit, ReplaysFit
  <2>5. DeviceFits' /\ SelectionFits'
    BY <1>0, <1>1, <1>2, <2>1 DEF DeviceFits, SelectionFits, Prepared
  <2> QED
    BY <1>3, <2>2, <2>3, <2>4, <2>5 DEF TimingInv
<1>6. ASSUME BeginEventSample PROVE TimingInv'
  <2>1. /\ phase = "ready" /\ phase' = "events" /\ timing.timer # "wall_clock"
        /\ graph = NoGraph /\ graph' = graph
        /\ began' = now /\ launches' = timing.inner /\ stream' = Append(stream, Event("start"))
    BY <1>6 DEF BeginEventSample, Section
  <2>2. stream' \in Seq(Item) /\ StartThenCalls(stream') /\ Len(stream') = 1
    <3>1. Event("start") \in Item /\ Len(stream) = 0
      BY <1>1, <2>1, Items, NothingOn
    <3>2. stream' \in Seq(Item) /\ Len(stream') = Len(stream) + 1
      BY ONLY <1>1, <2>1, <3>1, Appends
    <3>3. StartThenCalls(stream')
      BY <1>1, <2>1, EventRecorded
    <3> QED
      BY <3>1, <3>2, <3>3
  <2>3. TimingTypes'
    BY <1>1, <1>4, <2>1, <2>2
  <2>4. StreamFits' /\ ReplaysFit'
    BY <1>1, <1>2, <2>1 DEF StreamFits, ReplaysFit
  <2>5. EventsFit'
    <3>1. Len(stream') + launches' = timing'.inner + 1
      BY ONLY <1>1, <1>2, <2>1, <2>2
    <3> QED
      BY <2>1, <2>2, <3>1 DEF EventsFit
  <2>6. DeviceFits' /\ SelectionFits'
    BY <1>0, <1>1, <1>2, <2>1 DEF DeviceFits, SelectionFits, Prepared
  <2> QED
    BY <1>3, <2>3, <2>4, <2>5, <2>6 DEF TimingInv
<1>7. ASSUME RecordEnd PROVE TimingInv'
  <2>1. /\ phase = "events" /\ phase' = "cuda_event" /\ launches = 0 /\ launches' = launches
        /\ stream' = Append(stream, Event("end")) /\ began' = began /\ graph' = graph
    BY <1>7 DEF RecordEnd
  <2>2. /\ stream' \in Seq(Item) /\ Len(stream') = Len(stream) + 1 /\ Len(stream) \in Nat
        /\ marks.start \in Nat
    BY <1>0, <1>1, <2>1, Items, Appends DEF TimingTypes
  <2>3. TimingTypes'
    BY <1>0, <1>4, <2>1, <2>2 DEF TimingTypes
  <2>4. StreamFits' /\ ReplaysFit'
    BY <1>1, <1>2, <2>1 DEF StreamFits, ReplaysFit
  <2>5. EventsFit'
    <3>1. CASE StartThenCalls(stream) /\ Len(stream) + launches = timing.inner + 1
      <4>1. StartCallsEnd(stream')
        BY <1>1, <2>1, <3>1, EventRecorded
      <4>2. Len(stream') = timing'.inner + 2
        BY ONLY <1>1, <1>2, <2>1, <2>2, <3>1
      <4> QED
        BY <2>1, <4>1, <4>2 DEF EventsFit
    <3>2. CASE Calls(stream) /\ now + Len(stream) + launches = marks.start + timing.inner
      <4>1. CallsThenEnd(stream')
        BY <1>1, <2>1, <3>2, EventRecorded
      <4>2. now' + Len(stream') = marks'.start + timing'.inner + 1
        BY ONLY <1>1, <1>2, <2>1, <2>2, <3>2
      <4> QED
        BY <2>1, <4>1, <4>2 DEF EventsFit
    <3> QED
      BY <1>0, <2>1, <3>1, <3>2 DEF EventsFit
  <2>6. DeviceFits' /\ SelectionFits'
    BY <1>0, <1>1, <1>2, <2>1 DEF DeviceFits, SelectionFits, Prepared
  <2> QED
    BY <1>3, <2>3, <2>4, <2>5, <2>6 DEF TimingInv
<1>8. ASSUME ReplaySample PROVE TimingInv'
  <2>1. /\ phase = "ready" /\ phase' = "cuda_graph" /\ graph # NoGraph
        /\ stream' = stream \o <<Event("start"), ReplayWork, Event("end")>>
        /\ graph' = [graph EXCEPT !.replayed = TRUE]
        /\ began' = began /\ launches' = launches
    BY <1>8 DEF ReplaySample
  <2>2. graph = [calls |-> timing.inner, replayed |-> TRUE] /\ timing.device = "graphs"
    BY <1>0, <2>1 DEF SelectionFits, Prepared
  <2>3. ReplayWork = Work(timing.inner) /\ graph' = graph
    <3>1. graph.replayed = TRUE /\ graph.calls = timing.inner
      BY ONLY <2>2
    <3>2. [graph EXCEPT !.replayed = TRUE] = graph
      <4>1. graph \in [calls : Nat, replayed : BOOLEAN]
        BY ONLY <1>1, <2>2
      <4> QED
        BY ONLY <3>1, <4>1
    <3>3. ReplayWork = Work(timing.inner)
      BY ONLY <3>1 DEF ReplayWork
    <3> QED
      BY ONLY <2>1, <3>2, <3>3
  <2>4. stream' \in Seq(Item) /\ StartReplayEnd(stream', timing.inner)
    <3> DEFINE s == <<Event("start"), Work(timing.inner), Event("end")>>
    <3>1. Event("start") \in Item /\ Event("end") \in Item /\ Work(timing.inner) \in Item
      BY <1>1, Items
    <3>2. s \in Seq(Item) /\ StartReplayEnd(s, timing.inner)
      BY <3>1 DEF StartReplayEnd
    <3> HIDE DEF s
    <3>3. stream' = <<>> \o s
      BY <1>1, <2>1, <2>3 DEF s
    <3>4. <<>> \o s = s
      BY <3>2, ConcatEmptySeq
    <3> QED
      BY ONLY <3>2, <3>3, <3>4
  <2>5. TimingTypes'
    BY <1>0, <1>4, <2>1, <2>4 DEF TimingTypes
  <2>6. StreamFits' /\ EventsFit'
    BY <1>1, <1>2, <2>1 DEF StreamFits, EventsFit
  <2>7. ReplaysFit'
    BY <1>2, <2>4 DEF ReplaysFit
  <2>8. DeviceFits' /\ SelectionFits'
    BY <1>0, <1>2, <2>1, <2>2, <2>3 DEF DeviceFits, SelectionFits, Prepared
  <2> QED
    BY <1>3, <2>5, <2>6, <2>7, <2>8 DEF TimingInv
<1> QED
  BY <1>5, <1>6, <1>7, <1>8

(* ... and ends on one: what the device did since is its calls.                *)
LEMMA EndSampleStep ==
  ASSUME TimingInv, EndWallSample \/ EndEventSample
  PROVE  TimingInv'
<1>0. /\ TimingTypes /\ StreamFits /\ EventsFit /\ ReplaysFit
      /\ DeviceFits /\ SelectionFits /\ SamplesFit
  BY DEF TimingInv
<1>1. /\ phase \in {"wall", "cuda_event", "cuda_graph"} /\ phase' = "ready"
      /\ stream = <<>> /\ launches = 0
      /\ UNCHANGED <<timing, stream, now, began, launches, warm, graph, marks, selection,
                     durations>>
  BY <1>0 DEF EndWallSample, EndEventSample, Sampled, Synchronized, StreamFits
<1>2. /\ timing.inner \in Nat /\ now \in Nat /\ began \in Nat
      /\ marks.start \in Nat /\ marks.end \in Nat /\ Len(stream) = 0
  <2>1. timing \in TimingSettings /\ now \in Nat /\ began \in Nat
        /\ marks \in [start : Nat, end : Nat]
    BY <1>0, <1>1 DEF TimingTypes
  <2>2. timing.inner \in Nat
    BY <2>1, Sizes DEF TimingSettings
  <2>3. Len(stream) = 0
    BY ONLY <1>1, NothingOn
  <2> QED
    BY <2>1, <2>2, <2>3
<1>3. samples' = Append(samples, [timer |-> selection.effective, elapsed |-> timing.inner])
  <2>1. CASE phase = "wall"
    <3>1. now + Len(stream) + launches = began + timing.inner
      BY <1>0, <2>1 DEF StreamFits
    <3>2. now - began = timing.inner
      BY ONLY <1>1, <1>2, <3>1
    <3>3. selection.effective = "wall_clock"
      BY <1>0, <2>1 DEF SelectionFits, Prepared
    <3>4. samples' = Append(samples, [timer |-> "wall_clock", elapsed |-> now - began])
      BY <2>1 DEF EndWallSample, EndEventSample, Sampled
    <3> QED
      BY ONLY <3>2, <3>3, <3>4
  <2>2. CASE phase = "cuda_event"
    <3>1. marks.end = marks.start + timing.inner
      BY <1>0, <1>2, <2>2 DEF EventsFit, StartCallsEnd, CallsThenEnd
    <3>2. marks.end - marks.start = timing.inner
      BY ONLY <1>2, <3>1
    <3>3. selection.effective = "cuda_event"
      BY <1>0, <2>2 DEF SelectionFits, Prepared, NoGraph
    <3>4. samples' = Append(samples, [timer |-> phase, elapsed |-> marks.end - marks.start])
      BY <2>2 DEF EndWallSample, EndEventSample, Sampled
    <3> QED
      BY ONLY <2>2, <3>2, <3>3, <3>4
  <2>3. CASE phase = "cuda_graph"
    <3>1. marks.end = marks.start + timing.inner
      BY <1>0, <1>2, <2>3 DEF ReplaysFit, StartReplayEnd, ReplayEnd, CallsThenEnd
    <3>2. marks.end - marks.start = timing.inner
      BY ONLY <1>2, <3>1
    <3>3. selection.effective = "cuda_graph"
      BY <1>0, <2>3 DEF SelectionFits, Prepared
    <3>4. samples' = Append(samples, [timer |-> phase, elapsed |-> marks.end - marks.start])
      BY <2>3 DEF EndWallSample, EndEventSample, Sampled
    <3> QED
      BY ONLY <2>3, <3>2, <3>3, <3>4
  <2> QED
    BY <1>1, <2>1, <2>2, <2>3
<1>4. /\ samples \in Seq([timer : TimerName, elapsed : Int])
      /\ selection.effective \in TimerName
  BY <1>0, <1>1 DEF TimingTypes, SelectionFits, Prepared, TimerName
<1>5. /\ samples' \in Seq([timer : TimerName, elapsed : Int])
      /\ \A i \in DOMAIN samples' :
            samples'[i].elapsed = timing.inner /\ samples'[i].timer = selection.effective
  <2> DEFINE new == [timer |-> selection.effective, elapsed |-> timing.inner]
  <2>1. new \in [timer : TimerName, elapsed : Int]
    BY <1>2, <1>4
  <2>2. new.elapsed = timing.inner /\ new.timer = selection.effective
    OBVIOUS
  <2>3. \A i \in DOMAIN samples :
           samples[i].elapsed = timing.inner /\ samples[i].timer = selection.effective
    BY <1>0 DEF SamplesFit
  <2>4. samples' = Append(samples, new)
    BY <1>3
  <2> HIDE DEF new
  <2>5. /\ samples' \in Seq([timer : TimerName, elapsed : Int])
        /\ DOMAIN samples = 1..Len(samples) /\ DOMAIN samples' = 1..(Len(samples) + 1)
        /\ Len(samples) \in Nat
        /\ \A i \in 1..Len(samples) : samples'[i] = samples[i]
        /\ samples'[Len(samples) + 1] = new
    BY ONLY <1>4, <2>1, <2>4
  <2> QED
    BY ONLY <2>2, <2>3, <2>5
<1>6. TimingTypes'
  <2>1. phase' \in {"new", "first", "warmup", "prepare", "unsupported"} \cup Prepared
    BY <1>1 DEF Prepared
  <2> QED
    BY <1>0, <1>1, <1>5, <2>1, Zenon DEF TimingTypes
<1>7. StreamFits' /\ EventsFit' /\ ReplaysFit'
  BY <1>0, <1>1 DEF StreamFits, EventsFit, ReplaysFit
<1>8. DeviceFits' /\ SelectionFits'
  BY <1>0, <1>1 DEF DeviceFits, SelectionFits, Prepared
<1>9. SamplesFit'
  <2>1. durations.first = 1 + SetupTime /\ durations.warmup = timing.warmup
    BY <1>0, <1>1 DEF SamplesFit, Prepared
  <2>2. phase' \in Prepared
    BY <1>1 DEF Prepared
  <2> QED
    BY ONLY <1>1, <1>5, <2>1, <2>2 DEF SamplesFit
<1> QED
  BY <1>6, <1>7, <1>8, <1>9 DEF TimingInv

-----------------------------------------------------------------------------
(* What waits on the stream, the clock and the marks make up the sample that is *)
(* being taken, in every reachable state.                                     *)
THEOREM TimingInvariant == TimingSpec => []TimingInv
<1>1. ASSUME TimingInv, UNCHANGED timingVars PROVE TimingInv'
  <2>1. /\ TimingTypes /\ StreamFits /\ EventsFit /\ ReplaysFit
        /\ DeviceFits /\ SelectionFits /\ SamplesFit
    BY <1>1 DEF TimingInv
  <2>2. UNCHANGED <<timing, phase, stream, now, began, launches, warm, graph, marks,
                    selection, durations, samples>>
    BY <1>1 DEF timingVars
  <2>3. TimingTypes' /\ StreamFits'
    BY <2>1, <2>2, Zenon DEF TimingTypes, StreamFits, Calls
  <2>4. EventsFit' /\ ReplaysFit'
    BY <2>1, <2>2, Zenon DEF EventsFit, ReplaysFit
  <2>5. DeviceFits' /\ SelectionFits' /\ SamplesFit'
    BY <2>1, <2>2, Zenon DEF DeviceFits, SelectionFits, SamplesFit
  <2> QED
    BY <2>3, <2>4, <2>5 DEF TimingInv
<1>2. TimingInv /\ [TimingNext]_timingVars => TimingInv'
  BY <1>1, DeviceStep, LaunchStep, WarmUpStep, PrepareStep, BeginSampleStep, EndSampleStep,
     Zenon DEF TimingNext
<1> QED
  BY <1>2, TimingInitInv, PTL DEF TimingSpec

(* A raw sample is charged with its own calls and with no call, no compilation  *)
(* and no set-up of a graph from before it, whatever the timer and however late *)
(* the device (AutoTimer, CudaGraphTimer, CudaEventTimer, WallClockTimer and   *)
(* _prepare_implementation), and the result names the timer that took it.      *)
THEOREM SamplesStaySteady == TimingSpec => []SamplesAreSteady
<1>1. ASSUME TimingInv PROVE SamplesAreSteady
  <2>1. TimingTypes /\ SelectionFits /\ SamplesFit
    BY <1>1 DEF TimingInv
  <2>2. samples # <<>> =>
          /\ durations.warmup = timing.warmup
          /\ timing.timer = "auto" => (selection.reason <=> timing.device = "stream")
          /\ timing.timer # "auto" => selection = [effective |-> timing.timer, reason |-> FALSE]
    <3> SUFFICES ASSUME samples # <<>>, phase \in Prepared
                 PROVE  /\ durations.warmup = timing.warmup
                        /\ timing.timer = "auto" => (selection.reason <=> timing.device = "stream")
                        /\ timing.timer # "auto" =>
                              selection = [effective |-> timing.timer, reason |-> FALSE]
      BY <2>1 DEF SamplesFit
    <3>1. durations.warmup = timing.warmup
      BY <2>1 DEF SamplesFit
    <3> QED
      BY <2>1, <3>1 DEF SelectionFits
  <2> QED
    BY <2>1, <2>2 DEF SamplesAreSteady, SamplesFit
<1> QED
  BY <1>1, TimingInvariant, PTL

-----------------------------------------------------------------------------
(* The comparators.  A value is a number that is finite or one of three others. *)
LEMMA Values ==
  /\ \A v \in Finite : v \in 0..9 /\ IsFinite(v)
  /\ \A v \in Score : v \in 0..9 /\ IsFinite(v)
  /\ \A v \in Value : v \in 0..12 /\ (IsFinite(v) => v \in 0..9)
<1>1. Finite \subseteq 0..9 /\ Score \subseteq 0..9
  BY ComparisonAssumption
<1> QED
  BY <1>1 DEF Value, IsFinite, NaN, Inf, NegInf

LEMMA ThePaths ==
  ASSUME NEW P \in SUBSET Path
  PROVE  IsFiniteSet(P) /\ Cardinality(P) \in Nat /\ (Cardinality(P) = 0 <=> P = {})
<1>1. IsFiniteSet({"output.a"}) /\ Path = {"output.a"} \cup {"output.b"}
  BY FS_Singleton DEF Path
<1>2. IsFiniteSet(Path)
  BY <1>1, FS_AddElement
<1>3. IsFiniteSet(P)
  BY <1>2, FS_Subset
<1> QED
  BY <1>3, FS_CardinalityType, FS_EmptySet

(* What is exactly equal, and has no NaN, passes under every tolerance; a wider   *)
(* tolerance passes more; and what is not finite passes only for itself.         *)
LEMMA MismatchFacts ==
  ASSUME NEW v \in Value, NEW w \in Value, NEW t \in Tolerance
  PROVE  /\ ~Differ(v, w) => ~Mismatches(v, w, t)
         /\ ~Mismatches(v, w, t) /\ ~(IsFinite(v) /\ IsFinite(w)) => v = w
         /\ \A u \in Tolerance :
               /\ u.atol >= t.atol /\ u.rtol >= t.rtol /\ (t.equalNan => u.equalNan)
               /\ ~Mismatches(v, w, t)
               => ~Mismatches(v, w, u)
<1>1. \A u \in Tolerance : u.atol \in 0..1 /\ u.rtol \in 0..1 /\ u.equalNan \in BOOLEAN
  BY DEF Tolerance
<1>2. v \in 0..12 /\ w \in 0..12 /\ (IsFinite(v) => v \in 0..9) /\ (IsFinite(w) => w \in 0..9)
  BY Values
<1>3. CASE IsFinite(v) /\ IsFinite(w)
  <2>1. \A u \in Tolerance : Mismatches(v, w, u) <=> Distance(v, w) > u.atol + u.rtol * v
    BY <1>3 DEF Mismatches, Exceeds
  <2>2. Distance(v, w) \in Nat /\ (v = w => Distance(v, w) = 0)
    BY <1>2 DEF Distance
  <2>3. \A a, b \in 0..1 : a * v \in Nat /\ (a >= b => a * v >= b * v)
    <3>1. \A a \in 0..1 : a = 0 \/ a = 1
      OBVIOUS
    <3>2. 0 * v = 0 /\ 1 * v = v /\ v \in Nat
      BY <1>2
    <3> QED
      BY <3>1, <3>2
  <2> QED
    BY <1>1, <1>3, <2>1, <2>2, <2>3 DEF Differ
<1>4. CASE ~(IsFinite(v) /\ IsFinite(w))
  <2>1. \A u \in Tolerance :
           Mismatches(v, w, u) <=> ~(v = NaN /\ w = NaN /\ u.equalNan) /\ Differ(v, w)
    BY <1>4 DEF Mismatches
  <2> QED
    BY <1>1, <2>1 DEF Differ
<1> QED
  BY <1>3, <1>4


(* The leaves of one comparison, and what the comparators make of them.        *)
Leaf == [contract: {"float", "half"}, value: Value]

LEMMA FailedOfNothing ==
  ASSUME NEW ref \in [Path -> Leaf], NEW P \in SUBSET Path, NEW cand \in [P -> Leaf]
  PROVE  /\ \A t \in Tolerance :
               Floating(ref, cand, t).passed
                  <=> /\ SameStructure(ref, cand)
                      /\ \A p \in Path : ~Mismatches(ref[p].value, cand[p].value, t)
         /\ Exact(ref, cand).passed
               <=> /\ SameStructure(ref, cand)
                   /\ \A p \in Path : ~Differ(ref[p].value, cand[p].value)
<1>1. DOMAIN ref = Path
  OBVIOUS
<1>2. ASSUME NEW t \in Tolerance
      PROVE  Floating(ref, cand, t).passed
                <=> /\ SameStructure(ref, cand)
                    /\ \A p \in Path : ~Mismatches(ref[p].value, cand[p].value, t)
  BY <1>1 DEF Floating, FailedPaths
<1>3. Exact(ref, cand).passed
         <=> /\ SameStructure(ref, cand)
             /\ \A p \in Path : ~Differ(ref[p].value, cand[p].value)
  BY <1>1 DEF Exact, FailedPaths
<1> QED
  BY <1>2, <1>3

(* A comparison that fails shows it in the row of a path.                      *)
LEMMA FailureShows ==
  ASSUME NEW ref \in [Path -> Leaf], NEW cand, NEW t \in Tolerance
  PROVE  /\ Exact(ref, cand).passed <=> \A p \in Path : RowPasses(p, Exact(ref, cand))
         /\ Floating(ref, cand, t).passed
               <=> \A p \in Path : RowPasses(p, Floating(ref, cand, t))
<1>1. DOMAIN ref = Path /\ \E p \in Path : TRUE
  BY DEF Path
<1>2. CASE ~SameStructure(ref, cand)
  BY <1>1, <1>2 DEF Exact, Floating, RowPasses
<1>3. CASE SameStructure(ref, cand)
  <2> DEFINE differing == FailedPaths(ref, cand, Differ)
             failed == FailedPaths(ref, cand, LAMBDA v, w : Mismatches(v, w, t))
  <2>1. differing \in SUBSET Path /\ failed \in SUBSET Path
    BY <1>1 DEF FailedPaths
  <2>2. Cardinality(differing) = 0 <=> differing = {}
    BY <2>1, ThePaths
  <2> DEFINE n == Cardinality(differing)
             ofBoth == [p \in Path |-> n]
             ofEach == [p \in Path |-> IF p \in failed THEN 1 ELSE 0]
  <2>5. Exact(ref, cand).passed <=> \A p \in Path : RowPasses(p, Exact(ref, cand))
    <3>1. Exact(ref, cand).passed <=> n = 0
      <4>1. Exact(ref, cand).passed <=> differing = {}
        BY <1>3 DEF Exact
      <4> QED
        BY <2>2, <4>1
    <3>2. Exact(ref, cand).counts = ofBoth
      BY <1>1, <1>3 DEF Exact
    <3> HIDE DEF n
    <3>3. DOMAIN ofBoth = Path /\ \A p \in Path : ofBoth[p] = n
      OBVIOUS
    <3> QED
      BY <1>1, <3>1, <3>2, <3>3 DEF RowPasses
  <2>6. Floating(ref, cand, t).passed <=> \A p \in Path : RowPasses(p, Floating(ref, cand, t))
    <3>1. Floating(ref, cand, t).passed <=> failed = {}
      BY <1>3 DEF Floating
    <3>2. Floating(ref, cand, t).counts = ofEach
      BY <1>1, <1>3 DEF Floating
    <3> HIDE DEF failed
    <3>3. DOMAIN ofEach = Path /\ \A p \in Path : ofEach[p] = 0 <=> p \notin failed
      OBVIOUS
    <3> QED
      BY <2>1, <3>1, <3>2, <3>3 DEF RowPasses
  <2> QED
    BY <2>5, <2>6
<1> QED
  BY <1>2, <1>3

LEMMA LeavesAgree ==
  ASSUME NEW ref \in [Path -> Leaf], NEW P \in SUBSET Path, NEW cand \in [P -> Leaf],
         NEW t \in Tolerance,
         compared' = [kind |-> "leaves", ref |-> ref, cand |-> cand, tolerance |-> t,
                      exact |-> Exact(ref, cand), floating |-> Floating(ref, cand, t)]
  PROVE  ComparatorsAgree' /\ TopKIsJustified' /\ OperatorsAgree'
<1> DEFINE wider == {u \in Tolerance : /\ u.atol >= t.atol /\ u.rtol >= t.rtol
                                       /\ (t.equalNan => u.equalNan)}
<1>1. /\ compared'.kind = "leaves" /\ compared'.ref = ref /\ compared'.cand = cand
      /\ compared'.tolerance = t /\ compared'.exact = Exact(ref, cand)
      /\ compared'.floating = Floating(ref, cand, t)
  OBVIOUS
<1>2. ASSUME SameStructure(ref, cand), NEW p \in Path
      PROVE  ref[p].value \in Value /\ cand[p].value \in Value
  BY <1>2 DEF SameStructure, Leaf
<1>3. Exact(ref, cand).passed => Floating(ref, cand, t).passed
  <2>1. SUFFICES ASSUME SameStructure(ref, cand),
                        \A p \in Path : ~Differ(ref[p].value, cand[p].value)
                 PROVE  \A p \in Path : ~Mismatches(ref[p].value, cand[p].value, t)
    BY FailedOfNothing
  <2> QED
    BY <1>2, <2>1, MismatchFacts
<1>4. ASSUME Floating(ref, cand, t).passed
      PROVE  /\ \A u \in wider : Floating(ref, cand, u).passed
             /\ \A p \in Path : ~(IsFinite(ref[p].value) /\ IsFinite(cand[p].value))
                                   => ref[p].value = cand[p].value
  <2>1. SameStructure(ref, cand) /\ \A p \in Path : ~Mismatches(ref[p].value, cand[p].value, t)
    BY <1>4, FailedOfNothing
  <2>2. \A u \in wider, p \in Path : ~Mismatches(ref[p].value, cand[p].value, u)
    BY <1>2, <2>1, MismatchFacts
  <2>3. \A u \in wider : Floating(ref, cand, u).passed
    BY <2>1, <2>2, FailedOfNothing
  <2> QED
    BY <1>2, <2>1, <2>3, MismatchFacts
<1>5. /\ Exact(ref, cand).passed <=> \A p \in Path : RowPasses(p, Exact(ref, cand))
      /\ Floating(ref, cand, t).passed
            <=> \A p \in Path : RowPasses(p, Floating(ref, cand, t))
  BY FailureShows
<1>6. ComparatorsAgree'
  BY <1>1, <1>3, <1>4, <1>5 DEF ComparatorsAgree
<1> QED
  BY <1>1, <1>6 DEF TopKIsJustified, OperatorsAgree

(* Codes.                                                                    *)
LEMMA CloseCodesAreEqual ==
  ASSUME NEW a \in Int, NEW b \in Int, NEW zero \in Int, NEW scale \in 1..2, NEW atol \in Nat
  PROVE  /\ a = b => Distance(Dequantized(a, zero, scale), Dequantized(b, zero, scale)) <= atol
         /\ /\ Distance(Dequantized(a, zero, scale), Dequantized(b, zero, scale)) <= atol
            /\ atol < scale
            => a = b
<1>1. scale = 1 \/ scale = 2
  OBVIOUS
<1>2. /\ Dequantized(a, zero, 1) = a - zero /\ Dequantized(b, zero, 1) = b - zero
      /\ Dequantized(a, zero, 2) = (a - zero) + (a - zero)
      /\ Dequantized(b, zero, 2) = (b - zero) + (b - zero)
  BY DEF Dequantized
<1> QED
  BY <1>1, <1>2 DEF Distance

LEMMA CodesAgree ==
  ASSUME NEW ref \in [1..2 -> -1..(MaxCode + 1)], NEW cand \in [1..2 -> -1..(MaxCode + 1)],
         NEW zero \in 0..1, NEW scale \in 1..2, NEW atol \in 0..2,
         compared' = [kind |-> "codes", refCodes |-> ref, candCodes |-> cand, scale |-> scale,
                      atol |-> atol, raw |-> RawCode(ref, cand),
                      dequant |-> Dequant(ref, cand, zero, scale, atol)]
  PROVE  ComparatorsAgree' /\ TopKIsJustified' /\ OperatorsAgree'
<1>1. /\ compared'.kind = "codes" /\ compared'.refCodes = ref /\ compared'.candCodes = cand
      /\ compared'.scale = scale /\ compared'.atol = atol
      /\ compared'.raw = RawCode(ref, cand)
      /\ compared'.dequant = Dequant(ref, cand, zero, scale, atol)
  OBVIOUS
<1>2. \A i \in 1..2 : ref[i] \in Int /\ cand[i] \in Int
  BY ComparisonAssumption
<1>3. \A i \in 1..2 :
         /\ ref[i] = cand[i] =>
               Distance(Dequantized(ref[i], zero, scale), Dequantized(cand[i], zero, scale)) <= atol
         /\ /\ Distance(Dequantized(ref[i], zero, scale), Dequantized(cand[i], zero, scale)) <= atol
            /\ atol < scale
            => ref[i] = cand[i]
  <2>1. zero \in Int /\ atol \in Nat
    OBVIOUS
  <2> QED
    BY <1>2, <2>1, CloseCodesAreEqual
<1>4. DOMAIN ref = 1..2 /\ DOMAIN cand = 1..2
  OBVIOUS
<1>5. RawCode(ref, cand) => Dequant(ref, cand, zero, scale, atol)
  BY <1>3, <1>4 DEF RawCode, Dequant
<1>6. Dequant(ref, cand, zero, scale, atol) =>
         /\ InRange(ref) /\ InRange(cand)
         /\ atol < scale => RawCode(ref, cand)
  BY <1>3, <1>4 DEF RawCode, Dequant, CodesAreInRange
<1>7. ComparatorsAgree'
  BY <1>1, <1>5, <1>6 DEF ComparatorsAgree
<1> QED
  BY <1>1, <1>7 DEF TopKIsJustified, OperatorsAgree


(* Top-K.  A listing of different indices gives each the score beside it.        *)
LEMMA ScoresAreListed ==
  ASSUME NEW listing, DOMAIN listing.indices = 1..K, IsInjective(listing.indices),
         NEW i \in 1..K
  PROVE  ScoreIn(listing, listing.indices[i]) = listing.scores[i]
<1> DEFINE j == CHOOSE j \in DOMAIN listing.indices : listing.indices[j] = listing.indices[i]
<1>1. j \in 1..K /\ listing.indices[j] = listing.indices[i]
  OBVIOUS
<1>2. ScoreIn(listing, listing.indices[i]) = listing.scores[j]
  BY DEF ScoreIn
<1> HIDE DEF j
<1>3. j = i
  BY <1>1 DEF IsInjective
<1> QED
  BY <1>2, <1>3

LEMMA CloseFacts ==
  /\ \A s \in Score : IsClose(s, s)
  /\ \A s, t \in Score : IsClose(s, t) => IsClose(t, s)
<1> DEFINE within == [atol |-> ScoreTolerance, rtol |-> 0, equalNan |-> FALSE]
<1>1. ScoreTolerance \in Nat /\ within.atol = ScoreTolerance /\ within.rtol = 0
  BY ComparisonAssumption
<1>2. ASSUME NEW s \in Score, NEW t \in Score
      PROVE  IsClose(s, t) <=> Distance(s, t) <= ScoreTolerance
  <2>1. s \in 0..9 /\ t \in 0..9 /\ IsFinite(s) /\ IsFinite(t)
    BY Values
  <2>2. Mismatches(s, t, within) <=> Distance(s, t) > ScoreTolerance
    BY <1>1, <2>1 DEF Mismatches, Exceeds
  <2>3. Distance(s, t) \in Nat
    BY <2>1 DEF Distance
  <2>4. NaN \notin {s, t}
    BY <2>1 DEF NaN
  <2> QED
    BY <1>1, <2>2, <2>3, <2>4 DEF IsClose
<1>3. \A s, t \in Score : Distance(s, s) = 0 /\ Distance(s, t) = Distance(t, s)
  BY Values DEF Distance
<1> QED
  BY <1>1, <1>2, <1>3

(* As many indices as a listing has places, and all of them: each has one place.  *)
LEMMA SameIndicesAreDifferent ==
  ASSUME NEW A, NEW f \in [1..K -> A], IsInjective(f),
         NEW B, NEW g \in [1..K -> B], Range(g) = Range(f)
  PROVE  IsInjective(g)
<1> DEFINE S == 1..K
           T == Range(f)
<1>1. f \in Bijection(S, T)
  <2>1. f \in [S -> T] /\ \A t \in T : \E s \in S : f[s] = t
    BY DEF Range
  <2>2. \A a, b \in S : f[a] = f[b] => a = b
    BY DEF IsInjective
  <2> QED
    BY <2>1, <2>2 DEF Bijection, Injection, Surjection
<1>2. IsFiniteSet(S) /\ IsFiniteSet(T) /\ Cardinality(T) = Cardinality(S)
  <2>1. K \in Int
    BY ComparisonAssumption
  <2>2. IsFiniteSet(S)
    BY <2>1, FS_Interval
  <2>3. ExistsBijection(S, T)
    BY <1>1 DEF ExistsBijection
  <2> QED
    BY <2>2, <2>3, FS_Bijection
<1>3. g \in Surjection(S, T)
  <2>1. g \in [S -> T] /\ \A t \in T : \E s \in S : g[s] = t
    BY DEF Range
  <2> QED
    BY <2>1 DEF Surjection
<1> HIDE DEF S, T
<1>4. g \in Injection(S, T)
  BY <1>2, <1>3, FS_SurjSameCardinalityImpliesInj
<1> QED
  BY <1>4 DEF Injection, IsInjective, S

IsSound(scores, best, indices, claims, mode) ==
    /\ IsInjective(indices)
    /\ \A i \in 1..K :
          /\ indices[i] \in Index
          /\ IsClose(scores[indices[i]], claims[i])
          /\ mode.ordered => IsClose(scores[indices[i]], scores[best[i]])

IsTied(scores, best, indices, claims) ==
    /\ Range(indices) = Range(best)
    /\ \A i \in 1..K : claims[i] = scores[indices[i]] /\ claims[i] = scores[best[i]]

LEMMA ListingsAgree ==
  ASSUME NEW scores \in [Index -> Score], NEW best \in [1..K -> Index], IsInjective(best),
         NEW indices \in [1..K -> -1..NIndices], NEW claims \in [1..K -> Score \cup {NaN}],
         NEW ref, ref = [indices |-> best, scores |-> [i \in 1..K |-> scores[best[i]]]],
         NEW cand, cand = [indices |-> indices, scores |-> claims]
  PROVE  \A mode \in TopKMode :
            /\ TopK(ref, cand, mode) => IsSound(scores, best, indices, claims, mode)
            /\ IsTied(scores, best, indices, claims) /\ mode.tieAware => TopK(ref, cand, mode)
<1> DEFINE places == [i \in 1..K |-> scores[best[i]]]
<1>1. /\ ref.indices = best /\ ref.scores = places
      /\ cand.indices = indices /\ cand.scores = claims
      /\ \A i \in 1..K : places[i] = scores[best[i]]
  OBVIOUS
<1>2. DOMAIN best = 1..K /\ DOMAIN indices = 1..K
  OBVIOUS
<1>3. \A i \in 1..K : ScoreIn(ref, best[i]) = scores[best[i]]
  <2> HIDE DEF places
  <2>1. \A i \in 1..K : ScoreIn(ref, ref.indices[i]) = ref.scores[i]
    BY <1>1, <1>2, ScoresAreListed
  <2> QED
    BY <1>1, <2>1
<1>4. IsInjective(indices) => \A i \in 1..K : ScoreIn(cand, indices[i]) = claims[i]
  BY <1>1, <1>2, ScoresAreListed
<1>5. IsValid(best)
  BY DEF IsValid
<1> HIDE DEF places
<1>6. ASSUME Range(indices) = Range(best)
      PROVE  \A i \in 1..K : /\ ScoreIn(ref, indices[i]) = scores[indices[i]]
                             /\ indices[i] \in Index /\ scores[indices[i]] \in Score
                             /\ indices[i] \in Range(best) \cap Range(indices)
  <2>1. SUFFICES ASSUME NEW i \in 1..K
                 PROVE  /\ ScoreIn(ref, indices[i]) = scores[indices[i]]
                        /\ indices[i] \in Index /\ scores[indices[i]] \in Score
                        /\ indices[i] \in Range(best) \cap Range(indices)
    OBVIOUS
  <2>2. indices[i] \in Range(indices)
    BY <1>2 DEF Range
  <2>3. PICK j \in 1..K : best[j] = indices[i]
    BY <1>2, <1>6, <2>2 DEF Range
  <2> QED
    BY <1>3, <1>6, <2>2, <2>3
<1>7. ASSUME NEW mode \in TopKMode, TopK(ref, cand, mode)
      PROVE  IsSound(scores, best, indices, claims, mode)
  <2>1. IsInjective(indices)
    BY <1>1, <1>7 DEF TopK, IsValid
  <2>2. Range(indices) = Range(best)
    BY <1>1, <1>7, Zenon DEF TopK, TieIsOk
  <2>3. ASSUME NEW i \in 1..K PROVE IsClose(scores[indices[i]], claims[i])
    <3>1. IsClose(ScoreIn(ref, indices[i]), ScoreIn(cand, indices[i]))
      BY <1>1, <1>6, <1>7, <2>2 DEF TopK, ScoresAgree
    <3> QED
      BY <1>4, <1>6, <2>1, <2>2, <3>1
  <2>4. ASSUME NEW i \in 1..K, mode.ordered
        PROVE  IsClose(scores[indices[i]], scores[best[i]])
    <3>1. scores[indices[i]] \in Score /\ scores[best[i]] \in Score
      BY <1>6, <2>2
    <3>2. CASE indices[i] = best[i]
      BY <3>1, <3>2, CloseFacts
    <3>3. CASE indices[i] # best[i]
      <4>1. TieIsOk(ref, cand)
        BY <1>1, <1>7, <2>4, <3>3 DEF TopK
      <4>2. IsClose(ScoreIn(ref, best[i]), ScoreIn(ref, indices[i]))
        BY <1>1, <3>3, <4>1 DEF TieIsOk
      <4> QED
        BY <1>3, <1>6, <2>2, <3>1, <4>2, CloseFacts
    <3> QED
      BY <3>2, <3>3
  <2> QED
    BY <1>6, <2>1, <2>2, <2>3, <2>4 DEF IsSound
<1>8. ASSUME IsTied(scores, best, indices, claims), NEW mode \in TopKMode, mode.tieAware
      PROVE  TopK(ref, cand, mode)
  <2> USE DEF IsTied
  <2>1. IsInjective(indices)
    BY <1>2, <1>8, SameIndicesAreDifferent
  <2>2. IsValid(indices)
    BY <1>2, <1>6, <1>8, <2>1 DEF IsValid
  <2>3. ScoresAgree(ref, cand)
    <3>1. SUFFICES ASSUME NEW index \in Range(indices)
                   PROVE  IsClose(ScoreIn(ref, index), ScoreIn(cand, index))
      BY <1>1 DEF ScoresAgree
    <3>2. PICK i \in 1..K : indices[i] = index
      BY <1>2 DEF Range
    <3>3. ScoreIn(ref, index) = scores[index] /\ ScoreIn(cand, index) = scores[index]
      BY <1>4, <1>6, <1>8, <2>1, <3>2
    <3> QED
      BY <1>6, <1>8, <3>2, <3>3, CloseFacts
  <2>4. TieIsOk(ref, cand)
    <3>1. ASSUME NEW i \in 1..K
          PROVE  IsClose(ScoreIn(ref, best[i]), ScoreIn(ref, indices[i]))
      BY <1>3, <1>6, <1>8, CloseFacts
    <3> QED
      BY <1>1, <1>8, <3>1 DEF TieIsOk
  <2> QED
    BY <1>1, <1>5, <1>8, <2>2, <2>3, <2>4 DEF TopK
<1> QED
  BY <1>7, <1>8

LEMMA ListingsAreJustified ==
  ASSUME NEW scores \in [Index -> Score], NEW best \in [1..K -> Index], IsTopK(best, scores),
         NEW indices \in [1..K -> -1..NIndices], NEW claims \in [1..K -> Score \cup {NaN}],
         NEW ref, ref = [indices |-> best, scores |-> [i \in 1..K |-> scores[best[i]]]],
         NEW cand, cand = [indices |-> indices, scores |-> claims],
         compared' = [kind |-> "topk", scores |-> scores, best |-> ref, claim |-> cand,
                      passes |-> {mode \in TopKMode : TopK(ref, cand, mode)}]
  PROVE  ComparatorsAgree' /\ TopKIsJustified' /\ OperatorsAgree'
<1> DEFINE passing == {mode \in TopKMode : TopK(ref, cand, mode)}
<1>1. /\ compared'.kind = "topk" /\ compared'.scores = scores
      /\ compared'.claim.indices = indices /\ compared'.claim.scores = claims
      /\ compared'.best.indices = best
      /\ \A i \in 1..K : compared'.best.scores[i] = scores[best[i]]
      /\ compared'.passes = passing
  OBVIOUS
<1>2. IsInjective(best)
  BY DEF IsTopK
<1>3. \A mode \in TopKMode :
         /\ TopK(ref, cand, mode) => IsSound(scores, best, indices, claims, mode)
         /\ IsTied(scores, best, indices, claims) /\ mode.tieAware => TopK(ref, cand, mode)
  BY <1>2, ListingsAgree
<1>4. /\ \A mode \in passing : IsSound(scores, best, indices, claims, mode)
      /\ IsTied(scores, best, indices, claims)
            => {mode \in TopKMode : mode.tieAware} \subseteq passing
  BY <1>3
<1> HIDE DEF passing
<1>5. TopKIsJustified'
  <2> DEFINE atRank(i) == compared'.best.scores[i]
             Claimed(i) == claims[i] = scores[indices[i]] /\ claims[i] = atRank(i)
  <2>1. ASSUME NEW mode \in passing
        PROVE  /\ IsInjective(indices)
               /\ \A i \in 1..K :
                     /\ indices[i] \in Index
                     /\ IsClose(scores[indices[i]], claims[i])
                     /\ mode.ordered => IsClose(scores[indices[i]], atRank(i))
    BY <1>1, <1>4, <2>1 DEF IsSound
  <2>2. Range(indices) = Range(best) /\ (\A i \in 1..K : Claimed(i))
           => {mode \in TopKMode : mode.tieAware} \subseteq passing
    BY <1>1, <1>4 DEF IsTied
  <2> QED
    BY ONLY <1>1, <2>1, <2>2, Zenon DEF TopKIsJustified
<1> QED
  BY <1>1, <1>5 DEF ComparatorsAgree, OperatorsAgree


(* The comparators of the operators.  The worst of the first n errors.            *)
Number == 0..12
ErrorAt(left, right, k) == Apart(left[k], right[k])

WorstUpTo(left, right, n, f) ==
    f = [k \in 1..n |-> IF k = 1 \/ IsGreater(ErrorAt(left, right, k), f[k - 1])
                        THEN ErrorAt(left, right, k) ELSE f[k - 1]]

LEMMA WorstIsDefined ==
  ASSUME NEW left, NEW right, NEW n \in Nat
  PROVE  \E f : WorstUpTo(left, right, n, f)
<1> DEFINE Bad == {i \in Nat : ~ \E f : WorstUpTo(left, right, i, f)}
<1>1. SUFFICES ASSUME Bad # {} PROVE FALSE
  OBVIOUS
<1>2. PICK i \in Bad : \A j \in Bad : ~(<<j, i>> \in OpToRel(<, Nat))
  BY <1>1, NatLessThanWellFounded, WFMin
<1>3. i \in Nat /\ \A j \in Nat : j < i => j \notin Bad
  BY <1>2 DEF OpToRel
<1>4. i # 0
  <2> DEFINE f == [k \in 1..0 |-> 0]
  <2>1. WorstUpTo(left, right, 0, f)
    BY DEF WorstUpTo
  <2> QED
    BY <2>1, <1>2
<1>5. i - 1 \in Nat /\ i - 1 \notin Bad
  BY <1>3, <1>4
<1>6. PICK f : WorstUpTo(left, right, i - 1, f)
  BY <1>5
<1> DEFINE error(k) == ErrorAt(left, right, k)
           last == IF i = 1 \/ IsGreater(error(i), f[i - 1]) THEN error(i) ELSE f[i - 1]
           g == [k \in 1..i |-> IF k = i THEN last ELSE f[k]]
<1>7. (\A k \in 1..(i - 1) : g[k] = f[k]) /\ g[i] = last
  BY <1>3, <1>4
<1>8. ASSUME NEW k \in 1..i
      PROVE  g[k] = IF k = 1 \/ IsGreater(error(k), g[k - 1]) THEN error(k) ELSE g[k - 1]
  <2> HIDE DEF g, error
  <2>1. CASE k = 1 /\ i = 1
    BY <2>1, <1>7
  <2>2. CASE k = i /\ i # 1
    <3>1. i - 1 \in 1..(i - 1)
      BY <2>2, <1>3, <1>4
    <3> QED
      BY <3>1, <2>2, <1>7
  <2>3. CASE k \in 1..(i - 1)
    <3>1. f[k] = IF k = 1 \/ IsGreater(error(k), f[k - 1]) THEN error(k) ELSE f[k - 1]
      BY <2>3, <1>6 DEF WorstUpTo, error
    <3>2. k # 1 => k - 1 \in 1..(i - 1)
      BY <2>3, <1>3
    <3> QED
      BY <3>1, <3>2, <2>3, <1>7
  <2> QED
    BY <2>1, <2>2, <2>3, <1>3, <1>4
<1>9. WorstUpTo(left, right, i, g)
  BY <1>8 DEF WorstUpTo
<1> QED
  BY <1>2, <1>9

LEMMA MaxErrorIsTheWorst ==
  ASSUME NEW left, NEW right, Len(left) \in Nat
  PROVE  \E f : WorstUpTo(left, right, Len(left), f) /\ MaxError(left, right) = f[Len(left)]
<1> DEFINE n == Len(left)
           f == CHOOSE f : WorstUpTo(left, right, n, f)
<1>1. WorstUpTo(left, right, n, f)
  BY WorstIsDefined
<1>2. MaxError(left, right) = f[n]
  BY DEF MaxError, WorstUpTo, ErrorAt
<1> QED
  BY <1>1, <1>2

(* An error is a number: of finite values their distance, and NaN only where a    *)
(* NaN is compared or an infinity with itself.                               *)
LEMMA Errors ==
  ASSUME NEW v \in Number, NEW w \in Number
  PROVE  /\ Apart(v, w) \in Number
         /\ IsFinite(v) <=> v \in 0..9
         /\ IsFinite(v) /\ IsFinite(w) => Apart(v, w) = Distance(v, w) /\ Apart(v, w) \in 0..9
         /\ IsFinite(v) /\ w # NaN => Apart(v, w) # NaN
         /\ IsFinite(w) /\ v # NaN => Apart(v, w) # NaN
         /\ IsFinite(w) /\ ~IsFinite(v) => Apart(v, w) \in {NaN, Inf}
         /\ ~Mismatches(v, w, OperatorTolerance) =>
               /\ v # NaN /\ w # NaN
               /\ Apart(v, w) = NaN \/ Apart(v, w) <= OutputTolerance
<1>1. /\ OutputTolerance \in 0..9
      /\ OperatorTolerance.atol = OutputTolerance /\ OperatorTolerance.rtol = 0
      /\ OperatorTolerance.equalNan = FALSE
  BY OperatorVerdictsAssumption DEF OperatorTolerance
<1>2. IsFinite(v) <=> v \in 0..9
  BY DEF IsFinite, NaN, Inf, NegInf, Number
<1>3. IsFinite(w) <=> w \in 0..9
  BY DEF IsFinite, NaN, Inf, NegInf, Number
<1>4. CASE IsFinite(v) /\ IsFinite(w)
  <2>1. Distance(v, w) \in 0..9 /\ Apart(v, w) = Distance(v, w)
    BY <1>2, <1>3, <1>4 DEF Distance, Apart
  <2>2. Mismatches(v, w, OperatorTolerance) <=> Distance(v, w) > OutputTolerance
    BY <1>1, <1>2, <1>4 DEF Mismatches, Exceeds
  <2> QED
    BY <1>1, <1>2, <1>3, <1>4, <2>1, <2>2 DEF NaN, Number
<1>5. CASE ~(IsFinite(v) /\ IsFinite(w))
  <2>1. Apart(v, w) = IF NaN \in {v, w} \/ v = w THEN NaN ELSE Inf
    BY <1>5 DEF Apart
  <2>2. Mismatches(v, w, OperatorTolerance) <=> v # w \/ v = NaN
    BY <1>1, <1>5 DEF Mismatches, Differ
  <2> QED
    BY <1>2, <1>3, <1>5, <2>1, <2>2 DEF NaN, Inf, Number
<1> QED
  BY <1>4, <1>5

LEMMA GreaterOf ==
  ASSUME NEW x \in Number, NEW y \in Number, x # NaN, y # NaN,
         NEW z, z = IF IsGreater(x, y) THEN x ELSE y
  PROVE  z \in Number /\ z # NaN /\ x <= z /\ y <= z
BY DEF IsGreater, Number

LEMMA AtMost ==
  ASSUME NEW x \in Number, NEW y \in Number, NEW z \in Number, x <= y, y <= z
  PROVE  x <= z
BY DEF Number

(* A maximum that has met no NaN bounds every error; one that may have is no       *)
(* greater than what bounds those that are not.                               *)
LEMMA MaxErrorBounds ==
  ASSUME NEW n \in Nat \ {0}, NEW left \in [1..n -> Number], NEW right \in [1..n -> Number],
         Len(left) = n
  PROVE  /\ (\A k \in 1..n : \/ ErrorAt(left, right, k) = NaN
                             \/ ErrorAt(left, right, k) <= OutputTolerance)
               => ~IsGreater(MaxError(left, right), OutputTolerance)
         /\ /\ \A k \in 1..n : ErrorAt(left, right, k) # NaN
            /\ ~IsGreater(MaxError(left, right), OutputTolerance)
            => \A k \in 1..n : ErrorAt(left, right, k) <= OutputTolerance
<1> DEFINE error(k) == ErrorAt(left, right, k)
<1>1. PICK f : WorstUpTo(left, right, n, f) /\ MaxError(left, right) = f[n]
  BY MaxErrorIsTheWorst
<1>2. \A k \in 1..n : error(k) \in Number
  BY Errors DEF ErrorAt
<1>3. OutputTolerance \in 0..9
  BY OperatorVerdictsAssumption
<1> HIDE DEF error
<1>4. \A k \in 1..n :
         f[k] = IF k = 1 \/ IsGreater(error(k), f[k - 1]) THEN error(k) ELSE f[k - 1]
  BY <1>1 DEF WorstUpTo, error
<1> DEFINE Allowed(x) == x = NaN \/ x <= OutputTolerance
           Bounds(k) == /\ f[k] \in Number
                        /\ (\A j \in 1..k : Allowed(error(j))) => Allowed(f[k])
                        /\ (\A j \in 1..k : error(j) # NaN) =>
                              f[k] # NaN /\ \A j \in 1..k : error(j) <= f[k]
           Bad == {k \in 1..n : ~Bounds(k)}
<1>5. Bounds(1)
  <2>1. f[1] = error(1) /\ error(1) \in Number
    BY <1>2, <1>4
  <2>2. \A j \in 1..1 : j = 1
    OBVIOUS
  <2>3. error(1) <= error(1)
    BY <2>1 DEF Number
  <2> HIDE DEF Allowed
  <2> QED
    BY <2>1, <2>2, <2>3
<1>6. ASSUME NEW k \in 2..n, Bounds(k - 1)
      PROVE  Bounds(k)
  <2>1. k \in 1..n /\ k # 1 /\ k - 1 \in 1..n /\ 1..k = 1..(k - 1) \cup {k}
    OBVIOUS
  <2>2. f[k] = IF IsGreater(error(k), f[k - 1]) THEN error(k) ELSE f[k - 1]
    BY <1>4, <2>1
  <2>3. error(k) \in Number /\ f[k - 1] \in Number
    BY <1>2, <1>6, <2>1
  <2>4. IsGreater(error(k), f[k - 1]) <=> NaN \notin {error(k), f[k - 1]} /\ error(k) > f[k - 1]
    BY DEF IsGreater
  <2>5. (\A j \in 1..k : Allowed(error(j))) => Allowed(f[k])
    <3> HIDE DEF Allowed
    <3> QED
      BY <1>6, <2>1, <2>2
  <2>6. ASSUME \A j \in 1..k : error(j) # NaN
        PROVE  f[k] # NaN /\ \A j \in 1..k : error(j) <= f[k]
    <3>1. f[k - 1] # NaN /\ \A j \in 1..(k - 1) : error(j) <= f[k - 1]
      BY <1>6, <2>1, <2>6
    <3>2. error(k) # NaN
      BY <2>1, <2>6
    <3>3. f[k] # NaN /\ error(k) <= f[k] /\ f[k - 1] <= f[k] /\ f[k] \in Number
      BY <2>2, <2>3, <3>1, <3>2, GreaterOf
    <3>4. ASSUME NEW j \in 1..(k - 1) PROVE error(j) <= f[k]
      <4>1. error(j) \in Number /\ error(j) <= f[k - 1]
        BY <1>2, <3>1
      <4> QED
        BY <2>3, <3>3, <4>1, AtMost
    <3> QED
      BY <2>1, <3>3, <3>4
  <2> QED
    BY <2>2, <2>3, <2>5, <2>6
<1> HIDE DEF Bounds
<1>7. Bad = {}
  <2>1. SUFFICES ASSUME Bad # {} PROVE FALSE
    OBVIOUS
  <2>2. Bad \subseteq Nat
    OBVIOUS
  <2> HIDE DEF Bad
  <2>3. PICK k \in Bad : \A j \in Bad : ~(<<j, k>> \in OpToRel(<, Nat))
    BY <2>1, <2>2, NatLessThanWellFounded, WFMin
  <2>4. k \in 1..n /\ ~Bounds(k) /\ \A j \in 1..n : j < k => Bounds(j)
    BY <2>2, <2>3 DEF OpToRel, Bad
  <2>5. k \in 2..n /\ k - 1 \in 1..n /\ k - 1 < k
    BY <2>4, <1>5
  <2> QED
    BY <2>4, <2>5, <1>6
<1>8. Bounds(n)
  BY <1>7
<1>9. IsGreater(f[n], OutputTolerance) <=> f[n] # NaN /\ f[n] > OutputTolerance
  BY <1>3 DEF IsGreater, NaN
<1>10. (\A k \in 1..n : Allowed(error(k))) => ~IsGreater(f[n], OutputTolerance)
  BY <1>3, <1>8, <1>9 DEF Bounds, Number
<1>11. (\A k \in 1..n : error(k) # NaN) /\ ~IsGreater(f[n], OutputTolerance)
          => \A k \in 1..n : error(k) <= OutputTolerance
  BY SMTT(30), <1>2, <1>3, <1>8, <1>9 DEF Bounds, Number
<1> QED
  BY <1>1, <1>10, <1>11 DEF error


LEMMA FunctionIsASequence ==
  ASSUME NEW S, NEW n \in Nat, NEW f \in [1..n -> S]
  PROVE  f \in Seq(S) /\ Len(f) = n
<1> DEFINE s == [i \in 1..n |-> f[i]]
<1>1. s \in Seq(S)
  OBVIOUS
<1>2. s = f
  OBVIOUS
<1>3. DOMAIN f = 1..n
  OBVIOUS
<1> HIDE DEF s
<1>4. f \in Seq(S)
  BY <1>1, <1>2
<1>5. Len(f) \in Nat /\ 1..Len(f) = 1..n
  BY <1>3, <1>4, LenProperties
<1> QED
  BY <1>4, <1>5

LEMMA WithinFacts ==
  ASSUME NEW x \in [1..2 -> Number], NEW y \in [1..2 -> Number]
  PROVE  /\ (\A i \in 1..2 : ~Mismatches(x[i], y[i], OperatorTolerance)) => IsWithin(x, y)
         /\ IsWithin(x, y) /\ (\A i \in 1..2 : Apart(x[i], y[i]) # NaN)
               => \A i \in 1..2 : Apart(x[i], y[i]) <= OutputTolerance
<1>1. Len(x) = 2 /\ Len(y) = 2
  BY FunctionIsASequence
<1>2. \A i \in 1..2 : x[i] \in Number /\ y[i] \in Number /\ ErrorAt(x, y, i) = Apart(x[i], y[i])
  BY DEF ErrorAt
<1>3. IsWithin(x, y) <=> ~IsGreater(MaxError(x, y), OutputTolerance)
  BY <1>1 DEF IsWithin
<1>4. /\ (\A i \in 1..2 : ErrorAt(x, y, i) = NaN \/ ErrorAt(x, y, i) <= OutputTolerance)
            => ~IsGreater(MaxError(x, y), OutputTolerance)
      /\ /\ \A i \in 1..2 : ErrorAt(x, y, i) # NaN
         /\ ~IsGreater(MaxError(x, y), OutputTolerance)
         => \A i \in 1..2 : ErrorAt(x, y, i) <= OutputTolerance
  <2>1. 2 \in Nat \ {0}
    OBVIOUS
  <2> QED
    BY <1>1, <2>1, MaxErrorBounds
<1>5. \A i \in 1..2 : ~Mismatches(x[i], y[i], OperatorTolerance) =>
                         Apart(x[i], y[i]) = NaN \/ Apart(x[i], y[i]) <= OutputTolerance
  BY <1>2, Errors
<1> QED
  BY <1>2, <1>3, <1>4, <1>5

(* The normalized output of a role in CompareOperator.                         *)
Outputs == [1..2 -> OutputValue]
IsRole(role, output, oracle, cache, without) ==
    /\ DOMAIN role = RolePath \ without
    /\ role["output"] = LeafOf(IF Len(output) = 2 THEN "float" ELSE "half", output)
    /\ "oracle" \notin without => role["oracle"] = LeafOf("float", oracle)
    /\ "indices" \notin without => role["indices"] = LeafOf("float", <<0>>)
    /\ role["cache"] = LeafOf("float", cache)
    /\ role["expected"] = LeafOf("float", <<0>>)

Zeros == <<0, 0>>
Oracle == {<<0, 0>>, <<2, 2>>}

LEMMA Numbers ==
  /\ Outputs \subseteq [1..2 -> Number]
  /\ \A o \in Oracle : o \in [1..2 -> Number] /\ \A i \in 1..2 : IsFinite(o[i])
  /\ Zeros \in Oracle
<1>1. OutputValue \subseteq Number
  BY Values DEF OutputValue, Number
<1>2. Outputs \subseteq [1..2 -> Number]
  BY <1>1 DEF Outputs
<1>3. ASSUME NEW n \in {0, 2} PROVE <<n, n>> \in [1..2 -> Number] /\ IsFinite(n)
  <2>1. n \in Number /\ IsFinite(n)
    BY DEF Number, IsFinite, NaN, Inf, NegInf
  <2> QED
    BY <2>1
<1>4. \A o \in Oracle : \E n \in {0, 2} : o = <<n, n>> /\ o[1] = n /\ o[2] = n
  BY DEF Oracle
<1>5. \A o \in Oracle : o \in [1..2 -> Number] /\ \A i \in 1..2 : IsFinite(o[i])
  <2>1. SUFFICES ASSUME NEW o \in Oracle
                 PROVE  o \in [1..2 -> Number] /\ \A i \in 1..2 : IsFinite(o[i])
    OBVIOUS
  <2>2. PICK n \in {0, 2} : o = <<n, n>> /\ o[1] = n /\ o[2] = n
    BY <1>4
  <2> QED
    BY <1>3, <2>2
<1> QED
  BY <1>2, <1>5 DEF Oracle, Zeros

(* Only a candidate of the same shape that left out nothing has the structure of   *)
(* the reference, and every comparator asks for it.                            *)
LEMMA OnlyTheWholeHasTheStructure ==
  ASSUME NEW R \in Outputs, NEW rc, NEW C \in Outputs \cup [1..1 -> Finite], NEW O, NEW cc,
         NEW missing \in SUBSET {"oracle", "indices"}, NEW ref, NEW cand,
         IsRole(ref, R, Zeros, rc, {}), IsRole(cand, C, O, cc, missing),
         SameStructure(ref, cand)
  PROVE  missing = {} /\ C \in Outputs
<1>1. DOMAIN ref = RolePath /\ DOMAIN cand = RolePath \ missing
  BY DEF IsRole
<1>2. missing = {}
  BY <1>1 DEF SameStructure, RolePath
<1>3. Len(R) = 2
  BY FunctionIsASequence DEF Outputs
<1>4. C \in [1..1 -> Finite] => Len(C) = 1
  BY FunctionIsASequence
<1>5. ref["output"].contract = cand["output"].contract
  BY <1>1 DEF SameStructure, RolePath
<1>6. /\ ref["output"].contract = IF Len(R) = 2 THEN "float" ELSE "half"
      /\ cand["output"].contract = IF Len(C) = 2 THEN "float" ELSE "half"
  BY DEF IsRole, LeafOf
<1>7. Len(C) = 2
  BY <1>3, <1>5, <1>6
<1> QED
  BY <1>2, <1>4, <1>7

(* What each comparator comes down to for roles of one structure.               *)
LEMMA VerdictFacts ==
  ASSUME NEW R \in Outputs, NEW rc, NEW C \in Outputs, NEW O, NEW cc, NEW ref, NEW cand,
         IsRole(ref, R, Zeros, rc, {}), IsRole(cand, C, O, cc, {}), SameStructure(ref, cand)
  PROVE  /\ OracleVerdict(ref, cand) <=> DsaVerdict(ref, cand)
         /\ DsaVerdict(ref, cand)
               <=> IsWithin(R, Zeros) /\ IsWithin(C, O) /\ IsWithin(R, C) /\ rc = cc
         /\ BoundedVerdict(ref, cand) <=> IsWithin(R, C) /\ rc = cc
         /\ MegaVerdict(ref, cand) =>
               rc = cc /\ \A i \in 1..2 : ~Mismatches(R[i], C[i], OperatorTolerance)
         /\ ReuseVerdict(ref, cand) =>
               MegaVerdict(ref, cand) /\ IsWithin(R, Zeros) /\ IsWithin(C, O) /\ cc = <<0>>
<1>1. /\ DOMAIN ref = RolePath /\ DOMAIN cand = RolePath
      /\ ref["output"].value = R /\ cand["output"].value = C
      /\ ref["oracle"].value = Zeros /\ cand["oracle"].value = O
      /\ ref["indices"].value = <<0>> /\ cand["indices"].value = <<0>>
      /\ ref["cache"].value = rc /\ cand["cache"].value = cc
      /\ ref["expected"].value = <<0>> /\ cand["expected"].value = <<0>>
  BY DEF IsRole, LeafOf
<1>2. /\ \A needed \in SUBSET RolePath :
            /\ OracleHolds(ref, needed) <=> IsWithin(R, Zeros)
            /\ OracleHolds(cand, needed) <=> IsWithin(C, O)
      /\ {"output", "oracle", "indices"} \in SUBSET RolePath
      /\ {"output", "oracle"} \in SUBSET RolePath
  BY <1>1 DEF OracleHolds, RolePath
<1>3. RolesAgree(ref, cand) <=> IsWithin(R, C)
  BY <1>1 DEF RolesAgree
<1>4. /\ StateIsKept(ref, cand, {"oracle", "indices"}) <=> rc = cc
      /\ StateIsKept(ref, cand, {"oracle"}) <=> rc = cc
  <2>1. RolePath \ ({"oracle", "indices"} \cup {"output"}) = {"cache", "expected"}
    BY DEF RolePath
  <2>2. RolePath \ ({"oracle"} \cup {"output"}) = {"indices", "cache", "expected"}
    BY DEF RolePath
  <2> QED
    BY <1>1, <2>1, <2>2 DEF StateIsKept
<1>5. /\ OracleVerdict(ref, cand)
            <=> IsWithin(R, Zeros) /\ IsWithin(C, O) /\ IsWithin(R, C) /\ rc = cc
      /\ DsaVerdict(ref, cand)
            <=> IsWithin(R, Zeros) /\ IsWithin(C, O) /\ IsWithin(R, C) /\ rc = cc
  BY <1>2, <1>3, <1>4 DEF OracleVerdict, DsaVerdict
<1>6. BoundedVerdict(ref, cand) <=> IsWithin(R, C) /\ rc = cc
  BY <1>3, <1>4 DEF BoundedVerdict
<1>7. ASSUME MegaVerdict(ref, cand)
      PROVE  rc = cc /\ \A i \in 1..2 : ~Mismatches(R[i], C[i], OperatorTolerance)
  <2>1. "cache" \in DOMAIN ref /\ "output" \in DOMAIN ref
    BY <1>1 DEF RolePath
  <2>2. ref["cache"].value = cand["cache"].value
    BY <1>7, <2>1 DEF MegaVerdict
  <2>3. \A i \in DOMAIN R : ~Mismatches(R[i], C[i], OperatorTolerance)
    BY <1>1, <1>7, <2>1 DEF MegaVerdict
  <2> QED
    BY <1>1, <2>2, <2>3 DEF Outputs
<1>8. ASSUME ReuseVerdict(ref, cand)
      PROVE  MegaVerdict(ref, cand) /\ IsWithin(R, Zeros) /\ IsWithin(C, O) /\ cc = <<0>>
  BY <1>1, <1>2, <1>8 DEF ReuseVerdict, SelfCheck
<1> QED
  BY <1>5, <1>6, <1>7, <1>8

LEMMA EveryVerdictWantsTheStructure ==
  ASSUME NEW ref, NEW cand
  PROVE  /\ OracleVerdict(ref, cand) => SameStructure(ref, cand)
         /\ BoundedVerdict(ref, cand) => SameStructure(ref, cand)
         /\ DsaVerdict(ref, cand) => SameStructure(ref, cand)
         /\ MegaVerdict(ref, cand) => SameStructure(ref, cand)
         /\ ReuseVerdict(ref, cand) => SameStructure(ref, cand)
BY DEF OracleVerdict, BoundedVerdict, DsaVerdict, MegaVerdict, ReuseVerdict, StateIsKept


LEMMA RolesAreJudged ==
  ASSUME NEW R \in Outputs, NEW rc, NEW C \in Outputs \cup [1..1 -> Finite], NEW O \in Oracle,
         NEW cc, NEW missing \in SUBSET {"oracle", "indices"}, NEW ref, NEW cand,
         IsRole(ref, R, Zeros, rc, {}), IsRole(cand, C, O, cc, missing),
         compared' = [kind |-> "operator", ref |-> ref, cand |-> cand,
                      oracle |-> OracleVerdict(ref, cand),
                      bounded |-> BoundedVerdict(ref, cand),
                      dsa |-> DsaVerdict(ref, cand),
                      mega |-> MegaVerdict(ref, cand),
                      reuse |-> ReuseVerdict(ref, cand)]
  PROVE  ComparatorsAgree' /\ TopKIsJustified' /\ OperatorsAgree'
<1>1. compared'.kind = "operator" /\ compared'.ref = ref /\ compared'.cand = cand
  OBVIOUS
<1>2. /\ "oracle" \in Accepting' <=> OracleVerdict(ref, cand)
      /\ "bounded" \in Accepting' <=> BoundedVerdict(ref, cand)
      /\ "dsa" \in Accepting' <=> DsaVerdict(ref, cand)
      /\ "mega" \in Accepting' <=> MegaVerdict(ref, cand)
      /\ "reuse" \in Accepting' <=> ReuseVerdict(ref, cand)
      /\ Accepting' \subseteq {"oracle", "bounded", "dsa", "mega", "reuse"}
  BY DEF Accepting
<1>3. /\ ref["output"].value = R /\ cand["output"].value = C
      /\ ref["cache"] = LeafOf("float", rc) /\ cand["cache"] = LeafOf("float", cc)
      /\ cand["expected"] = LeafOf("float", <<0>>) /\ DOMAIN cand = RolePath \ missing
      /\ "oracle" \notin missing => cand["oracle"].value = O
  BY DEF IsRole, LeafOf
<1>4. Accepting' # {} => SameStructure(ref, cand)
  BY <1>2, EveryVerdictWantsTheStructure
<1>5. SameStructure(ref, cand) => missing = {} /\ C \in Outputs
  BY OnlyTheWholeHasTheStructure
<1> DEFINE Whole == SameStructure(ref, cand) /\ missing = {} /\ C \in Outputs
<1>6. Accepting' # {} => Whole
  BY <1>4, <1>5
<1>7. Whole =>
         /\ "oracle" \in Accepting' <=> "dsa" \in Accepting'
         /\ "dsa" \in Accepting'
               <=> IsWithin(R, Zeros) /\ IsWithin(C, O) /\ IsWithin(R, C) /\ rc = cc
         /\ "bounded" \in Accepting' <=> IsWithin(R, C) /\ rc = cc
         /\ "mega" \in Accepting' =>
               rc = cc /\ \A i \in 1..2 : ~Mismatches(R[i], C[i], OperatorTolerance)
         /\ "reuse" \in Accepting' =>
               "mega" \in Accepting' /\ IsWithin(R, Zeros) /\ IsWithin(C, O) /\ cc = <<0>>
  BY <1>2, VerdictFacts
<1>8. Whole => /\ R \in [1..2 -> Number] /\ C \in [1..2 -> Number] /\ O \in [1..2 -> Number]
               /\ \A i \in 1..2 : IsFinite(O[i])
  BY Numbers
<1> HIDE DEF Whole
<1>9. Whole /\ "mega" \in Accepting' => IsWithin(R, C)
  BY <1>7, <1>8, WithinFacts
<1>10. "reuse" \in Accepting' => {"mega", "dsa", "bounded"} \subseteq Accepting'
  BY <1>6, <1>7, <1>9
<1>11. /\ "dsa" \in Accepting' => "oracle" \in Accepting'
       /\ "oracle" \in Accepting' => {"dsa", "bounded"} \subseteq Accepting'
  BY <1>6, <1>7
<1>12. Accepting' # {} => DOMAIN cand = RolePath /\ ref["cache"] = cand["cache"]
  <2>1. Accepting' # {} => rc = cc
    BY <1>2, <1>6, <1>7
  <2> QED
    BY <1>3, <1>6, <2>1 DEF Whole
<1>13. ASSUME "reuse" \in Accepting'
       PROVE  cand["cache"] = cand["expected"] /\ AllFinite(C)
  <2>1. Whole /\ "mega" \in Accepting' /\ IsWithin(C, O) /\ cc = <<0>>
    BY <1>6, <1>7, <1>13
  <2>2. \A i \in 1..2 : R[i] \in Number /\ C[i] \in Number /\ O[i] \in Number /\ IsFinite(O[i])
    BY <1>8, <2>1
  <2>3. \A i \in 1..2 : C[i] # NaN
    BY <1>7, <2>1, <2>2, Errors
  <2>4. \A i \in 1..2 : Apart(C[i], O[i]) # NaN
    BY <2>2, <2>3, Errors
  <2>5. \A i \in 1..2 : Apart(C[i], O[i]) <= OutputTolerance
    BY <1>8, <2>1, <2>4, WithinFacts
  <2>6. ASSUME NEW i \in 1..2 PROVE IsFinite(C[i])
    <3>1. ~IsFinite(C[i]) => Apart(C[i], O[i]) = Inf
      BY <2>2, <2>4, Errors
    <3>2. OutputTolerance \in 0..9
      BY OperatorVerdictsAssumption
    <3> QED
      BY <2>5, <3>1, <3>2 DEF Inf
  <2>7. DOMAIN C = 1..2
    BY <2>1 DEF Whole, Outputs
  <2> QED
    BY <1>3, <2>1, <2>6, <2>7 DEF AllFinite
<1>14. ASSUME AllFinite(R \o C), NEW v \in Accepting', NEW i \in DOMAIN C
       PROVE  /\ Distance(R[i], C[i]) <= OutputTolerance
              /\ v \in {"oracle", "dsa", "reuse"} => Distance(C[i], O[i]) <= OutputTolerance
  <2>1. Whole
    BY <1>6
  <2>2. i \in 1..2 /\ R \in Seq(Number) /\ C \in Seq(Number) /\ Len(R) = 2 /\ Len(C) = 2
    <3>1. DOMAIN C = 1..2
      BY <2>1 DEF Whole, Outputs
    <3> QED
      BY <1>8, <2>1, <3>1, FunctionIsASequence
  <2>3. \A j \in 1..2 : IsFinite(R[j]) /\ IsFinite(C[j])
    <3>1. /\ R \o C \in Seq(Number) /\ Len(R \o C) = 4
          /\ \A j \in 1..4 : (R \o C)[j] = IF j <= 2 THEN R[j] ELSE C[j - 2]
      BY SMTT(30), <2>2, ConcatProperties
    <3>2. DOMAIN (R \o C) = 1..4
      BY <3>1, LenProperties
    <3>3. \A j \in 1..4 : IsFinite((R \o C)[j])
      BY <1>14, <3>2 DEF AllFinite
    <3>4. ASSUME NEW j \in 1..2 PROVE IsFinite(R[j]) /\ IsFinite(C[j])
      <4>1. j \in 1..4 /\ j <= 2 /\ j + 2 \in 1..4 /\ ~(j + 2 <= 2) /\ (j + 2) - 2 = j
        OBVIOUS
      <4>2. (R \o C)[j] = R[j] /\ (R \o C)[j + 2] = C[j]
        BY <3>1, <4>1
      <4> QED
        BY <3>3, <4>1, <4>2
    <3> QED
      BY <3>4
  <2>4. \A j \in 1..2 : R[j] \in Number /\ C[j] \in Number /\ O[j] \in Number /\ IsFinite(O[j])
    BY <1>8, <2>1
  <2>5. \A j \in 1..2 : /\ Apart(R[j], C[j]) = Distance(R[j], C[j]) /\ Apart(R[j], C[j]) # NaN
                        /\ Apart(C[j], O[j]) = Distance(C[j], O[j]) /\ Apart(C[j], O[j]) # NaN
    <3>1. \A j \in 1..2 :
             /\ Apart(R[j], C[j]) = Distance(R[j], C[j]) /\ Apart(R[j], C[j]) \in 0..9
             /\ Apart(C[j], O[j]) = Distance(C[j], O[j]) /\ Apart(C[j], O[j]) \in 0..9
      BY <2>3, <2>4, Errors
    <3>2. NaN \notin 0..9
      BY DEF NaN
    <3> QED
      BY <3>1, <3>2
  <2>6. IsWithin(R, C)
    BY <1>2, <1>7, <1>9, <2>1
  <2>7. Distance(R[i], C[i]) <= OutputTolerance
    BY <1>8, <2>1, <2>2, <2>5, <2>6, WithinFacts
  <2>8. v \in {"oracle", "dsa", "reuse"} => IsWithin(C, O)
    BY <1>7, <2>1
  <2>9. v \in {"oracle", "dsa", "reuse"} => Distance(C[i], O[i]) <= OutputTolerance
    BY <1>8, <2>1, <2>2, <2>5, <2>8, WithinFacts
  <2> QED
    BY <2>7, <2>9
<1>15. \A v \in Accepting' : cand["oracle"].value = O
  BY <1>3, <1>6 DEF Whole
<1>16. OperatorsAgree'
  BY <1>1, <1>3, <1>10, <1>11, <1>12, <1>13, <1>14, <1>15 DEF OperatorsAgree
<1> QED
  BY <1>1, <1>16 DEF ComparatorsAgree, TopKIsJustified

(* Rows of indices.  Rows of the same different indices are permutations of one    *)
(* another, and sorting makes them equal.                                     *)
LEMMA RowsArePermuted ==
  ASSUME NEW f \in [1..K -> Index], NEW g \in [1..K -> Index], IsInjective(f), IsInjective(g),
         Range(f) = Range(g)
  PROVE  \E p \in Bijection(1..K, 1..K) : \A i \in 1..K : g[i] = f[p[i]]
<1> DEFINE p == [i \in 1..K |-> CHOOSE j \in 1..K : f[j] = g[i]]
<1>1. DOMAIN f = 1..K /\ DOMAIN g = 1..K
  OBVIOUS
<1>2. \A i \in 1..K : \E j \in 1..K : f[j] = g[i]
  BY <1>1 DEF Range
<1>3. \A i \in 1..K : \E j \in 1..K : g[j] = f[i]
  BY <1>1 DEF Range
<1>4. \A i \in 1..K : p[i] \in 1..K /\ f[p[i]] = g[i]
  BY <1>2
<1>5. p \in [1..K -> 1..K]
  BY <1>4
<1> HIDE DEF p
<1>6. \A i, j \in 1..K : p[i] = p[j] => i = j
  BY <1>1, <1>4 DEF IsInjective
<1>7. ASSUME NEW w \in 1..K PROVE \E v \in 1..K : p[v] = w
  <2>1. PICK v \in 1..K : g[v] = f[w]
    BY <1>3
  <2>2. p[v] \in 1..K /\ f[p[v]] = f[w]
    BY <1>4, <2>1
  <2> QED
    BY <1>1, <2>2 DEF IsInjective
<1>8. p \in Bijection(1..K, 1..K)
  BY <1>5, <1>6, <1>7 DEF Bijection, Injection, Surjection, IsInjective
<1> QED
  BY <1>4, <1>8

LEMMA PermutedCount ==
  ASSUME NEW f \in [1..K -> Index], NEW g \in [1..K -> Index],
         NEW p \in Bijection(1..K, 1..K), \A i \in 1..K : g[i] = f[p[i]], NEW X
  PROVE  Cardinality({i \in 1..K : g[i] \in X}) = Cardinality({i \in 1..K : f[i] \in X})
<1> DEFINE S == {i \in 1..K : g[i] \in X}
           T == {i \in 1..K : f[i] \in X}
           q == [i \in S |-> p[i]]
<1>1. /\ p \in [1..K -> 1..K]
      /\ \A i, j \in 1..K : p[i] = p[j] => i = j
      /\ \A w \in 1..K : \E v \in 1..K : p[v] = w
  BY DEF Bijection, Injection, Surjection, IsInjective
<1>2. q \in [S -> T]
  BY <1>1
<1>3. \A i, j \in S : q[i] = q[j] => i = j
  BY <1>1
<1>4. \A w \in T : \E v \in S : q[v] = w
  BY <1>1
<1>5. q \in Bijection(S, T)
  <2> HIDE DEF q, S, T
  <2> QED
    BY <1>2, <1>3, <1>4 DEF Bijection, Injection, Surjection, IsInjective
<1>6. IsFiniteSet(S)
  <2>1. IsFiniteSet(1..K)
    BY ComparisonAssumption, FS_Interval
  <2> QED
    BY <2>1, FS_Subset
<1>7. ExistsBijection(S, T)
  BY <1>5 DEF ExistsBijection
<1> HIDE DEF S, T, q
<1>8. Cardinality(T) = Cardinality(S)
  BY <1>6, <1>7, FS_Bijection
<1> QED
  BY <1>8 DEF S, T

LEMMA PermutedRowsSortAlike ==
  ASSUME NEW f \in [1..K -> Index], NEW g \in [1..K -> Index],
         NEW p \in Bijection(1..K, 1..K), \A i \in 1..K : g[i] = f[p[i]], Range(f) = Range(g)
  PROVE  SortedRow(f) = SortedRow(g)
<1>1. DOMAIN f = 1..K /\ DOMAIN g = 1..K /\ Index \subseteq Int
  BY ComparisonAssumption DEF Index
<1>2. ASSUME NEW x \in Range(f)
      PROVE  /\ Cardinality({i \in 1..K : g[i] < x}) = Cardinality({i \in 1..K : f[i] < x})
             /\ Cardinality({i \in 1..K : g[i] <= x}) = Cardinality({i \in 1..K : f[i] <= x})
  <2> DEFINE Less == {y \in Index : y < x}
             NoMore == {y \in Index : y <= x}
  <2>1. /\ {i \in 1..K : g[i] < x} = {i \in 1..K : g[i] \in Less}
        /\ {i \in 1..K : f[i] < x} = {i \in 1..K : f[i] \in Less}
        /\ {i \in 1..K : g[i] <= x} = {i \in 1..K : g[i] \in NoMore}
        /\ {i \in 1..K : f[i] <= x} = {i \in 1..K : f[i] \in NoMore}
    OBVIOUS
  <2> HIDE DEF Less, NoMore
  <2>2. \A X : Cardinality({i \in 1..K : g[i] \in X}) = Cardinality({i \in 1..K : f[i] \in X})
    BY ZenonT(30), PermutedCount
  <2> QED
    BY <2>1, <2>2
<1>3. ASSUME NEW k \in 1..K PROVE StandsAt(f, k) = StandsAt(g, k)
  BY <1>1, <1>2 DEF StandsAt
<1> QED
  BY <1>1, <1>3 DEF SortedRow

LEMMA RowsAreJudged ==
  ASSUME NEW ref \in [1..2 -> [1..K -> Index]], NEW cand \in [1..2 -> [1..K -> Index]],
         NEW points, points = {<<1, 1>>, <<2, K>>},
         compared' = [kind |-> "rows", ref |-> ref, cand |-> cand,
                      whole |-> RowsAgree(ref, cand),
                      sampled |-> SampledAgree(ref, cand, points)]
  PROVE  ComparatorsAgree' /\ TopKIsJustified' /\ OperatorsAgree'
<1>1. /\ compared'.kind = "rows" /\ compared'.ref = ref /\ compared'.cand = cand
      /\ compared'.whole = RowsAgree(ref, cand)
      /\ compared'.sampled = SampledAgree(ref, cand, points)
  OBVIOUS
<1>2. DOMAIN ref = 1..2
  OBVIOUS
<1>3. ASSUME RowsAgree(ref, cand), NEW r \in 1..2
      PROVE  /\ \E p \in Bijection(1..K, 1..K) : \A i \in 1..K : cand[r][i] = ref[r][p[i]]
             /\ SortedRow(ref[r]) = SortedRow(cand[r])
  <2>1. ref[r] \in [1..K -> Index] /\ cand[r] \in [1..K -> Index]
    OBVIOUS
  <2>2. IsInjective(ref[r]) /\ IsInjective(cand[r]) /\ Range(ref[r]) = Range(cand[r])
    BY <1>2, <1>3 DEF RowsAgree
  <2>3. PICK p \in Bijection(1..K, 1..K) : \A i \in 1..K : cand[r][i] = ref[r][p[i]]
    BY <2>1, <2>2, RowsArePermuted
  <2> QED
    BY <2>1, <2>2, <2>3, PermutedRowsSortAlike
<1>4. RowsAgree(ref, cand) => SampledAgree(ref, cand, points)
  <2>1. \A p \in points : p[1] \in 1..2
    OBVIOUS
  <2> QED
    BY <1>3, <2>1 DEF SampledAgree
<1>5. ref = cand /\ (\A r \in 1..2 : IsInjective(ref[r])) => RowsAgree(ref, cand)
  BY <1>2 DEF RowsAgree
<1>6. OperatorsAgree'
  BY <1>1, <1>3, <1>4, <1>5 DEF OperatorsAgree
<1> QED
  BY <1>1, <1>6 DEF ComparatorsAgree, TopKIsJustified


(* A verdict is given once, and speaks for the outputs it was given.             *)
LEMMA LeavesStep == ASSUME CompareLeaves PROVE VerdictsAreJustified'
<1>1. PICK ref \in [Path -> [contract: {"float"}, value: Value]],
           paths \in SUBSET Path, contract \in {"float", "half"}, t \in Tolerance :
        \E value \in [paths -> Value] :
           LET cand == [p \in paths |->
                           [contract |-> IF p = "output.a" THEN contract ELSE "float",
                            value |-> value[p]]]
           IN compared' = [kind |-> "leaves", ref |-> ref, cand |-> cand, tolerance |-> t,
                           exact |-> Exact(ref, cand), floating |-> Floating(ref, cand, t)]
  BY DEF CompareLeaves
<1>2. PICK value \in [paths -> Value] :
           LET cand == [p \in paths |->
                           [contract |-> IF p = "output.a" THEN contract ELSE "float",
                            value |-> value[p]]]
           IN compared' = [kind |-> "leaves", ref |-> ref, cand |-> cand, tolerance |-> t,
                           exact |-> Exact(ref, cand), floating |-> Floating(ref, cand, t)]
  BY <1>1
<1> DEFINE cand == [p \in paths |->
                       [contract |-> IF p = "output.a" THEN contract ELSE "float",
                        value |-> value[p]]]
<1>3. cand \in [paths -> Leaf] /\ ref \in [Path -> Leaf]
  BY DEF Leaf
<1>4. compared' = [kind |-> "leaves", ref |-> ref, cand |-> cand, tolerance |-> t,
                   exact |-> Exact(ref, cand), floating |-> Floating(ref, cand, t)]
  BY <1>2
<1> HIDE DEF cand
<1> QED
  BY <1>3, <1>4, LeavesAgree DEF VerdictsAreJustified

LEMMA CodesStep == ASSUME CompareCodes PROVE VerdictsAreJustified'
BY CodesAgree DEF CompareCodes, VerdictsAreJustified

LEMMA TopKStep == ASSUME CompareTopK PROVE VerdictsAreJustified'
BY ListingsAreJustified DEF CompareTopK, VerdictsAreJustified

LEMMA OperatorStep == ASSUME CompareOperator PROVE VerdictsAreJustified'
<1> DEFINE Bundle(output, oracle, cache, without) ==
              [p \in RolePath \ without |->
                 CASE p = "output" -> LeafOf(IF Len(output) = 2 THEN "float" ELSE "half", output)
                   [] p = "oracle" -> LeafOf("float", oracle)
                   [] p = "indices" -> LeafOf("float", <<0>>)
                   [] p = "cache" -> LeafOf("float", cache)
                   [] p = "expected" -> LeafOf("float", <<0>>)]
           Verdicts(ref, cand) ==
              [kind |-> "operator", ref |-> ref, cand |-> cand,
               oracle |-> OracleVerdict(ref, cand),
               bounded |-> BoundedVerdict(ref, cand),
               dsa |-> DsaVerdict(ref, cand),
               mega |-> MegaVerdict(ref, cand),
               reuse |-> ReuseVerdict(ref, cand)]
<1>1. PICK R \in Outputs, rc \in {<<0>>, <<1>>}, cc \in {<<0>>, <<1>>}, O \in Oracle,
           missing \in SUBSET {"oracle", "indices"}, C \in Outputs \cup [1..1 -> Finite] :
         compared' = Verdicts(Bundle(R, Zeros, rc, {}), Bundle(C, O, cc, missing))
  BY DEF CompareOperator, Outputs, Oracle, Zeros
<1>2. ASSUME NEW output, NEW oracle, NEW cache, NEW without \in SUBSET {"oracle", "indices"}
      PROVE  IsRole(Bundle(output, oracle, cache, without), output, oracle, cache, without)
  BY DEF IsRole, RolePath
<1> DEFINE ref == Bundle(R, Zeros, rc, {})
           cand == Bundle(C, O, cc, missing)
<1>3. IsRole(ref, R, Zeros, rc, {}) /\ IsRole(cand, C, O, cc, missing)
  <2>1. {} \in SUBSET {"oracle", "indices"}
    OBVIOUS
  <2> HIDE DEF Bundle
  <2> QED
    BY <1>2, <2>1, Zenon
<1>4. compared' = Verdicts(ref, cand)
  BY <1>1
<1> HIDE DEF Bundle, ref, cand
<1> QED
  BY <1>3, <1>4, RolesAreJudged DEF VerdictsAreJustified

LEMMA RowsStep == ASSUME CompareRows PROVE VerdictsAreJustified'
BY RowsAreJudged DEF CompareRows, VerdictsAreJustified

(* The built-in comparators and those of the operators agree with one another and  *)
(* with their contracts, for any finite values, scores and tolerances below the     *)
(* codes of NaN and the infinities, any length of a Top-K and any range of codes   *)
(* (correctness/comparators.py, the comparators of operators/references).        *)
THEOREM VerdictsWereJustified == VerdictSpec => []VerdictsAreJustified
<1>1. ComparisonInit => VerdictsAreJustified
  BY DEF ComparisonInit, VerdictsAreJustified, ComparatorsAgree, TopKIsJustified, OperatorsAgree
<1>2. VerdictsAreJustified /\ [VerdictNext]_comparisonVars => VerdictsAreJustified'
  <2>1. ASSUME VerdictsAreJustified, VerdictNext PROVE VerdictsAreJustified'
    BY <2>1, LeavesStep, CodesStep, TopKStep, OperatorStep, RowsStep, Zenon
       DEF VerdictNext, ComparisonNext
  <2>2. ASSUME VerdictsAreJustified, UNCHANGED comparisonVars PROVE VerdictsAreJustified'
    BY <2>2, Zenon DEF comparisonVars, VerdictsAreJustified, ComparatorsAgree, TopKIsJustified,
                       OperatorsAgree, Accepting
  <2> QED
    BY <2>1, <2>2
<1> QED
  BY <1>1, <1>2, PTL DEF VerdictSpec
=============================================================================
