----------------------------- MODULE Comparison -----------------------------
(***************************************************************************)
(* The comparators of the correctness gate (correctness/comparators.py,     *)
(* metrics.py) and the output rows the engine derives from their metrics    *)
(* (_append_result of engine.py).                                          *)
(*                                                                         *)
(* They are functions.  Each step compares one pair of outputs, over small   *)
(* vectors, small integers for numbers, and the three values that are not   *)
(* finite.  A score tolerance makes ties that are not transitive.           *)
(***************************************************************************)
EXTENDS Integers, Sequences, SequencesExt, FiniteSets

CONSTANTS
    Finite,        \* the finite values of outputs
    NIndices,      \* the universe of Top-K
    K,             \* its length
    Score,         \* scores
    ScoreTolerance,\* atol of score_tolerance
    MaxCode        \* quant_max; quant_min is zero

ASSUME ComparisonAssumption ==
    /\ IsFiniteSet(Finite) /\ Finite \subseteq 0..9
    /\ NIndices \in Nat /\ K \in 0..NIndices
    /\ IsFiniteSet(Score) /\ Score \subseteq 0..9
    /\ ScoreTolerance \in Nat
    /\ MaxCode \in Nat \ {0}

VARIABLE compared    \* the comparison made last
comparisonVars == <<compared>>

-----------------------------------------------------------------------------
(* Numbers.  A comparison with NaN is false, as in IEEE arithmetic.            *)
NaN == 10
Inf == 11
NegInf == 12
Value == Finite \cup {NaN, Inf, NegInf}
IsFinite(v) == v \notin {NaN, Inf, NegInf}
Differ(v, w) == v # w \/ v = NaN
Distance(v, w) == IF v >= w THEN v - w ELSE w - v

(* absolute > threshold, where absolute may be infinite or NaN.               *)
Exceeds(ref, cand, threshold) ==
    IF IsFinite(ref) /\ IsFinite(cand) THEN Distance(ref, cand) > threshold
    ELSE NaN \notin {ref, cand} /\ ref # cand

(* A mutant of Mismatches: values that are not finite are compared like others. *)
MismatchesByDistance(ref, cand, t) == Exceeds(ref, cand, t.atol + t.rtol * ref)

(* An element of floating_metrics.                                          *)
Mismatches(ref, cand, t) ==
    IF IsFinite(ref) /\ IsFinite(cand)
    THEN Exceeds(ref, cand, t.atol + t.rtol * ref)
    ELSE ~(ref = NaN /\ cand = NaN /\ t.equalNan) /\ Differ(ref, cand)

Tolerance == [atol: 0..1, rtol: 0..1, equalNan: BOOLEAN]

-----------------------------------------------------------------------------
(* A bundle maps its paths to leaves: a contract (dtype, shape, stride,       *)
(* layout) and a value.                                                     *)
Path == {"output.a", "output.b"}

(* _structure.                                                              *)
SameStructure(ref, cand) ==
    /\ DOMAIN ref = DOMAIN cand
    /\ \A p \in DOMAIN ref : ref[p].contract = cand[p].contract

FailedPaths(ref, cand, Failing(_, _)) ==
    {p \in DOMAIN ref : Failing(ref[p].value, cand[p].value)}

(* ExactComparator: one count of mismatches for all paths.                    *)
Exact(ref, cand) ==
    LET failed == FailedPaths(ref, cand, Differ)
    IN IF ~SameStructure(ref, cand)
       THEN [passed |-> FALSE, counts |-> [p \in {} |-> 0]]
       ELSE [passed |-> failed = {},
             counts |-> [p \in DOMAIN ref |-> Cardinality(failed)]]

(* FloatingComparator: a count for each path.                                *)
Floating(ref, cand, t) ==
    LET failed == FailedPaths(ref, cand, LAMBDA v, w : Mismatches(v, w, t))
    IN IF ~SameStructure(ref, cand)
       THEN [passed |-> FALSE, counts |-> [p \in {} |-> 0]]
       ELSE [passed |-> failed = {},
             counts |-> [p \in DOMAIN ref |-> IF p \in failed THEN 1 ELSE 0]]

(* passed of the row of path p in correctness_outputs.csv: path_metrics are     *)
(* those of the path, or those of all when the comparator has no others.      *)
RowPasses(p, result) ==
    result.passed \/ (p \in DOMAIN result.counts /\ result.counts[p] = 0)

CompareLeaves ==
    /\ compared.kind = "none"
    /\ \E ref \in [Path -> [contract: {"float"}, value: Value]],
          paths \in SUBSET Path,
          contract \in {"float", "half"},
          t \in Tolerance :
       \E value \in [paths -> Value] :
          LET cand == [p \in paths |->
                          [contract |-> IF p = "output.a" THEN contract ELSE "float",
                           value |-> value[p]]]
          IN compared' = [kind |-> "leaves", ref |-> ref, cand |-> cand, tolerance |-> t,
                          exact |-> Exact(ref, cand), floating |-> Floating(ref, cand, t)]

-----------------------------------------------------------------------------
(* QuantizedComparator.  The codes of either side must be in range; what they    *)
(* dequantize to is finite, for the scale is.                                *)
InRange(codes) == \A i \in DOMAIN codes : codes[i] \in 0..MaxCode

CodesAreInRange(ref, cand) == InRange(ref) /\ InRange(cand)

RawCode(ref, cand) == CodesAreInRange(ref, cand) /\ ref = cand

Dequantized(code, zero, scale) == (code - zero) * scale

Dequant(ref, cand, zero, scale, atol) ==
    /\ CodesAreInRange(ref, cand)
    /\ \A i \in DOMAIN ref :
          Distance(Dequantized(ref[i], zero, scale), Dequantized(cand[i], zero, scale)) <= atol

CompareCodes ==
    /\ compared.kind = "none"
    /\ \E ref, cand \in [1..2 -> -1..(MaxCode + 1)], zero \in 0..1, scale \in 1..2,
          atol \in 0..2 :
          compared' = [kind |-> "codes", refCodes |-> ref, candCodes |-> cand, scale |-> scale,
                       atol |-> atol, raw |-> RawCode(ref, cand),
                       dequant |-> Dequant(ref, cand, zero, scale, atol)]

-----------------------------------------------------------------------------
(* TopKComparator with a scores path.  A listing is its indices and scores.    *)
Index == 0..(NIndices - 1)

IsValid(indices) == IsInjective(indices) /\ \A i \in DOMAIN indices : indices[i] \in Index

ScoreIn(listing, index) ==
    listing.scores[CHOOSE i \in DOMAIN listing.indices : listing.indices[i] = index]

IsClose(s, t) == ~Mismatches(s, t, [atol |-> ScoreTolerance, rtol |-> 0, equalNan |-> FALSE])
                 /\ NaN \notin {s, t}

(* score_ok: the scores of the indices both sides list.                       *)
ScoresAgree(ref, cand) ==
    \A index \in Range(ref.indices) \cap Range(cand.indices) :
        IsClose(ScoreIn(ref, index), ScoreIn(cand, index))

(* tie_ok: at every position stands an index whose reference score is close to *)
(* the one of the index that should stand there.                            *)
TieIsOk(ref, cand) ==
    /\ Range(ref.indices) = Range(cand.indices)
    /\ \A i \in 1..K :
          \/ ref.indices[i] = cand.indices[i]
          \/ IsClose(ScoreIn(ref, ref.indices[i]), ScoreIn(ref, cand.indices[i]))

TopKMode == [ordered: BOOLEAN, tieAware: BOOLEAN]

TopK(ref, cand, mode) ==
    /\ IsValid(ref.indices) /\ IsValid(cand.indices)
    /\ ScoresAgree(ref, cand)
    /\ \/ IF mode.ordered THEN ref.indices = cand.indices
          ELSE Range(ref.indices) = Range(cand.indices)
       \/ mode.tieAware /\ TieIsOk(ref, cand)

(* The reference lists a Top-K of the scores of the universe, with its scores.  *)
(* An index is only a name: the universe is numbered by falling score.         *)
IsTopK(indices, scores) ==
    /\ IsInjective(indices)
    /\ \A i, j \in 1..K : i < j => scores[indices[i]] >= scores[indices[j]]
    /\ \A x \in Index \ Range(indices), i \in 1..K : scores[indices[i]] >= scores[x]

CompareTopK ==
    /\ compared.kind = "none"
    /\ \E scores \in [Index -> Score], best \in [1..K -> Index],
          indices \in [1..K -> -1..NIndices], claims \in [1..K -> Score \cup {NaN}] :
          LET ref == [indices |-> best, scores |-> [i \in 1..K |-> scores[best[i]]]]
              cand == [indices |-> indices, scores |-> claims]
          IN /\ \A x, y \in Index : x < y => scores[x] >= scores[y]
             /\ IsTopK(best, scores)
             /\ compared' = [kind |-> "topk", scores |-> scores, best |-> ref, claim |-> cand,
                             passes |-> {mode \in TopKMode : TopK(ref, cand, mode)}]

-----------------------------------------------------------------------------
ComparisonInit == compared = [kind |-> "none"]
ComparisonNext == CompareLeaves \/ CompareCodes \/ CompareTopK
ComparisonSpec == ComparisonInit /\ [][ComparisonNext]_comparisonVars

(* The comparators agree with one another and with what a tolerance is for:     *)
(* - what is exactly equal passes under every tolerance, unless it has a NaN; *)
(* - what passes under a tolerance passes under every wider one;              *)
(* - a value that is not finite only ever passes for itself;                  *)
(* - equal codes pass in both modes, and codes that dequantize closely pass    *)
(*   only if both sides keep the range of codes;                             *)
(* - the rows of correctness_outputs.csv show a failure if and only if there   *)
(*   is one.                                                                *)
ComparatorsAgree ==
    CASE compared.kind = "leaves" ->
            LET ref == compared.ref
                cand == compared.cand
                t == compared.tolerance
                wider == {u \in Tolerance : u.atol >= t.atol /\ u.rtol >= t.rtol
                                            /\ (t.equalNan => u.equalNan)}
            IN /\ compared.exact.passed => compared.floating.passed
               /\ compared.floating.passed =>
                     /\ \A u \in wider : Floating(ref, cand, u).passed
                     /\ \A p \in Path : ~(IsFinite(ref[p].value) /\ IsFinite(cand[p].value))
                                           => ref[p].value = cand[p].value
               /\ \A result \in {compared.exact, compared.floating} :
                     result.passed <=> \A p \in Path : RowPasses(p, result)
      [] compared.kind = "codes" ->
            /\ compared.raw => compared.dequant
            /\ compared.dequant =>
                  /\ InRange(compared.refCodes) /\ InRange(compared.candCodes)
                  /\ compared.atol < compared.scale => compared.raw
      [] OTHER -> TRUE

(* A listing that passes is one the universe's scores justify: it names K      *)
(* different indices of the universe, claims scores that are right, and       *)
(* unless any order will do, at every rank an index scored as close to the     *)
(* best of that rank as the tolerance says.  A listing of the reference's     *)
(* indices with the right scores in an order that ties allow is never refused *)
(* by a comparator that knows of ties.                                      *)
TopKIsJustified ==
    compared.kind = "topk" =>
        LET indices == compared.claim.indices
            claims == compared.claim.scores
            atRank(i) == compared.best.scores[i]
        IN /\ \A mode \in compared.passes :
                 /\ IsInjective(indices)
                 /\ \A i \in 1..K :
                       /\ indices[i] \in Index
                       /\ IsClose(compared.scores[indices[i]], claims[i])
                       /\ mode.ordered => IsClose(compared.scores[indices[i]], atRank(i))
           /\ /\ Range(indices) = Range(compared.best.indices)
              /\ \A i \in 1..K : claims[i] = compared.scores[indices[i]] /\ claims[i] = atRank(i)
              => {mode \in TopKMode : mode.tieAware} \subseteq compared.passes
=============================================================================
