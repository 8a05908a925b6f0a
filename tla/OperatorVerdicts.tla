-------------------------- MODULE OperatorVerdicts --------------------------
(***************************************************************************)
(* The comparators the operators bring with their specs                    *)
(* (src/operators/references/*/spec.py).  An attention operator compares the*)
(* sampled output of either role with an oracle that came with its inputs, *)
(* and the roles with each other; the logits operators also compare the    *)
(* caches; Top-K compares rows.                                             *)
(*                                                                         *)
(* The error of an output is a maximum taken the way Python takes it: the   *)
(* first element stays unless a later one is greater, and nothing is        *)
(* greater than NaN or less.                                                *)
(***************************************************************************)
EXTENDS Comparison

CONSTANT OutputTolerance     \* TOLERANCE; both atol and what an oracle allows

\* values of outputs are coded up to 9; make_inputs of topk_transform refuses a topk of zero
ASSUME OperatorVerdictsAssumption == OutputTolerance \in 0..9 /\ K # 0

-----------------------------------------------------------------------------
\* |v - w|; the difference of equal infinities is NaN
Apart(v, w) ==
    IF IsFinite(v) /\ IsFinite(w) THEN Distance(v, w)
    ELSE IF NaN \in {v, w} \/ v = w THEN NaN
    ELSE Inf

IsGreater(e, f) == NaN \notin {e, f} /\ e > f

\* max(abs(a - b) ...) over the elements of two outputs: worst[n] is that of the first n
MaxError(left, right) ==
    LET worst[n \in 1..Len(left)] ==
            LET error == Apart(left[n], right[n])
            IN  IF n = 1 \/ IsGreater(error, worst[n - 1]) THEN error ELSE worst[n - 1]
    IN  worst[Len(left)]

IsWithin(left, right) ==
    Len(left) = Len(right) /\ ~IsGreater(MaxError(left, right), OutputTolerance)

-----------------------------------------------------------------------------
(* A normalized output: the sampled output and the observed state of the      *)
(* inputs, among it the oracle, the sampled indices, the cache and what the    *)
(* cache is expected to be.                                                   *)
RolePath == {"output", "oracle", "indices", "cache", "expected"}

OracleHolds(role, needed) ==
    needed \subseteq DOMAIN role /\ IsWithin(role["output"].value, role["oracle"].value)

RolesAgree(ref, cand) == IsWithin(ref["output"].value, cand["output"].value)

\* every leaf has the same contract, and every observed leaf the same value
StateIsKept(ref, cand, unobserved) ==
    /\ SameStructure(ref, cand)
    /\ \A p \in DOMAIN ref \ (unobserved \cup {"output"}) : ref[p].value = cand[p].value

(* The attention operators and the paged logits of a correctness case.         *)
OracleVerdict(ref, cand) ==
    /\ \A role \in {ref, cand} : OracleHolds(role, {"output", "oracle", "indices"})
    /\ RolesAgree(ref, cand)
    /\ StateIsKept(ref, cand, {"oracle", "indices"})

(* The paged logits of a performance case bring no oracle.                     *)
BoundedVerdict(ref, cand) ==
    RolesAgree(ref, cand) /\ StateIsKept(ref, cand, {"oracle", "indices"})

(* DeepSeek-V3.2's does not ask for the sampled indices.                       *)
DsaVerdict(ref, cand) ==
    /\ \A role \in {ref, cand} : OracleHolds(role, {"output", "oracle"})
    /\ RolesAgree(ref, cand)
    /\ StateIsKept(ref, cand, {"oracle"})

OperatorTolerance == [atol |-> OutputTolerance, rtol |-> 0, equalNan |-> FALSE]

\* exact on the cache, floating on the rest
MegaVerdict(ref, cand) ==
    /\ SameStructure(ref, cand)
    /\ \A p \in DOMAIN ref :
          IF p \in {"cache", "expected"} THEN ref[p].value = cand[p].value
          ELSE \A i \in DOMAIN ref[p].value :
                  ~Mismatches(ref[p].value[i], cand[p].value[i], OperatorTolerance)

SelfCheck(role) ==
    /\ OracleHolds(role, {"output", "oracle"})
    /\ {"cache", "expected"} \subseteq DOMAIN role
    /\ role["cache"].value = role["expected"].value

(* Full reuse also wants each role to keep its cache and to agree with its oracle. *)
ReuseVerdict(ref, cand) == MegaVerdict(ref, cand) /\ SelfCheck(ref) /\ SelfCheck(cand)

OutputValue == Value \ {NegInf}

LeafOf(contract, value) == [contract |-> contract, value |-> value]

(* A candidate may leave out an observed leaf, return another shape, and write  *)
(* to its oracle and its cache; the oracle of the reference is right.           *)
CompareOperator ==
    /\ compared.kind = "none"
    /\ \E refOutput \in [1..2 -> OutputValue], refCache, candCache \in {<<0>>, <<1>>},
          candOracle \in {<<0, 0>>, <<2, 2>>}, missing \in SUBSET {"oracle", "indices"} :
       \E candOutput \in [1..2 -> OutputValue] \cup [1..1 -> Finite] :
          LET Bundle(output, oracle, cache, without) ==
                 [p \in RolePath \ without |->
                    CASE p = "output" -> LeafOf(IF Len(output) = 2 THEN "float" ELSE "half", output)
                      [] p = "oracle" -> LeafOf("float", oracle)
                      [] p = "indices" -> LeafOf("float", <<0>>)
                      [] p = "cache" -> LeafOf("float", cache)
                      [] p = "expected" -> LeafOf("float", <<0>>)]
              ref == Bundle(refOutput, <<0, 0>>, refCache, {})
              cand == Bundle(candOutput, candOracle, candCache, missing)
          IN compared' = [kind |-> "operator", ref |-> ref, cand |-> cand,
                          oracle |-> OracleVerdict(ref, cand),
                          bounded |-> BoundedVerdict(ref, cand),
                          dsa |-> DsaVerdict(ref, cand),
                          mega |-> MegaVerdict(ref, cand),
                          reuse |-> ReuseVerdict(ref, cand)]

-----------------------------------------------------------------------------
(* BatchedUnorderedTopKComparator: rows of indices, as sets.                   *)
RowsAgree(ref, cand) ==
    \A r \in DOMAIN ref :
       IsInjective(ref[r]) /\ IsInjective(cand[r]) /\ Range(ref[r]) = Range(cand[r])

(* A performance case compares sampled elements of the rows, sorted before: at    *)
(* place k stands an index with fewer than k entries below it, and k or more that *)
(* are not above it.                                                        *)
AnyOf(set) == CHOOSE x \in set : TRUE
StandsAt(row, k) ==
    {x \in Range(row) : /\ Cardinality({i \in DOMAIN row : row[i] < x}) < k
                        /\ k <= Cardinality({i \in DOMAIN row : row[i] <= x})}
SortedRow(row) == [k \in DOMAIN row |-> AnyOf(StandsAt(row, k))]
SampledAgree(ref, cand, points) ==
    \A p \in points : SortedRow(ref[p[1]])[p[2]] = SortedRow(cand[p[1]])[p[2]]

CompareRows ==
    /\ compared.kind = "none"
    /\ \E ref, cand \in [1..2 -> [1..K -> Index]], points \in {{<<1, 1>>, <<2, K>>}} :
          compared' = [kind |-> "rows", ref |-> ref, cand |-> cand,
                       whole |-> RowsAgree(ref, cand),
                       sampled |-> SampledAgree(ref, cand, points)]

-----------------------------------------------------------------------------
VerdictNext == ComparisonNext \/ CompareOperator \/ CompareRows
VerdictSpec == ComparisonInit /\ [][VerdictNext]_comparisonVars

VerdictTypeOK ==
    CASE compared.kind = "leaves" ->
            /\ \A side \in {compared.ref, compared.cand} :
                  /\ DOMAIN side \subseteq Path
                  /\ \A p \in DOMAIN side :
                        side[p].contract \in {"float", "half"} /\ side[p].value \in Value
            /\ compared.tolerance \in Tolerance
            /\ {compared.exact.passed, compared.floating.passed} \subseteq BOOLEAN
      [] compared.kind = "codes" ->
            /\ {compared.refCodes, compared.candCodes} \subseteq [1..2 -> Int]
            /\ compared.scale \in Nat /\ compared.atol \in Nat
            /\ {compared.raw, compared.dequant} \subseteq BOOLEAN
      [] compared.kind = "topk" ->
            /\ compared.scores \in [Index -> Score]
            /\ compared.best \in [indices : [1..K -> Index], scores : [1..K -> Score]]
            /\ compared.claim \in [indices : [1..K -> Int], scores : [1..K -> Score \cup {NaN}]]
            /\ compared.passes \subseteq TopKMode
      [] compared.kind = "operator" ->
            /\ DOMAIN compared.ref = RolePath /\ DOMAIN compared.cand \subseteq RolePath
            /\ \A v \in {"oracle", "bounded", "dsa", "mega", "reuse"} : compared[v] \in BOOLEAN
      [] compared.kind = "rows" ->
            /\ {compared.ref, compared.cand} \subseteq [1..2 -> [1..K -> Index]]
            /\ {compared.whole, compared.sampled} \subseteq BOOLEAN
      [] OTHER -> compared = [kind |-> "none"]

Accepting == {v \in {"oracle", "bounded", "dsa", "mega", "reuse"} : compared[v]}
AllFinite(values) == \A i \in DOMAIN values : IsFinite(values[i])

(* The operators' comparators agree with one another:                          *)
(* - a stricter one passes nothing a laxer one refuses;                        *)
(* - finite outputs that pass lie within the tolerance of each other, and of    *)
(*   the true oracle unless the candidate overwrote its own;                   *)
(* - full reuse alone notices that both roles wrote to their caches;           *)
(* - Top-K rows pass in any order and only row by row, and a sample of the     *)
(*   sorted rows refuses nothing the whole rows pass.                          *)
OperatorsAgree ==
    CASE compared.kind = "operator" ->
            LET ref == compared.ref
                cand == compared.cand
                Near(v, w) == Distance(v, w) <= OutputTolerance
            IN /\ "reuse" \in Accepting => {"mega", "dsa", "bounded"} \subseteq Accepting
               /\ "dsa" \in Accepting /\ "indices" \in DOMAIN cand => "oracle" \in Accepting
               /\ "oracle" \in Accepting => {"dsa", "bounded"} \subseteq Accepting
               /\ Accepting # {} => /\ DOMAIN cand = RolePath
                                 /\ ref["cache"] = cand["cache"]
               /\ "reuse" \in Accepting => /\ cand["cache"] = cand["expected"]
                                        /\ AllFinite(cand["output"].value)
               /\ AllFinite(ref["output"].value \o cand["output"].value) =>
                     \A v \in Accepting, i \in DOMAIN cand["output"].value :
                        /\ Near(ref["output"].value[i], cand["output"].value[i])
                        /\ v \in {"oracle", "dsa", "reuse"} =>
                              Near(cand["output"].value[i], cand["oracle"].value[i])
      [] compared.kind = "rows" ->
            /\ compared.whole =>
                  /\ compared.sampled
                  /\ \A r \in 1..2 : \E p \in Bijection(1..K, 1..K) :
                        \A i \in 1..K : compared.cand[r][i] = compared.ref[r][p[i]]
            /\ compared.ref = compared.cand /\ (\A r \in 1..2 : IsInjective(compared.ref[r]))
                  => compared.whole
      [] OTHER -> TRUE

(* The verdict of every comparator is the one its contract justifies.           *)
VerdictsAreJustified == ComparatorsAgree /\ TopKIsJustified /\ OperatorsAgree

(* docs/correctness.md:70 says that "NaNs match only under `equal_nan`", and the  *)
(* operators' manifests say equal_nan: false: an output that has a NaN where the  *)
(* reference has a number fails every comparator.                               *)
NaNsDoNotMatch ==
    compared.kind = "operator" =>
       \A i \in DOMAIN compared.cand["output"].value :
          compared.cand["output"].value[i] = NaN /\ IsFinite(compared.ref["output"].value[i])
             => Accepting = {}
=============================================================================
