--------------------------- MODULE OperatorCases ---------------------------
(***************************************************************************)
(* The reference operators' specs (src/operators/references): from a case  *)
(* each derives the index tensors of its inputs (page tables, visible      *)
(* lengths, selected tokens, routing), the points of the output that are   *)
(* compared, and a cost model.  An operator's definition below gives these *)
(* as a layout; the values of activations, weights and caches are left out.*)
(*                                                                         *)
(*   table[r]  the slots of the cache (or of the output) in index list r   *)
(*   lens[r]   how many of them are used, from the first on                *)
(*   owner[r]  the request or expert the list belongs to                   *)
(*   claim     what past[r] says of lens[r], see LengthIsRight             *)
(*   outputs   the rows of the output, one for a list unless stated        *)
(*   width     the outputs of a row; points are flat indices of the output *)
(*   work      the elements behind the "flops" of the cost model           *)
(*   units     its "throughput_units"; both are NoWork where it is None    *)
(*   produced  the slots the cost model counts as written                  *)
(***************************************************************************)
EXTENDS Integers, Sequences, SequencesExt, FiniteSetsExt, Functions

CONSTANTS
    OpCases,        \* the cases an operator is asked for
    RawContext,     \* RAW_CONTEXT of the mega operators
    Ratio,          \* COMPRESSION_RATIO
    PageSize,       \* PAGE_SIZE
    Window,         \* SWA_TOKENS, WINDOW
    SelectCap,      \* the 1024 selected tokens of a C4 decode
    SelectUnit,     \* the 64 FlashMLA wants its top-k to be a multiple of
    TopKCap,        \* the 2048 a top-k may select
    FormalM,        \* the m of the formal mega cases
    Align,          \* ALIGNMENT of a grouped GEMM
    Stride,         \* the 97 between selected tokens of the DeepSeek-V3.2 case
    OrdinalMix, RowMix,              \* the multipliers of a mega sample's column
    IndexHeads, IndexDim,            \* INDEX_HEADS, INDEX_DIM of the indexer
    GlobalExperts, LocalExperts, TopKExperts, RoutedHidden,
    SampleLimit     \* the 256 points of an output that are compared

VARIABLES opCase, layout

caseLayoutVars == <<opCase, layout>>

-----------------------------------------------------------------------------
CeilDiv(a, b) == (a + b - 1) \div b
Lesser(a, b) == IF a < b THEN a ELSE b
Below(n) == 0 .. (n - 1)
SumOver(f) == MapThenSumSet(LAMBDA r : f[r], DOMAIN f)
Consecutive(from, n) == [j \in 1..n |-> from + j - 1]
SlotsOf(pages, n) ==
    [j \in 1..n |-> pages[((j - 1) \div PageSize) + 1] * PageSize + ((j - 1) % PageSize)]
NoWork == -1
NoLength == -1

\* the indices of at most SampleLimit points spread over an output
SampleIndices(total) ==
    LET count == Lesser(total, SampleLimit)
        span == total - 1
        intervals == count - 1
    IN IF count <= 1 THEN Below(count)
       ELSE {p * (span \div intervals) + (p * (span % intervals)) \div intervals :
                p \in Below(count)}

\* the compressed tokens row i of m queries may see
CausalLength(raw, m, i) == (raw - m + i + 1) \div Ratio

(* A mutant of CausalWork counts the compressed context for every row.          *)
FullWork(raw, m) == m * (raw \div Ratio)
CausalWork(raw, m) == MapThenSumSet(LAMBDA i : CausalLength(raw, m, i), Below(m))

\* what most layouts share: one request, the points of every output
Plain == [claim |-> "none", past |-> <<>>, written |-> {}, distinct |-> FALSE,
          sampled |-> "anywhere"]
Layout(op, rows, table(_), lens(_), owner(_), slots, width, work) ==
    [op |-> op, table |-> [r \in Below(rows) |-> table(r)], lens |-> [r \in Below(rows) |-> lens(r)],
     owner |-> [r \in Below(rows) |-> owner(r)], slots |-> slots, outputs |-> rows,
     width |-> width, points |-> SampleIndices(rows * width), work |-> work,
     units |-> work, produced |-> 0] @@ Plain

One(r) == 0
Itself(r) == r

-----------------------------------------------------------------------------
(* Paged scores of a compressed cache.  A prefill has one request with many   *)
(* causal rows, a decode one row for each request; a row of a correctness     *)
(* case of the second request finds its pages in reverse.  The throughput of   *)
(* scores counts the positions of a row that are masked, too.                 *)
PagedLogits(c) ==
    LET compressed == CeilDiv(c.raw, Ratio)
        pages == CeilDiv(compressed, PageSize)
        rows == c.batch * c.query
        PageTable(b) == IF b = 1 /\ ~c.performance
                        THEN Reverse(Consecutive(b * pages, pages))
                        ELSE Consecutive(b * pages, pages)
        Length(r) == IF c.query > 1 THEN CausalLength(c.raw, c.query, r) ELSE compressed
        Request(r) == r \div c.query
        Table(r) == SlotsOf(PageTable(Request(r)), compressed)
    IN [Layout(c.op, rows, Table, Length, Request, c.batch * pages * PageSize, compressed,
               IF c.query > 1 THEN CausalWork(c.raw, c.query) ELSE rows * compressed)
        EXCEPT !.units = rows * compressed,
               !.claim = IF c.query > 1 THEN "whole" ELSE "started",
               !.past = [r \in Below(rows) |-> IF c.query > 1 THEN c.raw - c.query + r + 1
                                                             ELSE c.raw],
               !.distinct = TRUE]

(* The whole history is reused: the points are spread over the rows and the   *)
(* tokens that every row sees.                                                 *)
FullReuseLogits(c) ==
    LET compressed == RawContext \div Ratio
        Length(r) == CausalLength(RawContext, c.m, r)
        Table(r) == SlotsOf(Consecutive(0, CeilDiv(compressed, PageSize)), compressed)
        count == Lesser(SampleLimit, c.m * compressed)
        shortest == (RawContext - c.m) \div Ratio
        Point(i) == ((i * (c.m - 1)) \div (count - 1)) * compressed
                        + (i * (shortest - 1)) \div (count - 1)
    IN [Layout(c.op, c.m, Table, Length, One, compressed, compressed,
               CausalWork(RawContext, c.m))
        EXCEPT !.units = c.m * compressed,
               !.claim = "whole", !.past = [r \in Below(c.m) |-> RawContext - c.m + r + 1],
               !.distinct = TRUE, !.sampled = "seen",
               !.points = IF count = 1 THEN {0} ELSE {Point(i) : i \in Below(count)}]

(* The compressed tail of the cache is written before it is read.              *)
MegaLogits(c) ==
    LET compressed == RawContext \div Ratio
        Length(r) == CausalLength(RawContext, c.m, r)
        Table(r) == SlotsOf(Consecutive(0, CeilDiv(compressed, PageSize)), compressed)
        rowsSampled == SetToSortSeq(SampleIndices(c.m), <)
        Column(k) == ((k - 1) * OrdinalMix + rowsSampled[k] * RowMix) % Length(rowsSampled[k])
    IN [Layout(c.op, c.m, Table, Length, One, compressed, compressed,
               CausalWork(RawContext, c.m))
        EXCEPT !.units = c.m * compressed, !.produced = c.m \div Ratio,
               !.claim = "whole", !.past = [r \in Below(c.m) |-> RawContext - c.m + r + 1],
               !.distinct = TRUE, !.sampled = "seen",
               !.written = ((RawContext - c.m) \div Ratio) .. (compressed - 1),
               !.points = {rowsSampled[k] * compressed + Column(k) : k \in DOMAIN rowsSampled}]

(* Top-k of scores that lie in pages; rows of one request share its pages.    *)
(* Several query tokens have the lengths of one request, however many there are. *)
TopKTransform(c) ==
    LET pages == CeilDiv(c.length, PageSize)
        rows == c.batch * c.query
        Length(r) == CASE c.query = 1 -> c.seqLen
                       [] c.query > 1 /\ r < c.query -> CausalLength(c.raw, c.query, r)
                       [] OTHER -> NoLength
        Request(r) == r \div c.query
        Table(r) == SlotsOf(Consecutive(Request(r) * pages, pages), c.length)
    IN [Layout(c.op, rows, Table, Length, Request, c.batch * pages * PageSize, c.topk,
               IF c.query > 1 THEN CausalWork(c.raw, c.query) ELSE rows * c.seqLen)
        EXCEPT !.distinct = TRUE, !.claim = "covers",
               !.past = [r \in Below(rows) |-> c.topk],
               !.sampled = IF c.performance THEN "anywhere" ELSE "everywhere"]

-----------------------------------------------------------------------------
(* Attention over the tokens of a sliding window and over selected compressed  *)
(* tokens, each in a cache of its own, the second behind the first: a request   *)
(* has an index list for each, padded to the window and to SelectUnit.         *)
SparseDecode(c) ==
    LET compressed == CeilDiv(c.raw, c.ratio)
        valid == IF c.ratio = Ratio THEN Lesser(SelectCap, compressed) ELSE compressed
        padded == CeilDiv(valid, SelectUnit) * SelectUnit
        pages == CeilDiv(padded, c.page)
        near == Lesser(c.raw, Window)
        Request(r) == r \div 2
        IsOfWindow(r) == r % 2 = 0
        Table(r) == IF IsOfWindow(r) THEN Consecutive(Request(r) * Window, Window)
                    ELSE Consecutive(c.batch * Window + Request(r) * pages * c.page, padded)
    IN [Layout(c.op, 2 * c.batch, Table, LAMBDA r : IF IsOfWindow(r) THEN near ELSE valid,
               Request, c.batch * (Window + pages * c.page), 1, c.batch * (near + valid))
        EXCEPT !.distinct = TRUE, !.outputs = c.batch, !.points = SampleIndices(c.batch)]

DenseSwa(c) ==
    LET valid == Lesser(c.raw, Window)
    IN [Layout(c.op, c.batch, LAMBDA b : Consecutive(b * Window, Window), LAMBDA b : valid,
               Itself, c.batch * Window, 1, c.batch * valid)
        EXCEPT !.distinct = TRUE]

\* tokens drawn with replacement
SparsePrefill(c, draw) ==
    Layout(c.op, c.query, LAMBDA r : draw, LAMBDA r : c.topk, One, CeilDiv(c.raw, c.ratio), 1,
           c.query * Lesser(c.topk, CeilDiv(c.raw, c.ratio)))

\* tokens at a stride from a drawn start; a row is padded with -1
DsaSparse(c, draw) ==
    LET total == c.pages * PageSize
        Table(r) == [j \in 1..c.topk |-> IF j <= c.valid
                                         THEN (draw[1] + (j - 1) * Stride) % total ELSE -1]
    IN [Layout(c.op, c.tokens, Table, LAMBDA r : c.valid, One, total, 1, c.tokens * c.valid)
        EXCEPT !.distinct = TRUE]

\* tokens drawn without replacement
Glm5Sparse(c, draw) ==
    [Layout(c.op, c.query, LAMBDA r : draw, LAMBDA r : c.topk, One, c.raw, 1, c.query * c.topk)
     EXCEPT !.distinct = TRUE]

Glm5UnifiedSparse(c, draw) ==
    [Layout(c.op, c.query, LAMBDA r : draw, LAMBDA r : c.topk, One, c.raw, 1, c.query * c.topk)
     EXCEPT !.distinct = TRUE]

Glm5Dense(c) ==
    LET blocks == CeilDiv(c.raw, PageSize)
    IN [Layout(c.op, c.query, LAMBDA r : SlotsOf(Consecutive(0, blocks), c.raw),
               LAMBDA r : c.raw, One, blocks * PageSize, 1, c.query * c.raw)
        EXCEPT !.distinct = TRUE]

Glm5IndexScore(c) ==
    LET blocks == CeilDiv(c.raw, PageSize)
    IN [Layout(c.op, c.m,
               LAMBDA r : IF c.phase = "prefill" THEN Consecutive(0, c.raw)
                          ELSE SlotsOf(Consecutive(r * blocks, blocks), c.raw),
               LAMBDA r : c.raw,
               LAMBDA r : IF c.phase = "prefill" THEN 0 ELSE r,
               IF c.phase = "prefill" THEN c.raw ELSE c.m * blocks * PageSize,
               IF c.phase = "prefill" THEN c.raw ELSE blocks * PageSize,
               c.m * c.raw)
        EXCEPT !.distinct = TRUE]

-----------------------------------------------------------------------------
(* Dense products: a row addresses its own outputs.                             *)
Product(c, rows, n) ==
    Layout(c.op, rows, LAMBDA r : Consecutive(r * n, n), LAMBDA r : n, Itself, rows * n, n,
           rows * n)

Fp8Gemm(c) == Product(c, c.m, c.n)
Projection(c) == Product(c, c.batch * c.m, c.n)
IndexerShape(kind, m, context) ==
    CASE kind = "index_k_proj" -> <<context, IndexDim>>
      [] kind = "index_q_upproj" -> <<m, IndexHeads * IndexDim>>
      [] kind = "index_weights_proj" -> <<m, IndexHeads>>
      [] kind = "index_score" -> <<IndexHeads * m, context>>
Glm5Indexer(c) ==
    LET shape == IndexerShape(c.kind, c.m, c.raw) IN Product(c, shape[1], shape[2])
VectorAdd(c) == Product(c, 1, c.size)

\* a row is rotated by the angles of its position; several query tokens have the
\* positions of one request, however many there are
IndexerQuant(c) ==
    LET rows == c.batch * c.query
    IN Layout(c.op, rows,
              LAMBDA r : CASE c.query = 1 -> <<c.position>>
                           [] c.query > 1 /\ r < c.query -> <<c.raw - c.query + r>>
                           [] OTHER -> <<>>,
              LAMBDA r : 1, One, c.raw, 1, rows)

-----------------------------------------------------------------------------
(* Products of experts.  draw[t] is the expert of token t.                      *)
Counts(draw, experts) ==
    [e \in Below(experts) |-> Cardinality({t \in DOMAIN draw : draw[t] = e})]
Aligned(n) == CeilDiv(n, Align) * Align

\* every expert's rows begin and end at a multiple of Align
GroupedGemm(c, draw) ==
    LET counts == Counts(draw, LocalExperts)
        before(e) == MapThenSumSet(LAMBDA x : Aligned(counts[x]), Below(e))
    IN [Layout(c.op, LocalExperts, LAMBDA e : Consecutive(before(e), Aligned(counts[e])),
               LAMBDA e : Aligned(counts[e]), Itself,
               MapThenSumSet(LAMBDA x : Aligned(counts[x]), Below(LocalExperts)), 1,
               SumOver([e \in Below(LocalExperts) |-> Aligned(counts[e])]))
        EXCEPT !.distinct = TRUE, !.claim = "covers", !.past = counts]

(* The rows each expert is given: the average, as the benchmark this operator  *)
(* replaces had it (a mutant of SafeExpectedM), or the largest count.          *)
LegacyExpectedM(counts) == Aligned(CeilDiv(SumOver(counts), LocalExperts))
SafeExpectedM(counts) == Aligned(CHOOSE n \in Range(counts) : \A k \in Range(counts) : k <= n)

MaskedGemm(c, draw) ==
    LET counts == Counts(draw, LocalExperts)
        expected == SafeExpectedM(counts)
    IN [Layout(c.op, LocalExperts, LAMBDA e : Consecutive(e * expected, expected),
               LAMBDA e : counts[e], Itself, LocalExperts * expected, 1, Len(draw))
        EXCEPT !.distinct = TRUE]

\* the pairs of a token and an expert of this rank, were the routing uniform
LocalRoutedPairs(m) == (m * TopKExperts * LocalExperts) \div GlobalExperts

\* the expert at each of the m * TopKExperts places of the routing
RoutingValues(m, pattern) ==
    LET total == m * TopKExperts
        owned == LocalRoutedPairs(m)
        Remote(i) == LocalExperts + (i % (GlobalExperts - LocalExperts))
        Here(i) == {k \in Below(owned) : (k * total) \div owned = i}
    IN [i \in Below(total) |->
           CASE pattern = "no_local" -> Remote(i)
             [] pattern = "repeated_local" -> 0
             [] pattern = "legacy_uniform_ep0" /\ Here(i) = {} -> Remote(i)
             [] OTHER -> Max(Here(i)) % LocalExperts]

RoutedMoe(c) ==
    LET ids == RoutingValues(c.m, c.pattern)
        Table(t) == [k \in 1..TopKExperts |-> ids[t * TopKExperts + k - 1]]
        Local(t) == Cardinality({k \in 1..TopKExperts : Table(t)[k] < LocalExperts})
        pairs == CASE c.pattern = "no_local" -> 0
                   [] c.pattern = "repeated_local" -> c.m * TopKExperts
                   [] OTHER -> LocalRoutedPairs(c.m)
    IN Layout(c.op, c.m, Table, Local, One, GlobalExperts, RoutedHidden,
              IF pairs = 0 THEN NoWork ELSE pairs)

-----------------------------------------------------------------------------
(* What _validate and make_inputs refuse.  A case that says it is a prefill has  *)
(* one request.  The lengths of several query tokens are one request's, which    *)
(* paged scores cannot be given for two, nor an oracle for them.               *)
IsManyPrefills(c) == c.phase = "prefill" /\ c.batch # 1

PagedLogitsRefuses(c) ==
    \/ IsManyPrefills(c)
    \/ c.query > 1 /\ (c.batch # 1 \/ c.query > c.raw \/ ~c.performance)
MegaRefuses(c) == c.m \notin FormalM
FullReuseRefuses(c) == c.m \notin FormalM \/ (RawContext - c.m) % Ratio # 0
TopKRefuses(c) ==
    IsManyPrefills(c) \/ c.topk > TopKCap \/ c.seqLen < c.topk \/ c.seqLen > c.length
SparsePrefillRefuses(c) ==
    c.topk = 0 \/ c.topk % SelectUnit # 0 \/ c.topk > CeilDiv(c.raw, c.ratio)
DsaRefuses(c) == c.valid = 0 \/ c.valid > c.topk \/ c.pages * PageSize < c.valid
Glm5SparseRefuses(c) == c.topk % SelectUnit # 0 \/ c.topk > c.raw
Glm5UnifiedRefuses(c) == c.topk % SelectUnit # 0 \/ c.topk > c.raw
IndexerQuantRefuses(c) == IsManyPrefills(c) \/ c.position >= c.raw \/ c.query > c.raw

Refuses(c) ==
    \/ c.op = "paged_logits" /\ PagedLogitsRefuses(c)
    \/ c.op = "full_reuse_logits" /\ FullReuseRefuses(c)
    \/ c.op = "mega_logits" /\ MegaRefuses(c)
    \/ c.op = "topk" /\ TopKRefuses(c)
    \/ c.op = "sparse_prefill" /\ SparsePrefillRefuses(c)
    \/ c.op = "dsa_sparse" /\ DsaRefuses(c)
    \/ c.op = "glm5_sparse" /\ Glm5SparseRefuses(c)
    \/ c.op = "glm5_unified" /\ Glm5UnifiedRefuses(c)
    \/ c.op = "indexer_quant" /\ IndexerQuantRefuses(c)
    \/ c.op = "glm5_dense" /\ ~c.sm90
    \/ c.op = "deepep_dispatch"

\* what the generator of the case may draw
Draws(c) ==
    CASE c.op = "sparse_prefill" -> [1..c.topk -> Below(CeilDiv(c.raw, c.ratio))]
      [] c.op = "dsa_sparse" -> [1..1 -> Below(c.pages * PageSize)]
      [] c.op \in {"glm5_sparse", "glm5_unified"} ->
            {d \in [1..c.topk -> Below(c.raw)] : IsInjective(d)}
      [] c.op \in {"grouped_gemm", "masked_gemm"} -> [1..c.rows -> Below(LocalExperts)]
      [] OTHER -> {<<>>}

LayoutOf(c, draw) ==
    CASE c.op = "paged_logits" -> PagedLogits(c)
      [] c.op = "full_reuse_logits" -> FullReuseLogits(c)
      [] c.op = "mega_logits" -> MegaLogits(c)
      [] c.op = "topk" -> TopKTransform(c)
      [] c.op = "sparse_decode" -> SparseDecode(c)
      [] c.op = "dense_swa" -> DenseSwa(c)
      [] c.op = "sparse_prefill" -> SparsePrefill(c, draw)
      [] c.op = "dsa_sparse" -> DsaSparse(c, draw)
      [] c.op = "glm5_sparse" -> Glm5Sparse(c, draw)
      [] c.op = "glm5_unified" -> Glm5UnifiedSparse(c, draw)
      [] c.op = "glm5_dense" -> Glm5Dense(c)
      [] c.op = "glm5_index_score" -> Glm5IndexScore(c)
      [] c.op = "fp8_gemm" -> Fp8Gemm(c)
      [] c.op = "projection" -> Projection(c)
      [] c.op = "glm5_indexer" -> Glm5Indexer(c)
      [] c.op = "vector_add" -> VectorAdd(c)
      [] c.op = "indexer_quant" -> IndexerQuant(c)
      [] c.op = "grouped_gemm" -> GroupedGemm(c, draw)
      [] c.op = "masked_gemm" -> MaskedGemm(c, draw)
      [] c.op = "moe" -> RoutedMoe(c)

NoLayout == [op |-> "none"]
RefusedLayout == [op |-> "refused"]
HasInputs == layout \notin {NoLayout, RefusedLayout}

CaseInputsInit == opCase = NoLayout /\ layout = NoLayout

MakeCaseInputs ==
    /\ layout = NoLayout
    /\ \E c \in OpCases :
          /\ ~Refuses(c)
          /\ opCase' = c
          /\ \E draw \in Draws(c) : layout' = LayoutOf(c, draw)

RefuseCase ==
    /\ layout = NoLayout
    /\ \E c \in OpCases : Refuses(c) /\ opCase' = c
    /\ layout' = RefusedLayout

CaseInputsNext == MakeCaseInputs \/ RefuseCase
CaseInputsSpec == CaseInputsInit /\ [][CaseInputsNext]_caseLayoutVars

-----------------------------------------------------------------------------
LayoutTypeOK ==
    /\ opCase \in OpCases \/ opCase = NoLayout
    /\ layout.op \in {opCase.op, "none", "refused"}
    /\ HasInputs =>
          LET rows == DOMAIN layout.table
          IN /\ \A r \in rows : layout.table[r] \in Seq(Int)
             /\ layout.lens \in [rows -> Int] /\ layout.owner \in [rows -> Nat]
             /\ {layout.slots, layout.outputs, layout.width, layout.produced} \subseteq Nat
             /\ layout.points \subseteq Nat /\ layout.written \subseteq Nat
             /\ layout.work \in Int /\ layout.units \in Int
             /\ layout.past = <<>> \/ layout.past \in [rows -> Int]
             /\ layout.distinct \in BOOLEAN
             /\ layout.claim \in {"none", "whole", "started", "covers"}
             /\ layout.sampled \in {"anywhere", "everywhere", "seen"}

UsedBy(r) == {layout.table[r][j] : j \in 1..layout.lens[r]}
LayoutRows == DOMAIN layout.table

(* What no check refuses though it should: _validate compares neither the raw    *)
(* context of several query tokens with the length and the top-k of a row, nor   *)
(* the batch with one request unless the case says that it is a prefill.        *)
LengthsFit(c) ==
    c.op = "topk" => \A i \in Below(c.query) :
                        CausalLength(c.raw, c.query, i) \in c.topk .. c.length
IsUnchecked(c) ==
    /\ c.op \in {"topk", "indexer_quant"} /\ c.query > 1
    /\ c.batch # 1 \/ ~LengthsFit(c)

\* a row uses addressed slots only, and only slots that exist
RowsStayInside ==
    \A r \in LayoutRows :
       /\ layout.lens[r] <= Len(layout.table[r]) /\ UsedBy(r) \subseteq Below(layout.slots)
       /\ Range(layout.table[r]) \subseteq Below(layout.slots) \cup {-1}
       /\ layout.distinct => Cardinality(UsedBy(r)) = layout.lens[r]

\* two requests, or two experts, share no slot, the padding of their tables included
OwnersAreApart ==
    \A r, s \in LayoutRows :
       layout.owner[r] # layout.owner[s]
          => Range(layout.table[r]) \cap Range(layout.table[s]) = {}

\* a causal row sees the groups of Ratio tokens that end with it or before it, a
\* decoding row also the group that has only begun; other rows at least their past
LengthIsRight ==
    \A r \in LayoutRows :
       LET groups == Below(layout.slots + 1) IN
       CASE layout.claim = "whole" ->
               layout.lens[r] = Cardinality({g \in groups : (g + 1) * Ratio <= layout.past[r]})
         [] layout.claim = "started" ->
               layout.lens[r] = Cardinality({g \in groups : g * Ratio < layout.past[r]})
         [] layout.claim = "covers" -> layout.lens[r] >= layout.past[r]
         [] OTHER -> TRUE

\* what the operator writes is what its rows see beyond the prefix
TailIsWritten ==
    layout.written # {} =>
       layout.written = UNION {UsedBy(r) : r \in LayoutRows}
                            \ {g \in Below(layout.slots) :
                                  (g + 1) * Ratio <= RawContext - Cardinality(LayoutRows)}

\* as many points as the limit allows, from the first row to the last; an output that
\* is compared everywhere is compared in full or, by its comparator, refused
PointsAreSpread ==
    LET total == layout.outputs * layout.width
        RowOf(p) == p \div layout.width
    IN /\ layout.points \subseteq Below(total)
       /\ {0, layout.outputs - 1} \subseteq {RowOf(p) : p \in layout.points}
       /\ layout.sampled = "anywhere" =>
             /\ Cardinality(layout.points) = Lesser(SampleLimit, total)
             /\ {0, total - 1} \subseteq layout.points
       /\ layout.sampled = "everywhere" =>
             layout.points = Below(total) \/ total > SampleLimit
       /\ layout.sampled = "seen" =>
             \A p \in layout.points : p % layout.width < layout.lens[RowOf(p)]

\* The inputs of every case make_inputs accepts are well formed, but for a top-k or a
\* quantization of several query tokens that no check holds to one request and to
\* the length and the top-k of its rows: no row of a page table, an index list or an
\* expert's block leaves the cache or reaches into another request's, a causal row
\* sees exactly its past, the tail that is written is the tail that is read, and the
\* compared points span the output.
LayoutIsSound ==
    HasInputs /\ ~IsUnchecked(opCase) =>
        /\ RowsStayInside /\ OwnersAreApart /\ LengthIsRight
        /\ TailIsWritten /\ PointsAreSpread

\* Of the same cases, a cost model computes from the symbols alone what the index
\* tensors make the operator do: its flops count the slots that are used and the
\* slots that are written, and so does its throughput, but for the scores of a
\* compressed cache, whose throughput counts every position of the output, masked
\* ones included; None stands for routing that leaves this rank no work.
CostCountsTheWork ==
    HasInputs /\ ~IsUnchecked(opCase) =>
        LET used == SumOver(layout.lens)
            IsNone == opCase.op = "moe" /\ used = 0
            AreScores == opCase.op \in {"paged_logits", "full_reuse_logits", "mega_logits"}
        IN /\ layout.work = IF IsNone THEN NoWork ELSE used
           /\ layout.units = IF AreScores THEN layout.outputs * layout.width ELSE layout.work
           /\ layout.produced = Cardinality(layout.written)
=============================================================================
