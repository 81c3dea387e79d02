---- MODULE Queries ----
(***************************************************************************)
(* server/query.py and server/estimate.py: what a query reads, which rows  *)
(* it returns, what is said of the path it took, the scripts that repeat   *)
(* it, the values offered to complete a filter, what a scan would weigh,   *)
(* and what differs between two versions.  What Lance does with a scanner  *)
(* is the part marked external: a ranking is given with the call.          *)
(***************************************************************************)
EXTENDS Asked, SequencesExt

CONSTANTS
    RrfK,               \* 60
    MaxLimit,           \* both caps, 200 in the code
    Probe, Sampled,     \* rows read to find the values of a column: FACET_PROBE_ROWS, ..
    Few,                \* MAX_FACET_VALUES
    Budget,             \* FOOTER_BUDGET
    Overhead            \* PER_FILE_OVERHEAD

ASSUME QueriesAssumption ==
    /\ {RrfK, MaxLimit, Probe, Few} \subseteq Nat \ {0}
    /\ Sampled \in Nat /\ Sampled >= 3
    /\ Budget \in Nat \ {0, 1} /\ Overhead \in Nat

Refuse(why) == [refused |-> why]
IsRefused(a) == "refused" \in DOMAIN a

--------------------------------------------------------------------------
(* The columns a result is made of. *)

Kind == {"blob_v1", "blob_v2", "vector", "binary", "string"}

\* A Blob V2 column reads as its descriptors and is not one of the heavy ones.
Heavy(kind) == kind \in {"blob_v1", "vector", "binary"}

\* Mutant: a column that is asked for counts as one whose weight was accepted.
ProjectionOfAsked(kinds, columns, expand) ==
    LET names == IF columns = {} THEN DOMAIN kinds ELSE columns
        wanted == {c \in names : ~Heavy(kinds[c]) \/ c \in expand \cup columns}
    IN  IF ~(names \subseteq DOMAIN kinds) THEN Refuse("no_such_column")
        ELSE [read |-> wanted, omitted |-> names \ wanted]

\* No columns named is all of them; none is ever empty on purpose.
Projection(kinds, columns, expand) ==
    LET names == IF columns = {} THEN DOMAIN kinds ELSE columns
        wanted == {c \in names : ~Heavy(kinds[c]) \/ c \in expand}
    IN  IF ~(names \subseteq DOMAIN kinds) THEN Refuse("no_such_column")
        ELSE IF \E c \in expand \cap DOMAIN kinds : kinds[c] \in {"blob_v1", "blob_v2"}
             THEN Refuse("blob")
        ELSE [read |-> wanted, omitted |-> names \ wanted]

ProjectionCalls ==
    LET Names == {"a", "b", "typo"}
    IN  [op : {"project"}, kinds : [{"a", "b"} -> Kind], columns : SUBSET Names,
         expand : SUBSET Names]

AnswerProjection ==
    Reply("project", Projection(call.kinds, call.columns, call.expand))

--------------------------------------------------------------------------
(* The modes, the path a search takes, and the warning. *)

\* A table with a text column t and a vector column v; its indices in the order Lance
\* lists them.  One whose statistics cannot be read has no metric.
Index == [on : {"t"}, type : {"inverted", "btree"}, metric : {"none"}]
         \cup [on : {"v"}, type : {"ann"}, metric : {"none", "l2", "cosine"}]

\* capabilities keeps one type for a column: the last one listed.
IndexedAs(indices, column) ==
    LET on == {i \in DOMAIN indices : indices[i].on = column}
    IN  IF on = {} THEN "none" ELSE indices[CHOOSE i \in on : \A j \in on : j <= i].type

Capabilities(indices) ==
    LET fts == IndexedAs(indices, "t") = "inverted"
    IN  {"scan", "vector"} \cup (IF fts THEN {"fts", "hybrid"} ELSE {})

\* index_metrics: the last that can be read.
IndexMetric(indices) ==
    LET on == {i \in DOMAIN indices : indices[i].metric # "none"}
    IN  IF on = {} THEN "none" ELSE indices[CHOOSE i \in on : \A j \in on : j <= i].metric

\* The metric a search runs with: the one asked for, the index's own, cosine.
SearchMetric(spec, indices) ==
    IF spec.metric # "none" THEN spec.metric
    ELSE IF IndexMetric(indices) # "none" THEN IndexMetric(indices) ELSE "cosine"

\* _nearest: what is missing, before a row is read.
Nearest(spec) ==
    IF spec.column = "none" THEN "name_a_column"
    ELSE IF spec.column # "v" THEN "not_a_vector_column"
    ELSE IF spec.target = "misfit" THEN "dimension"
    ELSE IF spec.target = "no_row" THEN "no_row"
    ELSE IF spec.target = "none" THEN "no_target"
    ELSE "ok"

\* What build_scanner refuses of one leg; a scan asks for nothing.
Refusal(mode, spec) ==
    IF mode = "vector" THEN Nearest(spec)
    ELSE IF mode = "fts" /\ ~spec.text THEN "no_text" ELSE "ok"

\* The access paths Lance takes for a leg, by the names read_plan gives them: whether it
\* takes an index that fits is its own affair.
Path(mode, spec, indices, taken) ==
    IF mode = "fts" THEN {"inverted_index"}
    ELSE IF mode # "vector" THEN {"scan"}
    ELSE IF taken /\ (\E i \in DOMAIN indices : indices[i].metric = SearchMetric(spec, indices))
         THEN {"ANN_index"}
    ELSE {"brute_force"}

\* The warning names the metric, or says that Lance has not used an index that fits.
UnusedIndex(mode, spec, indices, path) ==
    IF mode \notin {"vector", "hybrid"} \/ spec.column = "none" THEN "none"
    ELSE IF "ANN_index" \in path THEN "none"
    ELSE IF IndexMetric(indices) = "none" \/ spec.column # "v" THEN "none"
    ELSE IF SearchMetric(spec, indices) # IndexMetric(indices) THEN "metric"
    ELSE "unexplained"

\* The legs of a hybrid search are refused, planned and warned about one by one; an
\* explanation of one plans the scan that is left when neither leg is asked for.
Plan(spec, indices, running, taken) ==
    LET legs == IF spec.mode = "hybrid" /\ running THEN <<"fts", "vector">> ELSE <<spec.mode>>
        bad == {i \in DOMAIN legs : Refusal(legs[i], spec) # "ok"}
        path == UNION {Path(m, spec, indices, taken) : m \in ToSet(legs)}
    IN  IF bad # {} THEN Refuse(Refusal(legs[CHOOSE i \in bad : \A j \in bad : i <= j], spec))
        ELSE [path |-> path, offered |-> Capabilities(indices),
              warning |-> UnusedIndex(Last(legs), spec, indices,
                                      Path(Last(legs), spec, indices, taken))]

PlanCalls ==
    [op : {"plan"}, running : BOOLEAN, taken : BOOLEAN,
     spec : [mode : {"scan", "fts", "vector", "hybrid"}, text : BOOLEAN,
             column : {"none", "v", "t"}, target : {"none", "given", "misfit", "no_row"},
             metric : {"none", "l2", "cosine"}],
     indices : UNION {[1..n -> Index] : n \in 0..2}]

AnswerPlan == Reply("plan", Plan(call.spec, call.indices, call.running, call.taken))

--------------------------------------------------------------------------
(* The rows of an answer. *)

Row == 1..3
Page(s, offset, n) == SubSeq(s, offset + 1, Lesser(offset + n, Len(s)))

Normalised(spec) ==
    [spec EXCEPT !.limit = Greater(1, Lesser(@, MaxLimit)), !.k = Greater(1, Lesser(@, MaxLimit))]

\* By distance, the rows lie as the metric of the search has them.
Ranked(spec, metric) ==
    IF spec.mode \in {"vector", "hybrid"} THEN [spec EXCEPT !.near = @[metric]] ELSE spec

\* The spec that runs, with its metric.
Running(given, indices) == Ranked(Normalised(given), SearchMetric(given, indices))

\* One scanner, as Lance answers it: prefiltered, or ranked first and filtered then.
Scan(mode, spec, ranking) ==
    LET Match(s) == At(s, {i \in DOMAIN s : s[i] \in spec.filter})
        Cut(s) == IF mode = "vector" THEN Page(s, 0, spec.k) ELSE Page(s, spec.offset, spec.limit)
    IN  IF mode = "scan" \/ spec.prefilter THEN Cut(Match(ranking)) ELSE Match(Cut(ranking))

RankIn(s, r) == IF r \in ToSet(s) THEN CHOOSE i \in DOMAIN s : s[i] = r ELSE 0

\* The sum of 1 / (RRF_K + rank) over the legs that hold the row, as a fraction.
Score(a, b) ==
    IF a = 0 THEN <<1, RrfK + b>>
    ELSE IF b = 0 THEN <<1, RrfK + a>>
    ELSE <<2 * RrfK + a + b, (RrfK + a) * (RrfK + b)>>

Above(p, q) == p[1] * q[2] > q[1] * p[2]

\* Full text first, then what only the vector leg has; a stable sort on the fused score.
Fuse(fts, near, k) ==
    LET all == fts \o At(near, {i \in DOMAIN near : near[i] \notin ToSet(fts)})
        Of(i) == Score(RankIn(fts, all[i]), RankIn(near, all[i]))
        Before(i) == {j \in DOMAIN all : Above(Of(j), Of(i)) \/ (~Above(Of(i), Of(j)) /\ j < i)}
    IN  Page([n \in DOMAIN all |-> all[CHOOSE i \in DOMAIN all : Cardinality(Before(i)) = n - 1]], 0, k)

\* run_hybrid: the full-text leg draws as many as the larger of k and limit; both legs
\* keep the rest of the spec, the offset included.
Hybrid(spec) ==
    Fuse(Scan("fts", [spec EXCEPT !.limit = Greater(spec.k, @)], spec.text),
         Scan("vector", spec, spec.near), spec.k)

\* One leg alone; whatever is not a search reads the rows as they lie.
Leg(spec) ==
    IF spec.mode = "fts" THEN Scan("fts", spec, spec.text)
    ELSE IF spec.mode = "vector" THEN Scan("vector", spec, spec.near)
    ELSE Scan("scan", spec, [r \in Row |-> r])

\* run: a plain scan alone counts what it might have returned.
Run(given, indices) ==
    LET spec == Running(given, indices)
        rows == IF spec.mode = "hybrid" THEN Hybrid(spec) ELSE Leg(spec)
        total == Cardinality(spec.filter)
    IN  [rows |-> rows, truncated |-> spec.mode = "scan" /\ spec.offset + Len(rows) < total]

\* What a script asks Lance for: reproduction knows nothing of the two legs, and names the
\* metric that was asked for and no other, which leaves it to Lance's own.
LanceScript(given, own) ==
    Leg(Ranked(Normalised(given), IF given.metric = "none" THEN own ELSE given.metric))

\* The one for lancedb names the metric of the search, and fuses what its two legs draw, k
\* of each and from the first.
LancedbScript(given, indices) ==
    LET spec == Running(given, indices)
    IN  IF spec.mode # "hybrid" THEN Leg(spec)
        ELSE Fuse(Scan("fts", [spec EXCEPT !.limit = spec.k, !.offset = 0], spec.text),
                  Scan("vector", spec, spec.near), spec.k)

RunCalls ==
    [op : {"run"}, own : {"l2", "cosine"},
     indices : {<<>>} \cup {<<i>> : i \in [on : {"v"}, type : {"ann"}, metric : {"l2", "cosine"}]},
     spec : [mode : {"scan", "fts", "vector", "hybrid"}, limit : 0..2, offset : 0..2, k : 0..2,
             prefilter : BOOLEAN, filter : SUBSET Row, metric : {"none", "l2", "cosine"},
             text : {<<>>, <<2>>, <<2, 1>>, <<3, 2>>, <<3, 2, 1>>, <<2, 3, 1>>},
             near : {[l2 |-> <<1, 2, 3>>, cosine |-> <<2, 1, 3>>]}]]

AnswerRun ==
    LET done == Run(call.spec, call.indices)
    IN  Reply("run", [rows |-> done.rows, truncated |-> done.truncated,
                      lance |-> LanceScript(call.spec, call.own),
                      lancedb |-> LancedbScript(call.spec, call.indices)])

--------------------------------------------------------------------------
(* The values offered to complete a filter. *)

NoValue == "null"
Window(values, offset, n) ==
    {values[i] : i \in {i \in DOMAIN values : offset < i /\ i <= offset + n}} \ {NoValue}
ShortList(found) == Cardinality(found) \in 1..Few

\* A probe, and then the whole of a small column or three windows of a large one, the first
\* of which must have a value; rows that are asked for and not there cost nothing.
FacetValues(values) ==
    LET rows == Len(values)
        w == Sampled \div 3
        seen == Window(values, 0, w) \cup Window(values, Greater(0, rows \div 2 - w \div 2), w)
                    \cup Window(values, Greater(0, rows - w), w)
    IN  IF ~ShortList(Window(values, 0, Probe)) THEN Refuse("not_a_facet")
        ELSE IF rows <= Sampled THEN
             IF ShortList(ToSet(values) \ {NoValue})
             THEN [found |-> ToSet(values) \ {NoValue}, complete |-> TRUE]
             ELSE Refuse("not_a_facet")
        ELSE IF ShortList(Window(values, 0, w)) /\ ShortList(seen)
             THEN [found |-> seen, complete |-> FALSE]
        ELSE Refuse("not_a_facet")

\* completions: what a filter box is told of one column; a string's values, when they are
\* asked for, and no other's.
Completion(kind, values, asked) ==
    LET facet == IF kind = "string" /\ asked THEN FacetValues(values) ELSE Refuse("not_asked")
    IN  [filterable |-> ~(Heavy(kind) \/ kind = "blob_v2"),
         found |-> IF IsRefused(facet) THEN {} ELSE facet.found,
         complete |-> ~IsRefused(facet) /\ facet.complete]

FacetCalls ==
    [op : {"facets"}, kind : {"string", "vector", "blob_v2", "binary"}, asked : BOOLEAN,
     values : UNION {[1..n -> {NoValue, "x", "y", "z"}] : n \in 0..Sampled + 1}]

AnswerFacets == Reply("facets", Completion(call.kind, call.values, call.asked))

\* validate_filter: no predicate is all rows, and one Lance cannot read is an answer too.
Validate(text, filter) ==
    IF text = "none" THEN [valid |-> TRUE, matched |-> Cardinality(Row)]
    ELSE IF text = "bad" THEN [valid |-> FALSE, matched |-> 0]
    ELSE [valid |-> TRUE, matched |-> Cardinality(filter)]

ValidateCalls == [op : {"validate"}, text : {"none", "bad", "good"}, filter : SUBSET Row]

AnswerValidate == Reply("validate", Validate(call.text, call.filter))

--------------------------------------------------------------------------
(* What a scan would weigh.  A file's columns: bytes of each, and its size. *)

\* _sample: first and last and, evenly, what is between them (round half to even).
Sample(n) ==
    LET Round(a, b) == LET q == (2 * a + b) \div (2 * b)
                       IN  IF (2 * a + b) % (2 * b) = 0 /\ q % 2 = 1 THEN q - 1 ELSE q
    IN  IF n <= Budget THEN 1..n
        ELSE {1 + Round(i * (n - 1), Budget - 1) : i \in 0..Budget - 1}

\* table_costs: the share a column has of the files opened, of all the manifest counts.
Weight(files, column) ==
    LET chosen == Sample(Len(files))
        seen == SumOf(chosen, LAMBDA i : files[i].bytes[column])
        opened == SumOf(chosen, LAMBDA i : files[i].size)
    IN  IF chosen = DOMAIN files \/ opened = 0 THEN seen
        ELSE (seen * SumOf(DOMAIN files, LAMBDA i : files[i].size)) \div opened

\* _floor: each file pays an even share and the overhead, and never more than it holds.
Floor(files, weight) ==
    LET n == Len(files)
    IN  IF n = 0 THEN weight
        ELSE SumOf(DOMAIN files, LAMBDA i : Lesser(n * files[i].size, weight + n * Overhead)) \div n

\* scan_estimate: columns named, or all but the blobs.
ScanEstimate(files, columns) ==
    LET w == SumOf(columns, LAMBDA c : Weight(files, c))
    IN  [bytes |-> w, floor |-> Floor(files, w), sampled |-> Len(files) > Budget]

EstimateCalls ==
    [op : {"estimate"}, columns : (SUBSET {"a", "b"}) \cup {{"typo"}},
     files : LET File == {f \in [size : {1, 4}, bytes : [{"a", "b"} -> 0..2]] :
                              f.bytes["a"] + f.bytes["b"] <= f.size}
             IN  UNION {[1..n -> File] : n \in 0..Budget + 1}]

AnswerEstimate ==
    Reply("estimate", IF "typo" \in call.columns THEN Refuse(400)
                      ELSE ScanEstimate(call.files, call.columns))

--------------------------------------------------------------------------
(* Two versions of one table. *)

\* compare_query: each side answers or refuses, and one refusal is a result.
Compared(a, b) ==
    IF a.refused /\ b.refused THEN "neither"
    ELSE IF a.refused THEN "only_later"
    ELSE IF b.refused THEN "only_earlier"
    ELSE "both"

\* structural_diff, over named columns and named indices.
StructuralDiff(a, b) ==
    LET both(f) == DOMAIN a[f] \cap DOMAIN b[f]
        Part(f) == [added |-> DOMAIN b[f] \ DOMAIN a[f], removed |-> DOMAIN a[f] \ DOMAIN b[f],
                    changed |-> {n \in both(f) : a[f][n] # b[f][n]}]
    IN  [fields |-> Part("fields"), indices |-> Part("indices"), rows |-> b.rows - a.rows,
         fragments |-> b.fragments - a.fragments, verdict |-> Compared(a, b),
         unchanged |-> /\ a.fields = b.fields
                       /\ DOMAIN a.indices = DOMAIN b.indices /\ a.rows = b.rows
                       /\ a.fragments = b.fragments]

CompareCalls ==
    LET Named(S) == UNION {[d -> S] : d \in SUBSET {"a", "b"}}
        Side == [fields : Named({"int", "text"}), indices : Named({"btree"}), rows : 0..1,
                 fragments : 1..2, refused : BOOLEAN]
    IN  [op : {"compare"}, a : Side, b : Side]

AnswerCompare == Reply("compare", StructuralDiff(call.a, call.b))

--------------------------------------------------------------------------

QueryCalls ==
    ProjectionCalls \cup PlanCalls \cup RunCalls \cup FacetCalls \cup ValidateCalls
        \cup EstimateCalls \cup CompareCalls

AnswerQuery ==
    \/ AnswerProjection \/ AnswerPlan \/ AnswerRun \/ AnswerFacets \/ AnswerValidate
    \/ AnswerEstimate \/ AnswerCompare

--------------------------------------------------------------------------
(* Properties *)

\* A result never carries a vector or a blob nobody unfolded, and says of every column it
\* leaves out that it did: naming a heavy column is not unfolding it.
NothingHeavyUninvited ==
    Answered("project") /\ ~IsRefused(answer) =>
        /\ \A c \in answer.read : Heavy(call.kinds[c]) => c \in call.expand
        /\ \A c \in answer.read : call.kinds[c] # "blob_v1"
        /\ answer.read \cup answer.omitted
              = (IF call.columns = {} THEN DOMAIN call.kinds ELSE call.columns)

\* A search that runs says so when it walks past an index whose metric can be read, blames
\* the metric whenever none of them fits, and calls it unexplained only where one does; full
\* text is offered only where an inverted index is.
PathsAreExplained ==
    Answered("plan") /\ ~IsRefused(answer) =>
        LET Of(metric) == \E i \in DOMAIN call.indices : call.indices[i].metric = metric
            fits == Of(SearchMetric(call.spec, call.indices))
        IN  /\ "fts" \in answer.offered =>
                   \E i \in DOMAIN call.indices : call.indices[i].type = "inverted"
            /\ call.running /\ call.spec.mode \in {"vector", "hybrid"} =>
                   /\ answer.warning # "none" <=>
                          "ANN_index" \notin answer.path /\ (Of("l2") \/ Of("cosine"))
                   /\ answer.warning = "unexplained" => fits
                   /\ answer.warning # "none" /\ ~fits => answer.warning = "metric"

\* Every row once, and one the filter lets through; a scan says that it was cut exactly
\* when its next page has a row; a row both legs of a hybrid search put ahead of another
\* stays ahead of it.  Of the version that was read, a script asks for the rows that were
\* shown: the one for lancedb with whatever metric the search ran with, and when both legs
\* draw the same number; the one for lance of a search by distance only when somebody has
\* named the metric, or Lance's own is the one the search has found.
RowsAreTheRows ==
    Answered("run") =>
        LET spec == Running(call.spec, call.indices)
            rows == answer.rows
            Ahead(s, r, t) == RankIn(s, r) # 0 /\ (RankIn(s, t) = 0 \/ RankIn(s, r) < RankIn(s, t))
        IN  /\ IsInjective(rows) /\ ToSet(rows) \subseteq spec.filter
            /\ Len(rows) <= (IF spec.mode \in {"scan", "fts"} THEN spec.limit ELSE spec.k)
            /\ spec.mode = "scan" =>
                   LET next == Run([spec EXCEPT !.offset = @ + spec.limit], call.indices)
                   IN  answer.truncated = (next.rows # <<>> \/ next.truncated)
            /\ spec.mode = "hybrid" /\ spec.offset = 0 /\ spec.prefilter =>
                   \A r, t \in ToSet(rows) :
                       Ahead(spec.text, r, t) /\ Ahead(spec.near, r, t)
                           => RankIn(rows, r) < RankIn(rows, t)
            /\ spec.mode # "hybrid" => answer.lancedb = rows
            /\ \/ spec.mode \in {"scan", "fts"}
               \/ spec.mode = "vector" /\ call.spec.metric # "none"
               \/ spec.mode = "vector" /\ call.own = SearchMetric(call.spec, call.indices)
               => answer.lance = rows
            /\ spec.mode = "hybrid" /\ spec.offset = 0 /\ spec.limit <= spec.k
                   => answer.lancedb = rows

\* A value that is offered is a value of a column that can be filtered, a list that claims
\* to be complete misses none, and a sample misses none of the first or the last rows.  The
\* rows a predicate is said to match are those the pages of a scan then hold.
ValuesAreReal ==
    /\ Answered("facets") =>
           LET real == ToSet(call.values) \ {NoValue}
           IN  /\ answer.found \subseteq real
               /\ answer.complete => answer.found = real
               /\ answer.found # {} => /\ answer.filterable /\ call.asked
                                       /\ {Head(call.values), Last(call.values)} \ {NoValue}
                                             \subseteq answer.found
    /\ Answered("validate") /\ call.text = "good" =>
           LET Rows(offset) == Run([mode |-> "scan", limit |-> MaxLimit, offset |-> offset, k |-> 1,
                                    prefilter |-> TRUE, filter |-> call.filter], <<>>).rows
           IN  answer.matched = SumOf({i * MaxLimit : i \in 0..Cardinality(Row)},
                                    LAMBDA o : Len(Rows(o)))

\* Every file opened: the weight is what the columns hold, a scan of all the files reads
\* no less than the floor or than the weight where the files are alike, and a column more
\* never weighs less.
WeightsAreHonest ==
    Answered("estimate") /\ ~IsRefused(answer) =>
        LET files == call.files
            Held(i) == SumOf(call.columns, LAMBDA c : files[i].bytes[c])
            total == SumOf(DOMAIN files, LAMBDA i : files[i].size)
        IN  /\ ~answer.sampled => answer.bytes = SumOf(DOMAIN files, Held)
            /\ files # <<>> => answer.floor <= total
            /\ files # <<>> /\ (\A i, j \in DOMAIN files : files[i] = files[j])
                   => answer.bytes <= answer.floor
            /\ answer.bytes <= total

\* What differs is exactly one of added, removed and changed, and tables that are called
\* unchanged have no field, row or fragment more or less.
DifferencesAddUp ==
    Answered("compare") =>
        /\ \A f \in {"fields", "indices"} : LET part == answer[f] IN
               /\ \A n \in DOMAIN call.a[f] \cup DOMAIN call.b[f] :
                      (n \in DOMAIN call.a[f] /\ n \in DOMAIN call.b[f] /\ call.a[f][n] = call.b[f][n])
                          <=> (n \notin part.added \cup part.removed \cup part.changed)
               /\ part.added \cap part.changed = {} /\ part.removed \cap part.changed = {}
        /\ answer.unchanged => answer.fields.added \cup answer.fields.removed
                                    \cup answer.fields.changed = {} /\ answer.rows = 0
                             /\ answer.fragments = 0
        /\ (answer.verdict = "neither") = (call.a.refused /\ call.b.refused)

\* What a query, an estimate and a comparison say is what was read.
QueriesAreHonest ==
    /\ NothingHeavyUninvited /\ PathsAreExplained /\ RowsAreTheRows /\ ValuesAreReal
    /\ WeightsAreHonest /\ DifferencesAddUp
====
