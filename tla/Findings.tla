---- MODULE Findings ----
(***************************************************************************)
(* server/intel/findings.py: what ten rules say of a table's metadata, and *)
(* what the sweep over them keeps when one of them breaks.  Figures are in *)
(* small units; the thresholds are the code's shares, or constants.        *)
(***************************************************************************)
EXTENDS Asked, SequencesExt

CONSTANTS LoaderFragmentFloor, LoaderBytesFloor,
          ManyVersions          \* ten commits, and one for a thousand rows

ASSUME FindingsAssumption == {LoaderFragmentFloor, LoaderBytesFloor, ManyVersions} \subseteq Nat \ {0}

Rule == {"unindexed_vector", "partial_index", "small_files", "deleted_rows", "blob_split",
         "manifest_blind", "version_churn", "loader_parallelism", "fragment_skew",
         "embedding_footprint"}
Total(s) == SumOf(DOMAIN s, LAMBDA i : s[i])
Said(severity, advice) == {[severity |-> severity, advice |-> advice]}

\* gather: what the rules need, of a table's fragments (rows, deleted rows and the bytes of
\* the side files of each), its index and its vector column.  Side files are walked only
\* where a column keeps its bytes in them.
Gather(table) == Joined(
    [rows |-> Total(table.fragments) - table.deleted, fragments |-> table.fragments,
     bytes |-> IF table.blob THEN [i \in DOMAIN table.fragments |->
                                       table.fragments[i] + table.side[i]] ELSE <<>>,
     meta |-> Total(table.fragments) + table.vector,
     blobs |-> IF table.blob THEN Total(table.side) ELSE 0,
     unindexed |-> table.vector > 0 /\ ~table.indexed], table)

UnindexedVector(f) == IF f.unindexed THEN Said("warn", "build") ELSE {}

\* Below 98%; an index that says nothing of its rows, or has none, has no coverage.
PartialIndex(f) ==
    IF f.indexed /\ 50 * f.uncovered > f.covered + f.uncovered THEN Said("warn", "build") ELSE {}

SmallFiles(f) ==
    IF f.small = 0 \/ Len(f.fragments) < 2 THEN {}
    ELSE IF f.blob THEN Said("note", "leave") ELSE Said("warn", "compact")

DeletedRows(f) ==
    IF f.deleted = 0 THEN {}
    ELSE Said(IF 10 * f.deleted > f.rows + f.deleted THEN "warn" ELSE "note", "compact")

BlobSplit(f) == IF f.blob /\ f.blobs >= 10 * f.meta THEN Said("note", "none") ELSE {}

ManifestBlind(f) ==
    IF f.blob /\ f.manifest > 0 /\ f.blobs + f.meta >= 10 * f.manifest THEN Said("note", "none") ELSE {}

VersionChurn(f) ==
    IF f.versions >= ManyVersions /\ f.rows > 0 /\ 1000 * f.versions >= f.rows
    THEN Said("note", "batch") ELSE {}

\* Mutant: a table with exactly as many fragments as the floor is short of them.
LoaderParallelismAtFloor(f) ==
    LET n == Len(f.fragments)
    IN  IF n = 0 \/ n > LoaderFragmentFloor \/ f.meta + f.blobs < LoaderBytesFloor THEN {}
        ELSE Said(IF n = 1 THEN "warn" ELSE "note", IF f.blob THEN "none" ELSE "split")

\* Fewer fragments than workers; a pass over little is instant.
LoaderParallelism(f) ==
    LET n == Len(f.fragments)
    IN  IF n = 0 \/ n >= LoaderFragmentFloor \/ f.meta + f.blobs < LoaderBytesFloor THEN {}
        ELSE Said(IF n = 1 THEN "warn" ELSE "note", IF f.blob THEN "none" ELSE "split")

\* The sizes a worker waits on, against their (upper) median.
Sizes(f) == IF f.blob /\ f.bytes # <<>> THEN f.bytes ELSE f.fragments
Median(s) == SortSeq(s, <)[Len(s) \div 2 + 1]
FragmentSkew(f) ==
    LET s == Sizes(f)
        largest == Last(SortSeq(s, <))
    IN  IF Len(f.fragments) < LoaderFragmentFloor THEN {}
        ELSE IF Median(s) = 0 \/ largest < 2 * Median(s) THEN {}
        ELSE Said("note", IF f.blob THEN "none" ELSE "compact")

\* Half of what the footers measured, or of what a walk of the directory found.
EmbeddingShare(f) ==
    IF f.measured THEN <<f.vector, Greater(f.meta, 1)>> ELSE <<4 * f.vector, Greater(f.meta, 1)>>
EmbeddingFootprint(f) ==
    IF f.vector = 0 \/ f.meta = 0 THEN {}
    ELSE IF 2 * EmbeddingShare(f)[1] < EmbeddingShare(f)[2] THEN {} ELSE Said("note", "none")

Apply(rule, f) ==
    CASE rule = "unindexed_vector"   -> UnindexedVector(f)
      [] rule = "partial_index"      -> PartialIndex(f)
      [] rule = "small_files"        -> SmallFiles(f)
      [] rule = "deleted_rows"       -> DeletedRows(f)
      [] rule = "blob_split"         -> BlobSplit(f)
      [] rule = "manifest_blind"     -> ManifestBlind(f)
      [] rule = "version_churn"      -> VersionChurn(f)
      [] rule = "loader_parallelism" -> LoaderParallelism(f)
      [] rule = "fragment_skew"      -> FragmentSkew(f)
      [] OTHER                       -> EmbeddingFootprint(f)

\* Whose question a rule answers, and the panel its evidence is on.
ForTraining == Rule \ {"small_files", "manifest_blind", "version_churn"}
Panel(rule) ==
    CASE rule \in {"unindexed_vector", "partial_index"} -> "indices"
      [] rule = "version_churn" -> "versions"
      [] rule \in {"blob_split", "manifest_blind", "embedding_footprint"} -> "schema"
      [] OTHER -> "fragments"

\* analyse: a rule that raises is a failure and the others go on; a facet narrows the
\* findings and neither the rules nor the failures; the worst comes first.
Analyse(table, broken, facet) ==
    LET f == Gather(table)
        asked == IF facet THEN ForTraining ELSE Rule
        kept == UNION {{[rule |-> r, severity |-> s.severity, advice |-> s.advice] : s \in Apply(r, f)} :
                           r \in asked \ broken}
        Of(severity) == {x \in kept : x.severity = severity}
    IN  [findings |-> SetToSeq(Of("warn")) \o SetToSeq(Of("note")),
         failures |-> broken, partial |-> broken # {},
         summary |-> [total |-> Cardinality(kept), warn |-> Cardinality(Of("warn")),
                      note |-> Cardinality(Of("note")),
                      panels |-> [p \in {"schema", "versions", "indices", "fragments", "rows"} |->
                                      Cardinality({x \in kept : Panel(x.rule) = p})]]]

Plain == [small |-> 1, manifest |-> 1, versions |-> 1, deleted |-> 0, vector |-> 0,
          indexed |-> FALSE, covered |-> 0, uncovered |-> 0, measured |-> FALSE,
          fragments |-> <<50>>, side |-> <<500>>, blob |-> FALSE]
SplitTables ==
    UNION {{Joined([fragments |-> s, side |-> t, blob |-> b, deleted |-> d], Plain) :
                s \in [1..n -> {1, 2, 5}], t \in [1..n -> {0, 60}], b \in BOOLEAN,
                d \in {0, Lesser(n, 1)}} : n \in 0..LoaderFragmentFloor}
SearchedTables ==
    {Joined([vector |-> v, indexed |-> i, covered |-> c, uncovered |-> u, measured |-> m,
             deleted |-> d, versions |-> n], Plain) :
         v \in {0, 20, 80}, i \in BOOLEAN, c \in {0, 49, 97}, u \in {0, 1, 2},
         m \in BOOLEAN, d \in {0, 5, 6, 50}, n \in {1, ManyVersions}}
FindingCalls ==
    [op : {"analyse"}, table : SplitTables, broken : {{}, {"fragment_skew"}}, facet : BOOLEAN]
    \cup [op : {"analyse"}, table : SearchedTables, broken : {{}}, facet : {FALSE}]

AnswerFindings == Reply("analyse", Analyse(call.table, call.broken, call.facet))

--------------------------------------------------------------------------
(* Properties *)

\* The two rules about fragments never speak of one table; who loads one is never told
\* both to leave its files alone and to rewrite them; every finding is counted once, the
\* worst first; silence of a whole sweep means an indexed, covered table that nothing was
\* deleted from; a measured share is no more than all of it.
FindingsAreHonest ==
    Answered("analyse") =>
        LET f == Gather(call.table)
            said == ToSet(answer.findings)
            rules == {x.rule : x \in said}
            Rank(x) == IF x.severity = "warn" THEN 0 ELSE 1
        IN  /\ ~({"fragment_skew", "loader_parallelism"} \subseteq rules)
            /\ Len(f.fragments) \in 1..LoaderFragmentFloor - 1
                 /\ f.meta + f.blobs >= LoaderBytesFloor => "loader_parallelism" \in rules
            /\ call.table.blob => \A x \in said : x.advice = "compact" => x.rule = "deleted_rows"
            /\ \A i, j \in DOMAIN answer.findings :
                  i < j => Rank(answer.findings[i]) <= Rank(answer.findings[j])
            /\ answer.summary.total = Len(answer.findings)
            /\ answer.summary.total = answer.summary.warn + answer.summary.note
            /\ answer.summary.total
                  = SumOf(DOMAIN answer.summary.panels, LAMBDA p : answer.summary.panels[p])
            /\ answer.partial = (call.broken # {})
            /\ said = {} /\ ~answer.partial /\ ~call.facet =>
                  /\ call.table.deleted = 0
                  /\ call.table.vector > 0 => call.table.indexed
                  /\ call.table.indexed => 50 * call.table.uncovered
                                               <= call.table.covered + call.table.uncovered
            /\ call.table.measured => EmbeddingShare(f)[1] <= EmbeddingShare(f)[2]
====
