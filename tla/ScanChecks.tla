---- MODULE ScanChecks ----
(***************************************************************************)
(* server/intel/datascan.py: the checks that read the data.  Which columns *)
(* a check takes, which it refuses, what it is quoted at, and what each    *)
(* concludes from the rows of its batches.  The job around a check is      *)
(* ScanJobs.  Arrow's group-by and Lance's index are external: the first   *)
(* counts what is not null, the second probes the partitions it is told.   *)
(***************************************************************************)
EXTENDS Asked, SequencesExt

CONSTANTS BatchRows,        \* BATCH_ROWS
          RecallK           \* RECALL_K

ASSUME ScanChecksAssumption == {BatchRows, RecallK} \subseteq Nat \ {0}

Null == "null"
Batches(rows) ==        \* _batches, the rows of each
    [b \in 1..(Len(rows) + BatchRows - 1) \div BatchRows |->
        SubSeq(rows, (b - 1) * BatchRows + 1, Lesser(b * BatchRows, Len(rows)))]
CountIn(s, P(_)) == Cardinality({i \in DOMAIN s : P(s[i])})
CountBatched(rows, P(_)) ==
    LET batches == Batches(rows) IN SumOf(DOMAIN batches, LAMBDA b : CountIn(batches[b], P))

--------------------------------------------------------------------------
(* Columns, by their places in the schema; what a check takes and weighs. *)

Check == {"missing-content", "class-balance", "exact-duplicates", "split-leakage",
          "vector-health", "near-duplicates", "index-recall"}
Vectors == {"vector", "indexed vector"}
ColumnKind == {"scalar", "blob", "binary"} \cup Vectors

\* What a check compares; the payload of a blob is never what it reads.
Takes(check) ==
    CASE check = "missing-content" -> {"scalar", "blob"}
      [] check \in {"class-balance", "exact-duplicates", "split-leakage"} -> {"scalar"}
      [] OTHER -> Vectors

DefaultColumns(check, kinds) ==
    LET Of(S) == At([c \in DOMAIN kinds |-> c], {c \in DOMAIN kinds : kinds[c] \in S})
        First(s) == SubSeq(s, 1, Lesser(1, Len(s)))
    IN  CASE check \in {"class-balance", "split-leakage"} -> <<>>
          [] check \in {"missing-content", "exact-duplicates"} -> Of(Takes(check))
          [] check = "index-recall" /\ Of({"indexed vector"}) # <<>> ->
                First(Of({"indexed vector"}))
          [] OTHER -> First(Of(Vectors))

\* The four capabilities: the columns are there and of the kind, an identity comes with
\* its split, and a probe has an index (of its first column) to probe.
Supported(check, kinds, columns) ==
    /\ columns # <<>>
    /\ check = "split-leakage" => Len(columns) = 2
    /\ \A c \in ToSet(columns) : c \in DOMAIN kinds /\ kinds[c] \in Takes(check)
    /\ check \in {"near-duplicates", "index-recall"} => kinds[columns[1]] = "indexed vector"

\* plan, given what the footers say a column weighs: a check that is refused or cannot be
\* weighed has no figure and adds nothing to the total.
PlanChecks(kinds, selected, columns, weight) ==
    LET Of(check) == IF check = selected /\ columns # <<>> THEN columns
                     ELSE DefaultColumns(check, kinds)
        Ok(check) == Supported(check, kinds, Of(check))
        Bytes(check) == IF Ok(check) /\ check # "near-duplicates"
                        THEN SumOf(ToSet(Of(check)), LAMBDA c : weight[c]) ELSE 0
    IN  [columns |-> [c \in Check |-> Of(c)], ok |-> {c \in Check : Ok(c)},
         bytes |-> [c \in Check |-> Bytes(c)], total |-> SumOf(Check, Bytes)]

PlanCheckCalls ==
    [op : {"plan checks"}, kinds : UNION {[1..n -> ColumnKind] : n \in 0..2}, check : Check,
     columns : UNION {[1..n -> 1..3] : n \in 0..2}]

AnswerPlanChecks ==
    Reply("plan checks", PlanChecks(call.kinds, call.check, call.columns,
                                    [c \in DOMAIN call.kinds |-> c]))

--------------------------------------------------------------------------
(* The checks that group.  A row is a first and a second column. *)

\* A row that is like an earlier one, and one whose first column is null: the count is of
\* the values of the first column, so a group without one is never a repetition.
ExactDuplicates(rows) ==
    LET groups == ToSet(rows)
        Held(g) == CountIn(rows, LAMBDA r : r = g /\ r[1] # Null)
        repeated == {g \in groups : Held(g) > 1}
    IN  [repeated |-> Cardinality(repeated),
         extra |-> SumOf(repeated, Held) - Cardinality(repeated),
         distinct |-> IF repeated = {} THEN Len(rows) ELSE Cardinality(groups)]

\* An identity is counted once for every split it is in, a missing split for none; the
\* splits of the table are counted with the missing one.
SplitLeakage(rows) ==
    LET ids == {r[1] : r \in ToSet(rows)}
        Spread(id) == {r[2] : r \in {r \in ToSet(rows) : r[1] = id}} \ {Null}
    IN  [leaked |-> {id \in ids : Cardinality(Spread(id)) > 1},
         identities |-> Cardinality(ids), splits |-> Cardinality({r[2] : r \in ToSet(rows)})]

\* A missing label is a class like any other.  IMBALANCE_SHARE is three fifths.
ClassBalance(rows) ==
    LET classes == {r[1] : r \in ToSet(rows)}
        Held(c) == CountIn(rows, LAMBDA r : r[1] = c)
        top == CHOOSE c \in classes : \A d \in classes : Held(d) <= Held(c)
        least == CHOOSE c \in classes : \A d \in classes : Held(c) <= Held(d)
    IN  [classes |-> Cardinality(classes), largest |-> Held(top), smallest |-> Held(least),
         warn |-> 5 * Held(top) > 3 * Len(rows)]

GroupCalls ==
    [op : {"group"},
     rows : UNION {[1..n -> {Null, "x", "y"} \X {Null, "x", "y"}] : n \in 1..3}]

AnswerGroup ==
    Reply("group", [exact |-> ExactDuplicates(call.rows), leak |-> SplitLeakage(call.rows),
                    balance |-> ClassBalance(call.rows)])

--------------------------------------------------------------------------
(* The checks that count batch by batch. *)

\* A scalar column and the descriptors of a blob: a null is no empty blob.  Nothing wrong
\* in either is a finding of its own.
MissingContent(rows) ==
    LET nulls == <<CountBatched(rows, LAMBDA r : r[1] = Null),
                   CountBatched(rows, LAMBDA r : r[2] = Null)>>
        empty == CountBatched(rows, LAMBDA r : r[2] = "empty")
    IN  [nulls |-> nulls, empty |-> empty, complete |-> nulls = <<0, 0>> /\ empty = 0,
         warn |-> \E i \in 1..2 : 20 * nulls[i] > Len(rows)]

\* By its norm in tenths, an embedding that is not a number, or none at all: flattening a
\* batch drops a null, the block no longer has a row for each, and the check fails.
VectorHealth(vectors) ==
    LET dead == CountBatched(vectors, LAMBDA v : v = 0)
        broken == CountBatched(vectors, LAMBDA v : v = -1)
        live == {v \in ToSet(vectors) : v > 0}
        lo == CHOOSE v \in live : \A w \in live : v <= w
        hi == CHOOSE v \in live : \A w \in live : w <= v
    IN  IF -2 \in ToSet(vectors) THEN [state |-> "failed"]
        ELSE [state |-> "done", dead |-> dead, broken |-> broken,
              norms |-> IF CountIn(vectors, LAMBDA v : v > 0) < 2 THEN "too few"
                        ELSE IF live = {10} THEN "unit length"
                        ELSE IF 2 * hi > 3 * lo THEN "mixed" ELSE "consistent"]

\* For every sampled row the two nearest the index returns, of which the first is taken to
\* be the row itself; one with an embedding that is not a number is passed over.
NearDuplicates(sample) ==
    LET asked == {i \in DOMAIN sample : sample[i].finite /\ Len(sample[i].hits) = 2}
    IN  [checked |-> Cardinality(asked),
         close |-> Cardinality({i \in asked : sample[i].hits[2] <= 1})]

CountCalls ==
    [op : {"content"}, rows : UNION {[1..n -> {Null, "x"} \X {Null, "empty", "full"}] : n \in 1..3}]
    \cup [op : {"vectors"}, rows : UNION {[1..n -> {-2, -1, 0, 10, 12, 20}] : n \in 1..3}]
    \cup [op : {"near"},
          rows : UNION {[1..n -> [finite : BOOLEAN, hits : {<<0>>, <<0, 0>>, <<0, 2>>, <<2, 3>>}]]
                        : n \in 0..2}]

AnswerCount ==
    \/ Reply("content", MissingContent(call.rows))
    \/ Reply("vectors", VectorHealth(call.rows))
    \/ Reply("near", NearDuplicates(call.rows))

--------------------------------------------------------------------------
(* The recall of an index.  A row is a place on a line, in one of two partitions; no two *)
(* places are as far from a third.                                                       *)

Far(p, q) == IF p < q THEN q - p ELSE p - q
TopK(S, q, k) == {p \in S : Cardinality({o \in S : Far(o, q) < Far(p, q)}) < k}

\* One pass over the batches: the best so far of what is looked at.
BestOf(batches, out, q, k) ==
    LET best[n \in 0..Len(batches)] ==
            IF n = 0 THEN {} ELSE TopK(best[n - 1] \cup (ToSet(batches[n]) \ out), q, k)
    IN  best[Len(batches)]

\* Mutant: a row is the nearest to itself.
NeighboursAndItself(rows, q, k) == BestOf(Batches(rows), {}, q, k)

\* _exact_neighbours: a row is not its own neighbour.
ExactNeighbours(rows, q, k) == BestOf(Batches(rows), {q}, q, k)

\* What the index returns, nearest by what it kept of a vector (the half of a place, the
\* full one where it is uncompressed) of the partitions it probes, and re-ranked by the
\* full vector of factor times as many.  It is asked for one more than k.
Search(table, q, k, probes, factor) ==
    LET home == table.home
        probed == IF probes = 1 THEN {p \in DOMAIN home : home[p] = home[q]} ELSE DOMAIN home
        Kept(p) == IF table.flat THEN Far(p, q) ELSE Far(p \div 2, q \div 2)
        FewerThan(p, n) == Cardinality({o \in probed :
                                  Kept(o) < Kept(p) \/ (Kept(o) = Kept(p) /\ o < p)}) < n
    IN  IF factor = 0 THEN {p \in probed : FewerThan(p, k + 1)}
        ELSE TopK({p \in probed : FewerThan(p, factor * (k + 1))}, q, k + 1)

\* _measure: hits over all the queries; the row itself is taken out of what came back.
Measure(table, queries, truth, k, probes, factor) ==
    SumOf(queries, LAMBDA q :
        Cardinality(truth[q] \cap (Search(table, q, k, probes, factor) \ {q})))

\* The probes and the factor of each setting: every power of two below all the partitions
\* (two of them here), all of them, the default, and a factor where there is something to
\* refine.
ProbeSettings(flat) == <<<<1, 0>>, <<2, 0>>, <<1, 0>>>> \o (IF flat THEN <<>> ELSE <<<<1, 2>>>>)

\* index_recall: the exact answer, then each setting in turn.  The bytes are the sample, the
\* exact pass, and of each setting that was finished its searches: asked to stop in the
\* middle of one, the check forgets what that one had read.
IndexRecall(table, queries, stop) ==
    LET rows == table.rows
        k == Lesser(RecallK, Len(rows) - 1)
        truth == [q \in queries |-> ExactNeighbours(rows, q, k)]
        settings == ProbeSettings(table.flat)
        Found(i) == Measure(table, queries, truth, k, settings[i][1], settings[i][2])
        wanted == SumOf(queries, LAMBDA q : Cardinality(truth[q]))
        finished == Lesser(stop, Len(settings))
    IN  IF k < 1 THEN [state |-> "nothing"]
        ELSE [state |-> IF stop < Len(settings) THEN "cancelled" ELSE "done", truth |-> truth,
              found |-> [i \in 1..finished |-> Found(i)], wanted |-> wanted,
              enough |-> {i \in 1..Lesser(2, finished) : 20 * Found(i) >= 19 * wanted},
              spent |-> 2 + finished,
              read |-> 2 + Lesser(stop + 1, Len(settings))]

RecallCalls ==
    LET Places == {0, 1, 4, 6}
        Table == UNION {[rows : SetToSeqs(P), home : [P -> 1..2], flat : BOOLEAN]
                        : P \in {P \in SUBSET Places : 0 \in P}}
    IN  {c \in [op : {"recall"}, table : Table, queries : (SUBSET Places) \ {{}}, stop : {0, 2, 4}] :
            c.queries \subseteq DOMAIN c.table.home}

AnswerRecall == Reply("recall", IndexRecall(call.table, call.queries, call.stop))

--------------------------------------------------------------------------

CheckCalls == PlanCheckCalls \cup GroupCalls \cup CountCalls \cup RecallCalls
AnswerCheck == AnswerPlanChecks \/ AnswerGroup \/ AnswerCount \/ AnswerRecall

--------------------------------------------------------------------------
(* Properties *)

\* Each check that may run is given columns it can read, all of them, and never a payload;
\* a default is refused only where the table has nothing of its kind; the quote adds up.
QuotesAreForWhatRuns ==
    Answered("plan checks") =>
        /\ \A c \in answer.ok : /\ answer.columns[c] # <<>>
                               /\ \A n \in ToSet(answer.columns[c]) :
                                     n \in DOMAIN call.kinds /\ call.kinds[n] # "binary"
        /\ \A c \in Check \ answer.ok : answer.bytes[c] = 0
        /\ \A c \in {"missing-content", "exact-duplicates", "vector-health", "index-recall"} :
              answer.columns[c] = DefaultColumns(c, call.kinds) /\ c \notin answer.ok =>
                  ~\E n \in DOMAIN call.kinds :
                      call.kinds[n] \in (IF c = "index-recall" THEN {"indexed vector"} ELSE Takes(c))

\* Groups against pairs of rows: the rows beyond the first of each, where the first column
\* is never null, and an identity is in two splits exactly when two of its rows are.
GroupsArePairs ==
    Answered("group") =>
        LET rows == call.rows
            again == {j \in DOMAIN rows : \E i \in 1..j - 1 : rows[i] = rows[j]}
        IN  /\ (\A i \in DOMAIN rows : rows[i][1] # Null) =>
                   /\ answer.exact.extra = Cardinality(again)
                   /\ answer.exact.distinct = Len(rows) - Cardinality(again)
            /\ \A id \in {Null, "x", "y"} :
                   id \in answer.leak.leaked <=>
                       \E i, j \in DOMAIN rows :
                           /\ rows[i][1] = id /\ rows[j][1] = id
                           /\ rows[i][2] # rows[j][2] /\ Null \notin {rows[i][2], rows[j][2]}
            /\ answer.balance.classes * answer.balance.smallest <= Len(rows)
            /\ Len(rows) <= answer.balance.classes * answer.balance.largest

\* Counted in batches or at once, every row is counted: content is called complete when
\* no row has a hole, and an embedding is dead, broken or live.
BatchesAddUp ==
    /\ Answered("content") => (answer.complete <=>
           \A i \in DOMAIN call.rows : call.rows[i][1] # Null /\ call.rows[i][2] = "full")
    /\ Answered("vectors") /\ answer.state = "done" =>
           /\ Len(call.rows) = answer.dead + answer.broken + CountIn(call.rows, LAMBDA v : v > 0)
           /\ answer.norms = "mixed" => Cardinality(ToSet(call.rows)) > 1
    /\ Answered("near") => answer.close <= answer.checked

\* The one pass in batches finds the nearest of the whole table; an index that keeps the
\* full vectors and probes every partition finds them all, and no fewer than with one
\* partition; a sweep that ran to its end reports every byte it read.
RecallIsMeasured ==
    Answered("recall") /\ answer.state # "nothing" =>
        /\ \A q \in call.queries :
              answer.truth[q] = TopK(DOMAIN call.table.home \ {q}, q, Lesser(RecallK, Len(call.table.rows) - 1))
        /\ call.table.flat /\ Len(answer.found) >= 2 =>
              answer.found[2] = answer.wanted /\ answer.found[1] <= answer.found[2]
                  /\ 2 \in answer.enough
        /\ \A i \in DOMAIN answer.found : answer.found[i] <= answer.wanted
        /\ answer.state = "done" => answer.spent = answer.read

\* What the checks conclude follows from the rows they were quoted for.
ScansAreHonest == QuotesAreForWhatRuns /\ GroupsArePairs /\ BatchesAddUp /\ RecallIsMeasured

\* Known disagreements (datascan.py:17 and exact_duplicates's "two rows either agree on
\* those columns or they do not"): a sweep stopped within a setting reports less than it
\* read, and rows that are alike and have no first column are called distinct.
CancelledReportsWhatItSpent == Answered("recall") /\ answer.state # "nothing" => answer.spent = answer.read
AlikeIsDuplicate ==
    Answered("group") => answer.exact.distinct = Cardinality(ToSet(call.rows))
====
