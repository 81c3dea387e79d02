---- MODULE Panels ----
(***************************************************************************)
(* server/routes/catalog.py, intel/runconfig.py and bundle.py: what each   *)
(* panel answers of a root or of one table, which bytes of a cell are      *)
(* streamed, and the document that carries the panels away.  Opening a     *)
(* table and draining its counters are Catalog's; the plan, the pages and  *)
(* the weights are Queries'.                                               *)
(***************************************************************************)
EXTENDS Queries, Findings

CONSTANT MaxChunk       \* MAX_BLOB_CHUNK, and the demo's MAX_CHUNK: bytes of one response

ASSUME PanelsAssumption == MaxChunk \in Nat \ {0}

Unknown == <<>>         \* null; a figure that was taken is <<figure>>

--------------------------------------------------------------------------
(* A root: its tables. *)

\* tables: what was found is opened, one by one; one that vanished in between is skipped,
\* one that Lance cannot open is reported.  A root that cannot be listed says so.
Tables(discover, failed, opens) ==
    LET found == IF failed THEN {} ELSE DOMAIN opens
        Which(outcome) == {n \in found : opens[n] = outcome}
    IN  IF ~discover
        THEN [tables |-> {}, unreadable |-> {}, note |-> "cannot_list", failed |-> FALSE]
        ELSE [tables |-> Which("opens"), unreadable |-> Which("broken"), note |-> "manifests",
              failed |-> failed]

ListingCalls ==
    [op : {"tables"}, discover : BOOLEAN, failed : BOOLEAN,
     opens : UNION {[T -> {"opens", "gone", "broken"}] : T \in SUBSET {"a", "b", "c"}}]

AnswerListing == Reply("tables", Tables(call.discover, call.failed, call.opens))

--------------------------------------------------------------------------
(* The history of a table. *)

\* _operations: by the version a transaction read, and one more; a later one in the list
\* overwrites.  With its files cleaned up there is none.
Operation(txs, version) ==
    LET of == {i \in DOMAIN txs : txs[i].read + 1 = version}
    IN  IF of = {} THEN Unknown ELSE <<txs[CHOOSE i \in of : \A j \in of : j <= i].did>>

\* versions: each against the one before it in the list, newest first.
History(versions, txs) ==
    [versions |-> Reverse([i \in DOMAIN versions |->
        [version |-> versions[i].version, rows |-> versions[i].rows,
         operation |-> Operation(txs, versions[i].version),
         diff |-> IF i = 1 THEN Unknown ELSE <<versions[i].rows - versions[i - 1].rows>>]])]

HistoryCalls ==         \* a version's transaction read one that was there when it was made
    LET Versions(n) == {v \in [1..n -> [version : 1..4, rows : 0..2]] :
                            \A i \in 1..n - 1 : v[i].version < v[i + 1].version}
        Tx == [did : {"append", "index"}, made : 1..4, read : 0..3]
    IN  [op : {"versions"}, versions : UNION {Versions(n) : n \in 1..3},
         txs : {t \in UNION {[1..n -> Tx] : n \in 0..2} :
                   /\ \A i \in DOMAIN t : t[i].read < t[i].made
                   /\ \A i, j \in DOMAIN t : i < j => t[i].made > t[j].made}]

AnswerHistory == Reply("versions", History(call.versions, call.txs))

--------------------------------------------------------------------------
(* Indices and fragments. *)

\* indices: a share of the rows where Lance counted both, and the columns in no index.
Indexing(indices, kinds) ==
    LET Covered(i) == IF i.counted /\ i.indexed + i.unindexed > 0
                      THEN <<i.indexed, i.indexed + i.unindexed>> ELSE Unknown
        bare == DOMAIN kinds \ UNION {i.columns : i \in indices}
        Blob(c) == kinds[c] \in {"blob_v1", "blob_v2"}
    IN  [coverage |-> {[on |-> i.columns, share |-> Covered(i)] : i \in indices},
         unindexed |-> bare, indexable |-> {c \in bare : ~Blob(c)},
         searches |-> {c \in bare : kinds[c] = "vector"}]

IndexingCalls ==
    LET Listed == [columns : (SUBSET {"a", "b"}) \ {{}}, counted : BOOLEAN, indexed : 0..1,
                   unindexed : 0..1]
    IN  [op : {"indices"}, kinds : [{"a", "b"} -> Kind],
         indices : {{}} \cup {{i} : i \in Listed}]

AnswerIndexing == Reply("indices", Indexing(call.indices, call.kinds))

\* fragment_blob_bytes walks what it is given as a directory: a remote one is empty.
Side(side, walked, stem) == IF walked /\ stem \in DOMAIN side THEN side[stem] ELSE 0

\* fragments: what Lance measures of each, and what its side files add; a count of small
\* files is explained where a blob makes them small.
Layout(fragments, side, walked, small, blob) ==
    LET data(i) == SumOf(fragments[i], LAMBDA f : f.size)
        blobs(i) == SumOf(fragments[i], LAMBDA f : Side(side, walked, f.stem))
    IN  [fragments |-> [i \in DOMAIN fragments |->
             [data |-> data(i), blobs |-> blobs(i), total |-> data(i) + blobs(i)]],
         explained |-> blob /\ small > 0]

\* disk_usage of the table route, <<blob bytes, the other files'>>: null, and why, where there
\* is no directory to walk.
OnDisk(fragments, side, orphans, walked) ==
    IF ~walked THEN Unknown
    ELSE <<SumOf(DOMAIN side, LAMBDA s : side[s]),
           orphans + SumOf(DOMAIN fragments, LAMBDA i : SumOf(fragments[i], LAMBDA f : f.size))>>

TwoFragments ==
    LET Files(stems) == {{[stem |-> s, size |-> z[s]] : s \in stems} : z \in [stems -> 1..2]}
    IN  {<<f, g>> : f \in Files({"p"}) \cup Files({"p", "q"}), g \in Files({"r"})}
SideFiles == UNION {[S -> {3, 9}] : S \in SUBSET {"p", "q", "r", "left_over"}}
LayoutCalls == [op : {"fragments"}, fragments : TwoFragments, side : SideFiles,
                orphans : 0..1, walked : BOOLEAN, small : 0..1]

AnswerLayout ==
    Reply("fragments",
          Joined([disk |-> OnDisk(call.fragments, call.side, call.orphans, call.walked)],
                 Layout(call.fragments, call.side, call.walked, call.small, call.side # <<>>)))

--------------------------------------------------------------------------
(* Rows, and the bytes of one cell. *)

\* rows: no blob is read, not even when it is named; the page is of the rows that match.
Rows(kinds, columns, expand, offset, limit, matching) ==
    LET p == Projection(kinds, columns, expand)
    IN  IF IsRefused(p) THEN p
        ELSE IF ~(expand \subseteq DOMAIN kinds) THEN Refuse("no_such_column_to_expand")
        ELSE [read |-> p.read, omitted |-> p.omitted, total |-> Len(matching),
              rows |-> Page(matching, Greater(0, offset), Lesser(Greater(0, limit), MaxLimit))]

RowsCalls ==
    LET Names == {"a", "b", "typo"}
        Page3 == <<1, 2, 3>>
    IN  [op : {"rows"}, kinds : [{"a", "b"} -> Kind], columns : SUBSET Names,
         expand : SUBSET Names, offset : {0}, limit : {1}, matching : {Page3}]
        \cup [op : {"rows"}, kinds : [{"a"} -> {"string"}], columns : {{}}, expand : {{}},
              offset : -1..3, limit : -1..MaxLimit + 1,
              matching : {SubSeq(Page3, 1, n) : n \in 0..3}]

AnswerRows == Reply("rows", Rows(call.kinds, call.columns, call.expand, call.offset, call.limit,
                                 call.matching))

Or(figure, otherwise) == IF figure = Unknown THEN otherwise ELSE figure[1]

\* Mutant: one byte more than a response may be.
SpanPastTheCap(asked, size) ==
    LET from == Or(asked.from, 0)
    IN  IF from >= size THEN Refuse(416)
        ELSE [from |-> from,
              to |-> Lesser(Lesser(Or(asked.to, size - 1), size - 1), from + MaxChunk)]

\* _range: the first byte and the last, of a value this long.  "bytes=-n" has no start.
Span(asked, size) ==
    LET from == Or(asked.from, 0)
    IN  IF from >= size THEN Refuse(416)
        ELSE [from |-> from,
              to |-> Lesser(Lesser(Or(asked.to, size - 1), size - 1), from + MaxChunk - 1)]

\* A read of -1 bytes is of all that is left.
BlobRead(value, from, n) == SubSeq(value, from + 1, IF n = -1 THEN Len(value) ELSE from + n)

\* The columns bytes can be streamed from, the side files first.
Streamable(kinds) ==
    LET columns == <<"a", "b">>
        Of(K) == At(columns, {i \in 1..2 : columns[i] \in DOMAIN kinds /\ kinds[columns[i]] \in K})
    IN  Of({"blob_v1", "blob_v2"}) \o Of({"binary"})

\* blob, up to the row: the column, and a row id or else a key that the table has.
CellRefused(c, columns) ==
    IF columns = <<>> THEN 404
    ELSE IF c.column # Unknown /\ c.column[1] \notin ToSet(columns) THEN 404
    ELSE IF c.by = "nothing" THEN 400
    ELSE IF c.by \in {"another_column", "unusable_key"} THEN 400
    ELSE IF c.by = "missing_key" THEN 404
    ELSE 0

\* A row that is not there is found out by the read itself.
CellRead(c, picked) ==
    LET span == Span(c.asked, Len(c.value))
    IN  IF c.kinds[picked] # "binary" /\ c.by = "missing_row" THEN Refuse(500)
        ELSE IF c.by = "missing_row" \/ (c.kinds[picked] = "binary" /\ c.empty) THEN Refuse(404)
        ELSE IF IsRefused(span) THEN span
        ELSE IF c.kinds[picked] = "binary" THEN
             [from |-> span.from, data |-> SubSeq(c.value, span.from + 1, span.to + 1)]
        ELSE IF span.to - span.from + 1 < -1 THEN Refuse(500)
        ELSE [from |-> span.from,
              data |-> BlobRead(c.value, span.from, span.to - span.from + 1)]

\* _mime_for: what the row declares, when a key found it; else what the bytes sent look like.
MimeFor(c, data) ==
    IF c.by = "key" /\ c.mime THEN "declared"
    ELSE IF Len(data) >= 2 /\ Head(data) = 1 THEN "sniffed" ELSE "octets"

Cell(c) ==
    LET columns == Streamable(c.kinds)
        refused == CellRefused(c, columns)
        read == CellRead(c, Or(c.column, Head(columns)))
    IN  IF refused > 0 THEN Refuse(refused)
        ELSE IF IsRefused(read) THEN read
        ELSE [from |-> read.from, data |-> read.data, type |-> MimeFor(c, read.data),
              status |-> IF c.ranged THEN 206 ELSE 200, size |-> Len(c.value)]

\* video, the demo's own: a segment of the corpus is a side file, and always a video.
Video(c) ==
    LET span == Span(c.asked, Len(c.value))
        n == span.to - span.from + 1
    IN  IF c.by = "missing_key" THEN Refuse(404)
        ELSE IF IsRefused(span) THEN span
        ELSE IF n < -1 THEN Refuse(500)
        ELSE [from |-> span.from, data |-> BlobRead(c.value, span.from, n), type |-> "declared",
              status |-> IF c.ranged THEN 206 ELSE 200, size |-> Len(c.value)]

CellCalls ==            \* the value's bytes are 1, 2, ..
    LET Whole == [from |-> Unknown, to |-> Unknown]
        Asked2 == [from : {Unknown} \cup {<<i>> : i \in 0..5}, to : {Unknown} \cup {<<i>> : i \in 0..6}]
        Value(n) == [i \in 1..n |-> i]
        Kinds == [{"a", "b"} -> {"blob_v2", "binary", "string"}]
    IN  [op : {"video"}, by : {"key", "missing_key"}, mime : {TRUE}, ranged : BOOLEAN,
         value : {Value(n) : n \in 0..6}, asked : Asked2]
        \cup [op : {"blob"}, kinds : [{"a"} -> {"blob_v2", "binary"}], column : {Unknown},
         by : {"row", "key"}, mime : BOOLEAN, empty : {FALSE}, value : {Value(n) : n \in 0..6},
         ranged : {TRUE}, asked : Asked2]
        \cup [op : {"blob"}, kinds : Kinds, column : {Unknown, <<"a">>, <<"b">>},
              by : {"row", "key", "nothing", "another_column", "unusable_key", "missing_key",
                    "missing_row"}, mime : {FALSE}, empty : BOOLEAN, value : {Value(3)},
              ranged : {FALSE}, asked : {Whole}]

AnswerCell == Reply("blob", Cell(call)) \/ Reply("video", Video(call))

--------------------------------------------------------------------------
(* What a run must pin, and what a query would read. *)

\* _read_section: the weight of the columns named where the footers can be read, and the
\* whole table's where only its directory can; a basis either way.
RunConfig(named, unknown, footers, weight, walked, meta) ==
    IF unknown THEN Refuse(400)
    ELSE [weight |-> IF footers THEN <<weight[named]>> ELSE IF walked THEN <<meta>> ELSE Unknown,
          basis |-> IF footers THEN "file-statistics"
                    ELSE IF walked THEN "on-disk-walk"
                    ELSE "unavailable",
          table |-> IF walked THEN <<meta>> ELSE Unknown,
          because |-> ~walked, columns |-> named]

RunConfigCalls ==
    [op : {"run_config"}, named : {"all", "one"}, unknown : BOOLEAN, footers : BOOLEAN,
     walked : BOOLEAN, meta : {9}, weight : {[c \in {"all", "one"} |-> IF c = "all" THEN 8 ELSE 2]}]

AnswerRunConfig ==
    Reply("run_config", RunConfig(call.named, call.unknown, call.footers, call.weight,
                                  call.walked, call.meta))

\* query_explain: a scan is weighed, by the columns the body names and not by those it plans
\* to read; no columns named is all but the blobs.
Explain(kinds, columns, expand, mode) ==
    LET p == Projection(kinds, columns, expand)
    IN  IF IsRefused(p) THEN Refuse(400)
        ELSE [read |-> p.read, omitted |-> p.omitted,
              weighed |-> IF mode # "scan" THEN Unknown
                          ELSE <<IF columns # {} THEN columns
                                 ELSE {c \in DOMAIN kinds : kinds[c] \notin {"blob_v1", "blob_v2"}}>>]

\* run_query and compare_query: a refusal is the caller's; a wait that runs out is not the
\* end of the scan; both versions refusing is a refusal, and one a result.
RunRoute(outcome) ==
    CASE outcome = "no_table" -> Refuse(404) [] outcome = "refused" -> Refuse(400)
      [] outcome = "slow" -> Refuse(408) [] OTHER -> [status |-> 200]
CompareRoute(a, b) ==
    IF "no_version" \in {a, b} \/ {a, b} = {"refused"} THEN Refuse(400)
    ELSE [status |-> 200, errors |-> {v \in {a, b} : v = "refused"}]

ExplainCalls ==
    LET Names == {"a", "b"}
    IN  [op : {"explain"}, kinds : [Names -> Kind], columns : SUBSET (Names \cup {"typo"}),
         expand : SUBSET Names, mode : {"scan", "fts"}]
        \cup [op : {"run_route"}, outcome : {"no_table", "refused", "slow", "fine"}]
        \cup [op : {"compare_route"}, a : {"no_version", "refused", "fine"},
              b : {"no_version", "refused", "fine"}]

AnswerExplain ==
    \/ Reply("explain", Explain(call.kinds, call.columns, call.expand, call.mode))
    \/ Reply("run_route", RunRoute(call.outcome))
    \/ Reply("compare_route", CompareRoute(call.a, call.b))

--------------------------------------------------------------------------
(* The document. *)

Section == {"schema", "versions", "indices", "fragments", "findings", "weights", "data_scan"}

\* collect: a section that raises is recorded, with what was raised; a route's own refusal
\* has had the root taken out of it.  The route of the weights spreads its estimate over its
\* answer, footers and all.
Collect(fails, how, read) ==
    [sections |-> [s \in Section \ fails |->
        [holds |-> IF s = "findings" THEN {} ELSE {"root"}, read |-> read,
         footers |-> IF s = "weights" THEN 1 ELSE 0, under |-> "the_answer"]],
     incomplete |-> [s \in fails |-> IF how = "refused" THEN {} ELSE {"root"}]]

\* _total_cost: the bytes each section reports, and the footers it reports under "estimate"
\* or "read".
TotalCost(sections, query) ==
    [bytes |-> SumOf(DOMAIN sections, LAMBDA s : sections[s].read) + Or(query, 0),
     off |-> SumOf({s \in DOMAIN sections : sections[s].under \in {"estimate", "read"}},
                 LAMBDA s : sections[s].footers)]

\* Keys that name a secret go, and the root unless it was asked for.
Clean(holds, paths) == holds \ ({"secret"} \cup (IF paths = "kept" THEN {} ELSE {"root"}))
StripRows(holds) == holds \ {"rows"}

\* assemble: the answers, cleaned; a query without its rows; what failed, as it was.
Assemble(collected, c) ==
    [sections |-> [s \in DOMAIN collected.sections |->
                       Clean(collected.sections[s].holds, c.paths)],
     connection |-> Clean({"root"}, c.paths), saved |-> Clean(c.saved, c.paths),
     query |-> IF c.query = Unknown THEN {} ELSE Clean(StripRows({"rows", "root"}), c.paths),
     incomplete |-> collected.incomplete,
     cost |-> TotalCost(collected.sections, c.query)]

\* to_markdown: a section without an answer has no heading, and is named above them all.
Markdown(document) ==
    LET has == DOMAIN document.sections
    IN  [named |-> DOMAIN document.incomplete,
         headed |-> (has \ {"versions", "indices", "fragments"})
                    \cup (IF has \cap {"versions", "indices", "fragments"} # {}
                          THEN {"layout"} ELSE {})]

\* bundle and bundle_with_query: paths and facet are looked at first, then the table, then
\* the query; the format only when everything has been read.
Bundle(c) ==
    LET document == Assemble(Collect(c.fails, c.how, c.read), c)
    IN  IF c.badly \in {"paths", "facet"} THEN Refuse(400)
        ELSE IF c.badly = "table" THEN Refuse(404)
        ELSE IF c.badly = "query" /\ c.query # Unknown THEN Refuse(400)
        ELSE IF c.badly = "format" THEN Refuse(400)
        ELSE Joined(document, [text |-> Markdown(document)])

BundleCalls ==
    [op : {"bundle"}, fails : SUBSET Section, how : {"refused", "raised"},
     paths : {"redacted", "kept"}, saved : SUBSET {"secret", "root"}, query : {Unknown, <<2>>},
     read : {1}, badly : {"nothing"}]
    \cup [op : {"bundle"}, fails : {{}}, how : {"refused"}, paths : {"kept"}, saved : {{}},
          query : {Unknown, <<2>>}, read : {1},
          badly : {"paths", "facet", "table", "query", "format"}]

AnswerBundle == Reply("bundle", Bundle(call))

--------------------------------------------------------------------------
(* Properties *)

PanelCalls ==
    FindingCalls \cup ListingCalls \cup HistoryCalls \cup IndexingCalls \cup LayoutCalls \cup RowsCalls
    \cup CellCalls \cup RunConfigCalls \cup ExplainCalls \cup BundleCalls

AnswerPanel ==
    \/ AnswerFindings \/ AnswerListing \/ AnswerHistory \/ AnswerIndexing \/ AnswerLayout \/ AnswerRows
    \/ AnswerCell \/ AnswerRunConfig \/ AnswerExplain \/ AnswerBundle

\* An empty listing that gives no reason is an empty root: every table found is shown, is
\* reported as unreadable, or was gone by the time it was opened.
EmptyMeansEmpty ==
    Answered("tables") /\ answer.note = "manifests" /\ ~answer.failed =>
        \A n \in DOMAIN call.opens :
            n \in answer.tables \cup answer.unreadable \/ call.opens[n] = "gone"

\* The differences of a history add up to what the table became, and an operation is shown
\* at the version it made, when transactions do not overlap.
HistoriesAddUp ==
    Answered("versions") =>
        LET v == answer.versions
            Oldest == v[Len(v)]
        IN  /\ \A i \in DOMAIN v : v[i].rows
                  = Oldest.rows + SumOf({j \in i..Len(v) : v[j].diff # Unknown},
                                      LAMBDA j : v[j].diff[1])
            /\ (\A t \in ToSet(call.txs) : t.made = t.read + 1) =>
                  \A i \in DOMAIN v :
                      v[i].operation = Unknown \/ \E t \in ToSet(call.txs) :
                          t.made = v[i].version /\ v[i].operation = <<t.did>>

\* A column is indexed or listed as bare, and what a search must read in full is known;
\* fragments add up to the table's directory, when nothing in it is left over.
LayoutsAddUp ==
    /\ Answered("indices") =>
          /\ \A i \in call.indices : i.columns \cap answer.unindexed = {}
          /\ answer.searches \subseteq answer.indexable
          /\ \A x \in answer.coverage :
                x.share # Unknown => x.share[1] \in 0..x.share[2] /\ x.share[2] > 0
    /\ Answered("fragments") /\ call.walked =>
          LET total == SumOf(DOMAIN answer.fragments, LAMBDA i : answer.fragments[i].total)
              left == IF "left_over" \in DOMAIN call.side THEN call.side["left_over"] ELSE 0
              owned == UNION {{f.stem : f \in call.fragments[i]} : i \in DOMAIN call.fragments}
          IN  answer.disk[1] + answer.disk[2] - total
                 = call.orphans + left
                   + SumOf((DOMAIN call.side \ owned) \ {"left_over"}, LAMBDA s : call.side[s])

\* Pages turned one after another show every row that matches once, in order; no bytes of a
\* blob are in one, and nothing the page leaves out was asked to be read.
PagesTurn ==
    Answered("rows") /\ ~IsRefused(answer) =>
        /\ Len(answer.rows) <= MaxLimit
        /\ call.offset >= 0 /\ call.limit \in 1..MaxLimit =>
              LET From(offset) == Rows(call.kinds, call.columns, call.expand, offset, call.limit,
                                       call.matching).rows
              IN  call.offset = 0 =>
                     FlattenSeq([i \in 1..Len(call.matching) + 1 |-> From((i - 1) * call.limit)])
                         = call.matching
        /\ ~(\E c \in answer.read : call.kinds[c] = "blob_v1")
        /\ answer.omitted \cap call.expand = {}

\* A player that asks for the rest, and again from where an answer stopped, is sent every
\* byte of the value once: an answer is where it says, is not empty, and is cut short only
\* at the size of one response.  A range with two ends is honoured inside those limits.
CellsPlay ==
    (Answered("blob") \/ Answered("video")) /\ ~IsRefused(answer) =>
        LET from == answer.from
            data == answer.data
        IN  /\ data = SubSeq(call.value, from + 1, from + Len(data))
            /\ from + Len(data) <= answer.size
            /\ call.asked.to = Unknown =>
                  /\ from = Or(call.asked.from, 0)
                  /\ Len(data) \in 1..MaxChunk
                  /\ from + Len(data) = answer.size \/ Len(data) = MaxChunk
            /\ call.asked.from # Unknown /\ Or(call.asked.to, -1) >= from =>
                  /\ Len(data) \in 1..MaxChunk
                  /\ from + Len(data) <= call.asked.to[1] + 1

\* A figure has a basis and an unmeasured one is null; a config for named columns never
\* weighs others while the footers can be read; what a scan reads was weighed.
FiguresHaveABasis ==
    /\ Answered("run_config") /\ ~IsRefused(answer) =>
          /\ (answer.weight = Unknown) = (answer.basis = "unavailable")
          /\ answer.basis = "file-statistics" => answer.weight = <<call.weight[call.named]>>
          /\ answer.table = Unknown => answer.because
    /\ Answered("explain") /\ ~IsRefused(answer) /\ call.mode = "scan" =>
          {c \in answer.read : call.kinds[c] # "blob_v2"} \subseteq answer.weighed[1]

\* The document accounts for seven sections, each answered or named as missing, in the JSON
\* and in the text; no secret and no row leaves in it, nor the root from any part that was
\* answered; it costs what its parts did.
BundlesTravel ==
    Answered("bundle") /\ ~IsRefused(answer) =>
        LET has == DOMAIN answer.sections
            held == (UNION {answer.sections[s] : s \in has})
                    \cup answer.query \cup answer.saved \cup answer.connection
        IN  /\ has \cup DOMAIN answer.incomplete = Section
            /\ has \cap DOMAIN answer.incomplete = {}
            /\ answer.text.named = Section \ has
            /\ has \subseteq answer.text.headed \cup {"versions", "indices", "fragments"}
            /\ held \subseteq IF call.paths = "kept" THEN {"root"} ELSE {}
            /\ answer.cost.bytes = Cardinality(has) * call.read + Or(call.query, 0)

\* The panels, their findings, and the document made of them, say what is there.
PanelsAreHonest ==
    FindingsAreHonest /\ EmptyMeansEmpty /\ HistoriesAddUp /\ LayoutsAddUp /\ PagesTurn /\ CellsPlay
    /\ FiguresHaveABasis /\ BundlesTravel

--------------------------------------------------------------------------
(* What the routes say of themselves and do not do. *)

\* "Map each version to the kind of operation that produced it" (catalog.py:303): one that
\* was rebased past another is shown at that one's version.
EveryVersionHasItsOperation ==
    Answered("versions") =>
        \A i \in DOMAIN answer.versions : \A t \in ToSet(call.txs) :
            t.made = answer.versions[i].version => answer.versions[i].operation = <<t.did>>

\* "heavy column: pass expand= to read it" (catalog.py:664): a Blob V1 column is refused.
OmittedCanBeExpanded ==
    Answered("rows") /\ ~IsRefused(answer) =>
        \A c \in answer.omitted :
            ~IsRefused(Rows(call.kinds, call.columns, {c}, 0, 1, call.matching))

\* "never zeros" for what nobody counted (catalog.py:1334): the fragments of a remote root.
NobodyCountedIsNull ==
    Answered("fragments") /\ ~call.walked =>
        \A i \in DOMAIN answer.fragments :
            answer.fragments[i].blobs
               = SumOf(call.fragments[i], LAMBDA f : Side(call.side, TRUE, f.stem))

\* "honouring HTTP Range" (catalog.py:1114): a suffix is the end of a value.
SuffixIsTheEnd ==
    Answered("blob") /\ ~IsRefused(answer) /\ call.asked.from = Unknown /\ call.asked.to # Unknown =>
        answer.from = Greater(0, answer.size - call.asked.to[1])

\* "One response is capped here" (catalog.py:1094): not one whose end is two before its start.
OneResponseIsCapped == Answered("blob") /\ ~IsRefused(answer) => Len(answer.data) <= MaxChunk

\* "The row's own `mime` when it has one" (catalog.py:1253): only if a key found the row.
TypeIsTheRows ==
    Answered("blob") /\ ~IsRefused(answer) /\ call.mime => answer.type = "declared"

\* No "run config whose byte number describes a projection they never asked for"
\* (runconfig.py:170): the whole table's, where the footers cannot be read.
WeightIsOfTheColumnsNamed ==
    Answered("run_config") /\ ~IsRefused(answer) /\ answer.weight # Unknown =>
        answer.weight = <<call.weight[call.named]>>

\* "by default no paths either" (bundle.py:27): a section that raised keeps its message.
NoPathLeaves ==
    Answered("bundle") /\ ~IsRefused(answer) /\ call.paths = "redacted" =>
        \A s \in DOMAIN answer.incomplete : answer.incomplete[s] = {}

\* "off_meter_ms is reported beside the bytes" (bundle.py:241): no section has it there.
FootersAreReported ==
    Answered("bundle") /\ ~IsRefused(answer) /\ "weights" \in DOMAIN answer.sections =>
        answer.cost.off > 0
====
