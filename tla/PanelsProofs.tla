---- MODULE PanelsProofs ----
(***************************************************************************)
(* What the panels, their routes and the bundle say of a table, and what   *)
(* the edges of the program do: its sources, its media, its embedders and  *)
(* its command line.  For any versions, files, words and bounds, sums are  *)
(* of what was counted, pages and requests hold every item once, captions  *)
(* are kept whole, and an exit code tells what was left behind.            *)
(***************************************************************************)
EXTENDS AnswersProofs

--------------------------------------------------------------------------
(* Panels, asked and answered. *)

\* A call is one that can be asked, and the answer of a panel what its operator gives.
PanelIInv ==
    /\ call \in Calls
    /\ answer # Unanswered =>
        /\ call.op = "analyse" => answer = Analyse(call.table, call.broken, call.facet)
        /\ call.op = "tables" => answer = Tables(call.discover, call.failed, call.opens)
        /\ call.op = "versions" => answer = History(call.versions, call.txs)
        /\ call.op = "indices" => answer = Indexing(call.indices, call.kinds)
        /\ call.op = "fragments" =>
               answer = Joined([disk |-> OnDisk(call.fragments, call.side, call.orphans, call.walked)],
                               Layout(call.fragments, call.side, call.walked, call.small,
                                      call.side # <<>>))
        /\ call.op = "rows" => answer = Rows(call.kinds, call.columns, call.expand, call.offset,
                                             call.limit, call.matching)
        /\ call.op = "blob" => answer = Cell(call)
        /\ call.op = "video" => answer = Video(call)
        /\ call.op = "run_config" => answer = RunConfig(call.named, call.unknown, call.footers,
                                                        call.weight, call.walked, call.meta)
        /\ call.op = "explain" => answer = Explain(call.kinds, call.columns, call.expand, call.mode)
        /\ call.op = "bundle" => answer = Bundle(call)

LEMMA OtherPanelReplies ==
    ASSUME Next
    PROVE  \/ AnswerPanel
           \/ Asks(QueryOp \cup CheckOp \cup LanguageOp \cup SourceOp \cup MediaOp \cup CommandOp)
<1>1. CASE AnswerCheck
  BY <1>1, CheckReplies DEF Asks
<1>2. CASE AnswerLanguage
  BY <1>2, LanguageReplies DEF Asks
<1>3. CASE AnswerQuery
  BY <1>3, QueryReplies DEF Asks
<1>4. CASE AnswerSource
  BY <1>4, SourceReplies DEF Asks
<1>5. CASE AnswerMedia
  BY <1>5, MediaReplies DEF Asks
<1>6. CASE AnswerCommand
  BY <1>6, CommandReplies DEF Asks
<1> QED BY <1>1, <1>2, <1>3, <1>4, <1>5, <1>6 DEF Next

LEMMA InitPanelIInv == Init => PanelIInv
BY DEF Init, PanelIInv, Calls

LEMMA NextPanelIInv == PanelIInv /\ [Next]_<<call, answer>> => PanelIInv'
<1> SUFFICES ASSUME PanelIInv, [Next]_<<call, answer>> PROVE PanelIInv'
  OBVIOUS
<1>1. ASSUME Asks(QueryOp \cup CheckOp \cup LanguageOp \cup SourceOp \cup MediaOp \cup CommandOp)
      PROVE  PanelIInv'
  <2>1. /\ call' = call
        /\ call.op \notin {"analyse", "tables", "versions", "indices", "fragments", "rows", "blob",
                           "video", "run_config", "explain", "bundle"}
    BY <1>1 DEF Asks, QueryOp, CheckOp, LanguageOp, SourceOp, MediaOp, CommandOp
  <2> QED BY <2>1 DEF PanelIInv
<1>2. CASE AnswerFindings
  BY <1>2 DEF PanelIInv, AnswerFindings, Reply
<1>3. CASE AnswerListing
  BY <1>3 DEF PanelIInv, AnswerListing, Reply
<1>4. CASE AnswerHistory
  BY <1>4 DEF PanelIInv, AnswerHistory, Reply
<1>5. CASE AnswerIndexing
  BY <1>5 DEF PanelIInv, AnswerIndexing, Reply
<1>6. CASE AnswerLayout
  BY <1>6 DEF PanelIInv, AnswerLayout, Reply
<1>7. CASE AnswerRows
  BY <1>7 DEF PanelIInv, AnswerRows, Reply
<1>8. CASE AnswerCell
  BY <1>8 DEF PanelIInv, AnswerCell, Reply
<1>9. CASE AnswerRunConfig
  BY <1>9 DEF PanelIInv, AnswerRunConfig, Reply
<1>10. CASE AnswerExplain
  BY <1>10 DEF PanelIInv, AnswerExplain, Reply
<1>11. CASE AnswerBundle
  BY <1>11 DEF PanelIInv, AnswerBundle, Reply
<1>12. CASE UNCHANGED <<call, answer>>
  BY <1>12 DEF PanelIInv
<1> QED BY <1>1, <1>2, <1>3, <1>4, <1>5, <1>6, <1>7, <1>8, <1>9, <1>10, <1>11, <1>12,
           OtherPanelReplies DEF AnswerPanel

\* A call to a panel, by its operation, is one of the calls of that operation.
LEMMA PanelCallFacts ==
    ASSUME PanelIInv
    PROVE  /\ call.op = "analyse" => call \in FindingCalls
           /\ call.op = "tables" => call \in ListingCalls
           /\ call.op = "versions" => call \in HistoryCalls
           /\ call.op = "indices" => call \in IndexingCalls
           /\ call.op = "fragments" => call \in LayoutCalls
           /\ call.op = "rows" => call \in RowsCalls
           /\ call.op \in {"blob", "video"} => call \in CellCalls
           /\ call.op = "run_config" => call \in RunConfigCalls
           /\ call.op \in {"explain", "run_route", "compare_route"} => call \in ExplainCalls
           /\ call.op = "bundle" => call \in BundleCalls
<1>1. /\ call \in Calls
      /\ CheckOp \cap PanelOp = {} /\ LanguageOp \cap PanelOp = {} /\ QueryOp \cap PanelOp = {}
      /\ SourceOp \cap PanelOp = {} /\ MediaOp \cap PanelOp = {} /\ CommandOp \cap PanelOp = {}
  BY DEF PanelIInv, QueryOp, CheckOp, LanguageOp, PanelOp, SourceOp, MediaOp, CommandOp
<1>2. call.op \in PanelOp => call \in PanelCalls
  BY <1>1, CheckOps, LanguageOps, QueryOps, SourceOps, MediaOps, CommandOps DEF Calls
<1>3. /\ call \in FindingCalls => call.op = "analyse"
      /\ call \in ListingCalls => call.op = "tables"
      /\ call \in HistoryCalls => call.op = "versions"
      /\ call \in IndexingCalls => call.op = "indices"
      /\ call \in LayoutCalls => call.op = "fragments"
  BY DEF FindingCalls, ListingCalls, HistoryCalls, IndexingCalls, LayoutCalls
<1>4. /\ call \in RowsCalls => call.op = "rows"
      /\ call \in CellCalls => call.op \in {"blob", "video"}
      /\ call \in RunConfigCalls => call.op = "run_config"
      /\ call \in ExplainCalls => call.op \in {"explain", "run_route", "compare_route"}
      /\ call \in BundleCalls => call.op = "bundle"
  BY DEF RowsCalls, CellCalls, RunConfigCalls, ExplainCalls, BundleCalls
<1>5. call.op \in {"analyse", "tables", "versions", "indices", "fragments", "rows", "blob",
                   "video", "run_config", "explain", "run_route", "compare_route", "bundle"} =>
          call.op \in PanelOp
  BY DEF PanelOp
<1> QED BY <1>2, <1>3, <1>4, <1>5 DEF PanelCalls

--------------------------------------------------------------------------
(* A listing, figures, and the document. *)

LEMMA PanelListing == PanelIInv => EmptyMeansEmpty
<1> SUFFICES ASSUME PanelIInv, Answered("tables"), answer.note = "manifests", ~answer.failed,
                    NEW n \in DOMAIN call.opens
             PROVE  n \in answer.tables \cup answer.unreadable \/ call.opens[n] = "gone"
  BY DEF EmptyMeansEmpty
<1>1. call \in ListingCalls /\ answer = Tables(call.discover, call.failed, call.opens)
  BY PanelCallFacts DEF Answered, PanelIInv
<1>2. call.opens[n] \in {"opens", "gone", "broken"}
  <2> DEFINE P == UNION {[T -> {"opens", "gone", "broken"}] : T \in SUBSET {"a", "b", "c"}}
  <2>1. call.opens \in P
    <3> HIDE DEF P
    <3> QED BY <1>1 DEF ListingCalls, P
  <2> QED BY <2>1
<1>3. call.discover /\ ~call.failed
  BY <1>1 DEF Tables
<1> QED BY <1>1, <1>2, <1>3 DEF Tables

LEMMA PanelFigures == PanelIInv => FiguresHaveABasis
<1> SUFFICES ASSUME PanelIInv PROVE FiguresHaveABasis
  OBVIOUS
<1>1. ASSUME Answered("run_config"), ~IsRefused(answer)
      PROVE  /\ (answer.weight = Unknown) = (answer.basis = "unavailable")
             /\ answer.basis = "file-statistics" => answer.weight = <<call.weight[call.named]>>
             /\ answer.table = Unknown => answer.because
  <2>1. answer = RunConfig(call.named, call.unknown, call.footers, call.weight, call.walked, call.meta)
    BY <1>1 DEF Answered, PanelIInv
  <2>2. ~call.unknown
    BY <1>1, <2>1 DEF RunConfig, IsRefused, Refuse
  <2> DEFINE w == IF call.footers THEN <<call.weight[call.named]>>
                  ELSE IF call.walked THEN <<call.meta>> ELSE Unknown
             b == IF call.footers THEN "file-statistics" ELSE IF call.walked THEN "on-disk-walk"
                  ELSE "unavailable"
             t == IF call.walked THEN <<call.meta>> ELSE Unknown
             why == ~call.walked
  <2>3. answer = [weight |-> w, basis |-> b, table |-> t, because |-> why, columns |-> call.named]
    BY <2>1, <2>2 DEF RunConfig
  <2>4. /\ (w = Unknown) = (b = "unavailable") /\ (b = "file-statistics" => w = <<call.weight[call.named]>>)
        /\ (t = Unknown => why)
    BY DEF Unknown
  <2> HIDE DEF w, b, t, why
  <2> QED BY <2>3, <2>4
<1>2. ASSUME Answered("explain"), ~IsRefused(answer), call.mode = "scan"
      PROVE  {c \in answer.read : call.kinds[c] # "blob_v2"} \subseteq answer.weighed[1]
  <2>1. answer = Explain(call.kinds, call.columns, call.expand, call.mode)
    BY <1>2 DEF Answered, PanelIInv
  <2> DEFINE kinds == call.kinds
             columns == call.columns
             p == Projection(kinds, columns, call.expand)
             w == IF call.mode # "scan" THEN Unknown
                  ELSE <<IF columns # {} THEN columns
                         ELSE {c \in DOMAIN kinds : kinds[c] \notin {"blob_v1", "blob_v2"}}>>
  <2>2. answer = IF IsRefused(p) THEN Refuse(400)
                 ELSE [read |-> p.read, omitted |-> p.omitted, weighed |-> w]
    BY <2>1 DEF Explain
  <2>3. ~IsRefused(p)
    <3> HIDE DEF p, w
    <3> QED BY <1>2, <2>2 DEF IsRefused, Refuse
  <2>4. answer.read = p.read /\ answer.weighed = w
    <3> HIDE DEF p, w
    <3> QED BY <2>2, <2>3
  <2>5. \A c \in p.read : /\ columns # {} => c \in columns
                          /\ columns = {} => c \in DOMAIN kinds /\ kinds[c] # "blob_v1"
    <3> HIDE DEF kinds, columns
    <3> QED BY <2>3 DEF Projection, IsRefused, Refuse, Heavy
  <2>6. w[1] = IF columns # {} THEN columns
               ELSE {c \in DOMAIN kinds : kinds[c] \notin {"blob_v1", "blob_v2"}}
    BY <1>2
  <2> HIDE DEF p, w
  <2> QED BY <2>4, <2>5, <2>6
<1> QED BY <1>1, <1>2 DEF FiguresHaveABasis

LEMMA JoinedFacts ==
    ASSUME NEW f, NEW g
    PROVE  /\ DOMAIN Joined(f, g) = DOMAIN f \cup DOMAIN g
           /\ \A x \in DOMAIN f : Joined(f, g)[x] = f[x]
           /\ \A x \in DOMAIN g \ DOMAIN f : Joined(f, g)[x] = g[x]
BY DEF Joined

LEMMA SectionCount == IsFiniteSet(Section)
<1>1. IsFiniteSet({}) 
  BY FS_EmptySet
<1>2. IsFiniteSet({} \cup {"schema"} \cup {"versions"} \cup {"indices"})
  BY <1>1, FS_AddElement
<1>3. IsFiniteSet({} \cup {"schema"} \cup {"versions"} \cup {"indices"} \cup {"fragments"} \cup {"findings"})
  BY <1>2, FS_AddElement
<1>4. IsFiniteSet({} \cup {"schema"} \cup {"versions"} \cup {"indices"} \cup {"fragments"} \cup {"findings"}
                  \cup {"weights"} \cup {"data_scan"})
  BY <1>3, FS_AddElement
<1>5. Section = {} \cup {"schema"} \cup {"versions"} \cup {"indices"} \cup {"fragments"} \cup {"findings"}
                \cup {"weights"} \cup {"data_scan"}
  BY DEF Section
<1> QED BY <1>4, <1>5

LEMMA PanelBundles == PanelIInv => BundlesTravel
<1> SUFFICES ASSUME PanelIInv, Answered("bundle"), ~IsRefused(answer) PROVE BundlesTravel
  BY DEF BundlesTravel
<1> DEFINE collected == Collect(call.fails, call.how, call.read)
           document == Assemble(collected, call)
           text == Markdown(document)
           has == Section \ call.fails
           rooted(s) == IF s = "findings" THEN {} ELSE {"root"}
           kept == IF call.paths = "kept" THEN {"root"} ELSE {}
<1>1. call \in BundleCalls /\ answer = Bundle(call)
  BY PanelCallFacts DEF Answered, PanelIInv
<1>2. /\ call.fails \in SUBSET Section /\ call.saved \in SUBSET {"secret", "root"}
      /\ call.query \in {Unknown, <<2>>} /\ call.read = 1
  BY <1>1 DEF BundleCalls
<1>3. answer = Joined(document, [text |-> text])
  <2>1. Bundle(call) \in {Refuse(400), Refuse(404), Joined(document, [text |-> text])}
    <3> HIDE DEF document, text
    <3> QED BY DEF Bundle, document, text, collected
  <2>2. IsRefused(Refuse(400)) /\ IsRefused(Refuse(404))
    BY DEF IsRefused, Refuse
  <2> HIDE DEF document, text
  <2> QED BY <1>1, <2>1, <2>2
<1> DEFINE parts == [s \in Section \ call.fails |->
                        [holds |-> rooted(s), read |-> call.read,
                         footers |-> IF s = "weights" THEN 1 ELSE 0, under |-> "the_answer"]]
           missing == [s \in call.fails |-> IF call.how = "refused" THEN {} ELSE {"root"}]
<1>4. collected.sections = parts /\ collected.incomplete = missing
  <2>1. collected = [sections |-> parts, incomplete |-> missing]
    BY DEF Collect
  <2> HIDE DEF parts, missing, collected
  <2> QED BY <2>1
<1> HIDE DEF collected
<1> DEFINE a == [s \in DOMAIN collected.sections |-> Clean(collected.sections[s].holds, call.paths)]
           b == Clean({"root"}, call.paths)
           c == Clean(call.saved, call.paths)
           d == IF call.query = Unknown THEN {} ELSE Clean(StripRows({"rows", "root"}), call.paths)
           e == TotalCost(collected.sections, call.query)
<1>5. document = [sections |-> a, connection |-> b, saved |-> c, query |-> d,
                  incomplete |-> collected.incomplete, cost |-> e]
  BY DEF Assemble
<1> HIDE DEF a, b, c, d, e, document, text
<1>6. /\ answer.sections = a /\ answer.connection = b /\ answer.saved = c /\ answer.query = d
      /\ answer.incomplete = missing /\ answer.cost = e /\ answer.text = text
  <2>1. DOMAIN document = {"sections", "connection", "saved", "query", "incomplete", "cost"}
    BY <1>5
  <2>2. DOMAIN [text |-> text] = {"text"} /\ [text |-> text].text = text
    OBVIOUS
  <2> DEFINE g == [text |-> text]
  <2> HIDE DEF g
  <2>3. /\ \A x \in DOMAIN document : answer[x] = document[x]
        /\ \A x \in DOMAIN g \ DOMAIN document : answer[x] = g[x]
    BY <1>3, JoinedFacts DEF g
  <2> QED BY <1>4, <1>5, <2>1, <2>2, <2>3 DEF g
<1>7. /\ DOMAIN a = has /\ \A s \in has : a[s] \subseteq kept
      /\ b \subseteq kept /\ c \subseteq kept /\ d \subseteq kept
  <2>1. DOMAIN a = has
    BY <1>4 DEF a
  <2>2. \A s \in has : collected.sections[s].holds = rooted(s)
    BY <1>4
  <2>3. \A s \in has : a[s] = Clean(rooted(s), call.paths)
    BY <2>1, <2>2 DEF a
  <2>4. \A s \in has : a[s] \subseteq kept
    BY <2>3 DEF Clean
  <2>5. b \subseteq kept /\ c \subseteq kept
    BY <1>2 DEF b, c, Clean
  <2>6. d \subseteq kept
    BY DEF d, Clean, StripRows
  <2> QED BY <2>1, <2>4, <2>5, <2>6
<1>8. /\ has \cup DOMAIN missing = Section /\ has \cap DOMAIN missing = {}
      /\ text.named = Section \ has
      /\ has \subseteq text.headed \cup {"versions", "indices", "fragments"}
  <2>1. DOMAIN missing = call.fails
    OBVIOUS
  <2>2. document.sections = a /\ document.incomplete = missing
    BY <1>4, <1>5
  <2>3. text.named = DOMAIN missing
    BY <2>2 DEF text, Markdown
  <2>4. DOMAIN a \ {"versions", "indices", "fragments"} \subseteq text.headed
    BY <2>2 DEF text, Markdown
  <2> QED BY <1>2, <1>7, <2>1, <2>3, <2>4
<1>9. e.bytes = Cardinality(has) * call.read + Or(call.query, 0)
  <2> DEFINE w(s) == parts[s].read
             sum == SumOf(DOMAIN parts, w)
             own == Or(call.query, 0)
             off == SumOf({s \in DOMAIN parts : parts[s].under \in {"estimate", "read"}},
                          LAMBDA s : parts[s].footers)
  <2>1. e = [bytes |-> sum + own, off |-> off]
    BY <1>4 DEF e, TotalCost
  <2>2. DOMAIN parts = has /\ \A s \in has : w(s) = 1
    BY <1>2
  <2>3. IsFiniteSet(has)
    BY SectionCount, FS_Subset
  <2>4. Cardinality(has) \in Nat
    BY <2>3, FS_CardinalityType
  <2>5. SumOf(has, w) = Cardinality(has) * 1
    <3>1. SumOf(has, w) = SumFunction([x \in has |-> w(x)])
      BY DEF SumOf
    <3>2. SumFunction([x \in has |-> 1]) = 1 * Cardinality(has)
      <4> HIDE DEF has
      <4>1. 1 \in Nat
        OBVIOUS
      <4> QED BY ONLY <2>3, <4>1, SumConstant
    <3>3. [x \in has |-> w(x)] = [x \in has |-> 1]
      <4> HIDE DEF has, w
      <4> QED BY <2>2
    <3> HIDE DEF has, w
    <3> QED BY <2>4, <3>1, <3>2, <3>3
  <2>6. sum = Cardinality(has)
    BY <2>2, <2>4, <2>5
  <2> HIDE DEF sum, own, off
  <2>7. e.bytes = sum + own
    BY <2>1
  <2> QED BY <1>2, <2>4, <2>6, <2>7 DEF own
<1> HIDE DEF has, missing, kept
<1>10. (UNION {answer.sections[s] : s \in has}) \cup answer.query \cup answer.saved \cup answer.connection
           \subseteq kept
  BY <1>6, <1>7
<1> QED BY <1>6, <1>7, <1>8, <1>9, <1>10 DEF BundlesTravel, kept

\* What is read from one place to another, both in a sequence.
LEMMA ReadFacts ==
    ASSUME NEW value \in Seq(Nat), NEW from \in Nat, from < Len(value),
           NEW last \in Int, last <= Len(value)
    PROVE  LET data == SubSeq(value, from + 1, last)
           IN  /\ Len(data) = (IF from < last THEN last - from ELSE 0)
               /\ data = SubSeq(value, from + 1, from + Len(data))
               /\ data \in Seq(Nat)
<1> DEFINE data == SubSeq(value, from + 1, last)
<1>1. CASE from < last
  <2>1. Len(data) = last - from /\ data \in Seq(Nat)
    BY <1>1, SubSeqProperties
  <2>2. from + Len(data) = last
    <3> HIDE DEF data
    <3> QED BY <2>1
  <2> QED BY <1>1, <2>1, <2>2
<1>2. CASE last <= from
  <2>1. data = <<>>
    BY <1>2, SubSeqProperties
  <2>2. SubSeq(value, from + 1, from) = <<>>
    BY SubSeqProperties
  <2>3. <<>> \in Seq(Nat) /\ Len(<<>>) = 0
    OBVIOUS
  <2> HIDE DEF data
  <2> QED BY <1>2, <2>1, <2>2, <2>3 DEF data
<1> QED BY <1>1, <1>2

\* An answer of a value's bytes.
Plays(asked, value, from, data) ==
    /\ data = SubSeq(value, from + 1, from + Len(data))
    /\ from + Len(data) <= Len(value)
    /\ asked.to = Unknown =>
          /\ from = Or(asked.from, 0)
          /\ Len(data) \in 1..MaxChunk
          /\ from + Len(data) = Len(value) \/ Len(data) = MaxChunk
    /\ asked.from # Unknown /\ Or(asked.to, -1) >= from =>
          /\ Len(data) \in 1..MaxChunk
          /\ from + Len(data) <= asked.to[1] + 1

Ends == {Unknown} \cup {<<i>> : i \in Nat}

LEMMA EndFacts ==
    ASSUME NEW e \in Ends, NEW d
    PROVE  /\ e = Unknown => Or(e, d) = d
           /\ e # Unknown => e[1] \in Nat /\ Or(e, d) = e[1]
<1>1. CASE e = Unknown
  BY <1>1 DEF Or
<1>2. CASE e # Unknown
  <2>1. PICK i \in Nat : e = <<i>>
    BY <1>2 DEF Ends
  <2>2. e[1] = i
    BY <2>1
  <2> QED BY <1>2, <2>2 DEF Or
<1> QED BY <1>1, <1>2

LEMMA SpanPlays ==
    ASSUME NEW asked, asked.from \in Ends, asked.to \in Ends, NEW value \in Seq(Nat),
           ~IsRefused(Span(asked, Len(value)))
    PROVE  LET span == Span(asked, Len(value))
               n == span.to - span.from + 1
           IN  /\ n \in Int /\ Plays(asked, value, span.from, SubSeq(value, span.from + 1, span.to + 1))
               /\ n >= -1 => Plays(asked, value, span.from, BlobRead(value, span.from, n))
<1> DEFINE size == Len(value)
           from == Or(asked.from, 0)
           end == Or(asked.to, size - 1)
           to == Lesser(Lesser(end, size - 1), from + MaxChunk - 1)
           span == Span(asked, size)
           n == to - from + 1
<1>1. MaxChunk \in Nat /\ MaxChunk >= 1 /\ size \in Nat
  BY PanelsAssumption
<1>2. /\ from \in Nat
      /\ asked.from = Unknown => from = 0
      /\ asked.to = Unknown => end = size - 1
      /\ asked.to # Unknown => end = asked.to[1] /\ end \in Nat
      /\ asked.to # Unknown => Or(asked.to, -1) = asked.to[1]
      /\ asked.to = Unknown => Or(asked.to, -1) = -1
  <2> HIDE DEF size
  <2> QED BY EndFacts
<1>3. span = IF from >= size THEN Refuse(416) ELSE [from |-> from, to |-> to]
  BY DEF Span
<1> HIDE DEF from, end, size, span
<1>4. from < size /\ span.from = from /\ span.to = to
  <2> HIDE DEF to
  <2>1. IsRefused(Refuse(416))
    BY DEF IsRefused, Refuse
  <2>2. ~(from >= size)
    BY <1>3, <2>1 DEF span, size
  <2> QED BY <1>1, <1>2, <1>3, <2>2
<1>5. /\ to \in Int /\ to + 1 <= size /\ to + 1 <= from + MaxChunk
      /\ asked.to # Unknown => to <= asked.to[1]
      /\ asked.to = Unknown => to >= from /\ (to + 1 = size \/ to + 1 = from + MaxChunk)
      /\ asked.to # Unknown /\ asked.to[1] >= from => to >= from
  BY <1>1, <1>2, <1>4 DEF Lesser
<1> HIDE DEF to
<1>6. ASSUME NEW last \in Int, last <= size, last = to + 1 \/ n = -1
      PROVE  Plays(asked, value, from, SubSeq(value, from + 1, last))
  <2> DEFINE data == SubSeq(value, from + 1, last)
  <2>1. /\ Len(data) = (IF from < last THEN last - from ELSE 0)
        /\ data = SubSeq(value, from + 1, from + Len(data)) /\ data \in Seq(Nat)
    BY <1>2, <1>4, <1>6, ReadFacts DEF size
  <2> HIDE DEF data
  <2>2. from + Len(data) <= size
    BY <1>1, <1>2, <1>4, <1>6, <2>1
  <2>3. ASSUME asked.to = Unknown
        PROVE  Len(data) \in 1..MaxChunk /\ (from + Len(data) = size \/ Len(data) = MaxChunk)
    BY <1>1, <1>2, <1>4, <1>5, <1>6, <2>1, <2>3
  <2>4. ASSUME asked.from # Unknown, Or(asked.to, -1) >= from
        PROVE  Len(data) \in 1..MaxChunk /\ from + Len(data) <= asked.to[1] + 1
    BY <1>1, <1>2, <1>4, <1>5, <1>6, <2>1, <2>4
  <2> QED BY <2>1, <2>2, <2>3, <2>4 DEF Plays, size, from, data
<1>7. n \in Int /\ Plays(asked, value, from, SubSeq(value, from + 1, to + 1))
  BY <1>2, <1>5, <1>6
<1>8. ASSUME n >= -1 PROVE Plays(asked, value, from, BlobRead(value, from, n))
  <2>1. CASE n = -1
    BY <1>1, <1>6, <2>1 DEF BlobRead, size
  <2>2. CASE n # -1
    <3>1. from + n = to + 1
      BY <1>2, <1>5
    <3> HIDE DEF n
    <3>2. BlobRead(value, from, n) = SubSeq(value, from + 1, to + 1)
      BY <2>2, <3>1 DEF BlobRead
    <3> QED BY <1>7, <3>2
  <2> QED BY <2>1, <2>2
<1> QED BY <1>4, <1>7, <1>8 DEF span, size

LEMMA PanelCells == PanelIInv => CellsPlay
<1> SUFFICES ASSUME PanelIInv, Answered("blob") \/ Answered("video"), ~IsRefused(answer) PROVE CellsPlay
  BY DEF CellsPlay
<1> DEFINE asked == call.asked
           value == call.value
           span == Span(asked, Len(value))
           n == span.to - span.from + 1
<1>1. /\ call \in CellCalls
      /\ call.op = "blob" => answer = Cell(call)
      /\ call.op = "video" => answer = Video(call)
      /\ call.op \in {"blob", "video"}
  BY PanelCallFacts DEF Answered, PanelIInv
<1>2. asked.from \in Ends /\ asked.to \in Ends /\ value \in Seq(Nat)
  <2> DEFINE Value(k) == [i \in 1..k |-> i]
             Asked2 == [from : {Unknown} \cup {<<i>> : i \in 0..5}, to : {Unknown} \cup {<<i>> : i \in 0..6}]
             Whole == [from |-> Unknown, to |-> Unknown]
             Values == {Value(k) : k \in 0..6}
  <2>1. \A k \in 0..6 : Value(k) \in Seq(Nat)
    OBVIOUS
  <2>2. \A a \in Asked2 \cup {Whole} : a.from \in Ends /\ a.to \in Ends
    BY DEF Ends
  <2> HIDE DEF Value, Asked2, Whole
  <2>3. \A v \in Values : v \in Seq(Nat)
    BY <2>1
  <2>4. call.value \in Values \cup {Value(3)} /\ call.asked \in Asked2 \cup {Whole}
    BY <1>1 DEF CellCalls, Values, Value, Asked2, Whole
  <2> QED BY <2>1, <2>2, <2>3, <2>4
<1>3. ~IsRefused(span) => /\ n \in Int /\ Plays(asked, value, span.from, SubSeq(value, span.from + 1, span.to + 1))
                          /\ n >= -1 => Plays(asked, value, span.from, BlobRead(value, span.from, n))
  <2> HIDE DEF asked, value
  <2> QED BY ONLY <1>2, SpanPlays
<1>4. IsRefused(Refuse(404)) /\ IsRefused(Refuse(500)) /\ \A w : IsRefused(Refuse(w))
  BY DEF IsRefused, Refuse
<1> HIDE DEF span, asked, value
<1>5. ASSUME call.op = "blob"
      PROVE  answer.size = Len(value) /\ Plays(asked, value, answer.from, answer.data)
  <2> DEFINE columns == Streamable(call.kinds)
             refused == CellRefused(call, columns)
             picked == Or(call.column, Head(columns))
             read == CellRead(call, picked)
             type == MimeFor(call, read.data)
             status == IF call.ranged THEN 206 ELSE 200
  <2>1. answer = IF refused > 0 THEN Refuse(refused)
                 ELSE IF IsRefused(read) THEN read
                 ELSE [from |-> read.from, data |-> read.data, type |-> type, status |-> status,
                       size |-> Len(value)]
    BY <1>1, <1>5 DEF Cell, value
  <2> DEFINE given == SubSeq(value, span.from + 1, span.to + 1)
             blob == BlobRead(value, span.from, n)
             inline == call.kinds[picked] = "binary"
  <2>2. \/ IsRefused(read)
        \/ ~IsRefused(span) /\ read = [from |-> span.from, data |-> given]
        \/ ~IsRefused(span) /\ ~(n < -1) /\ read = [from |-> span.from, data |-> blob]
    <3> HIDE DEF picked
    <3>1. read = IF ~inline /\ call.by = "missing_row" THEN Refuse(500)
                 ELSE IF call.by = "missing_row" \/ (inline /\ call.empty) THEN Refuse(404)
                 ELSE IF IsRefused(span) THEN span
                 ELSE IF inline THEN [from |-> span.from, data |-> given]
                 ELSE IF n < -1 THEN Refuse(500)
                 ELSE [from |-> span.from, data |-> blob]
      BY DEF CellRead, span, asked, value
    <3> HIDE DEF read, given, blob, inline, n
    <3> QED BY <1>4, <3>1
  <2> HIDE DEF refused, read, type, status, given, blob, n
  <2>3. /\ ~IsRefused(read) /\ answer.from = read.from /\ answer.data = read.data
        /\ answer.size = Len(value)
    BY <1>4, <2>1
  <2>4. ASSUME NEW d, read = [from |-> span.from, data |-> d]
        PROVE  answer.from = span.from /\ answer.data = d
    BY <2>3, <2>4
  <2>5. CASE ~IsRefused(span) /\ read = [from |-> span.from, data |-> given]
    BY <1>3, <2>3, <2>4, <2>5 DEF given
  <2>6. CASE ~IsRefused(span) /\ ~(n < -1) /\ read = [from |-> span.from, data |-> blob]
    <3>1. answer.from = span.from /\ answer.data = blob
      BY <2>4, <2>6
    <3>2. n >= -1
      BY <1>3, <2>6
    <3>3. Plays(asked, value, span.from, blob)
      BY <1>3, <2>6, <3>2 DEF blob
    <3> QED BY <2>3, <3>1, <3>3
  <2> QED BY <2>2, <2>3, <2>5, <2>6
<1>6. ASSUME call.op = "video"
      PROVE  answer.size = Len(value) /\ Plays(asked, value, answer.from, answer.data)
  <2> DEFINE blob == BlobRead(value, span.from, n)
             status == IF call.ranged THEN 206 ELSE 200
  <2>1. answer = IF call.by = "missing_key" THEN Refuse(404)
                 ELSE IF IsRefused(span) THEN span
                 ELSE IF n < -1 THEN Refuse(500)
                 ELSE [from |-> span.from, data |-> blob, type |-> "declared", status |-> status,
                       size |-> Len(value)]
    BY <1>1, <1>6 DEF Video, value, asked, span
  <2> HIDE DEF blob, status, n
  <2>2. ~IsRefused(span) /\ ~(n < -1)
    BY <1>4, <2>1
  <2>3. answer.from = span.from /\ answer.data = blob /\ answer.size = Len(value)
    BY <1>4, <2>1
  <2> QED BY <1>3, <2>2, <2>3 DEF blob
<1>7. answer.size = Len(value) /\ Plays(asked, value, answer.from, answer.data)
  BY <1>1, <1>5, <1>6
<1> QED BY <1>7 DEF CellsPlay, Plays, asked, value

\* The operation of a version is one of a transaction that read the version before it.
LEMMA OperationFacts ==
    ASSUME NEW D, NEW txs \in Seq([did : D, made : Nat, read : Nat]), NEW version
    PROVE  \/ Operation(txs, version) = Unknown
           \/ \E i \in DOMAIN txs : txs[i].read + 1 = version /\ Operation(txs, version) = <<txs[i].did>>
<1> DEFINE of == {i \in DOMAIN txs : txs[i].read + 1 = version}
           last == CHOOSE i \in of : \A j \in of : j <= i
<1>1. Operation(txs, version) = IF of = {} THEN Unknown ELSE <<txs[last].did>>
  BY DEF Operation
<1>2. CASE of # {}
  <2>1. of \in SUBSET Nat /\ Len(txs) \in Nat /\ \A i \in of : i <= Len(txs)
    OBVIOUS
  <2> DEFINE l == Len(txs)
  <2> HIDE DEF of, l
  <2>2. \E i \in of : \A j \in of : j <= i
    <3>1. 1 \in Int /\ l \in Int
      BY <2>1 DEF l
    <3>2. of \subseteq 1..l
      BY <2>1 DEF of, l
    <3>3. IsFiniteSet(of)
      BY ONLY <3>1, <3>2, FS_Interval, FS_Subset
    <3> QED BY ONLY <1>2, <2>1, <3>3, Greatest
  <2>3. last \in of
    BY <2>2
  <2> HIDE DEF last
  <2> QED BY <1>1, <1>2, <2>3 DEF of
<1>3. CASE of = {}
  <2> HIDE DEF of, last
  <2> QED BY <1>1, <1>3
<1> QED BY <1>2, <1>3

LEMMA PanelHistories == PanelIInv => HistoriesAddUp
<1> SUFFICES ASSUME PanelIInv, Answered("versions") PROVE HistoriesAddUp
  BY DEF HistoriesAddUp
<1> DEFINE w == call.versions
           n == Len(w)
           v == answer.versions
           entry(i) == [version |-> w[i].version, rows |-> w[i].rows,
                        operation |-> Operation(call.txs, w[i].version),
                        diff |-> IF i = 1 THEN Unknown ELSE <<w[i].rows - w[i - 1].rows>>]
           Tx == [did : {"append", "index"}, made : 1..4, read : 0..3]
<1>1. call \in HistoryCalls /\ answer = History(w, call.txs)
  BY PanelCallFacts DEF Answered, PanelIInv
<1>2. /\ n \in 1..3 /\ DOMAIN w = 1..n /\ \A i \in 1..n : w[i].rows \in Nat
      /\ call.txs \in Seq([did : {"append", "index"}, made : Nat, read : Nat])
  <2> DEFINE Versions(k) == {u \in [1..k -> [version : 1..4, rows : 0..2]] :
                                \A i \in 1..k - 1 : u[i].version < u[i + 1].version}
             Vs == UNION {Versions(k) : k \in 1..3}
             Ts == {t \in UNION {[1..k -> Tx] : k \in 0..2} :
                       /\ \A i \in DOMAIN t : t[i].read < t[i].made
                       /\ \A i, j \in DOMAIN t : i < j => t[i].made > t[j].made}
  <2>1. call.versions \in Vs /\ call.txs \in Ts
    <3> HIDE DEF Vs, Ts
    <3> QED BY <1>1 DEF HistoryCalls, Vs, Ts
  <2>2. PICK k \in 1..3 : call.versions \in [1..k -> [version : 1..4, rows : 0..2]]
    BY <2>1
  <2>3. PICK l \in 0..2 : call.txs \in [1..l -> Tx]
    BY <2>1
  <2>4. n = k /\ DOMAIN w = 1..k /\ \A i \in 1..k : w[i].rows \in Nat
    BY <2>2
  <2>5. \A t \in Tx : t \in [did : {"append", "index"}, made : Nat, read : Nat]
    OBVIOUS
  <2> DEFINE Tx0 == [did : {"append", "index"}, made : Nat, read : Nat]
  <2> HIDE DEF Tx, Tx0
  <2>6. call.txs \in Seq(Tx0)
    <3>1. call.txs \in [1..l -> Tx0] /\ l \in Nat
      BY <2>3, <2>5 DEF Tx0
    <3> QED BY ONLY <3>1
  <2> QED BY <2>4, <2>6 DEF Tx0
<1> HIDE DEF n, w
<1>3. /\ Len(v) = n /\ DOMAIN v = 1..n
      /\ \A i \in 1..n : v[i] = entry(n - i + 1)
  <2> DEFINE s == [i \in DOMAIN w |-> entry(i)]
  <2>1. answer = [versions |-> Reverse(s)]
    BY <1>1 DEF History
  <2>2. Len(s) = n /\ \A i \in 1..n : s[i] = entry(i)
    BY <1>2
  <2> HIDE DEF s, entry
  <2>3. v = Reverse(s)
    BY <2>1
  <2>4. v = [i \in 1..n |-> s[(n - i) + 1]]
    BY <2>2, <2>3 DEF Reverse
  <2>5. \A i \in 1..n : (n - i) + 1 \in 1..n
    BY <1>2
  <2> QED BY <1>2, <2>2, <2>4, <2>5
<1> HIDE DEF v
<1> DEFINE r == [i \in 1..n |-> w[n - i + 1].rows]
<1>4. \A i \in 1..n : /\ v[i].rows = r[i] /\ r[i] \in Nat
                      /\ v[i].operation = Operation(call.txs, v[i].version)
                      /\ (v[i].diff # Unknown) <=> i < n
                      /\ i < n => v[i].diff[1] = r[i] - r[i + 1]
  <2> SUFFICES ASSUME NEW i \in 1..n
               PROVE  /\ v[i].rows = r[i] /\ r[i] \in Nat
                      /\ v[i].operation = Operation(call.txs, v[i].version)
                      /\ (v[i].diff # Unknown) <=> i < n
                      /\ i < n => v[i].diff[1] = r[i] - r[i + 1]
    OBVIOUS
  <2> DEFINE k == n - i + 1
  <2>1. k \in 1..n /\ (k = 1 <=> i = n) /\ (i < n => i + 1 \in 1..n /\ n - (i + 1) + 1 = k - 1)
    BY <1>2
  <2>2. r[i] = w[k].rows /\ (i < n => r[i + 1] = w[k - 1].rows)
    BY <2>1
  <2> DEFINE d == IF k = 1 THEN Unknown ELSE <<w[k].rows - w[k - 1].rows>>
             o == Operation(call.txs, w[k].version)
  <2>3. v[i] = [version |-> w[k].version, rows |-> w[k].rows, operation |-> o, diff |-> d]
    BY <1>3
  <2>4. (d # Unknown <=> i < n) /\ (i < n => d[1] = r[i] - r[i + 1])
    BY <1>2, <2>1, <2>2 DEF Unknown
  <2> HIDE DEF d, k, r
  <2>5. v[i].version = w[k].version /\ v[i].rows = w[k].rows /\ v[i].operation = o /\ v[i].diff = d
    BY <2>3
  <2> QED BY <1>2, <2>1, <2>2, <2>4, <2>5
<1>5. ASSUME NEW i \in 1..n
      PROVE  v[i].rows = v[n].rows + SumOf({j \in i..n : v[j].diff # Unknown}, LAMBDA j : v[j].diff[1])
  <2> DEFINE T == i..n - 1
             u == [j \in T |-> v[j].diff[1]]
  <2>1. {j \in i..n : v[j].diff # Unknown} = T
    <3>1. \A j \in i..n : j \in 1..n /\ (v[j].diff # Unknown <=> j < n)
      <4>1. \A j \in i..n : j \in 1..n
        BY <1>2
      <4> HIDE DEF r
      <4> QED BY <1>4, <4>1
    <3>2. \A j \in i..n : j < n <=> j \in T
      BY <1>2
    <3>3. T \subseteq i..n
      BY <1>2
    <3> HIDE DEF T
    <3> QED BY <3>1, <3>2, <3>3
  <2>2. SumOf({j \in i..n : v[j].diff # Unknown}, LAMBDA j : v[j].diff[1]) = SumFunction(u)
    <3> HIDE DEF T
    <3> QED BY <2>1 DEF SumOf, T
  <2>3. \A j \in T : j \in 1..n /\ j < n /\ j + 1 \in 1..n
    BY <1>2
  <2>4. \A j \in T : u[j] = r[j] - r[j + 1] /\ r[j] - r[j + 1] \in Int
    <3> SUFFICES ASSUME NEW j \in T PROVE u[j] = r[j] - r[j + 1] /\ r[j] - r[j + 1] \in Int
      OBVIOUS
    <3>1. u[j] = v[j].diff[1] /\ v[j].diff[1] = r[j] - r[j + 1] /\ r[j] \in Nat /\ r[j + 1] \in Nat
      BY <1>4, <2>3
    <3> HIDE DEF u, r, T
    <3> QED BY <3>1
  <2>5. DOMAIN u = T /\ u = [j \in T |-> u[j]] /\ DOMAIN r = 1..n /\ r = [j \in 1..n |-> r[j]]
    OBVIOUS
  <2> HIDE DEF u, r, T
  <2>6. u \in [T -> Int] /\ r \in [1..n -> Nat] /\ n \in Nat
    <3>1. \A j \in T : u[j] \in Int
      BY <2>4
    <3>2. \A j \in 1..n : r[j] \in Nat
      BY <1>4
    <3> QED BY <1>2, <2>5, <3>1, <3>2
  <2>7. StepsOf(n, r, i, u)
    BY <2>4, <2>6 DEF StepsOf, T
  <2>8. r[i] = r[n] + SumFunction(u)
    BY ONLY <2>7, Telescope
  <2>9. v[i].rows = r[i] /\ v[n].rows = r[n]
    BY <1>2, <1>4
  <2> QED BY <2>2, <2>8, <2>9
<1>6. ASSUME NEW i \in 1..n, \A t \in ToSet(call.txs) : t.made = t.read + 1
      PROVE  v[i].operation = Unknown \/ \E t \in ToSet(call.txs) :
                 t.made = v[i].version /\ v[i].operation = <<t.did>>
  <2>1. v[i].operation = Operation(call.txs, v[i].version)
    BY <1>4
  <2> DEFINE version == v[i].version
  <2>2. \/ Operation(call.txs, version) = Unknown
        \/ \E k \in DOMAIN call.txs : call.txs[k].read + 1 = version
                                      /\ Operation(call.txs, version) = <<call.txs[k].did>>
    BY ONLY <1>2, OperationFacts
  <2>3. \A k \in DOMAIN call.txs : call.txs[k] \in ToSet(call.txs)
    BY DEF ToSet
  <2> QED BY <1>6, <2>1, <2>2, <2>3
<1> HIDE DEF r
<1> QED BY <1>3, <1>5, <1>6 DEF HistoriesAddUp, v

LEMMA PanelIndices == PanelIInv /\ Answered("indices") =>
    /\ \A i \in call.indices : i.columns \cap answer.unindexed = {}
    /\ answer.searches \subseteq answer.indexable
    /\ \A x \in answer.coverage :
          x.share # Unknown => x.share[1] \in 0..x.share[2] /\ x.share[2] > 0
<1> SUFFICES ASSUME PanelIInv, Answered("indices")
             PROVE  /\ \A i \in call.indices : i.columns \cap answer.unindexed = {}
                    /\ answer.searches \subseteq answer.indexable
                    /\ \A x \in answer.coverage :
                          x.share # Unknown => x.share[1] \in 0..x.share[2] /\ x.share[2] > 0
  OBVIOUS
<1> DEFINE indices == call.indices
           kinds == call.kinds
           Covered(i) == IF i.counted /\ i.indexed + i.unindexed > 0
                         THEN <<i.indexed, i.indexed + i.unindexed>> ELSE Unknown
           bare == DOMAIN kinds \ UNION {i.columns : i \in indices}
           coverage == {[on |-> i.columns, share |-> Covered(i)] : i \in indices}
           indexable == {c \in bare : ~(kinds[c] \in {"blob_v1", "blob_v2"})}
           searches == {c \in bare : kinds[c] = "vector"}
<1>1. call \in IndexingCalls /\ answer = Indexing(indices, kinds)
  BY PanelCallFacts DEF Answered, PanelIInv
<1>2. \A i \in indices : i.indexed \in Nat /\ i.unindexed \in Nat
  <2> DEFINE OfIndex == [columns : (SUBSET {"a", "b"}) \ {{}}, counted : BOOLEAN, indexed : 0..1,
                        unindexed : 0..1]
  <2>1. indices \in {{}} \cup {{i} : i \in OfIndex}
    <3> HIDE DEF OfIndex
    <3> QED BY <1>1 DEF IndexingCalls, OfIndex
  <2> QED BY <2>1
<1>3. answer = [coverage |-> coverage, unindexed |-> bare, indexable |-> indexable, searches |-> searches]
  BY <1>1 DEF Indexing
<1>4. /\ \A i \in indices : i.columns \cap bare = {}
      /\ searches \subseteq indexable
  OBVIOUS
<1>5. \A x \in coverage : x.share # Unknown => x.share[1] \in 0..x.share[2] /\ x.share[2] > 0
  <2> SUFFICES ASSUME NEW i \in indices, Covered(i) # Unknown
               PROVE  Covered(i)[1] \in 0..Covered(i)[2] /\ Covered(i)[2] > 0
    OBVIOUS
  <2>1. Covered(i) = <<i.indexed, i.indexed + i.unindexed>> /\ i.indexed + i.unindexed > 0
    OBVIOUS
  <2>2. Covered(i)[1] = i.indexed /\ Covered(i)[2] = i.indexed + i.unindexed
    BY <2>1
  <2> QED BY <1>2, <2>1, <2>2
<1> HIDE DEF coverage, bare, indexable, searches
<1>6. /\ answer.coverage = coverage /\ answer.unindexed = bare /\ answer.indexable = indexable
      /\ answer.searches = searches
  BY <1>3
<1> QED BY <1>4, <1>5, <1>6

\* The files of the fragments that are asked of: which stems each has.
LEMMA FragmentFacts ==
    ASSUME NEW F \in TwoFragments
    PROVE  \E x, y, z : /\ x.stem = "p" /\ y.stem = "q" /\ z.stem = "r"
                        /\ x.size \in Nat /\ y.size \in Nat /\ z.size \in Nat
                        /\ F \in {<<{x}, {z}>>, <<{x, y}, {z}>>}
<1> DEFINE Files(stems) == {{[stem |-> s, size |-> z[s]] : s \in stems} : z \in [stems -> 1..2]}
<1>1. PICK f \in Files({"p"}) \cup Files({"p", "q"}), g \in Files({"r"}) : F = <<f, g>>
  BY DEF TwoFragments
<1>2. \E z : z.stem = "r" /\ z.size \in Nat /\ g = {z}
  <2>1. PICK a \in [{"r"} -> 1..2] : g = {[stem |-> s, size |-> a[s]] : s \in {"r"}}
    BY <1>1
  <2> DEFINE z == [stem |-> "r", size |-> a["r"]]
  <2>2. z.stem = "r" /\ z.size \in Nat
    OBVIOUS
  <2>3. g = {z}
    BY <2>1
  <2> HIDE DEF z
  <2> QED BY <2>2, <2>3
<1>3. \E x, y : /\ x.stem = "p" /\ y.stem = "q" /\ x.size \in Nat /\ y.size \in Nat
                /\ f \in {{x}, {x, y}}
  <2>1. CASE f \in Files({"p"})
    <3>1. PICK a \in [{"p"} -> 1..2] : f = {[stem |-> s, size |-> a[s]] : s \in {"p"}}
      BY <2>1
    <3> DEFINE x == [stem |-> "p", size |-> a["p"]]
               y == [stem |-> "q", size |-> 0]
    <3>2. x.stem = "p" /\ x.size \in Nat /\ y.stem = "q" /\ y.size \in Nat
      OBVIOUS
    <3>3. f = {x}
      BY <3>1
    <3> HIDE DEF x, y
    <3> QED BY <3>2, <3>3
  <2>2. CASE f \in Files({"p", "q"})
    <3>1. PICK a \in [{"p", "q"} -> 1..2] : f = {[stem |-> s, size |-> a[s]] : s \in {"p", "q"}}
      BY <2>2
    <3> DEFINE x == [stem |-> "p", size |-> a["p"]]
               y == [stem |-> "q", size |-> a["q"]]
    <3>2. x.stem = "p" /\ x.size \in Nat /\ y.stem = "q" /\ y.size \in Nat
      OBVIOUS
    <3>3. f = {x, y}
      BY <3>1
    <3> HIDE DEF x, y
    <3> QED BY <3>2, <3>3
  <2> QED BY <1>1, <2>1, <2>2
<1> QED BY <1>1, <1>2, <1>3

\* What is weighed of a table, and what its directory holds.
LEMMA LayoutFacts ==
    ASSUME NEW F \in TwoFragments, NEW side \in SideFiles
    PROVE  LET data(i) == SumOf(F[i], LAMBDA f : f.size)
               blobs(i) == SumOf(F[i], LAMBDA f : Side(side, TRUE, f.stem))
               owned == UNION {{f.stem : f \in F[i]} : i \in DOMAIN F}
               left == IF "left_over" \in DOMAIN side THEN side["left_over"] ELSE 0
           IN  /\ SumOf(DOMAIN F, LAMBDA i : data(i) + blobs(i)) + left
                      + SumOf((DOMAIN side \ owned) \ {"left_over"}, LAMBDA s : side[s])
                    = SumOf(DOMAIN F, LAMBDA i : data(i)) + SumOf(DOMAIN side, LAMBDA s : side[s])
               /\ SumOf(DOMAIN F, LAMBDA i : data(i) + blobs(i)) \in Nat /\ left \in Nat
               /\ SumOf((DOMAIN side \ owned) \ {"left_over"}, LAMBDA s : side[s]) \in Nat
               /\ SumOf(DOMAIN F, LAMBDA i : data(i)) \in Nat
               /\ SumOf(DOMAIN side, LAMBDA s : side[s]) \in Nat
<1> DEFINE data(i) == SumOf(F[i], LAMBDA f : f.size)
           blobs(i) == SumOf(F[i], LAMBDA f : Side(side, TRUE, f.stem))
           owned == UNION {{f.stem : f \in F[i]} : i \in DOMAIN F}
           left == IF "left_over" \in DOMAIN side THEN side["left_over"] ELSE 0
           S == DOMAIN side
           val(s) == IF s \in S THEN side[s] ELSE 0
           rest == (S \ owned) \ {"left_over"}
<1>1. side \in [S -> Nat] /\ IsFiniteSet(S)
  <2>1. PICK T \in SUBSET {"p", "q", "r", "left_over"} : side \in [T -> {3, 9}]
    BY DEF SideFiles
  <2>2. IsFiniteSet({} \cup {"p"} \cup {"q"} \cup {"r"} \cup {"left_over"})
    <3>1. IsFiniteSet({} \cup {"p"} \cup {"q"})
      BY FS_EmptySet, FS_AddElement
    <3>2. IsFiniteSet({} \cup {"p"} \cup {"q"} \cup {"r"})
      BY <3>1, FS_AddElement
    <3> QED BY <3>2, FS_AddElement
  <2>3. T \subseteq {} \cup {"p"} \cup {"q"} \cup {"r"} \cup {"left_over"}
    BY <2>1
  <2>4. IsFiniteSet(T)
    BY ONLY <2>2, <2>3, FS_Subset
  <2> QED BY <2>1, <2>4
<1>2. \A s : Side(side, TRUE, s) = val(s) /\ val(s) \in Nat
  BY <1>1 DEF Side
<1> HIDE DEF val
<1>3. PICK x, y, z : /\ x.stem = "p" /\ y.stem = "q" /\ z.stem = "r"
                     /\ x.size \in Nat /\ y.size \in Nat /\ z.size \in Nat
                     /\ F \in {<<{x}, {z}>>, <<{x, y}, {z}>>}
  BY FragmentFacts
<1>4. ASSUME NEW w, NEW G, G = {w}, w.size \in Nat
      PROVE  SumOf(G, LAMBDA f : f.size) = w.size /\ SumOf(G, LAMBDA f : Side(side, TRUE, f.stem)) = val(w.stem)
  <2> DEFINE u == [f \in {w} |-> f.size]
             v == [f \in {w} |-> Side(side, TRUE, f.stem)]
  <2>1. u \in [{w} -> Nat] /\ v \in [{w} -> Nat] /\ u[w] = w.size /\ v[w] = val(w.stem)
    BY <1>2, <1>4
  <2>2. SumOf(G, LAMBDA f : f.size) = SumFunction(u)
        /\ SumOf(G, LAMBDA f : Side(side, TRUE, f.stem)) = SumFunction(v)
    BY <1>4 DEF SumOf
  <2> HIDE DEF u, v
  <2>3. SumFunction(u) = u[w] /\ SumFunction(v) = v[w]
    BY ONLY <2>1, SumOne
  <2> QED BY <2>1, <2>2, <2>3
<1>5. ASSUME NEW G, G = {x, y}
      PROVE  /\ SumOf(G, LAMBDA f : f.size) = x.size + y.size
             /\ SumOf(G, LAMBDA f : Side(side, TRUE, f.stem)) = val("p") + val("q")
  <2> DEFINE u == [f \in {x, y} |-> f.size]
             v == [f \in {x, y} |-> Side(side, TRUE, f.stem)]
  <2>1. /\ u \in [{x, y} -> Nat] /\ v \in [{x, y} -> Nat] /\ u[x] = x.size /\ v[x] = val("p")
        /\ u[y] = y.size /\ v[y] = val("q") /\ x # y
    BY <1>2, <1>3
  <2>2. SumOf(G, LAMBDA f : f.size) = SumFunction(u)
        /\ SumOf(G, LAMBDA f : Side(side, TRUE, f.stem)) = SumFunction(v)
    BY <1>5 DEF SumOf
  <2> HIDE DEF u, v
  <2>3. SumFunction(u) = u[x] + u[y] /\ SumFunction(v) = v[x] + v[y]
    BY ONLY <2>1, SumTwo
  <2> QED BY <2>1, <2>2, <2>3
<1> DEFINE two == F = <<{x, y}, {z}>>
<1>6. /\ DOMAIN F = {1, 2}
      /\ data(2) = z.size /\ blobs(2) = val("r")
      /\ ~two => data(1) = x.size /\ blobs(1) = val("p") /\ owned = {"p", "r"}
      /\ two => data(1) = x.size + y.size /\ blobs(1) = val("p") + val("q") /\ owned = {"p", "q", "r"}
  <2>1. CASE two
    <3>1. DOMAIN F = {1, 2} /\ F[1] = {x, y} /\ F[2] = {z}
      BY <2>1
    <3>2. owned = {"p", "q", "r"}
      BY <1>3, <3>1
    <3>3. data(2) = z.size /\ blobs(2) = val("r")
      BY <1>3, <1>4, <3>1
    <3>4. data(1) = x.size + y.size /\ blobs(1) = val("p") + val("q")
      BY <1>5, <3>1
    <3> QED BY <2>1, <3>1, <3>2, <3>3, <3>4
  <2>2. CASE ~two
    <3>1. DOMAIN F = {1, 2} /\ F[1] = {x} /\ F[2] = {z}
      BY <1>3, <2>2
    <3>2. owned = {"p", "r"}
      BY <1>3, <3>1
    <3>3. data(2) = z.size /\ blobs(2) = val("r") /\ data(1) = x.size /\ blobs(1) = val("p")
      BY <1>3, <1>4, <3>1
    <3> QED BY <2>2, <3>1, <3>2, <3>3
  <2> QED BY <2>1, <2>2
<1> HIDE DEF data, blobs, owned, two
<1>7. /\ data(1) \in Nat /\ data(2) \in Nat /\ blobs(1) \in Nat /\ blobs(2) \in Nat
      /\ val("p") \in Nat /\ val("q") \in Nat /\ val("r") \in Nat /\ left = val("left_over") /\ left \in Nat
  <2>1. left = val("left_over")
    BY DEF val
  <2> HIDE DEF left
  <2> QED BY <1>2, <1>3, <1>6, <2>1
<1>8. /\ SumOf(DOMAIN F, LAMBDA i : data(i) + blobs(i)) = data(1) + blobs(1) + (data(2) + blobs(2))
      /\ SumOf(DOMAIN F, LAMBDA i : data(i)) = data(1) + data(2)
  <2> DEFINE u == [i \in {1, 2} |-> data(i) + blobs(i)]
             v == [i \in {1, 2} |-> data(i)]
  <2>1. /\ u \in [{1, 2} -> Nat] /\ v \in [{1, 2} -> Nat] /\ 1 # 2
        /\ u[1] = data(1) + blobs(1) /\ u[2] = data(2) + blobs(2)
        /\ v[1] = data(1) /\ v[2] = data(2)
    BY <1>7
  <2>2. SumOf(DOMAIN F, LAMBDA i : data(i) + blobs(i)) = SumFunction(u)
        /\ SumOf(DOMAIN F, LAMBDA i : data(i)) = SumFunction(v)
    BY <1>6 DEF SumOf
  <2> HIDE DEF u, v
  <2>3. SumFunction(u) = u[1] + u[2] /\ SumFunction(v) = v[1] + v[2]
    BY ONLY <2>1, SumTwo
  <2> QED BY <2>1, <2>2, <2>3
<1>9. /\ SumOf(S, LAMBDA s : side[s]) = PartSum(side, S)
      /\ SumOf(rest, LAMBDA s : side[s]) = PartSum(side, rest)
  <2> HIDE DEF S, rest
  <2> QED BY DEF SumOf, PartSum
<1>10. ASSUME NEW U \in SUBSET S, NEW s, s \in S => s \in U
       PROVE  PartSum(side, U) = val(s) + PartSum(side, U \ {s}) /\ PartSum(side, U \ {s}) \in Nat
  <2>1. PartSum(side, U) = (IF s \in U THEN side[s] ELSE 0) + PartSum(side, U \ {s})
        /\ PartSum(side, U \ {s}) \in Nat
    <3>1. IsFiniteSet(S) /\ side \in [S -> Nat] /\ U \in SUBSET S
      BY <1>1, <1>10
    <3> HIDE DEF S
    <3> QED BY ONLY <3>1, TakeOut
  <2>2. (IF s \in U THEN side[s] ELSE 0) = val(s)
    BY <1>10 DEF val
  <2> QED BY <2>1, <2>2
<1> DEFINE A == S \ {"p"}
           B == A \ {"r"}
           C == B \ {"q"}
<1>11. /\ PartSum(side, S) = val("p") + PartSum(side, A)
       /\ PartSum(side, A) = val("r") + PartSum(side, B)
       /\ PartSum(side, B) = val("q") + PartSum(side, C)
       /\ PartSum(side, B) = val("left_over") + PartSum(side, B \ {"left_over"})
       /\ PartSum(side, C) = val("left_over") + PartSum(side, C \ {"left_over"})
       /\ PartSum(side, B \ {"left_over"}) \in Nat /\ PartSum(side, C \ {"left_over"}) \in Nat
  <2>1. /\ S \in SUBSET S /\ A \in SUBSET S /\ B \in SUBSET S /\ C \in SUBSET S
        /\ "r" \in S => "r" \in A
        /\ "q" \in S => "q" \in B
        /\ "left_over" \in S => "left_over" \in B /\ "left_over" \in C
    OBVIOUS
  <2>2. PartSum(side, S) = val("p") + PartSum(side, S \ {"p"})
    BY <1>10
  <2> HIDE DEF A, S
  <2>3. PartSum(side, A) = val("r") + PartSum(side, A \ {"r"})
    BY <1>10, <2>1
  <2> HIDE DEF B
  <2>4. PartSum(side, B) = val("q") + PartSum(side, B \ {"q"})
        /\ PartSum(side, B) = val("left_over") + PartSum(side, B \ {"left_over"})
        /\ PartSum(side, B \ {"left_over"}) \in Nat
    BY <1>10, <2>1
  <2> HIDE DEF C
  <2>5. PartSum(side, C) = val("left_over") + PartSum(side, C \ {"left_over"})
        /\ PartSum(side, C \ {"left_over"}) \in Nat
    BY <1>10, <2>1
  <2> QED BY <2>2, <2>3, <2>4, <2>5 DEF A, B, C
<1>12. /\ ~two => rest = B \ {"left_over"}
       /\ two => rest = C \ {"left_over"}
  BY <1>6
<1> DEFINE total == SumOf(DOMAIN F, LAMBDA i : data(i) + blobs(i))
           files == SumOf(DOMAIN F, LAMBDA i : data(i))
           all == SumOf(S, LAMBDA s : side[s])
           others == SumOf(rest, LAMBDA s : side[s])
<1>13. /\ total + left + others = files + all
       /\ total \in Nat /\ left \in Nat /\ others \in Nat /\ files \in Nat /\ all \in Nat
  <2> HIDE DEF left, S, rest, A, B, C, total, files, all, others
  <2>1. /\ total = data(1) + blobs(1) + (data(2) + blobs(2)) /\ files = data(1) + data(2)
        /\ all = PartSum(side, S) /\ others = PartSum(side, rest)
    BY <1>8, <1>9 DEF total, files, all, others
  <2> DEFINE p == val("p")
             q == val("q")
             t == val("r")
             l == val("left_over")
             b == PartSum(side, B \ {"left_over"})
             c == PartSum(side, C \ {"left_over"})
  <2>2. /\ p \in Nat /\ q \in Nat /\ t \in Nat /\ l \in Nat /\ b \in Nat /\ c \in Nat
        /\ data(1) \in Nat /\ data(2) \in Nat /\ left = l /\ blobs(2) = t
    BY ONLY <1>6, <1>7, <1>11
  <2>3. PartSum(side, S) = p + (t + (l + b)) /\ PartSum(side, S) = p + (t + (q + (l + c)))
    BY ONLY <1>11
  <2>4. two => blobs(1) = p + q /\ others = c
    BY ONLY <1>6, <1>12, <2>1
  <2>5. ~two => blobs(1) = p /\ others = b
    BY ONLY <1>6, <1>12, <2>1
  <2> HIDE DEF p, q, t, l, b, c
  <2>6. CASE two
    BY ONLY <2>1, <2>2, <2>3, <2>4, <2>6
  <2>7. CASE ~two
    BY ONLY <2>1, <2>2, <2>3, <2>5, <2>7
  <2> QED BY <2>6, <2>7
<1> QED BY <1>13 DEF data, blobs, owned

LEMMA PanelLayouts == PanelIInv => LayoutsAddUp
<1> SUFFICES ASSUME PanelIInv PROVE LayoutsAddUp
  OBVIOUS
<1>1. ASSUME Answered("fragments"), call.walked
      PROVE  LET total == SumOf(DOMAIN answer.fragments, LAMBDA i : answer.fragments[i].total)
                 left == IF "left_over" \in DOMAIN call.side THEN call.side["left_over"] ELSE 0
                 owned == UNION {{f.stem : f \in call.fragments[i]} : i \in DOMAIN call.fragments}
             IN  answer.disk[1] + answer.disk[2] - total
                    = call.orphans + left
                      + SumOf((DOMAIN call.side \ owned) \ {"left_over"}, LAMBDA s : call.side[s])
  <2> DEFINE F == call.fragments
             side == call.side
             data(i) == SumOf(F[i], LAMBDA f : f.size)
             blobs(i) == SumOf(F[i], LAMBDA f : Side(side, TRUE, f.stem))
             owned == UNION {{f.stem : f \in F[i]} : i \in DOMAIN F}
             left == IF "left_over" \in DOMAIN side THEN side["left_over"] ELSE 0
             total == SumOf(DOMAIN F, LAMBDA i : data(i) + blobs(i))
             others == SumOf((DOMAIN side \ owned) \ {"left_over"}, LAMBDA s : side[s])
             files == SumOf(DOMAIN F, LAMBDA i : data(i))
             all == SumOf(DOMAIN side, LAMBDA s : side[s])
             disk == OnDisk(F, side, call.orphans, call.walked)
             layout == Layout(F, side, call.walked, call.small, side # <<>>)
             entry == [i \in DOMAIN F |-> [data |-> data(i), blobs |-> blobs(i), total |-> data(i) + blobs(i)]]
             explained == side # <<>> /\ call.small > 0
  <2>1. call \in LayoutCalls /\ answer = Joined([disk |-> disk], layout)
    BY <1>1, PanelCallFacts DEF Answered, PanelIInv
  <2>2. F \in TwoFragments /\ side \in SideFiles /\ call.orphans \in Nat /\ call.walked = TRUE
    BY <1>1, <2>1 DEF LayoutCalls
  <2>3. /\ total + left + others = files + all
        /\ total \in Nat /\ left \in Nat /\ others \in Nat /\ files \in Nat /\ all \in Nat
    <3> HIDE DEF F, side
    <3> QED BY ONLY <2>2, LayoutFacts
  <2>4. disk = <<all, call.orphans + files>>
    BY <2>2 DEF OnDisk
  <2>5. layout = [fragments |-> entry, explained |-> explained]
    <3> DEFINE b == side # <<>>
               walking == Layout(F, side, TRUE, call.small, b)
    <3>1. walking = [fragments |-> entry, explained |-> explained]
      BY DEF Layout
    <3>2. layout = Layout(F, side, call.walked, call.small, b)
      OBVIOUS
    <3> HIDE DEF layout, b, F, side, entry, explained
    <3>3. layout = Layout(F, side, TRUE, call.small, b)
      BY ONLY <2>2, <3>2
    <3> HIDE DEF walking
    <3> QED BY <3>1, <3>3 DEF walking
  <2> HIDE DEF data, blobs, layout, disk
  <2>6. DOMAIN entry = DOMAIN F /\ \A i \in DOMAIN F : entry[i].total = data(i) + blobs(i)
    BY DEF entry
  <2>7. SumOf(DOMAIN entry, LAMBDA i : entry[i].total) = total
    <3> HIDE DEF entry
    <3>1. [i \in DOMAIN entry |-> entry[i].total] = [i \in DOMAIN F |-> data(i) + blobs(i)]
      BY <2>6
    <3> QED BY <3>1 DEF SumOf
  <2> HIDE DEF entry, explained, F, side, left, owned, others, files, all, total
  <2>8. answer.disk = disk /\ answer.fragments = entry
    <3> DEFINE a == [disk |-> disk]
    <3>1. DOMAIN a = {"disk"} /\ a.disk = disk /\ DOMAIN layout = {"fragments", "explained"}
          /\ layout.fragments = entry
      BY <2>5
    <3>0. answer = Joined(a, layout)
      BY <2>1
    <3> HIDE DEF a
    <3> DEFINE j == Joined(a, layout)
    <3>2. /\ \A x \in DOMAIN a : j[x] = a[x]
          /\ \A x \in DOMAIN layout \ DOMAIN a : j[x] = layout[x]
      BY ONLY JoinedFacts
    <3>3. answer = j
      BY <3>0
    <3> HIDE DEF j
    <3>4. j.disk = a.disk /\ j.fragments = layout.fragments
      BY ONLY <3>1, <3>2
    <3> QED BY ONLY <3>1, <3>3, <3>4
  <2>9. answer.disk[1] = all /\ answer.disk[2] = call.orphans + files
    BY <2>4, <2>8
  <2>10. SumOf(DOMAIN answer.fragments, LAMBDA i : answer.fragments[i].total) = total
    BY <2>7, <2>8
  <2> DEFINE d == answer.disk[1]
             e == answer.disk[2]
             orphans == call.orphans
  <2>11. d + e - total = orphans + left + others
    <3> HIDE DEF d, e, orphans
    <3>1. d = all /\ e = orphans + files /\ orphans \in Nat
      BY <2>2, <2>9 DEF d, e, orphans
    <3> QED BY ONLY <2>3, <3>1
  <2> QED BY <2>10, <2>11 DEF left, others, owned, F, side
<1>2. Answered("indices") =>
          /\ \A i \in call.indices : i.columns \cap answer.unindexed = {}
          /\ answer.searches \subseteq answer.indexable
          /\ \A x \in answer.coverage :
                x.share # Unknown => x.share[1] \in 0..x.share[2] /\ x.share[2] > 0
  BY PanelIndices
<1> QED BY <1>1, <1>2 DEF LayoutsAddUp

--------------------------------------------------------------------------
(* Pages, one after another. *)

\* A sequence of sequences is flattened into what grows by one of them at a time.
Grows(g, k, seqs) ==
    /\ k \in Nat /\ k >= 1 /\ DOMAIN g = 1..k /\ g = [i \in 1..k |-> g[i]] /\ Len(seqs) = k
    /\ g[1] = seqs[1] /\ \A i \in 2..k : g[i] = g[i - 1] \o seqs[i]

LEMMA Flattened ==
    ASSUME NEW g, NEW k, NEW seqs, Grows(g, k, seqs)
    PROVE  FlattenSeq(seqs) = g[k]
<1> DEFINE body(f) == [i \in 1..k |-> IF i = 1 THEN seqs[i] ELSE f[i - 1] \o seqs[i]]
           flatten == CHOOSE f : f = body(f)
<1>1. /\ k \in Nat /\ k >= 1 /\ DOMAIN g = 1..k /\ g = [i \in 1..k |-> g[i]] /\ Len(seqs) = k
      /\ g[1] = seqs[1] /\ \A i \in 2..k : g[i] = g[i - 1] \o seqs[i]
  BY DEF Grows
<1>2. g = body(g)
  <2>1. \A i \in 1..k : i # 1 => i \in 2..k
    BY <1>1
  <2>2. \A i \in 1..k : g[i] = body(g)[i]
    BY <1>1, <2>1
  <2> DEFINE b == body(g)
  <2>3. b = [i \in 1..k |-> b[i]]
    OBVIOUS
  <2> HIDE DEF b
  <2> QED BY <1>1, <2>2, <2>3 DEF b
<1>3. flatten = body(flatten)
  BY <1>2
<1>4. FlattenSeq(seqs) = flatten[k]
  BY <1>1 DEF FlattenSeq
<1> HIDE DEF flatten
<1>5. \A i \in 1..k : flatten[i] = IF i = 1 THEN seqs[i] ELSE flatten[i - 1] \o seqs[i]
  BY <1>3
<1> DEFINE Bad == {i \in 1..k : flatten[i] # g[i]}
<1>6. Bad = {}
  <2> SUFFICES ASSUME Bad # {} PROVE FALSE
    OBVIOUS
  <2>1. Bad \in SUBSET Nat
    BY <1>1
  <2>2. PICK i \in Bad : \A j \in Bad : i <= j
    BY ONLY <2>1, Bad # {}, Least
  <2>3. i # 1
    BY <1>1, <1>5
  <2>4. i \in 2..k /\ i - 1 \in 1..k /\ i - 1 \notin Bad
    BY <1>1, <2>2, <2>3
  <2>5. flatten[i - 1] = g[i - 1]
    BY <2>4
  <2> QED BY <1>1, <1>5, <2>4, <2>5
<1> QED BY <1>1, <1>4, <1>6

\* What is up to one place and from there to another is what is up to the other.
LEMMA SubSeqJoin ==
    ASSUME NEW S, NEW m \in Seq(S), NEW a \in Nat, NEW b \in Nat, a <= b, b <= Len(m)
    PROVE  SubSeq(m, 1, a) \o SubSeq(m, a + 1, b) = SubSeq(m, 1, b)
<1> DEFINE s == SubSeq(m, 1, a)
           t == SubSeq(m, a + 1, b)
           u == SubSeq(m, 1, b)
           c == s \o t
<1>0. \A i \in 1..Len(m) : m[i] \in S
  BY LenProperties
<1>1. s \in Seq(S) /\ Len(s) = a /\ \A i \in 1..a : s[i] = m[i]
  <2>1. \A i \in 1..a : m[i] \in S
    BY <1>0
  <2> QED BY <2>1, SubSeqProperties
<1>2. t \in Seq(S) /\ Len(t) = b - a /\ \A i \in 1..b - a : t[i] = m[a + i]
  <2>1. \A i \in a + 1..b : m[i] \in S
    BY <1>0
  <2> QED BY <2>1, SubSeqProperties
<1>3. u \in Seq(S) /\ Len(u) = b /\ \A i \in 1..b : u[i] = m[i]
  <2>1. \A i \in 1..b : m[i] \in S
    BY <1>0
  <2> QED BY <2>1, SubSeqProperties
<1> HIDE DEF s, t, u
<1>4. /\ c \in Seq(S) /\ Len(c) = Len(s) + Len(t)
      /\ \A i \in 1..Len(s) : c[i] = s[i]
      /\ \A i \in 1..Len(t) : c[Len(s) + i] = t[i]
  BY <1>1, <1>2, ConcatFacts
<1> HIDE DEF c
<1>5. \A i \in 1..b : c[i] = u[i]
  <2> SUFFICES ASSUME NEW i \in 1..b PROVE c[i] = u[i]
    OBVIOUS
  <2>1. CASE i <= a
    BY <1>1, <1>3, <1>4, <2>1
  <2>2. CASE i > a
    <3>1. i - a \in 1..b - a /\ a + (i - a) = i
      BY <2>2
    <3>2. c[a + (i - a)] = t[i - a] /\ t[i - a] = m[a + (i - a)]
      BY <1>1, <1>2, <1>4, <3>1
    <3> QED BY <1>3, <3>1, <3>2
  <2> QED BY <2>1, <2>2
<1>6. Len(c) = b
  BY <1>1, <1>2, <1>4
<1>7. c = u
  BY ONLY <1>3, <1>4, <1>5, <1>6, SeqEqual
<1> QED BY <1>7 DEF c, s, t, u

\* Pages of one size, asked for until they are empty, are the rows.
LEMMA PagesFlatten ==
    ASSUME NEW S, NEW m \in Seq(S), NEW n \in Nat \ {0}
    PROVE  FlattenSeq([i \in 1..Len(m) + 1 |-> Page(m, (i - 1) * n, n)]) = m
<1> DEFINE l == Len(m)
           k == l + 1
           seqs == [i \in 1..k |-> Page(m, (i - 1) * n, n)]
           g == [i \in 1..k |-> SubSeq(m, 1, Lesser(i * n, l))]
<1>1. l \in Nat /\ k \in Nat /\ k >= 1 /\ k \in 1..k
  BY LenProperties
<1>2. \A p \in Nat : p * n \in Nat /\ (p + 1) * n = p * n + n /\ p * n >= p
  <2> SUFFICES ASSUME NEW p \in Nat PROVE p * n \in Nat /\ (p + 1) * n = p * n + n /\ p * n >= p
    OBVIOUS
  <2>1. p * n \in Nat /\ (p + 1) * n = p * n + n
    BY TimesFacts
  <2>2. p * n = p + p * (n - 1) /\ p * (n - 1) \in Nat
    OBVIOUS
  <2> DEFINE q == p * n
             d == p * (n - 1)
  <2> HIDE DEF q, d
  <2>3. q >= p
    BY <2>2 DEF q, d
  <2> QED BY <2>1, <2>3 DEF q
<1>3. ASSUME NEW i \in 1..k PROVE seqs[i] = SubSeq(m, (i - 1) * n + 1, Lesser(i * n, l))
  <2>1. i - 1 \in Nat /\ (i - 1) + 1 = i
    BY <1>1
  <2>2. (i - 1) * n + n = i * n
    BY <1>2, <2>1
  <2> QED BY <2>2 DEF Page
<1>4. g[1] = seqs[1]
  <2>1. 1 \in 1..k /\ (1 - 1) * n = 0
    BY <1>1
  <2>2. seqs[1] = SubSeq(m, (1 - 1) * n + 1, Lesser(1 * n, l))
    BY <1>3, <2>1
  <2> QED BY <2>1, <2>2
<1>5. ASSUME NEW i \in 2..k PROVE g[i] = g[i - 1] \o seqs[i]
  <2> DEFINE p == (i - 1) * n
             a == Lesser(p, l)
             b == Lesser(i * n, l)
  <2>1. i \in 1..k /\ i - 1 \in 1..k /\ i - 1 \in Nat /\ (i - 1) + 1 = i
    BY <1>1
  <2>2. p \in Nat /\ i * n = p + n
    BY <1>2, <2>1
  <2>3. g[i] = SubSeq(m, 1, b) /\ g[i - 1] = SubSeq(m, 1, a) /\ seqs[i] = SubSeq(m, p + 1, b)
    BY <1>3, <2>1
  <2> HIDE DEF p, g, seqs
  <2>4. a \in Nat /\ b \in Nat /\ a <= b /\ b <= l
    BY <1>1, <2>2 DEF Lesser
  <2>5. SubSeq(m, p + 1, b) = SubSeq(m, a + 1, b)
    <3>1. CASE p <= l
      <4>1. a = p
        BY <1>1, <2>2, <3>1 DEF Lesser
      <4> HIDE DEF a, b
      <4> QED BY <4>1
    <3>2. CASE p > l
      <4>1. a = l /\ b = l
        BY <1>1, <2>2, <3>2 DEF Lesser
      <4>2. SubSeq(m, p + 1, l) = <<>> /\ SubSeq(m, l + 1, l) = <<>>
        BY <1>1, <2>2, <3>2, SubSeqProperties
      <4> HIDE DEF a, b
      <4> QED BY <4>1, <4>2
    <3>3. p <= l \/ p > l
      BY <1>1, <2>2
    <3> QED BY ONLY <3>1, <3>2, <3>3
  <2> HIDE DEF a, b
  <2>6. SubSeq(m, 1, a) \o SubSeq(m, a + 1, b) = SubSeq(m, 1, b)
    BY <2>4, SubSeqJoin
  <2> QED BY ONLY <2>3, <2>5, <2>6
<1>6. Len(seqs) = k /\ DOMAIN g = 1..k /\ g = [i \in 1..k |-> g[i]]
  <2>1. DOMAIN g = 1..k
    OBVIOUS
  <2>2. g = [i \in 1..k |-> g[i]]
    <3> DEFINE G(i) == SubSeq(m, 1, Lesser(i * n, l))
    <3> HIDE DEF G, k
    <3>1. [i \in 1..k |-> G(i)] = [i \in 1..k |-> [j \in 1..k |-> G(j)][i]]
      OBVIOUS
    <3> QED BY <3>1 DEF G
  <2>3. Len(seqs) = k
    <3> DEFINE G(i) == Page(m, (i - 1) * n, n)
    <3> HIDE DEF G, k
    <3>1. Len([i \in 1..k |-> G(i)]) = k
      BY <1>1
    <3> QED BY <3>1 DEF G
  <2> QED BY <2>1, <2>2, <2>3
<1>7. g[k] = m
  <2>1. k * n >= l /\ k * n \in Nat
    <3> HIDE DEF k
    <3>1. k * n \in Nat /\ k * n >= k /\ k >= l
      BY <1>1, <1>2 DEF k
    <3> DEFINE q == k * n
    <3> HIDE DEF q
    <3>2. q >= l
      BY <1>1, <3>1 DEF q
    <3> QED BY <3>1, <3>2 DEF q
  <2>2. Lesser(k * n, l) = l
    <3> DEFINE q == k * n
    <3> HIDE DEF q, k
    <3> QED BY <1>1, <2>1 DEF q, Lesser
  <2>3. g[k] = SubSeq(m, 1, l)
    BY <1>1, <2>2
  <2>4. SubSeq(m, 1, l) = m
    <3>1. \A i \in 1..l : m[i] \in S
      BY LenProperties
    <3> DEFINE u == SubSeq(m, 1, l)
    <3>2. u \in Seq(S) /\ Len(u) = l /\ \A i \in 1..l : u[i] = m[i]
      BY <1>1, <3>1, SubSeqProperties
    <3> HIDE DEF u
    <3> QED BY <3>2, SeqEqual DEF u
  <2> QED BY <2>3, <2>4
<1> HIDE DEF g, seqs, k, l
<1>8. Grows(g, k, seqs)
  BY <1>1, <1>4, <1>5, <1>6 DEF Grows
<1>9. FlattenSeq(seqs) = g[k]
  BY ONLY <1>8, Flattened
<1> QED BY <1>7, <1>9 DEF seqs, k, l

LEMMA PanelPages == PanelIInv => PagesTurn
<1> SUFFICES ASSUME PanelIInv, Answered("rows"), ~IsRefused(answer) PROVE PagesTurn
  BY DEF PagesTurn
<1> DEFINE kinds == call.kinds
           expand == call.expand
           m == call.matching
           From(offset) == Rows(kinds, call.columns, expand, offset, call.limit, m).rows
           p == Projection(kinds, call.columns, expand)
           most == Lesser(Greater(0, call.limit), MaxLimit)
           rows(offset) == Page(m, Greater(0, offset), most)
<1>1. call \in RowsCalls /\ answer = Rows(kinds, call.columns, expand, call.offset, call.limit, m)
  BY PanelCallFacts DEF Answered, PanelIInv
<1>2. m \in Seq(Nat) /\ call.limit \in Int /\ call.offset \in Int
  <2> DEFINE Page3 == <<1, 2, 3>>
             Pages == {SubSeq(Page3, 1, k) : k \in 0..3}
  <2>1. \A k \in 0..3 : SubSeq(Page3, 1, k) \in Seq(Nat)
    <3>1. \A i \in 1..3 : Page3[i] \in Nat
      OBVIOUS
    <3> HIDE DEF Page3
    <3> QED BY <3>1, SubSeqProperties
  <2>2. Page3 \in Seq(Nat)
    OBVIOUS
  <2>3. m \in Pages \cup {Page3} /\ call.limit \in Int /\ call.offset \in Int
    <3>1. call.matching \in Pages \cup {Page3}
      <4> HIDE DEF Pages, Page3
      <4> QED BY <1>1 DEF RowsCalls, Pages, Page3
    <3>2. call.limit \in {1} \cup (-1..MaxLimit + 1) /\ call.offset \in {0} \cup (-1..3)
      BY <1>1 DEF RowsCalls
    <3> QED BY <3>1, <3>2, QueriesAssumption
  <2> HIDE DEF Page3
  <2> QED BY <2>1, <2>2, <2>3
<1>3. /\ MaxLimit \in Nat \ {0} /\ most \in Nat /\ most <= MaxLimit
      /\ call.limit \in 1..MaxLimit => most = call.limit
  <2>1. MaxLimit \in Nat \ {0}
    BY QueriesAssumption
  <2> QED BY <1>2, <2>1 DEF Lesser, Greater
<1>4. ~IsRefused(p) /\ expand \subseteq DOMAIN kinds
  <2>1. answer = IF IsRefused(p) THEN p
                 ELSE IF ~(expand \subseteq DOMAIN kinds) THEN Refuse("no_such_column_to_expand")
                 ELSE [read |-> p.read, omitted |-> p.omitted, total |-> Len(m), rows |-> rows(call.offset)]
    BY <1>1 DEF Rows
  <2>2. IsRefused(Refuse("no_such_column_to_expand"))
    BY DEF IsRefused, Refuse
  <2> HIDE DEF p, rows
  <2> QED BY <2>1, <2>2
<1>5. ASSUME NEW offset
      PROVE  Rows(kinds, call.columns, expand, offset, call.limit, m)
                 = [read |-> p.read, omitted |-> p.omitted, total |-> Len(m), rows |-> rows(offset)]
  BY <1>4 DEF Rows
<1> HIDE DEF p, rows, most
<1>6. answer.rows = rows(call.offset) /\ answer.read = p.read /\ answer.omitted = p.omitted
  <2> DEFINE r == rows(call.offset)
  <2>1. answer = [read |-> p.read, omitted |-> p.omitted, total |-> Len(m), rows |-> r]
    BY <1>1, <1>5
  <2> HIDE DEF r, m
  <2> QED BY ONLY <2>1 DEF r
<1>7. Len(answer.rows) <= MaxLimit
  <2> DEFINE o == Greater(0, call.offset)
  <2>1. o \in Nat /\ Len(m) \in Nat
    BY <1>2, LenProperties DEF Greater
  <2> HIDE DEF o
  <2>2. Len(Page(m, o, most)) = PageLength(Len(m), o, most)
    <3>1. m \in Seq(Nat) /\ o \in Nat /\ most \in Nat
      BY <1>2, <1>3, <2>1
    <3> HIDE DEF m
    <3> QED BY ONLY <3>1, PageFacts
  <2>3. PageLength(Len(m), o, most) <= MaxLimit
    <3> DEFINE l == Len(m)
    <3> HIDE DEF l
    <3> QED BY <1>3, <2>1 DEF l, PageLength, Lesser
  <2> QED BY <1>6, <2>2, <2>3 DEF rows, o
<1>8. ASSUME call.limit \in 1..MaxLimit
      PROVE  FlattenSeq([i \in 1..Len(m) + 1 |-> From((i - 1) * call.limit)]) = m
  <2> DEFINE n == call.limit
             a == [i \in 1..Len(m) + 1 |-> From((i - 1) * n)]
             b == [i \in 1..Len(m) + 1 |-> Page(m, (i - 1) * n, n)]
  <2>1. n \in Nat \ {0} /\ most = n
    BY <1>3, <1>8
  <2>2. \A offset : From(offset) = rows(offset)
    <3> SUFFICES ASSUME NEW offset PROVE From(offset) = rows(offset)
      OBVIOUS
    <3> DEFINE asked == Rows(kinds, call.columns, expand, offset, call.limit, m)
               r == rows(offset)
    <3>1. asked = [read |-> p.read, omitted |-> p.omitted, total |-> Len(m), rows |-> r]
      BY <1>5
    <3> HIDE DEF asked, r
    <3>2. asked.rows = r
      BY ONLY <3>1
    <3> QED BY <3>2 DEF asked, r
  <2>3. \A i \in 1..Len(m) + 1 : (i - 1) * n \in Nat
    <3> HIDE DEF n
    <3> TAKE i \in 1..Len(m) + 1
    <3>1. i - 1 \in Nat
      OBVIOUS
    <3> QED BY <2>1, <3>1, TimesFacts
  <2>4. \A o \in Nat : rows(o) = Page(m, o, n)
    <3> TAKE o \in Nat
    <3>1. Greater(0, o) = o
      BY DEF Greater
    <3> HIDE DEF n
    <3> QED BY <2>1, <3>1 DEF rows
  <2> HIDE DEF From, n
  <2>5. a = b
    BY <2>2, <2>3, <2>4
  <2> HIDE DEF a
  <2>6. FlattenSeq(b) = m
    <3> HIDE DEF m
    <3> QED BY ONLY <1>2, <2>1, PagesFlatten
  <2> HIDE DEF b
  <2> QED BY <2>5, <2>6 DEF a, From, n
<1>9. /\ ~(\E c \in p.read : kinds[c] = "blob_v1")
      /\ p.omitted \cap expand = {}
  <2> DEFINE names == IF call.columns = {} THEN DOMAIN kinds ELSE call.columns
             wanted == {c \in names : ~Heavy(kinds[c]) \/ c \in expand}
  <2>1. /\ names \subseteq DOMAIN kinds
        /\ ~(\E c \in expand \cap DOMAIN kinds : kinds[c] \in {"blob_v1", "blob_v2"})
        /\ p = [read |-> wanted, omitted |-> names \ wanted]
    BY <1>4 DEF p, Projection, IsRefused, Refuse
  <2>2. p.read = wanted /\ p.omitted = names \ wanted
    <3> HIDE DEF wanted, names
    <3> QED BY <2>1
  <2>3. ~(\E c \in wanted : kinds[c] = "blob_v1")
    BY <2>1 DEF Heavy
  <2> QED BY <2>2, <2>3
<1> HIDE DEF From
<1> QED BY <1>6, <1>7, <1>8, <1>9 DEF PagesTurn, From

--------------------------------------------------------------------------
(* A finite set in some order. *)

LEMMA SetToSeqFacts ==
    ASSUME NEW S, IsFiniteSet(S)
    PROVE  /\ Cardinality(S) \in Nat /\ SetToSeq(S) \in Seq(S) /\ Len(SetToSeq(S)) = Cardinality(S)
           /\ DOMAIN SetToSeq(S) = 1..Cardinality(S)
           /\ \A x \in S : \E i \in 1..Cardinality(S) : SetToSeq(S)[i] = x
<1> DEFINE n == Cardinality(S)
           s == SetToSeq(S)
<1>1. n \in Nat /\ ExistsBijection(1..n, S)
  BY FS_CardinalityType
<1>2. \E f \in [1..n -> S] : IsInjective(f)
  BY <1>1 DEF ExistsBijection, Bijection, Injection
<1>3. s \in [1..n -> S] /\ IsInjective(s)
  BY <1>2 DEF SetToSeq
<1> HIDE DEF n, s
<1>4. s \in Seq(S) /\ Len(s) = n /\ DOMAIN s = 1..n
  BY <1>1, <1>3
<1>5. \A x \in S : \E i \in 1..n : s[i] = x
  <2>1. s \in Injection(1..n, S)
    BY <1>3 DEF Injection
  <2> DEFINE N == 1..n
  <2>2. IsFiniteSet(N) /\ Cardinality(N) = n
    <3>1. 1 \in Int /\ n \in Int
      BY <1>1
    <3> QED BY ONLY <1>1, <3>1, FS_Interval
  <2> HIDE DEF N
  <2>3. Cardinality(N) = Cardinality(S) /\ s \in Injection(N, S)
    BY <2>1, <2>2 DEF n, N
  <2>4. s \in Surjection(N, S)
    BY ONLY <2>3, IsFiniteSet(S), FS_Injection
  <2> QED BY <2>4 DEF Surjection, N
<1> QED BY <1>1, <1>4, <1>5 DEF n, s

--------------------------------------------------------------------------
(* Findings. *)

\* What the rules need of a table is taken from it, or added up.
LEMMA GatherFacts ==
    ASSUME NEW table,
           {"fragments", "side", "blob", "vector", "indexed", "deleted", "small", "manifest", "versions",
            "covered", "uncovered", "measured"} \subseteq DOMAIN table,
           {"rows", "bytes", "meta", "blobs", "unindexed"} \cap DOMAIN table = {}
    PROVE  LET f == Gather(table)
           IN  /\ f.fragments = table.fragments /\ f.meta = Total(table.fragments) + table.vector
               /\ f.unindexed <=> (table.vector > 0 /\ ~table.indexed)
               /\ f.deleted = table.deleted /\ f.vector = table.vector /\ f.indexed = table.indexed
               /\ f.covered = table.covered /\ f.uncovered = table.uncovered
               /\ f.measured = table.measured /\ f.blob = table.blob
               /\ f.blobs = IF table.blob THEN Total(table.side) ELSE 0
<1> DEFINE rows == Total(table.fragments) - table.deleted
           bytes == IF table.blob THEN [i \in DOMAIN table.fragments |-> table.fragments[i] + table.side[i]]
                    ELSE <<>>
           meta == Total(table.fragments) + table.vector
           blobs == IF table.blob THEN Total(table.side) ELSE 0
           unindexed == table.vector > 0 /\ ~table.indexed
           own == [rows |-> rows, fragments |-> table.fragments, bytes |-> bytes, meta |-> meta,
                   blobs |-> blobs, unindexed |-> unindexed]
           f == Joined(own, table)
<1>1. Gather(table) = f
  BY DEF Gather
<1> HIDE DEF rows, bytes, meta, blobs, unindexed
<1>2. /\ DOMAIN own = {"rows", "fragments", "bytes", "meta", "blobs", "unindexed"}
      /\ own.fragments = table.fragments /\ own.meta = meta /\ own.unindexed = unindexed
      /\ own.blobs = blobs
  OBVIOUS
<1> HIDE DEF own
<1>3. /\ \A x \in DOMAIN own : f[x] = own[x]
      /\ \A x \in DOMAIN table \ DOMAIN own : f[x] = table[x]
  BY JoinedFacts
<1> HIDE DEF f
<1>4. f.fragments = table.fragments /\ f.meta = meta /\ f.unindexed = unindexed /\ f.blobs = blobs
  BY ONLY <1>2, <1>3
<1>5. /\ f.deleted = table.deleted /\ f.vector = table.vector /\ f.indexed = table.indexed
      /\ f.covered = table.covered /\ f.uncovered = table.uncovered
      /\ f.measured = table.measured /\ f.blob = table.blob
  BY <1>2, <1>3
<1> QED BY <1>1, <1>4, <1>5 DEF meta, unindexed, blobs

\* A table of the calls.
IsTable(table) ==
    /\ DOMAIN table = {"fragments", "side", "blob", "vector", "indexed", "deleted", "small", "manifest",
                       "versions", "covered", "uncovered", "measured"}
    /\ table.fragments \in Seq(Nat) /\ table.side \in Seq(Nat)
    /\ table.deleted \in Nat /\ table.vector \in Nat
    /\ table.covered \in Nat /\ table.uncovered \in Nat
    /\ table.indexed \in BOOLEAN /\ table.measured \in BOOLEAN /\ table.blob \in BOOLEAN

LEMMA FindingTables ==
    ASSUME NEW c \in FindingCalls
    PROVE  IsTable(c.table) /\ c.broken \in {{}, {"fragment_skew"}} /\ c.facet \in BOOLEAN
<1>1. /\ c.table \in SplitTables \cup SearchedTables
      /\ c.broken \in {{}, {"fragment_skew"}} /\ c.facet \in BOOLEAN
  BY DEF FindingCalls
<1> DEFINE own(s, t, b, d) == [fragments |-> s, side |-> t, blob |-> b, deleted |-> d]
           about(v, i, k, u, m, d, n) == [vector |-> v, indexed |-> i, covered |-> k, uncovered |-> u,
                                          measured |-> m, deleted |-> d, versions |-> n]
<1>2. /\ DOMAIN Plain = {"small", "manifest", "versions", "deleted", "vector", "indexed", "covered",
                         "uncovered", "measured", "fragments", "side", "blob"}
      /\ Plain.fragments \in Seq(Nat) /\ Plain.side \in Seq(Nat)
      /\ Plain.deleted \in Nat /\ Plain.vector \in Nat
      /\ Plain.covered \in Nat /\ Plain.uncovered \in Nat
      /\ Plain.indexed \in BOOLEAN /\ Plain.measured \in BOOLEAN /\ Plain.blob \in BOOLEAN
  BY DEF Plain
<1>3. ASSUME NEW s \in Seq(Nat), NEW t \in Seq(Nat), NEW b \in BOOLEAN, NEW d \in Nat
      PROVE  IsTable(Joined(own(s, t, b, d), Plain))
  <2> DEFINE o == own(s, t, b, d)
             j == Joined(o, Plain)
  <2>1. /\ DOMAIN o = {"fragments", "side", "blob", "deleted"}
        /\ o.fragments = s /\ o.side = t /\ o.blob = b /\ o.deleted = d
    OBVIOUS
  <2> HIDE DEF o
  <2>2. /\ DOMAIN j = DOMAIN o \cup DOMAIN Plain
        /\ \A x \in DOMAIN o : j[x] = o[x]
        /\ \A x \in DOMAIN Plain \ DOMAIN o : j[x] = Plain[x]
    BY JoinedFacts
  <2> HIDE DEF j
  <2>3. /\ j.fragments = s /\ j.side = t /\ j.blob = b /\ j.deleted = d /\ j.vector = Plain.vector
        /\ j.covered = Plain.covered /\ j.uncovered = Plain.uncovered
        /\ j.indexed = Plain.indexed /\ j.measured = Plain.measured
    BY <1>2, <2>1, <2>2
  <2>4. DOMAIN j = {"fragments", "side", "blob", "vector", "indexed", "deleted", "small", "manifest",
                    "versions", "covered", "uncovered", "measured"}
    BY <1>2, <2>1, <2>2
  <2>5. IsTable(j)
    BY <1>2, <1>3, <2>3, <2>4 DEF IsTable
  <2> QED BY <2>5 DEF j, o
<1>4. ASSUME NEW v \in Nat, NEW i \in BOOLEAN, NEW k \in Nat, NEW u \in Nat, NEW m \in BOOLEAN,
             NEW d \in Nat, NEW n
      PROVE  IsTable(Joined(about(v, i, k, u, m, d, n), Plain))
  <2> DEFINE o == about(v, i, k, u, m, d, n)
             j == Joined(o, Plain)
  <2>1. /\ DOMAIN o = {"vector", "indexed", "covered", "uncovered", "measured", "deleted", "versions"}
        /\ o.vector = v /\ o.indexed = i /\ o.covered = k /\ o.uncovered = u /\ o.measured = m
        /\ o.deleted = d
    OBVIOUS
  <2> HIDE DEF o
  <2>2. /\ DOMAIN j = DOMAIN o \cup DOMAIN Plain
        /\ \A x \in DOMAIN o : j[x] = o[x]
        /\ \A x \in DOMAIN Plain \ DOMAIN o : j[x] = Plain[x]
    BY JoinedFacts
  <2> HIDE DEF j
  <2>3. /\ j.fragments = Plain.fragments /\ j.side = Plain.side /\ j.blob = Plain.blob /\ j.deleted = d /\ j.vector = v
        /\ j.covered = k /\ j.uncovered = u /\ j.indexed = i /\ j.measured = m
    BY <1>2, <2>1, <2>2
  <2>4. DOMAIN j = {"fragments", "side", "blob", "vector", "indexed", "deleted", "small", "manifest",
                    "versions", "covered", "uncovered", "measured"}
    BY <1>2, <2>1, <2>2
  <2>5. IsTable(j)
    BY <1>2, <1>4, <2>3, <2>4 DEF IsTable
  <2> QED BY <2>5 DEF j, o
<1>5. CASE c.table \in SplitTables
  <2>1. PICK n \in 0..LoaderFragmentFloor : \E s \in [1..n -> {1, 2, 5}], t \in [1..n -> {0, 60}],
            b \in BOOLEAN, d \in {0, Lesser(n, 1)} : c.table = Joined(own(s, t, b, d), Plain)
    BY <1>5 DEF SplitTables
  <2>2. n \in Nat /\ Lesser(n, 1) \in Nat
    BY FindingsAssumption DEF Lesser
  <2>3. /\ \A s \in [1..n -> {1, 2, 5}] : s \in Seq(Nat)
        /\ \A t \in [1..n -> {0, 60}] : t \in Seq(Nat)
    BY <2>2
  <2>4. PICK s \in [1..n -> {1, 2, 5}], t \in [1..n -> {0, 60}],
            b \in BOOLEAN, d \in {0, Lesser(n, 1)} : c.table = Joined(own(s, t, b, d), Plain)
    BY <2>1
  <2>5. s \in Seq(Nat) /\ t \in Seq(Nat) /\ d \in Nat
    BY <2>2, <2>3, <2>4
  <2> HIDE DEF own
  <2>6. IsTable(Joined(own(s, t, b, d), Plain))
    BY ONLY <1>3, <2>5, b \in BOOLEAN
  <2>7. IsTable(c.table)
    BY ONLY <2>4, <2>6
  <2> QED BY ONLY <1>1, <2>7
<1>6. CASE c.table \in SearchedTables
  <2>1. PICK v \in {0, 20, 80}, i \in BOOLEAN, k \in {0, 49, 97}, u \in {0, 1, 2}, m \in BOOLEAN,
            d \in {0, 5, 6, 50}, n \in {1, ManyVersions} :
            c.table = Joined(about(v, i, k, u, m, d, n), Plain)
    <3> DEFINE told(v, i, k, u, m, d, n) == Joined(about(v, i, k, u, m, d, n), Plain)
    <3>1. SearchedTables = {told(v, i, k, u, m, d, n) :
              v \in {0, 20, 80}, i \in BOOLEAN, k \in {0, 49, 97}, u \in {0, 1, 2}, m \in BOOLEAN,
              d \in {0, 5, 6, 50}, n \in {1, ManyVersions}}
      BY DEF SearchedTables
    <3> HIDE DEF told
    <3>2. \E v \in {0, 20, 80}, i \in BOOLEAN, k \in {0, 49, 97}, u \in {0, 1, 2}, m \in BOOLEAN,
             d \in {0, 5, 6, 50}, n \in {1, ManyVersions} : c.table = told(v, i, k, u, m, d, n)
      BY ONLY <1>6, <3>1
    <3> QED BY ONLY <3>2 DEF told
  <2>2. v \in Nat /\ k \in Nat /\ u \in Nat /\ d \in Nat
    OBVIOUS
  <2> HIDE DEF about
  <2>3. IsTable(Joined(about(v, i, k, u, m, d, n), Plain))
    BY ONLY <1>4, <2>2, i \in BOOLEAN, m \in BOOLEAN
  <2>4. IsTable(c.table)
    BY ONLY <2>1, <2>3
  <2> QED BY ONLY <1>1, <2>4
<1> QED BY <1>1, <1>5, <1>6

\* A rule says one thing, or nothing.
LEMMA ApplyFacts ==
    ASSUME NEW f
    PROVE  /\ Apply("unindexed_vector", f) = UnindexedVector(f)
           /\ Apply("partial_index", f) = PartialIndex(f)
           /\ Apply("small_files", f) = SmallFiles(f)
           /\ Apply("deleted_rows", f) = DeletedRows(f)
           /\ Apply("blob_split", f) = BlobSplit(f)
           /\ Apply("manifest_blind", f) = ManifestBlind(f)
           /\ Apply("version_churn", f) = VersionChurn(f)
           /\ Apply("loader_parallelism", f) = LoaderParallelism(f)
           /\ Apply("fragment_skew", f) = FragmentSkew(f)
           /\ Apply("embedding_footprint", f) = EmbeddingFootprint(f)
BY DEF Apply

Says(said) == said = {} \/ \E v \in {"warn", "note"} : \E a : said = Said(v, a)

LEMMA RulesSay ==
    ASSUME NEW f, NEW r \in Rule
    PROVE  Says(Apply(r, f))
<1>1. Says({}) /\ \A v \in {"warn", "note"} : \A a : Says(Said(v, a))
  BY DEF Says
<1> HIDE DEF Says
<1>2. Says(UnindexedVector(f)) /\ Says(PartialIndex(f)) /\ Says(BlobSplit(f)) /\ Says(ManifestBlind(f))
  BY <1>1 DEF UnindexedVector, PartialIndex, BlobSplit, ManifestBlind
<1>3. Says(SmallFiles(f))
  BY <1>1 DEF SmallFiles
<1>4. Says(DeletedRows(f))
  BY <1>1 DEF DeletedRows
<1>5. Says(VersionChurn(f))
  BY <1>1 DEF VersionChurn
<1>6. Says(LoaderParallelism(f))
  BY <1>1 DEF LoaderParallelism
<1>7. Says(FragmentSkew(f))
  BY <1>1 DEF FragmentSkew
<1>8. Says(EmbeddingFootprint(f))
  BY <1>1 DEF EmbeddingFootprint
<1> QED BY <1>2, <1>3, <1>4, <1>5, <1>6, <1>7, <1>8, ApplyFacts DEF Rule

\* What the rules asked say, each with the rule that says it.
Heard(asked, f) ==
    UNION {{[rule |-> r, severity |-> s.severity, advice |-> s.advice] : s \in Apply(r, f)} : r \in asked}
Of(said, severity) == {x \in said : x.severity = severity}

LEMMA HeardFacts ==
    ASSUME NEW f, NEW asked, asked \subseteq Rule
    PROVE  /\ \A x \in Heard(asked, f) :
                 /\ x.rule \in asked /\ x.severity \in {"warn", "note"}
                 /\ Apply(x.rule, f) = Said(x.severity, x.advice)
           /\ \A r \in asked : Apply(r, f) # {} => \E x \in Heard(asked, f) : x.rule = r
           /\ IsFiniteSet(Heard(asked, f))
<1> DEFINE H == Heard(asked, f)
           as(r, s) == [rule |-> r, severity |-> s.severity, advice |-> s.advice]
<1>1. \A x : x \in H <=> \E r \in asked : \E s \in Apply(r, f) : x = as(r, s)
  BY DEF Heard
<1>2. \A r \in asked : Says(Apply(r, f))
  BY RulesSay
<1>3. \A v, a : Said(v, a) = {[severity |-> v, advice |-> a]}
  BY DEF Said
<1>4. ASSUME NEW x \in H
      PROVE  /\ x.rule \in asked /\ x.severity \in {"warn", "note"}
             /\ Apply(x.rule, f) = Said(x.severity, x.advice)
             /\ x = [rule |-> x.rule, severity |-> x.severity, advice |-> x.advice]
  <2>1. PICK r \in asked : \E s \in Apply(r, f) : x = as(r, s)
    BY <1>1
  <2>0. PICK s \in Apply(r, f) : x = as(r, s)
    BY <2>1
  <2>2. Apply(r, f) # {}
    BY <2>0
  <2>5. PICK v \in {"warn", "note"} : \E a : Apply(r, f) = Said(v, a)
    BY <1>2, <2>2 DEF Says
  <2>6. PICK a : Apply(r, f) = Said(v, a)
    BY <2>5
  <2>3. s = [severity |-> v, advice |-> a]
    BY <1>3, <2>0, <2>6
  <2>4. x = [rule |-> r, severity |-> v, advice |-> a]
    BY <2>0, <2>3
  <2>7. x.rule = r /\ x.severity = v /\ x.advice = a
    BY ONLY <2>4
  <2> QED BY <2>4, <2>6, <2>7
<1>5. ASSUME NEW r \in asked, Apply(r, f) # {} PROVE \E x \in H : x.rule = r
  <2>1. PICK s \in Apply(r, f) : TRUE
    BY <1>5
  <2>2. as(r, s) \in H
    BY <1>1, <2>1
  <2> QED BY <2>2
<1>6. IsFiniteSet(H)
  <2> DEFINE g == [x \in H |-> x.rule]
  <2>1. IsFiniteSet(Rule)
    <3> DEFINE A == {} \cup {"unindexed_vector"} \cup {"partial_index"}
               B == A \cup {"small_files"} \cup {"deleted_rows"}
               C == B \cup {"blob_split"} \cup {"manifest_blind"}
               E == C \cup {"version_churn"} \cup {"loader_parallelism"}
               F == E \cup {"fragment_skew"} \cup {"embedding_footprint"}
    <3>1. F = Rule
      BY DEF Rule
    <3>2. IsFiniteSet(A)
      BY FS_EmptySet, FS_AddElement
    <3> HIDE DEF A
    <3>3. IsFiniteSet(B)
      BY <3>2, FS_AddElement
    <3> HIDE DEF B
    <3>4. IsFiniteSet(C)
      BY <3>3, FS_AddElement
    <3> HIDE DEF C
    <3>5. IsFiniteSet(E)
      BY <3>4, FS_AddElement
    <3> HIDE DEF E
    <3>6. IsFiniteSet(F)
      BY <3>5, FS_AddElement
    <3> QED BY <3>1, <3>6
  <2>2. g \in [H -> Rule]
    BY <1>4
  <2>3. ASSUME NEW x \in H, NEW y \in H, x.rule = y.rule PROVE x = y
    <3>1. [severity |-> x.severity, advice |-> x.advice] = [severity |-> y.severity, advice |-> y.advice]
      BY <1>3, <1>4, <2>3
    <3>2. x.severity = y.severity /\ x.advice = y.advice
      BY ONLY <3>1
    <3> QED BY <1>4, <2>3, <3>2
  <2>4. g \in Injection(H, Rule)
    BY <2>2, <2>3 DEF Injection, IsInjective
  <2> QED BY ONLY <2>1, <2>4, FS_Injection
<1> QED BY <1>4, <1>5, <1>6

\* What a sweep answers, of what its rules said.
Sweeps(a, H, broken) ==
    /\ a.findings = SetToSeq(Of(H, "warn")) \o SetToSeq(Of(H, "note"))
    /\ a.partial = (broken # {})
    /\ a.summary.total = Cardinality(H)
    /\ a.summary.warn = Cardinality(Of(H, "warn"))
    /\ a.summary.note = Cardinality(Of(H, "note"))
    /\ a.summary.panels = [p \in {"schema", "versions", "indices", "fragments", "rows"} |->
                              Cardinality({x \in H : Panel(x.rule) = p})]

LEMMA Analysed ==
    ASSUME NEW table, NEW broken, NEW facet
    PROVE  Sweeps(Analyse(table, broken, facet),
                  Heard((IF facet THEN ForTraining ELSE Rule) \ broken, Gather(table)), broken)
<1> DEFINE H == Heard((IF facet THEN ForTraining ELSE Rule) \ broken, Gather(table))
           findings == SetToSeq(Of(H, "warn")) \o SetToSeq(Of(H, "note"))
           partial == broken # {}
           panels == [p \in {"schema", "versions", "indices", "fragments", "rows"} |->
                         Cardinality({x \in H : Panel(x.rule) = p})]
           summary == [total |-> Cardinality(H), warn |-> Cardinality(Of(H, "warn")),
                       note |-> Cardinality(Of(H, "note")), panels |-> panels]
           a == Analyse(table, broken, facet)
<1>1. a = [findings |-> findings, failures |-> broken, partial |-> partial, summary |-> summary]
  BY DEF Analyse, Heard, Of
<1>2. summary.total = Cardinality(H) /\ summary.warn = Cardinality(Of(H, "warn"))
      /\ summary.note = Cardinality(Of(H, "note")) /\ summary.panels = panels
  <2> HIDE DEF H, panels
  <2> QED OBVIOUS
<1>3. a.findings = findings /\ a.partial = partial /\ a.summary = summary
  <2> HIDE DEF findings, partial, summary, a
  <2> QED BY ONLY <1>1
<1> HIDE DEF summary, a, H
<1>4. Sweeps(a, H, broken)
  BY <1>2, <1>3 DEF Sweeps, findings, partial, panels
<1> QED BY <1>4 DEF a, H

\* The worst first, each finding once, and counted by severity and by panel.
LEMMA SweepCounts ==
    ASSUME NEW H, IsFiniteSet(H), \A x \in H : x.severity \in {"warn", "note"}
    PROVE  LET findings == SetToSeq(Of(H, "warn")) \o SetToSeq(Of(H, "note"))
           IN  /\ ToSet(findings) = H
               /\ Len(findings) = Cardinality(H)
               /\ Cardinality(H) = Cardinality(Of(H, "warn")) + Cardinality(Of(H, "note"))
               /\ \A i, j \in DOMAIN findings :
                     i < j => findings[i].severity = "warn" \/ findings[j].severity = "note"
<1> DEFINE warn == Of(H, "warn")
           note == Of(H, "note")
           s == SetToSeq(warn)
           t == SetToSeq(note)
           findings == s \o t
<1>1. /\ \A x \in warn : x \in H /\ x.severity = "warn"
      /\ \A x \in note : x \in H /\ x.severity = "note"
      /\ warn \cap note = {} /\ warn \cup note = H
  BY DEF Of
<1>2. IsFiniteSet(warn) /\ IsFiniteSet(note)
  <2> HIDE DEF warn, note
  <2> QED BY <1>1, FS_Subset
<1> HIDE DEF warn, note
<1>3. /\ Cardinality(warn) \in Nat /\ s \in Seq(warn) /\ Len(s) = Cardinality(warn)
      /\ DOMAIN s = 1..Cardinality(warn)
      /\ \A x \in warn : \E i \in 1..Cardinality(warn) : s[i] = x
  BY <1>2, SetToSeqFacts
<1>4. /\ Cardinality(note) \in Nat /\ t \in Seq(note) /\ Len(t) = Cardinality(note)
      /\ DOMAIN t = 1..Cardinality(note)
      /\ \A x \in note : \E i \in 1..Cardinality(note) : t[i] = x
  BY <1>2, SetToSeqFacts
<1>5. Cardinality(H) = Cardinality(warn) + Cardinality(note)
  <2>1. Cardinality(warn \cup note) = Cardinality(warn) + Cardinality(note) - Cardinality(warn \cap note)
    BY <1>2, FS_Union
  <2>2. Cardinality(warn \cap note) = 0
    BY <1>1, FS_EmptySet
  <2>3. Cardinality(warn) \in Nat /\ Cardinality(note) \in Nat
    BY <1>3, <1>4
  <2>4. Cardinality(warn \cup note) = Cardinality(warn) + Cardinality(note)
    BY ONLY <2>1, <2>2, <2>3
  <2>5. warn \cup note = H
    BY <1>1
  <2> QED BY ONLY <2>4, <2>5
<1> HIDE DEF s, t
<1> DEFINE m == Cardinality(warn)
           n == Cardinality(note)
<1>6. m \in Nat /\ n \in Nat /\ s \in Seq(warn) /\ t \in Seq(note) /\ Len(s) = m /\ Len(t) = n
  BY <1>3, <1>4
<1>7. /\ \A x \in warn : \E i \in 1..m : s[i] = x
      /\ \A x \in note : \E i \in 1..n : t[i] = x
  BY <1>3, <1>4
<1> HIDE DEF m, n
<1>8. /\ Len(findings) = m + n /\ DOMAIN findings = 1..(m + n)
      /\ \A i \in 1..m : findings[i] = s[i]
      /\ \A i \in 1..n : findings[m + i] = t[i]
  <2>1. s \in Seq(H) /\ t \in Seq(H)
    BY <1>1, <1>6
  <2>2. Len(findings) = m + n /\ DOMAIN findings = 1..(m + n)
    BY ONLY <1>6, <2>1
  <2>3. \A i \in 1..m : findings[i] = s[i]
    BY ONLY <1>6, <2>1
  <2>4. \A i \in 1..n : findings[m + i] = t[i]
    BY ONLY <1>6, <2>1
  <2> QED BY <2>2, <2>3, <2>4
<1>9. \A i \in DOMAIN findings : \/ i \in 1..m /\ findings[i] \in warn
                                 \/ i - m \in 1..n /\ findings[i] \in note
  <2> SUFFICES ASSUME NEW i \in 1..(m + n)
               PROVE  \/ i \in 1..m /\ findings[i] \in warn
                      \/ i - m \in 1..n /\ findings[i] \in note
    BY <1>8
  <2>1. CASE i \in 1..m
    BY <1>6, <1>8, <2>1
  <2>2. CASE i \notin 1..m
    <3>1. i - m \in 1..n /\ m + (i - m) = i
      BY <1>6, <2>2
    <3>2. findings[i] = t[i - m]
      BY <1>8, <3>1
    <3> QED BY <1>6, <3>1, <3>2
  <2> QED BY <2>1, <2>2
<1>10. ToSet(findings) = H
  <2>1. ASSUME NEW x \in H PROVE \E i \in DOMAIN findings : findings[i] = x
    <3>1. CASE x \in warn
      <4>1. PICK i \in 1..m : s[i] = x
        BY <1>7, <3>1
      <4>2. i \in DOMAIN findings /\ findings[i] = x
        BY <1>6, <1>8, <4>1
      <4> QED BY <4>2
    <3>2. CASE x \in note
      <4>1. PICK i \in 1..n : t[i] = x
        BY <1>7, <3>2
      <4>2. m + i \in DOMAIN findings /\ findings[m + i] = x
        BY <1>6, <1>8, <4>1
      <4> QED BY <4>2
    <3> QED BY <1>1, <3>1, <3>2
  <2>2. \A i \in DOMAIN findings : findings[i] \in H
    BY <1>1, <1>9
  <2> HIDE DEF findings
  <2> QED BY <2>1, <2>2 DEF ToSet
<1>11. ASSUME NEW i \in DOMAIN findings, NEW j \in DOMAIN findings, i < j
       PROVE  findings[i].severity = "warn" \/ findings[j].severity = "note"
  <2>1. i \in Int /\ j \in Int
    BY <1>6, <1>8
  <2> HIDE DEF findings
  <2>2. CASE i \in 1..m /\ findings[i] \in warn
    BY <1>1, <2>2
  <2>3. CASE j - m \in 1..n /\ findings[j] \in note
    BY <1>1, <2>3
  <2>4. CASE i - m \in 1..n /\ j \in 1..m
    BY ONLY <1>6, <1>11, <2>1, <2>4
  <2> QED BY <1>9, <2>2, <2>3, <2>4
<1>12. Len(findings) = Cardinality(H)
  BY <1>5, <1>8 DEF m, n
<1> HIDE DEF findings
<1>13. \A i, j \in DOMAIN findings : i < j => findings[i].severity = "warn" \/ findings[j].severity = "note"
  BY <1>11
<1> QED BY <1>5, <1>10, <1>12, <1>13 DEF findings, s, t, warn, note

LEMMA PanelSums ==
    ASSUME NEW H, IsFiniteSet(H)
    PROVE  LET S == {"schema", "versions", "indices", "fragments", "rows"}
               v == [p \in S |-> Cardinality({x \in H : Panel(x.rule) = p})]
           IN  SumOf(DOMAIN v, LAMBDA p : v[p]) = Cardinality(H)
<1> DEFINE S == {"schema", "versions", "indices", "fragments", "rows"}
           key == [x \in H |-> Panel(x.rule)]
           v == [p \in S |-> Cardinality({x \in H : Panel(x.rule) = p})]
           w == [p \in S |-> Cardinality({x \in H : key[x] = p})]
<1>1. IsFiniteSet(S)
  <2> DEFINE A == {} \cup {"schema"} \cup {"versions"}
             B == A \cup {"indices"} \cup {"fragments"}
             C == B \cup {"rows"}
  <2>1. C = S
    OBVIOUS
  <2>2. IsFiniteSet(A)
    BY FS_EmptySet, FS_AddElement
  <2> HIDE DEF A
  <2>3. IsFiniteSet(B)
    BY <2>2, FS_AddElement
  <2> HIDE DEF B
  <2>4. IsFiniteSet(C)
    BY <2>3, FS_AddElement
  <2> QED BY <2>1, <2>4
<1>2. key \in [H -> S]
  BY DEF Panel
<1>3. w = v
  <2>1. \A p \in S : {x \in H : key[x] = p} = {x \in H : Panel(x.rule) = p}
    OBVIOUS
  <2> HIDE DEF S, key
  <2> QED BY <2>1
<1>4. SumFunction(w) = Cardinality(H)
  <2> HIDE DEF S, key
  <2> QED BY ONLY <1>1, <1>2, IsFiniteSet(H), SumOfCounts
<1>5. SumOf(DOMAIN v, LAMBDA p : v[p]) = SumFunction(v)
  <2>1. DOMAIN v = S /\ v = [p \in DOMAIN v |-> v[p]]
    OBVIOUS
  <2> HIDE DEF v
  <2> QED BY <2>1 DEF SumOf
<1> HIDE DEF v, w, key
<1>6. SumOf(DOMAIN v, LAMBDA p : v[p]) = Cardinality(H)
  BY <1>3, <1>4, <1>5
<1> QED BY <1>6 DEF v

LEMMA TotalFacts ==
    ASSUME NEW s \in Seq(Nat)
    PROVE  Total(s) \in Nat
<1> DEFINE D == DOMAIN s
<1>1. D = 1..Len(s) /\ Len(s) \in Nat /\ s \in [D -> Nat]
  OBVIOUS
<1>2. IsFiniteSet(D)
  <2>1. 1 \in Int /\ Len(s) \in Int
    BY <1>1
  <2> QED BY <1>1, <2>1, FS_Interval
<1>3. [i \in D |-> s[i]] \in [D -> Nat]
  BY <1>1
<1> HIDE DEF D
<1>4. SumFunction([i \in D |-> s[i]]) \in Nat
  BY <1>2, <1>3, SumFacts
<1> QED BY <1>4 DEF Total, SumOf, D

LEMMA PanelFindings == PanelIInv => FindingsAreHonest
<1> SUFFICES ASSUME PanelIInv, Answered("analyse") PROVE FindingsAreHonest
  BY DEF FindingsAreHonest
<1> DEFINE table == call.table
           broken == call.broken
           f == Gather(table)
           asked == (IF call.facet THEN ForTraining ELSE Rule) \ broken
           H == Heard(asked, f)
           said == ToSet(answer.findings)
           rules == {x.rule : x \in said}
           rank(x) == IF x.severity = "warn" THEN 0 ELSE 1
<1>1. call \in FindingCalls /\ answer = Analyse(table, broken, call.facet)
  BY PanelCallFacts DEF Answered, PanelIInv
<1>2. IsTable(table) /\ broken \in {{}, {"fragment_skew"}} /\ call.facet \in BOOLEAN
  BY <1>1, FindingTables
<1>3. /\ asked \subseteq Rule /\ "loader_parallelism" \in asked
      /\ ~call.facet => asked = Rule \ broken
  BY <1>2 DEF Rule, ForTraining
<1>4. /\ f.fragments = table.fragments /\ f.meta = Total(table.fragments) + table.vector
      /\ f.unindexed <=> (table.vector > 0 /\ ~table.indexed)
      /\ f.deleted = table.deleted /\ f.vector = table.vector /\ f.indexed = table.indexed
      /\ f.covered = table.covered /\ f.uncovered = table.uncovered
      /\ f.measured = table.measured /\ f.blob = table.blob
      /\ f.blobs = IF table.blob THEN Total(table.side) ELSE 0
  <2>1. {"fragments", "side", "blob", "vector", "indexed", "deleted", "small", "manifest", "versions",
         "covered", "uncovered", "measured"} \subseteq DOMAIN table
    BY <1>2 DEF IsTable
  <2>2. {"rows", "bytes", "meta", "blobs", "unindexed"} \cap DOMAIN table = {}
    BY <1>2 DEF IsTable
  <2> HIDE DEF table
  <2> QED BY <2>1, <2>2, GatherFacts
<1>5. /\ answer.findings = SetToSeq(Of(H, "warn")) \o SetToSeq(Of(H, "note"))
      /\ answer.partial = (broken # {})
      /\ answer.summary.total = Cardinality(H)
      /\ answer.summary.warn = Cardinality(Of(H, "warn"))
      /\ answer.summary.note = Cardinality(Of(H, "note"))
      /\ answer.summary.panels = [p \in {"schema", "versions", "indices", "fragments", "rows"} |->
                                     Cardinality({x \in H : Panel(x.rule) = p})]
  <2> DEFINE facet == call.facet
  <2> HIDE DEF table, broken, facet
  <2>1. Sweeps(Analyse(table, broken, facet), H, broken)
    BY ONLY Analysed DEF asked, H, f, facet
  <2>2. answer = Analyse(table, broken, facet)
    BY <1>1 DEF facet
  <2> HIDE DEF H
  <2>3. Sweeps(answer, H, broken)
    BY ONLY <2>1, <2>2
  <2> QED BY <2>3 DEF Sweeps
<1> HIDE DEF f, asked, table, broken
<1>6. /\ \A x \in H : /\ x.rule \in asked /\ x.severity \in {"warn", "note"}
                      /\ Apply(x.rule, f) = Said(x.severity, x.advice)
      /\ \A r \in asked : Apply(r, f) # {} => \E x \in H : x.rule = r
      /\ IsFiniteSet(H)
  BY <1>3, HeardFacts
<1> HIDE DEF H
<1>7. /\ said = H /\ Len(answer.findings) = Cardinality(H)
      /\ Cardinality(H) = Cardinality(Of(H, "warn")) + Cardinality(Of(H, "note"))
      /\ \A i, j \in DOMAIN answer.findings :
            i < j => answer.findings[i].severity = "warn" \/ answer.findings[j].severity = "note"
  BY <1>5, <1>6, SweepCounts
<1>8. /\ Len(f.fragments) \in Nat /\ LoaderFragmentFloor \in Nat
      /\ f.deleted \in Nat /\ f.vector \in Nat /\ f.covered \in Nat /\ f.uncovered \in Nat
      /\ f.meta \in Nat /\ f.blobs \in Nat /\ f.vector <= f.meta
  <2>1. table.fragments \in Seq(Nat) /\ table.deleted \in Nat /\ table.vector \in Nat
        /\ table.covered \in Nat /\ table.uncovered \in Nat /\ table.side \in Seq(Nat)
    BY <1>2 DEF IsTable
  <2>2. Total(table.fragments) \in Nat /\ Total(table.side) \in Nat
    BY <2>1, TotalFacts
  <2>3. f.meta \in Nat /\ f.vector <= f.meta
    BY ONLY <1>4, <2>1, <2>2
  <2>4. LoaderFragmentFloor \in Nat
    BY FindingsAssumption
  <2>5. Len(f.fragments) \in Nat
    BY <1>4, <2>1
  <2>6. f.blobs \in Nat
    BY <1>4, <2>2
  <2> QED BY <1>4, <2>1, <2>3, <2>4, <2>5, <2>6
<1>9. \A r \in rules : r \in asked /\ Apply(r, f) # {}
  BY <1>6, <1>7 DEF Said
<1>10. \A r \in asked : Apply(r, f) # {} => r \in rules
  BY <1>6, <1>7
<1>11. ~({"fragment_skew", "loader_parallelism"} \subseteq rules)
  <2> SUFFICES ASSUME "fragment_skew" \in rules, "loader_parallelism" \in rules PROVE FALSE
    OBVIOUS
  <2>1. FragmentSkew(f) # {} /\ LoaderParallelism(f) # {}
    BY <1>9, ApplyFacts
  <2>2. ~(Len(f.fragments) < LoaderFragmentFloor)
    BY <2>1, Zenon DEF FragmentSkew
  <2>3. ~(Len(f.fragments) >= LoaderFragmentFloor)
    BY <2>1 DEF LoaderParallelism
  <2> QED BY ONLY <1>8, <2>2, <2>3
<1>12. ASSUME Len(f.fragments) \in 1..LoaderFragmentFloor - 1, f.meta + f.blobs >= LoaderBytesFloor
       PROVE  "loader_parallelism" \in rules
  <2>1. Len(f.fragments) # 0 /\ ~(Len(f.fragments) >= LoaderFragmentFloor)
    BY ONLY <1>8, <1>12
  <2>2. LoaderBytesFloor \in Nat
    BY FindingsAssumption
  <2>3. ~(f.meta + f.blobs < LoaderBytesFloor)
    BY ONLY <1>8, <1>12, <2>2
  <2>5. \A v, a : Said(v, a) # {}
    BY DEF Said
  <2> DEFINE n == Len(f.fragments)
             short == n = 0 \/ n >= LoaderFragmentFloor \/ f.meta + f.blobs < LoaderBytesFloor
             said1 == Said(IF n = 1 THEN "warn" ELSE "note", IF f.blob THEN "none" ELSE "split")
  <2>6. LoaderParallelism(f) = IF short THEN {} ELSE said1
    BY DEF LoaderParallelism
  <2>7. ~short
    BY <2>1, <2>3
  <2>8. said1 # {}
    BY <2>5
  <2> HIDE DEF short, said1
  <2>4. LoaderParallelism(f) # {}
    BY ONLY <2>6, <2>7, <2>8
  <2> QED BY <1>3, <1>10, <2>4, ApplyFacts
<1>13. ASSUME table.blob, NEW x \in said, x.advice = "compact" PROVE x.rule = "deleted_rows"
  <2>1. x.rule \in Rule /\ Apply(x.rule, f) = Said(x.severity, x.advice)
    BY <1>3, <1>6, <1>7
  <2>2. f.blob
    BY <1>4, <1>13
  <2>3. \A v \in {"warn", "note"} : \A a : Said(v, a) = Said(x.severity, "compact") => a = "compact"
    <3> SUFFICES ASSUME NEW v \in {"warn", "note"}, NEW a, Said(v, a) = Said(x.severity, "compact")
                 PROVE  a = "compact"
      OBVIOUS
    <3>1. [severity |-> v, advice |-> a] = [severity |-> x.severity, advice |-> "compact"]
      BY DEF Said
    <3> QED BY ONLY <3>1
  <2>4. Said(x.severity, "compact") # {}
    BY DEF Said
  <2>5. ASSUME NEW r \in Rule \ {"deleted_rows"}, Apply(r, f) # {}
        PROVE  \E v \in {"warn", "note"} : \E a \in {"build", "leave", "none", "batch", "split"} :
                   Apply(r, f) = Said(v, a)
    <3> DEFINE Other(z) == z # {} => \E v \in {"warn", "note"} :
                               \E a \in {"build", "leave", "none", "batch", "split"} : z = Said(v, a)
    <3>0. /\ Other({})
          /\ \A v \in {"warn", "note"} : \A a \in {"build", "leave", "none", "batch", "split"} :
                 Other(Said(v, a))
      OBVIOUS
    <3> HIDE DEF Other
    <3>1. Other(UnindexedVector(f)) /\ Other(PartialIndex(f)) /\ Other(BlobSplit(f))
      BY <3>0 DEF UnindexedVector, PartialIndex, BlobSplit
    <3>2. Other(ManifestBlind(f)) /\ Other(EmbeddingFootprint(f)) /\ Other(VersionChurn(f))
      BY <3>0 DEF ManifestBlind, EmbeddingFootprint, VersionChurn
    <3>3. Other(SmallFiles(f)) /\ Other(LoaderParallelism(f))
      BY <2>2, <3>0 DEF SmallFiles, LoaderParallelism
    <3>4. Other(FragmentSkew(f))
      <4> HIDE DEF Other
      <4>1. FragmentSkew(f) \in {{}, Said("note", "none")}
        BY <2>2, Zenon DEF FragmentSkew
      <4> QED BY <3>0, <4>1
    <3>5. Other(Apply(r, f))
      BY <3>1, <3>2, <3>3, <3>4, ApplyFacts DEF Rule
    <3> QED BY <2>5, <3>5 DEF Other
  <2>6. SUFFICES ASSUME x.rule # "deleted_rows" PROVE FALSE
    OBVIOUS
  <2>7. Apply(x.rule, f) = Said(x.severity, "compact")
    BY <1>13, <2>1
  <2>8. PICK v \in {"warn", "note"}, a \in {"build", "leave", "none", "batch", "split"} :
            Apply(x.rule, f) = Said(v, a)
    BY <2>1, <2>4, <2>5, <2>6, <2>7
  <2> QED BY <2>3, <2>7, <2>8
<1>14. \A i, j \in DOMAIN answer.findings :
           i < j => rank(answer.findings[i]) <= rank(answer.findings[j])
  BY <1>7
<1>15. /\ answer.summary.total = Len(answer.findings)
       /\ answer.summary.total = answer.summary.warn + answer.summary.note
       /\ answer.partial = (broken # {})
  BY <1>5, <1>7
<1>16. answer.summary.total = SumOf(DOMAIN answer.summary.panels, LAMBDA p : answer.summary.panels[p])
  <2>1. LET S == {"schema", "versions", "indices", "fragments", "rows"}
            v == [p \in S |-> Cardinality({x \in H : Panel(x.rule) = p})]
        IN  SumOf(DOMAIN v, LAMBDA p : v[p]) = Cardinality(H)
    BY <1>6, PanelSums
  <2> QED BY <1>5, <2>1 DEF SumOf
<1>17. ASSUME said = {}, ~answer.partial, ~call.facet
       PROVE  /\ table.deleted = 0
              /\ table.vector > 0 => table.indexed
              /\ table.indexed => 50 * table.uncovered <= table.covered + table.uncovered
  <2>1. broken = {}
    BY <1>15, <1>17
  <2>2. \A r \in Rule : Apply(r, f) = {}
    BY <1>3, <1>10, <1>17, <2>1
  <2>3. DeletedRows(f) = {} /\ UnindexedVector(f) = {} /\ PartialIndex(f) = {}
    BY <2>2, ApplyFacts DEF Rule
  <2>4. \A v, a : Said(v, a) # {}
    BY DEF Said
  <2>5. f.deleted = 0
    BY <2>3, <2>4 DEF DeletedRows
  <2>6. ~f.unindexed
    BY <2>3, <2>4 DEF UnindexedVector
  <2>7. f.indexed => ~(50 * f.uncovered > f.covered + f.uncovered)
    BY <2>3, <2>4 DEF PartialIndex
  <2> QED BY <1>4, <1>8, <2>5, <2>6, <2>7
<1>18. ASSUME table.measured PROVE EmbeddingShare(f)[1] <= EmbeddingShare(f)[2]
  <2>1. EmbeddingShare(f) = <<f.vector, Greater(f.meta, 1)>>
    BY <1>4, <1>18 DEF EmbeddingShare
  <2>2. f.vector <= Greater(f.meta, 1)
    BY <1>8 DEF Greater
  <2> QED BY <2>1, <2>2
<1> QED BY <1>11, <1>12, <1>13, <1>14, <1>15, <1>16, <1>17, <1>18 DEF FindingsAreHonest, f, table, broken

--------------------------------------------------------------------------

\* Whatever panel is asked for: its figures add up over versions, fragments and pages, and say
\* what they rest on; an empty list means an empty root; a cell is played as it was asked for;
\* findings are counted once each and silence means nothing to say; and the document made of
\* the panels travels whole, with no secret, row or path that was not asked to stay.
THEOREM PanelsHonest == Spec => []PanelsAreHonest
<1>1. PanelIInv => PanelsAreHonest
  BY PanelFindings, PanelListing, PanelHistories, PanelLayouts, PanelPages, PanelCells, PanelFigures,
     PanelBundles DEF PanelsAreHonest
<1> QED BY <1>1, InitPanelIInv, NextPanelIInv, PTL DEF Spec

--------------------------------------------------------------------------
(* The edges, asked and answered. *)

\* A call is one that can be asked, and the answer at an edge what its operator gives.
EdgeIInv ==
    /\ call \in Calls
    /\ answer # Unanswered =>
        /\ call.op = "registry" => answer = Registered(call.plugins, call.enabled)
        /\ call.op = "root" => answer = RootPanel(call)
        /\ call.op = "post" => answer = Post(call.answers)
        /\ call.op = "embed" => answer = Embedded(call)
        /\ call.op = "column" => answer = [vectors |-> Column(call.sees, call.pictures)]
        /\ call.op = "match" =>
               answer = Joined([resolved |-> ResolveEmbedder(call.e)], Matching(call.identity, call.e))
        /\ call.op = "video_rows" => answer = VideoRows(call)
        /\ call.op = "parse" => answer = [cues |-> Parse(call.lines)]
        /\ call.op = "dedupe" => answer = [stream |-> Dedupe(call.cues)]
        /\ call.op = "audio_rows" =>
               answer = [rows |-> AudioRows(call.stream, call.duration, call.tagged)]
        /\ call.op = "pdf" => answer = PdfRows(call.pages, call.texts)
        /\ call.op = "survey" => answer = Survey(call)
        /\ call.op = "findings_command" => answer = [exit |-> <<FindingsCode(call)>>]
        /\ call.op = "check_command" =>
               answer = [exit |-> CheckCode(call), job |-> JobState(call), results |-> Reads(call)]
        /\ call.op = "ingest_command" =>
               answer = [exit |-> <<IngestCode(call)>>, rows |-> Writes(call),
                         destination |-> Destination(call)]
        /\ call.op = "report_command" => answer = Report(call)
        /\ call.op = "open_command" => answer = Open(call)

LEMMA OtherEdgeReplies ==
    ASSUME Next
    PROVE  \/ AnswerSource \/ AnswerMedia \/ AnswerCommand
           \/ Asks(QueryOp \cup CheckOp \cup LanguageOp \cup PanelOp)
<1>1. CASE AnswerCheck
  BY <1>1, CheckReplies DEF Asks
<1>2. CASE AnswerLanguage
  BY <1>2, LanguageReplies DEF Asks
<1>3. CASE AnswerQuery
  BY <1>3, QueryReplies DEF Asks
<1>4. CASE AnswerPanel
  BY <1>4, PanelReplies DEF Asks
<1> QED BY <1>1, <1>2, <1>3, <1>4 DEF Next

LEMMA InitEdgeIInv == Init => EdgeIInv
BY DEF Init, EdgeIInv, Calls

LEMMA NextEdgeIInv == EdgeIInv /\ [Next]_<<call, answer>> => EdgeIInv'
<1> SUFFICES ASSUME EdgeIInv, [Next]_<<call, answer>> PROVE EdgeIInv'
  OBVIOUS
<1>1. ASSUME Asks(QueryOp \cup CheckOp \cup LanguageOp \cup PanelOp)
      PROVE  EdgeIInv'
  <2>1. /\ call' = call
        /\ call.op \notin {"registry", "root", "post", "embed", "column", "match", "video_rows",
                           "parse", "dedupe", "audio_rows", "pdf", "survey"}
        /\ call.op \notin {"findings_command", "check_command", "ingest_command", "report_command",
                           "open_command"}
    BY <1>1 DEF Asks, QueryOp, CheckOp, LanguageOp, PanelOp
  <2> QED BY <2>1 DEF EdgeIInv
<1>2. CASE AnswerRegistry
  BY <1>2 DEF EdgeIInv, AnswerRegistry, Reply
<1>3. CASE AnswerRoot
  BY <1>3 DEF EdgeIInv, AnswerRoot, Reply
<1>4. CASE AnswerEmbed
  BY <1>4 DEF EdgeIInv, AnswerEmbed, Reply
<1>5. CASE AnswerMatch
  BY <1>5 DEF EdgeIInv, AnswerMatch, Reply
<1>6. CASE AnswerVideo
  BY <1>6 DEF EdgeIInv, AnswerVideo, Reply
<1>7. CASE AnswerWords
  BY <1>7 DEF EdgeIInv, AnswerWords, Reply
<1>8. CASE AnswerSurvey
  BY <1>8 DEF EdgeIInv, AnswerSurvey, Reply
<1>9. CASE AnswerFindingsCommand
  BY <1>9 DEF EdgeIInv, AnswerFindingsCommand, Reply
<1>10. CASE AnswerCheckCommand
  BY <1>10 DEF EdgeIInv, AnswerCheckCommand, Reply
<1>11. CASE AnswerIngest
  BY <1>11 DEF EdgeIInv, AnswerIngest, Reply
<1>12. CASE AnswerScan
  BY <1>12 DEF EdgeIInv, AnswerScan, Reply
<1>13. CASE AnswerReport
  BY <1>13 DEF EdgeIInv, AnswerReport, Reply
<1>14. CASE AnswerOpen
  BY <1>14 DEF EdgeIInv, AnswerOpen, Reply
<1>15. CASE UNCHANGED <<call, answer>>
  BY <1>15 DEF EdgeIInv
<1> QED BY <1>1, <1>2, <1>3, <1>4, <1>5, <1>6, <1>7, <1>8, <1>9, <1>10, <1>11, <1>12, <1>13, <1>14,
           <1>15, OtherEdgeReplies DEF AnswerSource, AnswerMedia, AnswerCommand

\* A call at an edge, by its operation, is one of the calls of that operation.
LEMMA EdgeCallFacts ==
    ASSUME EdgeIInv
    PROVE  /\ call.op = "registry" => call \in RegistryCalls
           /\ call.op = "root" => call \in RootCalls
           /\ call.op = "post" => call \in PostCalls
           /\ call.op \in {"embed", "column"} => call \in EmbedCalls
           /\ call.op = "match" => call \in MatchCalls
           /\ call.op = "video_rows" => call \in VideoCalls
           /\ call.op \in {"parse", "dedupe", "audio_rows", "pdf"} => call \in WordCalls
           /\ call.op = "survey" => call \in SurveyCalls
           /\ call.op = "findings_command" => call \in FindingsCommands
           /\ call.op = "check_command" => call \in CheckCommands
           /\ call.op = "ingest_command" => call \in IngestCalls
           /\ call.op = "report_command" => call \in ReportCalls
           /\ call.op = "open_command" => call \in OpenCalls
<1>1. /\ call \in Calls
      /\ CheckOp \cap SourceOp = {} /\ LanguageOp \cap SourceOp = {} /\ QueryOp \cap SourceOp = {}
      /\ PanelOp \cap SourceOp = {} /\ MediaOp \cap SourceOp = {} /\ CommandOp \cap SourceOp = {}
  BY DEF EdgeIInv, QueryOp, CheckOp, LanguageOp, PanelOp, SourceOp, MediaOp, CommandOp
<1>2. /\ CheckOp \cap MediaOp = {} /\ LanguageOp \cap MediaOp = {} /\ QueryOp \cap MediaOp = {}
      /\ PanelOp \cap MediaOp = {} /\ CommandOp \cap MediaOp = {}
      /\ CheckOp \cap CommandOp = {} /\ LanguageOp \cap CommandOp = {} /\ QueryOp \cap CommandOp = {}
      /\ PanelOp \cap CommandOp = {}
  BY DEF QueryOp, CheckOp, LanguageOp, PanelOp, SourceOp, MediaOp, CommandOp
<1>3. /\ call.op \in SourceOp => call \in SourceCalls
      /\ call.op \in MediaOp => call \in MediaCalls
      /\ call.op \in CommandOp => call \in CommandCalls
  BY <1>1, <1>2, CheckOps, LanguageOps, QueryOps, PanelOps, SourceOps, MediaOps, CommandOps DEF Calls
<1>4. /\ call \in RegistryCalls => call.op = "registry"
      /\ call \in RootCalls => call.op = "root"
      /\ call \in PostCalls => call.op = "post"
      /\ call \in EmbedCalls => call.op \in {"embed", "column"}
      /\ call \in MatchCalls => call.op = "match"
  BY DEF RegistryCalls, RootCalls, PostCalls, EmbedCalls, MatchCalls
<1>5. /\ call \in VideoCalls => call.op = "video_rows"
      /\ call \in WordCalls => call.op \in {"parse", "dedupe", "audio_rows", "pdf"}
      /\ call \in SurveyCalls => call.op = "survey"
  BY DEF VideoCalls, WordCalls, SurveyCalls
<1>6. /\ call \in FindingsCommands => call.op = "findings_command"
      /\ call \in CheckCommands => call.op = "check_command"
      /\ call \in IngestCalls => call.op = "ingest_command"
      /\ call \in ScanCalls => call.op = "scan_command"
      /\ call \in ReportCalls => call.op = "report_command"
      /\ call \in OpenCalls => call.op = "open_command"
  BY DEF FindingsCommands, CheckCommands, IngestCalls, ScanCalls, ReportCalls, OpenCalls
<1>7. /\ call.op \in {"registry", "root"} => call.op \in SourceOp
      /\ call.op \in {"post", "embed", "column", "match", "video_rows", "parse", "dedupe",
                      "audio_rows", "pdf", "survey"} => call.op \in MediaOp
      /\ call.op \in {"findings_command", "check_command", "ingest_command", "report_command",
                      "open_command"} => call.op \in CommandOp
  BY DEF SourceOp, MediaOp, CommandOp
<1>8. /\ call.op \in {"registry", "root"} => call \in SourceCalls
      /\ call.op \in {"post", "embed", "column", "match", "video_rows", "parse", "dedupe",
                      "audio_rows", "pdf", "survey"} => call \in MediaCalls
      /\ call.op \in {"findings_command", "check_command", "ingest_command", "report_command",
                      "open_command"} => call \in CommandCalls
  BY ONLY <1>3, <1>7
<1>9. /\ call.op = "registry" => call \in RegistryCalls
      /\ call.op = "root" => call \in RootCalls
  BY ONLY <1>4, <1>8 DEF SourceCalls
<1>10. /\ call.op = "post" => call \in PostCalls
       /\ call.op \in {"embed", "column"} => call \in EmbedCalls
       /\ call.op = "match" => call \in MatchCalls
       /\ call.op = "video_rows" => call \in VideoCalls
       /\ call.op \in {"parse", "dedupe", "audio_rows", "pdf"} => call \in WordCalls
       /\ call.op = "survey" => call \in SurveyCalls
  BY ONLY <1>4, <1>5, <1>8 DEF MediaCalls
<1>11. /\ call.op = "findings_command" => call \in FindingsCommands
       /\ call.op = "check_command" => call \in CheckCommands
       /\ call.op = "ingest_command" => call \in IngestCalls
       /\ call.op = "report_command" => call \in ReportCalls
       /\ call.op = "open_command" => call \in OpenCalls
  BY ONLY <1>6, <1>8 DEF CommandCalls
<1> QED BY ONLY <1>9, <1>10, <1>11

--------------------------------------------------------------------------
(* Commands. *)

LEMMA PlacesFinite ==
    ASSUME NEW l \in Nat, NEW T \in SUBSET (1..l)
    PROVE  T \in SUBSET Nat /\ IsFiniteSet(T) /\ Cardinality(T) \in Nat
<1>1. IsFiniteSet(1..l)
  <2>1. 1 \in Int /\ l \in Int
    OBVIOUS
  <2> QED BY <2>1, FS_Interval
<1>2. IsFiniteSet(T)
  BY <1>1, FS_Subset
<1>3. Cardinality(T) \in Nat
  BY <1>2, FS_CardinalityType
<1> QED BY <1>2, <1>3

\* What is kept of a sequence is what stood at the places that were kept.
LEMMA AtWithin ==
    ASSUME NEW s, NEW l \in Nat, NEW T \in SUBSET (1..l)
    PROVE  /\ DOMAIN At(s, T) = 1..Cardinality(T) /\ Cardinality(T) \in Nat
           /\ Len(At(s, T)) = Cardinality(T)
           /\ \A n \in 1..Cardinality(T) : \E i \in T : At(s, T)[n] = s[i]
           /\ \A i \in T : \E n \in 1..Cardinality(T) : At(s, T)[n] = s[i]
           /\ ToSet(At(s, T)) = {s[i] : i \in T}
           /\ T = {} => At(s, T) = <<>>
<1> DEFINE a == At(s, T)
           k == Cardinality(T)
           P == {s[i] : i \in T}
<1>1. T \in SUBSET Nat /\ IsFiniteSet(T) /\ k \in Nat
  BY PlacesFinite
<1>2. /\ DOMAIN a = 1..k
      /\ \A n \in 1..k : \E i \in T : a[n] = s[i]
      /\ \A i \in T : Rank(T, i) \in 1..k /\ a[Rank(T, i)] = s[i]
  <2>1. /\ DOMAIN At(s, T) = 1..Cardinality(T)
        /\ \A n \in 1..Cardinality(T) : \E i \in T : Rank(T, i) = n /\ At(s, T)[n] = s[i]
        /\ \A i \in T : Rank(T, i) \in 1..Cardinality(T) /\ At(s, T)[Rank(T, i)] = s[i]
    BY ONLY <1>1, AtFacts
  <2> QED BY ONLY <2>1
<1>3. a \in Seq(P) /\ Len(a) = k
  <2>1. \A i \in T : s[i] \in P
    OBVIOUS
  <2> HIDE DEF P
  <2> QED BY <1>1, <2>1, AtSeq
<1>4. \A i \in T : \E n \in 1..k : a[n] = s[i]
  BY <1>2
<1>5. T = {} => k = 0
  BY FS_EmptySet
<1> HIDE DEF a, k
<1>6. ToSet(a) = P
  <2>1. \A x : x \in ToSet(a) <=> \E n \in 1..k : x = a[n]
    BY <1>2 DEF ToSet
  <2>2. \A x : x \in P <=> \E i \in T : x = s[i]
    OBVIOUS
  <2> HIDE DEF P
  <2>3. \A x : x \in ToSet(a) <=> x \in P
    BY ONLY <1>2, <1>4, <2>1, <2>2
  <2> QED BY <2>3
<1>7. T = {} => a = <<>>
  <2> HIDE DEF P
  <2> QED BY <1>3, <1>5, EmptySeq
<1> QED BY <1>1, <1>2, <1>3, <1>4, <1>6, <1>7 DEF a, k

\* What is to be run of what was asked for.
LEMMA RunnableFacts ==
    ASSUME NEW c
    PROVE  /\ Len(Runnable(c)) \in Nat /\ DOMAIN Runnable(c) = 1..Len(Runnable(c))
           /\ \A i \in 1..Len(Runnable(c)) : Runnable(c)[i] \in Gated
<1> DEFINE w == Wanted(c)
           W == {i \in DOMAIN Listed : c.named = {} \/ Listed[i] \in c.named}
           Fit(k) == c.ready[k] = "yes" \/ (c.ready[k] = "if_named" /\ Named(c))
           T == {i \in DOMAIN w : Fit(w[i])}
<1>1. DOMAIN Listed = 1..2 /\ \A i \in 1..2 : Listed[i] \in Gated
  BY DEF Listed, Gated
<1>2. /\ Cardinality(W) \in Nat /\ DOMAIN w = 1..Cardinality(W)
      /\ \A n \in 1..Cardinality(W) : \E i \in W : w[n] = Listed[i]
  <2>1. w = At(Listed, W)
    BY DEF Wanted
  <2>2. W \in SUBSET (1..2) /\ 2 \in Nat
    BY <1>1
  <2> HIDE DEF w, W
  <2> QED BY <2>1, <2>2, AtWithin
<1>3. \A n \in 1..Cardinality(W) : w[n] \in Gated
  BY <1>1, <1>2
<1> DEFINE l == Cardinality(W)
<1> HIDE DEF W, w, l
<1>4. Runnable(c) = At(w, T)
  BY DEF Runnable, w
<1>5. T \in SUBSET (1..l) /\ l \in Nat /\ DOMAIN w = 1..l /\ \A n \in 1..l : w[n] \in Gated
  BY <1>2, <1>3 DEF l
<1> HIDE DEF T
<1>6. /\ DOMAIN At(w, T) = 1..Cardinality(T) /\ Cardinality(T) \in Nat /\ Len(At(w, T)) = Cardinality(T)
      /\ \A n \in 1..Cardinality(T) : \E i \in T : At(w, T)[n] = w[i]
  BY ONLY <1>5, AtWithin
<1>7. \A n \in 1..Cardinality(T) : At(w, T)[n] \in Gated
  BY ONLY <1>5, <1>6
<1> QED BY ONLY <1>4, <1>6, <1>7

\* What the job over them comes to: a result for each check up to the one it ends at.
LEMMA ResultFacts ==
    ASSUME NEW c, c.comes \in [Gated -> ComesTo]
    PROVE  /\ Len(Results(c)) \in 0..Len(Runnable(c)) /\ DOMAIN Results(c) = 1..Len(Results(c))
           /\ \A i \in 1..Len(Results(c)) :
                 /\ c.pressed = i => Results(c)[i].came = "cancelled"
                 /\ c.pressed # i => Results(c)[i].came \in ComesTo
                 /\ Results(c)[i].check = Runnable(c)[i]
           /\ (\A i \in 1..Len(Results(c)) : c.pressed # i /\ Results(c)[i].came # "raises")
                 => Len(Results(c)) = Len(Runnable(c))
<1> DEFINE run == Runnable(c)
           ends(i) == c.comes[run[i]] = "raises" \/ c.pressed = i
           last == IF \E i \in DOMAIN run : ends(i)
                   THEN CHOOSE i \in DOMAIN run : ends(i) /\ \A j \in 1..i - 1 : ~ends(j)
                   ELSE Len(run)
           came(i) == IF c.pressed = i THEN "cancelled" ELSE c.comes[run[i]]
<1>1. Len(run) \in Nat /\ DOMAIN run = 1..Len(run) /\ \A i \in 1..Len(run) : run[i] \in Gated
  BY RunnableFacts
<1>2. Results(c) = [i \in 1..last |-> [check |-> run[i], came |-> came(i)]]
  BY DEF Results
<1> HIDE DEF run
<1>3. last \in 0..Len(run) /\ (last = Len(run) \/ (last \in 1..Len(run) /\ ends(last)))
  <2>1. CASE \E i \in DOMAIN run : ends(i)
    <3> DEFINE E == {i \in DOMAIN run : ends(i)}
    <3>1. E \in SUBSET Nat /\ E # {}
      BY <1>1, <2>1
    <3>2. PICK i \in E : \A j \in E : i <= j
      <4> HIDE DEF E
      <4> QED BY <3>1, Least
    <3>3. i \in DOMAIN run /\ ends(i)
      OBVIOUS
    <3>4. \A j \in 1..i - 1 : ~ends(j)
      <4> SUFFICES ASSUME NEW j \in 1..i - 1, ends(j) PROVE FALSE
        OBVIOUS
      <4>1. j \in DOMAIN run
        BY <1>1, <3>3
      <4>2. j \in E
        BY <4>1
      <4> HIDE DEF E
      <4> QED BY <1>1, <3>2, <3>3, <4>2
    <3> HIDE DEF ends, E
    <3>5. last \in DOMAIN run /\ ends(last)
      BY <2>1, <3>3, <3>4
    <3> QED BY ONLY <1>1, <3>5
  <2>2. CASE ~\E i \in DOMAIN run : ends(i)
    <3>1. last = Len(run)
      BY <2>2
    <3> HIDE DEF last
    <3> QED BY ONLY <1>1, <3>1
  <2> QED BY <2>1, <2>2
<1>10. last \in 0..Len(run) /\ last \in Nat
  <2> HIDE DEF last, ends
  <2>1. last \in 0..Len(run)
    BY ONLY <1>3
  <2> QED BY ONLY <1>1, <2>1
<1>8. last = Len(run) \/ (last \in 1..last /\ (c.pressed = last \/ came(last) = "raises"))
  <2> HIDE DEF last
  <2>1. \A i : ends(i) => c.pressed = i \/ came(i) = "raises"
    OBVIOUS
  <2> HIDE DEF ends, came
  <2>2. last \in 1..Len(run) => last \in 1..last
    BY ONLY <1>1
  <2> QED BY ONLY <1>3, <2>1, <2>2
<1> HIDE DEF last
<1>4. \A i \in 1..last : c.pressed # i => came(i) \in ComesTo
  <2>1. \A i \in 1..last : run[i] \in Gated
    BY ONLY <1>1, <1>10
  <2> QED BY <2>1
<1>5. \A i \in 1..last : c.pressed = i => came(i) = "cancelled"
  OBVIOUS
<1> HIDE DEF came
<1>6. Len(Results(c)) = last /\ DOMAIN Results(c) = 1..last
  <2> DEFINE g(i) == [check |-> run[i], came |-> came(i)]
  <2>1. Results(c) = [i \in 1..last |-> g(i)]
    BY <1>2
  <2> HIDE DEF g
  <2> QED BY ONLY <1>10, <2>1
<1>7. \A i \in 1..last : Results(c)[i].came = came(i) /\ Results(c)[i].check = run[i]
  BY <1>2
<1>9. (\A i \in 1..last : c.pressed # i /\ Results(c)[i].came # "raises") => last = Len(run)
  BY <1>7, <1>8
<1> QED BY <1>3, <1>4, <1>5, <1>6, <1>7, <1>9 DEF run

\* A gate that ran names what it found; what it could not know it says.
LEMMA GateFindings == EdgeIInv /\ Answered("findings_command") =>
    /\ answer.exit = <<EXIT_FAILED>> /\ call.place # "shut" =>
          ~call.partial /\ call.warn + call.note > 0
    /\ answer.exit = <<EXIT_OK>> /\ call.failOn # "no" =>
          /\ call.place = "open" /\ ~call.partial
          /\ call.warn = 0 /\ (call.failOn = "note" => call.note = 0)
    /\ answer.exit = <<EXIT_INCOMPLETE>> => call.partial
<1> SUFFICES ASSUME EdgeIInv, Answered("findings_command")
             PROVE  /\ answer.exit = <<EXIT_FAILED>> /\ call.place # "shut" =>
                          ~call.partial /\ call.warn + call.note > 0
                    /\ answer.exit = <<EXIT_OK>> /\ call.failOn # "no" =>
                          /\ call.place = "open" /\ ~call.partial
                          /\ call.warn = 0 /\ (call.failOn = "note" => call.note = 0)
                    /\ answer.exit = <<EXIT_INCOMPLETE>> => call.partial
  OBVIOUS
<1> DEFINE code == FindingsCode(call)
<1>1. call \in FindingsCommands /\ answer = [exit |-> <<code>>]
  BY EdgeCallFacts DEF Answered, EdgeIInv
<1>2. call.warn \in 0..1 /\ call.note \in 0..1 /\ call.partial \in BOOLEAN /\ call.place \in Place
  BY <1>1 DEF FindingsCommands
<1>3. \A x : answer.exit = <<x>> => x = code
  BY <1>1
<1>4. /\ EXIT_OK = 0 /\ EXIT_FAILED = 1 /\ EXIT_USAGE = 2 /\ EXIT_INCOMPLETE = 3
  BY DEF EXIT_OK, EXIT_FAILED, EXIT_USAGE, EXIT_INCOMPLETE
<1>5. code = EXIT_FAILED /\ call.place # "shut" => ~call.partial /\ (call.warn > 0 \/ call.note > 0)
  BY <1>2, <1>4 DEF FindingsCode
<1>6. code = EXIT_OK /\ call.failOn # "no" =>
          /\ call.place = "open" /\ ~call.partial
          /\ ~(call.warn > 0) /\ (call.failOn = "note" => ~(call.note > 0))
  BY <1>2, <1>4 DEF FindingsCode, Place, Missing
<1>7. code = EXIT_INCOMPLETE => call.partial
  BY <1>4 DEF FindingsCode
<1> HIDE DEF code
<1> QED BY <1>2, <1>3, <1>5, <1>6, <1>7

\* What the checks reported, of what their job came to.
LEMMA ReportedFacts ==
    ASSUME NEW c, c.comes \in [Gated -> ComesTo]
    PROVE  /\ \A r \in ToSet(Reported(c)) : r.came \in (ComesTo \ {"raises"}) \cup {"cancelled"}
           /\ \A r \in ToSet(Reported(c)) : r.came = "cancelled" => Interrupted(c)
           /\ \A outcomes : Came(c, outcomes) \in Nat
           /\ \A outcomes : (Came(c, outcomes) > 0) <=> \E r \in ToSet(Reported(c)) : r.came \in outcomes
           /\ Runnable(c) = <<>> => Reported(c) = <<>>
           /\ ~Interrupted(c) /\ (\A x \in ToSet(Results(c)) : x.came # "raises")
                 => {x.check : x \in ToSet(Reported(c))} = ToSet(Runnable(c))
<1> DEFINE r == Results(c)
           l == Len(Results(c))
           T == {i \in DOMAIN r : r[i].came # "raises"}
           w == Reported(c)
<1>1. /\ l \in 0..Len(Runnable(c)) /\ DOMAIN r = 1..l
      /\ \A i \in 1..l : /\ c.pressed = i => r[i].came = "cancelled"
                         /\ c.pressed # i => r[i].came \in ComesTo
                         /\ r[i].check = Runnable(c)[i]
      /\ (\A i \in 1..l : c.pressed # i /\ r[i].came # "raises") => l = Len(Runnable(c))
  BY ResultFacts
<1>2. l \in Nat /\ (Runnable(c) = <<>> => l = 0)
  <2>1. Len(Runnable(c)) \in Nat /\ (Runnable(c) = <<>> => Len(Runnable(c)) = 0)
    BY RunnableFacts
  <2> HIDE DEF l
  <2> QED BY <1>1, <2>1
<1>3. w = At(r, T)
  BY DEF Reported
<1>4. Interrupted(c) <=> c.pressed \in 1..l
  BY DEF Interrupted
<1> HIDE DEF w, r, l
<1>5. T \in SUBSET (1..l)
  BY <1>1
<1>6. \A i \in T : r[i].came # "raises" /\ i \in 1..l
  BY <1>1
<1> HIDE DEF T
<1>7. /\ DOMAIN w = 1..Cardinality(T) /\ Cardinality(T) \in Nat
      /\ ToSet(w) = {r[i] : i \in T} /\ (T = {} => w = <<>>)
  BY <1>2, <1>3, <1>5, AtWithin
<1>8. ASSUME NEW x \in ToSet(w)
      PROVE  /\ x.came \in (ComesTo \ {"raises"}) \cup {"cancelled"}
             /\ x.came = "cancelled" => Interrupted(c)
  <2>1. PICK i \in T : x = r[i]
    BY <1>7
  <2>2. i \in 1..l /\ r[i].came # "raises"
    BY <1>6
  <2>3. "cancelled" \notin ComesTo
    BY DEF ComesTo
  <2> QED BY <1>1, <1>4, <2>1, <2>2, <2>3
<1>9. ASSUME NEW outcomes
      PROVE  Came(c, outcomes) \in Nat /\ ((Came(c, outcomes) > 0) <=> \E x \in ToSet(w) : x.came \in outcomes)
  <2> DEFINE C == {i \in DOMAIN w : w[i].came \in outcomes}
  <2>1. Came(c, outcomes) = Cardinality(C)
    BY DEF Came, w
  <2>2. C \in SUBSET (1..Cardinality(T))
    BY <1>7
  <2>3. C # {} <=> \E x \in ToSet(w) : x.came \in outcomes
    BY DEF ToSet
  <2> HIDE DEF C
  <2>4. IsFiniteSet(C) /\ Cardinality(C) \in Nat
    BY <1>7, <2>2, PlacesFinite
  <2>5. Cardinality(C) = 0 <=> C = {}
    BY <2>4, FS_EmptySet
  <2> QED BY <2>1, <2>3, <2>4, <2>5
<1>10. Runnable(c) = <<>> => w = <<>>
  BY <1>2, <1>5, <1>7
<1>11. ASSUME ~Interrupted(c), \A x \in ToSet(r) : x.came # "raises"
       PROVE  {x.check : x \in ToSet(w)} = ToSet(Runnable(c))
  <2>1. \A i \in 1..l : c.pressed # i /\ r[i].came # "raises"
    BY <1>1, <1>4, <1>11 DEF ToSet
  <2>2. T = 1..l
    BY <1>1, <2>1 DEF T
  <2>3. l = Len(Runnable(c)) /\ DOMAIN Runnable(c) = 1..l
    BY <1>1, <2>1, RunnableFacts
  <2>4. \A x \in ToSet(w) : \E i \in 1..l : x.check = Runnable(c)[i]
    BY <1>1, <1>7, <2>2
  <2>5. \A i \in 1..l : \E x \in ToSet(w) : x.check = Runnable(c)[i]
    BY <1>1, <1>7, <2>2
  <2>6. ToSet(Runnable(c)) = {Runnable(c)[i] : i \in 1..l}
    BY <2>3 DEF ToSet
  <2> QED BY ONLY <2>4, <2>5, <2>6
<1> QED BY <1>8, <1>9, <1>10, <1>11 DEF w, r

\* The gate of the checks: what its exit says of the job and of what the checks reported.
LEMMA GateChecks == EdgeIInv /\ Answered("check_command") =>
    LET All(outcomes) == \A r \in ToSet(answer.results) : r.came \in outcomes
        looked == {r.check : r \in ToSet(answer.results)}
    IN  /\ answer.exit = <<EXIT_FAILED>> =>
              IF answer.job = "none" THEN call.place = "shut" \/ call.opens = 0
              ELSE All({"clean", "note", "warn"}) /\ ~All({"clean"})
        /\ answer.exit = <<EXIT_OK>> /\ call.failOn # "no" /\ ~call.quote =>
              /\ All(IF call.failOn = "any" THEN {"clean"} ELSE {"clean", "note"})
              /\ answer.job \in {"done", "failed"}
              /\ answer.job = "done" => looked = ToSet(Runnable(call))
        /\ ~All({"clean", "note", "warn", "failed", "unsupported"}) => answer.exit = <<EXIT_INCOMPLETE>>
        /\ answer.exit = <<EXIT_USAGE>> \/ call.quote => answer.results = <<>>
<1> SUFFICES ASSUME EdgeIInv, Answered("check_command")
             PROVE
    LET All(outcomes) == \A r \in ToSet(answer.results) : r.came \in outcomes
        looked == {r.check : r \in ToSet(answer.results)}
    IN  /\ answer.exit = <<EXIT_FAILED>> =>
              IF answer.job = "none" THEN call.place = "shut" \/ call.opens = 0
              ELSE All({"clean", "note", "warn"}) /\ ~All({"clean"})
        /\ answer.exit = <<EXIT_OK>> /\ call.failOn # "no" /\ ~call.quote =>
              /\ All(IF call.failOn = "any" THEN {"clean"} ELSE {"clean", "note"})
              /\ answer.job \in {"done", "failed"}
              /\ answer.job = "done" => looked = ToSet(Runnable(call))
        /\ ~All({"clean", "note", "warn", "failed", "unsupported"}) => answer.exit = <<EXIT_INCOMPLETE>>
        /\ answer.exit = <<EXIT_USAGE>> \/ call.quote => answer.results = <<>>
  OBVIOUS
<1> DEFINE exit == CheckCode(call)
           job == JobState(call)
           results == Reads(call)
           reported == Reported(call)
           lost == Came(call, {"failed", "unsupported"}) > 0
           bad == Came(call, IF call.failOn = "warn" THEN {"warn"} ELSE {"warn", "note"}) > 0
           broke == \E r \in ToSet(Results(call)) : r.came = "raises"
           wrong == call.unknown \/ call.place \in Missing
           idle == Runnable(call) = <<>>
           ran == ~wrong /\ call.place # "shut" /\ ~call.quote /\ ~idle /\ call.opens = 2
<1>1. call \in CheckCommands /\ answer = [exit |-> exit, job |-> job, results |-> results]
  BY EdgeCallFacts DEF Answered, EdgeIInv
<1>2. /\ call.comes \in [Gated -> ComesTo] /\ call.failOn \in {"no", "warn", "any"}
      /\ call.quote \in BOOLEAN /\ call.opens \in 0..2 /\ call.place \in Place
  BY <1>1 DEF CheckCommands
<1>3. /\ \A r \in ToSet(reported) : r.came \in (ComesTo \ {"raises"}) \cup {"cancelled"}
      /\ \A r \in ToSet(reported) : r.came = "cancelled" => Interrupted(call)
      /\ lost <=> \E r \in ToSet(reported) : r.came \in {"failed", "unsupported"}
      /\ bad <=> \E r \in ToSet(reported) :
                     r.came \in IF call.failOn = "warn" THEN {"warn"} ELSE {"warn", "note"}
      /\ ~Interrupted(call) /\ ~broke => {r.check : r \in ToSet(reported)} = ToSet(Runnable(call))
  BY <1>2, ReportedFacts
<1>4. answer.exit = exit /\ answer.job = job /\ answer.results = results
  BY <1>1
<1> DEFINE ok == <<EXIT_OK>>
           failed == <<EXIT_FAILED>>
           usage == <<EXIT_USAGE>>
           incomplete == <<EXIT_INCOMPLETE>>
           none == <<>>
<1>5. exit = IF wrong THEN usage ELSE IF call.place = "shut" THEN failed
             ELSE IF call.quote THEN ok
             ELSE IF idle THEN usage ELSE IF call.opens = 0 THEN failed
             ELSE IF call.opens = 1 THEN none
             ELSE IF Interrupted(call) THEN incomplete
             ELSE IF call.failOn = "no" THEN ok
             ELSE IF lost THEN incomplete ELSE IF bad THEN failed ELSE ok
  BY DEF CheckCode
<1>6. Submitted(call) <=> ~wrong /\ call.place # "shut" /\ ~call.quote /\ ~idle /\ call.opens > 0
  BY <1>2 DEF Submitted, Place, Missing
<1>7. results = IF ran THEN reported ELSE <<>>
  BY <1>2, <1>6 DEF Reads
<1>8. /\ ran => job = IF Interrupted(call) THEN "cancelled" ELSE IF broke THEN "failed" ELSE "done"
      /\ ~Submitted(call) <=> job = "none"
  BY <1>2, <1>6 DEF JobState
<1>9. /\ ok # failed /\ ok # usage /\ ok # incomplete /\ ok # none
      /\ failed # usage /\ failed # incomplete /\ failed # none
      /\ usage # incomplete /\ usage # none /\ incomplete # none
  BY DEF EXIT_OK, EXIT_FAILED, EXIT_USAGE, EXIT_INCOMPLETE
<1>10. ToSet(<<>>) = {}
  BY DEF ToSet
<1>11. ComesTo = {"clean", "note", "warn", "failed", "unsupported", "raises"}
  BY DEF ComesTo
<1>12. ran <=> ~wrong /\ call.place # "shut" /\ ~call.quote /\ ~idle /\ call.opens = 2
  OBVIOUS
<1>17. answer.exit = exit /\ <<EXIT_OK>> = ok /\ <<EXIT_FAILED>> = failed
       /\ <<EXIT_USAGE>> = usage /\ <<EXIT_INCOMPLETE>> = incomplete
  BY <1>4
<1> HIDE DEF exit, job, results, reported, lost, bad, broke, wrong, idle, ran, ok, failed, usage, incomplete, none
<1>13. ASSUME exit = failed
       PROVE  IF job = "none" THEN call.place = "shut" \/ call.opens = 0
              ELSE /\ \A r \in ToSet(results) : r.came \in {"clean", "note", "warn"}
                   /\ ~(\A r \in ToSet(results) : r.came \in {"clean"})
  <2>1. CASE job = "none"
    BY <1>2, <1>5, <1>6, <1>8, <1>9, <1>13, <2>1
  <2>2. CASE job # "none"
    <3>1. ran /\ ~Interrupted(call) /\ ~lost /\ bad
      BY <1>2, <1>5, <1>6, <1>8, <1>9, <1>12, <1>13, <2>2
    <3>2. results = reported
      BY <1>7, <3>1
    <3> QED BY <1>3, <1>11, <2>2, <3>1, <3>2
  <2> QED BY <2>1, <2>2
<1>14. ASSUME exit = ok, call.failOn # "no", ~call.quote
       PROVE  /\ \A r \in ToSet(results) :
                     r.came \in IF call.failOn = "any" THEN {"clean"} ELSE {"clean", "note"}
              /\ job \in {"done", "failed"}
              /\ job = "done" => {r.check : r \in ToSet(results)} = ToSet(Runnable(call))
  <2>1. ran /\ ~Interrupted(call) /\ ~lost /\ ~bad
    BY <1>2, <1>5, <1>9, <1>12, <1>14
  <2>2. results = reported
    BY <1>7, <2>1
  <2>3. job \in {"done", "failed"} /\ (job = "done" => ~broke)
    BY <1>8, <2>1
  <2>4. \A r \in ToSet(results) :
            r.came \in IF call.failOn = "any" THEN {"clean"} ELSE {"clean", "note"}
    BY <1>2, <1>3, <1>11, <1>14, <2>1, <2>2
  <2>5. job = "done" => {r.check : r \in ToSet(results)} = ToSet(Runnable(call))
    BY <1>3, <2>1, <2>2, <2>3
  <2> QED BY <2>3, <2>4, <2>5
<1>15. ASSUME ~(\A r \in ToSet(results) : r.came \in {"clean", "note", "warn", "failed", "unsupported"})
       PROVE  exit = incomplete
  <2>1. PICK r \in ToSet(results) : r.came \notin {"clean", "note", "warn", "failed", "unsupported"}
    BY <1>15
  <2>2. ran /\ results = reported
    BY <1>7, <1>10, <2>1
  <2>3. Interrupted(call)
    BY <1>3, <1>11, <2>1, <2>2
  <2> QED BY <1>5, <1>12, <2>2, <2>3
<1>16. ASSUME exit = usage \/ call.quote PROVE results = <<>>
  <2>1. ~ran
    BY <1>5, <1>9, <1>12, <1>16
  <2> QED BY <1>7, <2>1
<1> QED BY <1>4, <1>13, <1>14, <1>15, <1>16, <1>17

LEMMA EdgeIngests == EdgeIInv => IngestTellsWhatItLeft
<1> SUFFICES ASSUME EdgeIInv, Answered("ingest_command") PROVE IngestTellsWhatItLeft
  BY DEF IngestTellsWhatItLeft
<1> DEFINE code == IngestCode(call)
           writes == Writes(call)
           place == Destination(call)
<1>1. call \in IngestCalls /\ answer = [exit |-> <<code>>, rows |-> writes, destination |-> place]
  BY EdgeCallFacts DEF Answered, EdgeIInv
<1>2. /\ call.rows \in 0..1 /\ call.presses \in 0..2
      /\ call.cancelled => call.presses = 1
  BY <1>1 DEF IngestCalls
<1>3. /\ EXIT_OK = 0 /\ EXIT_FAILED = 1 /\ EXIT_USAGE = 2 /\ EXIT_CANCELLED = 130
  BY DEF EXIT_OK, EXIT_FAILED, EXIT_USAGE, EXIT_CANCELLED
<1>4. /\ code = EXIT_OK => call.dry \/ (writes > 0 /\ ~call.cancelled)
      /\ code = EXIT_USAGE => writes = 0
      /\ code = EXIT_CANCELLED => call.presses > 0
      /\ writes > 0 => ~call.readOnly
      /\ place \in {"folder", "beside", "home"}
  BY <1>2, <1>3 DEF IngestCode, Writes, Refused, Destination
<1>5. \A x, y : <<x>> = <<y>> => x = y
  OBVIOUS
<1> HIDE DEF code, writes, place
<1>6. answer.exit = <<code>> /\ answer.rows = writes /\ answer.destination = place
  BY ONLY <1>1
<1> QED BY <1>4, <1>5, <1>6 DEF IngestTellsWhatItLeft

LEMMA EdgeDocuments == EdgeIInv => DocumentsAndPlacesAreWhole
<1> SUFFICES ASSUME EdgeIInv PROVE DocumentsAndPlacesAreWhole
  OBVIOUS
<1>1. ASSUME Answered("report_command")
      PROVE  answer.stdout = (IF answer.exit = <<EXIT_OK>> THEN <<"document">> ELSE <<>>)
  <2>1. answer = Report(call)
    BY <1>1 DEF Answered, EdgeIInv
  <2> DEFINE notes == {n \in {"warnings", "incomplete"} : call.command = "run-config" /\ ~call.json
                          /\ (n = "warnings" => call.warn > 0) /\ (n = "incomplete" => call.partial)}
                      \cup {n \in {"redacted"} : call.command = "bundle" /\ ~call.paths}
             fine == call.place = "open" /\ call.columns # "unknown"
  <2>2. answer = IF fine THEN [exit |-> <<EXIT_OK>>, stdout |-> <<"document">>, stderr |-> notes]
                 ELSE IF call.place = "shut"
                 THEN [exit |-> <<EXIT_FAILED>>, stdout |-> <<>>, stderr |-> {"traceback"}]
                 ELSE [exit |-> <<EXIT_USAGE>>, stdout |-> <<>>, stderr |-> {"refusal"}]
    BY <2>1 DEF Report
  <2> HIDE DEF notes, fine
  <2>3. <<EXIT_OK>> # <<EXIT_USAGE>> /\ <<EXIT_OK>> # <<EXIT_FAILED>>
    BY DEF EXIT_OK, EXIT_USAGE, EXIT_FAILED
  <2> QED BY <2>2, <2>3
<1>2. ASSUME Answered("open_command"), answer.serves, answer.table > 0
      PROVE  /\ call.path[answer.table] = "t"
             /\ answer.root < answer.table
             /\ \A i \in answer.table + 1..Len(call.path) : call.path[i] = "d"
  <2> DEFINE p == call.path
             target == OpenTarget(call)
             code == IF target.error \/ (p = <<>> /\ ~call.configured) THEN <<EXIT_USAGE>>
                     ELSE IF ~call.ui THEN <<EXIT_FAILED>> ELSE <<>>
             serves == code = <<>>
  <2>1. call \in OpenCalls /\ answer = Open(call)
    BY <1>2, EdgeCallFacts DEF Answered, EdgeIInv
  <2>2. Len(p) \in Nat /\ DOMAIN p = 1..Len(p) /\ \A i \in 1..Len(p) : p[i] \in {"d", "t"}
    <3> DEFINE Paths == UNION {[1..n -> {"d", "t"}] : n \in 0..3}
    <3>1. p \in Paths
      <4> HIDE DEF Paths
      <4> QED BY <2>1 DEF OpenCalls, Paths
    <3>2. PICK n \in 0..3 : p \in [1..n -> {"d", "t"}]
      BY <3>1
    <3> QED BY <3>2
  <2>3. answer = [exit |-> code, serves |-> serves, error |-> target.error, root |-> target.root,
                  table |-> target.table]
    BY <2>1 DEF Open
  <2>4. answer.table = target.table /\ answer.root = target.root
    <3> HIDE DEF serves, code, target
    <3> QED BY ONLY <2>3
  <2> DEFINE T == {i \in 1..Len(p) : p[i] = "t"}
             last == Innermost(p)
             lost == p # <<>> /\ call.there # "tables"
  <2>5. /\ "t" \in ToSet(p) => target.table = last /\ target.root = last - 1
        /\ "t" \notin ToSet(p) => target.table = 0
    <3>1. target = IF "t" \in ToSet(p) THEN [error |-> FALSE, root |-> last - 1, table |-> last]
                   ELSE [error |-> lost, root |-> Len(p), table |-> 0]
      BY DEF OpenTarget
    <3> HIDE DEF lost, last, target, p
    <3> QED BY ONLY <3>1
  <2> HIDE DEF target, p
  <2>6. "t" \in ToSet(p)
    BY <1>2, <2>4, <2>5
  <2>7. T # {} /\ T \in SUBSET Nat /\ IsFiniteSet(T) /\ T \in SUBSET Int
    <3>1. T # {}
      BY <2>2, <2>6 DEF ToSet
    <3>2. T \in SUBSET (1..Len(p))
      OBVIOUS
    <3> HIDE DEF T
    <3>3. T \in SUBSET Nat /\ IsFiniteSet(T)
      BY <2>2, <3>2, PlacesFinite
    <3> QED BY <3>1, <3>3
  <2>8. PICK m \in T : \A j \in T : j <= m
    <3> HIDE DEF T
    <3> QED BY ONLY <2>7, Greatest
  <2>9. m \in 1..Len(p) /\ p[m] = "t" /\ \A j \in m + 1..Len(p) : p[j] # "t"
    <3>1. m \in 1..Len(p) /\ p[m] = "t"
      OBVIOUS
    <3>2. ASSUME NEW j \in m + 1..Len(p), p[j] = "t" PROVE FALSE
      <4>1. j \in T /\ j > m
        BY <2>2, <3>1, <3>2
      <4> HIDE DEF T
      <4> QED BY <2>7, <2>8, <4>1
    <3> QED BY <3>1, <3>2
  <2>10. last \in 1..Len(p) /\ p[last] = "t" /\ \A j \in last + 1..Len(p) : p[j] # "t"
    <3>1. \E i \in DOMAIN p : p[i] = "t" /\ \A j \in i + 1..Len(p) : p[j] # "t"
      BY <2>2, <2>9
    <3> QED BY <2>2, <3>1 DEF Innermost
  <2> HIDE DEF last
  <2>11. answer.table = last /\ answer.root = last - 1
    BY <2>4, <2>5, <2>6
  <2>12. answer.root < answer.table
    BY ONLY <2>10, <2>11, <2>2
  <2>13. \A i \in last + 1..Len(p) : i \in 1..Len(p) /\ p[i] = "d"
    BY <2>2, <2>10
  <2> QED BY <2>10, <2>11, <2>12, <2>13 DEF p
<1> QED BY <1>1, <1>2 DEF DocumentsAndPlacesAreWhole

LEMMA EdgeCommands == EdgeIInv => CommandsAreHonest
<1> SUFFICES ASSUME EdgeIInv PROVE CommandsAreHonest
  OBVIOUS
<1>1. GatesTellFactsFromGaps
  BY GateFindings, GateChecks DEF GatesTellFactsFromGaps
<1> QED BY <1>1, EdgeIngests, EdgeDocuments DEF CommandsAreHonest

--------------------------------------------------------------------------
(* What is under a root, and which adapter serves it. *)

\* What is found wrong with an adapter is wrong with it.
LEMMA FaultFacts ==
    ASSUME NEW faults, faults \subseteq {"constructs", "raises", "api", "scheme", "prefix", "remote", "methods"},
           faults # {}
    PROVE  FirstFault(faults) \in faults
<1> DEFINE T == {i \in 1..7 : Fault[i] \in faults}
<1>1. DOMAIN Fault = 1..7
  BY DEF Fault
<1>2. T # {} /\ T \in SUBSET Nat
  <2>1. PICK f \in faults : TRUE
    OBVIOUS
  <2>2. \E i \in 1..7 : Fault[i] = f
    BY DEF Fault
  <2> QED BY <2>1, <2>2
<1>3. PICK i \in T : \A j \in T : i <= j
  BY ONLY <1>2, Least
<1>4. \A j \in 1..i - 1 : Fault[j] \notin faults
  <2>1. \A j \in 1..i - 1 : j \in 1..7 /\ ~(i <= j)
    BY <1>3
  <2> QED BY <1>3, <2>1
<1> QED BY <1>1, <1>3, <1>4 DEF FirstFault

\* The adapters that were offered first: how many of them are served and refused, which is
\* served, and why the others are not.
Fit(o) == o.faults = {} /\ o.scheme = "new"

Serves(s, by, offered, n) ==
    s = "new" /\ \E i \in 1..n : Fit(offered[i]) /\ by = offered[i].by
                                 /\ \A j \in 1..n : Fit(offered[j]) => i <= j

Explains(x, serves, offered, n) ==
    \E i \in 1..n :
        /\ offered[i].by = x.by
        /\ \/ x.why \in offered[i].faults
           \/ /\ x.why = "taken" /\ offered[i].scheme \in DOMAIN serves
              /\ serves[offered[i].scheme] # offered[i].by

Adapters(r, offered, n) ==
    /\ r = [serves |-> r.serves, rejected |-> r.rejected]
    /\ BuiltIn \subseteq DOMAIN r.serves /\ \A s \in BuiltIn : r.serves[s] = "built-in"
    /\ r.rejected = [i \in 1..Len(r.rejected) |-> r.rejected[i]] /\ Len(r.rejected) \in Nat
    /\ IsFiniteSet(DOMAIN r.serves \ BuiltIn)
    /\ Cardinality(DOMAIN r.serves \ BuiltIn) + Len(r.rejected) = n
    /\ \A s \in DOMAIN r.serves \ BuiltIn : Serves(s, r.serves[s], offered, n)
    /\ "new" \notin DOMAIN r.serves => \A j \in 1..n : ~Fit(offered[j])
    /\ \A k \in 1..Len(r.rejected) : Explains(r.rejected[k], r.serves, offered, n)

Offers(offered) ==
    /\ offered = [i \in 1..Len(offered) |-> offered[i]] /\ Len(offered) \in Nat
    /\ \A i \in 1..Len(offered) :
          /\ offered[i].scheme \in {"hf", "new"} /\ offered[i].by \in {"p", "q"}
          /\ "import" \notin offered[i].faults =>
                offered[i].faults \subseteq {"constructs", "raises", "api", "scheme", "prefix", "remote", "methods"}
    /\ \A i, j \in 1..Len(offered) : i # j => offered[i].by # offered[j].by

LEMMA RejectFacts ==
    ASSUME NEW r, NEW offered, Offers(offered), NEW n \in 1..Len(offered), Adapters(r, offered, n - 1),
           NEW why,
           why \in offered[n].faults
             \/ (why = "taken" /\ offered[n].scheme \in DOMAIN r.serves
                 /\ r.serves[offered[n].scheme] # offered[n].by),
           offered[n].faults # {} \/ offered[n].scheme \in BuiltIn \/ "new" \in DOMAIN r.serves
    PROVE  Adapters(Reject(r, offered[n], why), offered, n)
<1> DEFINE e == [scheme |-> offered[n].scheme, by |-> offered[n].by, why |-> why]
           t == Reject(r, offered[n], why)
           l == Len(r.rejected)
           o == offered[n]
<1>1. t.serves = r.serves /\ t.rejected = Append(r.rejected, e) /\ t = [serves |-> t.serves, rejected |-> t.rejected]
  <2>1. r = [serves |-> r.serves, rejected |-> r.rejected]
    BY DEF Adapters
  <2>2. t = [serves |-> r.serves, rejected |-> Append(r.rejected, e)]
    BY <2>1 DEF Reject
  <2> HIDE DEF t, e
  <2> QED BY ONLY <2>2
<1>2. /\ Len(t.rejected) = l + 1 /\ l \in Nat
      /\ t.rejected = [i \in 1..Len(t.rejected) |-> t.rejected[i]]
      /\ \A k \in 1..l : t.rejected[k] = r.rejected[k]
      /\ t.rejected[l + 1] = e
  <2> DEFINE a == r.rejected
             b == Append(a, e)
             V == {a[i] : i \in 1..l} \cup {e}
  <2>1. a = [i \in 1..l |-> a[i]] /\ l \in Nat
    BY DEF Adapters
  <2>2. a \in Seq(V) /\ e \in V
    BY <2>1
  <2> HIDE DEF V
  <2>3. b \in Seq(V) /\ Len(b) = l + 1 /\ (\A k \in 1..l : b[k] = a[k]) /\ b[l + 1] = e
    BY <2>2, AppendFacts
  <2>4. b = [i \in 1..Len(b) |-> b[i]]
    BY <2>3, LenProperties
  <2> HIDE DEF b, t, e
  <2> QED BY <1>1, <2>1, <2>3, <2>4
<1>3. e.by = o.by /\ e.why = why
  OBVIOUS
<1> HIDE DEF t, e
<1>4. n \in Nat /\ 1..n = (1..n - 1) \cup {n} /\ n \notin 1..n - 1 /\ n \in 1..Len(offered)
  BY DEF Offers
<1>5. "new" \notin DOMAIN r.serves => ~Fit(o)
  BY DEF BuiltIn, Fit
<1>6. ASSUME NEW s \in DOMAIN t.serves \ BuiltIn PROVE Serves(s, t.serves[s], offered, n)
  <2>1. Serves(s, t.serves[s], offered, n - 1)
    BY <1>1, <1>6 DEF Adapters
  <2>2. PICK i \in 1..n - 1 : Fit(offered[i]) /\ t.serves[s] = offered[i].by
                              /\ \A j \in 1..n - 1 : Fit(offered[j]) => i <= j
    BY <2>1 DEF Serves
  <2>3. i <= n /\ i \in 1..n
    BY <1>4
  <2>4. s = "new"
    BY <2>1 DEF Serves
  <2> QED BY <1>4, <2>2, <2>3, <2>4 DEF Serves
<1>7. "new" \notin DOMAIN t.serves => \A j \in 1..n : ~Fit(offered[j])
  <2>1. "new" \notin DOMAIN r.serves => \A j \in 1..n - 1 : ~Fit(offered[j])
    BY DEF Adapters
  <2> QED BY <1>1, <1>4, <1>5, <2>1
<1>8. ASSUME NEW k \in 1..l + 1 PROVE Explains(t.rejected[k], t.serves, offered, n)
  <2>1. \A x \in 1..l : Explains(r.rejected[x], r.serves, offered, n - 1)
    BY DEF Adapters
  <2>2. \A x : Explains(x, r.serves, offered, n - 1) => Explains(x, r.serves, offered, n)
    BY <1>4 DEF Explains
  <2>3. CASE k = l + 1
    <3>1. Explains(e, r.serves, offered, n)
      BY <1>3, <1>4 DEF Explains
    <3> QED BY <1>1, <1>2, <2>3, <3>1
  <2>4. CASE k # l + 1
    <3>1. k \in 1..l
      BY <1>2, <2>4
    <3> QED BY <1>1, <1>2, <2>1, <2>2, <3>1
  <2> QED BY <2>3, <2>4
<1>9. /\ IsFiniteSet(DOMAIN t.serves \ BuiltIn)
      /\ Cardinality(DOMAIN t.serves \ BuiltIn) + Len(t.rejected) = n
  <2>1. /\ IsFiniteSet(DOMAIN t.serves \ BuiltIn)
        /\ Cardinality(DOMAIN t.serves \ BuiltIn) + l = n - 1
    BY <1>1 DEF Adapters
  <2>2. Cardinality(DOMAIN t.serves \ BuiltIn) \in Nat
    BY <2>1, FS_CardinalityType
  <2> QED BY <1>2, <1>4, <2>1, <2>2
<1>10. BuiltIn \subseteq DOMAIN t.serves /\ \A s \in BuiltIn : t.serves[s] = "built-in"
  BY <1>1 DEF Adapters
<1>11. \A k \in 1..Len(t.rejected) : Explains(t.rejected[k], t.serves, offered, n)
  BY <1>2, <1>8
<1>12. Len(t.rejected) \in Nat
  BY <1>2
<1>13. Adapters(t, offered, n)
  BY ONLY <1>1, <1>2, <1>6, <1>7, <1>9, <1>10, <1>11, <1>12 DEF Adapters
<1> QED BY <1>13 DEF t

LEMMA ServeFacts ==
    ASSUME NEW r, NEW offered, Offers(offered), NEW n \in 1..Len(offered), Adapters(r, offered, n - 1),
           offered[n].faults = {}, offered[n].scheme \notin DOMAIN r.serves
    PROVE  Adapters([r EXCEPT !.serves = Joined(@, [s \in {offered[n].scheme} |-> offered[n].by])], offered, n)
<1> DEFINE o == offered[n]
           t == [r EXCEPT !.serves = Joined(@, [s \in {o.scheme} |-> o.by])]
           l == Len(r.rejected)
<1>1. t = [serves |-> t.serves, rejected |-> r.rejected] /\ t.rejected = r.rejected
      /\ t.serves = Joined(r.serves, [s \in {o.scheme} |-> o.by])
  <2> DEFINE j == Joined(r.serves, [s \in {o.scheme} |-> o.by])
  <2>1. r = [serves |-> r.serves, rejected |-> r.rejected]
    BY DEF Adapters
  <2>2. \A v : [r EXCEPT !.serves = v] = [serves |-> v, rejected |-> r.rejected]
    BY <2>1
  <2>3. t = [serves |-> j, rejected |-> r.rejected]
    BY <2>2, Zenon
  <2> HIDE DEF t, j
  <2>4. t.serves = j /\ t.rejected = r.rejected
    BY <2>3
  <2>5. t = [serves |-> t.serves, rejected |-> r.rejected]
    BY <2>3, <2>4
  <2> QED BY <2>4, <2>5 DEF j
<1>2. BuiltIn \subseteq DOMAIN r.serves
  BY DEF Adapters
<1>3. o.scheme = "new"
  <2>1. o.scheme \in {"hf", "new"}
    BY DEF Offers
  <2> QED BY <1>2, <2>1 DEF BuiltIn
<1>4. /\ DOMAIN t.serves = DOMAIN r.serves \cup {"new"}
      /\ t.serves["new"] = o.by
      /\ \A s \in DOMAIN r.serves : t.serves[s] = r.serves[s]
  BY <1>1, <1>3 DEF Joined
<1> HIDE DEF t
<1>5. n \in Nat /\ 1..n = (1..n - 1) \cup {n} /\ n \notin 1..n - 1 /\ n \in 1..Len(offered)
  BY DEF Offers
<1>6. Fit(o) /\ \A j \in 1..n - 1 : ~Fit(offered[j])
  BY <1>3 DEF Adapters, Fit
<1>7. DOMAIN r.serves \ BuiltIn = {}
  <2> SUFFICES ASSUME NEW s \in DOMAIN r.serves \ BuiltIn PROVE FALSE
    OBVIOUS
  <2>1. Serves(s, r.serves[s], offered, n - 1)
    BY DEF Adapters
  <2> QED BY <1>6, <2>1 DEF Serves
<1>8. DOMAIN t.serves \ BuiltIn = {"new"}
  BY <1>4, <1>7 DEF BuiltIn
<1>9. Serves("new", o.by, offered, n)
  <2>1. ASSUME NEW j \in 1..n, Fit(offered[j]) PROVE n <= j
    <3>1. j \notin 1..n - 1
      BY <1>6, <2>1
    <3> QED BY <1>5, <3>1
  <2>2. n \in 1..n
    BY <1>5
  <2>3. Fit(offered[n])
    BY <1>6
  <2> HIDE DEF o
  <2>4. o.by = offered[n].by
    BY DEF o
  <2> QED BY ONLY <2>1, <2>2, <2>3, <2>4 DEF Serves
<1>10. \A s \in DOMAIN t.serves \ BuiltIn : Serves(s, t.serves[s], offered, n)
  BY <1>4, <1>8, <1>9
<1>11. "new" \in DOMAIN t.serves
  BY <1>4
<1>12. /\ IsFiniteSet(DOMAIN t.serves \ BuiltIn)
       /\ Cardinality(DOMAIN t.serves \ BuiltIn) + Len(t.rejected) = n
  <2>1. Cardinality(DOMAIN r.serves \ BuiltIn) + l = n - 1 /\ l \in Nat
    BY DEF Adapters
  <2>2. Cardinality({}) = 0
    BY FS_EmptySet
  <2>3. IsFiniteSet({"new"}) /\ Cardinality({"new"}) = 1
    BY FS_Singleton
  <2>4. Cardinality(DOMAIN r.serves \ BuiltIn) = 0
    BY ONLY <1>7, <2>2
  <2>5. IsFiniteSet(DOMAIN t.serves \ BuiltIn) /\ Cardinality(DOMAIN t.serves \ BuiltIn) = 1
    BY ONLY <1>8, <2>3
  <2>6. Len(t.rejected) = l
    BY <1>1
  <2> HIDE DEF l
  <2> QED BY ONLY <1>5, <2>1, <2>4, <2>5, <2>6
<1>13. ASSUME NEW k \in 1..Len(t.rejected) PROVE Explains(t.rejected[k], t.serves, offered, n)
  <2>1. Explains(r.rejected[k], r.serves, offered, n - 1)
    BY <1>1 DEF Adapters
  <2> DEFINE x == r.rejected[k]
  <2>2. PICK i \in 1..n - 1 :
            /\ offered[i].by = x.by
            /\ \/ x.why \in offered[i].faults
               \/ /\ x.why = "taken" /\ offered[i].scheme \in DOMAIN r.serves
                  /\ r.serves[offered[i].scheme] # offered[i].by
    BY <2>1 DEF Explains
  <2> HIDE DEF x
  <2>3. i \in 1..n
    BY <1>5
  <2>4. offered[i].scheme \in DOMAIN r.serves =>
            offered[i].scheme \in DOMAIN t.serves /\ t.serves[offered[i].scheme] = r.serves[offered[i].scheme]
    BY <1>4
  <2>5. Explains(x, t.serves, offered, n)
    BY <2>2, <2>3, <2>4 DEF Explains
  <2> QED BY <1>1, <2>5 DEF x
<1>14. /\ BuiltIn \subseteq DOMAIN t.serves /\ \A s \in BuiltIn : t.serves[s] = "built-in"
  BY <1>2, <1>4 DEF Adapters
<1>15. t.rejected = [i \in 1..Len(t.rejected) |-> t.rejected[i]] /\ Len(t.rejected) \in Nat
  BY <1>1 DEF Adapters
<1>16. Adapters(t, offered, n)
  BY ONLY <1>1, <1>10, <1>11, <1>12, <1>13, <1>14, <1>15 DEF Adapters
<1> QED BY <1>16 DEF t

\* One more adapter is served or refused.
LEMMA LoadedFacts ==
    ASSUME NEW r, NEW offered, Offers(offered), NEW n \in 1..Len(offered), Adapters(r, offered, n - 1)
    PROVE  Adapters(Loaded(r, offered[n]), offered, n)
<1> DEFINE o == offered[n]
<1>1. CASE "import" \in o.faults
  <2>1. Adapters(Reject(r, o, "import"), offered, n)
    BY <1>1, RejectFacts
  <2> QED BY <1>1, <2>1 DEF Loaded
<1>2. CASE "import" \notin o.faults /\ o.faults # {}
  <2>1. FirstFault(o.faults) \in o.faults
    BY <1>2, FaultFacts DEF Offers
  <2>2. Adapters(Reject(r, o, FirstFault(o.faults)), offered, n)
    BY <1>2, <2>1, RejectFacts
  <2> QED BY <1>2, <2>2 DEF Loaded, Register
<1>3. CASE o.faults = {} /\ o.scheme \in DOMAIN r.serves
  <2>1. o.scheme \in {"hf", "new"} /\ o.by \in {"p", "q"}
    BY DEF Offers
  <2>2. r.serves[o.scheme] # o.by
    <3>1. CASE o.scheme \in BuiltIn
      <4>1. r.serves[o.scheme] = "built-in"
        BY <3>1 DEF Adapters
      <4> QED BY <2>1, <4>1
    <3>2. CASE o.scheme \notin BuiltIn
      <4>1. Serves(o.scheme, r.serves[o.scheme], offered, n - 1)
        BY <1>3, <3>2 DEF Adapters
      <4>2. PICK i \in 1..n - 1 : r.serves[o.scheme] = offered[i].by
        BY <4>1 DEF Serves
      <4>3. Len(offered) \in Nat /\ i \in 1..Len(offered) /\ i # n
        BY <4>2 DEF Offers
      <4> QED BY <4>2, <4>3 DEF Offers
    <3> QED BY <3>1, <3>2
  <2>3. o.scheme \in BuiltIn \/ "new" \in DOMAIN r.serves
    BY <1>3, <2>1 DEF BuiltIn
  <2>4. Adapters(Reject(r, o, "taken"), offered, n)
    BY <1>3, <2>2, <2>3, RejectFacts
  <2> QED BY <1>3, <2>4 DEF Loaded, Register
<1>4. CASE o.faults = {} /\ o.scheme \notin DOMAIN r.serves
  <2>1. Adapters([r EXCEPT !.serves = Joined(@, [s \in {o.scheme} |-> o.by])], offered, n)
    BY <1>4, ServeFacts
  <2>2. Loaded(r, o) = [r EXCEPT !.serves = Joined(@, [s \in {o.scheme} |-> o.by])]
    BY <1>4 DEF Loaded, Register
  <2> QED BY <2>1, <2>2
<1> QED BY <1>1, <1>2, <1>3, <1>4

\* The adapters of a call are two at most, each its own.
LEMMA PluginFacts ==
    ASSUME NEW plugins \in OfferedPlugins
    PROVE  Offers(plugins) /\ Len(plugins) \in 0..2
<1> DEFINE Fine == SUBSET ({"constructs", "raises", "api", "scheme", "prefix", "remote", "methods"} \cup {"import"})
           Faulty == {f \in SUBSET (ToSet(Fault) \cup {"import"}) : Cardinality(f) <= 2}
           Plugin(by) == [scheme : {"hf", "new"}, by : {by}, faults : Faulty]
<1>1. Faulty \subseteq Fine
  <2>1. ToSet(Fault) = {"constructs", "raises", "api", "scheme", "prefix", "remote", "methods"}
    BY DEF ToSet, Fault
  <2> QED BY <2>1
<1>2. plugins \in {<<>>} \cup {<<p>> : p \in Plugin("p")} \cup {<<p, q>> : p \in Plugin("p"), q \in Plugin("q")}
  BY DEF OfferedPlugins
<1> HIDE DEF Faulty
<1>3. \A by : \A p \in Plugin(by) :
          /\ p.scheme \in {"hf", "new"} /\ p.by = by
          /\ "import" \notin p.faults =>
                p.faults \subseteq {"constructs", "raises", "api", "scheme", "prefix", "remote", "methods"}
  <2> TAKE by
  <2> TAKE p \in Plugin(by)
  <2>1. p.scheme \in {"hf", "new"} /\ p.by = by /\ p.faults \in Faulty
    OBVIOUS
  <2> QED BY <1>1, <2>1
<1> HIDE DEF Plugin
<1>4. CASE plugins = <<>>
  <2>1. Len(plugins) = 0 /\ 1..0 = {}
    BY <1>4
  <2>2. plugins = [i \in 1..0 |-> plugins[i]]
    BY <1>4
  <2> QED BY <2>1, <2>2 DEF Offers
<1>5. ASSUME NEW p \in Plugin("p"), plugins = <<p>> PROVE Offers(plugins) /\ Len(plugins) \in 0..2
  <2>1. Len(plugins) = 1 /\ plugins[1] = p /\ plugins = [i \in 1..1 |-> plugins[i]]
    BY <1>5
  <2>2. \A i \in 1..1 : i = 1
    OBVIOUS
  <2> QED BY ONLY <1>3, <1>5, <2>1, <2>2 DEF Offers
<1>6. ASSUME NEW p \in Plugin("p"), NEW q \in Plugin("q"), plugins = <<p, q>>
      PROVE  Offers(plugins) /\ Len(plugins) \in 0..2
  <2>1. Len(plugins) = 2 /\ plugins[1] = p /\ plugins[2] = q /\ plugins = [i \in 1..2 |-> plugins[i]]
    BY <1>6
  <2>2. \A i \in 1..2 : i = 1 \/ i = 2
    OBVIOUS
  <2>3. p.by = "p" /\ q.by = "q"
    BY <1>3
  <2> QED BY ONLY <1>3, <1>6, <2>1, <2>2, <2>3 DEF Offers
<1> QED BY <1>2, <1>4, <1>5, <1>6

LEMMA OwnFacts ==
    ASSUME NEW plugins
    PROVE  Adapters([serves |-> [s \in BuiltIn |-> "built-in"], rejected |-> <<>>], plugins, 0)
<1> DEFINE own == [serves |-> [s \in BuiltIn |-> "built-in"], rejected |-> <<>>]
<1>1. /\ own.serves = [s \in BuiltIn |-> "built-in"] /\ own.rejected = <<>>
      /\ own = [serves |-> own.serves, rejected |-> own.rejected]
  OBVIOUS
<1> HIDE DEF own
<1>2. DOMAIN own.serves \ BuiltIn = {} /\ "new" \notin BuiltIn
  BY <1>1 DEF BuiltIn
<1>3. IsFiniteSet({}) /\ Cardinality({}) = 0
  BY FS_EmptySet
<1>4. Len(own.rejected) = 0 /\ 1..0 = {} /\ own.rejected = [i \in 1..0 |-> own.rejected[i]]
  BY <1>1
<1>5. BuiltIn \subseteq DOMAIN own.serves /\ \A s \in BuiltIn : own.serves[s] = "built-in"
  BY <1>1
<1>6. IsFiniteSet(DOMAIN own.serves \ BuiltIn) /\ Cardinality(DOMAIN own.serves \ BuiltIn) = 0
  BY ONLY <1>2, <1>3
<1>7. Adapters(own, plugins, 0)
  BY ONLY <1>1, <1>2, <1>4, <1>5, <1>6 DEF Adapters
<1> QED BY <1>7 DEF own

\* The adapters of one start, one at a time.
LEMMA RegisteredFacts ==
    ASSUME NEW plugins, Offers(plugins), Len(plugins) \in 0..2,
           Registered(plugins, TRUE) # Refuse("raised")
    PROVE  Adapters(Registered(plugins, TRUE), plugins, Len(plugins))
<1> DEFINE own == [serves |-> [s \in BuiltIn |-> "built-in"], rejected |-> <<>>]
           body(f) == [n \in 0..Len(plugins) |-> IF n = 0 THEN own ELSE Loaded(f[n - 1], plugins[n])]
           upto == CHOOSE f : f = body(f)
           one == Loaded(own, plugins[1])
           two == Loaded(one, plugins[2])
           g == [n \in 0..Len(plugins) |-> IF n = 0 THEN own ELSE IF n = 1 THEN one ELSE two]
<1>1. Registered(plugins, TRUE) = upto[Len(plugins)]
  BY DEF Registered
<1>2. Adapters(own, plugins, 0)
  BY OwnFacts
<1> HIDE DEF own
<1>3. g = body(g)
  <2>0. \A m \in 0..2 : \A n \in 0..m : n = 0 \/ n = 1 \/ n = 2
    OBVIOUS
  <2>1. \A n \in 0..Len(plugins) : n = 0 \/ n = 1 \/ n = 2
    BY ONLY <2>0, Len(plugins) \in 0..2
  <2>2. \A n \in 0..Len(plugins) : n # 0 => n - 1 \in 0..Len(plugins)
    BY ONLY Len(plugins) \in 0..2
  <2>3. \A n \in 0..Len(plugins) : n # 0 => g[n - 1] = IF n = 1 THEN own ELSE one
    BY <2>1, <2>2
  <2>4. \A n \in 0..Len(plugins) : n # 0 => g[n] = Loaded(g[n - 1], plugins[n])
    BY <2>1, <2>3
  <2>5. \A n \in 0..Len(plugins) : g[n] = body(g)[n]
    BY <2>4
  <2> QED BY <2>5
<1>4. upto = body(upto)
  BY <1>3
<1> HIDE DEF upto, g
<1>5. upto[0] = own
  BY <1>4
<1>6. \A n \in 1..Len(plugins) : upto[n] = Loaded(upto[n - 1], plugins[n])
  BY <1>4
<1>7. \A n \in 1..Len(plugins) : Adapters(upto[n - 1], plugins, n - 1) => Adapters(upto[n], plugins, n)
  BY <1>6, LoadedFacts
<1>8. Len(plugins) = 0 \/ Len(plugins) = 1 \/ Len(plugins) = 2
  OBVIOUS
<1>9. Adapters(upto[0], plugins, 0)
  BY <1>2, <1>5
<1>10. Len(plugins) >= 1 => Adapters(upto[1], plugins, 1)
  BY <1>7, <1>8, <1>9
<1>11. Len(plugins) = 2 => Adapters(upto[2], plugins, 2)
  BY <1>7, <1>8, <1>10
<1>12. Adapters(upto[Len(plugins)], plugins, Len(plugins))
  <2>1. CASE Len(plugins) = 0
    BY ONLY <2>1, <1>9
  <2>2. CASE Len(plugins) = 1
    BY ONLY <2>2, <1>10
  <2>3. CASE Len(plugins) = 2
    BY ONLY <2>3, <1>11
  <2> QED BY ONLY <1>8, <2>1, <2>2, <2>3
<1> QED BY ONLY <1>1, <1>12

LEMMA EdgeRegistry == EdgeIInv => RegistryIsWhole
<1> SUFFICES ASSUME EdgeIInv, Answered("registry"), ~IsRefused(answer) PROVE RegistryIsWhole
  BY DEF RegistryIsWhole
<1>1. /\ call.op = "registry" /\ call \in RegistryCalls
      /\ answer = Registered(call.plugins, call.enabled)
  BY EdgeCallFacts DEF EdgeIInv, Answered
<1>2. call.plugins \in OfferedPlugins /\ call.enabled \in BOOLEAN
  BY <1>1 DEF RegistryCalls
<1> DEFINE offered == IF call.enabled THEN call.plugins ELSE <<>>
           added == DOMAIN answer.serves \ BuiltIn
           fit == {i \in DOMAIN offered : offered[i].faults = {} /\ offered[i].scheme \notin BuiltIn}
           n == Len(offered)
<1>3. <<>> \in OfferedPlugins
  BY DEF OfferedPlugins
<1>4. Offers(offered) /\ n \in 0..2
  BY <1>2, <1>3, PluginFacts
<1>5. Adapters(answer, offered, n)
  <2>1. CASE call.enabled
    <3>1. offered = call.plugins /\ answer = Registered(offered, TRUE)
      BY <1>1, <1>2, <2>1
    <3>2. answer # Refuse("raised")
      BY DEF IsRefused, Refuse
    <3> HIDE DEF offered
    <3> QED BY <1>4, <3>1, <3>2, RegisteredFacts
  <2>2. CASE ~call.enabled
    <3>1. answer = [serves |-> [s \in BuiltIn |-> "built-in"], rejected |-> <<>>]
      BY <1>1, <2>2 DEF Registered
    <3>2. offered = <<>> /\ Len(offered) = 0
      BY <2>2
    <3> HIDE DEF offered
    <3> QED BY <3>1, <3>2, OwnFacts
  <2> QED BY <1>2, <2>1, <2>2
<1> HIDE DEF offered
<1>6. DOMAIN offered = 1..n /\ n \in Nat
  BY <1>4 DEF Offers
<1>7. \A i \in 1..n : (offered[i].faults = {} /\ offered[i].scheme \notin BuiltIn) = Fit(offered[i])
  <2>1. \A i \in 1..n : offered[i].scheme \in {"hf", "new"}
    BY <1>4 DEF Offers
  <2> QED BY <2>1 DEF Fit, BuiltIn
<1>8. \A s \in BuiltIn : answer.serves[s] = "built-in"
  BY <1>5 DEF Adapters
<1>9. Cardinality(added) + Len(answer.rejected) = n
  BY <1>5 DEF Adapters
<1>10. ASSUME NEW s \in added PROVE \E i \in fit : answer.serves[s] = offered[i].by /\ \A j \in fit : i <= j
  <2>1. Serves(s, answer.serves[s], offered, n)
    BY <1>5 DEF Adapters
  <2>2. PICK i \in 1..n : /\ Fit(offered[i]) /\ answer.serves[s] = offered[i].by
                          /\ \A j \in 1..n : Fit(offered[j]) => i <= j
    BY <2>1 DEF Serves
  <2>3. \A j \in fit : j \in 1..n /\ Fit(offered[j])
    BY <1>6, <1>7
  <2>4. i \in fit
    BY <1>6, <1>7, <2>2
  <2> HIDE DEF fit
  <2> QED BY <2>2, <2>3, <2>4
<1>11. ASSUME NEW r \in ToSet(answer.rejected)
       PROVE  \E o \in ToSet(offered) :
                  o.by = r.by /\ (r.why \in o.faults
                                  \/ (r.why = "taken" /\ answer.serves[o.scheme] # o.by))
  <2>1. PICK k \in 1..Len(answer.rejected) : r = answer.rejected[k]
    <3>1. PICK x \in DOMAIN answer.rejected : r = answer.rejected[x]
      BY DEF ToSet
    <3>2. DOMAIN answer.rejected = 1..Len(answer.rejected)
      BY <1>5 DEF Adapters
    <3> QED BY <3>1, <3>2
  <2>2. Explains(r, answer.serves, offered, n)
    BY <1>5, <2>1 DEF Adapters
  <2>3. PICK i \in 1..n :
            /\ offered[i].by = r.by
            /\ \/ r.why \in offered[i].faults
               \/ /\ r.why = "taken" /\ offered[i].scheme \in DOMAIN answer.serves
                  /\ answer.serves[offered[i].scheme] # offered[i].by
    BY <2>2 DEF Explains
  <2>4. offered[i] \in ToSet(offered)
    BY <1>6 DEF ToSet
  <2> QED BY <2>3, <2>4
<1> QED BY <1>8, <1>9, <1>10, <1>11 DEF RegistryIsWhole, offered

\* One path within another of its length is that other.
LEMMA PrefixFacts ==
    ASSUME NEW S, NEW p \in Seq(S), NEW q \in Seq(S), IsPrefix(p, q)
    PROVE  /\ Len(p) = Len(q) => p = q
           /\ Len(p) # Len(q) => Len(p) \in 1..Len(q) - 1 \/ p = <<>>
           /\ p = SubSeq(q, 1, Len(p))
<1>1. Len(p) \in Nat /\ Len(q) \in Nat /\ Len(p) <= Len(q)
  BY DEF IsPrefix
<1>2. \A s \in Seq(S) : SubSeq(s, 1, Len(s)) = s
  <2> TAKE s \in Seq(S)
  <2> DEFINE u == SubSeq(s, 1, Len(s))
  <2>1. Len(s) \in Nat /\ \A i \in 1..Len(s) : s[i] \in S
    BY LenProperties
  <2>2. u \in Seq(S) /\ Len(u) = Len(s) /\ \A i \in 1..Len(s) : u[i] = s[i]
    BY <2>1, SubSeqProperties
  <2> HIDE DEF u
  <2>3. u = s
    BY <2>2, SeqEqual
  <2> QED BY <2>3 DEF u
<1>3. p = SubSeq(p, 1, Len(p)) /\ q = SubSeq(q, 1, Len(q))
  BY <1>2
<1>4. SubSeq(p, 1, Len(p)) = SubSeq(q, 1, Len(p))
  BY DEF IsPrefix
<1>5. p = SubSeq(q, 1, Len(p))
  BY ONLY <1>3, <1>4
<1>6. Len(p) = Len(q) => p = q
  BY ONLY <1>3, <1>5
<1>7. Len(p) = 0 => p = <<>>
  BY EmptySeq
<1> QED BY ONLY <1>1, <1>5, <1>6, <1>7

\* A listing: what is listed is there, nothing is within another, and one without a reason
\* for being empty lists all there is.
Lists(c, f) ==
    /\ f.tables \subseteq Holds(c)
    /\ \A p, q \in f.tables : p # q => ~IsPrefix(p, q)
    /\ f.error = Unknown /\ f.tables = {} /\ ~Unread(c) => Holds(c) = {}
    /\ Claims(c).discover # "available" => f.error # Unknown
    /\ f.error = Unknown /\ c.source = "db" => c.key

LEMMA NothingLists ==
    ASSUME NEW c, NEW why
    PROVE  Lists(c, Nothing(why))
<1>1. Nothing(why).tables = {} /\ Nothing(why).error # Unknown
  BY DEF Nothing, Unknown
<1> QED BY <1>1 DEF Lists

LEMMA WalkLists ==
    ASSUME NEW c, c.op = "root", c.source = "local", c.root \in {"there", "closed", "absent"},
           c.tree \in Trees
    PROVE  Lists(c, Listing(c))
<1>1. Listing(c) = ListLocal(c) /\ Claims(c) = LocalClaims /\ LocalClaims.discover = "available"
  BY DEF Listing, Claims, LocalClaims, Claim
<1>2. Holds(c) = IF c.root = "absent" THEN {} ELSE Walk(c.tree)
  BY DEF Holds
<1>3. CASE c.root = "absent"
  <2>1. Listing(c) = Nothing("no_such_directory")
    BY <1>1, <1>3 DEF ListLocal
  <2> QED BY <2>1, NothingLists
<1>4. CASE c.root = "closed"
  <2>1. Listing(c).tables = {} /\ Listing(c).error = Unknown
    BY <1>1, <1>4 DEF ListLocal, Discovered
  <2>2. Unread(c)
    BY <1>4 DEF Unread
  <2> QED BY <1>1, <2>1, <2>2 DEF Lists
<1>5. CASE c.root = "there"
  <2> DEFINE P == {<<"a">>, <<"b">>, <<"a", "a">>, <<"a", "b">>, <<"a", "a", "a">>}
  <2>1. Listing(c).tables = Walk(c.tree) /\ Listing(c).error = Unknown
    BY <1>1, <1>5 DEF ListLocal, Discovered
  <2>2. DOMAIN c.tree \subseteq P
    <3> DEFINE fs == UNION {[Q -> {"table", "dir", "closed", "file"}] : Q \in SUBSET P}
    <3>1. c.tree \in fs
      BY DEF Trees
    <3> HIDE DEF P
    <3> QED BY <3>1
  <2>3. P \subseteq Seq({"a", "b"}) /\ \A p \in P : p # <<>>
    OBVIOUS
  <2> HIDE DEF P
  <2>4. ASSUME NEW p \in Walk(c.tree), NEW q \in Walk(c.tree), p # q, IsPrefix(p, q) PROVE FALSE
    <3>1. /\ p \in DOMAIN c.tree /\ q \in DOMAIN c.tree /\ c.tree[p] = "table"
          /\ \A n \in 1..Len(q) - 1 : c.tree[SubSeq(q, 1, n)] = "dir"
      BY DEF Walk
    <3>2. p \in Seq({"a", "b"}) /\ q \in Seq({"a", "b"}) /\ p # <<>>
      BY <2>2, <2>3, <3>1
    <3>3. Len(p) \in 1..Len(q) - 1 /\ p = SubSeq(q, 1, Len(p))
      BY <2>4, <3>2, PrefixFacts
    <3>4. c.tree[SubSeq(q, 1, Len(p))] = "dir"
      BY <3>1, <3>3
    <3> QED BY <3>1, <3>3, <3>4
  <2> QED BY <1>1, <1>2, <1>5, <2>1, <2>4 DEF Lists
<1> QED BY <1>3, <1>4, <1>5

\* Paths of one length are not within each other.
LEMMA LevelPaths ==
    ASSUME NEW n, NEW T, \A p \in T : p \in Seq({"a", "b", "data"}) /\ Len(p) = n
    PROVE  \A p, q \in T : p # q => ~IsPrefix(p, q)
BY PrefixFacts

LEMMA HubLists ==
    ASSUME NEW c, c.op = "root", c.source = "hf", c.path \in {"bare", "data"}, c.hub \in Hubs,
           c.dataset \in BOOLEAN
    PROVE  Lists(c, Listing(c))
<1> DEFINE Entry == [name : {"a"}, dir : BOOLEAN, lance : BOOLEAN]
           Tabled(path) == {e \in c.hub[path].holds : e.dir /\ e.lance}
           bare == {<<e.name>> : e \in Tabled("bare")}
           data == {<<e.name>> : e \in Tabled("data")}
           below == {<<"data", e.name>> : e \in Tabled("data")}
<1>1. Listing(c) = ListHub(c) /\ Claims(c) = HubClaims /\ HubClaims.discover = "available"
  BY DEF Listing, Claims, HubClaims, Claim
<1>2. /\ c.path = "bare" => Holds(c) = bare \cup below
      /\ c.path = "data" => Holds(c) = data
  BY DEF Holds
<1>3. \A path \in {"bare", "data"} : \A e \in Tabled(path) : e.name = "a"
  <2> DEFINE A == [answered : {TRUE}, holds : SUBSET Entry, why : {"ok"}]
                  \cup [answered : {FALSE}, holds : {{}}, why : {"refused"}]
  <2>1. c.hub \in [{"bare", "data"} -> A]
    BY DEF Hubs
  <2>2. \A a \in A : a.holds \subseteq Entry
    OBVIOUS
  <2> HIDE DEF A
  <2>3. \A path \in {"bare", "data"} : c.hub[path].holds \subseteq Entry
    BY <2>1, <2>2
  <2>4. \A e \in Entry : e.name = "a"
    OBVIOUS
  <2> HIDE DEF Entry
  <2> QED BY <2>3, <2>4
<1>4. /\ TablesIn(c.hub["bare"].holds, <<>>) = bare
      /\ TablesIn(c.hub["data"].holds, <<>>) = data
      /\ TablesIn(c.hub["data"].holds, <<"data">>) = below
  <2>1. <<>> \o <<"a">> = <<"a">> /\ <<"data">> \o <<"a">> = <<"data", "a">>
    <3> DEFINE s == <<"data">>
               t == <<"a">>
               u == s \o t
               v == <<"data", "a">>
               V == {"a", "data"}
    <3>1. s \in Seq(V) /\ t \in Seq(V) /\ v \in Seq(V) /\ Len(s) = 1 /\ Len(t) = 1 /\ Len(v) = 2
          /\ s[1] = "data" /\ t[1] = "a" /\ v[1] = "data" /\ v[2] = "a"
      OBVIOUS
    <3> HIDE DEF s, t, v
    <3> HIDE DEF V
    <3>2. u \in Seq(V) /\ Len(u) = 2 /\ u[1] = s[1] /\ u[2] = t[1]
      BY <3>1, ConcatProperties
    <3> HIDE DEF u
    <3>3. \A i \in 1..2 : u[i] = v[i]
      BY <3>1, <3>2
    <3>4. u = v
      BY <3>1, <3>2, <3>3, SeqEqual
    <3>5. <<>> \o t = t
      BY <3>1, ConcatEmptySeq
    <3> QED BY <3>4, <3>5 DEF s, t, u, v
  <2>2. \A e \in Tabled("bare") : <<>> \o <<e.name>> = <<e.name>>
    BY <1>3, <2>1
  <2>3. \A e \in Tabled("data") :
            <<>> \o <<e.name>> = <<e.name>> /\ <<"data">> \o <<e.name>> = <<"data", e.name>>
    BY <1>3, <2>1
  <2> QED BY <2>2, <2>3 DEF TablesIn
<1>5. bare \subseteq {<<"a">>} /\ data \subseteq {<<"a">>} /\ below \subseteq {<<"data", "a">>}
  BY <1>3
<1>6. bare = {} => Tabled("bare") = {}
  OBVIOUS
<1>7. (data = {}) = (Tabled("data") = {}) /\ (below = {}) = (Tabled("data") = {})
  OBVIOUS
<1> HIDE DEF bare, data, below, Tabled
<1>8. /\ \A p, q \in bare : p = q
      /\ \A p, q \in data : p = q
      /\ \A p, q \in below : p = q
  BY <1>5
<1>9. \/ \E why : Listing(c) = Nothing(why)
      \/ c.path = "bare" /\ Listing(c) = Discovered(bare) /\ bare # {}
      \/ c.path = "bare" /\ Listing(c) = Discovered(below) /\ bare = {}
      \/ c.path = "data" /\ Listing(c) = Discovered(data)
  BY <1>1, <1>4 DEF ListHub
<1>10. \A T : Discovered(T).tables = T /\ Discovered(T).error = Unknown
  BY DEF Discovered
<1>11. CASE \E why : Listing(c) = Nothing(why)
  BY <1>11, NothingLists
<1>12. CASE ~\E why : Listing(c) = Nothing(why)
  <2> DEFINE f == Listing(c)
  <2>1. f.tables \subseteq Holds(c) /\ \A p, q \in f.tables : p # q => ~IsPrefix(p, q)
    BY <1>2, <1>8, <1>9, <1>10, <1>12
  <2>2. f.error = Unknown /\ f.tables = {} => Holds(c) = {}
    BY <1>2, <1>7, <1>9, <1>10, <1>12
  <2> HIDE DEF f
  <2> QED BY <1>1, <2>1, <2>2 DEF Lists, f
<1> QED BY <1>11, <1>12

\* What a call says of a store or a service that holds its tables at one level.
LEMMA StoreLists ==
    ASSUME NEW c, c.op = "root", c.source \in {"plugin", "s3", "gs", "db"}, c.holds \in Held,
           c.source = "plugin" => c.how \in {"answers", "raises", "wrong_type"},
           c.source # "plugin" => c.lists \in BOOLEAN /\ c.fails \in BOOLEAN,
           c.source = "db" => c.key \in BOOLEAN
    PROVE  Lists(c, Listing(c))
<1>1. Holds(c) = c.holds
  BY DEF Holds
<1>2. \A p, q \in c.holds : p # q => ~IsPrefix(p, q)
  <2>1. \A p \in c.holds : p \in Seq({"a", "b", "data"}) /\ Len(p) = 1
    <3> DEFINE a == <<"a">>
               b == <<"b">>
    <3>1. c.holds \subseteq {a, b}
      BY DEF Held
    <3>2. a \in Seq({"a", "b", "data"}) /\ Len(a) = 1 /\ b \in Seq({"a", "b", "data"}) /\ Len(b) = 1
      OBVIOUS
    <3> HIDE DEF a, b
    <3> QED BY <3>1, <3>2
  <2> QED BY ONLY <2>1, LevelPaths
<1>3. Discovered(c.holds).tables = c.holds
  BY DEF Discovered
<1>4. CASE c.source = "plugin"
  <2>1. Listing(c) = IF c.how = "answers" THEN Discovered(c.holds) ELSE Nothing("the_adapter_failed")
    BY <1>4 DEF Listing, Guarded
  <2>2. c.how = "answers" => Claims(c).discover = "available"
    BY <1>4 DEF Claims, PluginClaims, Claim
  <2> QED BY <1>1, <1>2, <1>3, <1>4, <2>1, <2>2, NothingLists DEF Lists
<1>5. CASE c.source \in {"s3", "gs"}
  <2>1. \/ \E why : Listing(c) = Nothing(why)
        \/ c.lists /\ Listing(c) = Discovered(c.holds)
    BY <1>5 DEF Listing, ListStore
  <2>2. c.lists => Claims(c).discover = "available"
    BY <1>5 DEF Claims, StoreClaims, Claim
  <2> QED BY <1>1, <1>2, <1>3, <1>5, <2>1, <2>2, NothingLists DEF Lists
<1>6. CASE c.source = "db"
  <2>1. \/ \E why : Listing(c) = Nothing(why)
        \/ c.lists /\ c.key /\ Listing(c) = Discovered(c.holds)
    BY <1>6 DEF Listing, ListService
  <2>2. c.lists => Claims(c).discover = "available"
    BY <1>6 DEF Claims, ServiceClaims, Claim
  <2> QED BY <1>1, <1>2, <1>3, <1>6, <2>1, <2>2, NothingLists DEF Lists
<1> QED BY <1>4, <1>5, <1>6

LEMMA RootLists == \A c \in RootCalls : Lists(c, Listing(c))
<1> SUFFICES ASSUME NEW c \in RootCalls PROVE Lists(c, Listing(c))
  OBVIOUS
<1>1. CASE c \in [op : {"root"}, source : {"none", "unknown"}]
  <2>1. c.source \in {"none", "unknown"}
    BY <1>1
  <2>2. \E why : Listing(c) = Nothing(why)
    BY <2>1 DEF Listing
  <2> QED BY <2>2, NothingLists
<1>2. CASE c \in [op : {"root"}, source : {"local"}, root : {"there", "closed", "absent"}, tree : Trees,
                  broken : {{}, {<<"a", "b">>}}]
  BY <1>2, WalkLists
<1>3. CASE c \in [op : {"root"}, source : {"hf"}, dataset : BOOLEAN, path : {"bare", "data"}, hub : Hubs,
                  broken : {{}}]
  BY <1>3, HubLists
<1>4. CASE c \in [op : {"root"}, source : {"plugin"}, how : {"answers", "raises", "wrong_type"},
                  holds : Held, broken : MaybeBroken]
  BY <1>4, StoreLists
<1>5. CASE c \in [op : {"root"}, source : {"s3", "gs"}, lists : BOOLEAN, fails : BOOLEAN,
                  marks : SUBSET ToSet(StoreMark), holds : Held, broken : MaybeBroken]
  <2>1. c.op = "root" /\ c.source \in {"s3", "gs"} /\ c.lists \in BOOLEAN /\ c.fails \in BOOLEAN /\ c.holds \in Held
    BY <1>5
  <2> QED BY ONLY <2>1, StoreLists
<1>6. CASE c \in [op : {"root"}, source : {"db"}, lists : BOOLEAN, opens : BOOLEAN, key : BOOLEAN,
                  fails : BOOLEAN, marks : SUBSET ToSet(ServiceMark), holds : Held, broken : {{}}]
  <2>1. /\ c.op = "root" /\ c.source = "db" /\ c.lists \in BOOLEAN /\ c.fails \in BOOLEAN
        /\ c.holds \in Held /\ c.key \in BOOLEAN
    BY <1>6
  <2> QED BY ONLY <2>1, StoreLists
<1> QED BY <1>1, <1>2, <1>3, <1>4, <1>5, <1>6 DEF RootCalls

\* A panel of tables, of a listing.
LEMMA RootShows ==
    ASSUME NEW c \in RootCalls, NEW a, a = RootPanel(c)
    PROVE  /\ a.found = Listing(c) /\ a.claims = Claims(c)
           /\ a.tables \cup a.unreadable \subseteq Listing(c).tables
           /\ a.note = "cannot_list" => Claims(c).discover # "available"
           /\ a.note = "manifests" /\ ~a.failed =>
                 /\ Claims(c).discover = "available" /\ Listing(c).error = Unknown
                 /\ (c.source = "db" => c.opens /\ c.key) =>
                       a.tables \cup a.unreadable = Listing(c).tables
<1> DEFINE found == Listing(c)
           opens == [n \in found.tables |-> Opens(c, n)]
           failed == found.error # Unknown
           discover == Claims(c).discover = "available"
           t == Tables(discover, failed, opens)
           g == [claims |-> Claims(c), found |-> found]
<1>1. a = Joined(t, g)
  BY DEF RootPanel
<1>2. DOMAIN opens = found.tables
  OBVIOUS
<1>3. (c.source = "db" => c.opens /\ c.key) => \A n \in found.tables : opens[n] \in {"opens", "broken"}
  BY DEF Opens
<1> HIDE DEF found, opens, failed, discover
<1> DEFINE listed == IF failed THEN {} ELSE DOMAIN opens
           Which(outcome) == {n \in listed : opens[n] = outcome}
<1>4. t = IF ~discover
          THEN [tables |-> {}, unreadable |-> {}, note |-> "cannot_list", failed |-> FALSE]
          ELSE [tables |-> Which("opens"), unreadable |-> Which("broken"), note |-> "manifests",
                failed |-> failed]
  BY DEF Tables
<1>5. /\ DOMAIN t = {"tables", "unreadable", "note", "failed"}
      /\ t.tables \subseteq listed /\ t.unreadable \subseteq listed
      /\ t.note = "cannot_list" => ~discover
      /\ t.note = "manifests" => discover /\ t.tables = Which("opens") /\ t.unreadable = Which("broken")
      /\ t.note = "manifests" => (t.failed <=> failed)
  <2>1. CASE ~discover
    <3> HIDE DEF t
    <3> QED BY <1>4, <2>1
  <2>2. CASE discover
    <3> DEFINE w == Which("opens")
               b == Which("broken")
    <3>1. w \subseteq listed /\ b \subseteq listed
      OBVIOUS
    <3>2. t = [tables |-> w, unreadable |-> b, note |-> "manifests", failed |-> failed]
      BY <1>4, <2>2
    <3> HIDE DEF w, b, listed, t
    <3>3. DOMAIN t = {"tables", "unreadable", "note", "failed"} /\ t.tables = w /\ t.unreadable = b
          /\ t.note = "manifests" /\ t.failed = failed
      BY ONLY <3>2
    <3> QED BY <2>2, <3>1, <3>3 DEF w, b
  <2> QED BY <2>1, <2>2
<1> HIDE DEF t
<1>6. DOMAIN g = {"claims", "found"} /\ g.claims = Claims(c) /\ g.found = found
  OBVIOUS
<1> HIDE DEF g
<1>7. a.tables = t.tables /\ a.unreadable = t.unreadable /\ a.note = t.note /\ a.failed = t.failed
      /\ a.claims = g.claims /\ a.found = g.found
  <2>1. \A x \in DOMAIN t : Joined(t, g)[x] = t[x]
    BY ONLY JoinedFacts
  <2>2. \A x \in DOMAIN g \ DOMAIN t : Joined(t, g)[x] = g[x]
    BY ONLY JoinedFacts
  <2> QED BY <1>1, <1>5, <1>6, <2>1, <2>2
<1>8. listed \subseteq found.tables /\ (~failed => listed = found.tables)
  BY <1>2
<1>9. (c.source = "db" => c.opens /\ c.key) /\ ~failed => Which("opens") \cup Which("broken") = found.tables
  BY <1>3, <1>8
<1>10. failed <=> found.error # Unknown
  BY DEF failed
<1>11. discover <=> Claims(c).discover = "available"
  BY DEF discover
<1>12. found = Listing(c)
  BY DEF found
<1> HIDE DEF listed, Which
<1> QED BY ONLY <1>5, <1>6, <1>7, <1>8, <1>9, <1>10, <1>11, <1>12

LEMMA EdgeRoots == EdgeIInv => RootsAnswerForThemselves
<1> SUFFICES ASSUME EdgeIInv, Answered("root") PROVE RootsAnswerForThemselves
  BY DEF RootsAnswerForThemselves
<1>1. call \in RootCalls /\ answer = RootPanel(call)
  BY EdgeCallFacts DEF EdgeIInv, Answered
<1>2. Lists(call, Listing(call))
  BY <1>1, RootLists
<1>3. /\ answer.found = Listing(call)
      /\ answer.tables \cup answer.unreadable \subseteq Listing(call).tables
      /\ answer.note = "cannot_list" => Claims(call).discover # "available"
      /\ answer.note = "manifests" /\ ~answer.failed =>
            /\ Claims(call).discover = "available" /\ Listing(call).error = Unknown
            /\ (call.source = "db" => call.opens /\ call.key) =>
                  answer.tables \cup answer.unreadable = Listing(call).tables
  BY <1>1, RootShows
<1> DEFINE shown == answer.tables \cup answer.unreadable
<1>4. shown \subseteq Holds(call)
  BY <1>2, <1>3 DEF Lists
<1>5. \A p, q \in shown : p # q => ~IsPrefix(p, q)
  BY <1>2, <1>3 DEF Lists
<1>6. answer.note = "cannot_list" => answer.found.error # Unknown
  BY <1>2, <1>3 DEF Lists
<1>7. answer.note = "manifests" /\ ~answer.failed /\ shown = {} /\ (call.source = "db" => call.opens)
          /\ ~Unread(call) => Holds(call) = {}
  BY <1>2, <1>3 DEF Lists
<1> QED BY <1>4, <1>5, <1>6, <1>7 DEF RootsAnswerForThemselves

\* Of the marks an error carries, what it is explained by is one, and the first.
LEMMA ExplainedFacts ==
    ASSUME NEW S, NEW order \in Seq(S), NEW marks
    PROVE  /\ Explained(order, marks) \in marks \cup {"other"}
           /\ \A i \in DOMAIN order : order[i] \in marks =>
                 \E k \in 1..i : Explained(order, marks) = order[k]
<1> DEFINE seen == {i \in DOMAIN order : order[i] \in marks}
           first == CHOOSE i \in seen : \A j \in seen : i <= j
<1>1. seen \in SUBSET Nat
  <2>1. DOMAIN order = 1..Len(order) /\ Len(order) \in Nat
    BY LenProperties
  <2> QED BY <2>1
<1>2. Explained(order, marks) = IF seen = {} THEN "other" ELSE order[first]
  BY DEF Explained
<1>3. CASE seen = {}
  BY <1>2, <1>3
<1>4. CASE seen # {}
  <2>1. \E i \in seen : \A j \in seen : i <= j
    BY ONLY <1>1, <1>4, Least
  <2>2. first \in seen /\ \A j \in seen : first <= j
    BY ONLY <2>1
  <2>3. \A i \in DOMAIN order : order[i] \in marks => i \in seen
    OBVIOUS
  <2>4. order[first] \in marks
    BY <2>2
  <2> HIDE DEF first, seen
  <2>5. \A i \in seen : first \in 1..i
    <3> TAKE i \in seen
    <3>1. DOMAIN order = 1..Len(order) /\ Len(order) \in Nat
      BY LenProperties
    <3>2. first \in DOMAIN order
      BY <2>2 DEF seen
    <3> QED BY <1>1, <2>2, <3>1, <3>2
  <2> QED BY <1>2, <1>4, <2>3, <2>4, <2>5
<1> QED BY <1>3, <1>4

LEMMA EdgeClaims == EdgeIInv => ClaimsAreEarned
<1> SUFFICES ASSUME EdgeIInv, Answered("root") PROVE ClaimsAreEarned
  BY DEF ClaimsAreEarned
<1>1. call \in RootCalls /\ answer = RootPanel(call)
  BY EdgeCallFacts DEF EdgeIInv, Answered
<1>2. answer.found = Listing(call) /\ answer.claims = Claims(call)
  BY <1>1, RootShows
<1>3. call.source \in {"none", "unknown", "local", "hf", "plugin", "s3", "gs", "db"}
  <2>1. call.source \in {"none", "unknown"} \/ call.source = "local" \/ call.source = "hf"
        \/ call.source = "plugin" \/ call.source \in {"s3", "gs"} \/ call.source = "db"
    BY <1>1 DEF RootCalls
  <2> QED BY <2>1
<1>4. /\ Claims(call).reads = "available" => call.source \in {"local", "hf", "s3", "plugin"}
      /\ Claims(call).disk = "available" => call.source = "local"
      /\ call.source = "plugin" /\ call.how # "answers" => Claims(call).discover = "unsupported"
  BY <1>3 DEF Claims, Claim, NoClaim, LocalClaims, HubClaims, UnknownClaims, PluginClaims, StoreClaims,
              ServiceClaims
<1>5. ASSUME call.source \in {"s3", "gs"}, call.fails, call.lists
      PROVE  /\ Listing(call).error[1] \in call.marks \cup {"other"}
             /\ "no_bucket" \in call.marks => Listing(call).error[1] # "nothing_there"
  <2> DEFINE x == Explained(StoreMark, call.marks)
  <2>1. Listing(call) = Nothing(x)
    BY <1>5 DEF Listing, ListStore
  <2>2. Listing(call).error[1] = x
    BY <2>1 DEF Nothing
  <2> DEFINE V == {"no_account", "no_credentials", "no_bucket", "denied", "nothing_there", "unreachable"}
  <2>3. StoreMark \in Seq(V) /\ 3 \in DOMAIN StoreMark /\ StoreMark[3] = "no_bucket"
        /\ StoreMark[1] # "nothing_there" /\ StoreMark[2] # "nothing_there"
    BY DEF StoreMark
  <2> HIDE DEF V
  <2>4. /\ x \in call.marks \cup {"other"}
        /\ \A i \in DOMAIN StoreMark : StoreMark[i] \in call.marks => \E k \in 1..i : x = StoreMark[k]
    BY <2>3, ExplainedFacts
  <2> HIDE DEF x
  <2>5. "no_bucket" \in call.marks => x # "nothing_there"
    <3> SUFFICES ASSUME "no_bucket" \in call.marks PROVE x # "nothing_there"
      OBVIOUS
    <3>1. PICK k \in 1..3 : x = StoreMark[k]
      BY <2>3, <2>4
    <3>2. k = 1 \/ k = 2 \/ k = 3
      BY <3>1
    <3>3. "no_bucket" # "nothing_there"
      OBVIOUS
    <3> QED BY ONLY <2>3, <3>1, <3>2, <3>3
  <2> QED BY <2>2, <2>4, <2>5
<1> QED BY <1>2, <1>4, <1>5 DEF ClaimsAreEarned

LEMMA EdgeSources == EdgeIInv => SourcesAreHonest
BY EdgeRegistry, EdgeRoots, EdgeClaims DEF SourcesAreHonest

--------------------------------------------------------------------------
(* Requests, and which embedder they are for. *)

LEMMA EdgeRetries == EdgeIInv => RetriesEnd
<1> SUFFICES ASSUME EdgeIInv, Answered("post") PROVE RetriesEnd
  BY DEF RetriesEnd
<1> DEFINE answers == call.answers
           Stops(i) == answers[i].was \in {"fine", "refused", "dated"} \/ i = MaxAttempts
           n == CHOOSE i \in 1..MaxAttempts : Stops(i) /\ \A j \in 1..i - 1 : ~Stops(j)
           was == answers[n].was
           waits == [i \in 1..n - 1 |-> Wait(answers[i], i)]
           raised == CASE was = "fine" -> "nothing"
                       [] was = "dated" /\ n < MaxAttempts -> "ValueError"
                       [] OTHER -> "EmbedderError"
           retryable == was \notin {"fine", "refused"}
<1>1. call \in PostCalls /\ answer = Post(answers)
  BY EdgeCallFacts DEF EdgeIInv, Answered
<1>2. MaxAttempts \in Nat \ {0} /\ MaxWait \in Nat \ {0}
  BY MediaAssumption
<1>3. answers \in [1..MaxAttempts -> Attempt]
  BY <1>1 DEF PostCalls
<1>4. \A a \in Attempt : /\ a.was \in {"fine", "refused", "unreachable", "dated", "busy"}
                         /\ a.after # <<>> => a.was = "busy" /\ a.after[1] \in Nat
  <2> TAKE a \in Attempt
  <2>1. CASE a \in [was : {"fine", "refused", "unreachable", "dated"}, after : {<<>>}]
    BY <2>1
  <2>2. CASE a \in [was : {"busy"}, after : {<<>>, <<0>>, <<MaxWait + 1>>}]
    <3>1. a.was = "busy" /\ a.after \in {<<>>, <<0>>, <<MaxWait + 1>>}
      BY <2>2
    <3>2. <<0>>[1] = 0 /\ <<MaxWait + 1>>[1] = MaxWait + 1
      OBVIOUS
    <3> QED BY <1>2, <3>1, <3>2
  <2> QED BY <2>1, <2>2 DEF Attempt
<1>5. n \in 1..MaxAttempts /\ Stops(n) /\ \A j \in 1..n - 1 : ~Stops(j)
  <2> DEFINE T == {i \in 1..MaxAttempts : Stops(i)}
  <2>1. T \in SUBSET Nat /\ MaxAttempts \in T
    BY <1>2
  <2>2. PICK i \in T : \A j \in T : i <= j
    BY ONLY <2>1, Least
  <2>3. \A j \in 1..i - 1 : j \in 1..MaxAttempts /\ ~(i <= j)
    BY <1>2, <2>2
  <2>4. i \in 1..MaxAttempts /\ Stops(i) /\ \A j \in 1..i - 1 : ~Stops(j)
    BY <2>2, <2>3
  <2> HIDE DEF T, Stops
  <2> QED BY ONLY <2>4
<1>6. answer = [attempts |-> n, waits |-> waits, raised |-> raised, retryable |-> retryable]
  BY <1>1 DEF Post
<1> HIDE DEF n, retryable, raised
<1>7. answer.attempts = n /\ answer.raised = raised /\ (answer.retryable <=> retryable) /\ answer.waits = waits
  <2> HIDE DEF waits
  <2> QED BY ONLY <1>6
<1>8. answers[n].was \in {"fine", "refused", "unreachable", "dated", "busy"}
  BY <1>3, <1>4, <1>5
<1>9. \A i \in 1..n - 1 : answers[i].was \in {"busy", "unreachable"}
  <2> TAKE i \in 1..n - 1
  <2>1. i \in 1..MaxAttempts /\ ~Stops(i)
    BY <1>2, <1>5
  <2> QED BY <1>3, <1>4, <2>1
<1>10. (raised = "nothing") = (answers[n].was = "fine")
  BY <1>8 DEF raised
<1>11. retryable /\ answers[n].was # "dated" => n = MaxAttempts
  BY <1>5 DEF retryable
<1>12. ASSUME NEW i \in DOMAIN waits, answers[i].after # <<>>
       PROVE  waits[i] >= Lesser(MaxWait, answers[i].after[1])
  <2>1. i \in 1..n - 1 /\ i \in 1..MaxAttempts
    BY <1>2, <1>5, <1>12
  <2>2. answers[i].was = "busy" /\ answers[i].after[1] \in Nat
    BY <1>3, <1>4, <1>12, <2>1
  <2>3. waits[i] = Lesser(MaxWait, answers[i].after[1])
    BY <1>12, <2>1, <2>2 DEF Wait
  <2>4. Lesser(MaxWait, answers[i].after[1]) \in Nat
    BY <1>2, <2>2 DEF Lesser
  <2> HIDE DEF waits
  <2> QED BY <2>3, <2>4
<1> HIDE DEF waits, raised, retryable, n
<1> QED BY <1>7, <1>9, <1>10, <1>11, <1>12 DEF RetriesEnd

\* What a choice of embedder comes to.
LEMMA ResolveFacts ==
    ASSUME NEW e, e.backend \in {"auto", "none", "multimodal", "openai-compat", "siglip-local", "ollama"}
    PROVE  /\ e.backend # "auto" => ResolveEmbedder(e).backend \in {e.backend, "none"}
           /\ e.backend = "auto" =>
                 /\ ResolveEmbedder(e).images = (e.torch \/ (e.url /\ e.key /\ e.model # "unset"))
                 /\ e.ollama => ResolveEmbedder(e) # NoBackend
<1> DEFINE see(b) == b = "multimodal"
           hosted(b) == [backend |-> b, model |-> e.model, images |-> see(b)]
           Hosted(b) == IF e.url /\ e.model # "unset" /\ e.key THEN hosted(b) ELSE NoBackend
           local == [backend |-> "siglip-local", model |-> "siglip", images |-> TRUE]
           Local == IF e.torch THEN local ELSE NoBackend
           ollama == [backend |-> "ollama", images |-> FALSE,
                      model |-> IF e.model = "unset" THEN "nomic" ELSE e.model]
           Ollama == IF e.ollama THEN ollama ELSE NoBackend
           auto == IF Hosted("multimodal") # NoBackend THEN Hosted("multimodal")
                   ELSE IF Local # NoBackend THEN Local ELSE Ollama
<1>1. ResolveEmbedder(e) = CASE e.backend = "none" -> NoBackend
                             [] e.backend \in {"multimodal", "openai-compat"} -> Hosted(e.backend)
                             [] e.backend = "siglip-local" -> Local
                             [] e.backend = "ollama" -> Ollama
                             [] OTHER -> auto
  BY DEF ResolveEmbedder
<1>2. NoBackend.backend = "none" /\ ~NoBackend.images
  BY DEF NoBackend
<1>3. \A b : hosted(b).backend = b /\ (hosted(b).images <=> see(b))
  <2> HIDE DEF see
  <2> QED OBVIOUS
<1>4. local.backend = "siglip-local" /\ local.images /\ ollama.backend = "ollama" /\ ~ollama.images
  OBVIOUS
<1> HIDE DEF hosted, local, ollama
<1>5. hosted("multimodal") # NoBackend /\ local # NoBackend /\ ollama # NoBackend
  BY <1>2, <1>3, <1>4
<1>6. hosted("multimodal").images
  BY <1>3
<1>7. e.backend = "auto" => ResolveEmbedder(e) = auto
  BY <1>1
<1>8. /\ auto.images <=> (e.torch \/ (e.url /\ e.key /\ e.model # "unset"))
      /\ e.ollama => auto # NoBackend
  BY <1>2, <1>4, <1>5, <1>6
<1>9. e.backend # "auto" => ResolveEmbedder(e).backend \in {e.backend, "none"}
  BY <1>1, <1>2, <1>3, <1>4
<1>10. NoBackend.images = FALSE /\ local.images = TRUE /\ ollama.images = FALSE
       /\ hosted("multimodal").images = TRUE
  BY DEF NoBackend, local, ollama, hosted
<1>11. auto.images \in BOOLEAN
  BY <1>5, <1>10
<1> HIDE DEF auto
<1> DEFINE some == e.torch \/ (e.url /\ e.key /\ e.model # "unset")
<1>12. auto.images = some
  <2>1. some \in BOOLEAN /\ (auto.images <=> some)
    BY <1>8
  <2> HIDE DEF some
  <2> QED BY <1>11, <2>1
<1> QED BY <1>7, <1>8, <1>9, <1>12

LEMMA MatchFacts ==
    ASSUME NEW identity \in Identity, NEW e
    PROVE  LET m == Matching(identity, e)
           IN  /\ DOMAIN m = {"available", "with", "says"}
               /\ m.available => identity # <<>> /\ (identity[1].backend # "siglip-local" =>
                                                         m.with.model = identity[1].model)
               /\ identity # <<>> /\ identity[1].backend # "none" => m.says = identity
<1> DEFINE m == Matching(identity, e)
           resolved == ResolveEmbedder(e)
           there(r) == r # NoBackend
           Match(r) == [available |-> there(r), with |-> r, says |-> identity]
           No == [available |-> FALSE, with |-> NoBackend, says |-> identity]
           Empty == [No EXCEPT !.says = <<>>]
           siglip == [backend |-> "siglip-local", model |-> "siglip", images |-> TRUE]
<1>1. m = IF identity = <<>> \/ identity[1].backend = "none" THEN Empty
          ELSE IF identity[1].backend = "siglip-local" THEN Match(siglip)
          ELSE IF resolved.model # identity[1].model THEN No
          ELSE Match(resolved)
  BY DEF Matching
<1>2. \A r : DOMAIN Match(r) = {"available", "with", "says"} /\ Match(r).with = r /\ Match(r).says = identity
  <2> HIDE DEF there
  <2> QED OBVIOUS
<1>3. DOMAIN No = {"available", "with", "says"} /\ ~No.available /\ No.says = identity
  OBVIOUS
<1>4. DOMAIN Empty = {"available", "with", "says"} /\ ~Empty.available
  OBVIOUS
<1> HIDE DEF Match, No, Empty, siglip, resolved
<1>5. DOMAIN m = {"available", "with", "says"}
  BY <1>1, <1>2, <1>3, <1>4
<1>6. m.available => identity # <<>> /\ (identity[1].backend # "siglip-local" =>
                                             m.with.model = identity[1].model)
  BY <1>1, <1>2, <1>3, <1>4
<1>7. identity # <<>> /\ identity[1].backend # "none" => m.says = identity
  BY <1>1, <1>2, <1>3
<1> HIDE DEF m
<1>8. /\ DOMAIN m = {"available", "with", "says"}
      /\ m.available => identity # <<>> /\ (identity[1].backend # "siglip-local" =>
                                                m.with.model = identity[1].model)
      /\ identity # <<>> /\ identity[1].backend # "none" => m.says = identity
  BY <1>5, <1>6, <1>7
<1> QED BY <1>8 DEF m

LEMMA EdgeEmbedders == EdgeIInv => EmbeddersMatch
<1> SUFFICES ASSUME EdgeIInv, Answered("match") PROVE EmbeddersMatch
  BY DEF EmbeddersMatch
<1> DEFINE e == call.e
           r == ResolveEmbedder(e)
           m == Matching(call.identity, e)
<1>1. call \in MatchCalls /\ answer = Joined([resolved |-> r], m)
  BY EdgeCallFacts DEF EdgeIInv, Answered
<1>2. /\ call.identity \in Identity
      /\ e.backend \in {"auto", "none", "multimodal", "openai-compat", "siglip-local", "ollama"}
  BY <1>1 DEF MatchCalls
<1>3. /\ DOMAIN m = {"available", "with", "says"}
      /\ m.available => call.identity # <<>> /\ (call.identity[1].backend # "siglip-local" =>
                                                     m.with.model = call.identity[1].model)
      /\ call.identity # <<>> /\ call.identity[1].backend # "none" => m.says = call.identity
  BY <1>2, MatchFacts
<1>4. /\ e.backend # "auto" => r.backend \in {e.backend, "none"}
      /\ e.backend = "auto" =>
            /\ r.images = (e.torch \/ (e.url /\ e.key /\ e.model # "unset"))
            /\ e.ollama => r # NoBackend
  BY <1>2, ResolveFacts
<1>5. answer.resolved = r /\ answer.available = m.available /\ answer.with = m.with /\ answer.says = m.says
  <2> DEFINE f == [resolved |-> r]
  <2>1. DOMAIN f = {"resolved"} /\ f.resolved = r
    OBVIOUS
  <2> HIDE DEF f, m, r
  <2>2. \A x \in DOMAIN f : Joined(f, m)[x] = f[x]
    BY ONLY JoinedFacts
  <2>3. \A x \in DOMAIN m \ DOMAIN f : Joined(f, m)[x] = m[x]
    BY ONLY JoinedFacts
  <2>4. answer = Joined(f, m)
    BY <1>1 DEF f
  <2> QED BY <1>3, <2>1, <2>2, <2>3, <2>4
<1> HIDE DEF r, m
<1> QED BY <1>3, <1>4, <1>5 DEF EmbeddersMatch

--------------------------------------------------------------------------
(* A survey of a folder. *)

\* Figures of the two kinds, added up.
LEMMA KindSums ==
    ASSUME NEW U, U \subseteq {"image", "video"}, NEW v, v \in [U -> Nat]
    PROVE  SumFunction(v) = (IF "image" \in U THEN v["image"] ELSE 0)
                                + (IF "video" \in U THEN v["video"] ELSE 0)
<1>1. CASE U = {}
  <2>1. IsFiniteSet(U) /\ \A x \in U : v[x] = 0
    BY <1>1, FS_EmptySet
  <2>2. SumFunction(v) = 0
    BY <2>1, SumFacts
  <2> QED BY <1>1, <2>2
<1>2. CASE U = {"image"}
  <2>1. SumFunction(v) = v["image"] /\ v["image"] \in Nat
    BY <1>2, SumOne
  <2> QED BY <1>2, <2>1
<1>3. CASE U = {"video"}
  <2>1. SumFunction(v) = v["video"] /\ v["video"] \in Nat
    BY <1>3, SumOne
  <2> QED BY <1>3, <2>1
<1>4. CASE U = {"image", "video"}
  <2>1. "image" # "video"
    OBVIOUS
  <2>2. SumFunction(v) = v["image"] + v["video"]
    BY <1>4, <2>1, SumTwo
  <2> QED BY <1>4, <2>2
<1> QED BY <1>1, <1>2, <1>3, <1>4

\* The files met are images, videos or of no use.
LEMMA MetFacts ==
    ASSUME NEW met \in Seq({"image", "heic", "video", "other"})
    PROVE  LET Tally(T) == Cardinality({i \in DOMAIN met : met[i] \in T})
           IN  /\ \A T : Tally(T) \in Nat
               /\ Tally({"image", "heic"}) + Tally({"video"}) + Tally({"other"}) = Len(met)
<1> DEFINE D == DOMAIN met
           P(T) == {i \in D : met[i] \in T}
           a == P({"image", "heic"})
           b == P({"video"})
           o == P({"other"})
<1>1. D = 1..Len(met) /\ Len(met) \in Nat /\ \A i \in D : met[i] \in {"image", "heic", "video", "other"}
  BY LenProperties
<1>2. IsFiniteSet(D) /\ Cardinality(D) = Len(met)
  <2> DEFINE n == Len(met)
  <2>1. n \in Nat /\ 1 \in Int /\ n \in Int /\ D = 1..n
    BY <1>1
  <2> HIDE DEF n, D
  <2>2. IsFiniteSet(1..n) /\ Cardinality(1..n) = IF 1 > n THEN 0 ELSE n - 1 + 1
    BY <2>1, FS_Interval
  <2>3. IsFiniteSet(D) /\ Cardinality(D) = n
    BY <2>1, <2>2
  <2> QED BY <2>3 DEF n
<1> HIDE DEF D
<1>3. \A T : IsFiniteSet(P(T)) /\ Cardinality(P(T)) \in Nat
  <2> TAKE T
  <2>1. P(T) \subseteq D
    OBVIOUS
  <2> QED BY <1>2, <2>1, FS_Subset, FS_CardinalityType
<1>4. a \cap b = {} /\ (a \cup b) \cap o = {} /\ (a \cup b) \cup o = D
  BY <1>1
<1>5. IsFiniteSet(a) /\ IsFiniteSet(b) /\ IsFiniteSet(o) /\ Cardinality(a) \in Nat /\ Cardinality(b) \in Nat
      /\ Cardinality(o) \in Nat
  BY <1>3
<1> HIDE DEF a, b, o
<1>6. IsFiniteSet(a \cup b) /\ Cardinality(a \cup b) = Cardinality(a) + Cardinality(b)
  <2>1. IsFiniteSet(a \cup b) /\ Cardinality(a \cup b) = Cardinality(a) + Cardinality(b) - Cardinality(a \cap b)
    BY <1>5, FS_Union
  <2>2. Cardinality(a \cap b) = 0
    BY ONLY <1>4, FS_EmptySet
  <2> QED BY <1>5, <2>1, <2>2
<1>7. Cardinality(D) = Cardinality(a \cup b) + Cardinality(o)
  <2>1. Cardinality((a \cup b) \cup o) = Cardinality(a \cup b) + Cardinality(o) - Cardinality((a \cup b) \cap o)
    BY <1>5, <1>6, FS_Union
  <2>2. Cardinality((a \cup b) \cap o) = 0
    BY ONLY <1>4, FS_EmptySet
  <2>3. Cardinality(a \cup b) \in Nat
    BY <1>5, <1>6
  <2>4. Cardinality((a \cup b) \cup o) = Cardinality(D)
    BY ONLY <1>4
  <2> QED BY ONLY <1>5, <2>1, <2>2, <2>3, <2>4
<1>8. Cardinality(a) + Cardinality(b) + Cardinality(o) = Len(met)
  BY <1>2, <1>5, <1>6, <1>7
<1> HIDE DEF P
<1>9. /\ \A T : Cardinality(P(T)) \in Nat
      /\ Cardinality(P({"image", "heic"})) + Cardinality(P({"video"})) + Cardinality(P({"other"})) = Len(met)
  BY <1>3, <1>8 DEF a, b, o
<1> QED BY <1>9 DEF P, D

LEMMA EdgeSurveys == EdgeIInv => SurveysAddUp
<1> SUFFICES ASSUME EdgeIInv, Answered("survey") PROVE SurveysAddUp
  BY DEF SurveysAddUp
<1> DEFINE c == call
           met == IF c.root \in {"there", "part"} THEN SubSeq(c.files, 1, Lesser(c.max, Len(c.files)))
                  ELSE <<>>
           Tally(T) == Cardinality({i \in DOMAIN met : met[i] \in T})
           Met(kind) == Tally({f \in {"image", "heic", "video"} : KindOf(f) = kind})
           present == {k \in {"image", "video"} : Met(k) > 0}
           found == present \cap c.wanted
           short == {k \in found : ~Decodes(k, c.present)}
           truncated == Len(met) >= c.max
           readable == CASE c.root = "remote" -> "unknown" [] c.root = "absent" -> "no" [] OTHER -> "yes"
           kept == [k \in found |-> Met(k)]
           other == [k \in present \ found |-> Met(k)]
           fine == SumOf(found \ short, Met)
           warned == short \cup {"heic" : x \in {h \in {c.heif} : ~h /\ Tally({"heic"}) > 0
                                                                   /\ "image" \in c.wanted}}
                       \cup {"unreadable" : x \in {c.root} \cap {"closed", "part"}}
           note == IF c.root \in {"remote", "absent"} THEN c.root
                   ELSE IF truncated THEN "a_floor"
                   ELSE IF found = {} THEN "nothing"
                   ELSE "fine"
<1>1. c \in SurveyCalls /\ answer = Survey(c)
  BY EdgeCallFacts DEF EdgeIInv, Answered
<1>2. answer = [readable |-> readable, found |-> kept, excluded |-> other,
                unsupported |-> Tally({"other"}), total |-> Len(met), truncated |-> truncated,
                ingestable |-> fine, warned |-> warned, note |-> note]
  BY <1>1 DEF Survey
<1>3. /\ c.root \in {"there", "part", "closed", "absent", "remote"} /\ c.max \in 1..3
      /\ c.files \in Seq({"image", "heic", "video", "other"})
  <2> DEFINE fs == UNION {[1..n -> {"image", "heic", "video", "other"}] : n \in 0..4}
  <2>1. c.files \in fs /\ c.root \in {"there", "part", "closed", "absent", "remote"} /\ c.max \in 1..3
    <3> HIDE DEF fs
    <3> QED BY <1>1 DEF SurveyCalls, fs
  <2>2. \A n \in 0..4 : [1..n -> {"image", "heic", "video", "other"}] \subseteq Seq({"image", "heic", "video", "other"})
    OBVIOUS
  <2> QED BY <2>1, <2>2
<1>4. /\ met \in Seq({"image", "heic", "video", "other"}) /\ Len(met) \in Nat
      /\ c.root \in {"there", "part"} => Len(met) = Lesser(c.max, Len(c.files))
      /\ c.root \notin {"there", "part"} => Len(met) = 0
  <2> DEFINE n == Lesser(c.max, Len(c.files))
             s == SubSeq(c.files, 1, n)
  <2>1. n \in Nat /\ n <= Len(c.files) /\ Len(c.files) \in Nat
    BY <1>3 DEF Lesser
  <2>2. \A i \in 1..n : c.files[i] \in {"image", "heic", "video", "other"}
    <3> HIDE DEF n
    <3> QED BY <1>3, <2>1
  <2> HIDE DEF n
  <2>3. s \in Seq({"image", "heic", "video", "other"}) /\ Len(s) = n
    BY <2>1, <2>2, SubSeqProperties
  <2> HIDE DEF s
  <2>4. met = IF c.root \in {"there", "part"} THEN s ELSE <<>>
    BY DEF s, n
  <2>5. <<>> \in Seq({"image", "heic", "video", "other"}) /\ Len(<<>>) = 0
    OBVIOUS
  <2> HIDE DEF met
  <2> QED BY <2>1, <2>3, <2>4, <2>5 DEF n
<1> HIDE DEF met
<1>5. /\ \A T : Tally(T) \in Nat
      /\ Tally({"image", "heic"}) + Tally({"video"}) + Tally({"other"}) = Len(met)
  BY <1>4, MetFacts
<1>6. Met("image") = Tally({"image", "heic"}) /\ Met("video") = Tally({"video"})
  <2>1. {f \in {"image", "heic", "video"} : KindOf(f) = "image"} = {"image", "heic"}
    BY DEF KindOf
  <2>2. {f \in {"image", "heic", "video"} : KindOf(f) = "video"} = {"video"}
    BY DEF KindOf
  <2> HIDE DEF Tally
  <2> QED BY <2>1, <2>2
<1> HIDE DEF Tally
<1>7. \A k : Met(k) \in Nat
  BY <1>5
<1>8. Met("image") + Met("video") + Tally({"other"}) = Len(met) /\ Tally({"other"}) \in Nat
  BY <1>5, <1>6
<1> HIDE DEF Met
<1> DEFINE Added2(f) == SumOf(DOMAIN f, LAMBDA k : f[k])
           sum(U) == SumFunction([k \in U |-> Met(k)])
<1>9. \A U : U \subseteq {"image", "video"} =>
          sum(U) = (IF "image" \in U THEN Met("image") ELSE 0) + (IF "video" \in U THEN Met("video") ELSE 0)
  <2> SUFFICES ASSUME NEW U, U \subseteq {"image", "video"}
               PROVE  sum(U) = (IF "image" \in U THEN Met("image") ELSE 0)
                                   + (IF "video" \in U THEN Met("video") ELSE 0)
    OBVIOUS
  <2> DEFINE v == [k \in U |-> Met(k)]
  <2>1. v \in [U -> Nat] /\ \A k \in U : v[k] = Met(k)
    BY <1>7
  <2> HIDE DEF v
  <2>2. SumFunction(v) = (IF "image" \in U THEN v["image"] ELSE 0) + (IF "video" \in U THEN v["video"] ELSE 0)
    BY <2>1, KindSums
  <2>3. sum(U) = SumFunction(v)
    BY DEF v
  <2> HIDE DEF sum
  <2> QED BY <2>1, <2>2, <2>3
<1>10. Added2(kept) = sum(found) /\ Added2(other) = sum(present \ found)
  <2>1. \A U : Added2([k \in U |-> Met(k)]) = sum(U)
    <3> TAKE U
    <3> DEFINE v == [k \in U |-> Met(k)]
    <3>1. [k \in DOMAIN v |-> v[k]] = v
      OBVIOUS
    <3>2. SumFunction([k \in DOMAIN v |-> v[k]]) = SumFunction(v)
      BY <3>1
    <3> HIDE DEF v
    <3>3. Added2(v) = SumFunction(v)
      BY <3>2 DEF SumOf
    <3> QED BY <3>3 DEF v
  <2> HIDE DEF Added2, sum
  <2> QED BY <2>1
<1>11. fine = sum(found \ short)
  BY DEF SumOf
<1>12. /\ present \subseteq {"image", "video"}
       /\ "image" \notin present => Met("image") = 0
       /\ "video" \notin present => Met("video") = 0
  BY <1>7
<1>13. found \subseteq present /\ short \subseteq found
  OBVIOUS
<1>14. short \subseteq warned
  OBVIOUS
<1>15. c.root = "closed" => "unreadable" \in warned
  OBVIOUS
<1> HIDE DEF sum, Added2, present, kept, other, fine, truncated, readable, warned, note
<1>16. /\ answer.found = kept /\ answer.excluded = other /\ answer.unsupported = Tally({"other"})
       /\ answer.total = Len(met) /\ (answer.truncated <=> truncated) /\ answer.readable = readable
       /\ answer.ingestable = fine /\ answer.warned = warned /\ answer.note = note
  BY ONLY <1>2
<1>17. Added2(kept) + Added2(other) + Tally({"other"}) = Len(met)
  <2> DEFINE U == present \ found
             a == Met("image")
             b == Met("video")
  <2>1. sum(found) = (IF "image" \in found THEN a ELSE 0) + (IF "video" \in found THEN b ELSE 0)
    BY <1>9, <1>12, <1>13
  <2>2. sum(U) = (IF "image" \in U THEN a ELSE 0) + (IF "video" \in U THEN b ELSE 0)
    BY <1>9, <1>12
  <2>3. "image" \in present => ("image" \in found /\ "image" \notin U) \/ ("image" \notin found /\ "image" \in U)
    OBVIOUS
  <2>4. "video" \in present => ("video" \in found /\ "video" \notin U) \/ ("video" \notin found /\ "video" \in U)
    OBVIOUS
  <2>5. \A k : k \notin present => k \notin found /\ k \notin U
    BY <1>13
  <2>6. a \in Nat /\ b \in Nat
    BY <1>7
  <2>7. Added2(kept) = sum(found) /\ Added2(other) = sum(U)
    BY <1>10
  <2> HIDE DEF U, found, a, b
  <2>8. sum(found) + sum(U) = a + b
    BY <1>12, <2>1, <2>2, <2>3, <2>4, <2>5, <2>6 DEF a, b
  <2> QED BY <1>8, <2>6, <2>7, <2>8 DEF a, b
<1>18. Len(met) < Len(c.files) => truncated \/ readable # "yes" \/ "unreadable" \in warned
  BY <1>3, <1>4, <1>15 DEF truncated, readable, Lesser
<1>19. truncated => note = "a_floor"
  BY <1>3, <1>4 DEF truncated, note
<1>20. fine < Added2(kept) => \E k \in DOMAIN kept : k \in warned
  <2> SUFFICES ASSUME \A k \in DOMAIN kept : k \notin warned PROVE ~(fine < Added2(kept))
    OBVIOUS
  <2>1. DOMAIN kept = found
    BY DEF kept
  <2>2. found \ short = found
    BY <1>13, <1>14, <2>1
  <2>3. fine = Added2(kept)
    BY <1>10, <1>11, <2>2
  <2>4. sum(found) \in Nat
    <3>1. sum(found) = (IF "image" \in found THEN Met("image") ELSE 0)
                           + (IF "video" \in found THEN Met("video") ELSE 0)
      BY <1>9, <1>12, <1>13
    <3> QED BY <1>7, <3>1
  <2> QED BY <1>10, <2>3, <2>4
<1>21. note = "nothing" => fine = 0
  <2> SUFFICES ASSUME note = "nothing" PROVE fine = 0
    OBVIOUS
  <2>1. found = {}
    BY DEF note
  <2>2. found \ short = {}
    BY <2>1
  <2>3. sum({}) = 0
    <3>1. {} \subseteq {"image", "video"} /\ "image" \notin {} /\ "video" \notin {}
      OBVIOUS
    <3> QED BY ONLY <1>9, <3>1
  <2> QED BY <1>11, <2>2, <2>3
<1>22. /\ Added2(answer.found) + Added2(answer.excluded) + answer.unsupported = answer.total
       /\ answer.ingestable < Added2(answer.found) => \E k \in DOMAIN answer.found : k \in answer.warned
  BY ONLY <1>16, <1>17, <1>20
<1>23. /\ answer.total < Len(c.files) =>
             answer.truncated \/ answer.readable # "yes" \/ "unreadable" \in answer.warned
       /\ answer.truncated => answer.note = "a_floor"
       /\ answer.note = "nothing" => answer.ingestable = 0
  BY ONLY <1>16, <1>18, <1>19, <1>21
<1> QED BY ONLY <1>22, <1>23 DEF SurveysAddUp, Added2

--------------------------------------------------------------------------
(* Vectors and the items they are of. *)

\* A run of numbers.
Upward(a, b) == [i \in 1..b - a |-> a + i]

LEMMA UpwardFacts ==
    ASSUME NEW a \in Nat, NEW b \in Nat, a <= b
    PROVE  /\ Upward(a, b) \in Seq(Nat) /\ Len(Upward(a, b)) = b - a /\ DOMAIN Upward(a, b) = 1..b - a
           /\ \A i \in 1..b - a : Upward(a, b)[i] = a + i
           /\ ToSet(Upward(a, b)) = a + 1..b
<1> DEFINE u == Upward(a, b)
           n == b - a
<1>1. n \in Nat /\ n = b - a
  OBVIOUS
<1>2. u \in [1..n -> Nat] /\ \A i \in 1..n : u[i] = a + i
  BY DEF Upward
<1> HIDE DEF u, n
<1>3. u \in Seq(Nat) /\ Len(u) = n /\ DOMAIN u = 1..n
  BY <1>1, <1>2
<1>4. \A x \in a + 1..b : x - a \in 1..n /\ x = a + (x - a)
  BY <1>1
<1>5. \A i \in 1..n : a + i \in a + 1..b
  BY <1>1
<1>6. ToSet(u) = a + 1..b
  <2> DEFINE B == a + 1..b
  <2>1. ToSet(u) = {u[i] : i \in 1..n}
    BY <1>3 DEF ToSet
  <2>2. \A i \in 1..n : u[i] \in B
    BY <1>2, <1>5
  <2>3. \A x \in B : \E i \in 1..n : u[i] = x
    BY <1>2, <1>4
  <2> HIDE DEF B
  <2>4. ToSet(u) = B
    BY ONLY <2>1, <2>2, <2>3
  <2> QED BY <2>4 DEF B
<1> QED BY <1>1, <1>2, <1>3, <1>6 DEF u

\* A run and the next one are one.
LEMMA UpwardJoin ==
    ASSUME NEW a \in Nat, NEW b \in Nat, NEW c \in Nat, a <= b, b <= c
    PROVE  Upward(a, b) \o Upward(b, c) = Upward(a, c)
<1> DEFINE s == Upward(a, b)
           t == Upward(b, c)
           u == Upward(a, c)
           m == b - a
           n == c - b
           k == c - a
<1>1. s \in Seq(Nat) /\ Len(s) = m /\ \A i \in 1..m : s[i] = a + i
  BY UpwardFacts
<1>2. t \in Seq(Nat) /\ Len(t) = n /\ \A i \in 1..n : t[i] = b + i
  BY UpwardFacts
<1>3. u \in Seq(Nat) /\ Len(u) = k /\ \A i \in 1..k : u[i] = a + i
  BY UpwardFacts
<1>4. m \in Nat /\ n \in Nat /\ k = m + n /\ b = a + m
  OBVIOUS
<1> HIDE DEF s, t, u, m, n, k
<1>5. /\ s \o t \in Seq(Nat) /\ Len(s \o t) = m + n
      /\ \A i \in 1..m + n : (s \o t)[i] = IF i <= m THEN s[i] ELSE t[i - m]
  BY <1>1, <1>2, ConcatProperties
<1>6. \A i \in 1..k : (s \o t)[i] = u[i]
  <2> TAKE i \in 1..k
  <2>1. CASE i <= m
    BY <1>1, <1>3, <1>4, <1>5, <2>1
  <2>2. CASE ~(i <= m)
    <3>1. i - m \in 1..n
      BY <1>4, <2>2
    <3>2. t[i - m] = b + (i - m)
      BY <1>2, <3>1
    <3>3. (s \o t)[i] = t[i - m] /\ u[i] = a + i
      BY <1>3, <1>4, <1>5, <2>2
    <3>4. b + (i - m) = a + i
      BY <1>4, <2>2
    <3> QED BY ONLY <3>2, <3>3, <3>4
  <2> QED BY <2>1, <2>2
<1>7. s \o t = u
  BY <1>3, <1>4, <1>5, <1>6, SeqEqual
<1> QED BY <1>7 DEF s, t, u

\* The numbers of a run, the smallest first, are the run.
LEMMA UpwardInOrder ==
    ASSUME NEW a \in Nat, NEW b \in Nat, a <= b
    PROVE  InOrder(a + 1..b) = Upward(a, b)
<1> DEFINE S == a + 1..b
           s == [i \in S |-> i]
           n == b - a
           u == Upward(a, b)
<1>1. n \in Nat /\ a + 1 \in Int /\ b \in Int /\ S \in SUBSET Nat
  OBVIOUS
<1>2. IsFiniteSet(S) /\ Cardinality(S) = n
  <2>1. IsFiniteSet(S) /\ Cardinality(S) = IF a + 1 > b THEN 0 ELSE b - (a + 1) + 1
    BY <1>1, FS_Interval
  <2> QED BY <2>1
<1>3. \A i \in S : Cardinality({j \in S : j <= i}) = i - a
  <2> TAKE i \in S
  <2>1. {j \in S : j <= i} = a + 1..i
    OBVIOUS
  <2>2. i \in Int /\ ~(a + 1 > i)
    OBVIOUS
  <2>3. Cardinality(a + 1..i) = IF a + 1 > i THEN 0 ELSE i - (a + 1) + 1
    BY <1>1, <2>2, FS_Interval
  <2>4. i - (a + 1) + 1 = i - a
    OBVIOUS
  <2>5. Cardinality(a + 1..i) = i - a
    BY ONLY <2>2, <2>3, <2>4
  <2> QED BY ONLY <2>1, <2>5
<1> HIDE DEF s, S, n
<1>4. /\ DOMAIN At(s, S) = 1..n
      /\ \A k \in 1..n : \E i \in S : Rank(S, i) = k /\ At(s, S)[k] = s[i]
  BY <1>1, <1>2, AtFacts
<1>5. At(s, S) \in Seq(Nat) /\ Len(At(s, S)) = n
  <2>1. \A i \in S : s[i] \in Nat
    BY DEF s, S
  <2> QED BY <1>1, <1>2, <2>1, AtSeq
<1>6. \A k \in 1..n : At(s, S)[k] = a + k
  <2> TAKE k \in 1..n
  <2>1. PICK i \in S : Rank(S, i) = k /\ At(s, S)[k] = s[i]
    BY <1>4
  <2>2. i - a = k /\ s[i] = i
    BY <1>3, <2>1 DEF Rank, s
  <2>3. i \in Nat /\ k \in Nat
    BY <1>1
  <2> QED BY <2>1, <2>2, <2>3
<1>7. u \in Seq(Nat) /\ Len(u) = n /\ \A k \in 1..n : u[k] = a + k
  BY UpwardFacts DEF n
<1> DEFINE w == At(s, S)
<1>8. w \in Seq(Nat) /\ Len(w) = n /\ \A k \in 1..n : w[k] = a + k
  BY <1>5, <1>6
<1>9. InOrder(S) = w
  BY DEF InOrder, s
<1> HIDE DEF u, w, n, S
<1>10. u = w
  BY <1>1, <1>7, <1>8, SeqEqual
<1> QED BY <1>9, <1>10 DEF u, S

\* What a sequence of sequences is flattened into grows, and so it is a sequence.
LEMMA FlattenGrows ==
    ASSUME NEW S, NEW seqs \in Seq(Seq(S)), seqs # <<>>
    PROVE  \E g \in [1..Len(seqs) -> Seq(S)] : Grows(g, Len(seqs), seqs)
<1> DEFINE k == Len(seqs)
           Q == Seq(S)
           F == [n \in 1..k |-> [s \in Q |-> s \o seqs[n]]]
<1>1. k \in Nat /\ k >= 1 /\ \A n \in 1..k : seqs[n] \in Q
  BY LenProperties, EmptySeq
<1>2. <<>> \in Q /\ \A s, t \in Q : s \o t \in Q
  BY ConcatProperties, EmptySeq
<1>3. \A t \in Q : <<>> \o t = t
  BY ConcatEmptySeq
<1> HIDE DEF Q
<1>4. F \in [1..k -> [Q -> Q]]
  BY <1>1, <1>2
<1>5. PICK f \in [0..k -> Q] : Unrolls(f, k, <<>>, F)
  <2> HIDE DEF F, k
  <2> QED BY ONLY <1>1, <1>2, <1>4, Unrolled
<1>6. \A n \in 1..k : f[n - 1] \in Q /\ f[n] = f[n - 1] \o seqs[n]
  <2> TAKE n \in 1..k
  <2>1. n - 1 \in 0..k
    BY <1>1
  <2>2. f[n - 1] \in Q /\ f[n] = F[n][f[n - 1]]
    BY <1>5, <2>1 DEF Unrolls
  <2> QED BY <2>2
<1> DEFINE g == [n \in 1..k |-> f[n]]
<1>7. g \in [1..k -> Q]
  BY <1>5
<1>8. g[1] = seqs[1]
  <2>0. f[0] = <<>>
    BY <1>5 DEF Unrolls
  <2>1. 1 \in 1..k /\ 1 - 1 = 0 /\ seqs[1] \in Q
    BY <1>1
  <2> HIDE DEF k
  <2>2. f[1] = seqs[1]
    <3>1. f[1] = f[0] \o seqs[1]
      BY ONLY <1>6, <2>1
    <3> QED BY ONLY <1>3, <2>0, <2>1, <3>1
  <2>3. g[1] = f[1]
    BY <2>1
  <2> QED BY <2>2, <2>3
<1>9. \A i \in 2..k : g[i] = g[i - 1] \o seqs[i]
  <2> TAKE i \in 2..k
  <2>1. i \in 1..k /\ i - 1 \in 1..k
    BY <1>1
  <2> QED BY <1>6, <2>1
<1>10. DOMAIN g = 1..k /\ g = [i \in 1..k |-> g[i]]
  OBVIOUS
<1> HIDE DEF g, k
<1>11. Grows(g, k, seqs)
  BY <1>1, <1>8, <1>9, <1>10 DEF Grows, k
<1> QED BY <1>7, <1>11 DEF k, Q

LEMMA FlattenOne ==
    ASSUME NEW x
    PROVE  FlattenSeq(<<x>>) = x
<1> DEFINE g == [i \in 1..1 |-> x]
           s == <<x>>
<1>1. Len(s) = 1 /\ s[1] = x /\ DOMAIN g = 1..1 /\ g = [i \in 1..1 |-> g[i]] /\ g[1] = x
  OBVIOUS
<1>2. \A i \in 2..1 : FALSE
  OBVIOUS
<1> HIDE DEF g, s
<1>3. Grows(g, 1, s)
  BY <1>1, <1>2 DEF Grows
<1>4. FlattenSeq(s) = g[1]
  BY ONLY <1>3, Flattened
<1> QED BY <1>1, <1>4 DEF s

LEMMA FlattenNone == FlattenSeq(<<>>) = <<>>
<1>1. Len(<<>>) = 0
  OBVIOUS
<1> QED BY <1>1 DEF FlattenSeq

LEMMA FlattenType ==
    ASSUME NEW S, NEW seqs \in Seq(Seq(S))
    PROVE  FlattenSeq(seqs) \in Seq(S)
<1>1. CASE seqs = <<>>
  BY <1>1, FlattenNone, EmptySeq
<1>2. CASE seqs # <<>>
  <2>1. PICK g \in [1..Len(seqs) -> Seq(S)] : Grows(g, Len(seqs), seqs)
    BY <1>2, FlattenGrows
  <2>2. FlattenSeq(seqs) = g[Len(seqs)]
    BY ONLY <2>1, Flattened
  <2>3. Len(seqs) \in 1..Len(seqs)
    BY <2>1 DEF Grows
  <2>4. g[Len(seqs)] \in Seq(S)
    BY <2>1, <2>3
  <2> QED BY <2>2, <2>4
<1> QED BY <1>1, <1>2

\* One more sequence is flattened into what there was, and it.
LEMMA FlattenNext ==
    ASSUME NEW S, NEW seqs \in Seq(Seq(S)), NEW x \in Seq(S)
    PROVE  FlattenSeq(Append(seqs, x)) = FlattenSeq(seqs) \o x
<1>1. CASE seqs = <<>>
  <2>1. Append(seqs, x) = <<x>>
    BY <1>1
  <2>2. <<>> \o x = x
    BY ConcatEmptySeq
  <2> QED BY <1>1, <2>1, <2>2, FlattenOne, FlattenNone
<1>2. CASE seqs # <<>>
  <2> DEFINE k == Len(seqs)
             t == Append(seqs, x)
             Q == Seq(S)
  <2>1. PICK g \in [1..k -> Q] : Grows(g, k, seqs)
    BY <1>2, FlattenGrows
  <2>2. /\ k \in Nat /\ k >= 1 /\ DOMAIN g = 1..k
        /\ g[1] = seqs[1] /\ \A i \in 2..k : g[i] = g[i - 1] \o seqs[i]
    BY <2>1 DEF Grows
  <2>3. t \in Seq(Q) /\ Len(t) = k + 1 /\ t[k + 1] = x /\ \A i \in 1..k : t[i] = seqs[i]
    BY AppendFacts
  <2> HIDE DEF k, t, Q
  <2> DEFINE h == [i \in 1..k + 1 |-> IF i <= k THEN g[i] ELSE g[k] \o x]
  <2>4. /\ k + 1 \in Nat /\ k + 1 >= 1 /\ DOMAIN h = 1..k + 1 /\ h = [i \in 1..k + 1 |-> h[i]]
        /\ h[1] = t[1] /\ h[k + 1] = g[k] \o x /\ h[k] = g[k]
    <3>1. k \in 1..k + 1 /\ 1 \in 1..k + 1 /\ k + 1 \in 1..k + 1 /\ 1 <= k /\ ~(k + 1 <= k) /\ k <= k
      BY <2>2
    <3>2. h[1] = g[1] /\ h[k] = g[k] /\ h[k + 1] = g[k] \o x
      BY <3>1
    <3>3. 1 \in 1..k /\ t[1] = seqs[1]
      BY <2>2, <2>3
    <3> QED BY <2>2, <3>2, <3>3
  <2>5. \A i \in 2..k + 1 : h[i] = h[i - 1] \o t[i]
    <3> TAKE i \in 2..k + 1
    <3>1. CASE i = k + 1
      <4>1. i - 1 = k
        BY <2>2, <3>1
      <4> HIDE DEF h
      <4> QED BY <2>3, <2>4, <3>1, <4>1
    <3>2. CASE i # k + 1
      <4>1. i \in 2..k /\ i \in 1..k /\ i - 1 \in 1..k
        BY <2>2, <3>2
      <4>2. h[i] = g[i] /\ h[i - 1] = g[i - 1]
        BY <2>2, <4>1
      <4> QED BY <2>2, <2>3, <4>1, <4>2
    <3> QED BY <3>1, <3>2
  <2> HIDE DEF h
  <2>6. Grows(h, k + 1, t)
    BY <2>3, <2>4, <2>5 DEF Grows
  <2>7. FlattenSeq(t) = h[k + 1] /\ FlattenSeq(seqs) = g[k]
    BY ONLY <2>1, <2>6, Flattened
  <2> QED BY <2>4, <2>7 DEF t
<1> QED BY <1>1, <1>2

\* Shorter sequences are flattened into less.
Shorter(S, s, t) ==
    s \in Seq(Seq(S)) /\ t \in Seq(Seq(S)) /\ Len(s) = Len(t) /\ s # <<>>
    /\ \A i \in 1..Len(s) : Len(s[i]) < Len(t[i])

LEMMA FlattenShorter ==
    ASSUME NEW S, NEW s, NEW t, Shorter(S, s, t)
    PROVE  Len(FlattenSeq(s)) < Len(FlattenSeq(t))
<1> DEFINE k == Len(s)
           Q == Seq(S)
<1>1. /\ s \in Seq(Q) /\ t \in Seq(Q) /\ s # <<>> /\ t # <<>> /\ Len(t) = k /\ k \in Nat
      /\ \A i \in 1..k : Len(s[i]) < Len(t[i]) /\ s[i] \in Q /\ t[i] \in Q
  <2>1. s \in Seq(Q) /\ t \in Seq(Q) /\ s # <<>> /\ Len(t) = k /\ \A i \in 1..k : Len(s[i]) < Len(t[i])
    BY DEF Shorter
  <2>2. k \in Nat /\ \A i \in 1..k : s[i] \in Q /\ t[i] \in Q
    BY <2>1, LenProperties
  <2>3. t # <<>>
    BY <2>1, EmptySeq
  <2> QED BY <2>1, <2>2, <2>3
<1>2. PICK f \in [1..k -> Q] : Grows(f, k, s)
  BY <1>1, FlattenGrows
<1>3. PICK g \in [1..k -> Q] : Grows(g, k, t)
  BY <1>1, FlattenGrows
<1>4. FlattenSeq(s) = f[k] /\ FlattenSeq(t) = g[k]
  BY ONLY <1>2, <1>3, Flattened
<1>5. /\ k >= 1 /\ f[1] = s[1] /\ g[1] = t[1]
      /\ \A i \in 2..k : f[i] = f[i - 1] \o s[i] /\ g[i] = g[i - 1] \o t[i]
  BY <1>2, <1>3 DEF Grows
<1> DEFINE bad == {i \in 1..k : ~(Len(f[i]) < Len(g[i]))}
<1>6. bad = {}
  <2> SUFFICES ASSUME bad # {} PROVE FALSE
    OBVIOUS
  <2>1. bad \in SUBSET Nat
    OBVIOUS
  <2>2. PICK i \in bad : \A j \in bad : i <= j
    BY ONLY <2>1, bad # {}, Least
  <2>3. i # 1
    BY <1>1, <1>5
  <2>4. i \in 2..k /\ i \in 1..k /\ i - 1 \in 1..k /\ ~(i <= i - 1)
    BY <1>1, <2>3
  <2>5. Len(f[i - 1]) < Len(g[i - 1])
    BY <2>2, <2>4
  <2>6. f[i - 1] \in Q /\ g[i - 1] \in Q /\ s[i] \in Q /\ t[i] \in Q /\ Len(s[i]) < Len(t[i])
    BY <1>1, <1>2, <1>3, <2>4
  <2>7. Len(f[i]) = Len(f[i - 1]) + Len(s[i]) /\ Len(g[i]) = Len(g[i - 1]) + Len(t[i])
    <3>1. f[i] = f[i - 1] \o s[i] /\ g[i] = g[i - 1] \o t[i]
      BY <1>5, <2>4
    <3>2. \A u, w \in Q : Len(u \o w) = Len(u) + Len(w)
      BY ConcatProperties
    <3> HIDE DEF Q
    <3> QED BY ONLY <2>6, <3>1, <3>2
  <2>8. Len(f[i - 1]) \in Nat /\ Len(g[i - 1]) \in Nat /\ Len(s[i]) \in Nat /\ Len(t[i]) \in Nat
    BY <2>6, LenProperties
  <2>9. Len(f[i]) < Len(g[i])
    <3> DEFINE a == Len(f[i - 1])
               b == Len(g[i - 1])
               c == Len(s[i])
               d == Len(t[i])
    <3>1. a < b /\ c < d /\ Len(f[i]) = a + c /\ Len(g[i]) = b + d
      BY <2>5, <2>6, <2>7
    <3>2. a \in Nat /\ b \in Nat /\ c \in Nat /\ d \in Nat
      BY <2>8
    <3> HIDE DEF a, b, c, d
    <3> QED BY ONLY <3>1, <3>2
  <2> QED BY <2>9
<1>7. k \in 1..k
  BY <1>1, <1>5
<1> QED BY <1>4, <1>6, <1>7

\* A request is of some items that follow each other, and takes what a request can take.
BytesOf(sizes, a, b) == SumFunction([i \in 1..b - a |-> sizes[a + i]])

FitsOne(sizes, a, b) ==
    b - a \in 1..MaxItems /\ (b - a > 1 => BytesOf(sizes, a, b) <= MaxBytes)

Piece(r, sizes) ==
    \E a, b \in 0..Len(sizes) : a < b /\ r = Upward(a, b) /\ FitsOne(sizes, a, b)

LEMMA BytesFacts ==
    ASSUME NEW sizes \in Seq(Nat), NEW a \in Nat, NEW n \in Nat, a <= n, n < Len(sizes)
    PROVE  /\ BytesOf(sizes, a, n) \in Nat
           /\ BytesOf(sizes, a, n + 1) = BytesOf(sizes, a, n) + sizes[n + 1]
           /\ BytesOf(sizes, n, n + 1) = sizes[n + 1]
           /\ sizes[n + 1] \in Nat
<1>1. \A i \in 1..Len(sizes) : sizes[i] \in Nat
  BY LenProperties
<1>2. Len(sizes) \in Nat
  BY LenProperties
<1>3. ASSUME NEW c \in Nat, c <= n
      PROVE  /\ BytesOf(sizes, c, n) \in Nat
             /\ BytesOf(sizes, c, n + 1) = BytesOf(sizes, c, n) + sizes[n + 1]
  <2> DEFINE m == n - c
             v == [i \in 1..n + 1 - c |-> sizes[c + i]]
             w == [i \in 1..n - c |-> sizes[c + i]]
  <2>1. m \in Nat /\ n + 1 - c = m + 1 /\ c + (m + 1) = n + 1
    BY <1>3
  <2>2. \A i \in 1..m + 1 : c + i \in 1..Len(sizes)
    BY <1>2, <1>3
  <2>3. v \in [1..m + 1 -> Nat] /\ w \in [1..m -> Nat] /\ (\A i \in 1..m : v[i] = w[i])
    BY <1>1, <1>3, <2>1, <2>2
  <2>4. v[m + 1] = sizes[n + 1]
    BY <1>3, <2>1
  <2>5. BytesOf(sizes, c, n + 1) = SumFunction(v) /\ BytesOf(sizes, c, n) = SumFunction(w)
    BY DEF BytesOf
  <2> HIDE DEF v, w, m
  <2>6. Longer(v, w, m)
    BY <2>1, <2>3 DEF Longer
  <2>7. SumFunction(v) = SumFunction(w) + v[m + 1] /\ SumFunction(w) \in Nat
    BY <2>6, SumNext
  <2> QED BY <2>4, <2>5, <2>7
<1>4. BytesOf(sizes, n, n) = 0
  <2> DEFINE w == [i \in 1..n - n |-> sizes[n + i]]
  <2>1. 1..n - n = {} /\ IsFiniteSet({})
    BY FS_EmptySet
  <2>2. w \in [{} -> Nat] /\ \A x \in {} : w[x] = 0
    BY <2>1
  <2> HIDE DEF w
  <2>3. SumFunction(w) = 0
    BY <2>1, <2>2, SumFacts
  <2> QED BY <2>3 DEF BytesOf, w
<1>5. n + 1 \in 1..Len(sizes)
  BY <1>2
<1>6. sizes[n + 1] \in Nat
  BY <1>1, <1>5
<1>7. BytesOf(sizes, n, n + 1) = BytesOf(sizes, n, n) + sizes[n + 1]
  BY <1>3
<1>8. BytesOf(sizes, n, n + 1) = sizes[n + 1]
  BY <1>4, <1>6, <1>7
<1> QED BY <1>3, <1>6, <1>8

\* The first so many items: in requests that are full, and one that is not yet.
Packed(s, sizes, n) ==
    /\ s.done \in Seq(Seq(Nat)) /\ \A k \in 1..Len(s.done) : Piece(s.done[k], sizes)
    /\ n = 0 => s.done = <<>>
    /\ \E e \in 0..n :
          /\ s.now = Upward(e, n) /\ s.bytes = BytesOf(sizes, e, n) /\ FlattenSeq(s.done) = Upward(0, e)
          /\ e = n => n = 0
          /\ e < n => FitsOne(sizes, e, n)

Filled(s, i, sizes) ==
    IF s.now # <<>> /\ (Len(s.now) >= MaxItems \/ s.bytes + sizes[i] > MaxBytes)
    THEN [done |-> Append(s.done, s.now), now |-> <<i>>, bytes |-> sizes[i]]
    ELSE [done |-> s.done, now |-> Append(s.now, i), bytes |-> s.bytes + sizes[i]]

LEMMA FilledFacts ==
    ASSUME NEW sizes \in Seq(Nat), NEW n \in Nat, n < Len(sizes), NEW s, Packed(s, sizes, n)
    PROVE  Packed(Filled(s, n + 1, sizes), sizes, n + 1)
<1> DEFINE i == n + 1
           t == Filled(s, i, sizes)
<1>0. MaxItems \in Nat \ {0} /\ MaxBytes \in Nat \ {0}
  BY MediaAssumption
<1>1. PICK e \in 0..n : /\ s.now = Upward(e, n) /\ s.bytes = BytesOf(sizes, e, n)
                        /\ FlattenSeq(s.done) = Upward(0, e)
                        /\ (e = n => n = 0) /\ (e < n => FitsOne(sizes, e, n))
  BY DEF Packed
<1>2. e \in Nat /\ e <= n /\ i \in Nat /\ n < i /\ i # 0 /\ i - n = 1 /\ Len(sizes) \in Nat /\ i <= Len(sizes)
  BY LenProperties
<1>3. s.done \in Seq(Seq(Nat)) /\ \A k \in 1..Len(s.done) : Piece(s.done[k], sizes)
  BY DEF Packed
<1>4. /\ s.now \in Seq(Nat) /\ Len(s.now) = n - e
      /\ s.now # <<>> => e < n
      /\ s.now = <<>> => e = n
  <2>1. Upward(e, n) \in Seq(Nat) /\ Len(Upward(e, n)) = n - e
    BY <1>2, UpwardFacts
  <2>2. s.now \in Seq(Nat) /\ Len(s.now) = n - e
    BY <1>1, <2>1
  <2>3. s.now = <<>> => Len(s.now) = 0
    OBVIOUS
  <2>4. Len(s.now) = 0 => s.now = <<>>
    BY <2>2, EmptySeq
  <2> QED BY <1>2, <2>2, <2>3, <2>4
<1>5. /\ BytesOf(sizes, e, n) \in Nat
      /\ BytesOf(sizes, e, i) = BytesOf(sizes, e, n) + sizes[i]
      /\ BytesOf(sizes, n, i) = sizes[i]
      /\ sizes[i] \in Nat
  BY <1>2, BytesFacts
<1>6. Upward(n, i) = <<i>> /\ Upward(e, i) = Append(Upward(e, n), i)
  <2> DEFINE o == <<i>>
             u == Upward(n, i)
  <2>1. o \in Seq(Nat) /\ Len(o) = 1 /\ o[1] = i
    <3> HIDE DEF i
    <3> QED BY <1>2
  <2>2. u \in Seq(Nat) /\ Len(u) = 1 /\ \A k \in 1..1 : u[k] = n + k
    <3> HIDE DEF i
    <3>1. n <= i /\ i \in Nat /\ n \in Nat /\ i - n = 1
      BY ONLY <1>2, n \in Nat
    <3>2. u \in Seq(Nat) /\ Len(u) = i - n /\ \A k \in 1..i - n : u[k] = n + k
      BY ONLY <3>1, UpwardFacts
    <3> QED BY ONLY <3>1, <3>2
  <2>3. \A k \in 1..1 : u[k] = o[k]
    BY <2>1, <2>2
  <2> HIDE DEF u, o
  <2>4. u = o
    BY <2>1, <2>2, <2>3, SeqEqual
  <2>5. Upward(e, n) \o Upward(n, i) = Upward(e, i)
    <3> HIDE DEF i
    <3>1. e \in Nat /\ n \in Nat /\ i \in Nat /\ e <= n /\ n <= i
      BY ONLY <1>2, n \in Nat
    <3> QED BY ONLY <3>1, UpwardJoin
  <2>6. Upward(e, n) \in Seq(Nat)
    BY <1>2, UpwardFacts
  <2>7. Append(Upward(e, n), i) = Upward(e, n) \o <<i>>
    <3> HIDE DEF i
    <3> QED BY ONLY <1>2, <2>6, AppendIsConcat
  <2> QED BY <2>4, <2>5, <2>7 DEF u, o
<1>7. CASE s.now # <<>> /\ (Len(s.now) >= MaxItems \/ s.bytes + sizes[i] > MaxBytes)
  <2>1. t = [done |-> Append(s.done, s.now), now |-> <<i>>, bytes |-> sizes[i]]
    BY <1>7 DEF Filled
  <2> HIDE DEF t
  <2>2. t.done = Append(s.done, s.now) /\ t.now = <<i>> /\ t.bytes = sizes[i]
    BY ONLY <2>1
  <2>3. e < n
    BY <1>4, <1>7
  <2>4. Piece(s.now, sizes)
    <3>1. e \in 0..Len(sizes) /\ n \in 0..Len(sizes)
      BY <1>2
    <3> QED BY <1>1, <2>3, <3>1 DEF Piece
  <2>5. /\ t.done \in Seq(Seq(Nat)) /\ Len(t.done) = Len(s.done) + 1 /\ Len(s.done) \in Nat
        /\ t.done[Len(s.done) + 1] = s.now /\ \A k \in 1..Len(s.done) : t.done[k] = s.done[k]
    BY <1>3, <1>4, <2>2, AppendFacts
  <2>6. \A k \in 1..Len(t.done) : Piece(t.done[k], sizes)
    <3> TAKE k \in 1..Len(t.done)
    <3>1. k = Len(s.done) + 1 \/ k \in 1..Len(s.done)
      BY <2>5
    <3> QED BY <1>3, <2>4, <2>5, <3>1
  <2>7. FlattenSeq(t.done) = Upward(0, n)
    <3>1. FlattenSeq(t.done) = FlattenSeq(s.done) \o s.now
      BY <1>3, <1>4, <2>2, FlattenNext
    <3>2. Upward(0, e) \o Upward(e, n) = Upward(0, n)
      <4>1. 0 \in Nat /\ 0 <= e
        BY <1>2
      <4> QED BY ONLY <1>2, <4>1, UpwardJoin
    <3> QED BY ONLY <1>1, <3>1, <3>2
  <2>8. FitsOne(sizes, n, i)
    BY <1>0, <1>2 DEF FitsOne
  <2>9. n \in 0..i /\ n # i
    BY <1>2
  <2>10. t.now = Upward(n, i) /\ t.bytes = BytesOf(sizes, n, i)
    BY <1>5, <1>6, <2>2
  <2> HIDE DEF i
  <2>11. Packed(t, sizes, i)
    BY <1>2, <2>5, <2>6, <2>7, <2>8, <2>9, <2>10 DEF Packed
  <2> QED BY <2>11 DEF t, i
<1>8. CASE ~(s.now # <<>> /\ (Len(s.now) >= MaxItems \/ s.bytes + sizes[i] > MaxBytes))
  <2>1. t = [done |-> s.done, now |-> Append(s.now, i), bytes |-> s.bytes + sizes[i]]
    BY <1>8 DEF Filled
  <2> HIDE DEF t
  <2>2. t.done = s.done /\ t.now = Append(s.now, i) /\ t.bytes = s.bytes + sizes[i]
    BY ONLY <2>1
  <2>3. t.now = Upward(e, i) /\ t.bytes = BytesOf(sizes, e, i)
    BY <1>1, <1>5, <1>6, <2>2
  <2>4. FitsOne(sizes, e, i)
    <3>1. CASE s.now = <<>>
      <4>1. i - e = 1
        BY <1>2, <1>4, <3>1
      <4> QED BY <1>0, <4>1 DEF FitsOne
    <3>2. CASE s.now # <<>>
      <4>1. ~(Len(s.now) >= MaxItems) /\ ~(s.bytes + sizes[i] > MaxBytes)
        BY <1>8, <3>2
      <4>2. i - e \in 1..MaxItems
        <5>1. n - e < MaxItems /\ i - e = (n - e) + 1 /\ n - e \in Nat
          BY <1>0, <1>2, <1>4, <4>1
        <5> HIDE DEF i
        <5> QED BY ONLY <1>0, <5>1
      <4>3. BytesOf(sizes, e, i) <= MaxBytes
        BY <1>0, <1>1, <1>5, <4>1
      <4> QED BY <4>2, <4>3 DEF FitsOne
    <3> QED BY <3>1, <3>2
  <2>5. e \in 0..i /\ e # i
    BY <1>2
  <2> HIDE DEF i
  <2>6. Packed(t, sizes, i)
    BY <1>1, <1>2, <1>3, <2>2, <2>3, <2>4, <2>5 DEF Packed
  <2> QED BY <2>6 DEF t, i
<1> QED BY <1>7, <1>8

\* What a request can hold, and how it grows.
Packings == [done : Seq(Seq(Nat)), now : Seq(Nat), bytes : Nat]

LEMMA PackingsFilled ==
    ASSUME NEW sizes \in Seq(Nat), NEW i \in 1..Len(sizes), NEW s \in Packings
    PROVE  Filled(s, i, sizes) \in Packings
<1>1. sizes[i] \in Nat /\ i \in Nat
  BY LenProperties
<1>2. s.done \in Seq(Seq(Nat)) /\ s.now \in Seq(Nat) /\ s.bytes \in Nat
  BY DEF Packings
<1> DEFINE one == <<i>>
<1>3. one \in Seq(Nat)
  BY <1>1
<1>4. Append(s.done, s.now) \in Seq(Seq(Nat)) /\ Append(s.now, i) \in Seq(Nat)
  BY <1>1, <1>2, AppendFacts
<1>5. s.bytes + sizes[i] \in Nat
  BY <1>1, <1>2
<1> HIDE DEF one
<1>6. [done |-> Append(s.done, s.now), now |-> one, bytes |-> sizes[i]] \in Packings
  BY ONLY <1>1, <1>3, <1>4 DEF Packings
<1>7. [done |-> s.done, now |-> Append(s.now, i), bytes |-> s.bytes + sizes[i]] \in Packings
  BY ONLY <1>2, <1>4, <1>5 DEF Packings
<1> QED BY <1>6, <1>7 DEF Filled, one

LEMMA PackedRequests ==
    ASSUME NEW sizes \in Seq(Nat), NEW s, Packed(s, sizes, Len(sizes)), NEW r,
           r = IF s.now = <<>> THEN s.done ELSE Append(s.done, s.now)
    PROVE  /\ r \in Seq(Seq(Nat)) /\ \A k \in 1..Len(r) : Piece(r[k], sizes)
           /\ FlattenSeq(r) = Upward(0, Len(sizes))
           /\ Len(sizes) = 0 => r = <<>>
<1> DEFINE L == Len(sizes)
<1>1. L \in Nat
  BY LenProperties
<1>2. Packed(s, sizes, L)
  OBVIOUS
<1> HIDE DEF L
<1>3. /\ s.done \in Seq(Seq(Nat)) /\ \A k \in 1..Len(s.done) : Piece(s.done[k], sizes)
      /\ L = 0 => s.done = <<>>
  BY <1>2 DEF Packed
<1>4. PICK e \in 0..L : /\ s.now = Upward(e, L) /\ FlattenSeq(s.done) = Upward(0, e)
                         /\ (e = L => L = 0) /\ (e < L => FitsOne(sizes, e, L))
  BY <1>2 DEF Packed
<1>5. e \in Nat /\ e <= L
  BY <1>1
<1>6. Upward(e, L) \in Seq(Nat) /\ Len(Upward(e, L)) = L - e
  BY <1>1, <1>5, UpwardFacts
<1>7. CASE s.now = <<>>
  <2>1. e = L /\ L = 0
    BY <1>1, <1>4, <1>5, <1>6, <1>7
  <2>2. r = s.done
    BY <1>7
  <2> QED BY ONLY <1>3, <1>4, <2>1, <2>2 DEF L
<1>8. CASE s.now # <<>>
  <2>1. r = Append(s.done, s.now)
    BY <1>8
  <2>2. s.now \in Seq(Nat)
    BY <1>4, <1>6
  <2>3. e < L
    <3>1. L - e = 0 => Upward(e, L) = <<>>
      BY <1>6, EmptySeq
    <3> QED BY <1>1, <1>4, <1>5, <1>8, <3>1
  <2>4. Piece(s.now, sizes)
    <3>1. e \in 0..Len(sizes) /\ L \in 0..Len(sizes)
      BY <1>1, <1>5 DEF L
    <3> QED BY <1>4, <2>3, <3>1 DEF Piece
  <2>5. /\ r \in Seq(Seq(Nat)) /\ Len(r) = Len(s.done) + 1 /\ Len(s.done) \in Nat
        /\ r[Len(s.done) + 1] = s.now /\ \A k \in 1..Len(s.done) : r[k] = s.done[k]
    BY <1>3, <2>1, <2>2, AppendFacts
  <2>6. FlattenSeq(r) = Upward(0, L)
    <3>1. FlattenSeq(r) = FlattenSeq(s.done) \o s.now
      BY <1>3, <2>1, <2>2, FlattenNext
    <3>2. Upward(0, e) \o Upward(e, L) = Upward(0, L)
      <4>1. 0 \in Nat /\ 0 <= e
        BY <1>5
      <4> QED BY ONLY <1>1, <1>5, <4>1, UpwardJoin
    <3> QED BY ONLY <1>4, <3>1, <3>2
  <2>7. \A k \in 1..Len(r) : Piece(r[k], sizes)
    <3> TAKE k \in 1..Len(r)
    <3>1. k = Len(s.done) + 1 \/ k \in 1..Len(s.done)
      BY <2>5
    <3> QED BY <1>3, <2>4, <2>5, <3>1
  <2>8. L # 0
    BY <1>1, <1>5, <2>3
  <2> QED BY <2>1, <2>5, <2>6, <2>7, <2>8 DEF L
<1> QED BY <1>7, <1>8

LEMMA RequestsFacts ==
    ASSUME NEW sizes \in Seq(Nat)
    PROVE  /\ Requests(sizes) \in Seq(Seq(Nat))
           /\ \A k \in 1..Len(Requests(sizes)) : Piece(Requests(sizes)[k], sizes)
           /\ FlattenSeq(Requests(sizes)) = Upward(0, Len(sizes))
           /\ Len(sizes) = 0 => Requests(sizes) = <<>>
<1> DEFINE L == Len(sizes)
           none == [done |-> <<>>, now |-> <<>>, bytes |-> 0]
           StepOf(f, n) == IF n = 0 THEN none ELSE Filled(f[n - 1], n, sizes)
           upto == CHOOSE f : f = [n \in 0..L |-> StepOf(f, n)]
           F == [n \in 1..L |-> [x \in Packings |-> Filled(x, n, sizes)]]
           G == [n \in 0..L |-> {x \in Packings : Packed(x, sizes, n)}]
           all == upto[L]
<1>1. L \in Nat
  BY LenProperties
<1>2. none \in Packings
  BY EmptySeq DEF Packings
<1>3. none \in G[0]
  <2>1. none.done = <<>> /\ none.now = <<>> /\ none.bytes = 0
    OBVIOUS
  <2> HIDE DEF none
  <2>2. Len(<<>>) = 0 /\ <<>> \in Seq(Seq(Nat))
    BY EmptySeq
  <2>3. Upward(0, 0) = <<>>
    BY EmptySeq, UpwardFacts
  <2>4. BytesOf(sizes, 0, 0) = 0
    <3> DEFINE w == [i \in 1..0 - 0 |-> sizes[0 + i]]
    <3>1. 1..0 - 0 = {} /\ IsFiniteSet({})
      BY FS_EmptySet
    <3>2. w \in [{} -> Nat] /\ \A x \in {} : w[x] = 0
      BY <3>1
    <3> HIDE DEF w
    <3>3. SumFunction(w) = 0
      BY <3>1, <3>2, SumFacts
    <3> QED BY <3>3 DEF BytesOf, w
  <2>5. Packed(none, sizes, 0)
    BY <2>1, <2>2, <2>3, <2>4, FlattenNone DEF Packed
  <2> QED BY <1>1, <1>2, <2>5
<1>4. F \in [1..L -> [Packings -> Packings]]
  BY PackingsFilled
<1>5. \A n \in 1..L : \A x : x \in G[n - 1] => Filled(x, n, sizes) \in G[n]
  <2> SUFFICES ASSUME NEW n \in 1..L, NEW x, x \in G[n - 1] PROVE Filled(x, n, sizes) \in G[n]
    OBVIOUS
  <2>1. n - 1 \in Nat /\ n - 1 < L /\ n - 1 \in 0..L /\ n \in 0..L /\ (n - 1) + 1 = n
    BY <1>1
  <2>2. Packed(x, sizes, n - 1) /\ x \in Packings
    BY <2>1
  <2>3. Packed(Filled(x, n, sizes), sizes, n)
    BY <2>1, <2>2, FilledFacts
  <2> QED BY <2>1, <2>2, <2>3, PackingsFilled
<1> HIDE DEF L, none
<1>6. PICK f \in [0..L -> Packings] : Unrolls(f, L, none, F)
  <2> HIDE DEF F, G
  <2> QED BY ONLY <1>1, <1>2, <1>4, Unrolled
<1>7. \A n \in 0..L : f[n] = StepOf(f, n)
  <2> TAKE n \in 0..L
  <2>1. CASE n # 0
    <3>1. n \in 1..L /\ f[n - 1] \in Packings
      BY <1>1, <2>1
    <3> QED BY <1>6, <2>1, <3>1 DEF Unrolls
  <2> QED BY <1>6, <2>1 DEF Unrolls
<1> HIDE DEF F
<1>8. f = [n \in 0..L |-> StepOf(f, n)]
  <2> HIDE DEF StepOf
  <2> QED BY <1>7
<1>9. upto = [n \in 0..L |-> StepOf(upto, n)]
  <2> HIDE DEF StepOf
  <2> QED BY <1>8
<1>10. Requests(sizes) = IF all.now = <<>> THEN all.done ELSE Append(all.done, all.now)
  BY DEF Requests, Filled, L, none
<1> HIDE DEF upto
<1>11. upto[0] = none /\ \A n \in 1..L : upto[n] = Filled(upto[n - 1], n, sizes)
  <2>1. 0 \in 0..L /\ \A n \in 1..L : n \in 0..L /\ n # 0
    BY <1>1
  <2>2. \A n \in 0..L : upto[n] = StepOf(upto, n)
    <3> HIDE DEF StepOf
    <3> QED BY <1>9
  <2> QED BY <2>1, <2>2
<1>12. \A n \in 0..L : upto[n] \in G[n]
  <2>1. upto[0] \in G[0] /\ \A n \in 1..L : upto[n - 1] \in G[n - 1] => upto[n] \in G[n]
    <3> HIDE DEF G
    <3> QED BY <1>3, <1>5, <1>11
  <2> HIDE DEF G
  <2> QED BY ONLY <1>1, <2>1, Inductively
<1>13. Packed(all, sizes, L)
  BY <1>1, <1>12
<1> HIDE DEF all, G
<1> QED BY <1>10, <1>13, PackedRequests DEF L

\* A reply is of the request's items, in the request's order, and of all of them unless the
\* service sent too few.
LEMMA VectorsFacts ==
    ASSUME NEW sizes \in Seq(Nat), NEW r, Piece(r, sizes), NEW reply,
           reply \in [indexed : BOOLEAN, reversed : BOOLEAN, short : BOOLEAN],
           reply.reversed => reply.indexed
    PROVE  /\ r \in Seq(Nat) /\ VectorsOf(r, reply) \in Seq(Nat)
           /\ ~reply.short => VectorsOf(r, reply) = r
           /\ reply.short => Len(VectorsOf(r, reply)) < Len(r)
<1>1. PICK a \in 0..Len(sizes) : \E b \in 0..Len(sizes) : a < b /\ r = Upward(a, b)
  BY DEF Piece
<1>2. PICK b \in 0..Len(sizes) : a < b /\ r = Upward(a, b)
  BY <1>1
<1>3. a \in Nat /\ b \in Nat /\ a <= b /\ b - 1 \in Nat /\ a <= b - 1 /\ Len(sizes) \in Nat
  BY <1>2, LenProperties
<1> DEFINE d == IF reply.short THEN b - 1 ELSE b
           sent == IF reply.short THEN Front(r) ELSE r
           came == IF reply.reversed THEN Reverse(sent) ELSE sent
           t == Upward(a, d)
<1>4. d \in Nat /\ a <= d
  BY <1>3
<1>5. r \in Seq(Nat) /\ Len(r) = b - a /\ \A i \in 1..b - a : r[i] = a + i
  BY <1>2, <1>3, UpwardFacts
<1>6. t \in Seq(Nat) /\ Len(t) = d - a /\ (\A i \in 1..d - a : t[i] = a + i) /\ ToSet(t) = a + 1..d
  <2> HIDE DEF d
  <2> QED BY <1>3, <1>4, UpwardFacts
<1>7. Front(r) = Upward(a, b - 1)
  <2> DEFINE m == b - 1
             u == Upward(a, m)
             v == Front(r)
  <2>1. v = SubSeq(r, 1, Len(r) - 1)
    BY DEF Front
  <2>2. 1 \in 1..Len(r) + 1 /\ Len(r) - 1 \in 0..Len(r) /\ Len(r) - 1 = m - a
    BY <1>3, <1>5
  <2>3. u \in Seq(Nat) /\ Len(u) = m - a /\ \A i \in 1..m - a : u[i] = a + i
    <3>1. m \in Nat /\ a <= m
      BY <1>3
    <3> HIDE DEF m
    <3> QED BY <1>3, <3>1, UpwardFacts
  <2> HIDE DEF v, u
  <2>4. v \in Seq(Nat) /\ Len(v) = m - a /\ \A i \in 1..m - a : v[i] = r[i]
    <3> DEFINE q == Len(r) - 1
    <3>1. 1 \in Int /\ q \in Nat /\ q = m - a /\ v = SubSeq(r, 1, q) /\ q - 1 + 1 = q /\ Len(r) = q + 1
      BY <1>3, <1>5, <2>1, <2>2
    <3> HIDE DEF q, m
    <3>6. \A i \in 1..Len(r) : r[i] \in Nat
      BY <1>5, LenProperties
    <3>2. \A i \in 1..q : r[i] \in Nat
      BY <3>1, <3>6
    <3>3. /\ v \in Seq(Nat) /\ Len(v) = IF 1 <= q THEN q - 1 + 1 ELSE 0
          /\ \A i \in 1..q - 1 + 1 : v[i] = r[1 + i - 1]
      BY ONLY <3>1, <3>2, SubSeqProperties
    <3>4. \A i \in 1..q : 1 + i - 1 = i
      BY <3>1
    <3>5. \A i \in 1..q : v[i] = r[i]
      BY ONLY <3>1, <3>3, <3>4
    <3> QED BY ONLY <3>1, <3>3, <3>5
  <2>5. \A i \in 1..m - a : v[i] = u[i]
    BY <1>3, <1>5, <2>3, <2>4
  <2>6. v = u
    BY ONLY <2>3, <2>4, <2>5, SeqEqual
  <2> QED BY <2>6 DEF v, u
<1>8. sent = t
  BY <1>2, <1>7
<1> HIDE DEF sent, t, d
<1>9. ToSet(Reverse(t)) = a + 1..d
  <2> DEFINE w == Reverse(t)
  <2>1. w = [i \in 1..Len(t) |-> t[Len(t) - i + 1]]
    BY DEF Reverse
  <2>2. Len(t) \in Nat /\ DOMAIN w = 1..Len(t)
    BY <1>6, <2>1, LenProperties
  <2> HIDE DEF w
  <2>3. \A x \in ToSet(w) : x \in a + 1..d
    <3> TAKE x \in ToSet(w)
    <3>1. PICK i \in DOMAIN w : x = w[i]
      BY DEF ToSet
    <3> DEFINE k == Len(t) - i + 1
    <3>2. k \in 1..d - a /\ x = t[k]
      BY <1>6, <2>1, <2>2, <3>1
    <3> HIDE DEF k
    <3>3. x = a + k
      BY <1>6, <3>2
    <3> QED BY <1>3, <1>4, <3>2, <3>3
  <2>4. \A x \in a + 1..d : x \in ToSet(w)
    <3> TAKE x \in a + 1..d
    <3> DEFINE i == Len(t) - (x - a) + 1
    <3>1. i \in 1..Len(t) /\ Len(t) - i + 1 = x - a /\ x - a \in 1..d - a /\ a + (x - a) = x
      BY <1>3, <1>4, <1>6
    <3>2. w[i] = x
      BY <1>6, <2>1, <3>1
    <3> QED BY <2>2, <3>1, <3>2 DEF ToSet
  <2> QED BY <2>3, <2>4 DEF w
<1>10. InOrder(ToSet(came)) = t
  <2>1. ToSet(came) = a + 1..d
    BY <1>6, <1>8, <1>9
  <2>2. InOrder(a + 1..d) = Upward(a, d)
    BY <1>3, <1>4, UpwardInOrder
  <2> QED BY <2>1, <2>2 DEF t
<1>11. VectorsOf(r, reply) = t
  <2>1. VectorsOf(r, reply) = IF reply.indexed THEN InOrder(ToSet(came)) ELSE came
    BY DEF VectorsOf, sent
  <2> QED BY <1>8, <1>10, <2>1
<1>12. ~reply.short => t = r
  BY <1>2 DEF t, d
<1>13. reply.short => Len(t) < Len(r)
  BY <1>3, <1>5, <1>6 DEF d
<1> QED BY <1>5, <1>6, <1>11, <1>12, <1>13

\* A request's items are as large as the property says.
LEMMA PieceFacts ==
    ASSUME NEW sizes \in Seq(Nat), NEW r, Piece(r, sizes)
    PROVE  /\ Len(r) \in 1..MaxItems
           /\ Len(r) > 1 => SumOf(DOMAIN r, LAMBDA i : sizes[r[i]]) <= MaxBytes
<1>1. PICK a \in 0..Len(sizes) :
          \E b \in 0..Len(sizes) : a < b /\ r = Upward(a, b) /\ FitsOne(sizes, a, b)
  BY DEF Piece
<1>2. PICK b \in 0..Len(sizes) : a < b /\ r = Upward(a, b) /\ FitsOne(sizes, a, b)
  BY <1>1
<1>3. a \in Nat /\ b \in Nat /\ a <= b
  BY <1>2, LenProperties
<1>4. Len(r) = b - a /\ DOMAIN r = 1..b - a /\ \A i \in 1..b - a : r[i] = a + i
  BY <1>2, <1>3, UpwardFacts
<1> DEFINE v == [i \in DOMAIN r |-> sizes[r[i]]]
           w == [i \in 1..b - a |-> sizes[a + i]]
<1>5. v = w
  BY <1>4
<1>6. SumFunction(v) = BytesOf(sizes, a, b)
  BY <1>5 DEF BytesOf
<1> HIDE DEF v, w
<1>7. Len(r) > 1 => SumFunction(v) <= MaxBytes
  BY <1>2, <1>4, <1>6 DEF FitsOne
<1>8. Len(r) \in 1..MaxItems
  BY <1>2, <1>4 DEF FitsOne
<1> QED BY <1>7, <1>8 DEF SumOf, v

LEMMA EdgeVectors == EdgeIInv => VectorsAreTheirItems
<1> SUFFICES ASSUME EdgeIInv PROVE VectorsAreTheirItems
  OBVIOUS
<1>1. ASSUME Answered("embed")
      PROVE  /\ FlattenSeq(answer.requests) = [i \in DOMAIN call.sizes |-> i]
             /\ \A r \in ToSet(answer.requests) :
                   Len(r) \in 1..MaxItems
                   /\ (Len(r) > 1 => SumOf(DOMAIN r, LAMBDA i : call.sizes[r[i]]) <= MaxBytes)
             /\ Len(answer.vectors) = Len(call.sizes) =>
                   answer.vectors = [i \in DOMAIN call.sizes |-> i]
  <2> DEFINE sizes == call.sizes
             reply == call.reply
             R == Requests(sizes)
             V == [i \in DOMAIN R |-> VectorsOf(R[i], reply)]
             L == Len(sizes)
             items == [i \in DOMAIN sizes |-> i]
  <2>1. call \in EmbedCalls /\ call.op = "embed" /\ answer = Embedded(call)
    BY <1>1, EdgeCallFacts DEF EdgeIInv, Answered
  <2>2. /\ sizes \in UNION {[1..n -> 1..MaxBytes + 1] : n \in 0..4}
        /\ reply \in [indexed : BOOLEAN, reversed : BOOLEAN, short : BOOLEAN]
        /\ reply.reversed => reply.indexed
    BY <2>1 DEF EmbedCalls
  <2>3. sizes \in Seq(Nat)
    <3>1. PICK n \in 0..4 : sizes \in [1..n -> 1..MaxBytes + 1]
      BY <2>2
    <3>2. sizes \in [1..n -> Nat] /\ n \in Nat
      BY <3>1, MediaAssumption
    <3> QED BY <3>2
  <2>4. answer.requests = R /\ answer.vectors = FlattenSeq(V)
    BY <2>1 DEF Embedded
  <2> HIDE DEF sizes, reply
  <2>5. /\ R \in Seq(Seq(Nat)) /\ (\A k \in 1..Len(R) : Piece(R[k], sizes))
        /\ FlattenSeq(R) = Upward(0, L)
    BY <2>3, RequestsFacts
  <2> HIDE DEF R
  <2>6. Len(R) \in Nat /\ DOMAIN R = 1..Len(R) /\ L \in Nat /\ DOMAIN sizes = 1..L
    BY <2>3, <2>5, LenProperties
  <2>7. Upward(0, L) = items /\ Len(Upward(0, L)) = L
    BY <2>6 DEF Upward
  <2>8. \A r \in ToSet(R) : Piece(r, sizes)
    BY <2>5, <2>6 DEF ToSet
  <2>13. \A r \in ToSet(R) : /\ Len(r) \in 1..MaxItems
                             /\ Len(r) > 1 => SumOf(DOMAIN r, LAMBDA i : sizes[r[i]]) <= MaxBytes
    <3> TAKE r \in ToSet(R)
    <3>1. Piece(r, sizes)
      BY <2>8
    <3> QED BY ONLY <2>3, <3>1, PieceFacts DEF SumOf
  <2>9. \A i \in 1..Len(R) : /\ R[i] \in Seq(Nat) /\ VectorsOf(R[i], reply) \in Seq(Nat)
                             /\ ~reply.short => VectorsOf(R[i], reply) = R[i]
                             /\ reply.short => Len(VectorsOf(R[i], reply)) < Len(R[i])
    BY <2>2, <2>3, <2>5, VectorsFacts DEF reply
  <2>10. /\ V \in Seq(Seq(Nat)) /\ Len(V) = Len(R)
         /\ \A i \in 1..Len(R) : V[i] = VectorsOf(R[i], reply)
    BY <2>6, <2>9
  <2> HIDE DEF V, L, items
  <2>11. CASE ~reply.short \/ R = <<>>
    <3>1. \A i \in 1..Len(R) : V[i] = R[i]
      <4>1. R = <<>> => Len(R) = 0
        OBVIOUS
      <4> QED BY <2>9, <2>10, <2>11, <4>1
    <3>2. V = R
      BY <2>5, <2>10, <3>1, SeqEqual
    <3>3. answer.vectors = items /\ FlattenSeq(answer.requests) = items
      BY <2>4, <2>5, <2>7, <3>2
    <3> QED BY <2>4, <2>13, <3>3 DEF items, sizes
  <2>12. CASE reply.short /\ R # <<>>
    <3>1. V # <<>>
      <4>1. Len(R) = 0 => R = <<>>
        BY <2>5, EmptySeq
      <4>2. V = <<>> => Len(V) = 0
        OBVIOUS
      <4> QED BY <2>10, <2>12, <4>1, <4>2
    <3>2. Shorter(Nat, V, R)
      BY <2>5, <2>9, <2>10, <2>12, <3>1 DEF Shorter
    <3>3. Len(FlattenSeq(V)) < Len(FlattenSeq(R))
      BY <3>2, FlattenShorter
    <3>4. FlattenSeq(V) \in Seq(Nat)
      BY <2>10, FlattenType
    <3>5. Len(FlattenSeq(V)) # L
      BY <2>5, <2>6, <2>7, <3>3, <3>4, LenProperties
    <3>6. Len(answer.vectors) # Len(sizes) /\ FlattenSeq(answer.requests) = items
      BY <2>4, <2>5, <2>7, <3>5 DEF L
    <3> QED BY <2>4, <2>13, <3>6 DEF items, sizes
  <2> QED BY <2>11, <2>12
<1>2. ASSUME Answered("column"), NEW i \in DOMAIN answer.vectors, NEW j \in DOMAIN answer.vectors
      PROVE  LET a == answer.vectors[i] b == answer.vectors[j]
             IN  a # <<>> => a[2] = i /\ (b # <<>> => a[1] = b[1])
  <2>1. answer.vectors = Column(call.sees, call.pictures)
    BY <1>2 DEF EdgeIInv, Answered
  <2>2. DOMAIN answer.vectors = DOMAIN call.pictures
    BY <2>1 DEF Column
  <2>3. \A k \in DOMAIN call.pictures :
            answer.vectors[k] = IF ~call.sees THEN <<"text", k>>
                                ELSE IF call.pictures[k] THEN <<"image", k>> ELSE <<>>
    BY <2>1 DEF Column
  <2> DEFINE Got(k) == answer.vectors[k]
  <2>4. \A k \in DOMAIN call.pictures : Got(k) # <<>> =>
            Got(k)[2] = k /\ Got(k)[1] = IF call.sees THEN "image" ELSE "text"
    <3> TAKE k \in DOMAIN call.pictures
    <3> DEFINE seen == <<"image", k>>
               said == <<"text", k>>
    <3>1. Got(k) = <<>> \/ (~call.sees /\ Got(k) = said) \/ (call.sees /\ Got(k) = seen)
      BY <2>3
    <3>2. seen[1] = "image" /\ seen[2] = k /\ said[1] = "text" /\ said[2] = k
      OBVIOUS
    <3> HIDE DEF seen, said, Got
    <3> QED BY ONLY <3>1, <3>2
  <2> HIDE DEF Got
  <2>5. i \in DOMAIN call.pictures /\ j \in DOMAIN call.pictures
    BY <1>2, <2>2
  <2>6. Got(i) # <<>> => Got(i)[2] = i /\ (Got(j) # <<>> => Got(i)[1] = Got(j)[1])
    BY ONLY <2>4, <2>5
  <2> QED BY <2>6 DEF Got
<1> QED BY <1>1, <1>2 DEF VectorsAreTheirItems

--------------------------------------------------------------------------
(* Pictures. *)

\* Numbers in order are the numbers, each once, each before the larger ones.
LEMMA InOrderFacts ==
    ASSUME NEW S \in SUBSET Nat, IsFiniteSet(S), NEW q, q = InOrder(S)
    PROVE  /\ q \in Seq(Nat) /\ Len(q) = Cardinality(S) /\ Cardinality(S) \in Nat
           /\ \A n \in 1..Len(q) : q[n] \in S
           /\ \A x \in S : \E n \in 1..Len(q) : q[n] = x
           /\ \A m, n \in 1..Len(q) : m < n => q[m] < q[n]
<1> DEFINE s == [i \in S |-> i]
           k == Cardinality(S)
<1>1. q = At(s, S) /\ \A i \in S : s[i] = i
  BY DEF InOrder
<1> HIDE DEF s
<1>2. q \in Seq(Nat) /\ Len(q) = k
  <2>1. \A i \in S : s[i] \in Nat
    BY <1>1
  <2> QED BY ONLY S \in SUBSET Nat, IsFiniteSet(S), <1>1, <2>1, AtSeq
<1>3. /\ k \in Nat
      /\ \A n \in 1..k : \E i \in S : Rank(S, i) = n /\ q[n] = s[i]
      /\ \A i \in S : Rank(S, i) \in 1..k /\ q[Rank(S, i)] = s[i]
  BY ONLY S \in SUBSET Nat, IsFiniteSet(S), <1>1, AtFacts
<1> HIDE DEF k
<1>4. \A n \in 1..k : q[n] \in S /\ Rank(S, q[n]) = n
  BY <1>1, <1>3
<1>5. \A x \in S : \E n \in 1..k : q[n] = x
  BY <1>1, <1>3
<1>6. \A x, y \in S : x <= y => Rank(S, x) <= Rank(S, y)
  <2> TAKE x, y \in S
  <2> HAVE x <= y
  <2> DEFINE X == {j \in S : j <= x}
             Y == {j \in S : j <= y}
  <2>1. X \in SUBSET Y /\ Y \in SUBSET S
    <3>1. x \in Int /\ y \in Int /\ \A j \in S : j \in Int
      OBVIOUS
    <3>2. \A j \in X : j \in S /\ j <= x
      OBVIOUS
    <3>3. \A j \in S : j <= y => j \in Y
      OBVIOUS
    <3> HIDE DEF X, Y
    <3>4. \A j \in X : j \in Y
      <4> TAKE j \in X
      <4>1. j \in S /\ j \in Int /\ j <= x
        BY <3>1, <3>2
      <4>2. j <= y
        BY ONLY <3>1, <4>1, x <= y
      <4> QED BY <3>3, <4>1, <4>2
    <3>5. Y \in SUBSET S
      BY DEF Y
    <3> QED BY <3>4, <3>5
  <2> HIDE DEF X, Y
  <2>2. IsFiniteSet(Y)
    BY <2>1, FS_Subset
  <2>3. Cardinality(X) <= Cardinality(Y)
    BY <2>1, <2>2, FS_Subset
  <2> QED BY <2>3 DEF Rank, X, Y
<1>7. \A m, n \in 1..k : m < n => q[m] < q[n]
  <2> SUFFICES ASSUME NEW m \in 1..k, NEW n \in 1..k, m < n, ~(q[m] < q[n]) PROVE FALSE
    OBVIOUS
  <2>1. q[m] \in S /\ q[n] \in S /\ Rank(S, q[m]) = m /\ Rank(S, q[n]) = n
    BY <1>4
  <2>4. q[m] \in Nat /\ q[n] \in Nat
    BY <2>1
  <2>2. q[n] <= q[m]
    BY <2>4
  <2>3. n <= m
    BY <1>6, <2>1, <2>2
  <2> QED BY <1>3, <2>3
<1> QED BY <1>2, <1>3, <1>4, <1>5, <1>7 DEF k

\* Of an order's members, as many have few before them as that few.
LEMMA FirstFew ==
    ASSUME NEW S, IsFiniteSet(S), NEW prec, IsOrder(S, prec), NEW m \in Nat, m <= Cardinality(S)
    PROVE  Cardinality({i \in S : Cardinality(prec[i]) < m}) = m
<1> DEFINE T == {i \in S : Cardinality(prec[i]) < m}
           h == [i \in T |-> Cardinality(prec[i]) + 1]
<1>1. /\ Cardinality(S) \in Nat
      /\ \A i \in S : Cardinality(prec[i]) \in 0..Cardinality(S) - 1
      /\ \A i, j \in S : Cardinality(prec[i]) = Cardinality(prec[j]) => i = j
      /\ \A n \in 1..Cardinality(S) : \E i \in S : Cardinality(prec[i]) = n - 1
  BY OrderFacts
<1>2. \A i \in T : Cardinality(prec[i]) \in Nat /\ h[i] \in 1..m /\ h[i] = Cardinality(prec[i]) + 1
  BY <1>1
<1>3. h \in Injection(T, 1..m)
  <2>1. h \in [T -> 1..m]
    BY <1>2
  <2>2. \A i, j \in T : h[i] = h[j] => i = j
    BY <1>1, <1>2
  <2> HIDE DEF h, T
  <2> QED BY <2>1, <2>2 DEF Injection, IsInjective
<1>4. h \in Surjection(T, 1..m)
  <2>1. \A n \in 1..m : \E i \in T : h[i] = n
    <3> TAKE n \in 1..m
    <3>1. n \in 1..Cardinality(S) /\ n - 1 < m
      BY <1>1
    <3>2. PICK i \in S : Cardinality(prec[i]) = n - 1
      BY <1>1, <3>1
    <3>3. i \in T
      BY <3>1, <3>2
    <3>4. h[i] = n
      BY <3>2, <3>3
    <3> QED BY <3>3, <3>4
  <2>2. h \in [T -> 1..m]
    BY <1>2
  <2> HIDE DEF h, T
  <2> QED BY <2>1, <2>2 DEF Surjection
<1>5. IsFiniteSet(1..m) /\ Cardinality(1..m) = m
  <2>1. 1 \in Int /\ m \in Int
    OBVIOUS
  <2>2. IsFiniteSet(1..m) /\ Cardinality(1..m) = IF 1 > m THEN 0 ELSE m - 1 + 1
    BY <2>1, FS_Interval
  <2> QED BY <2>2
<1> HIDE DEF h, T
<1>6. Cardinality(T) = Cardinality(1..m)
  BY <1>3, <1>4, <1>5, FS_Injection
<1> QED BY <1>5, <1>6 DEF T

\* Frames that are kept are the first and, in order, those that changed the most.
Pictured(k, deltas, budget) ==
    /\ k \in Seq(Nat) /\ Len(k) \in 1..budget /\ k[1] = 0
    /\ \A i, j \in 1..Len(k) : i < j => k[i] < k[j]
    /\ \A i \in 2..Len(k) : k[i] \in DOMAIN deltas /\ deltas[k[i]] >= MinDelta
    /\ \A f \in DOMAIN deltas : (\A i \in 1..Len(k) : k[i] # f) =>
          \/ deltas[f] < MinDelta
          \/ Len(k) = budget /\ \A i \in 2..Len(k) : deltas[k[i]] >= deltas[f]

LEMMA KeyframesFacts ==
    ASSUME NEW deltas \in Seq(Nat), NEW budget \in Nat \ {0}
    PROVE  Pictured(Keyframes(deltas, budget), deltas, budget)
<1> DEFINE changed == {i \in DOMAIN deltas : deltas[i] >= MinDelta}
           Larger(i) == {j \in changed : deltas[j] > deltas[i] \/ (deltas[j] = deltas[i] /\ j < i)}
           prec == [i \in changed |-> Larger(i)]
           m == budget - 1
           few == {i \in changed : Cardinality(prec[i]) < m}
           over == Cardinality(changed) + 1 > budget
           kept == IF over THEN few ELSE changed
           q == InOrder(kept)
           k == Keyframes(deltas, budget)
           L == Len(deltas)
<1>1. L \in Nat /\ DOMAIN deltas = 1..L /\ MinDelta \in Nat /\ \A i \in 1..L : deltas[i] \in Nat
  BY MediaAssumption, LenProperties
<1>2. changed \in SUBSET Nat /\ changed \in SUBSET (1..L) /\ \A i \in changed : deltas[i] \in Nat
  BY <1>1
<1>3. IsFiniteSet(changed) /\ Cardinality(changed) \in Nat
  <2>1. 1 \in Int /\ L \in Int
    BY <1>1
  <2>2. IsFiniteSet(1..L)
    BY <2>1, FS_Interval
  <2> HIDE DEF changed
  <2> QED BY <1>2, <2>2, FS_Subset, FS_CardinalityType
<1>4. k = <<0>> \o q
  <2>1. few = {i \in changed : Cardinality(Larger(i)) < budget - 1}
    OBVIOUS
  <2> HIDE DEF few
  <2> QED BY <2>1 DEF Keyframes
<1>5. IsOrder(changed, prec)
  <2> DEFINE above == [i \in changed |-> {j \in changed : deltas[j] > deltas[i]}]
  <2>1. above \in [changed -> SUBSET changed]
    OBVIOUS
  <2>2. \A i \in changed : \A j \in above[i] : i \notin above[j]
    BY <1>2
  <2>3. \A i, j, l \in changed : i \notin above[j] /\ j \notin above[l] => i \notin above[l]
    BY <1>2
  <2>4. prec = [i \in changed |-> {j \in changed : j \in above[i] \/ (i \notin above[j] /\ j < i)}]
    <3>1. \A i, j \in changed : (deltas[j] > deltas[i] \/ (deltas[j] = deltas[i] /\ j < i))
              <=> (j \in above[i] \/ (i \notin above[j] /\ j < i))
      BY <1>2
    <3> HIDE DEF above, changed
    <3> QED BY <3>1
  <2> HIDE DEF above, prec, changed
  <2> QED BY ONLY <1>2, <2>1, <2>2, <2>3, <2>4, StableOrder
<1>6. /\ \A i \in changed : Cardinality(prec[i]) \in 0..Cardinality(changed) - 1
      /\ \A i \in changed : \A j \in prec[i] : Cardinality(prec[j]) < Cardinality(prec[i])
  <2> HIDE DEF prec, changed
  <2> QED BY <1>3, <1>5, OrderFacts
<1>7. \A f, g \in changed : deltas[f] > deltas[g] => f \in prec[g]
  OBVIOUS
<1>8. m \in Nat /\ budget = m + 1
  OBVIOUS
<1>9. over => Cardinality(few) = m
  <2> HIDE DEF prec, changed, m
  <2>1. over => m <= Cardinality(changed)
    BY <1>3, <1>8
  <2> QED BY <1>3, <1>5, <1>8, <2>1, FirstFew
<1> HIDE DEF prec, changed, m
<1>10. kept \in SUBSET changed /\ kept \in SUBSET Nat /\ IsFiniteSet(kept)
  <2>1. kept \in SUBSET changed
    OBVIOUS
  <2> HIDE DEF kept
  <2> QED BY <1>2, <1>3, <2>1, FS_Subset
<1>11. Cardinality(kept) <= m /\ (over => Cardinality(kept) = m)
  BY <1>3, <1>8, <1>9
<1>12. \A f \in changed : f \notin kept => over /\ \A g \in kept : deltas[g] >= deltas[f]
  <2> SUFFICES ASSUME NEW f \in changed, f \notin kept, NEW g \in kept
               PROVE  over /\ deltas[g] >= deltas[f]
    <3>1. \A f \in changed : f \notin kept => over
      OBVIOUS
    <3> HIDE DEF over, kept
    <3> QED BY <3>1
  <2>1. over /\ f \notin few
    OBVIOUS
  <2>2. g \in few /\ g \in changed
    BY <2>1
  <2>3. ~(Cardinality(prec[f]) < m) /\ Cardinality(prec[g]) < m
    BY <2>1, <2>2
  <2> HIDE DEF over, few, kept
  <2>4. Cardinality(prec[f]) \in Nat /\ Cardinality(prec[g]) \in Nat
    BY <1>3, <1>6, <2>2
  <2>5. f \notin prec[g]
    BY <1>6, <1>8, <2>2, <2>3, <2>4
  <2> QED BY <1>2, <1>7, <2>1, <2>2, <2>5
<1> HIDE DEF kept, over, few
<1>13. /\ q \in Seq(Nat) /\ Len(q) = Cardinality(kept) /\ Cardinality(kept) \in Nat
       /\ \A n \in 1..Len(q) : q[n] \in kept
       /\ \A x \in kept : \E n \in 1..Len(q) : q[n] = x
       /\ \A i, j \in 1..Len(q) : i < j => q[i] < q[j]
  BY ONLY <1>10, InOrderFacts
<1> HIDE DEF q, k
<1>14. /\ k \in Seq(Nat) /\ Len(k) = Len(q) + 1 /\ k[1] = 0 /\ Len(q) \in Nat
       /\ \A n \in 1..Len(q) : k[n + 1] = q[n]
  <2> DEFINE o == <<0>>
  <2>1. o \in Seq(Nat) /\ Len(o) = 1 /\ o[1] = 0
    OBVIOUS
  <2>2. k = o \o q
    BY <1>4
  <2> HIDE DEF o
  <2>3. /\ o \o q \in Seq(Nat) /\ Len(o \o q) = Len(o) + Len(q) /\ Len(q) \in Nat
        /\ \A n \in 1..Len(o) : (o \o q)[n] = o[n]
        /\ \A n \in 1..Len(q) : (o \o q)[Len(o) + n] = q[n]
    <3>1. o \in Seq(Nat) /\ q \in Seq(Nat)
      BY <1>13, <2>1
    <3> QED BY ONLY <3>1, ConcatFacts
  <2>4. Len(k) = Len(q) + 1
    BY ONLY <2>1, <2>2, <2>3
  <2>5. \A n \in 1..Len(q) : Len(o) + n = n + 1
    BY ONLY <2>1, <2>3
  <2>6. \A n \in 1..Len(q) : k[n + 1] = q[n]
    BY ONLY <2>2, <2>3, <2>5
  <2>7. 1 \in 1..Len(o)
    BY <2>1
  <2> QED BY ONLY <2>1, <2>2, <2>3, <2>4, <2>6, <2>7
<1>15. \A i \in 2..Len(k) : i - 1 \in 1..Len(q) /\ k[i] = q[i - 1] /\ k[i] \in kept
  <2> TAKE i \in 2..Len(k)
  <2>1. i - 1 \in 1..Len(q) /\ (i - 1) + 1 = i
    BY <1>14
  <2> QED BY <1>13, <1>14, <2>1
<1>16. \A i \in 2..Len(k) : k[i] \in DOMAIN deltas /\ deltas[k[i]] >= MinDelta
  BY <1>10, <1>15 DEF changed
<1>17. \A i, j \in 1..Len(k) : i < j => k[i] < k[j]
  <2> SUFFICES ASSUME NEW i \in 1..Len(k), NEW j \in 1..Len(k), i < j PROVE k[i] < k[j]
    OBVIOUS
  <2>1. j \in 2..Len(k) /\ j - 1 \in 1..Len(q) /\ k[j] = q[j - 1]
    BY <1>14, <1>15
  <2>2. CASE i = 1
    <3>1. k[j] \in 1..L
      BY <1>2, <1>10, <1>15, <2>1
    <3> QED BY <1>1, <1>14, <2>2, <3>1
  <2>3. CASE i # 1
    <3>1. i \in 2..Len(k)
      BY <2>3
    <3>2. i - 1 \in 1..Len(q) /\ k[i] = q[i - 1] /\ i - 1 < j - 1
      BY <1>15, <3>1
    <3> QED BY ONLY <1>13, <2>1, <3>2
  <2> QED BY <2>2, <2>3
<1>18. Len(k) \in 1..budget /\ (over => Len(k) = budget)
  BY <1>8, <1>11, <1>13, <1>14
<1>19. ASSUME NEW f \in DOMAIN deltas, \A i \in 1..Len(k) : k[i] # f, ~(deltas[f] < MinDelta)
       PROVE  Len(k) = budget /\ \A i \in 2..Len(k) : deltas[k[i]] >= deltas[f]
  <2>1. f \in changed
    BY <1>1, <1>19 DEF changed
  <2>2. f \notin kept
    <3> SUFFICES ASSUME f \in kept PROVE FALSE
      OBVIOUS
    <3>1. PICK n \in 1..Len(q) : q[n] = f
      BY <1>13
    <3>2. n + 1 \in 1..Len(k) /\ k[n + 1] = f
      BY <1>14, <3>1
    <3> QED BY <1>19, <3>2
  <2> QED BY <1>12, <1>15, <1>18, <2>1, <2>2
<1>20. \A f \in DOMAIN deltas : (\A i \in 1..Len(k) : k[i] # f) =>
          \/ deltas[f] < MinDelta
          \/ Len(k) = budget /\ \A i \in 2..Len(k) : deltas[k[i]] >= deltas[f]
  BY <1>19
<1>21. Pictured(k, deltas, budget)
  BY ONLY <1>14, <1>16, <1>17, <1>18, <1>20 DEF Pictured
<1> QED BY <1>21 DEF k

\* Segments that follow each other from one moment to another.
Segs == [from : Nat, to : Nat, size : Nat, file : Nat]

Tiles(c, start, stop) ==
    /\ c \in Seq(Segs) /\ Len(c) \in Nat \ {0}
    /\ c[1].from = start /\ c[Len(c)].to = stop
    /\ \A i \in 1..Len(c) - 1 : c[i].to = c[i + 1].from
    /\ \A i \in 1..Len(c) : c[i].from < c[i].to

LEMMA SegmentsFacts ==
    ASSUME NEW start \in Nat, NEW lengths \in Seq(Nat), NEW rate \in Nat, Len(lengths) >= 1,
           \A i \in 1..Len(lengths) : lengths[i] >= 1, NEW s, s = Segments(start, lengths, rate)
    PROVE  /\ Tiles(s, start, start + BytesOf(lengths, 0, Len(lengths)))
           /\ Len(s) = Len(lengths) /\ \A i \in 1..Len(s) : s[i].size = rate * lengths[i]
<1> DEFINE n == Len(lengths)
           until(i) == BytesOf(lengths, 0, i)
           ends == [i \in DOMAIN lengths |-> start + SumOf(1..i, LAMBDA j : lengths[j])]
           f(i) == ends[i] - lengths[i]
           z(i) == rate * lengths[i]
           part(i) == [from |-> f(i), to |-> ends[i], size |-> z(i), file |-> i]
<1>1. n \in Nat /\ n >= 1 /\ DOMAIN lengths = 1..n /\ \A i \in 1..n : lengths[i] \in Nat /\ lengths[i] >= 1
  BY LenProperties
<1>2. until(0) = 0
  <2> DEFINE w == [i \in 1..0 - 0 |-> lengths[0 + i]]
  <2>1. 1..0 - 0 = {} /\ IsFiniteSet({})
    BY FS_EmptySet
  <2>2. w \in [{} -> Nat] /\ \A x \in {} : w[x] = 0
    BY <2>1
  <2> HIDE DEF w
  <2>3. SumFunction(w) = 0
    BY <2>1, <2>2, SumFacts
  <2> QED BY <2>3 DEF BytesOf, w
<1>3. \A i \in 1..n : /\ i - 1 \in 0..n - 1 /\ until(i - 1) \in Nat
                      /\ until(i) = until(i - 1) + lengths[i] /\ until(i) \in Nat
  <2> TAKE i \in 1..n
  <2> DEFINE m == i - 1
  <2>1. 0 \in Nat /\ m \in Nat /\ 0 <= m /\ m < n /\ m + 1 = i /\ m \in 0..n - 1
    BY <1>1
  <2> HIDE DEF m
  <2>2. /\ BytesOf(lengths, 0, m) \in Nat
        /\ BytesOf(lengths, 0, m + 1) = BytesOf(lengths, 0, m) + lengths[m + 1]
    BY ONLY <2>1, lengths \in Seq(Nat), BytesFacts DEF n
  <2>3. lengths[i] \in Nat
    BY <1>1
  <2> HIDE DEF n
  <2>4. until(i) = until(m) + lengths[i] /\ until(m) \in Nat /\ until(i) \in Nat
    BY ONLY <2>1, <2>2, <2>3
  <2> QED BY ONLY <2>1, <2>4 DEF m
<1>4. \A i \in 1..n : ends[i] = start + until(i)
  <2> TAKE i \in 1..n
  <2>1. [j \in 1..i |-> lengths[j]] = [k \in 1..i - 0 |-> lengths[0 + k]]
    OBVIOUS
  <2>2. SumOf(1..i, LAMBDA j : lengths[j]) = until(i)
    BY <2>1 DEF SumOf, BytesOf
  <2> QED BY <1>1, <2>2
<1> HIDE DEF until
<1>5. \A i \in 1..n : /\ ends[i] \in Nat /\ f(i) \in Nat /\ f(i) = start + until(i - 1) /\ f(i) < ends[i]
                      /\ z(i) \in Nat /\ i \in Nat
  <2> TAKE i \in 1..n
  <2>1. z(i) \in Nat
    BY <1>1, TimesFacts
  <2> DEFINE e == ends[i]
             l == lengths[i]
             u == until(i - 1)
             w == until(i)
  <2>2. e = start + w /\ u \in Nat /\ w = u + l /\ w \in Nat /\ l \in Nat /\ l >= 1
    <3> HIDE DEF ends
    <3> QED BY <1>1, <1>3, <1>4
  <2>3. f(i) = e - l
    OBVIOUS
  <2> HIDE DEF e, l, u, w, f, z
  <2>4. e \in Nat /\ f(i) \in Nat /\ f(i) = start + u /\ f(i) < e
    BY ONLY <2>2, <2>3, start \in Nat
  <2> QED BY ONLY <2>1, <2>4, i \in 1..n DEF e, u
<1>6. s = [i \in 1..n |-> part(i)]
  BY <1>1 DEF Segments
<1> HIDE DEF ends, f, z
<1>7. \A i \in 1..n : part(i) \in Segs
  BY <1>5 DEF Segs
<1>8. \A i \in 1..n : /\ part(i).from = f(i) /\ part(i).to = ends[i] /\ part(i).size = z(i)
  OBVIOUS
<1> HIDE DEF part
<1>9. s \in Seq(Segs) /\ Len(s) = n /\ \A i \in 1..n : s[i] = part(i)
  BY <1>1, <1>6, <1>7
<1>10. s[1].from = start /\ s[n].to = start + until(n)
  <2>1. 1 \in 1..n /\ n \in 1..n /\ 1 - 1 = 0
    BY <1>1
  <2>2. f(1) = start + until(0)
    BY ONLY <1>5, <2>1
  <2> QED BY ONLY <1>2, <1>4, <1>8, <1>9, <2>1, <2>2, start \in Nat
<1>11. \A i \in 1..n - 1 : s[i].to = s[i + 1].from
  <2> TAKE i \in 1..n - 1
  <2>1. i \in 1..n /\ i + 1 \in 1..n /\ (i + 1) - 1 = i
    BY <1>1
  <2>2. f(i + 1) = start + until(i)
    BY ONLY <1>5, <2>1
  <2> QED BY ONLY <1>4, <1>8, <1>9, <2>1, <2>2
<1>12. \A i \in 1..n : s[i].from < s[i].to
  BY <1>5, <1>8, <1>9
<1>13. Tiles(s, start, start + until(n))
  BY ONLY <1>1, <1>9, <1>10, <1>11, <1>12 DEF Tiles
<1>14. \A i \in 1..n : s[i].size = rate * lengths[i]
  BY <1>8, <1>9 DEF z
<1> QED BY <1>9, <1>13, <1>14 DEF n, until

LEMMA FoldFacts ==
    ASSUME NEW s, NEW start, NEW stop, Tiles(s, start, stop), NEW c, c = FoldRunt(s)
    PROVE  /\ Tiles(c, start, stop)
           /\ \/ Len(c) = 1 \/ c[Len(c)].size >= Runt
              \/ Len(s) >= 3 /\ c[Len(c)].size = s[Len(s) - 1].size + s[Len(s)].size
<1> DEFINE n == Len(s)
<1>1. /\ s \in Seq(Segs) /\ n \in Nat \ {0} /\ s[1].from = start /\ s[n].to = stop
      /\ \A i \in 1..n - 1 : s[i].to = s[i + 1].from
      /\ \A i \in 1..n : s[i].from < s[i].to
  BY DEF Tiles
<1>2. CASE n < 2 \/ s[n].size >= Runt
  <2>1. c = s
    BY <1>2 DEF FoldRunt
  <2>2. n < 2 => n = 1
    <3>1. n \in Nat \ {0}
      BY <1>1
    <3> HIDE DEF n
    <3> QED BY ONLY <3>1
  <2> QED BY <1>2, <2>1, <2>2
<1>3. CASE ~(n < 2 \/ s[n].size >= Runt)
  <2> DEFINE a == s[n - 1]
             b == s[n]
             m == n - 2
             head == SubSeq(s, 1, m)
             last == [from |-> a.from, to |-> b.to, size |-> a.size + b.size, file |-> a.file]
  <2>1. m \in Nat /\ n = m + 2 /\ n - 1 = m + 1 /\ m <= n
    BY <1>1, <1>3
  <2>2. a \in Segs /\ b \in Segs /\ \A i \in 1..n : s[i] \in Segs
    <3>1. \A i \in 1..n : s[i] \in Segs
      BY <1>1, LenProperties
    <3> QED BY <2>1, <3>1
  <2>3. c = Append(head, last)
    <3> HIDE DEF last
    <3>1. c = Append(head, [a EXCEPT !.to = b.to, !.size = @ + b.size])
      BY <1>3 DEF FoldRunt
    <3>2. [a EXCEPT !.to = b.to, !.size = @ + b.size] = last
      <4> HIDE DEF a, b
      <4>1. a = [from |-> a.from, to |-> a.to, size |-> a.size, file |-> a.file]
        BY <2>2 DEF Segs
      <4> DEFINE x == a.size + b.size
                 y == b.to
      <4>2. \A p, q, r, t, u : [[from |-> p, to |-> q, size |-> r, file |-> t] EXCEPT !.to = u]
                                   = [from |-> p, to |-> u, size |-> r, file |-> t]
        OBVIOUS
      <4>4. \A p, q, r, t, u : [[from |-> p, to |-> q, size |-> r, file |-> t] EXCEPT !.size = u]
                                   = [from |-> p, to |-> q, size |-> u, file |-> t]
        OBVIOUS
      <4> DEFINE p == a.from
                 q == a.to
                 r == a.size
                 t == a.file
      <4>6. a = [from |-> p, to |-> q, size |-> r, file |-> t]
        BY <4>1
      <4> HIDE DEF x, y, p, q, r, t
      <4>5. [a EXCEPT !.to = y] = [from |-> p, to |-> y, size |-> r, file |-> t]
        BY ONLY <4>2, <4>6
      <4>7. [[a EXCEPT !.to = y] EXCEPT !.size = x] = [from |-> p, to |-> y, size |-> x, file |-> t]
        <5> DEFINE h == [from |-> p, to |-> y, size |-> r, file |-> t]
        <5>1. [h EXCEPT !.size = x] = [from |-> p, to |-> y, size |-> x, file |-> t]
          BY ONLY <4>4
        <5>2. [a EXCEPT !.to = y] = h
          BY <4>5
        <5> HIDE DEF h
        <5> QED BY ONLY <5>1, <5>2
      <4>3. [a EXCEPT !.to = y, !.size = x] = [from |-> p, to |-> y, size |-> x, file |-> t]
        BY <4>7
      <4> QED BY <4>3 DEF last, x, y, p, r, t
    <3> QED BY <3>1, <3>2
  <2>4. /\ last.from = a.from /\ last.to = b.to /\ last.size = a.size + b.size
    OBVIOUS
  <2>5. last \in Segs /\ a.from < b.to
    <3>1. a.from < a.to /\ a.to = b.from /\ b.from < b.to
      <4>1. n - 1 \in 1..n - 1 /\ n - 1 \in 1..n /\ (n - 1) + 1 = n /\ n \in 1..n
        BY <2>1
      <4> QED BY ONLY <1>1, <4>1
    <3> HIDE DEF a, b
    <3>2. a.from \in Nat /\ a.size \in Nat /\ a.file \in Nat /\ b.to \in Nat /\ b.size \in Nat /\ a.to \in Nat
      BY <2>2 DEF Segs
    <3> QED BY <3>1, <3>2 DEF Segs
  <2> HIDE DEF last, a, b
  <2>6. head \in Seq(Segs) /\ Len(head) = m /\ \A i \in 1..m : head[i] = s[i]
    <3>1. \A i \in 1..m : s[i] \in Segs /\ 1 + i - 1 = i
      BY <2>1, <2>2
    <3>2. 1 \in Int /\ m \in Int /\ m - 1 + 1 = m
      BY <2>1
    <3> HIDE DEF m
    <3>3. /\ head \in Seq(Segs) /\ Len(head) = IF 1 <= m THEN m - 1 + 1 ELSE 0
          /\ \A i \in 1..m - 1 + 1 : head[i] = s[1 + i - 1]
      BY ONLY <3>1, <3>2, SubSeqProperties
    <3>4. Len(head) = m
      BY ONLY <2>1, <3>2, <3>3
    <3> QED BY ONLY <3>1, <3>2, <3>3, <3>4
  <2> HIDE DEF head, m
  <2>7. /\ c \in Seq(Segs) /\ Len(c) = m + 1 /\ c[m + 1] = last /\ \A i \in 1..m : c[i] = s[i]
    BY ONLY <2>3, <2>5, <2>6, AppendFacts
  <2>8. c[1].from = start
    <3>1. CASE m = 0
      <4>1. c[1] = last /\ a = s[1]
        BY <2>1, <2>7, <3>1 DEF a
      <4> QED BY <1>1, <2>4, <4>1
    <3>2. CASE m # 0
      <4>1. 1 \in 1..m
        BY <2>1, <3>2
      <4> QED BY <1>1, <2>7, <4>1
    <3> QED BY <3>1, <3>2
  <2>9. c[m + 1].to = stop
    BY <1>1, <2>4, <2>7 DEF b
  <2>10. \A i \in 1..m : c[i].to = c[i + 1].from
    <3> TAKE i \in 1..m
    <3>1. i \in 1..n - 1 /\ s[i].to = s[i + 1].from /\ c[i] = s[i]
      BY <1>1, <2>1, <2>7
    <3>2. CASE i = m
      <4>1. s[i + 1] = a /\ c[i + 1] = last
        BY <2>1, <2>7, <3>2 DEF a
      <4> QED BY <2>4, <3>1, <4>1
    <3>3. CASE i # m
      <4>1. i + 1 \in 1..m
        BY <2>1, <3>3
      <4> QED BY <2>7, <3>1, <4>1
    <3> QED BY <3>2, <3>3
  <2>11. \A i \in 1..m + 1 : c[i].from < c[i].to
    <3> TAKE i \in 1..m + 1
    <3>1. CASE i = m + 1
      BY <2>4, <2>5, <2>7, <3>1
    <3>2. CASE i # m + 1
      <4>1. i \in 1..m /\ i \in 1..n
        BY <2>1, <3>2
      <4> QED BY <1>1, <2>7, <4>1
    <3> QED BY <3>1, <3>2
  <2>12. Tiles(c, start, stop)
    <3>1. Len(c) \in Nat \ {0} /\ Len(c) - 1 = m
      BY <2>1, <2>7
    <3> QED BY ONLY <2>7, <2>8, <2>9, <2>10, <2>11, <3>1 DEF Tiles
  <2>13. Len(c) = 1 \/ (n >= 3 /\ c[Len(c)].size = a.size + b.size)
    BY <2>1, <2>4, <2>7
  <2> QED BY <2>12, <2>13 DEF a, b
<1> QED BY <1>2, <1>3

LEMMA ChunkAtFacts ==
    ASSUME NEW c, NEW stop, Tiles(c, 0, stop), NEW ts \in Nat, ts < stop
    PROVE  /\ ChunkAt(c, ts).from \in Nat
           /\ ChunkAt(c, ts).from <= ts /\ ts < ChunkAt(c, ts).to
<1> DEFINE holds == {i \in DOMAIN c : c[i].from <= ts /\ ts < c[i].to}
           n == Len(c)
           T == {i \in 1..n : ts < c[i].to}
<1>1. /\ c \in Seq(Segs) /\ n \in Nat \ {0} /\ c[1].from = 0 /\ c[n].to = stop
      /\ \A i \in 1..n - 1 : c[i].to = c[i + 1].from
  BY DEF Tiles
<1>2. DOMAIN c = 1..n /\ \A i \in 1..n : c[i] \in Segs
  BY <1>1, LenProperties
<1>3. \A i \in 1..n : c[i].from \in Nat /\ c[i].to \in Nat
  BY <1>2 DEF Segs
<1>4. T \in SUBSET Nat /\ n \in T
  BY <1>1
<1>5. PICK i \in T : \A j \in T : i <= j
  BY ONLY <1>4, Least
<1>6. c[i].from <= ts
  <2>1. CASE i = 1
    BY <1>1, <2>1
  <2>2. CASE i # 1
    <3>1. i - 1 \in 1..n - 1 /\ i - 1 \in 1..n /\ (i - 1) + 1 = i /\ ~(i <= i - 1)
      BY <1>1, <1>5, <2>2
    <3>2. i - 1 \notin T
      BY <1>5, <3>1
    <3>3. ~(ts < c[i - 1].to) /\ c[i - 1].to = c[i].from /\ c[i].from \in Nat
      BY <1>1, <1>3, <3>1, <3>2
    <3> QED BY <3>3
  <2> QED BY <2>1, <2>2
<1>7. i \in holds
  BY <1>2, <1>5, <1>6
<1>8. holds \in SUBSET Nat /\ holds # {}
  BY <1>2, <1>7
<1> DEFINE k == CHOOSE j \in holds : \A l \in holds : j <= l
<1>9. ChunkAt(c, ts) = c[k]
  BY <1>8 DEF ChunkAt
<1>10. k \in holds
  <2> HIDE DEF holds
  <2>1. \E j \in holds : \A l \in holds : j <= l
    BY ONLY <1>8, Least
  <2> QED BY <2>1
<1> HIDE DEF k
<1> QED BY <1>2, <1>3, <1>9, <1>10

\* A segment that lasts at least as asked is no runt once a last one has joined it.
LEMMA RuntFacts ==
    ASSUME NEW rate \in 1..3, NEW x \in Nat, NEW y \in Nat, x >= SegmentSeconds(rate), y >= 1,
           rate * MaxSeconds >= Runt
    PROVE  rate * x + rate * y >= Runt
<1> DEFINE g == TargetSize \div rate
<1>1. /\ TargetSize \in Nat /\ MaxSeconds \in Nat /\ MinSeconds \in Nat /\ Runt \in Nat /\ Runt <= TargetSize
  BY MediaAssumption
<1>2. g \in Nat /\ g * rate <= TargetSize /\ TargetSize < g * rate + rate
  BY <1>1, DivFacts
<1> HIDE DEF g
<1>3. x >= MaxSeconds \/ x >= g
  <2>1. Greater(1, rate) = rate
    BY DEF Greater
  <2>2. SegmentSeconds(rate) = Lesser(MaxSeconds, Greater(MinSeconds, g))
    BY <2>1 DEF SegmentSeconds, g
  <2> QED BY <1>1, <1>2, <2>2 DEF Lesser, Greater
<1>4. rate = 1 \/ rate = 2 \/ rate = 3
  OBVIOUS
<1> QED BY <1>1, <1>2, <1>3, <1>4

LEMMA EdgePictures == EdgeIInv => PicturesPlay
<1> SUFFICES ASSUME EdgeIInv, Answered("video_rows") PROVE PicturesPlay
  BY DEF PicturesPlay
<1> DEFINE start == call.start
           rate == call.rate
           lengths == call.lengths
           deltas == call.deltas
           budget == call.budget
           n == Len(lengths)
           duration == BytesOf(lengths, 0, n)
           s == Segments(start, lengths, rate)
           chunks == FoldRunt(s)
           k == Keyframes(deltas, budget)
           ts(i) == k[i] * Sampling
           chunk(i) == ChunkAt(chunks, ts(i))
           ends(i) == Lesser(ts(i) + Sampling, duration)
           offset(i) == Greater(0, ts(i) - chunk(i).from)
           row(i) == [ts |-> ts(i), to |-> ends(i), chunk |-> chunk(i), offset |-> offset(i)]
           rows == [i \in DOMAIN k |-> row(i)]
<1>1. call \in VideoCalls /\ answer = VideoRows(call)
  BY EdgeCallFacts DEF EdgeIInv, Answered
<1>2. /\ start \in 0..1 /\ rate \in 1..3 /\ budget \in 1..3
      /\ lengths \in UNION {[1..m -> 1..5] : m \in 1..3}
      /\ deltas \in UNION {[1..m -> 0..2] : m \in 0..3}
      /\ Len(deltas) * Sampling < SumOf(DOMAIN lengths, LAMBDA i : lengths[i])
      /\ \A i \in 1..Len(lengths) - 1 : lengths[i] - SegmentSeconds(rate) \in 0..1
  BY <1>1 DEF VideoCalls
<1>3. lengths \in Seq(Nat) /\ n >= 1 /\ n \in Nat /\ DOMAIN lengths = 1..n /\ \A i \in 1..n : lengths[i] \in 1..5
  <2> HIDE DEF lengths
  <2>1. PICK m \in 1..3 : lengths \in [1..m -> 1..5]
    BY <1>2
  <2>2. lengths \in [1..m -> Nat] /\ m \in Nat /\ m >= 1 /\ \A i \in 1..m : lengths[i] \in 1..5
    BY <2>1
  <2> QED BY <2>2
<1>4. deltas \in Seq(Nat) /\ Len(deltas) \in Nat /\ DOMAIN deltas = 1..Len(deltas)
  <2> HIDE DEF deltas
  <2>1. PICK m \in 0..3 : deltas \in [1..m -> 0..2]
    BY <1>2
  <2>2. deltas \in [1..m -> Nat] /\ m \in Nat
    BY <2>1
  <2> QED BY <2>2
<1>5. SumOf(DOMAIN lengths, LAMBDA i : lengths[i]) = duration
  <2>1. [j \in 1..n |-> lengths[j]] = [i \in 1..n - 0 |-> lengths[0 + i]]
    BY <1>3
  <2> QED BY <1>3, <2>1 DEF SumOf, BytesOf
<1>6. answer.chunks = chunks /\ answer.rows = rows
  <2>1. \A i \in DOMAIN k :
            row(i) = LET t == k[i] * Sampling
                         c == ChunkAt(chunks, t)
                     IN  [ts |-> t, to |-> Lesser(t + Sampling, duration), chunk |-> c,
                          offset |-> Greater(0, t - c.from)]
    OBVIOUS
  <2> QED BY <1>1, <1>5, <2>1 DEF VideoRows
<1>7. Pictured(k, deltas, budget)
  <2>1. budget \in Nat \ {0}
    BY <1>2
  <2> HIDE DEF budget, deltas
  <2> QED BY <1>4, <2>1, KeyframesFacts
<1>8. /\ Tiles(s, start, start + duration) /\ Len(s) = n
      /\ \A i \in 1..n : s[i].size = rate * lengths[i]
  <2>1. start \in Nat /\ rate \in Nat /\ \A i \in 1..n : lengths[i] >= 1
    BY <1>2, <1>3
  <2>2. s = Segments(start, lengths, rate)
    OBVIOUS
  <2> HIDE DEF start, rate, lengths, s
  <2>3. Tiles(s, start, start + duration) /\ Len(s) = n /\ \A i \in 1..Len(s) : s[i].size = rate * lengths[i]
    BY ONLY <1>3, <2>1, <2>2, SegmentsFacts
  <2> QED BY ONLY <2>3
<1>9. /\ Tiles(chunks, start, start + duration)
      /\ \/ Len(chunks) = 1 \/ chunks[Len(chunks)].size >= Runt
         \/ Len(s) >= 3 /\ chunks[Len(chunks)].size = s[Len(s) - 1].size + s[Len(s)].size
  <2> HIDE DEF s, start, duration
  <2> QED BY <1>8, FoldFacts
<1>10. duration \in Nat
  <2> DEFINE m == n - 1
  <2>1. 0 \in Nat /\ m \in Nat /\ 0 <= m /\ m < n /\ m + 1 = n
    BY <1>3
  <2>2. lengths[n] \in Nat
    BY <1>3
  <2> HIDE DEF m, lengths
  <2>3. BytesOf(lengths, 0, m) \in Nat /\ BytesOf(lengths, 0, m + 1) = BytesOf(lengths, 0, m) + lengths[m + 1]
    BY ONLY <1>3, <2>1, BytesFacts
  <2> QED BY ONLY <2>1, <2>2, <2>3
<1>11. Sampling \in Nat \ {0} /\ Runt \in Nat /\ MaxSeconds \in Nat
  BY MediaAssumption
<1> HIDE DEF start, rate, lengths, deltas, budget, n, duration, s, chunks, k
<1>12. /\ k \in Seq(Nat) /\ Len(k) \in 1..budget /\ k[1] = 0
       /\ \A i, j \in 1..Len(k) : i < j => k[i] < k[j]
       /\ \A i \in 2..Len(k) : k[i] \in DOMAIN deltas /\ deltas[k[i]] >= MinDelta
       /\ \A f \in DOMAIN deltas : (\A i \in 1..Len(k) : k[i] # f) =>
             \/ deltas[f] < MinDelta
             \/ Len(k) = budget /\ \A i \in 2..Len(k) : deltas[k[i]] >= deltas[f]
  BY <1>7 DEF Pictured
<1>13. Len(k) \in Nat /\ DOMAIN k = 1..Len(k) /\ \A i \in 1..Len(k) : k[i] \in Nat
  BY <1>12, LenProperties
<1>14. \A i \in 1..Len(k) : row(i).ts = ts(i) /\ row(i).chunk = chunk(i) /\ row(i).offset = offset(i)
  OBVIOUS
<1> DEFINE K == Len(k)
<1>15. Len(rows) = K /\ DOMAIN rows = 1..K /\ \A i \in 1..K : rows[i] = row(i)
  <2> DEFINE R == {row(i) : i \in 1..K}
  <2>1. \A i \in 1..K : row(i) \in R
    OBVIOUS
  <2> HIDE DEF R, row, K
  <2>2. rows = [i \in 1..K |-> row(i)] /\ K \in Nat
    BY <1>13 DEF K
  <2> HIDE DEF rows
  <2>3. rows \in [1..K -> R]
    BY <2>1, <2>2
  <2> QED BY <2>2, <2>3
<1>16. \A i \in 1..K : ts(i) \in Nat /\ ts(i) \div Sampling = k[i]
  <2> TAKE i \in 1..K
  <2>1. k[i] \in Nat
    BY <1>13
  <2>2. ts(i) \in Nat
    BY <1>11, <2>1, TimesFacts
  <2>3. k[i] * Sampling <= ts(i) /\ ts(i) < k[i] * Sampling + Sampling
    BY <1>11, <2>2
  <2>4. ts(i) \div Sampling = k[i]
    BY ONLY <1>11, <2>1, <2>2, <2>3, DivFacts
  <2> QED BY <2>2, <2>4
<1> HIDE DEF row, K
<1>17. rows[1].ts = 0 /\ \A i \in 1..K - 1 : rows[i].ts < rows[i + 1].ts
  <2>1. 1 \in 1..K /\ K \in Nat
    BY <1>12, <1>13 DEF K
  <2>2. ts(1) = 0
    BY <1>11, <1>12
  <2>3. \A i \in 1..K - 1 : ts(i) < ts(i + 1)
    <3> TAKE i \in 1..K - 1
    <3>1. i \in 1..K /\ i + 1 \in 1..K /\ i < i + 1
      BY <2>1
    <3>2. k[i] \in Nat /\ k[i + 1] \in Nat /\ k[i] < k[i + 1]
      BY <1>12, <1>13, <3>1 DEF K
    <3>3. k[i] * Sampling + Sampling <= k[i + 1] * Sampling
      BY <1>11, <3>2, TimesFacts
    <3> QED BY <1>11, <1>16, <3>1, <3>3
  <2> HIDE DEF ts
  <2>4. \A i \in 1..K - 1 : i \in 1..K /\ i + 1 \in 1..K
    BY <2>1
  <2> QED BY ONLY <1>14, <1>15, <2>1, <2>2, <2>3, <2>4 DEF K
<1> DEFINE frames == {rows[i].ts \div Sampling : i \in DOMAIN rows}
<1>18. frames = {k[i] : i \in 1..K}
  <2> HIDE DEF ts, rows
  <2>1. \A i \in 1..K : rows[i].ts \div Sampling = k[i]
    BY <1>14, <1>15, <1>16 DEF K
  <2> QED BY <1>15, <2>1
<1> HIDE DEF frames
<1>19. \A f \in frames \ {0} : \E i \in 2..K : f = k[i]
  BY <1>12, <1>13, <1>18 DEF K
<1>20. \A f \in DOMAIN deltas \ frames :
           \/ deltas[f] < MinDelta
           \/ K = budget /\ \A g \in frames \ {0} : deltas[g] >= deltas[f]
  <2> TAKE f \in DOMAIN deltas \ frames
  <2>1. \A i \in 1..K : k[i] # f
    BY <1>18
  <2> QED BY <1>12, <1>19, <2>1 DEF K
<1>21. /\ \A i \in 1..Len(chunks) - 1 : chunks[i].to = chunks[i + 1].from
  BY <1>9 DEF Tiles
<1>22. chunks[Len(chunks)].size >= Runt \/ Len(chunks) = 1 \/ rate * MaxSeconds < Runt
  <2> SUFFICES ASSUME Len(s) >= 3, rate * MaxSeconds >= Runt,
                      chunks[Len(chunks)].size = s[Len(s) - 1].size + s[Len(s)].size
               PROVE  chunks[Len(chunks)].size >= Runt
    <3>1. rate * MaxSeconds \in Nat
      BY <1>2, <1>11
    <3> QED BY <1>9, <1>11, <3>1
  <2> DEFINE x == lengths[n - 1]
             y == lengths[n]
             m == n - 1
  <2>1. m \in 1..n /\ n \in 1..n /\ m \in 1..Len(lengths) - 1
    BY <1>3, <1>8 DEF n
  <2>2. x \in Nat /\ y \in Nat /\ y >= 1
    BY <1>3, <2>1
  <2>3. x >= SegmentSeconds(rate)
    <3>1. x - SegmentSeconds(rate) \in 0..1
      BY <1>2, <2>1
    <3>2. SegmentSeconds(rate) \in Int
      <4>1. Greater(1, rate) \in Nat \ {0}
        BY <1>2 DEF Greater
      <4>2. TargetSize \in Nat /\ MinSeconds \in Nat
        BY MediaAssumption
      <4>3. TargetSize \div Greater(1, rate) \in Nat
        BY <4>1, <4>2, DivFacts
      <4> DEFINE g == TargetSize \div Greater(1, rate)
      <4>4. SegmentSeconds(rate) = Lesser(MaxSeconds, Greater(MinSeconds, g)) /\ g \in Nat
        BY <4>3 DEF SegmentSeconds
      <4> HIDE DEF g
      <4> QED BY <1>11, <4>2, <4>4 DEF Lesser, Greater
    <3> HIDE DEF x
    <3> QED BY <2>2, <3>1, <3>2
  <2>4. s[Len(s) - 1].size = rate * x /\ s[Len(s)].size = rate * y
    BY <1>8, <2>1
  <2> HIDE DEF x, y, m
  <2>5. rate * x + rate * y >= Runt
    BY <1>2, <2>2, <2>3, RuntFacts
  <2> QED BY <2>4, <2>5
<1>23. ASSUME start = 0, NEW i \in 1..K
       PROVE  chunk(i).from <= ts(i) /\ ts(i) < chunk(i).to /\ offset(i) = ts(i) - chunk(i).from
  <2>1. ts(i) \in Nat
    BY <1>16
  <2>2. ts(i) < duration
    <3>1. Len(deltas) * Sampling < duration /\ Len(deltas) * Sampling \in Nat
      BY <1>2, <1>4, <1>5, <1>11, TimesFacts
    <3>2. k[i] \in Nat /\ k[i] <= Len(deltas)
      <4>1. CASE i = 1
        BY <1>4, <1>12, <4>1
      <4>2. CASE i # 1
        <5>1. i \in 2..Len(k)
          BY <1>13, <4>2 DEF K
        <5> QED BY <1>4, <1>12, <1>13, <5>1
      <4> QED BY <4>1, <4>2
    <3>3. k[i] * Sampling <= Len(deltas) * Sampling
      <4>1. CASE k[i] = Len(deltas)
        BY <1>4, <1>11, <3>1, <4>1
      <4>2. CASE k[i] < Len(deltas)
        <5>1. k[i] * Sampling + Sampling <= Len(deltas) * Sampling
          BY <1>4, <1>11, <3>2, <4>2, TimesFacts
        <5> QED BY <1>11, <2>1, <3>1, <5>1
      <4> QED BY <1>4, <3>2, <4>1, <4>2
    <3> QED BY <1>10, <2>1, <3>1, <3>3
  <2> DEFINE t == ts(i)
  <2>3. Tiles(chunks, 0, duration)
    <3>1. start + duration = duration
      BY <1>10, <1>23
    <3> QED BY <1>9, <1>23, <3>1
  <2>4. t \in Nat /\ t < duration
    BY <2>1, <2>2
  <2> HIDE DEF ts, t
  <2>5. ChunkAt(chunks, t).from <= t /\ t < ChunkAt(chunks, t).to
    BY <2>3, <2>4, ChunkAtFacts
  <2>6. ChunkAt(chunks, t).from \in Int
    BY <2>3, <2>4, ChunkAtFacts
  <2> DEFINE h == ChunkAt(chunks, t).from
  <2>7. h \in Int /\ h <= t
    BY <2>5, <2>6
  <2>8. Greater(0, t - h) = t - h
    <3> HIDE DEF h
    <3> QED BY <2>4, <2>7 DEF Greater
  <2> QED BY <2>5, <2>8 DEF t
<1>24. start = 0 => \A r \in ToSet(rows) :
           r.chunk.from <= r.ts /\ r.ts < r.chunk.to /\ r.offset = r.ts - r.chunk.from
  <2> SUFFICES ASSUME start = 0, NEW r \in ToSet(rows)
               PROVE  r.chunk.from <= r.ts /\ r.ts < r.chunk.to /\ r.offset = r.ts - r.chunk.from
    OBVIOUS
  <2> HIDE DEF rows, ts, chunk, offset
  <2>1. PICK i \in 1..K : r = rows[i]
    BY <1>15 DEF ToSet
  <2>2. r.ts = ts(i) /\ r.chunk = chunk(i) /\ r.offset = offset(i)
    BY <1>14, <1>15, <2>1 DEF K
  <2>3. chunk(i).from <= ts(i) /\ ts(i) < chunk(i).to /\ offset(i) = ts(i) - chunk(i).from
    BY <1>23
  <2> QED BY <2>2, <2>3
<1>25. Len(rows) <= Greater(1, budget)
  BY <1>2, <1>12, <1>13, <1>15 DEF K, Greater
<1>26. \A f \in frames \ {0} : deltas[f] >= MinDelta
  BY <1>12, <1>19 DEF K
<1> HIDE DEF rows
<1>27. /\ rows[1].ts = 0 /\ \A i \in 1..Len(rows) - 1 : rows[i].ts < rows[i + 1].ts
       /\ Len(rows) <= Greater(1, budget)
       /\ \A f \in frames \ {0} : deltas[f] >= MinDelta
       /\ \A f \in DOMAIN deltas \ frames :
             \/ deltas[f] < MinDelta
             \/ Len(rows) = budget /\ \A g \in frames \ {0} : deltas[g] >= deltas[f]
       /\ \A i \in 1..Len(chunks) - 1 : chunks[i].to = chunks[i + 1].from
       /\ chunks[Len(chunks)].size >= Runt \/ Len(chunks) = 1 \/ rate * MaxSeconds < Runt
       /\ start = 0 => \A r \in ToSet(rows) :
             r.chunk.from <= r.ts /\ r.ts < r.chunk.to /\ r.offset = r.ts - r.chunk.from
  BY ONLY <1>15, <1>17, <1>20, <1>21, <1>22, <1>24, <1>25, <1>26
<1> QED BY ONLY <1>6, <1>27 DEF PicturesPlay, frames, start, rate, deltas, budget

--------------------------------------------------------------------------
(* Words. *)

WordLines == {[is |-> "time", at |-> t] : t \in 0..1} \cup {[is |-> "words", words |-> <<w>>] : w \in 1..2}
             \cup {[is |-> k] : k \in {"bad_time", "blank", "number"}}
WordWords == (UNION {[1..n -> 1..2] : n \in 1..2}) \cup {<<1, 2, 3>>, <<2, 3>>, <<3, 4>>, <<2, 3, 4>>}
WordStreams == {s \in UNION {[1..n -> [ts : 0..5, words : {<<1>>}]] : n \in 0..2} :
                   \A i, j \in DOMAIN s : i < j => s[i].ts <= s[j].ts}

LEMMA WordCallFacts ==
    ASSUME NEW c \in WordCalls
    PROVE  /\ c.op = "parse" => c.lines \in UNION {[1..n -> WordLines] : n \in 1..4}
           /\ c.op = "dedupe" => \E w \in UNION {[1..n -> WordWords] : n \in 1..3} :
                                    c.cues = [i \in DOMAIN w |-> [ts |-> i, words |-> w[i]]]
           /\ c.op = "audio_rows" => c.stream \in WordStreams /\ c.duration \in 0..5 /\ c.tagged \in BOOLEAN
           /\ c.op = "pdf" => c.pages \in 1..3 /\ c.texts \in UNION {[1..n -> BOOLEAN] : n \in 0..3}
<1> DEFINE L == UNION {[1..n -> WordLines] : n \in 1..4}
           W == UNION {[1..n -> WordWords] : n \in 1..3}
           C == {[i \in DOMAIN w |-> [ts |-> i, words |-> w[i]]] : w \in W}
           T == UNION {[1..n -> BOOLEAN] : n \in 0..3}
<1>1. WordCalls = [op : {"parse"}, lines : L] \cup [op : {"dedupe"}, cues : C]
                  \cup [op : {"audio_rows"}, stream : WordStreams, duration : 0..5, tagged : BOOLEAN]
                  \cup [op : {"pdf"}, pages : 1..3, texts : T]
  BY DEF WordCalls, WordLines, WordWords, WordStreams
<1>2. \A x \in C : \E w \in W : x = [i \in DOMAIN w |-> [ts |-> i, words |-> w[i]]]
  OBVIOUS
<1> HIDE DEF L, C, T
<1>3. /\ c.op = "parse" => c.lines \in L
      /\ c.op = "dedupe" => c.cues \in C
      /\ c.op = "audio_rows" => c.stream \in WordStreams /\ c.duration \in 0..5 /\ c.tagged \in BOOLEAN
      /\ c.op = "pdf" => c.pages \in 1..3 /\ c.texts \in T
  BY <1>1
<1> QED BY <1>2, <1>3 DEF L, T

LEMMA EdgePages == EdgeIInv /\ Answered("pdf") =>
    /\ Len(answer.rows) = call.pages
    /\ answer.scan = ("pdf-text" \notin ToSet(answer.rows))
<1> SUFFICES ASSUME EdgeIInv, Answered("pdf")
             PROVE  /\ Len(answer.rows) = call.pages
                    /\ answer.scan = ("pdf-text" \notin ToSet(answer.rows))
  OBVIOUS
<1> DEFINE pages == call.pages
           texts == call.texts
           Has(i) == i <= Len(texts) /\ texts[i]
           rows == [i \in 1..pages |-> IF Has(i) THEN "pdf-text" ELSE "filename"]
           none == \A i \in 1..pages : i > Len(texts) \/ ~texts[i]
<1>1. call \in WordCalls /\ call.op = "pdf" /\ answer = PdfRows(pages, texts)
  BY EdgeCallFacts DEF EdgeIInv, Answered
<1>2. pages \in 1..3 /\ texts \in UNION {[1..n -> BOOLEAN] : n \in 0..3}
  BY <1>1, WordCallFacts
<1>3. Len(texts) \in Nat
  <2> HIDE DEF texts
  <2>1. PICK n \in 0..3 : texts \in [1..n -> BOOLEAN]
    BY <1>2
  <2> QED BY <2>1
<1>4. answer.rows = rows /\ answer.scan = none
  BY <1>1 DEF PdfRows
<1> HIDE DEF texts, pages
<1>5. Len(rows) = pages /\ DOMAIN rows = 1..pages
  BY <1>2
<1>6. none <=> \A i \in 1..pages : ~Has(i)
  BY <1>2, <1>3
<1>7. \A i \in 1..pages : rows[i] = "pdf-text" <=> Has(i)
  OBVIOUS
<1> HIDE DEF rows, none, Has
<1>8. "pdf-text" \notin ToSet(rows) <=> none
  BY <1>5, <1>6, <1>7 DEF ToSet
<1>9. none \in BOOLEAN
  BY DEF none
<1> QED BY <1>4, <1>5, <1>8, <1>9 DEF pages

\* A cue, and what has been read of a file of them.
Cue == [ts : Nat, words : Seq(Nat)]
Reading == [cues : Seq(Cue), start : Seq(Nat), buffer : Seq(Nat)]

CuesOf(s) ==
    IF s.start # <<>> /\ s.buffer # <<>>
    THEN Append(s.cues, [ts |-> s.start[1], words |-> s.buffer]) ELSE s.cues

ReadLine(s, line) ==
    CASE line.is = "time" -> [cues |-> CuesOf(s), start |-> <<line.at>>, buffer |-> <<>>]
      [] line.is \in {"bad_time", "blank"} -> [cues |-> CuesOf(s), start |-> <<>>, buffer |-> <<>>]
      [] line.is = "words" /\ s.start # <<>> -> [s EXCEPT !.buffer = @ \o line.words]
      [] OTHER -> s

\* A word is said under a time by a cue, or by what will be one.
SaidIn(cues, at, w) == \E c \in 1..Len(cues) : cues[c].ts = at /\ w \in ToSet(cues[c].words)
Pending(s, at, w) == s.start = <<at>> /\ w \in ToSet(s.buffer)

LEMMA CuesFacts ==
    ASSUME NEW s, s \in Reading
    PROVE  /\ CuesOf(s) \in Seq(Cue)
           /\ \A at, w : SaidIn(s.cues, at, w) \/ Pending(s, at, w) => SaidIn(CuesOf(s), at, w)
<1>1. s.cues \in Seq(Cue) /\ s.start \in Seq(Nat) /\ s.buffer \in Seq(Nat)
  BY DEF Reading
<1>2. CASE s.start # <<>> /\ s.buffer # <<>>
  <2> DEFINE c == [ts |-> s.start[1], words |-> s.buffer]
             k == Len(s.cues)
             t == Append(s.cues, c)
  <2>1. CuesOf(s) = t
    BY <1>2 DEF CuesOf
  <2>2. c \in Cue
    <3>1. Len(s.start) \in Nat \ {0}
      BY <1>1, <1>2, EmptySeq
    <3>2. s.start[1] \in Nat
      BY <1>1, <3>1, LenProperties
    <3> QED BY <1>1, <3>2 DEF Cue
  <2>3. c.ts = s.start[1] /\ c.words = s.buffer
    OBVIOUS
  <2> HIDE DEF c
  <2>4. /\ t \in Seq(Cue) /\ Len(t) = k + 1 /\ k \in Nat /\ t[k + 1] = c
        /\ \A n \in 1..k : t[n] = s.cues[n]
    BY ONLY <1>1, <2>2, AppendFacts
  <2> HIDE DEF t, k
  <2>5. ASSUME NEW at, NEW w, SaidIn(s.cues, at, w) PROVE SaidIn(t, at, w)
    <3>1. PICK n \in 1..k : s.cues[n].ts = at /\ w \in ToSet(s.cues[n].words)
      BY <2>5 DEF SaidIn, k
    <3>2. n \in 1..Len(t) /\ t[n] = s.cues[n]
      BY <2>4
    <3> QED BY <3>1, <3>2 DEF SaidIn
  <2>6. ASSUME NEW at, NEW w, Pending(s, at, w) PROVE SaidIn(t, at, w)
    <3>1. <<at>>[1] = at
      OBVIOUS
    <3>2. c.ts = at /\ w \in ToSet(c.words)
      BY <2>3, <2>6, <3>1 DEF Pending
    <3>3. k + 1 \in 1..Len(t)
      BY <2>4
    <3> QED BY <2>4, <3>2, <3>3 DEF SaidIn
  <2> QED BY <2>1, <2>4, <2>5, <2>6
<1>3. CASE ~(s.start # <<>> /\ s.buffer # <<>>)
  <2>1. CuesOf(s) = s.cues
    BY <1>3 DEF CuesOf
  <2>2. ASSUME NEW at, NEW w, Pending(s, at, w) PROVE FALSE
    <3>1. s.start = <<>> \/ s.buffer = <<>>
      BY <1>3
    <3>2. s.start # <<>>
      BY <2>2 DEF Pending
    <3>3. ToSet(<<>>) = {}
      BY DEF ToSet
    <3> QED BY <2>2, <3>1, <3>2, <3>3 DEF Pending
  <2> QED BY <1>1, <2>1, <2>2
<1> QED BY <1>2, <1>3

\* What a line can be.
ALine(line) ==
    /\ line.is \in {"time", "words", "bad_time", "blank", "number"}
    /\ line.is = "time" => line.at \in Nat
    /\ line.is = "words" => line.words \in Seq(Nat) /\ line.words[1] \in ToSet(line.words)

LEMMA ReadCases ==
    ASSUME NEW s, s \in Reading, NEW line, ALine(line)
    PROVE  /\ ReadLine(s, line) \in Reading
           /\ line.is = "time" => ReadLine(s, line) = [cues |-> CuesOf(s), start |-> <<line.at>>, buffer |-> <<>>]
           /\ line.is \in {"bad_time", "blank"} =>
                 ReadLine(s, line) = [cues |-> CuesOf(s), start |-> <<>>, buffer |-> <<>>]
           /\ line.is = "words" /\ s.start # <<>> =>
                 ReadLine(s, line) = [cues |-> s.cues, start |-> s.start, buffer |-> s.buffer \o line.words]
           /\ line.is = "number" \/ (line.is = "words" /\ s.start = <<>>) => ReadLine(s, line) = s
<1> DEFINE c == CuesOf(s)
           one == <<line.at>>
           more == s.buffer \o line.words
           r == ReadLine(s, line)
<1>1. c \in Seq(Cue) /\ s.cues \in Seq(Cue) /\ s.start \in Seq(Nat) /\ s.buffer \in Seq(Nat)
  BY CuesFacts DEF Reading
<1>2. <<>> \in Seq(Nat)
  BY EmptySeq
<1>3. CASE line.is = "time"
  <2>1. one \in Seq(Nat)
    BY <1>3 DEF ALine
  <2>2. r = [cues |-> c, start |-> one, buffer |-> <<>>]
    BY <1>3 DEF ReadLine
  <2> HIDE DEF c, one, r
  <2>3. r \in Reading
    BY ONLY <1>1, <1>2, <2>1, <2>2 DEF Reading
  <2> QED BY <1>3, <2>2, <2>3 DEF c, one, r
<1>4. CASE line.is \in {"bad_time", "blank"}
  <2>2. r = [cues |-> c, start |-> <<>>, buffer |-> <<>>]
    BY <1>4 DEF ReadLine
  <2> HIDE DEF c, r
  <2>3. r \in Reading
    BY ONLY <1>1, <1>2, <2>2 DEF Reading
  <2> QED BY <1>4, <2>2, <2>3 DEF c, r
<1>5. CASE line.is = "words" /\ s.start # <<>>
  <2>1. more \in Seq(Nat)
    BY <1>1, <1>5, ConcatFacts DEF ALine
  <2> HIDE DEF more
  <2>2. r = [s EXCEPT !.buffer = more]
    BY <1>5 DEF ReadLine, more
  <2>3. s = [cues |-> s.cues, start |-> s.start, buffer |-> s.buffer]
    BY DEF Reading
  <2>4. \A v : [s EXCEPT !.buffer = v] = [cues |-> s.cues, start |-> s.start, buffer |-> v]
    BY <2>3
  <2>5. r = [cues |-> s.cues, start |-> s.start, buffer |-> more]
    BY <2>2, <2>4
  <2> HIDE DEF r
  <2>6. r \in Reading
    BY ONLY <1>1, <2>1, <2>5 DEF Reading
  <2> QED BY <1>5, <2>5, <2>6 DEF r, more
<1>6. CASE line.is = "number" \/ (line.is = "words" /\ s.start = <<>>)
  <2>1. r = s
    BY <1>6 DEF ReadLine
  <2> QED BY <1>6, <2>1
<1> QED BY <1>3, <1>4, <1>5, <1>6 DEF ALine

\* A time holds for the words and the numbers that follow it.
Under(lines, j, n) ==
    lines[j].is = "time" /\ \A k \in j + 1..n : lines[k].is \in {"words", "number"}

Parsed(s, lines, n) ==
    /\ \A j \in 1..n : Under(lines, j, n) => s.start = <<lines[j].at>>
    /\ \A i \in 1..n : \A j \in 1..i - 1 :
          lines[i].is = "words" /\ Under(lines, j, i) =>
              \/ SaidIn(s.cues, lines[j].at, lines[i].words[1])
              \/ Pending(s, lines[j].at, lines[i].words[1])

LEMMA ParsedNext ==
    ASSUME NEW s, s \in Reading, NEW lines, NEW n \in Nat, Parsed(s, lines, n), ALine(lines[n + 1])
    PROVE  Parsed(ReadLine(s, lines[n + 1]), lines, n + 1)
<1> DEFINE line == lines[n + 1]
           r == ReadLine(s, line)
           m == n + 1
           at(j) == lines[j].at
           w(i) == lines[i].words[1]
<1>1. /\ \A j \in 1..n : Under(lines, j, n) => s.start = <<at(j)>>
      /\ \A i \in 1..n : \A j \in 1..i - 1 :
            lines[i].is = "words" /\ Under(lines, j, i) => SaidIn(s.cues, at(j), w(i)) \/ Pending(s, at(j), w(i))
  BY DEF Parsed
<1>2. \A j \in 1..n : Under(lines, j, m) => line.is \in {"words", "number"} /\ Under(lines, j, n)
  <2> TAKE j \in 1..n
  <2> HAVE Under(lines, j, m)
  <2>1. m \in j + 1..m
    OBVIOUS
  <2>2. line.is \in {"words", "number"}
    BY <2>1 DEF Under
  <2>3. \A k \in j + 1..n : k \in j + 1..m
    OBVIOUS
  <2> QED BY <2>2, <2>3 DEF Under
<1>3. m \in Nat /\ (\A j \in 1..m : j = m \/ j \in 1..n) /\ line = lines[m]
      /\ (\A j \in 1..m - 1 : j \in 1..n) /\ \A i \in 1..n : i \in 1..m
  OBVIOUS
<1>4. Under(lines, m, m) => line.is = "time"
  BY DEF Under
<1>5. /\ r \in Reading
      /\ line.is = "time" => r = [cues |-> CuesOf(s), start |-> <<line.at>>, buffer |-> <<>>]
      /\ line.is \in {"bad_time", "blank"} => r = [cues |-> CuesOf(s), start |-> <<>>, buffer |-> <<>>]
      /\ line.is = "words" /\ s.start # <<>> =>
            r = [cues |-> s.cues, start |-> s.start, buffer |-> s.buffer \o line.words]
      /\ line.is = "number" \/ (line.is = "words" /\ s.start = <<>>) => r = s
  BY ReadCases
<1>6. /\ line.is \in {"time", "words", "bad_time", "blank", "number"}
      /\ line.is = "words" => line.words \in Seq(Nat) /\ line.words[1] \in ToSet(line.words)
  BY DEF ALine
<1>7. \A x, y : SaidIn(s.cues, x, y) \/ Pending(s, x, y) => SaidIn(CuesOf(s), x, y)
  BY CuesFacts
<1> HIDE DEF m, r
<1> DEFINE Shown(i, j) == SaidIn(r.cues, at(j), w(i)) \/ Pending(r, at(j), w(i))
<1>8. ASSUME /\ \A j \in 1..m : Under(lines, j, m) => r.start = <<at(j)>>
             /\ \A i \in 1..n : \A j \in 1..i - 1 : lines[i].is = "words" /\ Under(lines, j, i) => Shown(i, j)
             /\ lines[m].is = "words" => \A j \in 1..n : Under(lines, j, m) => Shown(m, j)
      PROVE  Parsed(r, lines, m)
  <2>1. ASSUME NEW i \in 1..m, NEW j \in 1..i - 1, lines[i].is = "words", Under(lines, j, i) PROVE Shown(i, j)
    <3>1. CASE i = m
      BY <1>3, <1>8, <2>1, <3>1
    <3>2. CASE i \in 1..n
      BY <1>8, <2>1, <3>2
    <3> QED BY <1>3, <3>1, <3>2
  <2> QED BY <1>8, <2>1 DEF Parsed
<1>9. CASE line.is \in {"time", "bad_time", "blank"}
  <2>1. r.cues = CuesOf(s) /\ line.is \notin {"words", "number"}
    BY <1>5, <1>9
  <2>2. \A j \in 1..m : Under(lines, j, m) => r.start = <<at(j)>>
    <3> TAKE j \in 1..m
    <3> HAVE Under(lines, j, m)
    <3>1. j = m
      BY <1>2, <1>3, <2>1
    <3>2. line.is = "time" /\ r.start = <<line.at>>
      BY <1>4, <1>5, <3>1
    <3> QED BY <1>3, <3>1, <3>2
  <2>3. \A i \in 1..n : \A j \in 1..i - 1 : lines[i].is = "words" /\ Under(lines, j, i) => Shown(i, j)
    BY <1>1, <1>7, <2>1
  <2>4. lines[m].is # "words"
    BY <1>3, <2>1
  <2> QED BY <1>8, <2>2, <2>3, <2>4 DEF r, m
<1>10. CASE line.is = "words" /\ s.start # <<>>
  <2>1. r.cues = s.cues /\ r.start = s.start /\ r.buffer = s.buffer \o line.words
    <3> DEFINE p == s.cues
               q == s.start
               u == s.buffer \o line.words
    <3>1. r = [cues |-> p, start |-> q, buffer |-> u]
      BY <1>5, <1>10
    <3> HIDE DEF p, q, u
    <3>2. r.cues = p /\ r.start = q /\ r.buffer = u
      BY ONLY <3>1
    <3> QED BY <3>2 DEF p, q, u
  <2>2. \A x : x \in ToSet(s.buffer) \/ x \in ToSet(line.words) => x \in ToSet(r.buffer)
    <3>1. s.buffer \in Seq(Nat) /\ line.words \in Seq(Nat)
      BY <1>6, <1>10 DEF Reading
    <3>2. Entries(s.buffer \o line.words) = Entries(s.buffer) \cup Entries(line.words)
      BY ONLY <3>1, ConcatFacts
    <3> QED BY <2>1, <3>2 DEF Entries, ToSet
  <2>3. \A j \in 1..m : Under(lines, j, m) => j \in 1..n /\ r.start = <<at(j)>>
    <3> TAKE j \in 1..m
    <3> HAVE Under(lines, j, m)
    <3>1. j \in 1..n
      BY <1>3, <1>4, <1>10
    <3> QED BY <1>1, <1>2, <2>1, <3>1
  <2>4. \A x, y : SaidIn(s.cues, x, y) \/ Pending(s, x, y) => SaidIn(r.cues, x, y) \/ Pending(r, x, y)
    BY <2>1, <2>2 DEF Pending
  <2>5. \A i \in 1..n : \A j \in 1..i - 1 : lines[i].is = "words" /\ Under(lines, j, i) => Shown(i, j)
    BY <1>1, <2>4
  <2>6. \A j \in 1..n : Under(lines, j, m) => Shown(m, j)
    <3> TAKE j \in 1..n
    <3> HAVE Under(lines, j, m)
    <3>1. r.start = <<at(j)>>
      BY <1>1, <1>2, <2>1
    <3>2. w(m) \in ToSet(r.buffer)
      BY <1>3, <1>6, <1>10, <2>2
    <3> QED BY <3>1, <3>2 DEF Pending
  <2> QED BY <1>8, <2>3, <2>5, <2>6 DEF r, m
<1>11. CASE line.is = "number" \/ (line.is = "words" /\ s.start = <<>>)
  <2>1. r = s
    BY <1>5, <1>11
  <2>2. \A j \in 1..m : Under(lines, j, m) => j \in 1..n /\ r.start = <<at(j)>>
    <3> TAKE j \in 1..m
    <3> HAVE Under(lines, j, m)
    <3>1. j \in 1..n
      BY <1>3, <1>4, <1>11
    <3> QED BY <1>1, <1>2, <2>1, <3>1
  <2>3. \A i \in 1..n : \A j \in 1..i - 1 : lines[i].is = "words" /\ Under(lines, j, i) => Shown(i, j)
    BY <1>1, <2>1
  <2>4. lines[m].is = "words" => \A j \in 1..n : ~Under(lines, j, m)
    <3> SUFFICES ASSUME lines[m].is = "words", NEW j \in 1..n, Under(lines, j, m) PROVE FALSE
      OBVIOUS
    <3>1. s.start = <<at(j)>>
      BY <1>1, <1>2
    <3>2. s.start = <<>>
      BY <1>3, <1>11
    <3> DEFINE x == at(j)
    <3>3. \A v : <<v>> # <<>>
      OBVIOUS
    <3> HIDE DEF x
    <3>4. s.start = <<x>>
      BY <3>1 DEF x
    <3> QED BY ONLY <3>2, <3>3, <3>4
  <2> QED BY <1>8, <2>2, <2>3, <2>4 DEF r, m
<1> QED BY <1>6, <1>9, <1>10, <1>11

LEMMA WordLineFacts == \A line \in WordLines : ALine(line)
<1> TAKE line \in WordLines
<1>1. CASE line \in {[is |-> "time", at |-> t] : t \in 0..1}
  BY <1>1 DEF ALine
<1>2. CASE line \in {[is |-> "words", words |-> <<x>>] : x \in 1..2}
  <2>1. PICK x \in 1..2 : line = [is |-> "words", words |-> <<x>>]
    BY <1>2
  <2> DEFINE o == <<x>>
  <2>2. o \in Seq(Nat) /\ o[1] = x /\ 1 \in DOMAIN o
    OBVIOUS
  <2>3. o[1] \in ToSet(o)
    BY <2>2 DEF ToSet
  <2>4. line = [is |-> "words", words |-> o]
    BY <2>1
  <2> HIDE DEF o
  <2>5. line.is = "words" /\ line.words = o
    BY ONLY <2>4
  <2> QED BY <2>2, <2>3, <2>5 DEF ALine
<1>3. CASE line \in {[is |-> x] : x \in {"bad_time", "blank", "number"}}
  BY <1>3 DEF ALine
<1> QED BY <1>1, <1>2, <1>3 DEF WordLines

LEMMA ParseFacts ==
    ASSUME NEW L \in Nat, NEW lines \in [1..L -> WordLines]
    PROVE  /\ \A i \in 1..L : ALine(lines[i])
           /\ Parse(lines) \in Seq(Cue)
           /\ \A i \in 1..L : \A j \in 1..i - 1 : lines[i].is = "words" /\ Under(lines, j, i) =>
                 SaidIn(Parse(lines), lines[j].at, lines[i].words[1])
<1> DEFINE none == [cues |-> <<>>, start |-> <<>>, buffer |-> <<>>]
           StepOf(f, n) == IF n = 0 THEN none ELSE ReadLine(f[n - 1], lines[n])
           upto == CHOOSE f : f = [n \in 0..L |-> StepOf(f, n)]
           F == [n \in 1..L |-> [x \in Reading |-> ReadLine(x, lines[n])]]
           G == [n \in 0..L |-> {x \in Reading : Parsed(x, lines, n)}]
           all == upto[L]
<1>0. Len(lines) = L
  OBVIOUS
<1>1. \A i \in 1..L : ALine(lines[i])
  BY WordLineFacts
<1>2. none \in Reading
  BY EmptySeq DEF Reading
<1>3. none \in G[0]
  <2>1. Parsed(none, lines, 0)
    BY DEF Parsed
  <2> QED BY <1>2, <2>1
<1>4. F \in [1..L -> [Reading -> Reading]]
  BY <1>1, ReadCases
<1>5. \A n \in 1..L : \A x : x \in G[n - 1] => ReadLine(x, lines[n]) \in G[n]
  <2> SUFFICES ASSUME NEW n \in 1..L, NEW x, x \in G[n - 1] PROVE ReadLine(x, lines[n]) \in G[n]
    OBVIOUS
  <2> DEFINE m == n - 1
  <2>1. m \in Nat /\ m \in 0..L /\ n \in 0..L /\ m + 1 = n
    OBVIOUS
  <2>2. x \in Reading /\ Parsed(x, lines, m)
    BY <2>1
  <2>3. ALine(lines[m + 1])
    BY <1>1, <2>1
  <2> HIDE DEF m
  <2>4. Parsed(ReadLine(x, lines[m + 1]), lines, m + 1) /\ ReadLine(x, lines[m + 1]) \in Reading
    BY ONLY <2>1, <2>2, <2>3, ParsedNext, ReadCases
  <2> QED BY <2>1, <2>4
<1> HIDE DEF none
<1>6. PICK f \in [0..L -> Reading] : Unrolls(f, L, none, F)
  <2> HIDE DEF F, G
  <2> QED BY ONLY L \in Nat, <1>2, <1>4, Unrolled
<1>7. \A n \in 0..L : f[n] = StepOf(f, n)
  <2> TAKE n \in 0..L
  <2>1. CASE n # 0
    <3>1. n \in 1..L /\ f[n - 1] \in Reading
      BY <2>1
    <3> QED BY <1>6, <2>1, <3>1 DEF Unrolls
  <2> QED BY <1>6, <2>1 DEF Unrolls
<1> HIDE DEF F
<1>8. f = [n \in 0..L |-> StepOf(f, n)]
  <2> HIDE DEF StepOf
  <2> QED BY <1>7
<1>9. upto = [n \in 0..L |-> StepOf(upto, n)]
  <2> HIDE DEF StepOf
  <2> QED BY <1>8
<1>10. Parse(lines) = CuesOf(all)
  BY <1>0 DEF Parse, CuesOf, ReadLine, none
<1> HIDE DEF upto
<1>11. upto[0] = none /\ \A n \in 1..L : upto[n] = ReadLine(upto[n - 1], lines[n])
  <2>1. 0 \in 0..L /\ \A n \in 1..L : n \in 0..L /\ n # 0
    OBVIOUS
  <2>2. \A n \in 0..L : upto[n] = StepOf(upto, n)
    <3> HIDE DEF StepOf
    <3> QED BY <1>9
  <2> QED BY <2>1, <2>2
<1>12. \A n \in 0..L : upto[n] \in G[n]
  <2>1. upto[0] \in G[0] /\ \A n \in 1..L : upto[n - 1] \in G[n - 1] => upto[n] \in G[n]
    <3> HIDE DEF G
    <3> QED BY <1>3, <1>5, <1>11
  <2> HIDE DEF G
  <2> QED BY ONLY L \in Nat, <2>1, Inductively
<1>13. Parsed(all, lines, L) /\ all \in Reading
  BY <1>12
<1> HIDE DEF all, G
<1>14. /\ CuesOf(all) \in Seq(Cue)
       /\ \A x, w : SaidIn(all.cues, x, w) \/ Pending(all, x, w) => SaidIn(CuesOf(all), x, w)
  BY <1>13, CuesFacts
<1> QED BY <1>1, <1>10, <1>13, <1>14 DEF Parsed

LEMMA EdgeParses == EdgeIInv /\ Answered("parse") =>
    \A i \in DOMAIN call.lines : call.lines[i].is = "words" =>
        LET timed == {j \in 1..i - 1 : call.lines[j].is = "time"
                         /\ \A k \in j + 1..i : call.lines[k].is \in {"words", "number"}}
        IN  (timed # {}) = (\E c \in ToSet(answer.cues), j \in timed :
                c.ts = call.lines[j].at /\ call.lines[i].words[1] \in ToSet(c.words))
<1> SUFFICES ASSUME EdgeIInv, Answered("parse"), NEW i \in DOMAIN call.lines, call.lines[i].is = "words"
             PROVE  LET timed == {j \in 1..i - 1 : call.lines[j].is = "time"
                                     /\ \A k \in j + 1..i : call.lines[k].is \in {"words", "number"}}
                    IN  (timed # {}) = (\E c \in ToSet(answer.cues), j \in timed :
                            c.ts = call.lines[j].at /\ call.lines[i].words[1] \in ToSet(c.words))
  OBVIOUS
<1> DEFINE lines == call.lines
           timed == {j \in 1..i - 1 : lines[j].is = "time"
                        /\ \A k \in j + 1..i : lines[k].is \in {"words", "number"}}
           cues == Parse(lines)
           found == \E c \in ToSet(cues), j \in timed :
                        c.ts = lines[j].at /\ lines[i].words[1] \in ToSet(c.words)
<1>1. call \in WordCalls /\ call.op = "parse" /\ answer.cues = cues
  BY EdgeCallFacts DEF EdgeIInv, Answered
<1>2. lines \in UNION {[1..n -> WordLines] : n \in 1..4}
  BY <1>1, WordCallFacts
<1> HIDE DEF lines
<1>3. PICK L \in 1..4 : lines \in [1..L -> WordLines]
  BY <1>2
<1>4. L \in Nat /\ i \in 1..L /\ lines[i].is = "words"
  BY <1>3 DEF lines
<1>5. /\ cues \in Seq(Cue)
      /\ \A j \in 1..i - 1 : Under(lines, j, i) => SaidIn(cues, lines[j].at, lines[i].words[1])
  BY <1>3, <1>4, ParseFacts
<1> HIDE DEF cues
<1>6. ASSUME timed # {} PROVE found
  <2>1. PICK j \in 1..i - 1 : j \in timed
    BY <1>6
  <2>2. Under(lines, j, i)
    BY <2>1 DEF Under
  <2>3. PICK c \in 1..Len(cues) : cues[c].ts = lines[j].at /\ lines[i].words[1] \in ToSet(cues[c].words)
    BY <1>5, <2>2 DEF SaidIn
  <2>4. cues[c] \in ToSet(cues)
    <3>1. DOMAIN cues = 1..Len(cues)
      BY <1>5, LenProperties
    <3> QED BY <3>1 DEF ToSet
  <2> QED BY <2>1, <2>3, <2>4
<1>7. found => timed # {}
  OBVIOUS
<1>8. found \in BOOLEAN /\ (timed # {}) \in BOOLEAN
  OBVIOUS
<1> HIDE DEF timed, found
<1>9. (timed # {}) = found
  BY <1>6, <1>7, <1>8
<1> QED BY <1>1, <1>9 DEF timed, found, lines

---------------------------------------------------------------------------
(* Captions that repeat one another. *)

\* The operators Dedupe defines for itself.
OverlapOf(words, seen) ==
    LET n == {n \in 0..Lesser(Len(words), Len(seen)) :
                 SubSeq(seen, Len(seen) - n + 1, Len(seen)) = SubSeq(words, 1, n)}
    IN  CHOOSE m \in n : \A k \in n : k <= m
RecentOf(s) == SubSeq(s, Greater(1, Len(s) - Memory + 1), Len(s))
FreshOf(words, seen) == SubSeq(words, OverlapOf(words, seen) + 1, Len(words))
ReadCue(s, cue) ==
    LET fresh == FreshOf(cue.words, s.seen)
    IN  IF fresh = <<>> THEN s
        ELSE [out |-> Append(s.out, [ts |-> cue.ts, words |-> fresh]), seen |-> RecentOf(s.seen \o fresh)]

\* The first m words repeat the last m that were seen.
Repeats(words, seen, m) == \A i \in 1..m : words[i] = seen[Len(seen) - m + i]
EndsWith(words, text) ==
    Len(words) <= Len(text) /\ \A i \in 1..Len(words) : words[i] = text[Len(text) - Len(words) + i]
Recalls(seen, text) == EndsWith(seen, text) /\ Len(seen) = Lesser(Memory, Len(text))

LEMMA RepeatsFacts ==
    ASSUME NEW words, words \in Seq(Nat), NEW seen, seen \in Seq(Nat),
           NEW m, m \in 0..Lesser(Len(words), Len(seen))
    PROVE  (SubSeq(seen, Len(seen) - m + 1, Len(seen)) = SubSeq(words, 1, m)) <=> Repeats(words, seen, m)
<1> DEFINE a == Len(words)
           b == Len(seen)
           s == SubSeq(seen, b - m + 1, b)
           t == SubSeq(words, 1, m)
<1>1. a \in Nat /\ b \in Nat /\ m \in 0..a /\ m \in 0..b
  BY LenProperties DEF Lesser
<1>2. (\A i \in 1..a : words[i] \in Nat) /\ (\A i \in 1..b : seen[i] \in Nat)
  BY LenProperties
<1> HIDE DEF a, b
<1>3. s \in Seq(Nat) /\ Len(s) = m /\ \A i \in 1..m : s[i] = seen[b - m + i]
  <2> DEFINE c == b - m + 1
  <2>1. c \in Int /\ b \in Int /\ (\A i \in c..b : seen[i] \in Nat) /\ b - c + 1 = m
    BY <1>1, <1>2
  <2>2. /\ SubSeq(seen, c, b) \in Seq(Nat)
        /\ Len(SubSeq(seen, c, b)) = IF c <= b THEN b - c + 1 ELSE 0
        /\ \A i \in 1..b - c + 1 : SubSeq(seen, c, b)[i] = seen[c + i - 1]
    <3> HIDE DEF c
    <3> QED BY ONLY <2>1, SubSeqProperties
  <2> DEFINE q == SubSeq(seen, c, b)
  <2>3. q \in Seq(Nat) /\ (Len(q) = IF c <= b THEN b - c + 1 ELSE 0) /\ \A i \in 1..b - c + 1 : q[i] = seen[c + i - 1]
    BY <2>2
  <2>4. s = q
    OBVIOUS
  <2> HIDE DEF q, s
  <2>5. \A i \in 1..m : c + i - 1 = b - m + i
    BY <1>1
  <2> QED BY <1>1, <2>3, <2>4, <2>5
<1>4. t \in Seq(Nat) /\ Len(t) = m /\ \A i \in 1..m : t[i] = words[i]
  <2>1. 1 \in Int /\ m \in Int /\ \A i \in 1..m : words[i] \in Nat
    BY <1>1, <1>2
  <2>2. /\ t \in Seq(Nat)
        /\ Len(t) = IF 1 <= m THEN m - 1 + 1 ELSE 0
        /\ \A i \in 1..m - 1 + 1 : t[i] = words[1 + i - 1]
    BY ONLY <2>1, SubSeqProperties
  <2> HIDE DEF t
  <2>3. m \in Nat
    BY <1>1
  <2> QED BY <2>2, <2>3
<1> HIDE DEF s, t
<1>5. (s = t) <=> \A i \in 1..m : s[i] = t[i]
  BY ONLY <1>3, <1>4, SeqEqual
<1>6. (s = t) <=> Repeats(words, seen, m)
  BY ONLY <1>3, <1>4, <1>5 DEF Repeats, b
<1> QED BY ONLY <1>6 DEF s, t, b

LEMMA OverlapFacts ==
    ASSUME NEW words, words \in Seq(Nat), NEW seen, seen \in Seq(Nat)
    PROVE  /\ OverlapOf(words, seen) \in Nat
           /\ OverlapOf(words, seen) <= Len(words) /\ OverlapOf(words, seen) <= Len(seen)
           /\ Repeats(words, seen, OverlapOf(words, seen))
           /\ \A m \in Nat : m <= Len(words) /\ m <= Len(seen) /\ Repeats(words, seen, m) =>
                 m <= OverlapOf(words, seen)
<1> DEFINE a == Len(words)
           b == Len(seen)
           n == {m \in 0..Lesser(a, b) : SubSeq(seen, b - m + 1, b) = SubSeq(words, 1, m)}
           o == OverlapOf(words, seen)
           N == {m \in 0..Lesser(a, b) : Repeats(words, seen, m)}
<1>1. a \in Nat /\ b \in Nat
  BY LenProperties
<1>2. n = N
  <2>1. \A m \in 0..Lesser(a, b) : (SubSeq(seen, b - m + 1, b) = SubSeq(words, 1, m)) <=> Repeats(words, seen, m)
    BY RepeatsFacts
  <2> QED BY <2>1
<1>3. o = CHOOSE m \in N : \A k \in N : k <= m
  <2>1. o = CHOOSE m \in n : \A k \in n : k <= m
    BY DEF OverlapOf
  <2> QED BY <1>2, <2>1
<1> HIDE DEF a, b, n, o
<1>4. 0 \in N
  BY <1>1 DEF Lesser, Repeats
<1>5. N \subseteq Nat /\ IsFiniteSet(N)
  <2>1. 0..Lesser(a, b) \subseteq Nat /\ IsFiniteSet(0..Lesser(a, b))
    <3>1. 0 \in Int /\ Lesser(a, b) \in Int
      BY <1>1 DEF Lesser
    <3> QED BY <3>1, FS_Interval
  <2> QED BY <2>1, FS_Subset
<1>6. \E m \in N : \A k \in N : k <= m
  <2> HIDE DEF N
  <2> QED BY <1>4, <1>5, Greatest
<1>7. o \in N /\ \A k \in N : k <= o
  <2> HIDE DEF N
  <2> QED BY ONLY <1>3, <1>6
<1>8. \A m \in Nat : m \in 0..Lesser(a, b) <=> m <= a /\ m <= b
  BY <1>1 DEF Lesser
<1>9. o \in Nat /\ o <= a /\ o <= b /\ Repeats(words, seen, o)
  BY <1>7, <1>8
<1>10. \A m \in Nat : m <= a /\ m <= b /\ Repeats(words, seen, m) => m <= o
  BY <1>7, <1>8
<1> QED BY <1>9, <1>10 DEF o, a, b

LEMMA FreshFacts ==
    ASSUME NEW words, words \in Seq(Nat), NEW seen, seen \in Seq(Nat)
    PROVE  /\ FreshOf(words, seen) \in Seq(Nat)
           /\ Len(FreshOf(words, seen)) = Len(words) - OverlapOf(words, seen)
           /\ \A i \in 1..Len(words) - OverlapOf(words, seen) :
                 FreshOf(words, seen)[i] = words[OverlapOf(words, seen) + i]
<1> DEFINE a == Len(words)
           o == OverlapOf(words, seen)
           c == o + 1
           q == SubSeq(words, c, a)
<1>1. a \in Nat /\ o \in Nat /\ o <= a /\ \A i \in 1..a : words[i] \in Nat
  BY OverlapFacts, LenProperties
<1>2. FreshOf(words, seen) = q
  BY DEF FreshOf
<1> HIDE DEF a, o
<1>3. c \in Int /\ a \in Int /\ (\A i \in c..a : words[i] \in Nat) /\ a - c + 1 = a - o
  BY <1>1
<1>4. \A i \in 1..a - o : c + i - 1 = o + i
  BY <1>1
<1>5. (IF c <= a THEN a - c + 1 ELSE 0) = a - o
  BY <1>1
<1> HIDE DEF c
<1>6. q \in Seq(Nat) /\ (Len(q) = IF c <= a THEN a - c + 1 ELSE 0) /\ \A i \in 1..a - c + 1 : q[i] = words[c + i - 1]
  BY ONLY <1>3, SubSeqProperties
<1> HIDE DEF q
<1>7. q \in Seq(Nat) /\ Len(q) = a - o /\ \A i \in 1..a - o : q[i] = words[o + i]
  BY ONLY <1>3, <1>4, <1>5, <1>6
<1> QED BY ONLY <1>2, <1>7 DEF a, o

\* What is remembered of what was read goes on to be its end.
LEMMA RecallsNext ==
    ASSUME NEW text, text \in Seq(Nat), NEW seen, seen \in Seq(Nat), Recalls(seen, text),
           NEW fresh, fresh \in Seq(Nat)
    PROVE  RecentOf(seen \o fresh) \in Seq(Nat) /\ Recalls(RecentOf(seen \o fresh), text \o fresh)
<1> DEFINE a == Len(text)
           b == Len(seen)
           c == Len(fresh)
           t == text \o fresh
           s == seen \o fresh
           from == Greater(1, Len(s) - Memory + 1)
           q == SubSeq(s, from, Len(s))
<1>0. Memory \in Nat \ {0}
  BY MediaAssumption
<1>1. a \in Nat /\ b \in Nat /\ c \in Nat /\ b = Lesser(Memory, a) /\ \A i \in 1..b : seen[i] = text[a - b + i]
  BY LenProperties DEF Recalls, EndsWith
<1>2. t \in Seq(Nat) /\ Len(t) = a + c /\ (\A i \in 1..a : t[i] = text[i]) /\ \A i \in 1..c : t[a + i] = fresh[i]
  BY ConcatFacts
<1>3. s \in Seq(Nat) /\ Len(s) = b + c /\ (\A i \in 1..b : s[i] = seen[i]) /\ \A i \in 1..c : s[b + i] = fresh[i]
  BY ConcatFacts
<1> HIDE DEF a, b, c
<1>4. RecentOf(seen \o fresh) = q
  BY DEF RecentOf
<1> HIDE DEF t, s
<1>5. from \in Int /\ Len(s) \in Int /\ 1 <= from /\ from <= Len(s) + 1 /\ Len(s) - from + 1 = Lesser(Memory, a + c)
      /\ from - 1 = b + c - Lesser(Memory, a + c)
  BY <1>0, <1>1, <1>3 DEF Lesser, Greater
<1>6. \A i \in from..Len(s) : s[i] \in Nat
  <2>1. \A i \in 1..Len(s) : s[i] \in Nat
    BY <1>3, LenProperties
  <2> HIDE DEF from
  <2> QED BY <1>5, <2>1
<1> HIDE DEF from
<1>7. q \in Seq(Nat) /\ (Len(q) = IF from <= Len(s) THEN Len(s) - from + 1 ELSE 0)
      /\ \A i \in 1..Len(s) - from + 1 : q[i] = s[from + i - 1]
  BY ONLY <1>5, <1>6, SubSeqProperties
<1> HIDE DEF q
<1> DEFINE k == Lesser(Memory, a + c)
<1>8. k \in Nat /\ k <= a + c /\ k <= b + c
  BY <1>0, <1>1 DEF Lesser
<1>9. \A i \in 1..b + c : s[i] = t[a - b + i]
  <2> TAKE i \in 1..b + c
  <2>1. b <= a
    BY <1>0, <1>1 DEF Lesser
  <2>2. CASE i <= b
    <3>1. i \in 1..b /\ a - b + i \in 1..a
      BY <1>1, <2>1, <2>2
    <3> QED BY <1>1, <1>2, <1>3, <3>1
  <2>3. CASE i > b
    <3> DEFINE j == i - b
    <3>1. j \in 1..c /\ b + j = i /\ a - b + i = a + j
      BY <1>1, <2>1, <2>3
    <3> HIDE DEF j
    <3> QED BY <1>2, <1>3, <3>1
  <2> QED BY <1>1, <2>2, <2>3
<1>10. Len(s) - from + 1 = k /\ from - 1 = b + c - k
  BY <1>5
<1> HIDE DEF k
<1>11. Len(q) = k /\ \A i \in 1..k : q[i] = t[a + c - k + i]
  <2>1. Len(q) = k
    BY <1>3, <1>5, <1>7, <1>8, <1>10
  <2>2. ASSUME NEW i \in 1..k PROVE q[i] = t[a + c - k + i]
    <3> DEFINE j == b + c - k + i
    <3>0. a \in Nat /\ b \in Nat /\ c \in Nat /\ k \in Nat /\ k <= b + c /\ from \in Int /\ from - 1 = b + c - k
      BY <1>1, <1>5, <1>8, <1>10
    <3>1. j \in 1..b + c /\ from + i - 1 = j /\ a - b + j = a + c - k + i
      BY ONLY <3>0, i \in 1..k
    <3>2. q[i] = s[from + i - 1]
      BY <1>7, <1>10
    <3> HIDE DEF j
    <3> QED BY <1>9, <3>1, <3>2
  <2> QED BY <2>1, <2>2
<1>12. Recalls(q, t)
  <2>1. Len(t) = a + c /\ k <= a + c /\ Len(q) = k /\ k = Lesser(Memory, a + c)
    BY <1>2, <1>8, <1>11 DEF k
  <2>2. \A i \in 1..k : Len(t) - Len(q) + i = a + c - k + i
    BY <1>1, <1>8, <2>1
  <2>3. \A i \in 1..Len(q) : q[i] = t[Len(t) - Len(q) + i]
    BY ONLY <1>11, <2>1, <2>2
  <2>4. Len(q) <= Len(t) /\ Len(q) = Lesser(Memory, Len(t))
    BY ONLY <2>1
  <2> QED BY ONLY <2>3, <2>4 DEF Recalls, EndsWith
<1> QED BY <1>4, <1>7, <1>12 DEF t

\* A cue that was read is the end of what was read.
LEMMA FreshEnds ==
    ASSUME NEW text, text \in Seq(Nat), NEW seen, seen \in Seq(Nat), Recalls(seen, text),
           NEW words, words \in Seq(Nat)
    PROVE  EndsWith(words, text \o FreshOf(words, seen))
<1> DEFINE a == Len(text)
           b == Len(seen)
           w == Len(words)
           o == OverlapOf(words, seen)
           fresh == FreshOf(words, seen)
           t == text \o fresh
<1>1. a \in Nat /\ b \in Nat /\ w \in Nat /\ b <= a /\ \A i \in 1..b : seen[i] = text[a - b + i]
  BY LenProperties DEF Recalls, EndsWith
<1>2. o \in Nat /\ o <= w /\ o <= b /\ \A i \in 1..o : words[i] = seen[b - o + i]
  BY OverlapFacts DEF Repeats
<1>3. fresh \in Seq(Nat) /\ Len(fresh) = w - o /\ \A i \in 1..w - o : fresh[i] = words[o + i]
  BY FreshFacts
<1> HIDE DEF fresh
<1>4. Len(t) = a + Len(fresh) /\ (\A i \in 1..a : t[i] = text[i]) /\ \A i \in 1..Len(fresh) : t[a + i] = fresh[i]
  BY <1>3, ConcatFacts
<1> HIDE DEF a, b, w, o, t
<1>5. Len(t) = a + w - o /\ w <= Len(t)
  BY <1>1, <1>2, <1>3, <1>4
<1>6. ASSUME NEW i \in 1..w PROVE words[i] = t[a - o + i]
  <2>1. CASE i <= o
    <3> DEFINE j == b - o + i
    <3>1. i \in 1..o /\ j \in 1..b /\ a - b + j = a - o + i /\ a - o + i \in 1..a
      BY <1>1, <1>2, <2>1
    <3> HIDE DEF j
    <3>2. words[i] = seen[j]
      BY <1>2, <3>1 DEF j
    <3> QED BY <1>1, <1>4, <3>1, <3>2
  <2>2. CASE i > o
    <3> DEFINE j == i - o
    <3>1. j \in 1..w - o /\ o + j = i /\ a - o + i = a + j
      BY <1>1, <1>2, <2>2
    <3> HIDE DEF j
    <3> QED BY <1>3, <1>4, <3>1
  <2> QED BY <1>2, <2>1, <2>2
<1>7. \A i \in 1..w : Len(t) - w + i = a - o + i
  BY <1>1, <1>2, <1>5
<1> QED BY <1>5, <1>6, <1>7 DEF EndsWith, t, fresh, w

LEMMA EndsSuffix ==
    ASSUME NEW words, words \in Seq(Nat), NEW text, text \in Seq(Nat), EndsWith(words, text)
    PROVE  IsSuffix(words, text)
<1> DEFINE a == Len(text)
           w == Len(words)
           s == Reverse(words)
           t == Reverse(text)
<1>1. a \in Nat /\ w \in Nat /\ w <= a /\ \A i \in 1..w : words[i] = text[a - w + i]
  BY LenProperties DEF EndsWith
<1>2. /\ \A i \in 1..w : words[i] \in Nat
      /\ \A i \in 1..a : text[i] \in Nat
  BY LenProperties
<1>3. s = [i \in 1..w |-> words[w - i + 1]] /\ t = [i \in 1..a |-> text[a - i + 1]]
  BY DEF Reverse
<1> HIDE DEF a, w, s, t
<1>4. s \in [1..w -> Nat] /\ t \in [1..a -> Nat]
  <2>1. (\A i \in 1..w : w - i + 1 \in 1..w) /\ \A i \in 1..a : a - i + 1 \in 1..a
    BY <1>1
  <2> QED BY <1>2, <1>3, <2>1
<1>5. Len(s) = w /\ Len(t) = a
  BY <1>1, <1>4
<1>6. \A i \in 1..w : s[i] = t[i]
  <2> TAKE i \in 1..w
  <2> DEFINE j == w - i + 1
  <2>1. j \in 1..w /\ i \in 1..a /\ a - w + j = a - i + 1
    BY <1>1
  <2>2. s[i] = words[j]
    BY <1>3
  <2> HIDE DEF j
  <2> QED BY <1>1, <1>3, <2>1, <2>2
<1> DEFINE p == SubSeq(s, 1, w)
           q == SubSeq(t, 1, w)
<1>7. (\A i \in 1..w : s[i] \in Nat /\ t[i] \in Nat) /\ 1 \in Int /\ w \in Int /\ w - 1 + 1 = w
  <2>1. \A i \in 1..w : i \in 1..a
    BY <1>1
  <2>2. \A i \in 1..w : s[i] \in Nat /\ t[i] \in Nat
    BY ONLY <1>4, <2>1
  <2> QED BY <1>1, <2>2
<1>8. p \in Seq(Nat) /\ (Len(p) = IF 1 <= w THEN w - 1 + 1 ELSE 0) /\ \A i \in 1..w - 1 + 1 : p[i] = s[1 + i - 1]
  BY ONLY <1>7, SubSeqProperties
<1>9. q \in Seq(Nat) /\ (Len(q) = IF 1 <= w THEN w - 1 + 1 ELSE 0) /\ \A i \in 1..w - 1 + 1 : q[i] = t[1 + i - 1]
  BY ONLY <1>7, SubSeqProperties
<1> HIDE DEF p, q
<1>10. p = q
  <2>1. \A i \in 1..w : 1 + i - 1 = i
    BY <1>1
  <2>2. Len(p) = Len(q) /\ \A i \in 1..Len(p) : p[i] = q[i]
    BY <1>1, <1>6, <1>7, <1>8, <1>9, <2>1
  <2> QED BY ONLY <1>8, <1>9, <2>2, SeqEqual
<1> QED BY <1>1, <1>5, <1>10 DEF IsSuffix, IsPrefix, p, q, s, t

\* first, and every word up to last.
Through(first, last) == [i \in 1..last - first + 1 |-> first + i - 1]
OneAfterAnother(w) == \A i \in 1..Len(w) - 1 : w[i + 1] = w[i] + 1

LEMMA ThroughFacts ==
    ASSUME NEW first, first \in Nat, NEW last, last \in Int, first <= last + 1
    PROVE  /\ Through(first, last) \in Seq(Nat) /\ Len(Through(first, last)) = last - first + 1
           /\ \A i \in 1..last - first + 1 : Through(first, last)[i] = first + i - 1
<1> DEFINE n == last - first + 1
           s == [i \in 1..n |-> first + i - 1]
<1>1. n \in Nat /\ \A i \in 1..n : first + i - 1 \in Nat
  OBVIOUS
<1>2. s = Through(first, last)
  BY DEF Through
<1> HIDE DEF n
<1>3. s \in [1..n -> Nat]
  BY <1>1
<1>4. s \in Seq(Nat) /\ Len(s) = n /\ \A i \in 1..n : s[i] = first + i - 1
  BY <1>1, <1>3
<1> HIDE DEF s
<1> QED BY <1>2, <1>4 DEF n

LEMMA RunFacts ==
    ASSUME NEW w, w \in Seq(Nat), Len(w) \in Nat \ {0}, OneAfterAnother(w)
    PROVE  /\ \A i \in 1..Len(w) : w[i] = w[1] + i - 1
           /\ w[1] \in Nat /\ Last(w) = w[1] + Len(w) - 1
<1> DEFINE n == Len(w)
           bad == {i \in 1..n : w[i] # w[1] + i - 1}
<1>1. n \in Nat \ {0} /\ \A i \in 1..n : w[i] \in Nat
  BY LenProperties
<1>2. \A i \in 1..n - 1 : w[i + 1] = w[i] + 1
  BY DEF OneAfterAnother
<1>3. Last(w) = w[n]
  BY DEF Last
<1> HIDE DEF n
<1>4. n \in 1..n /\ w[1] \in Nat
  BY <1>1
<1>5. ASSUME bad # {} PROVE FALSE
  <2>1. bad \in SUBSET Nat
    BY <1>1
  <2>2. PICK i \in bad : \A j \in bad : i <= j
    <3> HIDE DEF bad
    <3> QED BY <1>5, <2>1, Least
  <2>3. i \in 1..n /\ w[i] # w[1] + i - 1
    BY <2>2
  <2>4. i # 1
    BY <1>4, <2>3
  <2> DEFINE k == i - 1
  <2>5. k \in 1..n /\ k \in 1..n - 1 /\ k + 1 = i /\ ~(i <= k) /\ k \in Nat
    BY <1>1, <2>3, <2>4
  <2> HIDE DEF k
  <2>6. w[k] = w[1] + k - 1
    BY <2>2, <2>5
  <2>7. w[i] = w[k] + 1
    BY <1>2, <2>5
  <2>8. w[i] = w[1] + i - 1
    <3> DEFINE a == w[1]
               p == w[k]
               q == w[i]
    <3>1. a \in Nat /\ p = a + k - 1 /\ q = p + 1 /\ i = k + 1 /\ k \in Nat
      BY <1>4, <2>5, <2>6, <2>7
    <3> HIDE DEF a, p, q
    <3>2. q = a + i - 1
      BY ONLY <3>1
    <3> QED BY ONLY <3>2 DEF a, q
  <2> QED BY <2>3, <2>8
<1>6. \A i \in 1..n : w[i] = w[1] + i - 1
  BY <1>5
<1> QED BY <1>3, <1>4, <1>6 DEF n

\* A cue that begins among the words that were read, or right after them, and ends no earlier
\* than they do, repeats exactly those of them it begins with.
GoesOn(first, last, text, seen, words) ==
    /\ first \in Nat /\ last \in Int /\ text \in Seq(Nat) /\ text = Through(first, last)
    /\ seen \in Seq(Nat) /\ Recalls(seen, text)
    /\ words \in Seq(Nat) /\ Len(words) \in 1..Memory /\ OneAfterAnother(words)
    /\ first <= words[1] /\ words[1] <= last + 1 /\ last <= Last(words)

LEMMA OverlapExact ==
    ASSUME NEW first, NEW last, NEW text, NEW seen, NEW words, GoesOn(first, last, text, seen, words)
    PROVE  OverlapOf(words, seen) = last + 1 - words[1]
<1> USE DEF GoesOn
<1> DEFINE x == words[1]
           z == Len(words)
           A == Len(text)
           b == Len(seen)
           o == OverlapOf(words, seen)
           m == last + 1 - x
<1>0. Memory \in Nat
  BY MediaAssumption
<1>1. x \in Nat /\ z \in 1..Memory /\ Last(words) = x + z - 1 /\ \A i \in 1..z : words[i] = x + i - 1
  BY RunFacts
<1>2. first <= x /\ x <= last + 1 /\ last <= x + z - 1 /\ first <= last + 1
  BY <1>1
<1>3. A = last - first + 1 /\ \A i \in 1..A : text[i] = first + i - 1
  BY <1>2, ThroughFacts
<1>4. A \in Nat /\ b \in Nat /\ b = Lesser(Memory, A) /\ \A i \in 1..b : seen[i] = text[A - b + i]
  BY LenProperties DEF Recalls, EndsWith
<1>5. /\ o \in Nat /\ o <= z /\ o <= b /\ Repeats(words, seen, o)
      /\ \A k \in Nat : k <= z /\ k <= b /\ Repeats(words, seen, k) => k <= o
  BY OverlapFacts
<1>6. \A k \in 1..z : Repeats(words, seen, k) <=> \A i \in 1..k : words[i] = seen[b - k + i]
  BY DEF Repeats
<1>7. Repeats(words, seen, 0)
  BY DEF Repeats
<1>8. words[1] = x
  OBVIOUS
<1> HIDE DEF x, z, A, b, o
<1>9. b <= A
  BY <1>0, <1>4 DEF Lesser
<1>10. \A k \in 1..b : \A i \in 1..k : seen[b - k + i] = first + A - k + i - 1
  <2> TAKE k \in 1..b
  <2> TAKE i \in 1..k
  <2> DEFINE j == b - k + i
  <2>0. A \in Nat /\ b \in Nat /\ b <= A
    BY <1>4, <1>9
  <2>1. j \in 1..b /\ A - b + j = A - k + i /\ A - k + i \in 1..A
    BY ONLY <2>0, k \in 1..b, i \in 1..k
  <2> HIDE DEF j
  <2>2. seen[j] = text[A - k + i]
    BY <1>4, <2>1
  <2>3. text[A - k + i] = first + (A - k + i) - 1
    BY <1>3, <2>1
  <2>4. first + (A - k + i) - 1 = first + A - k + i - 1
    BY <1>4
  <2> QED BY <2>2, <2>3, <2>4 DEF j
<1>11. m \in Nat /\ m <= z /\ m <= b
  BY <1>0, <1>1, <1>2, <1>3, <1>4 DEF Lesser
<1>12. Repeats(words, seen, m)
  <2>1. CASE m = 0
    BY <1>7, <2>1
  <2>2. CASE m # 0
    <3>1. m \in 1..z /\ m \in 1..b /\ \A i \in 1..m : i \in 1..z
      BY <1>1, <1>4, <1>11, <2>2
    <3>2. \A i \in 1..m : x + i - 1 = first + A - m + i - 1
      BY <1>1, <1>2, <1>3
    <3> HIDE DEF m
    <3>3. \A i \in 1..m : words[i] = x + i - 1
      BY <1>1, <3>1
    <3> QED BY <1>6, <1>10, <3>1, <3>2, <3>3
  <2> QED BY <2>1, <2>2
<1>13. m <= o
  <2> HIDE DEF m
  <2> QED BY <1>5, <1>11, <1>12
<1>14. CASE o = 0
  <2>1. m = 0
    <3> HIDE DEF m
    <3> QED BY <1>11, <1>13, <1>14
  <2> QED BY <1>14, <2>1 DEF o, x
<1>15. CASE o # 0
  <2>1. o \in 1..z /\ o \in 1..b /\ 1 \in 1..o
    BY <1>1, <1>4, <1>5, <1>15
  <2>2. x = seen[b - o + 1]
    BY <1>5, <1>6, <1>8, <2>1
  <2>3. seen[b - o + 1] = first + A - o + 1 - 1
    BY <1>10, <2>1
  <2>4. x = first + A - o + 1 - 1
    BY ONLY <2>2, <2>3
  <2>5. o = m
    BY <1>1, <1>3, <1>5, <2>4
  <2> QED BY <2>5 DEF o, x
<1> QED BY <1>14, <1>15

LEMMA ThroughNext ==
    ASSUME NEW first, NEW last, NEW text, NEW seen, NEW words, GoesOn(first, last, text, seen, words)
    PROVE  text \o FreshOf(words, seen) = Through(first, Last(words))
<1> DEFINE x == words[1]
           z == Len(words)
           A == Len(text)
           o == OverlapOf(words, seen)
           fresh == FreshOf(words, seen)
           end == Last(words)
           t == text \o fresh
           r == Through(first, end)
<1>0. /\ first \in Nat /\ last \in Int /\ text \in Seq(Nat) /\ text = Through(first, last)
      /\ seen \in Seq(Nat) /\ words \in Seq(Nat) /\ z \in 1..Memory /\ OneAfterAnother(words)
      /\ first <= x /\ x <= last + 1 /\ last <= end
  BY DEF GoesOn
<1>1. x \in Nat /\ z \in 1..Memory /\ end = x + z - 1 /\ \A i \in 1..z : words[i] = x + i - 1
  BY <1>0, RunFacts
<1>2. first \in Nat /\ last \in Int /\ first <= x /\ x <= last + 1 /\ last <= end /\ first <= last + 1
  BY <1>0, <1>1
<1>3. A = last - first + 1 /\ A \in Nat /\ \A i \in 1..A : text[i] = first + i - 1
  <2>1. A = last - first + 1 /\ \A i \in 1..last - first + 1 : text[i] = first + i - 1
    BY <1>0, <1>2, ThroughFacts
  <2>2. A \in Nat
    BY <1>2, <2>1
  <2> QED BY <2>1, <2>2
<1>4. o = last + 1 - x
  BY OverlapExact
<1>5. fresh \in Seq(Nat) /\ Len(fresh) = z - o /\ \A i \in 1..z - o : fresh[i] = words[o + i]
  BY <1>0, FreshFacts
<1> HIDE DEF fresh
<1>6. text \in Seq(Nat) /\ fresh \in Seq(Nat)
  BY <1>0, <1>5
<1>7. t \in Seq(Nat) /\ Len(t) = A + Len(fresh) /\ (\A i \in 1..A : t[i] = text[i])
      /\ \A i \in 1..Len(fresh) : t[A + i] = fresh[i]
  BY ONLY <1>6, ConcatFacts
<1> HIDE DEF x, z, A, o, end
<1>8. end \in Int /\ first <= end + 1
  BY <1>1, <1>2
<1>9. r \in Seq(Nat) /\ Len(r) = end - first + 1 /\ \A i \in 1..end - first + 1 : r[i] = first + i - 1
  BY <1>2, <1>8, ThroughFacts
<1> HIDE DEF t, r
<1>10. A + (z - o) = end - first + 1 /\ o \in Nat /\ o <= z
  BY <1>1, <1>2, <1>3, <1>4
<1>11. ASSUME NEW i \in 1..end - first + 1 PROVE t[i] = first + i - 1
  <2>1. CASE i <= A
    <3>1. i \in 1..A
      BY <1>3, <2>1
    <3> QED BY <1>3, <1>7, <3>1
  <2>2. CASE i > A
    <3> DEFINE j == i - A
    <3>0. /\ first \in Nat /\ last \in Int /\ end \in Int /\ x \in Nat /\ z \in Nat /\ A \in Nat /\ o \in Nat
          /\ A = last - first + 1 /\ o = last + 1 - x /\ A + (z - o) = end - first + 1 /\ o <= z
      BY <1>1, <1>2, <1>3, <1>4, <1>8, <1>10
    <3>1. j \in 1..z - o /\ A + j = i /\ o + j \in 1..z /\ x + (o + j) - 1 = first + i - 1
      BY ONLY <2>2, <3>0, i \in 1..end - first + 1
    <3> HIDE DEF j
    <3>2. t[A + j] = fresh[j]
      BY <1>5, <1>7, <3>1
    <3>3. fresh[j] = words[o + j] /\ words[o + j] = x + (o + j) - 1
      BY <1>1, <1>5, <3>1
    <3> QED BY ONLY <3>1, <3>2, <3>3
  <2> QED BY <1>3, <2>1, <2>2
<1>12. Len(t) = Len(r) /\ \A i \in 1..Len(t) : t[i] = r[i]
  BY <1>5, <1>7, <1>9, <1>10, <1>11
<1>13. t = r
  BY ONLY <1>7, <1>9, <1>12, SeqEqual
<1> QED BY <1>13 DEF t, r, fresh, end

TextOf(out) == FlattenSeq([i \in DOMAIN out |-> out[i].words])
Hearing == [out : Seq(Cue), seen : Seq(Nat)]
ASpoken(cue) == cue.ts \in Nat /\ cue.words \in Seq(Nat) /\ Len(cue.words) \in 1..Memory

LEMMA TextNext ==
    ASSUME NEW out, out \in Seq(Cue), NEW e, e \in Cue
    PROVE  TextOf(out) \in Seq(Nat) /\ TextOf(Append(out, e)) = TextOf(out) \o e.words
<1> DEFINE n == Len(out)
           more == Append(out, e)
           s == [i \in DOMAIN out |-> out[i].words]
           t == [i \in DOMAIN more |-> more[i].words]
           w == e.words
           r == Append(s, w)
<1>1. n \in Nat /\ DOMAIN out = 1..n /\ DOMAIN more = 1..n + 1 /\ more[n + 1] = e /\ \A i \in 1..n : more[i] = out[i]
  BY AppendFacts
<1>2. w \in Seq(Nat) /\ \A i \in 1..n : out[i].words \in Seq(Nat)
  <2>1. \A i \in 1..n : out[i] \in Cue
    BY LenProperties
  <2> QED BY <2>1 DEF Cue
<1>3. s = [i \in 1..n |-> out[i].words] /\ t = [i \in 1..n + 1 |-> more[i].words] /\ w = e.words
  BY <1>1
<1> HIDE DEF n, more, w
<1>4. s \in [1..n -> Seq(Nat)] /\ \A i \in 1..n : s[i] = out[i].words
  BY <1>2, <1>3
<1>5. \A i \in 1..n + 1 : t[i] = more[i].words
  BY <1>3
<1> HIDE DEF s
<1>6. s \in Seq(Seq(Nat)) /\ Len(s) = n
  BY <1>1, <1>4
<1>7. r \in Seq(Seq(Nat)) /\ Len(r) = n + 1 /\ (\A i \in 1..n : r[i] = s[i]) /\ r[n + 1] = w
  <2>1. /\ r \in Seq(Seq(Nat)) /\ Len(r) = Len(s) + 1 /\ (\A i \in 1..Len(s) : r[i] = s[i])
        /\ r[Len(s) + 1] = w
    BY <1>2, <1>6, AppendFacts
  <2> QED BY <1>6, <2>1
<1> HIDE DEF r, t
<1>8. t \in Seq(Seq(Nat)) /\ Len(t) = n + 1
  <2>1. \A i \in 1..n + 1 : more[i].words \in Seq(Nat)
    <3> TAKE i \in 1..n + 1
    <3>1. i \in 1..n \/ i = n + 1
      BY <1>1
    <3> QED BY <1>1, <1>2, <1>3, <3>1
  <2>2. t \in [1..n + 1 -> Seq(Nat)] /\ n + 1 \in Nat
    BY <1>1, <1>3, <2>1
  <2> QED BY <2>2
<1>9. \A i \in 1..n + 1 : t[i] = r[i]
  <2> TAKE i \in 1..n + 1
  <2>1. i \in 1..n \/ i = n + 1
    BY <1>1
  <2>2. CASE i \in 1..n
    <3>1. t[i] = more[i].words /\ more[i] = out[i] /\ s[i] = out[i].words /\ r[i] = s[i]
      BY <1>1, <1>4, <1>5, <1>7, <2>2
    <3> QED BY ONLY <3>1
  <2>3. CASE i = n + 1
    <3>1. t[n + 1] = more[n + 1].words /\ more[n + 1] = e /\ w = e.words /\ r[n + 1] = w
      BY <1>1, <1>3, <1>5, <1>7, <2>3
    <3> QED BY ONLY <2>3, <3>1
  <2> QED BY <2>1, <2>2, <2>3
<1>10. t = r
  <2>1. Len(t) = Len(r) /\ \A i \in 1..Len(t) : t[i] = r[i]
    BY <1>7, <1>8, <1>9
  <2> QED BY ONLY <1>7, <1>8, <2>1, SeqEqual
<1>11. FlattenSeq(r) = FlattenSeq(s) \o w
  <2>1. w \in Seq(Nat) /\ s \in Seq(Seq(Nat))
    BY <1>2, <1>6
  <2> QED BY ONLY <2>1, FlattenNext DEF r
<1>12. FlattenSeq(s) \in Seq(Nat)
  BY ONLY <1>6, FlattenType
<1>13. FlattenSeq(t) = FlattenSeq(s) \o w
  BY <1>10, <1>11
<1> QED BY <1>12, <1>13 DEF TextOf, s, t, w, more

LEMMA HearingFacts ==
    ASSUME NEW x, x \in Hearing, NEW cue, ASpoken(cue)
    PROVE  /\ ReadCue(x, cue) \in Hearing
           /\ TextOf(x.out) \in Seq(Nat) /\ x.seen \in Seq(Nat)
           /\ TextOf(ReadCue(x, cue).out) = TextOf(x.out) \o FreshOf(cue.words, x.seen)
           /\ ReadCue(x, cue).seen = IF FreshOf(cue.words, x.seen) = <<>> THEN x.seen
                                     ELSE RecentOf(x.seen \o FreshOf(cue.words, x.seen))
           /\ Recalls(x.seen, TextOf(x.out)) =>
                 Recalls(ReadCue(x, cue).seen, TextOf(ReadCue(x, cue).out))
<1> DEFINE out == x.out
           seen == x.seen
           words == cue.words
           fresh == FreshOf(words, seen)
           e == [ts |-> cue.ts, words |-> fresh]
           more == Append(out, e)
           recent == RecentOf(seen \o fresh)
           r == ReadCue(x, cue)
           text == TextOf(out)
           now == IF fresh = <<>> THEN seen ELSE recent
<1>1. out \in Seq(Cue) /\ seen \in Seq(Nat) /\ words \in Seq(Nat) /\ cue.ts \in Nat
  BY DEF Hearing, ASpoken
<1>2. r = IF fresh = <<>> THEN x ELSE [out |-> more, seen |-> recent]
  BY DEF ReadCue
<1> HIDE DEF seen, words, out, r
<1>3. fresh \in Seq(Nat)
  BY <1>1, FreshFacts
<1> HIDE DEF fresh
<1>4. e \in Cue /\ e.words = fresh
  BY <1>1, <1>3 DEF Cue
<1> HIDE DEF e
<1>5. text \in Seq(Nat) /\ TextOf(more) = text \o e.words
  <2>1. out \in Seq(Cue) /\ e \in Cue
    BY <1>1, <1>4
  <2> QED BY ONLY <2>1, TextNext
<1>6. more \in Seq(Cue)
  BY <1>1, <1>4, AppendFacts
<1> HIDE DEF text, more
<1>7. Recalls(seen, text) => recent \in Seq(Nat) /\ Recalls(recent, text \o fresh)
  BY <1>1, <1>3, <1>5, RecallsNext
<1>8. recent \in Seq(Nat)
  <2> DEFINE s == seen \o fresh
             from == Greater(1, Len(s) - Memory + 1)
             b == Len(s)
  <2>1. s \in Seq(Nat)
    BY <1>1, <1>3, ConcatFacts
  <2>2. Memory \in Nat
    BY MediaAssumption
  <2>3. recent = SubSeq(s, from, b)
    BY DEF RecentOf
  <2> HIDE DEF s
  <2>4. b \in Nat /\ \A i \in 1..b : s[i] \in Nat
    BY <2>1, LenProperties
  <2>5. from \in Int /\ from >= 1
    BY <2>2, <2>4 DEF Greater
  <2> HIDE DEF b, from
  <2>6. b \in Int /\ \A i \in from..b : s[i] \in Nat
    BY <2>4, <2>5
  <2>7. SubSeq(s, from, b) \in Seq(Nat)
    BY ONLY <2>5, <2>6, SubSeqProperties
  <2> QED BY <2>3, <2>7
<1> HIDE DEF recent
<1>9. CASE fresh = <<>>
  <2>1. r = x
    BY <1>2, <1>9
  <2>2. text \o fresh = text
    BY <1>5, <1>9, ConcatEmptySeq
  <2>3. r.out = out /\ r.seen = seen /\ r \in Hearing
    BY <2>1 DEF out, seen
  <2>4. TextOf(r.out) = text \o fresh
    BY <2>2, <2>3 DEF text
  <2>5. Recalls(seen, text) => Recalls(r.seen, TextOf(r.out))
    BY <2>2, <2>3, <2>4
  <2>6. r.seen = now
    BY <1>9, <2>3
  <2> QED BY <1>1, <1>5, <2>3, <2>4, <2>5, <2>6 DEF r, text, out, seen, fresh, words, recent
<1>10. CASE fresh # <<>>
  <2>1. r = [out |-> more, seen |-> recent]
    BY <1>2, <1>10
  <2>2. r.out = more /\ r.seen = recent
    BY <2>1
  <2>3. r \in Hearing
    BY <1>6, <1>8, <2>1 DEF Hearing
  <2>4. TextOf(r.out) = text \o fresh
    BY <1>4, <1>5, <2>2
  <2>5. Recalls(seen, text) => Recalls(r.seen, TextOf(r.out))
    BY <1>7, <2>2, <2>4
  <2>6. r.seen = now
    BY <1>10, <2>2
  <2> QED BY <1>1, <1>5, <2>3, <2>4, <2>5, <2>6 DEF r, text, out, seen, fresh, words, recent
<1> QED BY <1>9, <1>10

\* Captions that run on: every cue begins among the words shown so far or right after them,
\* and ends no earlier than the one before it.
RunsOn(cs, n) ==
    /\ \A i \in 1..n : OneAfterAnother(cs[i].words)
    /\ \A i \in 1..n - 1 :
          /\ cs[i + 1].words[1] \in cs[1].words[1]..Last(cs[i].words) + 1
          /\ Last(cs[i].words) <= Last(cs[i + 1].words)

\* What was heard after n cues.
Deduped(x, cs, n) ==
    /\ Recalls(x.seen, TextOf(x.out))
    /\ n = 0 => TextOf(x.out) = <<>>
    /\ n > 0 => EndsWith(cs[n].words, TextOf(x.out))
    /\ n > 0 /\ RunsOn(cs, n) => TextOf(x.out) = Through(cs[1].words[1], Last(cs[n].words))

LEMMA DedupedNext ==
    ASSUME NEW n, n \in Nat, NEW cs, \A i \in 1..n + 1 : ASpoken(cs[i]),
           NEW x, x \in Hearing, Deduped(x, cs, n)
    PROVE  Deduped(ReadCue(x, cs[n + 1]), cs, n + 1)
<1> DEFINE k == n + 1
           cue == cs[k]
           words == cue.words
           first == cs[1].words[1]
           r == ReadCue(x, cue)
           text == TextOf(x.out)
           more == TextOf(r.out)
           fresh == FreshOf(words, x.seen)
           end == IF n = 0 THEN first - 1 ELSE Last(cs[n].words)
<1>1. k \in Nat /\ k \in 1..k /\ 1 \in 1..k /\ k > 0 /\ k # 0 /\ k - 1 = n
  OBVIOUS
<1>2. ASpoken(cue) /\ ASpoken(cs[1])
  BY <1>1
<1>3. /\ r \in Hearing /\ text \in Seq(Nat) /\ x.seen \in Seq(Nat)
      /\ more = text \o fresh
      /\ Recalls(x.seen, text) => Recalls(r.seen, more)
  BY <1>2, HearingFacts
<1>4. words \in Seq(Nat) /\ Len(words) \in 1..Memory /\ first \in Nat
  <2> DEFINE w == cs[1].words
  <2>1. w \in Seq(Nat) /\ Len(w) \in 1..Memory
    BY <1>2 DEF ASpoken
  <2>2. 1 \in 1..Len(w)
    <3> DEFINE z == Len(w)
    <3>1. z \in 1..Memory /\ Memory \in Nat
      BY <2>1, MediaAssumption
    <3> HIDE DEF z
    <3>2. 1 \in 1..z
      BY ONLY <3>1
    <3> QED BY <3>2 DEF z
  <2> HIDE DEF w
  <2>3. w[1] \in Nat
    BY <2>1, <2>2, LenProperties
  <2> QED BY <1>2, <2>3 DEF ASpoken, w
<1>5. /\ Recalls(x.seen, text)
      /\ n = 0 => text = <<>>
      /\ n > 0 /\ RunsOn(cs, n) => text = Through(first, Last(cs[n].words))
  BY DEF Deduped
<1> HIDE DEF r, text, more, fresh, first, words, cue
<1>6. EndsWith(words, more)
  BY <1>3, <1>4, <1>5, FreshEnds DEF fresh
<1>7. ASSUME RunsOn(cs, k) PROVE more = Through(first, Last(words))
  <2>1. OneAfterAnother(words)
    BY <1>1, <1>7 DEF RunsOn, words, cue
  <2>2. n > 0 => RunsOn(cs, n)
    <3>1. \A i \in 1..n : i \in 1..k
      OBVIOUS
    <3>2. \A i \in 1..n - 1 : i \in 1..k - 1
      OBVIOUS
    <3> HIDE DEF k
    <3> QED BY <1>7, <3>1, <3>2 DEF RunsOn
  <2>3. /\ end \in Int /\ text = Through(first, end)
        /\ first <= words[1] /\ words[1] <= end + 1 /\ end <= Last(words)
    <3>0. words[1] \in Nat /\ Last(words) \in Nat /\ words[1] <= Last(words)
      <4>1. words[1] \in Nat /\ Last(words) = words[1] + Len(words) - 1
        BY <1>4, <2>1, RunFacts
      <4> QED BY <1>4, <4>1
    <3>1. CASE n = 0
      <4>1. end = first - 1 /\ words[1] = first
        BY <3>1 DEF first, words, cue
      <4>2. Through(first, first - 1) = <<>>
        <5> DEFINE e == first - 1
                   s == Through(first, e)
        <5>1. e \in Int /\ first <= e + 1 /\ e - first + 1 = 0
          BY <1>4
        <5> HIDE DEF e
        <5>2. s \in Seq(Nat) /\ Len(s) = e - first + 1
          BY <1>4, <5>1, ThroughFacts
        <5> HIDE DEF s
        <5>3. s = <<>>
          BY <5>1, <5>2, EmptySeq
        <5> QED BY <5>3 DEF s, e
      <4> HIDE DEF end
      <4> QED BY <1>4, <1>5, <3>0, <3>1, <4>1, <4>2
    <3>2. CASE n # 0
      <4>1. n > 0 /\ n \in 1..k - 1 /\ n \in 1..k
        BY <3>2
      <4> DEFINE w == cs[n].words
      <4>2. words[1] \in first..Last(w) + 1 /\ Last(w) <= Last(words)
        BY <1>7, <4>1 DEF RunsOn, words, cue, first
      <4>3. w \in Seq(Nat) /\ Len(w) \in 1..Memory /\ OneAfterAnother(w)
        BY <1>7, <4>1 DEF RunsOn, ASpoken
      <4>4. end = Last(w)
        BY <3>2
      <4> HIDE DEF w, end
      <4>5. Last(w) \in Int
        <5>1. w[1] \in Nat /\ Last(w) = w[1] + Len(w) - 1
          BY <4>3, RunFacts
        <5> QED BY <4>3, <5>1
      <4>6. text = Through(first, Last(w))
        BY <1>5, <2>2, <4>1 DEF w
      <4>7. first <= words[1] /\ words[1] <= Last(w) + 1
        BY <1>4, <4>2, <4>5
      <4> QED BY <4>2, <4>4, <4>5, <4>6, <4>7
    <3> QED BY <3>1, <3>2
  <2> HIDE DEF end
  <2>4. GoesOn(first, end, text, x.seen, words)
    BY <1>3, <1>4, <1>5, <2>1, <2>3 DEF GoesOn
  <2>5. text \o FreshOf(words, x.seen) = Through(first, Last(words))
    BY ONLY <2>4, ThroughNext
  <2> QED BY <1>3, <2>5 DEF fresh
<1>8. Recalls(r.seen, more)
  BY <1>3, <1>5
<1>9. Deduped(r, cs, k)
  <2>1. /\ Recalls(r.seen, TextOf(r.out))
        /\ k > 0 => EndsWith(cs[k].words, TextOf(r.out))
        /\ k > 0 /\ RunsOn(cs, k) => TextOf(r.out) = Through(cs[1].words[1], Last(cs[k].words))
    BY <1>6, <1>7, <1>8 DEF more, words, cue, first
  <2> HIDE DEF k
  <2> QED BY <1>1, <2>1 DEF Deduped
<1> QED BY <1>9 DEF r, cue

\* Rolling captions (dedupe): of any, none of more words than are remembered, what is kept ends
\* with the last of them, and where they run on it is every word from first to last, once.
LEMMA DedupeFacts ==
    ASSUME NEW L \in Nat, NEW cs, Len(cs) = L, \A i \in 1..L : ASpoken(cs[i])
    PROVE  L > 0 =>
               /\ EndsWith(cs[L].words, TextOf(Dedupe(cs))) /\ TextOf(Dedupe(cs)) \in Seq(Nat)
               /\ RunsOn(cs, L) => TextOf(Dedupe(cs)) = Through(cs[1].words[1], Last(cs[L].words))
<1> DEFINE none == [out |-> <<>>, seen |-> <<>>]
           StepOf(f, n) == IF n = 0 THEN none ELSE ReadCue(f[n - 1], cs[n])
           upto == CHOOSE f : f = [n \in 0..L |-> StepOf(f, n)]
           F == [n \in 1..L |-> [x \in Hearing |-> ReadCue(x, cs[n])]]
           G == [n \in 0..L |-> {x \in Hearing : Deduped(x, cs, n)}]
           all == upto[L]
<1>2. none \in Hearing
  BY EmptySeq DEF Hearing
<1>3. none \in G[0]
  <2> DEFINE o == <<>>
  <2>1. TextOf(o) = o
    <3>1. [i \in DOMAIN o |-> o[i].words] = o
      OBVIOUS
    <3> QED BY <3>1, FlattenNone DEF TextOf
  <2>2. Recalls(o, o)
    <3>1. Len(o) = 0 /\ Memory \in Nat
      BY MediaAssumption
    <3> HIDE DEF o
    <3> QED BY <3>1 DEF Recalls, EndsWith, Lesser
  <2>3. none.out = o /\ none.seen = o
    OBVIOUS
  <2> HIDE DEF o, none
  <2>4. Deduped(none, cs, 0)
    BY <2>1, <2>2, <2>3 DEF Deduped, o
  <2> QED BY <1>2, <2>4
<1>4. F \in [1..L -> [Hearing -> Hearing]]
  BY HearingFacts
<1>5. \A n \in 1..L : \A x : x \in G[n - 1] => ReadCue(x, cs[n]) \in G[n]
  <2> SUFFICES ASSUME NEW n \in 1..L, NEW x, x \in G[n - 1] PROVE ReadCue(x, cs[n]) \in G[n]
    OBVIOUS
  <2> DEFINE m == n - 1
  <2>1. m \in Nat /\ m \in 0..L /\ n \in 0..L /\ m + 1 = n
    OBVIOUS
  <2>2. x \in Hearing /\ Deduped(x, cs, m)
    BY <2>1
  <2>3. ASpoken(cs[m + 1]) /\ \A i \in 1..m + 1 : ASpoken(cs[i])
    BY <2>1
  <2> HIDE DEF m
  <2>4. Deduped(ReadCue(x, cs[m + 1]), cs, m + 1)
    BY ONLY <2>1, <2>2, <2>3, DedupedNext
  <2>5. ReadCue(x, cs[m + 1]) \in Hearing
    BY ONLY <2>2, <2>3, HearingFacts
  <2> QED BY <2>1, <2>4, <2>5
<1> HIDE DEF none
<1>6. PICK f \in [0..L -> Hearing] : Unrolls(f, L, none, F)
  <2> HIDE DEF F, G
  <2> QED BY ONLY L \in Nat, <1>2, <1>4, Unrolled
<1>7. \A n \in 0..L : f[n] = StepOf(f, n)
  <2> TAKE n \in 0..L
  <2>1. CASE n # 0
    <3>1. n \in 1..L /\ f[n - 1] \in Hearing
      BY <2>1
    <3> QED BY <1>6, <2>1, <3>1 DEF Unrolls
  <2> QED BY <1>6, <2>1 DEF Unrolls
<1> HIDE DEF F
<1>8. f = [n \in 0..L |-> StepOf(f, n)]
  <2> HIDE DEF StepOf
  <2> QED BY <1>7
<1>9. upto = [n \in 0..L |-> StepOf(upto, n)]
  <2> HIDE DEF StepOf
  <2> QED BY <1>8
<1>10. Dedupe(cs) = all.out
  BY DEF Dedupe, ReadCue, FreshOf, OverlapOf, RecentOf, none
<1> HIDE DEF upto
<1>11. upto[0] = none /\ \A n \in 1..L : upto[n] = ReadCue(upto[n - 1], cs[n])
  <2>1. 0 \in 0..L /\ \A n \in 1..L : n \in 0..L /\ n # 0
    OBVIOUS
  <2>2. \A n \in 0..L : upto[n] = StepOf(upto, n)
    <3> HIDE DEF StepOf
    <3> QED BY <1>9
  <2> QED BY <2>1, <2>2
<1>12. \A n \in 0..L : upto[n] \in G[n]
  <2>1. upto[0] \in G[0] /\ \A n \in 1..L : upto[n - 1] \in G[n - 1] => upto[n] \in G[n]
    <3> HIDE DEF G
    <3> QED BY <1>3, <1>5, <1>11
  <2> HIDE DEF G
  <2> QED BY ONLY L \in Nat, <2>1, Inductively
<1>13. Deduped(all, cs, L) /\ all \in Hearing
  BY <1>12
<1> HIDE DEF all, G
<1>14. TextOf(all.out) \in Seq(Nat) \/ L = 0
  <2>1. L # 0 => ASpoken(cs[L])
    OBVIOUS
  <2> QED BY <1>13, <2>1, HearingFacts
<1> QED BY <1>10, <1>13, <1>14 DEF Deduped

LEMMA WordWordFacts == \A w \in WordWords : w \in Seq(Nat) /\ Len(w) \in 1..3
<1> TAKE w \in WordWords
<1>1. CASE w \in UNION {[1..n -> 1..2] : n \in 1..2}
  <2>1. PICK n \in 1..2 : w \in [1..n -> 1..2]
    BY <1>1
  <2>2. w \in [1..n -> Nat] /\ n \in Nat /\ n \in 1..3
    BY <2>1
  <2>3. w \in Seq(Nat) /\ Len(w) = n
    BY <2>2
  <2> QED BY <2>2, <2>3
<1>2. \A a, b \in Nat : <<a, b>> \in Seq(Nat) /\ Len(<<a, b>>) = 2
  OBVIOUS
<1>3. \A a, b, c \in Nat : <<a, b, c>> \in Seq(Nat) /\ Len(<<a, b, c>>) = 3
  OBVIOUS
<1>4. CASE w \in {<<1, 2, 3>>, <<2, 3>>, <<3, 4>>, <<2, 3, 4>>}
  <2>1. 1 \in Nat /\ 2 \in Nat /\ 3 \in Nat /\ 4 \in Nat /\ 2 \in 1..3 /\ 3 \in 1..3
    OBVIOUS
  <2>2. w = <<1, 2, 3>> \/ w = <<2, 3>> \/ w = <<3, 4>> \/ w = <<2, 3, 4>>
    BY <1>4
  <2>3. \A a, b \in Nat : w = <<a, b>> => w \in Seq(Nat) /\ Len(w) \in 1..3
    BY <1>2, <2>1
  <2>4. \A a, b, c \in Nat : w = <<a, b, c>> => w \in Seq(Nat) /\ Len(w) \in 1..3
    BY <1>3, <2>1
  <2> QED BY <2>1, <2>2, <2>3, <2>4
<1> QED BY <1>1, <1>4 DEF WordWords

\* What is kept of captions ends with every cue in turn, and holds every word once where they
\* run on.
LEMMA EdgeDedupes == EdgeIInv /\ Answered("dedupe") =>
    \A n \in DOMAIN call.cues :
        LET read == Dedupe(SubSeq(call.cues, 1, n))
            text == FlattenSeq([i \in DOMAIN read |-> read[i].words])
            Shown(w) == \A i \in 1..Len(w) - 1 : w[i + 1] = w[i] + 1
            first == call.cues[1].words[1]
        IN  /\ IsSuffix(call.cues[n].words, text)
            /\ /\ \A i \in 1..n : Shown(call.cues[i].words)
               /\ \A i \in 1..n - 1 :
                     /\ call.cues[i + 1].words[1] \in first..Last(call.cues[i].words) + 1
                     /\ Last(call.cues[i].words) <= Last(call.cues[i + 1].words)
               => text = [i \in 1..Last(call.cues[n].words) - first + 1 |-> first + i - 1]
<1> SUFFICES ASSUME EdgeIInv, Answered("dedupe"), NEW n \in DOMAIN call.cues
             PROVE  /\ IsSuffix(call.cues[n].words, TextOf(Dedupe(SubSeq(call.cues, 1, n))))
                    /\ RunsOn(call.cues, n) => TextOf(Dedupe(SubSeq(call.cues, 1, n))) =
                           Through(call.cues[1].words[1], Last(call.cues[n].words))
  BY DEF RunsOn, TextOf, Through, OneAfterAnother
<1> DEFINE all == call.cues
           cs == SubSeq(all, 1, n)
           text == TextOf(Dedupe(cs))
<1>1. call \in WordCalls /\ call.op = "dedupe"
  BY EdgeCallFacts DEF EdgeIInv, Answered
<1>2. PICK w \in UNION {[1..k -> WordWords] : k \in 1..3} :
          all = [i \in DOMAIN w |-> [ts |-> i, words |-> w[i]]]
  BY <1>1, WordCallFacts
<1> HIDE DEF all
<1>3. PICK k \in 1..3 : w \in [1..k -> WordWords]
  BY <1>2
<1>4. all = [i \in 1..k |-> [ts |-> i, words |-> w[i]]] /\ n \in 1..k
  BY <1>2, <1>3 DEF all
<1>5. \A i \in 1..k : all[i] = [ts |-> i, words |-> w[i]] /\ w[i] \in Seq(Nat) /\ Len(w[i]) \in 1..3
  BY <1>3, <1>4, WordWordFacts
<1>6. \A i \in 1..k : ASpoken(all[i])
  <2> TAKE i \in 1..k
  <2> DEFINE v == w[i]
             e == all[i]
  <2>1. e = [ts |-> i, words |-> v] /\ v \in Seq(Nat) /\ Len(v) \in 1..3 /\ i \in Nat
    BY <1>5
  <2> HIDE DEF v, e
  <2>2. Memory \in Nat /\ Memory >= 3
    BY MediaAssumption
  <2> DEFINE z == Len(v)
  <2>3. z \in 1..3
    BY <2>1
  <2> HIDE DEF z
  <2>4. z \in 1..Memory
    BY ONLY <2>2, <2>3
  <2>5. ASpoken(e)
    BY <2>1, <2>4 DEF ASpoken, z
  <2> QED BY <2>5 DEF e
<1>7. n \in Nat /\ n > 0 /\ n \in 1..n /\ 1 \in 1..n /\ 1 \in Int /\ n \in Int /\ \A i \in 1..n : i \in 1..k
  BY <1>4
<1>8. Len(cs) = n /\ \A i \in 1..n : cs[i] = all[i]
  <2> DEFINE S == {all[i] : i \in 1..k}
  <2>1. \A i \in 1..n : all[i] \in S
    BY <1>7
  <2> HIDE DEF S, cs
  <2>2. (Len(cs) = IF 1 <= n THEN n - 1 + 1 ELSE 0) /\ \A i \in 1..n - 1 + 1 : cs[i] = all[1 + i - 1]
    BY ONLY <1>7, <2>1, SubSeqProperties DEF cs
  <2>3. n - 1 + 1 = n /\ \A i \in 1..n : 1 + i - 1 = i
    BY <1>7
  <2> QED BY <1>7, <2>2, <2>3
<1> HIDE DEF cs
<1>9. \A i \in 1..n : ASpoken(cs[i])
  BY <1>6, <1>7, <1>8
<1>10. /\ EndsWith(cs[n].words, text) /\ text \in Seq(Nat)
       /\ RunsOn(cs, n) => text = Through(cs[1].words[1], Last(cs[n].words))
  BY <1>7, <1>8, <1>9, DedupeFacts
<1> HIDE DEF text
<1>11. cs[n] = all[n] /\ cs[1] = all[1] /\ cs[n].words \in Seq(Nat)
  BY <1>7, <1>8, <1>9 DEF ASpoken
<1>12. RunsOn(all, n) => RunsOn(cs, n)
  <2>1. \A i \in 1..n - 1 : i \in 1..n /\ i + 1 \in 1..n
    BY <1>7
  <2>2. \A i \in 1..n - 1 : cs[i] = all[i] /\ cs[i + 1] = all[i + 1]
    BY <1>8, <2>1
  <2> QED BY <1>8, <1>11, <2>2 DEF RunsOn
<1>13. IsSuffix(cs[n].words, text)
  BY <1>10, <1>11, EndsSuffix
<1> QED BY <1>10, <1>11, <1>12, <1>13 DEF text, cs, all

---------------------------------------------------------------------------
(* The windows of what was said. *)

\* The windows cover what there is, one after another.
LEMMA WindowsCover ==
    ASSUME NEW duration \in Nat, NEW starts,
           starts = {w * Step : w \in 0..(Greater(duration, Step) - 1) \div Step}
    PROVE  /\ starts \in SUBSET Nat /\ IsFiniteSet(starts)
           /\ \A at \in starts : at <= duration
           /\ \A a, b \in starts : a < b => a + Step <= b
           /\ \A t \in 0..duration : \E at \in starts : at <= t /\ t <= at + Step
<1> DEFINE most == Greater(duration, Step) - 1
           n == most \div Step
<1>0. Step \in Nat \ {0}
  BY MediaAssumption
<1>1. most \in Nat /\ (most < duration \/ most < Step) /\ duration <= most + 1
  BY <1>0 DEF Greater
<1> HIDE DEF most
<1>2. n \in Nat /\ n * Step <= most /\ most < n * Step + Step
  BY <1>0, <1>1, DivFacts
<1>3. starts = {w * Step : w \in 0..n}
  BY DEF n, most
<1> HIDE DEF n
<1>4. starts \in SUBSET Nat
  <2>1. \A w \in 0..n : w * Step \in Nat
    BY <1>0, <1>2
  <2> QED BY <1>3, <2>1
<1>5. \A at \in starts : at <= most /\ at <= duration
  <2> TAKE at \in starts
  <2>1. PICK w \in 0..n : at = w * Step
    BY <1>3
  <2>2. w \in Nat /\ at \in Nat
    BY <1>4, <2>1, <1>2
  <2> DEFINE m == n * Step
  <2>3. w = n \/ w * Step + Step <= n * Step
    BY <1>0, <1>2, <2>2, TimesFacts
  <2>4. 0 * Step + Step <= w * Step \/ w = 0
    BY <1>0, <2>2, TimesFacts
  <2>5. m \in Nat /\ m <= most /\ (at = m \/ at + Step <= m) /\ (Step <= at \/ at = 0)
    <3>1. w = n => at = n * Step
      BY <2>1
    <3>2. w = 0 => at = 0
      BY <1>0, <2>1
    <3>3. 0 * Step = 0 /\ m \in Nat /\ m <= most
      BY <1>0, <1>2
    <3>4. at = m \/ at + Step <= m
      BY <2>1, <2>3, <3>1
    <3>5. Step <= at \/ at = 0
      <4>1. w # 0 => 0 + Step <= at
        BY <2>1, <2>4, <3>3
      <4> QED BY <1>0, <3>2, <4>1
    <3> QED BY <3>3, <3>4, <3>5
  <2> HIDE DEF m
  <2> QED BY <1>0, <1>1, <2>2, <2>5
<1>6. IsFiniteSet(starts)
  <2>1. IsFiniteSet(0..duration)
    <3>1. 0 \in Int /\ duration \in Int
      OBVIOUS
    <3> QED BY <3>1, FS_Interval
  <2>2. starts \subseteq 0..duration
    BY <1>4, <1>5
  <2> QED BY <2>1, <2>2, FS_Subset
<1>7. \A a, b \in starts : a < b => a + Step <= b
  <2> SUFFICES ASSUME NEW a \in starts, NEW b \in starts, a < b PROVE a + Step <= b
    OBVIOUS
  <2>1. PICK v \in 0..n : a = v * Step
    BY <1>3
  <2>2. PICK w \in 0..n : b = w * Step
    BY <1>3
  <2>3. v \in Nat /\ w \in Nat /\ v * Step < w * Step
    BY <1>2, <2>1, <2>2
  <2>4. v * Step + Step <= w * Step
    BY <1>0, <2>3, TimesFacts
  <2> QED BY <2>1, <2>2, <2>4
<1>8. ASSUME NEW t \in 0..duration PROVE \E at \in starts : at <= t /\ t <= at + Step
  <2>1. CASE t <= most
    <3> DEFINE w == t \div Step
               x == w * Step
    <3>1. w \in Nat /\ w * Step <= t /\ t < w * Step + Step /\ t \in Nat
      BY <1>0, DivFacts
    <3> HIDE DEF w
    <3>2. w <= n
      <4>1. ASSUME n < w PROVE FALSE
        <5>1. n * Step + Step <= w * Step /\ n * Step \in Nat
          BY <1>0, <1>2, <3>1, <4>1, TimesFacts
        <5> DEFINE z == n * Step
        <5>2. z \in Nat /\ z + Step <= x /\ x <= t /\ most < z + Step /\ x \in Nat
          BY <1>0, <1>2, <3>1, <5>1, TimesFacts
        <5> HIDE DEF x, z
        <5> QED BY <1>0, <1>1, <2>1, <3>1, <5>2
      <4> QED BY <1>2, <3>1, <4>1
    <3>3. x \in starts
      <4>1. w \in 0..n
        BY <1>2, <3>1, <3>2
      <4> QED BY ONLY <1>3, <4>1
    <3>4. x \in Nat /\ x <= t /\ t < x + Step
      BY <1>4, <3>1, <3>3
    <3> HIDE DEF x
    <3> QED BY <1>0, <3>1, <3>3, <3>4
  <2>2. CASE t > most
    <3> DEFINE x == n * Step
    <3>1. t = most + 1
      BY <1>1, <2>2
    <3>2. x \in starts
      BY <1>2, <1>3
    <3>3. x \in Nat /\ x <= most /\ most < x + Step
      BY <1>2, <1>4, <3>2
    <3> HIDE DEF x
    <3>4. x <= t /\ t <= x + Step
      BY <1>0, <1>1, <3>1, <3>3
    <3> QED BY <3>2, <3>4
  <2> QED BY <1>1, <2>1, <2>2
<1> QED BY <1>4, <1>6, <1>5, <1>7, <1>8

\* Something said, in the order it was said.
Uttered(stream) == \E n \in Nat : stream \in [1..n -> Cue] /\ \A i \in 1..n : stream[i].words # <<>>

LEMMA UtteredStreams == \A s \in WordStreams : Uttered(s)
<1> TAKE s \in WordStreams
<1>1. PICK n \in 0..2 : s \in [1..n -> [ts : 0..5, words : {<<1>>}]]
  BY DEF WordStreams
<1> DEFINE one == <<1>>
<1>2. one \in Seq(Nat) /\ one # <<>>
  OBVIOUS
<1> HIDE DEF one
<1>3. s \in [1..n -> [ts : 0..5, words : {one}]]
  BY <1>1 DEF one
<1>4. \A i \in 1..n : s[i] \in [ts : 0..5, words : {one}]
  BY ONLY <1>3
<1>5. \A x \in [ts : 0..5, words : {one}] : x \in Cue /\ x.words # <<>>
  BY <1>2 DEF Cue
<1>6. \A i \in 1..n : s[i] \in Cue /\ s[i].words # <<>>
  BY ONLY <1>4, <1>5
<1>7. s \in [1..n -> Cue] /\ n \in Nat
  BY <1>3, <1>6
<1> QED BY <1>6, <1>7 DEF Uttered

\* Where something is said, there is text.
LEMMA AroundFacts ==
    ASSUME NEW stream, Uttered(stream), NEW at, NEW width, NEW i, i \in DOMAIN stream,
           stream[i].ts \in at - width \div 2..at + width \div 2
    PROVE  Around(stream, at, width) # <<>>
<1>1. PICK n \in Nat : stream \in [1..n -> Cue] /\ \A j \in 1..n : stream[j].words # <<>>
  BY DEF Uttered
<1> DEFINE I == {j \in DOMAIN stream : stream[j].ts \in at - width \div 2..at + width \div 2}
           near == At(stream, I)
           k == Cardinality(I)
           t == [j \in DOMAIN near |-> near[j].words]
           s == [j \in 1..k |-> <<>>]
<1>2. DOMAIN stream = 1..n
  BY <1>1
<1>3. i \in I /\ I \subseteq 1..n
  BY <1>2
<1>4. Around(stream, at, width) = FlattenSeq(t)
  BY DEF Around
<1> HIDE DEF I, near
<1>5. I \in SUBSET Nat /\ IsFiniteSet(I) /\ I # {}
  <2>1. 1 \in Int /\ n \in Int
    BY <1>1
  <2>2. IsFiniteSet(1..n)
    BY ONLY <2>1, FS_Interval
  <2>3. IsFiniteSet(I)
    BY <1>3, <2>2, FS_Subset
  <2>4. I \subseteq Nat
    BY <1>3
  <2> QED BY <1>3, <2>3, <2>4
<1>6. k \in Nat /\ k # 0
  BY <1>5, FS_CardinalityType, FS_EmptySet
<1>7. DOMAIN near = 1..k /\ \A m \in 1..k : \E j \in I : near[m] = stream[j]
  BY <1>5, AtFacts DEF near
<1>8. \A j \in 1..n : stream[j].words \in Seq(Nat) /\ stream[j].words # <<>>
  <2>1. \A j \in 1..n : stream[j] \in Cue
    BY <1>1
  <2> QED BY <1>1, <2>1 DEF Cue
<1>9. \A m \in 1..k : near[m].words \in Seq(Nat) /\ near[m].words # <<>>
  BY <1>3, <1>7, <1>8
<1>10. t = [j \in 1..k |-> near[j].words]
  BY <1>7
<1> HIDE DEF t, s, k
<1>11. t \in [1..k -> Seq(Nat)] /\ \A m \in 1..k : t[m] # <<>>
  BY <1>9, <1>10
<1>12. t \in Seq(Seq(Nat)) /\ Len(t) = k
  BY <1>6, <1>11
<1>13. s \in [1..k -> Seq(Nat)] /\ \A m \in 1..k : s[m] = <<>>
  BY EmptySeq DEF s
<1>14. s \in Seq(Seq(Nat)) /\ Len(s) = k
  BY <1>6, <1>13
<1>15. \A m \in 1..k : Len(s[m]) < Len(t[m])
  <2> TAKE m \in 1..k
  <2> DEFINE x == t[m]
  <2>1. x \in Seq(Nat) /\ x # <<>> /\ s[m] = <<>>
    BY <1>11, <1>13
  <2> HIDE DEF x
  <2>2. Len(<<>>) = 0 /\ Len(x) > 0
    BY <2>1, EmptySeq, LenProperties
  <2> QED BY <2>1, <2>2 DEF x
<1>16. Shorter(Nat, s, t)
  <2>1. s # <<>>
    BY <1>6, <1>14, EmptySeq
  <2> QED BY <1>12, <1>14, <1>15, <2>1 DEF Shorter
<1>17. Len(FlattenSeq(s)) < Len(FlattenSeq(t))
  BY ONLY <1>16, FlattenShorter
<1>18. FlattenSeq(s) \in Seq(Nat) /\ FlattenSeq(t) \in Seq(Nat)
  BY ONLY <1>12, <1>14, FlattenType
<1> DEFINE p == FlattenSeq(s)
           q == FlattenSeq(t)
<1>19. p \in Seq(Nat) /\ q \in Seq(Nat) /\ Len(p) < Len(q)
  BY <1>17, <1>18
<1> HIDE DEF p, q
<1>20. q # <<>>
  <2>1. Len(p) \in Nat /\ Len(<<>>) = 0
    BY <1>19, LenProperties
  <2>2. CASE q = <<>>
    <3>1. Len(p) < 0
      BY <1>19, <2>1, <2>2
    <3> QED BY <2>1, <3>1
  <2> QED BY <2>2
<1> QED BY <1>4, <1>20 DEF q

\* The rows of a track follow one another, end within it, and cover all that was said.
Covering(rows, stream, duration) ==
    /\ \A i \in 1..Len(rows) - 1 : rows[i].to <= rows[i + 1].from
    /\ \A r \in ToSet(rows) : 0 <= r.from /\ r.from <= r.to /\ r.to <= duration
    /\ \A cue \in ToSet(stream) : cue.ts <= duration =>
          \E r \in ToSet(rows) : r.label = "sidecar" /\ cue.ts \in r.from..r.from + Step

\* What is told of a track (AudioHandler): for any words that were said one after
\* another and any length, its rows follow one another without overlapping, none reaches
\* past the end, and every word said before the end is in a row that carries speech.
LEMMA AudioFacts ==
    ASSUME NEW stream, Uttered(stream), NEW duration, duration \in Nat, NEW tagged,
           NEW rows, rows = AudioRows(stream, duration, tagged)
    PROVE  Covering(rows, stream, duration)
<1> DEFINE starts == {w * Step : w \in 0..(Greater(duration, Step) - 1) \div Step}
           heard(at) == Around(stream, at + Step \div 2, Step)
           RowFrom(at) == [from |-> at, to |-> Lesser(at + Step, duration), says |-> "words",
                         label |-> "sidecar", text |-> heard(at)]
           some == {at \in starts : RowFrom(at).text # <<>>}
           said == InOrder(some)
           whole == [from |-> 0, to |-> duration, label |-> "filename", text |-> <<>>,
                     says |-> IF tagged THEN "tags" ELSE "filename"]
           mapped == [i \in DOMAIN said |-> RowFrom(said[i])]
           k == Len(said)
<1>0. Step \in Nat \ {0}
  BY MediaAssumption
<1>1. /\ starts \in SUBSET Nat /\ IsFiniteSet(starts)
      /\ \A at \in starts : at <= duration
      /\ \A a, b \in starts : a < b => a + Step <= b
      /\ \A t \in 0..duration : \E at \in starts : at <= t /\ t <= at + Step
  BY WindowsCover
<1>2. rows = IF said = <<>> THEN <<whole>> ELSE mapped
  BY DEF AudioRows
<1>3. some = {at \in starts : heard(at) # <<>>}
  OBVIOUS
<1>4. \A at : /\ RowFrom(at).from = at /\ RowFrom(at).to = Lesser(at + Step, duration)
              /\ RowFrom(at).label = "sidecar"
  OBVIOUS
<1>5. whole.from = 0 /\ whole.to = duration
  OBVIOUS
<1> HIDE DEF starts, heard, RowFrom, whole
<1>6. some \in SUBSET Nat /\ IsFiniteSet(some) /\ some \subseteq starts
  <2>1. some \subseteq starts
    BY <1>3
  <2> HIDE DEF some
  <2> QED BY <1>1, <2>1, FS_Subset
<1>7. some = {at \in starts : heard(at) # <<>>}
  BY <1>3
<1> HIDE DEF some
<1>8. /\ said \in Seq(Nat) /\ k \in Nat
      /\ \A i \in 1..k : said[i] \in some
      /\ \A x \in some : \E i \in 1..k : said[i] = x
      /\ \A i, j \in 1..k : i < j => said[i] < said[j]
  <2>1. some \in SUBSET Nat /\ IsFiniteSet(some) /\ said = InOrder(some)
    BY <1>6
  <2> HIDE DEF said
  <2>2. /\ said \in Seq(Nat) /\ Len(said) = Cardinality(some) /\ Cardinality(some) \in Nat
        /\ \A i \in 1..Len(said) : said[i] \in some
        /\ \A x \in some : \E i \in 1..Len(said) : said[i] = x
        /\ \A i, j \in 1..Len(said) : i < j => said[i] < said[j]
    BY ONLY <2>1, InOrderFacts
  <2> QED BY ONLY <2>2
<1> HIDE DEF said
<1>9. DOMAIN said = 1..k
  BY <1>8, LenProperties
<1>10. \A i \in 1..k : said[i] \in starts /\ said[i] \in Nat
  BY <1>6, <1>8
<1> HIDE DEF k
<1>11. mapped = [i \in 1..k |-> RowFrom(said[i])]
  BY <1>9
<1>12. Len(mapped) = k /\ DOMAIN mapped = 1..k /\ \A i \in 1..k : mapped[i] = RowFrom(said[i])
  BY <1>8, <1>11
<1> HIDE DEF mapped
<1>13. \A i \in 1..k : /\ mapped[i].from = said[i] /\ mapped[i].to = Lesser(said[i] + Step, duration)
                       /\ mapped[i].label = "sidecar"
  BY <1>4, <1>12
<1>14. \A cue \in ToSet(stream) : cue.ts <= duration =>
           \E i \in 1..k : mapped[i].label = "sidecar" /\ cue.ts \in mapped[i].from..mapped[i].from + Step
  <2> SUFFICES ASSUME NEW cue \in ToSet(stream), cue.ts <= duration
               PROVE  \E i \in 1..k : mapped[i].label = "sidecar" /\ cue.ts \in mapped[i].from..mapped[i].from + Step
    OBVIOUS
  <2> DEFINE t == cue.ts
  <2>1. PICK j \in DOMAIN stream : stream[j] = cue
    BY DEF ToSet
  <2>2. t \in Nat
    <3>1. PICK n \in Nat : stream \in [1..n -> Cue]
      BY DEF Uttered
    <3>2. cue \in Cue
      BY <2>1, <3>1
    <3> QED BY <3>2 DEF Cue
  <2>3. stream[j].ts = t /\ t <= duration
    BY <2>1
  <2> HIDE DEF t
  <2>4. t \in 0..duration
    BY <2>2, <2>3
  <2>5. PICK at \in starts : at <= t /\ t <= at + Step
    BY <1>1, <2>4
  <2> DEFINE half == Step \div 2
             mid == at + half
  <2>6. half \in Nat /\ 2 * half = Step
    BY MediaAssumption
  <2>7. at \in Nat
    BY <1>1
  <2>8. t \in mid - half..mid + half
    <3> HIDE DEF half
    <3> QED BY <1>0, <2>2, <2>5, <2>6, <2>7
  <2>9. heard(at) = Around(stream, mid, Step)
    BY DEF heard
  <2> HIDE DEF mid
  <2>10. Around(stream, mid, Step) # <<>>
    BY <2>1, <2>3, <2>8, AroundFacts
  <2>11. at \in some
    BY <1>7, <2>9, <2>10
  <2>12. PICK i \in 1..k : said[i] = at
    BY <1>8, <2>11 DEF k
  <2>13. t \in at..at + Step
    BY <1>0, <2>2, <2>5, <2>7
  <2>14. mapped[i].from = at /\ mapped[i].label = "sidecar"
    BY <1>13, <2>12
  <2> QED BY <2>13, <2>14 DEF t
<1>15. CASE said = <<>>
  <2> DEFINE o == <<whole>>
  <2>1. rows = o
    BY <1>2, <1>15
  <2>2. Len(o) = 1 /\ ToSet(o) = {whole}
    BY DEF ToSet
  <2>3. k = 0
    BY <1>15, EmptySeq DEF k
  <2> HIDE DEF o
  <2>4. \A i \in 1..Len(rows) - 1 : FALSE
    BY <2>1, <2>2
  <2>5. \A r \in ToSet(rows) : 0 <= r.from /\ r.from <= r.to /\ r.to <= duration
    BY <1>5, <2>1, <2>2
  <2>6. \A cue \in ToSet(stream) : ~(cue.ts <= duration)
    BY <1>14, <2>3
  <2> QED BY <2>4, <2>5, <2>6 DEF Covering
<1>16. CASE said # <<>>
  <2>1. rows = mapped
    BY <1>2, <1>16
  <2>2. \A i \in 1..Len(rows) - 1 : rows[i].to <= rows[i + 1].from
    <3> SUFFICES ASSUME NEW i \in 1..k - 1 PROVE mapped[i].to <= mapped[i + 1].from
      BY <1>12, <2>1
    <3>1. i \in 1..k /\ i + 1 \in 1..k /\ i < i + 1
      BY <1>8 DEF k
    <3> DEFINE a == said[i]
               b == said[i + 1]
    <3>2. a \in starts /\ b \in starts /\ a \in Nat /\ b \in Nat /\ a < b
      BY <1>8, <1>10, <3>1 DEF k
    <3>3. mapped[i].to = Lesser(a + Step, duration) /\ mapped[i + 1].from = b
      BY <1>13, <3>1
    <3> HIDE DEF a, b
    <3>4. a + Step <= b
      BY <1>1, <3>2
    <3>5. Lesser(a + Step, duration) <= b
      BY <1>0, <3>2, <3>4 DEF Lesser
    <3> QED BY <3>3, <3>5
  <2>3. \A r \in ToSet(rows) : 0 <= r.from /\ r.from <= r.to /\ r.to <= duration
    <3> SUFFICES ASSUME NEW i \in 1..k
                 PROVE  0 <= mapped[i].from /\ mapped[i].from <= mapped[i].to /\ mapped[i].to <= duration
      BY <1>12, <2>1 DEF ToSet
    <3> DEFINE a == said[i]
    <3>1. a \in starts /\ a \in Nat /\ a <= duration
      BY <1>1, <1>10
    <3>2. mapped[i].from = a /\ mapped[i].to = Lesser(a + Step, duration)
      BY <1>13
    <3> HIDE DEF a
    <3>3. 0 <= a /\ a <= Lesser(a + Step, duration) /\ Lesser(a + Step, duration) <= duration
      BY <1>0, <3>1 DEF Lesser
    <3> QED BY <3>2, <3>3
  <2>4. \A i \in 1..k : mapped[i] \in ToSet(rows)
    BY <1>12, <2>1 DEF ToSet
  <2>5. \A cue \in ToSet(stream) : cue.ts <= duration =>
            \E r \in ToSet(rows) : r.label = "sidecar" /\ cue.ts \in r.from..r.from + Step
    BY <1>14, <2>4
  <2> QED BY <2>2, <2>3, <2>5 DEF Covering
<1> QED BY <1>15, <1>16

LEMMA EdgeTracks == EdgeIInv /\ Answered("audio_rows") =>
    LET rows == answer.rows
    IN  /\ \A i \in 1..Len(rows) - 1 : rows[i].to <= rows[i + 1].from
        /\ \A r \in ToSet(rows) : 0 <= r.from /\ r.from <= r.to /\ r.to <= call.duration
        /\ \A cue \in ToSet(call.stream) : cue.ts <= call.duration =>
              \E r \in ToSet(rows) : r.label = "sidecar" /\ cue.ts \in r.from..r.from + Step
<1> SUFFICES ASSUME EdgeIInv, Answered("audio_rows")
             PROVE  /\ \A i \in 1..Len(answer.rows) - 1 : answer.rows[i].to <= answer.rows[i + 1].from
                    /\ \A r \in ToSet(answer.rows) : 0 <= r.from /\ r.from <= r.to /\ r.to <= call.duration
                    /\ \A cue \in ToSet(call.stream) : cue.ts <= call.duration =>
                          \E r \in ToSet(answer.rows) :
                              r.label = "sidecar" /\ cue.ts \in r.from..r.from + Step
  OBVIOUS
<1> DEFINE stream == call.stream
           duration == call.duration
           tagged == call.tagged
           rows == answer.rows
<1>1. call \in WordCalls /\ call.op = "audio_rows" /\ answer = [rows |-> AudioRows(stream, duration, tagged)]
  BY EdgeCallFacts DEF EdgeIInv, Answered
<1>2. stream \in WordStreams /\ duration \in 0..5
  BY <1>1, WordCallFacts
<1>3. rows = AudioRows(stream, duration, tagged)
  BY <1>1
<1> HIDE DEF stream, duration, tagged, rows
<1>4. Uttered(stream) /\ duration \in Nat
  BY <1>2, UtteredStreams
<1>5. Covering(rows, stream, duration)
  BY ONLY <1>3, <1>4, AudioFacts
<1> QED BY <1>5 DEF Covering, rows, stream, duration

LEMMA EdgeWords == EdgeIInv => WordsAreKept
BY EdgeParses, EdgeDedupes, EdgeTracks, EdgePages DEF WordsAreKept

LEMMA EdgeMedia == EdgeIInv => MediaIsHonest
BY EdgeRetries, EdgeVectors, EdgeEmbedders, EdgePictures, EdgeWords, EdgeSurveys DEF MediaIsHonest

\* Whatever a root, a plugin, an embedder, a file, a folder or a command is asked, what it says
\* is what it is and what it did: no root answers for more than it holds, every vector is of
\* its own item, captions are kept once and whole, counts add up, and an exit code tells what
\* was left behind.
THEOREM EdgesHonest == Spec => []EdgesAreHonest
<1>1. EdgeIInv => EdgesAreHonest
  BY EdgeSources, EdgeMedia, EdgeCommands DEF EdgesAreHonest
<1> QED BY <1>1, InitEdgeIInv, NextEdgeIInv, PTL DEF Spec
====
