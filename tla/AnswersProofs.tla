---- MODULE AnswersProofs ----
(***************************************************************************)
(* What the parts of the program that keep no state say of what they are   *)
(* asked: the data checks, the language layer and the queries; the panels  *)
(* and the edges are in PanelsProofs.  Every call is answered at most      *)
(* once, with what its operator gives for it; the rest are lemmas about    *)
(* the operators.                                                          *)
(***************************************************************************)
EXTENDS Answers, SequenceFacts

--------------------------------------------------------------------------
(* Calls and answers. *)

Calls == QueryCalls \cup CheckCalls \cup LanguageCalls \cup PanelCalls \cup SourceCalls
         \cup MediaCalls \cup CommandCalls

QueryOp == {"project", "plan", "run", "facets", "validate", "estimate", "compare"}
CheckOp == {"plan checks", "group", "content", "vectors", "near", "recall"}
LanguageOp == {"resolve", "wire", "outcome", "filter", "spend", "tool", "cred"}
PanelOp == {"analyse", "tables", "versions", "indices", "fragments", "rows", "blob", "video",
            "run_config", "explain", "run_route", "compare_route", "bundle"}
SourceOp == {"registry", "root"}
MediaOp == {"post", "embed", "column", "match", "video_rows", "parse", "dedupe", "audio_rows", "pdf",
            "survey"}
CommandOp == {"findings_command", "check_command", "ingest_command", "scan_command",
              "report_command", "open_command"}

\* Whose call it is shows in its operation.
LEMMA QueryOps == \A c \in QueryCalls : c.op \in QueryOp
BY DEF QueryCalls, ProjectionCalls, PlanCalls, RunCalls, FacetCalls, ValidateCalls, EstimateCalls,
       CompareCalls, QueryOp

LEMMA CheckOps == \A c \in CheckCalls : c.op \in CheckOp
BY DEF CheckCalls, PlanCheckCalls, GroupCalls, CountCalls, RecallCalls, CheckOp

LEMMA LanguageOps == \A c \in LanguageCalls : c.op \in LanguageOp
<1> SUFFICES ASSUME NEW c \in LanguageCalls PROVE c.op \in LanguageOp
  OBVIOUS
<1>1. CASE c \in ResolveCalls
  BY <1>1 DEF ResolveCalls, LanguageOp
<1>2. CASE c \in WireCalls
  BY <1>2 DEF WireCalls, LanguageOp
<1>3. CASE c \in OutcomeCalls
  BY <1>3 DEF OutcomeCalls, LanguageOp
<1>4. CASE c \in FilterCalls
  BY <1>4 DEF FilterCalls, LanguageOp
<1>5. CASE c \in SpendCalls
  BY <1>5 DEF SpendCalls, LanguageOp
<1>6. CASE c \in ToolCalls
  BY <1>6 DEF ToolCalls, LanguageOp
<1>7. CASE c \in CredCalls
  BY <1>7 DEF CredCalls, LanguageOp
<1> QED BY <1>1, <1>2, <1>3, <1>4, <1>5, <1>6, <1>7 DEF LanguageCalls

LEMMA PanelOps == \A c \in PanelCalls : c.op \in PanelOp
<1> SUFFICES ASSUME NEW c \in PanelCalls PROVE c.op \in PanelOp
  OBVIOUS
<1>1. CASE c \in FindingCalls
  BY <1>1 DEF FindingCalls, PanelOp
<1>2. CASE c \in ListingCalls
  BY <1>2 DEF ListingCalls, PanelOp
<1>3. CASE c \in HistoryCalls
  BY <1>3 DEF HistoryCalls, PanelOp
<1>4. CASE c \in IndexingCalls
  BY <1>4 DEF IndexingCalls, PanelOp
<1>5. CASE c \in LayoutCalls
  BY <1>5 DEF LayoutCalls, PanelOp
<1>6. CASE c \in RowsCalls
  BY <1>6 DEF RowsCalls, PanelOp
<1>7. CASE c \in CellCalls
  BY <1>7 DEF CellCalls, PanelOp
<1>8. CASE c \in RunConfigCalls
  BY <1>8 DEF RunConfigCalls, PanelOp
<1>9. CASE c \in ExplainCalls
  BY <1>9 DEF ExplainCalls, PanelOp
<1>10. CASE c \in BundleCalls
  BY <1>10 DEF BundleCalls, PanelOp
<1> QED BY <1>1, <1>2, <1>3, <1>4, <1>5, <1>6, <1>7, <1>8, <1>9, <1>10 DEF PanelCalls

LEMMA SourceOps == \A c \in SourceCalls : c.op \in SourceOp
<1> SUFFICES ASSUME NEW c \in SourceCalls PROVE c.op \in SourceOp
  OBVIOUS
<1>1. CASE c \in RegistryCalls
  BY <1>1 DEF RegistryCalls, SourceOp
<1>2. CASE c \in RootCalls
  BY <1>2 DEF RootCalls, SourceOp
<1> QED BY <1>1, <1>2 DEF SourceCalls

LEMMA MediaOps == \A c \in MediaCalls : c.op \in MediaOp
BY DEF MediaCalls, PostCalls, EmbedCalls, MatchCalls, VideoCalls, WordCalls, SurveyCalls, MediaOp

LEMMA CommandOps == \A c \in CommandCalls : c.op \in CommandOp
BY DEF CommandCalls, FindingsCommands, CheckCommands, IngestCalls, ScanCalls, ReportCalls, OpenCalls, CommandOp

--------------------------------------------------------------------------
(* A step answers one call, in the words of its family. *)

Asks(ops) == answer = Unanswered /\ call.op \in ops /\ call' = call

LEMMA QueryReplies == ASSUME AnswerQuery PROVE Asks(QueryOp)
<1>1. CASE AnswerProjection
  BY <1>1 DEF AnswerProjection, Reply, Asks, QueryOp
<1>2. CASE AnswerPlan
  BY <1>2 DEF AnswerPlan, Reply, Asks, QueryOp
<1>3. CASE AnswerRun
  BY <1>3 DEF AnswerRun, Reply, Asks, QueryOp
<1>4. CASE AnswerFacets
  BY <1>4 DEF AnswerFacets, Reply, Asks, QueryOp
<1>5. CASE AnswerValidate
  BY <1>5 DEF AnswerValidate, Reply, Asks, QueryOp
<1>6. CASE AnswerEstimate
  BY <1>6 DEF AnswerEstimate, Reply, Asks, QueryOp
<1>7. CASE AnswerCompare
  BY <1>7 DEF AnswerCompare, Reply, Asks, QueryOp
<1> QED BY <1>1, <1>2, <1>3, <1>4, <1>5, <1>6, <1>7 DEF AnswerQuery

LEMMA CheckReplies == ASSUME AnswerCheck PROVE Asks(CheckOp)
<1>1. CASE AnswerPlanChecks
  BY <1>1 DEF AnswerPlanChecks, Reply, Asks, CheckOp
<1>2. CASE AnswerGroup
  BY <1>2 DEF AnswerGroup, Reply, Asks, CheckOp
<1>3. CASE AnswerCount
  BY <1>3 DEF AnswerCount, Reply, Asks, CheckOp
<1>4. CASE AnswerRecall
  BY <1>4 DEF AnswerRecall, Reply, Asks, CheckOp
<1> QED BY <1>1, <1>2, <1>3, <1>4 DEF AnswerCheck

LEMMA LanguageReplies == ASSUME AnswerLanguage PROVE Asks(LanguageOp)
<1>1. CASE AnswerResolve
  BY <1>1 DEF AnswerResolve, Reply, Asks, LanguageOp
<1>2. CASE AnswerWire
  BY <1>2 DEF AnswerWire, Reply, Asks, LanguageOp
<1>3. CASE AnswerOutcome
  BY <1>3 DEF AnswerOutcome, Reply, Asks, LanguageOp
<1>4. CASE AnswerFilter
  BY <1>4 DEF AnswerFilter, Reply, Asks, LanguageOp
<1>5. CASE AnswerSpend
  BY <1>5 DEF AnswerSpend, Reply, Asks, LanguageOp
<1>6. CASE AnswerTool
  BY <1>6 DEF AnswerTool, Reply, Asks, LanguageOp
<1>7. CASE AnswerCred
  BY <1>7 DEF AnswerCred, Reply, Asks, LanguageOp
<1> QED BY <1>1, <1>2, <1>3, <1>4, <1>5, <1>6, <1>7 DEF AnswerLanguage

LEMMA PanelReplies == ASSUME AnswerPanel PROVE Asks(PanelOp)
<1>1. CASE AnswerFindings
  BY <1>1 DEF AnswerFindings, Reply, Asks, PanelOp
<1>2. CASE AnswerListing
  BY <1>2 DEF AnswerListing, Reply, Asks, PanelOp
<1>3. CASE AnswerHistory
  BY <1>3 DEF AnswerHistory, Reply, Asks, PanelOp
<1>4. CASE AnswerIndexing
  BY <1>4 DEF AnswerIndexing, Reply, Asks, PanelOp
<1>5. CASE AnswerLayout
  BY <1>5 DEF AnswerLayout, Reply, Asks, PanelOp
<1>6. CASE AnswerRows
  BY <1>6 DEF AnswerRows, Reply, Asks, PanelOp
<1>7. CASE AnswerCell
  BY <1>7 DEF AnswerCell, Reply, Asks, PanelOp
<1>8. CASE AnswerRunConfig
  BY <1>8 DEF AnswerRunConfig, Reply, Asks, PanelOp
<1>9. CASE AnswerExplain
  BY <1>9 DEF AnswerExplain, Reply, Asks, PanelOp
<1>10. CASE AnswerBundle
  BY <1>10 DEF AnswerBundle, Reply, Asks, PanelOp
<1> QED BY <1>1, <1>2, <1>3, <1>4, <1>5, <1>6, <1>7, <1>8, <1>9, <1>10 DEF AnswerPanel

LEMMA SourceReplies == ASSUME AnswerSource PROVE Asks(SourceOp)
BY DEF AnswerSource, AnswerRegistry, AnswerRoot, Reply, Asks, SourceOp

LEMMA MediaReplies == ASSUME AnswerMedia PROVE Asks(MediaOp)
<1>1. CASE AnswerEmbed
  BY <1>1 DEF AnswerEmbed, Reply, Asks, MediaOp
<1>2. CASE AnswerMatch
  BY <1>2 DEF AnswerMatch, Reply, Asks, MediaOp
<1>3. CASE AnswerVideo
  BY <1>3 DEF AnswerVideo, Reply, Asks, MediaOp
<1>4. CASE AnswerWords
  BY <1>4 DEF AnswerWords, Reply, Asks, MediaOp
<1>5. CASE AnswerSurvey
  BY <1>5 DEF AnswerSurvey, Reply, Asks, MediaOp
<1> QED BY <1>1, <1>2, <1>3, <1>4, <1>5 DEF AnswerMedia

LEMMA CommandReplies == ASSUME AnswerCommand PROVE Asks(CommandOp)
<1>1. CASE AnswerFindingsCommand
  BY <1>1 DEF AnswerFindingsCommand, Reply, Asks, CommandOp
<1>2. CASE AnswerCheckCommand
  BY <1>2 DEF AnswerCheckCommand, Reply, Asks, CommandOp
<1>3. CASE AnswerIngest
  BY <1>3 DEF AnswerIngest, Reply, Asks, CommandOp
<1>4. CASE AnswerScan
  BY <1>4 DEF AnswerScan, Reply, Asks, CommandOp
<1>5. CASE AnswerReport
  BY <1>5 DEF AnswerReport, Reply, Asks, CommandOp
<1>6. CASE AnswerOpen
  BY <1>6 DEF AnswerOpen, Reply, Asks, CommandOp
<1> QED BY <1>1, <1>2, <1>3, <1>4, <1>5, <1>6 DEF AnswerCommand

--------------------------------------------------------------------------
(* Entries at some places. *)

Rank(T, i) == Cardinality({j \in T : j <= i})

\* The entries at some places are those of the places, each once, in their order.
LEMMA AtFacts ==
    ASSUME NEW s, NEW T \in SUBSET Nat, IsFiniteSet(T)
    PROVE  /\ Cardinality(T) \in Nat /\ DOMAIN At(s, T) = 1..Cardinality(T)
           /\ \A n \in 1..Cardinality(T) : \E i \in T : Rank(T, i) = n /\ At(s, T)[n] = s[i]
           /\ \A i \in T : Rank(T, i) \in 1..Cardinality(T) /\ At(s, T)[Rank(T, i)] = s[i]
           /\ \A i, k \in T : Rank(T, i) = Rank(T, k) => i = k
<1> DEFINE C(n) == CHOOSE i \in T : Rank(T, i) = n
<1>1. /\ Cardinality(T) \in Nat
      /\ \A n \in 1..Cardinality(T) : \E i \in T : Rank(T, i) = n
      /\ \A i, k \in T : Rank(T, i) = Rank(T, k) => i = k
      /\ \A i \in T : Rank(T, i) \in 1..Cardinality(T)
  BY Ranks DEF Rank
<1>2. At(s, T) = [n \in 1..Cardinality(T) |-> s[C(n)]]
  BY DEF At, Rank
<1>3. \A n \in 1..Cardinality(T) : C(n) \in T /\ Rank(T, C(n)) = n
  BY <1>1
<1>4. \A i \in T : C(Rank(T, i)) = i
  <2> TAKE i \in T
  <2>1. Rank(T, i) \in 1..Cardinality(T)
    BY <1>1
  <2>2. C(Rank(T, i)) \in T /\ Rank(T, C(Rank(T, i))) = Rank(T, i)
    BY <1>3, <2>1
  <2> QED BY <1>1, <2>2
<1> HIDE DEF C, Rank
<1> QED BY <1>1, <1>2, <1>3, <1>4

\* ... and a sequence of them.
LEMMA AtSeq ==
    ASSUME NEW P, NEW s, NEW T \in SUBSET Nat, IsFiniteSet(T), \A i \in T : s[i] \in P
    PROVE  At(s, T) \in Seq(P) /\ Len(At(s, T)) = Cardinality(T)
<1> DEFINE a == At(s, T)
           n == Cardinality(T)
<1>1. n \in Nat /\ DOMAIN a = 1..n /\ \A k \in 1..n : \E i \in T : a[k] = s[i]
  BY AtFacts
<1>2. a = [k \in 1..n |-> s[CHOOSE i \in T : Cardinality({j \in T : j <= i}) = k]]
  BY DEF At
<1> HIDE DEF n
<1>3. \E e : a = [k \in 1..n |-> e[k]]
  <2>1. a = [k \in 1..n |-> a[k]]
    BY <1>2
  <2> QED BY <2>1
<1> HIDE DEF a
<1>4. a \in [1..n -> P]
  BY <1>1, <1>3
<1>5. a \in Seq(P) /\ Len(a) = n
  BY <1>1, <1>4
<1> QED BY <1>5 DEF a, n

\* What is at some places is the same in every sequence that has the same there.
LEMMA AtSame ==
    ASSUME NEW s, NEW t, NEW T \in SUBSET Nat, IsFiniteSet(T), \A i \in T : s[i] = t[i]
    PROVE  At(s, T) = At(t, T)
<1> DEFINE place(n) == CHOOSE i \in T : Rank(T, i) = n
           N == 1..Cardinality(T)
<1>1. \A n \in N : \E i \in T : Rank(T, i) = n
  BY AtFacts
<1>2. \A n \in N : place(n) \in T
  BY <1>1
<1>3. At(s, T) = [n \in N |-> s[place(n)]] /\ At(t, T) = [n \in N |-> t[place(n)]]
  BY DEF At, Rank
<1> HIDE DEF place, N
<1> QED BY <1>2, <1>3

\* A place after all the others adds what is there at the end.
LEMMA AtGreatest ==
    ASSUME NEW s, NEW T \in SUBSET Nat, IsFiniteSet(T), NEW k \in Nat, \A i \in T : i < k
    PROVE  At(s, T \cup {k}) = Append(At(s, T), s[k])
<1> DEFINE U == T \cup {k}
           P == {s[i] : i \in U}
           a == At(s, T)
           b == At(s, U)
           c == Cardinality(T)
<1>1. IsFiniteSet(U) /\ U \in SUBSET Nat /\ Cardinality(U) = c + 1 /\ c \in Nat
  <2>1. k \notin T /\ U \in SUBSET Nat /\ IsFiniteSet(T)
    OBVIOUS
  <2>2. IsFiniteSet(T \cup {k}) /\ Cardinality(T \cup {k}) = Cardinality(T) + 1
    BY ONLY <2>1, FS_AddElement
  <2> QED BY <2>1, <2>2, FS_CardinalityType
<1>2. \A i \in T : Rank(U, i) = Rank(T, i)
  <2> SUFFICES ASSUME NEW i \in T PROVE Rank(U, i) = Rank(T, i)
    OBVIOUS
  <2>1. {j \in U : j <= i} = {j \in T : j <= i}
    OBVIOUS
  <2> QED BY <2>1 DEF Rank
<1>3. Rank(U, k) = c + 1
  <2>1. \A j \in U : j <= k
    OBVIOUS
  <2>2. {j \in U : j <= k} = U
    <3> HIDE DEF U
    <3> QED BY <2>1
  <2> QED BY ONLY <1>1, <2>2 DEF Rank
<1>4. a \in Seq(P) /\ Len(a) = c /\ b \in Seq(P) /\ Len(b) = c + 1
  <2>0. (\A i \in T : s[i] \in P) /\ \A i \in U : s[i] \in P
    OBVIOUS
  <2> HIDE DEF U, P
  <2>1. a \in Seq(P) /\ Len(a) = c
    BY <2>0, AtSeq
  <2>2. b \in Seq(P) /\ Len(b) = c + 1
    BY <1>1, <2>0, AtSeq
  <2> QED BY <2>1, <2>2
<1>5. \A n \in 1..c : \E i \in T : Rank(T, i) = n /\ a[n] = s[i]
  BY AtFacts
<1>6. \A i \in U : b[Rank(U, i)] = s[i]
  <2> HIDE DEF U
  <2> QED BY <1>1, AtFacts
<1> HIDE DEF a, b, U, c, P
<1>7. \A n \in 1..c : b[n] = a[n]
  BY <1>2, <1>5, <1>6 DEF U
<1>8. b[c + 1] = s[k] /\ s[k] \in P
  BY <1>3, <1>6 DEF U, P
<1>9. b = Append(a, s[k])
  <2>1. /\ Append(a, s[k]) \in Seq(P) /\ Len(Append(a, s[k])) = c + 1
        /\ (\A n \in 1..c : Append(a, s[k])[n] = a[n]) /\ Append(a, s[k])[c + 1] = s[k]
    BY <1>4, <1>8, AppendFacts
  <2> DEFINE e == Append(a, s[k])
  <2> HIDE DEF e
  <2>2. \A n \in 1..c + 1 : n \in 1..c \/ n = c + 1
    BY <1>1
  <2>3. \A n \in 1..c + 1 : b[n] = e[n]
    BY <1>7, <1>8, <2>1, <2>2 DEF e
  <2> QED BY <1>1, <1>4, <2>1, <2>3, SeqEqual DEF e
<1> QED BY <1>9 DEF a, b, U

--------------------------------------------------------------------------
(* What a check is quoted for. *)

Kinds == UNION {[1..n -> ColumnKind] : n \in Nat}

LEMMA KindsAre == \A n \in Nat : [1..n -> ColumnKind] \subseteq Kinds
BY DEF Kinds

\* The columns of some kinds, in their order.
OfKinds(kinds, S) == At([c \in DOMAIN kinds |-> c], {c \in DOMAIN kinds : kinds[c] \in S})
FirstOf(s) == SubSeq(s, 1, Lesser(1, Len(s)))

LEMMA OfKindsFacts ==
    ASSUME NEW kinds \in Kinds, NEW S
    PROVE  LET s == OfKinds(kinds, S)
           IN  /\ s \in Seq(Nat) /\ FirstOf(s) \in Seq(Nat)
               /\ \A n \in DOMAIN s : s[n] \in DOMAIN kinds /\ kinds[s[n]] \in S
               /\ \A n \in DOMAIN FirstOf(s) : n \in DOMAIN s /\ FirstOf(s)[n] = s[n]
               /\ s = <<>> <=> ~ \E c \in DOMAIN kinds : kinds[c] \in S
               /\ s # <<>> => 1 \in DOMAIN s /\ 1 \in DOMAIN FirstOf(s) /\ FirstOf(s) # <<>>
               /\ s = <<>> => FirstOf(s) = <<>>
<1> DEFINE T == {c \in DOMAIN kinds : kinds[c] \in S}
           id == [c \in DOMAIN kinds |-> c]
           s == At(id, T)
<1>1. PICK m \in Nat : DOMAIN kinds = 1..m
  BY DEF Kinds
<1>2. T \in SUBSET Nat /\ IsFiniteSet(T)
  BY <1>1, FS_Interval, FS_Subset
<1>3. /\ Cardinality(T) \in Nat /\ DOMAIN s = 1..Cardinality(T)
      /\ \A n \in 1..Cardinality(T) : \E i \in T : s[n] = id[i]
  <2> HIDE DEF T, id
  <2> QED BY <1>2, AtFacts
<1>4. \A n \in DOMAIN s : s[n] \in T
  BY <1>3
<1>5. s \in [1..Cardinality(T) -> Nat]
  <2>1. s = [n \in 1..Cardinality(T) |-> s[n]]
    BY <1>3 DEF At
  <2> QED BY <1>2, <1>3, <1>4, <2>1
<1>6. s \in Seq(Nat) /\ Len(s) = Cardinality(T)
  <2> HIDE DEF s, T
  <2> QED BY <1>3, <1>5
<1>7. Cardinality(T) = 0 <=> T = {}
  BY <1>2, FS_EmptySet
<1>8. s = <<>> <=> T = {}
  <2> HIDE DEF s, T
  <2> QED BY <1>3, <1>6, <1>7
<1> HIDE DEF s, T, id
<1>9. ASSUME s = <<>>
      PROVE  /\ FirstOf(s) \in Seq(Nat) /\ FirstOf(s) = <<>>
             /\ \A n \in DOMAIN FirstOf(s) : n \in DOMAIN s /\ FirstOf(s)[n] = s[n]
  <2>1. FirstOf(s) = <<>>
    BY <1>9 DEF FirstOf, Lesser
  <2> QED BY <2>1
<1>10. ASSUME s # <<>>
       PROVE  /\ FirstOf(s) \in Seq(Nat) /\ FirstOf(s) # <<>> /\ 1 \in DOMAIN s
              /\ 1 \in DOMAIN FirstOf(s)
              /\ \A n \in DOMAIN FirstOf(s) : n \in DOMAIN s /\ FirstOf(s)[n] = s[n]
  <2>1. Len(s) \in Nat \ {0} /\ Lesser(1, Len(s)) = 1 /\ 1 \in DOMAIN s
    BY <1>6, <1>10 DEF Lesser
  <2>2. FirstOf(s) \in Seq(Nat) /\ DOMAIN FirstOf(s) = {1} /\ FirstOf(s)[1] = s[1] /\ Len(FirstOf(s)) = 1
    BY <1>6, <2>1 DEF FirstOf
  <2> QED BY <2>1, <2>2
<1>11. \A n \in DOMAIN s : s[n] \in DOMAIN kinds /\ kinds[s[n]] \in S
  BY <1>4 DEF T
<1>12. s = <<>> <=> ~ \E c \in DOMAIN kinds : kinds[c] \in S
  BY <1>8 DEF T
<1>13. s = OfKinds(kinds, S)
  BY DEF OfKinds, T, s, id
<1> QED BY <1>6, <1>9, <1>10, <1>11, <1>12, <1>13

LEMMA DefaultFacts ==
    ASSUME NEW kinds
    PROVE  /\ \A check \in {"class-balance", "split-leakage"} : DefaultColumns(check, kinds) = <<>>
           /\ \A check \in {"missing-content", "exact-duplicates"} :
                 DefaultColumns(check, kinds) = OfKinds(kinds, Takes(check))
           /\ DefaultColumns("index-recall", kinds) =
                 IF OfKinds(kinds, {"indexed vector"}) # <<>>
                 THEN FirstOf(OfKinds(kinds, {"indexed vector"})) ELSE FirstOf(OfKinds(kinds, Vectors))
           /\ DefaultColumns("vector-health", kinds) = FirstOf(OfKinds(kinds, Vectors))
<1>1. \A check \in {"class-balance", "split-leakage"} : DefaultColumns(check, kinds) = <<>>
  BY DEF DefaultColumns
<1>2. \A check \in {"missing-content", "exact-duplicates"} :
         DefaultColumns(check, kinds) = OfKinds(kinds, Takes(check))
  BY DEF DefaultColumns, OfKinds
<1>3. DefaultColumns("index-recall", kinds) =
         IF OfKinds(kinds, {"indexed vector"}) # <<>>
         THEN FirstOf(OfKinds(kinds, {"indexed vector"})) ELSE FirstOf(OfKinds(kinds, Vectors))
  BY DEF DefaultColumns, OfKinds, FirstOf
<1>4. DefaultColumns("vector-health", kinds) = FirstOf(OfKinds(kinds, Vectors))
  BY DEF DefaultColumns, OfKinds, FirstOf
<1> QED BY <1>1, <1>2, <1>3, <1>4

\* A default is refused only where there is nothing of its kind.
LEMMA DefaultRuns ==
    ASSUME NEW kinds \in Kinds,
           NEW check \in {"missing-content", "exact-duplicates", "vector-health", "index-recall"},
           NEW n \in DOMAIN kinds,
           kinds[n] \in (IF check = "index-recall" THEN {"indexed vector"} ELSE Takes(check))
    PROVE  Supported(check, kinds, DefaultColumns(check, kinds))
<1> DEFINE d == DefaultColumns(check, kinds)
           S == IF check = "index-recall" THEN {"indexed vector"} ELSE Takes(check)
           s == OfKinds(kinds, S)
<1>1. /\ s # <<>>
      /\ \A i \in DOMAIN s : s[i] \in DOMAIN kinds /\ kinds[s[i]] \in S
      /\ \A i \in DOMAIN FirstOf(s) : i \in DOMAIN s /\ FirstOf(s)[i] = s[i]
      /\ 1 \in DOMAIN FirstOf(s) /\ FirstOf(s) # <<>>
  <2>1. kinds[n] \in S
    OBVIOUS
  <2> HIDE DEF S
  <2> QED BY <2>1, OfKindsFacts
<1>2. d = s \/ d = FirstOf(s)
  BY <1>1, DefaultFacts DEF Takes
<1>3. check = "index-recall" => d = FirstOf(s)
  BY <1>1, DefaultFacts
<1>4. S \subseteq Takes(check)
  BY DEF Takes, Vectors
<1> HIDE DEF s, d
<1>5. d # <<>> /\ \A i \in DOMAIN d : d[i] \in DOMAIN kinds /\ kinds[d[i]] \in S
  BY <1>1, <1>2
<1>6. check = "index-recall" => kinds[d[1]] = "indexed vector"
  BY <1>1, <1>3, <1>5
<1> HIDE DEF S
<1>7. \A c \in ToSet(d) : c \in DOMAIN kinds /\ kinds[c] \in Takes(check)
  BY <1>4, <1>5 DEF ToSet
<1>8. Supported(check, kinds, d)
  BY <1>5, <1>6, <1>7 DEF Supported
<1> QED BY <1>8 DEF d

QuotedWell(kinds, a) ==
    /\ \A c \in a.ok : /\ a.columns[c] # <<>>
                       /\ \A n \in ToSet(a.columns[c]) : n \in DOMAIN kinds /\ kinds[n] # "binary"
    /\ \A c \in Check \ a.ok : a.bytes[c] = 0
    /\ \A c \in {"missing-content", "exact-duplicates", "vector-health", "index-recall"} :
          a.columns[c] = DefaultColumns(c, kinds) /\ c \notin a.ok =>
              ~\E n \in DOMAIN kinds :
                  kinds[n] \in (IF c = "index-recall" THEN {"indexed vector"} ELSE Takes(c))

LEMMA QuoteFacts ==
    ASSUME NEW kinds \in Kinds, NEW selected, NEW columns, NEW weight, NEW a,
           a = PlanChecks(kinds, selected, columns, weight)
    PROVE  QuotedWell(kinds, a)
<1> DEFINE Of(check) == IF check = selected /\ columns # <<>> THEN columns
                        ELSE DefaultColumns(check, kinds)
           Ok(check) == Supported(check, kinds, Of(check))
           Bytes(check) == IF Ok(check) /\ check # "near-duplicates"
                           THEN SumOf(ToSet(Of(check)), LAMBDA c : weight[c]) ELSE 0
<1>1. /\ a.ok = {c \in Check : Ok(c)}
      /\ a.columns = [c \in Check |-> Of(c)]
      /\ a.bytes = [c \in Check |-> Bytes(c)]
  BY DEF PlanChecks
<1> HIDE DEF Of
<1>2. ASSUME NEW c \in Check, Ok(c)
      PROVE  Of(c) # <<>> /\ \A n \in ToSet(Of(c)) : n \in DOMAIN kinds /\ kinds[n] # "binary"
  <2>1. "binary" \notin Takes(c)
    BY DEF Check, Takes, Vectors
  <2> QED BY <1>2, <2>1 DEF Supported
<1>3. ASSUME NEW c \in Check, ~Ok(c) PROVE Bytes(c) = 0
  BY <1>3
<1> HIDE DEF Bytes
<1>4. ASSUME NEW c \in {"missing-content", "exact-duplicates", "vector-health", "index-recall"},
             Of(c) = DefaultColumns(c, kinds), ~Ok(c), NEW n \in DOMAIN kinds,
             kinds[n] \in (IF c = "index-recall" THEN {"indexed vector"} ELSE Takes(c))
      PROVE  FALSE
  BY <1>4, DefaultRuns
<1> HIDE DEF Ok
<1>5. {"missing-content", "exact-duplicates", "vector-health", "index-recall"} \subseteq Check
  BY DEF Check
<1>6. \A c \in a.ok : c \in Check /\ Ok(c) /\ a.columns[c] = Of(c)
  BY <1>1
<1>7. \A c \in Check \ a.ok : ~Ok(c) /\ a.bytes[c] = Bytes(c)
  BY <1>1
<1>8. \A c \in Check : a.columns[c] = Of(c)
  BY <1>1
<1> QED BY <1>2, <1>3, <1>4, <1>5, <1>6, <1>7, <1>8 DEF QuotedWell

--------------------------------------------------------------------------
(* Counting rows. *)

\* A count is of a part of a finite set.
LEMMA CountFacts ==
    ASSUME NEW T, IsFiniteSet(T), NEW U \in SUBSET T
    PROVE  /\ IsFiniteSet(U) /\ Cardinality(U) \in Nat /\ Cardinality(T) \in Nat
           /\ Cardinality(U) <= Cardinality(T)
           /\ Cardinality(U) = 0 <=> U = {}
BY FS_Subset, FS_CardinalityType, FS_EmptySet

\* More than one is two that differ.
LEMMA TwoDiffer ==
    ASSUME NEW S, IsFiniteSet(S)
    PROVE  Cardinality(S) > 1 <=> \E x, y \in S : x # y
<1>1. CASE S = {}
  BY <1>1, FS_EmptySet
<1>2. ASSUME NEW x \in S PROVE Cardinality(S) > 1 <=> \E y \in S : x # y
  <2> DEFINE U == S \ {x}
  <2>1. IsFiniteSet(U) /\ Cardinality(U) = Cardinality(S) - 1
    BY FS_RemoveElement
  <2>2. Cardinality(U) \in Nat /\ Cardinality(S) \in Nat /\ (Cardinality(U) = 0 <=> U = {})
    BY <2>1, FS_CardinalityType, FS_EmptySet
  <2>3. U # {} <=> \E y \in S : x # y
    OBVIOUS
  <2> HIDE DEF U
  <2> QED BY <2>1, <2>2, <2>3
<1>3. CASE S # {}
  <2>1. PICK x \in S : TRUE
    BY <1>3
  <2>2. (\E y \in S : x # y) <=> \E y, z \in S : y # z
    BY <2>1
  <2> QED BY <1>2, <2>1, <2>2
<1> QED BY <1>1, <1>3

\* Of bounded numbers there is a least and a greatest.
LEMMA Extremes ==
    ASSUME NEW S, S # {}, NEW v \in [S -> Nat], NEW n \in Nat, \A x \in S : v[x] <= n
    PROVE  /\ \E x \in S : \A y \in S : v[x] <= v[y]
           /\ \E x \in S : \A y \in S : v[y] <= v[x]
<1>1. \E x \in S : \A y \in S : v[x] <= v[y]
  <2> DEFINE T == {v[x] : x \in S}
  <2>1. T \in SUBSET Nat /\ T # {}
    OBVIOUS
  <2>2. PICK t \in T : \A u \in T : t <= u
    <3> HIDE DEF T
    <3> QED BY <2>1, Least
  <2> QED BY <2>2
<1>2. \E x \in S : \A y \in S : v[y] <= v[x]
  <2> DEFINE T == {n - v[x] : x \in S}
  <2>1. T \in SUBSET Nat /\ T # {}
    OBVIOUS
  <2>2. PICK t \in T : \A u \in T : t <= u
    <3> HIDE DEF T
    <3> QED BY <2>1, Least
  <2>3. PICK x \in S : t = n - v[x]
    OBVIOUS
  <2>4. \A y \in S : n - v[x] <= n - v[y]
    BY <2>2, <2>3
  <2>5. \A y \in S : v[y] <= v[x]
    BY <2>4
  <2> QED BY <2>5
<1> QED BY <1>1, <1>2

\* The different rows at some places, and the places of those that are like an earlier one.
Different(rows, T) == {rows[i] : i \in T}
Again(rows, T) == {j \in T : \E i \in T : i < j /\ rows[i] = rows[j]}

\* Those that are like an earlier one are all but as many as there are different ones.
LEMMA AgainFacts ==
    ASSUME NEW n \in Nat, NEW rows, NEW T \in SUBSET (1..n)
    PROVE  /\ IsFiniteSet(Again(rows, T)) /\ IsFiniteSet(Different(rows, T))
           /\ Cardinality(T) \in Nat
           /\ Cardinality(Again(rows, T)) \in Nat /\ Cardinality(Different(rows, T)) \in Nat
           /\ Cardinality(Again(rows, T)) + Cardinality(Different(rows, T)) = Cardinality(T)
<1> DEFINE again == {j \in T : \E i \in T : i < j /\ rows[i] = rows[j]}
           values == {rows[i] : i \in T}
           first == T \ again
           f == [i \in first |-> rows[i]]
<1>1. IsFiniteSet(T) /\ T \in SUBSET Nat
  <2>1. IsFiniteSet(1..n) /\ 1..n \in SUBSET Nat
    BY FS_Interval
  <2> QED BY <2>1, FS_Subset
<1>2. IsFiniteSet(again) /\ IsFiniteSet(first)
  BY <1>1, FS_Subset
<1>3. \A i, j \in first : f[i] = f[j] => i = j
  <2> SUFFICES ASSUME NEW i \in first, NEW j \in first, rows[i] = rows[j], i # j PROVE FALSE
    OBVIOUS
  <2>1. i \in Nat /\ j \in Nat /\ (i < j \/ j < i)
    BY <1>1
  <2> QED BY <2>1
<1>4. \A v \in values : \E i \in first : f[i] = v
  <2> SUFFICES ASSUME NEW v \in values PROVE \E i \in first : rows[i] = v
    OBVIOUS
  <2> DEFINE like == {i \in T : rows[i] = v}
  <2>1. like \in SUBSET Nat /\ like # {}
    BY <1>1
  <2>2. PICK i \in like : \A j \in like : i <= j
    <3> HIDE DEF like
    <3> QED BY <2>1, Least
  <2>3. \A j \in T : j < i => rows[j] # rows[i]
    <3> SUFFICES ASSUME NEW j \in T, j < i, rows[j] = rows[i] PROVE FALSE
      OBVIOUS
    <3>1. j \in like /\ i \in Nat /\ j \in Nat
      BY <1>1
    <3> QED BY <2>2, <3>1
  <2> QED BY <2>3
<1>5. f \in [first -> values]
  OBVIOUS
<1> HIDE DEF f
<1>6. f \in Bijection(first, values)
  BY <1>3, <1>4, <1>5 DEF Bijection, Injection, Surjection, IsInjective
<1> HIDE DEF first, values, again
<1>7. IsFiniteSet(values) /\ Cardinality(values) = Cardinality(first)
  BY <1>2, <1>6, FS_Bijection DEF ExistsBijection
<1>8. Cardinality(first) = Cardinality(T) - Cardinality(T \cap again)
  BY <1>1, <1>2, FS_Difference DEF first
<1>9. T \cap again = again
  BY DEF again
<1>10. /\ Cardinality(T) \in Nat /\ Cardinality(again) \in Nat /\ Cardinality(values) \in Nat
  BY <1>1, <1>2, <1>7, FS_CardinalityType
<1>11. Cardinality(again) + Cardinality(values) = Cardinality(T)
  <2> DEFINE a == Cardinality(again)
             v == Cardinality(values)
             t == Cardinality(T)
  <2>1. v = t - a
    BY <1>7, <1>8, <1>9
  <2>2. v \in Nat /\ a \in Nat /\ t \in Nat
    BY <1>10
  <2> HIDE DEF a, v, t
  <2>3. a + v = t
    BY <2>1, <2>2
  <2> QED BY <2>3 DEF a, v, t
<1>12. again = Again(rows, T) /\ values = Different(rows, T)
  BY DEF again, values, Again, Different
<1> QED BY <1>2, <1>7, <1>10, <1>11, <1>12

--------------------------------------------------------------------------
(* The checks that group. *)

\* The rows beyond the first of each: as many as what is repeated says, and what is left
\* is as many as there are different ones.
LEMMA ExactFacts ==
    ASSUME NEW R, NEW rows \in Seq(R), \A i \in DOMAIN rows : rows[i][1] # Null,
           NEW e, e = ExactDuplicates(rows),
           NEW again, again = {j \in DOMAIN rows : \E i \in 1..j - 1 : rows[i] = rows[j]}
    PROVE  e.extra = Cardinality(again) /\ e.distinct = Len(rows) - Cardinality(again)
<1> DEFINE n == Len(rows)
           T == 1..n
           groups == ToSet(rows)
           HeldBy(g) == Cardinality({i \in T : rows[i] = g})
           repeated == {g \in groups : HeldBy(g) > 1}
           U == {i \in T : rows[i] \in repeated}
           late == {j \in T : \E i \in T : i < j /\ rows[i] = rows[j]}
           lateU == {j \in U : \E i \in U : i < j /\ rows[i] = rows[j]}
<1>1. n \in Nat /\ DOMAIN rows = T /\ IsFiniteSet(T) /\ Cardinality(T) = n
  <2>1. n \in Nat /\ DOMAIN rows = T
    BY LenProperties
  <2> QED BY <2>1, FS_Interval
<1>2. groups = {rows[i] : i \in T}
  BY <1>1 DEF ToSet
<1>3. /\ e.extra = SumFunction([g \in repeated |-> HeldBy(g)]) - Cardinality(repeated)
      /\ e.distinct = IF repeated = {} THEN n ELSE Cardinality(groups)
  <2>1. \A g : CountIn(rows, LAMBDA r : r = g /\ r[1] # Null) = HeldBy(g)
    <3> TAKE g
    <3>1. {i \in DOMAIN rows : rows[i] = g /\ rows[i][1] # Null} = {i \in T : rows[i] = g}
      BY <1>1
    <3> QED BY <3>1 DEF CountIn
  <2> DEFINE H(g) == CountIn(rows, LAMBDA r : r = g /\ r[1] # Null)
             rep == {g \in groups : H(g) > 1}
  <2>2. /\ e.extra = SumOf(rep, H) - Cardinality(rep)
        /\ e.distinct = IF rep = {} THEN n ELSE Cardinality(groups)
    BY DEF ExactDuplicates
  <2>3. rep = repeated
    BY <2>1
  <2>4. SumOf(rep, H) = SumFunction([g \in rep |-> H(g)])
    BY DEF SumOf
  <2>5. [g \in rep |-> H(g)] = [g \in rep |-> HeldBy(g)]
    BY <2>1
  <2> HIDE DEF H, rep, repeated, HeldBy
  <2> QED BY <2>2, <2>3, <2>4, <2>5
<1>4. again = late
  <2>1. again = {j \in T : \E i \in 1..j - 1 : rows[i] = rows[j]}
    BY <1>1
  <2>2. ASSUME NEW j \in T
        PROVE  (\E i \in 1..j - 1 : rows[i] = rows[j]) <=> \E i \in T : i < j /\ rows[i] = rows[j]
    <3>1. \A i : i \in 1..j - 1 <=> i \in T /\ i < j
      BY <1>1
    <3> QED BY <3>1
  <2> QED BY <2>1, <2>2
<1>5. ASSUME NEW i \in T, NEW j \in T, i # j, rows[i] = rows[j] PROVE rows[j] \in repeated
  <2> DEFINE S == {k \in T : rows[k] = rows[j]}
  <2>1. IsFiniteSet(S) /\ i \in S /\ j \in S
    BY <1>1, <1>5, FS_Subset
  <2>2. Cardinality(S) > 1
    <3> HIDE DEF S
    <3> QED BY <1>5, <2>1, TwoDiffer
  <2>3. rows[j] \in groups
    BY <1>2
  <2> QED BY <2>2, <2>3
<1> HIDE DEF HeldBy
<1>6. U \in SUBSET T /\ repeated = {rows[i] : i \in U}
  <2>1. ASSUME NEW g \in repeated PROVE \E i \in U : g = rows[i]
    BY <1>2
  <2> QED BY <2>1
<1> HIDE DEF repeated
<1>7. lateU = late
  <2>1. ASSUME NEW j \in late PROVE j \in lateU
    <3>1. PICK i \in T : i < j /\ rows[i] = rows[j]
      OBVIOUS
    <3>2. i # j /\ j \in T
      BY <1>1, <3>1
    <3>3. rows[j] \in repeated
      BY <1>5, <3>1, <3>2
    <3> QED BY <3>1, <3>2, <3>3
  <2>2. lateU \subseteq late
    OBVIOUS
  <2> QED BY <2>1, <2>2
<1>8. /\ IsFiniteSet(lateU) /\ IsFiniteSet(repeated) /\ IsFiniteSet(U)
      /\ Cardinality(U) \in Nat /\ Cardinality(lateU) \in Nat /\ Cardinality(repeated) \in Nat
      /\ Cardinality(lateU) + Cardinality(repeated) = Cardinality(U)
  <2>1. IsFiniteSet(U)
    BY <1>1, <1>6, FS_Subset
  <2> HIDE DEF U, T
  <2>2. lateU = Again(rows, U) /\ repeated = Different(rows, U)
    BY <1>6 DEF Again, Different
  <2>3. U \in SUBSET (1..n)
    BY <1>6 DEF T
  <2>4. n \in Nat
    BY <1>1
  <2> HIDE DEF lateU, n
  <2>5. /\ IsFiniteSet(Again(rows, U)) /\ IsFiniteSet(Different(rows, U)) /\ Cardinality(U) \in Nat
        /\ Cardinality(Again(rows, U)) \in Nat /\ Cardinality(Different(rows, U)) \in Nat
        /\ Cardinality(Again(rows, U)) + Cardinality(Different(rows, U)) = Cardinality(U)
    BY ONLY <2>3, <2>4, AgainFacts
  <2> QED BY <2>1, <2>2, <2>5
<1>9. SumFunction([g \in repeated |-> HeldBy(g)]) = Cardinality(U)
  <2> DEFINE key == [i \in U |-> rows[i]]
             one == [g \in repeated |-> Cardinality({i \in U : key[i] = g})]
  <2>1. key \in [U -> repeated]
    OBVIOUS
  <2>2. one = [g \in repeated |-> HeldBy(g)]
    <3>1. ASSUME NEW g \in repeated PROVE {i \in U : key[i] = g} = {i \in T : rows[i] = g}
      OBVIOUS
    <3> QED BY <3>1 DEF HeldBy
  <2>3. SumFunction(one) = Cardinality(U)
    <3> HIDE DEF key, U
    <3> QED BY <1>8, <2>1, SumOfCounts
  <2> HIDE DEF one
  <2> QED BY <2>2, <2>3
<1>10. /\ Cardinality(late) \in Nat /\ Cardinality(groups) \in Nat
       /\ Cardinality(late) + Cardinality(groups) = n
  <2>1. late = Again(rows, T) /\ groups = Different(rows, T) /\ T \in SUBSET (1..n)
    BY <1>2 DEF Again, Different
  <2>2. n \in Nat
    BY <1>1
  <2> HIDE DEF late, T, n, groups
  <2>3. /\ Cardinality(Again(rows, T)) \in Nat /\ Cardinality(Different(rows, T)) \in Nat
        /\ Cardinality(Again(rows, T)) + Cardinality(Different(rows, T)) = Cardinality(T)
    BY ONLY <2>1, <2>2, AgainFacts
  <2> QED BY <1>1, <2>1, <2>3
<1>11. ASSUME repeated = {} PROVE Cardinality(late) = 0
  <2>1. lateU = {}
    BY <1>11
  <2> QED BY <1>7, <2>1, FS_EmptySet
<1> HIDE DEF late, lateU, U, T, groups, n
<1>12. e.extra = Cardinality(late)
  BY <1>3, <1>7, <1>8, <1>9
<1>13. e.distinct = n - Cardinality(late)
  <2>1. CASE repeated = {}
    BY <1>1, <1>3, <1>11, <2>1
  <2>2. CASE repeated # {}
    BY <1>3, <1>10, <2>2
  <2> QED BY <2>1, <2>2
<1> QED BY <1>4, <1>12, <1>13 DEF n

\* An identity is in two splits exactly when two rows of it are.
LEMMA LeakFacts ==
    ASSUME NEW R, NEW rows \in Seq(R), NEW id
    PROVE  id \in SplitLeakage(rows).leaked <=>
               \E i, j \in DOMAIN rows :
                   /\ rows[i][1] = id /\ rows[j][1] = id
                   /\ rows[i][2] # rows[j][2] /\ Null \notin {rows[i][2], rows[j][2]}
<1> DEFINE ids == {r[1] : r \in ToSet(rows)}
           Spread(x) == {r[2] : r \in {r \in ToSet(rows) : r[1] = x}} \ {Null}
           S == Spread(id)
           T == {i \in DOMAIN rows : rows[i][1] = id /\ rows[i][2] # Null}
           f == [i \in T |-> rows[i][2]]
<1>1. SplitLeakage(rows).leaked = {x \in ids : Cardinality(Spread(x)) > 1}
  BY DEF SplitLeakage
<1>2. S = {rows[i][2] : i \in T}
  BY DEF ToSet
<1>3. IsFiniteSet(S)
  <2>1. Len(rows) \in Nat /\ DOMAIN rows = 1..Len(rows) /\ IsFiniteSet(DOMAIN rows)
    BY LenProperties, FS_Interval
  <2>2. IsFiniteSet(T)
    BY <2>1, FS_Subset
  <2>3. f \in [T -> S] /\ \A x \in S : \E i \in T : f[i] = x
    BY <1>2
  <2> HIDE DEF f, S, T
  <2>4. f \in Surjection(T, S)
    BY <2>3 DEF Surjection
  <2> QED BY <2>2, <2>4, FS_Surjection
<1>4. Cardinality(S) > 1 <=> \E x, y \in S : x # y
  <2> HIDE DEF S
  <2> QED BY <1>3, TwoDiffer
<1>5. (\E x, y \in S : x # y) <=>
          \E i, j \in DOMAIN rows :
              /\ rows[i][1] = id /\ rows[j][1] = id
              /\ rows[i][2] # rows[j][2] /\ Null \notin {rows[i][2], rows[j][2]}
  <2> HIDE DEF S
  <2>1. (\E x, y \in S : x # y) <=> \E i, j \in T : rows[i][2] # rows[j][2]
    BY <1>2
  <2> QED BY <2>1
<1>6. (\E i \in DOMAIN rows : rows[i][1] = id) => id \in ids
  BY DEF ToSet
<1>7. id \in SplitLeakage(rows).leaked <=> id \in ids /\ Cardinality(S) > 1
  BY <1>1
<1> HIDE DEF S, ids
<1> QED BY <1>4, <1>5, <1>6, <1>7

\* As many rows as classes of the least, and no more than classes of the largest.
LEMMA BalanceFacts ==
    ASSUME NEW R, NEW rows \in Seq(R), rows # <<>>, NEW b, b = ClassBalance(rows)
    PROVE  b.classes * b.smallest <= Len(rows) /\ Len(rows) <= b.classes * b.largest
<1> DEFINE n == Len(rows)
           T == 1..n
           classes == {r[1] : r \in ToSet(rows)}
           key == [i \in T |-> rows[i][1]]
           held == [c \in classes |-> Cardinality({i \in T : key[i] = c})]
           H(c) == CountIn(rows, LAMBDA r : r[1] = c)
           top == CHOOSE c \in classes : \A d \in classes : H(d) <= H(c)
           least == CHOOSE c \in classes : \A d \in classes : H(c) <= H(d)
<1>1. n \in Nat /\ n # 0 /\ DOMAIN rows = T /\ IsFiniteSet(T) /\ Cardinality(T) = n
  <2>1. n \in Nat /\ DOMAIN rows = T /\ n # 0
    BY LenProperties, EmptySeq
  <2> QED BY <2>1, FS_Interval
<1>2. classes = {rows[i][1] : i \in T} /\ classes # {} /\ key \in [T -> classes]
  <2>1. classes = {rows[i][1] : i \in T}
    BY <1>1 DEF ToSet
  <2>2. 1 \in T
    BY <1>1
  <2> QED BY <2>1, <2>2
<1>3. IsFiniteSet(classes)
  <2> HIDE DEF T
  <2>1. \A c \in classes : \E i \in T : key[i] = c
    BY <1>2
  <2> HIDE DEF key, classes
  <2>2. key \in Surjection(T, classes)
    BY <1>2, <2>1 DEF Surjection
  <2> QED BY <1>1, <2>2, FS_Surjection
<1>4. \A c \in classes : held[c] \in Nat /\ held[c] <= n
  <2> HIDE DEF T, key, classes, n
  <2> TAKE c \in classes
  <2> DEFINE S == {i \in T : key[i] = c}
  <2>1. S \in SUBSET T /\ held[c] = Cardinality(S)
    OBVIOUS
  <2> HIDE DEF S, held
  <2> QED BY <1>1, <2>1, CountFacts
<1>5. SumFunction(held) = n
  <2>1. IsFiniteSet(T) /\ key \in [T -> classes] /\ Cardinality(T) = n
    BY <1>1, <1>2
  <2> HIDE DEF T, key, classes, n
  <2>2. SumFunction(held) = Cardinality(T)
    BY <1>3, <2>1, SumOfCounts
  <2> QED BY <2>1, <2>2
<1>6. held \in [classes -> Nat]
  BY <1>4
<1>7. /\ b.classes = Cardinality(classes)
      /\ b.largest = H(top) /\ b.smallest = H(least)
  BY DEF ClassBalance
<1>8. \A c \in classes : H(c) = held[c]
  <2> TAKE c \in classes
  <2>1. {i \in DOMAIN rows : rows[i][1] = c} = {i \in T : key[i] = c}
    BY <1>1
  <2> QED BY <2>1 DEF CountIn
<1> HIDE DEF H, held, key, T
<1>9. /\ \E c \in classes : \A d \in classes : held[c] <= held[d]
      /\ \E c \in classes : \A d \in classes : held[d] <= held[c]
  <2> HIDE DEF classes, n
  <2> QED BY <1>1, <1>2, <1>4, <1>6, Extremes
<1> HIDE DEF classes, n
<1>10. top \in classes /\ \A d \in classes : held[d] <= held[top]
  <2>1. \E c \in classes : \A d \in classes : H(d) <= H(c)
    BY <1>8, <1>9
  <2>2. top \in classes /\ \A d \in classes : H(d) <= H(top)
    BY <2>1
  <2> QED BY <1>8, <2>2
<1>11. least \in classes /\ \A d \in classes : held[least] <= held[d]
  <2>1. \E c \in classes : \A d \in classes : H(c) <= H(d)
    BY <1>8, <1>9
  <2>2. least \in classes /\ \A d \in classes : H(least) <= H(d)
    BY <2>1
  <2> QED BY <1>8, <2>2
<1> HIDE DEF top, least
<1>12. b.largest = held[top] /\ b.smallest = held[least]
  BY <1>7, <1>8, <1>10, <1>11
<1> DEFINE lo == held[least]
           hi == held[top]
<1>13. /\ lo \in Nat /\ hi \in Nat
       /\ \A x \in classes : lo <= held[x] /\ held[x] <= hi
  BY <1>4, <1>10, <1>11
<1> HIDE DEF lo, hi
<1>14. /\ lo * Cardinality(classes) <= SumFunction(held)
       /\ SumFunction(held) <= hi * Cardinality(classes)
  BY <1>3, <1>6, <1>13, SumBetween
<1>15. Cardinality(classes) \in Nat
  BY <1>3, FS_CardinalityType
<1> DEFINE k == Cardinality(classes)
<1>16. k \in Nat /\ b.classes = k /\ b.smallest = lo /\ b.largest = hi
  BY <1>7, <1>12, <1>15 DEF lo, hi
<1>17. lo * k <= n /\ n <= hi * k
  BY <1>5, <1>14
<1> HIDE DEF k
<1>18. lo * k = k * lo /\ hi * k = k * hi
  BY <1>13, <1>16
<1> QED BY <1>16, <1>17, <1>18 DEF n

--------------------------------------------------------------------------
(* Batches. *)

LEMMA DivFacts ==
    ASSUME NEW a \in Nat, NEW k \in Nat \ {0}
    PROVE  /\ a \div k \in Nat
           /\ (a \div k) * k <= a /\ a < (a \div k) * k + k
           /\ \A q \in Nat : q * k <= a /\ a < q * k + k => a \div k = q
OBVIOUS

LEMMA TimesFacts ==
    ASSUME NEW k \in Nat \ {0}, NEW p \in Nat, NEW q \in Nat
    PROVE  p * k \in Nat /\ (p < q => p * k + k <= q * k) /\ (p + 1) * k = p * k + k
OBVIOUS

\* Every row is in one batch, by its place, and no batch begins behind the last.
LEMMA Blocks ==
    ASSUME NEW n \in Nat, NEW k \in Nat \ {0}, NEW m, m = (n + k - 1) \div k
    PROVE  /\ m \in Nat
           /\ \A i \in 1..n : /\ (i - 1) \div k \in 0..m - 1
                              /\ ((i - 1) \div k) * k < i
                              /\ i <= ((i - 1) \div k) * k + k
           /\ \A p \in 0..m - 1 : p * k \in Nat /\ p * k < n
           /\ \A p \in Nat, i \in 1..n : p * k < i /\ i <= p * k + k => p = (i - 1) \div k
<1>1. m \in Nat /\ m * k <= n + k - 1 /\ n + k - 1 < m * k + k
  BY DivFacts
<1>2. ASSUME NEW i \in 1..n
      PROVE  /\ (i - 1) \div k \in 0..m - 1
             /\ ((i - 1) \div k) * k < i
             /\ i <= ((i - 1) \div k) * k + k
  <2> DEFINE p == (i - 1) \div k
  <2>1. p \in Nat /\ p * k <= i - 1 /\ i - 1 < p * k + k
    BY DivFacts
  <2> HIDE DEF p
  <2>2. p * k \in Nat /\ m * k \in Nat /\ (m < p => m * k + k <= p * k)
    BY <1>1, <2>1, TimesFacts
  <2>3. p # m
    <3> SUFFICES ASSUME p = m PROVE FALSE
      OBVIOUS
    <3>1. p * k = m * k
      OBVIOUS
    <3> QED BY <1>1, <2>1, <2>2, <3>1
  <2>4. ~(m < p)
    BY <1>1, <2>1, <2>2
  <2>5. p \in 0..m - 1
    BY <1>1, <2>1, <2>3, <2>4
  <2>6. p * k < i /\ i <= p * k + k
    BY <2>1, <2>2
  <2> QED BY <2>5, <2>6 DEF p
<1>3. ASSUME NEW p \in 0..m - 1 PROVE p * k \in Nat /\ p * k < n
  <2>1. p \in Nat /\ p < m
    BY <1>1
  <2>2. p * k \in Nat /\ m * k \in Nat /\ p * k + k <= m * k
    BY <1>1, <2>1, TimesFacts
  <2> DEFINE x == p * k
             y == m * k
  <2>3. x \in Nat /\ y \in Nat /\ x + k <= y /\ y <= n + k - 1
    BY <1>1, <2>2
  <2> HIDE DEF x, y
  <2>4. x \in Nat /\ x < n
    BY <2>3
  <2> QED BY <2>4 DEF x
<1>4. ASSUME NEW p \in Nat, NEW i \in 1..n, p * k < i, i <= p * k + k
      PROVE  p = (i - 1) \div k
  <2>1. i - 1 \in Nat /\ p * k \in Nat
    BY TimesFacts
  <2>2. p * k <= i - 1 /\ i - 1 < p * k + k
    BY <1>4, <2>1
  <2> QED BY <2>1, <2>2, DivFacts
<1> QED BY <1>1, <1>2, <1>3, <1>4

RowAt(b, x) == (b - 1) * BatchRows + x

\* A batch is the rows from its place on.
LEMMA BatchFacts ==
    ASSUME NEW R, NEW rows \in Seq(R), NEW s, s = Batches(rows)
    PROVE  /\ Len(s) \in Nat /\ DOMAIN s = 1..Len(s)
           /\ \A b \in DOMAIN s :
                 /\ s[b] \in Seq(R) /\ IsFiniteSet(DOMAIN s[b])
                 /\ \A x \in DOMAIN s[b] : RowAt(b, x) \in DOMAIN rows /\ s[b][x] = rows[RowAt(b, x)]
           /\ \A i \in DOMAIN rows : \E b \in DOMAIN s : \E x \in DOMAIN s[b] : RowAt(b, x) = i
           /\ \A b, c \in DOMAIN s : \A x \in DOMAIN s[b], y \in DOMAIN s[c] :
                 RowAt(b, x) = RowAt(c, y) => b = c /\ x = y
<1> DEFINE k == BatchRows
           n == Len(rows)
           m == (n + k - 1) \div k
           from(b) == (b - 1) * k
           to(b) == Lesser(b * k, n)
<1>1. k \in Nat \ {0} /\ n \in Nat /\ DOMAIN rows = 1..n
  BY LenProperties, ScanChecksAssumption
<1>2. s = [b \in 1..m |-> SubSeq(rows, from(b) + 1, to(b))]
  BY DEF Batches
<1>3. /\ m \in Nat
      /\ \A i \in 1..n : /\ (i - 1) \div k \in 0..m - 1
                         /\ ((i - 1) \div k) * k < i
                         /\ i <= ((i - 1) \div k) * k + k
      /\ \A p \in 0..m - 1 : p * k \in Nat /\ p * k < n
      /\ \A p \in Nat, i \in 1..n : p * k < i /\ i <= p * k + k => p = (i - 1) \div k
  <2> HIDE DEF n, k
  <2> QED BY <1>1, Blocks
<1> HIDE DEF m, k, n
<1>4. DOMAIN s = 1..m /\ Len(s) = m
  BY <1>2, <1>3
<1>5. ASSUME NEW b \in 1..m
      PROVE  /\ from(b) \in Nat /\ from(b) < n /\ b - 1 \in Nat /\ b - 1 \in 0..m - 1
             /\ to(b) \in Nat /\ to(b) <= n /\ from(b) < to(b)
             /\ \A i \in 1..n : i <= to(b) <=> i <= from(b) + k
  <2>1. b - 1 \in Nat /\ b - 1 \in 0..m - 1 /\ (b - 1) + 1 = b
    BY <1>3
  <2>2. from(b) \in Nat /\ from(b) < n
    BY <1>3, <2>1
  <2>3. b * k = from(b) + k
    BY <1>1, <2>1, TimesFacts
  <2> HIDE DEF from
  <2>4. /\ to(b) \in Nat /\ to(b) <= n /\ from(b) < to(b)
        /\ \A i \in 1..n : i <= to(b) <=> i <= from(b) + k
    BY <1>1, <2>2, <2>3 DEF Lesser
  <2> QED BY <2>1, <2>2, <2>4
<1>6. ASSUME NEW b \in 1..m
      PROVE  /\ s[b] \in Seq(R) /\ DOMAIN s[b] = 1..to(b) - from(b) /\ IsFiniteSet(DOMAIN s[b])
             /\ \A x \in DOMAIN s[b] : s[b][x] = rows[from(b) + x]
             /\ \A x \in DOMAIN s[b] : from(b) + x \in 1..n /\ from(b) + x <= from(b) + k
  <2> DEFINE f == from(b)
             t == to(b)
  <2>1. f \in Nat /\ t \in Nat /\ f < n /\ t <= n /\ f < t
    BY <1>5
  <2>2. s[b] = SubSeq(rows, f + 1, t)
    BY <1>2
  <2>3. \A i \in 1..n : i <= t <=> i <= f + k
    BY <1>5
  <2> HIDE DEF f, t
  <2>4. /\ s[b] \in Seq(R) /\ DOMAIN s[b] = 1..t - f
        /\ \A x \in 1..t - f : s[b][x] = rows[f + x] /\ f + x \in 1..n /\ f + x <= t
    <3>1. s[b] = [x \in 1..t - f |-> rows[f + x]]
      BY <1>1, <2>1, <2>2
    <3>2. \A x \in 1..t - f : f + x \in 1..n /\ f + x <= t
      BY <1>1, <2>1
    <3>3. \A i \in 1..n : rows[i] \in R
      BY <1>1
    <3>4. s[b] \in [1..t - f -> R]
      BY <3>1, <3>2, <3>3
    <3>5. t - f \in Nat
      BY <2>1
    <3>6. s[b] \in Seq(R)
      BY <3>4, <3>5, SeqDef
    <3> QED BY <3>1, <3>2, <3>6
  <2>5. IsFiniteSet(DOMAIN s[b])
    BY <2>1, <2>4, FS_Interval
  <2> QED BY <2>3, <2>4, <2>5 DEF f, t
<1>7. \A b \in 1..m : \A x : RowAt(b, x) = from(b) + x
  BY DEF RowAt, k
<1>8. ASSUME NEW i \in 1..n
      PROVE  \E b \in 1..m : \E x \in DOMAIN s[b] : from(b) + x = i
  <2> DEFINE b == (i - 1) \div k + 1
             x == i - from(b)
  <2>1. b \in 1..m /\ b - 1 = (i - 1) \div k
    BY <1>3
  <2>2. from(b) < i /\ i <= from(b) + k /\ from(b) \in Nat
    BY <1>3, <1>5, <2>1
  <2>3. i <= to(b) /\ to(b) \in Nat
    BY <1>5, <2>1, <2>2
  <2> HIDE DEF b, from, to
  <2>4. x \in 1..to(b) - from(b) /\ from(b) + x = i
    BY <1>1, <2>2, <2>3
  <2>5. x \in DOMAIN s[b]
    BY <1>6, <2>1, <2>4
  <2> QED BY <2>1, <2>4, <2>5
<1>9. ASSUME NEW b \in 1..m, NEW c \in 1..m, NEW x \in DOMAIN s[b], NEW y \in DOMAIN s[c],
             from(b) + x = from(c) + y
      PROVE  b = c /\ x = y
  <2> DEFINE i == from(b) + x
  <2>1. /\ i \in 1..n /\ from(b) \in Nat /\ from(c) \in Nat /\ x \in Nat /\ y \in Nat
        /\ from(b) < i /\ i <= from(b) + k /\ from(c) < i /\ i <= from(c) + k
        /\ b - 1 \in Nat /\ c - 1 \in Nat
    <3>1. /\ x \in 1..to(b) - from(b) /\ i \in 1..n /\ i <= from(b) + k
          /\ from(b) \in Nat /\ to(b) \in Nat /\ b - 1 \in Nat
      BY <1>5, <1>6
    <3>2. /\ y \in 1..to(c) - from(c) /\ from(c) + y <= from(c) + k
          /\ from(c) \in Nat /\ to(c) \in Nat /\ c - 1 \in Nat
      BY <1>5, <1>6
    <3>3. i = from(c) + y
      BY <1>9
    <3> HIDE DEF from, to, i
    <3>4. i = from(b) + x
      BY DEF i
    <3> QED BY <1>1, <3>1, <3>2, <3>3, <3>4
  <2>2. b - 1 = (i - 1) \div k /\ c - 1 = (i - 1) \div k
    <3> HIDE DEF i
    <3> QED BY <1>3, <2>1
  <2>3. b = c
    BY <2>2
  <2>4. from(b) = from(c)
    BY <2>3
  <2> HIDE DEF from
  <2> QED BY <1>9, <2>1, <2>3, <2>4
<1> HIDE DEF from, to
<1>10. Len(s) \in Nat /\ DOMAIN s = 1..Len(s)
  BY <1>3, <1>4
<1>11. ASSUME NEW b \in DOMAIN s
       PROVE  /\ s[b] \in Seq(R) /\ IsFiniteSet(DOMAIN s[b])
              /\ \A x \in DOMAIN s[b] : RowAt(b, x) \in DOMAIN rows /\ s[b][x] = rows[RowAt(b, x)]
  BY <1>1, <1>4, <1>6, <1>7
<1>12. \A i \in DOMAIN rows : \E b \in DOMAIN s : \E x \in DOMAIN s[b] : RowAt(b, x) = i
  BY <1>1, <1>4, <1>7, <1>8
<1>13. \A b, c \in DOMAIN s : \A x \in DOMAIN s[b], y \in DOMAIN s[c] :
          RowAt(b, x) = RowAt(c, y) => b = c /\ x = y
  BY <1>4, <1>7, <1>9
<1> QED BY <1>10, <1>11, <1>12, <1>13

InBatches(rows, Q) ==
    SumFunction([b \in DOMAIN Batches(rows) |->
        Cardinality({x \in DOMAIN Batches(rows)[b] : Batches(rows)[b][x] \in Q})])

\* Counted in batches, the rows of a kind are counted once each.
LEMMA CountedOnce ==
    ASSUME NEW R, NEW rows \in Seq(R), NEW Q
    PROVE  InBatches(rows, Q) = Cardinality({i \in DOMAIN rows : rows[i] \in Q})
<1> DEFINE s == Batches(rows)
           B == DOMAIN s
           T == {i \in DOMAIN rows : rows[i] \in Q}
           X(b) == {x \in DOMAIN s[b] : s[b][x] \in Q}
           Has(b, i) == \E x \in DOMAIN s[b] : RowAt(b, x) = i
           key == [i \in T |-> CHOOSE b \in B : Has(b, i)]
           one == [b \in B |-> Cardinality(X(b))]
           two == [b \in B |-> Cardinality({i \in T : key[i] = b})]
<1>1. /\ Len(s) \in Nat /\ DOMAIN s = 1..Len(s)
      /\ \A b \in DOMAIN s :
            /\ s[b] \in Seq(R) /\ IsFiniteSet(DOMAIN s[b])
            /\ \A x \in DOMAIN s[b] : RowAt(b, x) \in DOMAIN rows /\ s[b][x] = rows[RowAt(b, x)]
      /\ \A i \in DOMAIN rows : \E b \in DOMAIN s : \E x \in DOMAIN s[b] : RowAt(b, x) = i
      /\ \A b, c \in DOMAIN s : \A x \in DOMAIN s[b], y \in DOMAIN s[c] :
            RowAt(b, x) = RowAt(c, y) => b = c /\ x = y
  BY BatchFacts
<1> HIDE DEF s
<1>2. IsFiniteSet(B) /\ IsFiniteSet(T)
  <2>1. Len(rows) \in Nat /\ DOMAIN rows = 1..Len(rows) /\ IsFiniteSet(DOMAIN rows)
    BY LenProperties, FS_Interval
  <2>2. T \in SUBSET DOMAIN rows
    OBVIOUS
  <2>3. IsFiniteSet(B)
    BY <1>1, FS_Interval
  <2> HIDE DEF T
  <2> QED BY <2>1, <2>2, <2>3, FS_Subset
<1>3. \A i \in T : key[i] \in B /\ Has(key[i], i)
  <2> SUFFICES ASSUME NEW i \in T PROVE key[i] \in B /\ Has(key[i], i)
    OBVIOUS
  <2>1. \E b \in B : Has(b, i)
    BY <1>1
  <2> HIDE DEF Has
  <2> QED BY <2>1
<1>4. \A i \in T, b \in B : Has(b, i) => key[i] = b
  BY <1>1, <1>3
<1> HIDE DEF key
<1>5. \A b \in B : Cardinality(X(b)) = Cardinality({i \in T : key[i] = b})
  <2> SUFFICES ASSUME NEW b \in B PROVE Cardinality(X(b)) = Cardinality({i \in T : key[i] = b})
    OBVIOUS
  <2> DEFINE Xb == X(b)
             Tb == {i \in T : key[i] = b}
             f == [x \in Xb |-> RowAt(b, x)]
  <2>1. IsFiniteSet(Xb)
    <3>1. Xb \in SUBSET DOMAIN s[b] /\ IsFiniteSet(DOMAIN s[b])
      BY <1>1
    <3> HIDE DEF Xb
    <3> QED BY <3>1, FS_Subset
  <2>2. f \in [Xb -> Tb]
    <3> SUFFICES ASSUME NEW x \in Xb PROVE RowAt(b, x) \in Tb
      OBVIOUS
    <3>1. RowAt(b, x) \in T /\ Has(b, RowAt(b, x))
      BY <1>1
    <3> QED BY <1>4, <3>1
  <2>3. \A x, y \in Xb : f[x] = f[y] => x = y
    BY <1>1
  <2>4. \A i \in Tb : \E x \in Xb : f[x] = i
    <3> SUFFICES ASSUME NEW i \in Tb PROVE \E x \in Xb : RowAt(b, x) = i
      OBVIOUS
    <3>1. PICK x \in DOMAIN s[b] : RowAt(b, x) = i
      BY <1>3
    <3>2. s[b][x] = rows[i]
      BY <1>1, <3>1
    <3> QED BY <3>1, <3>2
  <2> HIDE DEF f, Xb, Tb
  <2>5. f \in Bijection(Xb, Tb)
    BY <2>2, <2>3, <2>4 DEF Bijection, Injection, Surjection, IsInjective
  <2>6. Cardinality(Tb) = Cardinality(Xb)
    BY <2>1, <2>5, FS_Bijection DEF ExistsBijection
  <2> QED BY <2>6 DEF Xb, Tb
<1> HIDE DEF X
<1>6. one = two
  BY <1>5
<1>7. SumFunction(two) = Cardinality(T)
  <2>1. key \in [T -> B]
    <3> DEFINE c(i) == CHOOSE b \in B : Has(b, i)
    <3>1. key = [i \in T |-> c(i)]
      BY DEF key
    <3> HIDE DEF c
    <3>2. key = [i \in T |-> key[i]]
      BY <3>1
    <3>3. \A i \in T : key[i] \in B
      BY <1>3
    <3> QED BY <3>2, <3>3
  <2> HIDE DEF T, B
  <2> QED BY <1>2, <2>1, SumOfCounts
<1>8. InBatches(rows, Q) = SumFunction(one)
  BY DEF InBatches, s, X
<1> HIDE DEF one, two
<1> QED BY <1>6, <1>7, <1>8

\* None of a kind were counted when there is none.
LEMMA CountedNone ==
    ASSUME NEW R, NEW rows \in Seq(R), NEW Q
    PROVE  InBatches(rows, Q) = 0 <=> \A i \in DOMAIN rows : rows[i] \notin Q
<1> DEFINE T == {i \in DOMAIN rows : rows[i] \in Q}
<1>1. Len(rows) \in Nat /\ DOMAIN rows = 1..Len(rows) /\ IsFiniteSet(DOMAIN rows)
  BY LenProperties, FS_Interval
<1>2. T \in SUBSET DOMAIN rows /\ (T = {} <=> \A i \in DOMAIN rows : rows[i] \notin Q)
  OBVIOUS
<1>3. InBatches(rows, Q) = Cardinality(T)
  BY CountedOnce
<1> HIDE DEF T
<1> QED BY <1>1, <1>2, <1>3, CountFacts

\* Of finitely many numbers one is the greatest.
LEMMA Greatest ==
    ASSUME NEW T \in SUBSET Nat, T # {}, IsFiniteSet(T)
    PROVE  \E x \in T : \A y \in T : y <= x
<1>1. /\ Cardinality(T) \in Nat
      /\ \A n \in 1 .. Cardinality(T) : \E i \in T : Cardinality({j \in T : j <= i}) = n
  BY Ranks
<1>2. Cardinality(T) \in 1..Cardinality(T)
  BY <1>1, FS_EmptySet
<1>3. PICK x \in T : Cardinality({j \in T : j <= x}) = Cardinality(T)
  BY <1>1, <1>2
<1> DEFINE U == {j \in T : j <= x}
<1>4. U \in SUBSET T /\ Cardinality(U) = Cardinality(T)
  BY <1>3
<1>5. U = T
  <2> HIDE DEF U
  <2> QED BY <1>4, FS_Subset
<1> QED BY <1>5

\* Content is called complete when no row has a hole.
LEMMA ContentFacts ==
    ASSUME NEW rows \in Seq({Null, "x"} \X {Null, "empty", "full"})
    PROVE  MissingContent(rows).complete <=>
               \A i \in DOMAIN rows : rows[i][1] # Null /\ rows[i][2] = "full"
<1> DEFINE R == {Null, "x"} \X {Null, "empty", "full"}
           A == {r \in R : r[1] = Null}
           B == {r \in R : r[2] = Null}
           C == {r \in R : r[2] = "empty"}
<1>1. \A i \in DOMAIN rows : rows[i] \in R
  OBVIOUS
<1>2. /\ Len(Batches(rows)) \in Nat
      /\ \A b \in DOMAIN Batches(rows) : \A x \in DOMAIN Batches(rows)[b] : Batches(rows)[b][x] \in R
  <2> HIDE DEF R
  <2> QED BY <1>1, BatchFacts
<1>3. /\ CountBatched(rows, LAMBDA r : r[1] = Null) = InBatches(rows, A)
      /\ CountBatched(rows, LAMBDA r : r[2] = Null) = InBatches(rows, B)
      /\ CountBatched(rows, LAMBDA r : r[2] = "empty") = InBatches(rows, C)
  <2> DEFINE s == Batches(rows)
  <2> HIDE DEF R
  <2>1. ASSUME NEW b \in DOMAIN s
        PROVE  /\ {x \in DOMAIN s[b] : s[b][x][1] = Null} = {x \in DOMAIN s[b] : s[b][x] \in A}
               /\ {x \in DOMAIN s[b] : s[b][x][2] = Null} = {x \in DOMAIN s[b] : s[b][x] \in B}
               /\ {x \in DOMAIN s[b] : s[b][x][2] = "empty"} = {x \in DOMAIN s[b] : s[b][x] \in C}
    BY <1>2
  <2> HIDE DEF A, B, C
  <2>2. /\ [b \in DOMAIN s |-> Cardinality({x \in DOMAIN s[b] : s[b][x][1] = Null})]
           = [b \in DOMAIN s |-> Cardinality({x \in DOMAIN s[b] : s[b][x] \in A})]
        /\ [b \in DOMAIN s |-> Cardinality({x \in DOMAIN s[b] : s[b][x][2] = Null})]
           = [b \in DOMAIN s |-> Cardinality({x \in DOMAIN s[b] : s[b][x] \in B})]
        /\ [b \in DOMAIN s |-> Cardinality({x \in DOMAIN s[b] : s[b][x][2] = "empty"})]
           = [b \in DOMAIN s |-> Cardinality({x \in DOMAIN s[b] : s[b][x] \in C})]
    BY <2>1
  <2>3. CountBatched(rows, LAMBDA r : r[1] = Null) = InBatches(rows, A)
    BY <2>2 DEF CountBatched, SumOf, CountIn, InBatches
  <2>4. CountBatched(rows, LAMBDA r : r[2] = Null) = InBatches(rows, B)
    BY <2>2 DEF CountBatched, SumOf, CountIn, InBatches
  <2>5. CountBatched(rows, LAMBDA r : r[2] = "empty") = InBatches(rows, C)
    BY <2>2 DEF CountBatched, SumOf, CountIn, InBatches
  <2> QED BY <2>3, <2>4, <2>5
<1>4. /\ InBatches(rows, A) = 0 <=> \A i \in DOMAIN rows : rows[i] \notin A
      /\ InBatches(rows, B) = 0 <=> \A i \in DOMAIN rows : rows[i] \notin B
      /\ InBatches(rows, C) = 0 <=> \A i \in DOMAIN rows : rows[i] \notin C
  <2> HIDE DEF A, B, C
  <2> QED BY CountedNone
<1>5. MissingContent(rows).complete <=>
          InBatches(rows, A) = 0 /\ InBatches(rows, B) = 0 /\ InBatches(rows, C) = 0
  <2> DEFINE a == CountBatched(rows, LAMBDA r : r[1] = Null)
             b == CountBatched(rows, LAMBDA r : r[2] = Null)
             c == CountBatched(rows, LAMBDA r : r[2] = "empty")
  <2>1. MissingContent(rows).complete <=> <<a, b>> = <<0, 0>> /\ c = 0
    BY DEF MissingContent
  <2>2. a = InBatches(rows, A) /\ b = InBatches(rows, B) /\ c = InBatches(rows, C)
    BY <1>3
  <2> HIDE DEF a, b, c, A, B, C
  <2> QED BY <2>1, <2>2
<1>6. ASSUME NEW i \in DOMAIN rows
      PROVE  rows[i] \notin A /\ rows[i] \notin B /\ rows[i] \notin C
                 <=> rows[i][1] # Null /\ rows[i][2] = "full"
  <2>1. rows[i] \in R /\ rows[i][2] \in {Null, "empty", "full"} /\ Null # "full"
    BY <1>1 DEF Null
  <2> QED BY <2>1
<1> HIDE DEF A, B, C, R
<1> QED BY <1>4, <1>5, <1>6

\* An embedding is dead, broken or live, and lengths that are mixed are two that differ.
LEMMA VectorFacts ==
    ASSUME NEW rows \in Seq({-2, -1} \cup Nat), NEW v, v = VectorHealth(rows), v.state = "done"
    PROVE  /\ Len(rows) = v.dead + v.broken + CountIn(rows, LAMBDA x : x > 0)
           /\ v.norms = "mixed" => Cardinality(ToSet(rows)) > 1
<1> DEFINE D == DOMAIN rows
           S == ToSet(rows)
           A == {i \in D : rows[i] \in {0}}
           B == {i \in D : rows[i] \in {-1}}
           C == {i \in D : rows[i] > 0}
           live == {x \in S : x > 0}
           lo == CHOOSE x \in live : \A w \in live : x <= w
           hi == CHOOSE x \in live : \A w \in live : w <= x
<1>1. Len(rows) \in Nat /\ D = 1..Len(rows) /\ IsFiniteSet(D) /\ Cardinality(D) = Len(rows)
  BY LenProperties, FS_Interval
<1>2. /\ CountBatched(rows, LAMBDA x : x = 0) = Cardinality(A)
      /\ CountBatched(rows, LAMBDA x : x = -1) = Cardinality(B)
  <2> DEFINE s == Batches(rows)
  <2>1. /\ [b \in DOMAIN s |-> Cardinality({x \in DOMAIN s[b] : s[b][x] = 0})]
           = [b \in DOMAIN s |-> Cardinality({x \in DOMAIN s[b] : s[b][x] \in {0}})]
        /\ [b \in DOMAIN s |-> Cardinality({x \in DOMAIN s[b] : s[b][x] = -1})]
           = [b \in DOMAIN s |-> Cardinality({x \in DOMAIN s[b] : s[b][x] \in {-1}})]
    <3> DEFINE Zero == {0}
               Minus == {-1}
    <3>1. \A x : (x = 0 <=> x \in Zero) /\ (x = -1 <=> x \in Minus)
      OBVIOUS
    <3> HIDE DEF Zero, Minus, s
    <3>2. \A b \in DOMAIN s :
             /\ {x \in DOMAIN s[b] : s[b][x] = 0} = {x \in DOMAIN s[b] : s[b][x] \in Zero}
             /\ {x \in DOMAIN s[b] : s[b][x] = -1} = {x \in DOMAIN s[b] : s[b][x] \in Minus}
      BY <3>1
    <3>3. /\ [b \in DOMAIN s |-> Cardinality({x \in DOMAIN s[b] : s[b][x] = 0})]
             = [b \in DOMAIN s |-> Cardinality({x \in DOMAIN s[b] : s[b][x] \in Zero})]
          /\ [b \in DOMAIN s |-> Cardinality({x \in DOMAIN s[b] : s[b][x] = -1})]
             = [b \in DOMAIN s |-> Cardinality({x \in DOMAIN s[b] : s[b][x] \in Minus})]
      BY <3>2
    <3> QED BY <3>3 DEF Zero, Minus
  <2>2. /\ CountBatched(rows, LAMBDA x : x = 0) = InBatches(rows, {0})
        /\ CountBatched(rows, LAMBDA x : x = -1) = InBatches(rows, {-1})
    BY <2>1 DEF CountBatched, SumOf, CountIn, InBatches
  <2> DEFINE Zero == {0}
             Minus == {-1}
  <2>3. /\ InBatches(rows, Zero) = Cardinality({i \in D : rows[i] \in Zero})
        /\ InBatches(rows, Minus) = Cardinality({i \in D : rows[i] \in Minus})
    <3> HIDE DEF Zero, Minus
    <3> QED BY CountedOnce
  <2> QED BY <2>2, <2>3
<1>3. /\ -2 \notin S
      /\ v.dead = Cardinality(A) /\ v.broken = Cardinality(B)
      /\ v.norms = "mixed" => Cardinality(C) >= 2 /\ 2 * hi > 3 * lo
  <2> DEFINE a == CountBatched(rows, LAMBDA x : x = 0)
             b == CountBatched(rows, LAMBDA x : x = -1)
             c == CountIn(rows, LAMBDA x : x > 0)
  <2>1. v = IF -2 \in S THEN [state |-> "failed"]
            ELSE [state |-> "done", dead |-> a, broken |-> b,
                  norms |-> IF c < 2 THEN "too few"
                            ELSE IF live = {10} THEN "unit length"
                            ELSE IF 2 * hi > 3 * lo THEN "mixed" ELSE "consistent"]
    BY DEF VectorHealth
  <2>2. c = Cardinality(C)
    BY DEF CountIn
  <2>3. a = Cardinality(A) /\ b = Cardinality(B)
    BY <1>2
  <2>4. C \in SUBSET D
    OBVIOUS
  <2> HIDE DEF S, C, D
  <2>5. Cardinality(C) \in Nat
    BY <1>1, <2>4, CountFacts
  <2> DEFINE w == IF c < 2 THEN "too few"
                  ELSE IF live = {10} THEN "unit length"
                  ELSE IF 2 * hi > 3 * lo THEN "mixed" ELSE "consistent"
  <2>6. w = "mixed" => ~(c < 2) /\ 2 * hi > 3 * lo
    <3> HIDE DEF c, live, hi, lo
    <3> QED OBVIOUS
  <2> HIDE DEF a, b, w
  <2>7. -2 \notin S
    <3> SUFFICES ASSUME -2 \in S PROVE FALSE
      OBVIOUS
    <3>1. v = [state |-> "failed"]
      BY <2>1
    <3> QED BY <3>1
  <2>8. v = [state |-> "done", dead |-> a, broken |-> b, norms |-> w]
    BY <2>1, <2>7 DEF w
  <2>9. v.dead = a /\ v.broken = b /\ v.norms = w
    BY <2>8
  <2> HIDE DEF c, A, B, lo, hi, live
  <2> QED BY <2>2, <2>3, <2>5, <2>6, <2>7, <2>9
<1>4. CountIn(rows, LAMBDA x : x > 0) = Cardinality(C)
  BY DEF CountIn
<1>5. D = A \cup B \cup C /\ A \cap B = {} /\ (A \cup B) \cap C = {}
  <2>1. ASSUME NEW i \in D PROVE rows[i] = -1 \/ rows[i] = 0 \/ (rows[i] \in Nat /\ rows[i] > 0)
    <3>1. rows[i] \in {-2, -1} \cup Nat
      OBVIOUS
    <3>2. rows[i] \in S
      BY DEF ToSet
    <3>3. rows[i] # -2
      BY <1>3, <3>2
    <3> QED BY <3>1, <3>3
  <2>2. D \subseteq A \cup B \cup C
    BY <2>1
  <2>3. A \cap B = {} /\ (A \cup B) \cap C = {}
    BY <2>1
  <2> QED BY <2>2, <2>3
<1>6. Len(rows) = Cardinality(A) + Cardinality(B) + Cardinality(C)
  <2>1. A \in SUBSET D /\ B \in SUBSET D /\ C \in SUBSET D
    OBVIOUS
  <2> HIDE DEF A, B, C, D
  <2>2. IsFiniteSet(A) /\ IsFiniteSet(B) /\ IsFiniteSet(C)
    BY <1>1, <2>1, FS_Subset
  <2> DEFINE E == A \cup B
  <2>3. IsFiniteSet(E) /\ Cardinality(E) = Cardinality(A) + Cardinality(B) - Cardinality(A \cap B)
    BY <2>2, FS_Union
  <2>4. D = E \cup C /\ A \cap B = {} /\ E \cap C = {}
    BY <1>5
  <2> HIDE DEF E
  <2>5. Cardinality(E \cup C) = Cardinality(E) + Cardinality(C) - Cardinality(E \cap C)
    BY <2>2, <2>3, FS_Union
  <2>6. Cardinality(A \cap B) = 0 /\ Cardinality(E \cap C) = 0
    BY <2>4, FS_EmptySet
  <2>7. Cardinality(A) \in Nat /\ Cardinality(B) \in Nat /\ Cardinality(C) \in Nat
    BY <2>2, FS_CardinalityType
  <2>8. Cardinality(D) = Cardinality(E) + Cardinality(C) - 0
    BY <2>4, <2>5, <2>6
  <2>9. Cardinality(E) = Cardinality(A) + Cardinality(B) - 0
    BY <2>3, <2>6
  <2> QED BY <1>1, <2>7, <2>8, <2>9
<1>7. ASSUME v.norms = "mixed" PROVE Cardinality(S) > 1
  <2>1. 2 * hi > 3 * lo /\ Cardinality(C) >= 2
    BY <1>3, <1>7
  <2>2. C # {}
    <3> SUFFICES ASSUME C = {} PROVE FALSE
      OBVIOUS
    <3> HIDE DEF C
    <3>1. Cardinality(C) = 0
      BY FS_EmptySet
    <3> QED BY <2>1, <3>1
  <2>3. live \in SUBSET Nat /\ live # {}
    <3>1. \A x \in S : x \in {-2, -1} \cup Nat
      BY DEF ToSet
    <3>2. \A i \in D : rows[i] \in S
      BY DEF ToSet
    <3> QED BY <2>2, <3>1, <3>2
  <2>4. IsFiniteSet(S)
    <3>1. rows \in Surjection(D, S)
      <4>1. rows \in [D -> S]
        BY <1>1 DEF ToSet
      <4>2. \A x \in S : \E i \in D : rows[i] = x
        BY DEF ToSet
      <4> HIDE DEF D, S
      <4> QED BY <4>1, <4>2 DEF Surjection
    <3> HIDE DEF D, S
    <3> QED BY <1>1, <3>1, FS_Surjection
  <2>5. IsFiniteSet(live)
    BY <2>4, FS_Subset
  <2>6. (\E x \in live : \A w \in live : x <= w) /\ (\E x \in live : \A w \in live : w <= x)
    <3> HIDE DEF live
    <3> QED BY <2>3, <2>5, Least, Greatest
  <2>7. lo \in live /\ hi \in live
    <3> HIDE DEF live
    <3> QED BY <2>6
  <2>8. lo \in Nat /\ hi \in Nat /\ lo > 0 /\ lo \in S /\ hi \in S
    BY <2>3, <2>7
  <2> HIDE DEF lo, hi, S
  <2>9. lo # hi
    BY <2>1, <2>8
  <2> QED BY <2>4, <2>8, <2>9, TwoDiffer
<1> HIDE DEF A, B, C, D, S
<1> QED BY <1>3, <1>4, <1>6, <1>7 DEF S

\* No more are close than were looked at.
LEMMA NearFacts ==
    ASSUME NEW sample, IsFiniteSet(DOMAIN sample)
    PROVE  NearDuplicates(sample).close <= NearDuplicates(sample).checked
<1> DEFINE asked == {i \in DOMAIN sample : sample[i].finite /\ Len(sample[i].hits) = 2}
           near == {i \in asked : sample[i].hits[2] <= 1}
<1>1. NearDuplicates(sample) = [checked |-> Cardinality(asked), close |-> Cardinality(near)]
  BY DEF NearDuplicates
<1>2. asked \in SUBSET DOMAIN sample /\ near \in SUBSET asked
  OBVIOUS
<1> HIDE DEF asked, near
<1>3. IsFiniteSet(asked)
  BY <1>2, FS_Subset
<1>4. Cardinality(near) <= Cardinality(asked)
  BY <1>2, <1>3, FS_Subset
<1> QED BY <1>1, <1>4

--------------------------------------------------------------------------
(* The nearest, and what an index finds of them. *)

\* Nearer to q than p is.
Nearer(S, q, p) == {o \in S : Far(o, q) < Far(p, q)}

LEMMA FarType == \A p, q \in Nat : Far(p, q) \in Nat
BY DEF Far

LEMMA TopKIs ==
    ASSUME NEW S, NEW q, NEW k
    PROVE  TopK(S, q, k) = {p \in S : Cardinality(Nearer(S, q, p)) < k}
BY DEF TopK, Nearer

\* Nothing is lost by keeping only the nearest of what was looked at so far.
LEMMA TopTop ==
    ASSUME NEW A \in SUBSET Nat, IsFiniteSet(A), NEW B \in SUBSET Nat, IsFiniteSet(B),
           NEW q \in Nat, NEW k \in Nat
    PROVE  TopK(TopK(A, q, k) \cup B, q, k) = TopK(A \cup B, q, k)
<1> DEFINE T == TopK(A, q, k)
           S == A \cup B
           U == T \cup B
           far(p) == Far(p, q)
<1>1. T \subseteq A /\ U \subseteq S /\ S \subseteq Nat
  BY DEF TopK
<1>2. IsFiniteSet(S) /\ IsFiniteSet(U) /\ IsFiniteSet(T)
  <2>1. IsFiniteSet(S)
    BY FS_Union
  <2>2. U \in SUBSET S /\ T \in SUBSET S
    BY <1>1
  <2> HIDE DEF S, U, T
  <2> QED BY <2>1, <2>2, FS_Subset
<1>3. /\ TopK(S, q, k) = {p \in S : Cardinality(Nearer(S, q, p)) < k}
      /\ TopK(U, q, k) = {p \in U : Cardinality(Nearer(U, q, p)) < k}
      /\ T = {p \in A : Cardinality(Nearer(A, q, p)) < k}
  <2> HIDE DEF S, U
  <2> QED BY TopKIs
<1> HIDE DEF S, U, T
<1>4. /\ \A p \in Nat : far(p) \in Nat
      /\ \A p : Nearer(S, q, p) \in SUBSET S /\ Nearer(U, q, p) \in SUBSET U /\ Nearer(A, q, p) \in SUBSET A
      /\ \A p : IsFiniteSet(Nearer(S, q, p)) /\ IsFiniteSet(Nearer(U, q, p)) /\ IsFiniteSet(Nearer(A, q, p))
      /\ \A p : /\ Cardinality(Nearer(S, q, p)) \in Nat /\ Cardinality(Nearer(U, q, p)) \in Nat
                /\ Cardinality(Nearer(A, q, p)) \in Nat
  <2>1. \A p \in Nat : far(p) \in Nat
    BY FarType
  <2>2. \A p : Nearer(S, q, p) \in SUBSET S /\ Nearer(U, q, p) \in SUBSET U /\ Nearer(A, q, p) \in SUBSET A
    BY DEF Nearer
  <2> QED BY <1>2, <2>1, <2>2, CountFacts
<1>5. ASSUME NEW p \in TopK(S, q, k) PROVE p \in TopK(U, q, k)
  <2>1. p \in S /\ Cardinality(Nearer(S, q, p)) < k
    BY <1>3
  <2>2. ASSUME p \in A PROVE p \in T
    <3>1. Nearer(A, q, p) \in SUBSET Nearer(S, q, p)
      BY DEF Nearer, S
    <3>2. Cardinality(Nearer(A, q, p)) <= Cardinality(Nearer(S, q, p))
      BY <1>4, <3>1, FS_Subset
    <3> QED BY <1>3, <1>4, <2>1, <2>2, <3>2
  <2>3. p \in U
    BY <2>1, <2>2 DEF S, U
  <2>4. Nearer(U, q, p) \in SUBSET Nearer(S, q, p)
    BY <1>1 DEF Nearer
  <2>5. Cardinality(Nearer(U, q, p)) <= Cardinality(Nearer(S, q, p))
    BY <1>4, <2>4, FS_Subset
  <2> QED BY <1>3, <1>4, <2>1, <2>3, <2>5
<1>6. ASSUME NEW p \in TopK(U, q, k), p \notin TopK(S, q, k) PROVE FALSE
  <2>1. p \in U /\ p \in S /\ p \in Nat /\ Cardinality(Nearer(U, q, p)) < k
        /\ ~(Cardinality(Nearer(S, q, p)) < k)
    BY <1>1, <1>3, <1>6
  <2> DEFINE lost == Nearer(S, q, p) \ U
             away == {far(o) : o \in lost}
  <2>2. lost # {}
    <3> SUFFICES ASSUME lost = {} PROVE FALSE
      OBVIOUS
    <3>1. Nearer(S, q, p) = Nearer(U, q, p)
      BY <1>1 DEF Nearer
    <3> QED BY <2>1, <3>1
  <2>3. \A o \in lost : o \in A /\ o \in Nat /\ o \notin T /\ far(o) \in Nat /\ far(o) < far(p)
    BY <1>1, <1>4 DEF S, U, Nearer
  <2>4. away \in SUBSET Nat /\ away # {}
    BY <2>2, <2>3
  <2>5. PICK d \in away : \A e \in away : d <= e
    <3> HIDE DEF away
    <3> QED BY <2>4, Least
  <2>6. PICK o \in lost : \A u \in lost : far(o) <= far(u)
    BY <2>5
  <2> HIDE DEF away
  <2>7. o \in A /\ o \in Nat /\ far(o) \in Nat /\ far(o) < far(p) /\ ~(Cardinality(Nearer(A, q, o)) < k)
    BY <1>3, <2>3
  <2>8. Nearer(A, q, o) \in SUBSET Nearer(U, q, p)
    <3> SUFFICES ASSUME NEW u \in Nearer(A, q, o) PROVE u \in Nearer(U, q, p)
      OBVIOUS
    <3>1. u \in A /\ u \in Nat /\ far(u) < far(o) /\ far(u) \in Nat /\ far(p) \in Nat
      BY <1>4, <2>1 DEF Nearer
    <3> HIDE DEF far
    <3>2. far(u) < far(p)
      BY <2>7, <3>1
    <3>3. u \notin lost
      BY <2>6, <2>7, <3>1
    <3> USE DEF far
    <3>4. u \in Nearer(S, q, p)
      BY <3>1, <3>2 DEF Nearer, S
    <3>5. u \in U
      BY <3>3, <3>4
    <3> QED BY <3>2, <3>5 DEF Nearer
  <2>9. Cardinality(Nearer(A, q, o)) <= Cardinality(Nearer(U, q, p))
    BY <1>4, <2>8, FS_Subset
  <2> QED BY <1>4, <2>1, <2>7, <2>9
<1> QED BY <1>3, <1>5, <1>6 DEF T, S, U

\* One pass, batch by batch, ends with the nearest of all that is looked at.
LEMMA OnePass ==
    ASSUME NEW batches \in Seq(Seq(Nat)), NEW out, NEW q \in Nat, NEW k \in Nat
    PROVE  BestOf(batches, out, q, k)
               = TopK((UNION {ToSet(batches[i]) : i \in DOMAIN batches}) \ out, q, k)
<1> DEFINE L == Len(batches)
           X(n) == ToSet(batches[n]) \ out
           Y(n) == (UNION {ToSet(batches[i]) : i \in 1..n}) \ out
           StepOf(f, n) == IF n = 0 THEN {} ELSE TopK(f[n - 1] \cup X(n), q, k)
           F == [n \in 0..L |-> TopK(Y(n), q, k)]
           best == CHOOSE f : f = [n \in 0..L |-> StepOf(f, n)]
<1>1. L \in Nat /\ DOMAIN batches = 1..L
  BY LenProperties
<1>2. BestOf(batches, out, q, k) = best[L]
  BY DEF BestOf
<1>3. \A n \in 1..L : IsFiniteSet(ToSet(batches[n])) /\ ToSet(batches[n]) \in SUBSET Nat
  <2> SUFFICES ASSUME NEW n \in 1..L
               PROVE  IsFiniteSet(ToSet(batches[n])) /\ ToSet(batches[n]) \in SUBSET Nat
    OBVIOUS
  <2> DEFINE s == batches[n]
             D == 1..Len(s)
  <2>1. s \in Seq(Nat)
    BY <1>1
  <2> HIDE DEF s
  <2>2. Len(s) \in Nat /\ DOMAIN s = D /\ IsFiniteSet(D)
    BY <2>1, LenProperties, FS_Interval
  <2>3. s \in [D -> ToSet(s)] /\ \A x \in ToSet(s) : \E i \in D : s[i] = x
    BY <2>1, <2>2 DEF ToSet
  <2>4. ToSet(s) \in SUBSET Nat
    BY <2>1 DEF ToSet
  <2> HIDE DEF D
  <2>5. s \in Surjection(D, ToSet(s))
    BY <2>3 DEF Surjection
  <2>6. IsFiniteSet(ToSet(s))
    BY <2>2, <2>5, FS_Surjection
  <2> QED BY <2>4, <2>6 DEF s
<1>4. \A n \in 0..L : IsFiniteSet(Y(n)) /\ Y(n) \in SUBSET Nat
  <2> SUFFICES ASSUME NEW n \in 0..L PROVE IsFiniteSet(Y(n)) /\ Y(n) \in SUBSET Nat
    OBVIOUS
  <2> DEFINE f == [i \in 1..n |-> ToSet(batches[i])]
             S == {ToSet(batches[i]) : i \in 1..n}
  <2>1. \A i \in 1..n : i \in 1..L
    BY <1>1
  <2>2. IsFiniteSet(1..n)
    BY <1>1, FS_Interval
  <2>3. f \in [1..n -> S] /\ \A x \in S : \E i \in 1..n : f[i] = x
    OBVIOUS
  <2>4. \A x \in S : IsFiniteSet(x) /\ x \in SUBSET Nat
    BY <1>3, <2>1
  <2> DEFINE D == 1..n
  <2> HIDE DEF f, S, D
  <2>5. f \in Surjection(D, S) /\ IsFiniteSet(D)
    BY <2>2, <2>3 DEF Surjection, D
  <2>6. IsFiniteSet(S)
    BY <2>5, FS_Surjection
  <2>7. IsFiniteSet(UNION S) /\ UNION S \in SUBSET Nat
    BY <2>4, <2>6, FS_UNION
  <2>8. Y(n) \in SUBSET UNION S
    BY DEF S
  <2> HIDE DEF Y
  <2> QED BY <2>7, <2>8, FS_Subset
<1>5. \A n \in 1..L : Y(n) = Y(n - 1) \cup X(n) /\ n - 1 \in 0..L
  <2> SUFFICES ASSUME NEW n \in 1..L PROVE Y(n) = Y(n - 1) \cup X(n) /\ n - 1 \in 0..L
    OBVIOUS
  <2>1. n - 1 \in 0..L /\ \A i : i \in 1..n <=> i \in 1..n - 1 \/ i = n
    BY <1>1
  <2> QED BY <2>1
<1>6. Y(0) = {}
  OBVIOUS
<1>7. \A n \in 1..L : IsFiniteSet(X(n)) /\ X(n) \in SUBSET Nat
  <2> SUFFICES ASSUME NEW n \in 1..L PROVE IsFiniteSet(X(n)) /\ X(n) \in SUBSET Nat
    OBVIOUS
  <2>1. X(n) \in SUBSET ToSet(batches[n])
    OBVIOUS
  <2> HIDE DEF X
  <2> QED BY <1>3, <2>1, FS_Subset
<1>8. (UNION {ToSet(batches[i]) : i \in DOMAIN batches}) \ out = Y(L)
  BY <1>1
<1> HIDE DEF X, Y, L
<1>9. \A n \in 0..L : F[n] = StepOf(F, n)
  <2> SUFFICES ASSUME NEW n \in 0..L PROVE TopK(Y(n), q, k) = StepOf(F, n)
    OBVIOUS
  <2>1. CASE n = 0
    <3>1. TopK({}, q, k) = {}
      BY DEF TopK
    <3> QED BY <1>6, <2>1, <3>1
  <2>2. CASE n # 0
    <3>1. n \in 1..L /\ n - 1 \in 0..L
      BY <1>1, <2>2
    <3>2. F[n - 1] = TopK(Y(n - 1), q, k)
      BY <3>1
    <3> DEFINE A == Y(n - 1)
               B == X(n)
    <3>3. A \in SUBSET Nat /\ IsFiniteSet(A) /\ B \in SUBSET Nat /\ IsFiniteSet(B) /\ Y(n) = A \cup B
      BY <1>4, <1>5, <1>7, <3>1
    <3> HIDE DEF A, B
    <3>4. TopK(TopK(A, q, k) \cup B, q, k) = TopK(A \cup B, q, k)
      <4>1. q \in Nat /\ k \in Nat
        OBVIOUS
      <4>2. A \in SUBSET Nat /\ IsFiniteSet(A) /\ B \in SUBSET Nat /\ IsFiniteSet(B)
        BY ONLY <3>3
      <4> QED BY ONLY <4>1, <4>2, TopTop, Zenon
    <3> HIDE DEF F
    <3>5. StepOf(F, n) = TopK(TopK(A, q, k) \cup B, q, k)
      BY ONLY <2>2, <3>2 DEF A, B, StepOf
    <3>6. TopK(Y(n), q, k) = TopK(A \cup B, q, k)
      BY ONLY <3>3
    <3> HIDE DEF StepOf
    <3> QED BY ONLY <3>4, <3>5, <3>6
  <2> QED BY <2>1, <2>2
<1>10. F = [n \in 0..L |-> StepOf(F, n)]
  <2>1. \A n \in 0..L : TopK(Y(n), q, k) = StepOf(F, n)
    BY <1>9
  <2> HIDE DEF StepOf
  <2> QED BY <2>1
<1>11. best = [n \in 0..L |-> StepOf(best, n)]
  <2>1. \E f : f = [n \in 0..L |-> StepOf(f, n)]
    BY <1>10
  <2> HIDE DEF StepOf
  <2> QED BY <2>1
<1> HIDE DEF best, F
<1>12. \A n \in 0..L : best[n] = StepOf(best, n)
  <2> HIDE DEF StepOf
  <2> QED BY <1>11
<1>13. \A n \in 0..L : best[n] = F[n]
  <2> DEFINE bad == {n \in 0..L : best[n] # F[n]}
  <2> SUFFICES ASSUME bad # {} PROVE FALSE
    OBVIOUS
  <2>1. bad \in SUBSET Nat
    BY <1>1
  <2>2. PICK n \in bad : \A m \in bad : n <= m
    <3> HIDE DEF bad
    <3> QED BY <2>1, Least
  <2>3. n \in 0..L /\ best[n] # F[n]
    OBVIOUS
  <2>4. CASE n = 0
    BY <1>9, <1>12, <2>3, <2>4
  <2>5. CASE n # 0
    <3>1. n - 1 \in 0..L /\ n - 1 < n
      BY <1>1, <2>3, <2>5
    <3>2. best[n - 1] = F[n - 1]
      BY <2>2, <3>1
    <3> QED BY <1>9, <1>12, <2>3, <2>5, <3>2
  <2> QED BY <2>4, <2>5
<1>14. F[L] = TopK(Y(L), q, k) /\ L \in 0..L
  BY <1>1 DEF F
<1> QED BY <1>2, <1>8, <1>13, <1>14

\* The pass over the batches of a table ends with the nearest of its other rows.
THEOREM NeighboursAreExact ==
    ASSUME NEW rows \in Seq(Nat), NEW q \in Nat, NEW k \in Nat
    PROVE  ExactNeighbours(rows, q, k) = TopK(ToSet(rows) \ {q}, q, k)
<1> DEFINE s == Batches(rows)
           all == UNION {ToSet(s[b]) : b \in DOMAIN s}
           self == {q}
<1>1. /\ Len(s) \in Nat /\ DOMAIN s = 1..Len(s)
      /\ \A b \in DOMAIN s :
            /\ s[b] \in Seq(Nat)
            /\ \A x \in DOMAIN s[b] : RowAt(b, x) \in DOMAIN rows /\ s[b][x] = rows[RowAt(b, x)]
      /\ \A i \in DOMAIN rows : \E b \in DOMAIN s : \E x \in DOMAIN s[b] : RowAt(b, x) = i
  BY BatchFacts
<1>2. s \in Seq(Seq(Nat))
  <2>1. s = [b \in 1..Len(s) |-> s[b]]
    <3>1. s = [b \in DOMAIN s |-> s[b]]
      BY DEF Batches
    <3> HIDE DEF s
    <3> QED BY <1>1, <3>1
  <2> HIDE DEF s
  <2>2. s \in [1..Len(s) -> Seq(Nat)]
    BY <1>1, <2>1
  <2> QED BY <1>1, <2>2, SeqDef
<1> HIDE DEF s
<1>3. all = ToSet(rows)
  <2>1. ASSUME NEW p \in all PROVE p \in ToSet(rows)
    <3>1. PICK b \in DOMAIN s : p \in ToSet(s[b])
      OBVIOUS
    <3>2. PICK x \in DOMAIN s[b] : p = s[b][x]
      BY <3>1 DEF ToSet
    <3>3. RowAt(b, x) \in DOMAIN rows /\ p = rows[RowAt(b, x)]
      BY <1>1, <3>2
    <3> QED BY <3>3 DEF ToSet
  <2>2. ASSUME NEW p \in ToSet(rows) PROVE p \in all
    <3>1. PICK i \in DOMAIN rows : p = rows[i]
      BY DEF ToSet
    <3>2. PICK b \in DOMAIN s : \E x \in DOMAIN s[b] : RowAt(b, x) = i
      BY <1>1
    <3>3. PICK x \in DOMAIN s[b] : RowAt(b, x) = i
      BY <3>2
    <3>4. s[b][x] = p
      BY <1>1, <3>1, <3>3
    <3>5. p \in ToSet(s[b])
      BY <3>4 DEF ToSet
    <3> QED BY <3>5
  <2> QED BY <2>1, <2>2
<1>4. BestOf(s, self, q, k) = TopK(all \ self, q, k)
  <2> HIDE DEF self
  <2> QED BY <1>2, OnePass
<1>5. ExactNeighbours(rows, q, k) = BestOf(s, self, q, k)
  BY DEF ExactNeighbours, s
<1> QED BY <1>3, <1>4, <1>5

\* An index that keeps the full vectors and probes every partition returns the nearest.
LEMMA FlatFindsAll ==
    ASSUME NEW P \in SUBSET Nat, IsFiniteSet(P), NEW table, DOMAIN table.home = P, table.flat,
           NEW q \in P, \A o, p \in P : Far(o, q) = Far(p, q) => o = p, NEW k \in Nat
    PROVE  TopK(P \ {q}, q, k) \subseteq Search(table, q, k, 2, 0)
<1> DEFINE Before(p) == {o \in P : Far(o, q) < Far(p, q) \/ (Far(o, q) = Far(p, q) /\ o < p)}
           others == P \ {q}
<1>1. Search(table, q, k, 2, 0) = {p \in P : Cardinality(Before(p)) < k + 1}
  BY DEF Search
<1>2. ASSUME NEW p \in others, Cardinality(Nearer(others, q, p)) < k
      PROVE  Cardinality(Before(p)) < k + 1
  <2> DEFINE N == Nearer(others, q, p)
  <2>1. Before(p) \in SUBSET (N \cup {q})
    <3> SUFFICES ASSUME NEW o \in Before(p), o # q PROVE o \in N
      OBVIOUS
    <3>1. o \in P /\ o \in Nat /\ p \in P
      OBVIOUS
    <3>2. ~(Far(o, q) = Far(p, q) /\ o < p)
      <4> SUFFICES ASSUME Far(o, q) = Far(p, q), o < p PROVE FALSE
        OBVIOUS
      <4>1. o = p
        BY <3>1
      <4> QED BY <3>1, <4>1
    <3> QED BY <3>1, <3>2 DEF Nearer
  <2>2. IsFiniteSet(N)
    <3>1. N \in SUBSET P
      BY DEF Nearer
    <3> HIDE DEF N
    <3> QED BY <3>1, FS_Subset
  <2> HIDE DEF N
  <2>3. /\ IsFiniteSet(N \cup {q})
        /\ Cardinality(N \cup {q}) = IF q \in N THEN Cardinality(N) ELSE Cardinality(N) + 1
    BY <2>2, FS_AddElement
  <2> DEFINE M == N \cup {q}
             S == Before(p)
  <2>4. IsFiniteSet(M) /\ S \in SUBSET M /\ Cardinality(N) \in Nat /\ Cardinality(M) <= Cardinality(N) + 1
    BY <2>1, <2>2, <2>3, FS_CardinalityType
  <2>5. Cardinality(N) < k
    BY <1>2 DEF N
  <2> HIDE DEF M, S
  <2>6. Cardinality(S) <= Cardinality(M) /\ Cardinality(S) \in Nat /\ Cardinality(M) \in Nat
    BY <2>4, FS_Subset, FS_CardinalityType
  <2>7. Cardinality(S) < k + 1
    BY <2>4, <2>5, <2>6
  <2> QED BY <2>7 DEF S
<1> HIDE DEF Before
<1>3. TopK(others, q, k) = {p \in others : Cardinality(Nearer(others, q, p)) < k}
  BY TopKIs
<1> QED BY <1>1, <1>2, <1>3

\* What a recall says of a table: the exact answers, what each setting found of them, and
\* what was read.
RecalledWell(P, table, queries, a) ==
    /\ \A q \in queries : a.truth[q] = TopK(P \ {q}, q, Lesser(RecallK, Len(table.rows) - 1))
    /\ table.flat /\ Len(a.found) >= 2 =>
          a.found[2] = a.wanted /\ a.found[1] <= a.found[2] /\ 2 \in a.enough
    /\ \A i \in DOMAIN a.found : a.found[i] <= a.wanted
    /\ a.state = "done" => a.spent = a.read

LEMMA RecallFacts ==
    ASSUME NEW P \in SUBSET Nat, IsFiniteSet(P), NEW table, table.rows \in Seq(Nat),
           ToSet(table.rows) = P, DOMAIN table.home = P, NEW queries \in SUBSET P,
           \A q \in queries : \A o, p \in P : Far(o, q) = Far(p, q) => o = p,
           NEW stop \in Nat, NEW a, a = IndexRecall(table, queries, stop), a.state # "nothing"
    PROVE  RecalledWell(P, table, queries, a)
<1> DEFINE rows == table.rows
           k == Lesser(RecallK, Len(rows) - 1)
           truth == [q \in queries |-> ExactNeighbours(rows, q, k)]
           settings == ProbeSettings(table.flat)
           L == Len(settings)
           hit(i, q) == Cardinality(truth[q] \cap
                            (Search(table, q, k, settings[i][1], settings[i][2]) \ {q}))
           hits(i) == [q \in queries |-> hit(i, q)]
           whole == [q \in queries |-> Cardinality(truth[q])]
           FoundIn(i) == Measure(table, queries, truth, k, settings[i][1], settings[i][2])
           wanted == SumOf(queries, LAMBDA q : Cardinality(truth[q]))
           finished == Lesser(stop, L)
           found == [i \in 1..finished |-> FoundIn(i)]
           enough == {i \in 1..Lesser(2, finished) : 20 * FoundIn(i) >= 19 * wanted}
           state == IF stop < L THEN "cancelled" ELSE "done"
           read == 2 + Lesser(stop + 1, L)
<1>1. a = IF k < 1 THEN [state |-> "nothing"]
          ELSE [state |-> state, truth |-> truth, found |-> found, wanted |-> wanted,
                enough |-> enough, spent |-> 2 + finished, read |-> read]
  BY DEF IndexRecall
<1>2. \A i : FoundIn(i) = SumFunction(hits(i))
  BY DEF Measure, SumOf
<1>3. wanted = SumFunction(whole)
  BY DEF SumOf
<1>4. L \in {3, 4} /\ settings[2][1] = 2 /\ settings[2][2] = 0
  BY DEF ProbeSettings
<1> HIDE DEF settings, L, wanted, FoundIn
<1>5. ~(k < 1)
  <2> HIDE DEF k, state, truth, found, enough, finished, read
  <2> SUFFICES ASSUME k < 1 PROVE FALSE
    OBVIOUS
  <2>1. a = [state |-> "nothing"]
    BY <1>1
  <2> QED BY <2>1
<1>6. k \in Nat
  <2>1. Len(rows) \in Nat /\ RecallK \in Nat
    BY LenProperties, ScanChecksAssumption
  <2> QED BY <1>5, <2>1 DEF Lesser
<1>7. \A q \in queries : q \in Nat /\ q \in P /\ truth[q] = TopK(P \ {q}, q, k)
  <2> TAKE q \in queries
  <2>1. q \in Nat /\ q \in P
    OBVIOUS
  <2>2. ExactNeighbours(rows, q, k) = TopK(ToSet(rows) \ {q}, q, k)
    <3> HIDE DEF k
    <3> QED BY <1>6, <2>1, NeighboursAreExact
  <2> HIDE DEF rows, k
  <2> QED BY <2>1, <2>2 DEF rows
<1> HIDE DEF k, truth
<1>8. IsFiniteSet(queries)
  BY FS_Subset
<1>9. \A q \in queries : /\ IsFiniteSet(truth[q]) /\ whole[q] \in Nat
                         /\ q \notin truth[q]
                         /\ \A i : hit(i, q) \in Nat /\ hit(i, q) <= whole[q]
  <2> TAKE q \in queries
  <2> DEFINE t == truth[q]
  <2>1. t \in SUBSET P /\ q \notin t
    <3>1. t = TopK(P \ {q}, q, k)
      BY <1>7
    <3> HIDE DEF t
    <3> QED BY <3>1 DEF TopK
  <2>2. IsFiniteSet(t) /\ Cardinality(t) \in Nat
    <3> HIDE DEF t
    <3> QED BY <2>1, CountFacts
  <2>3. ASSUME NEW i PROVE hit(i, q) \in Nat /\ hit(i, q) <= Cardinality(t)
    <3> DEFINE U == t \cap (Search(table, q, k, settings[i][1], settings[i][2]) \ {q})
    <3>1. U \in SUBSET t /\ hit(i, q) = Cardinality(U)
      OBVIOUS
    <3> HIDE DEF U, t, hit
    <3> QED BY <2>2, <3>1, CountFacts
  <2> HIDE DEF hit
  <2> QED BY <2>1, <2>2, <2>3
<1>10. whole \in [queries -> Nat] /\ \A i : hits(i) \in [queries -> Nat]
  <2> HIDE DEF hit
  <2> QED BY <1>9
<1>11. \A i : FoundIn(i) <= wanted
  <2> TAKE i
  <2> DEFINE v == hits(i)
  <2>1. v \in [queries -> Nat] /\ \A q \in queries : v[q] <= whole[q]
    <3> HIDE DEF hit, whole
    <3> QED BY <1>9, <1>10
  <2> HIDE DEF v, whole
  <2>2. SumFunction(v) <= SumFunction(whole)
    BY <1>8, <1>10, <2>1, SumMonotonic
  <2> QED BY <1>2, <1>3, <2>2 DEF v, whole
<1>12. wanted \in Nat
  <2> HIDE DEF whole
  <2> QED BY <1>3, <1>8, <1>10, SumFacts
<1>13. ASSUME table.flat PROVE FoundIn(2) = wanted
  <2>1. ASSUME NEW q \in queries PROVE hit(2, q) = whole[q]
    <3> DEFINE found2 == Search(table, q, k, settings[2][1], settings[2][2])
    <3>1. found2 = Search(table, q, k, 2, 0)
      BY <1>4
    <3>2. q \in P /\ \A o, p \in P : Far(o, q) = Far(p, q) => o = p
      OBVIOUS
    <3>3. truth[q] \subseteq found2
      <4> HIDE DEF found2
      <4>1. TopK(P \ {q}, q, k) \subseteq Search(table, q, k, 2, 0)
        BY <1>6, <1>13, <3>2, FlatFindsAll
      <4> QED BY <1>7, <3>1, <4>1
    <3>4. truth[q] \cap (found2 \ {q}) = truth[q]
      BY <1>9, <3>3
    <3> QED BY <3>4
  <2>2. hits(2) = whole
    <3> HIDE DEF hit
    <3>1. \A q \in queries : hit(2, q) = Cardinality(truth[q])
      BY <2>1
    <3> QED BY <3>1
  <2> QED BY <1>2, <1>3, <2>2
<1> HIDE DEF hits, whole, hit
<1>14. finished \in Nat /\ (stop >= L => finished = L /\ read = 2 + L)
  BY <1>4 DEF Lesser
<1>15. /\ a.state = state /\ a.truth = truth /\ a.found = found /\ a.wanted = wanted
       /\ a.enough = enough /\ a.spent = 2 + finished /\ a.read = read
  <2> HIDE DEF state, found, enough, finished, read
  <2> QED BY <1>1, <1>5
<1>16. \A q \in queries : a.truth[q] = TopK(P \ {q}, q, Lesser(RecallK, Len(table.rows) - 1))
  BY <1>7, <1>15 DEF k
<1>17. Len(found) = finished /\ DOMAIN found = 1..finished /\ \A i \in 1..finished : found[i] = FoundIn(i)
  <2> HIDE DEF finished
  <2> QED BY <1>14
<1>18. ASSUME table.flat, Len(a.found) >= 2
       PROVE  a.found[2] = a.wanted /\ a.found[1] <= a.found[2] /\ 2 \in a.enough
  <2>1. finished >= 2 /\ 1 \in 1..finished /\ 2 \in 1..finished
    <3> HIDE DEF finished, found
    <3> QED BY <1>14, <1>15, <1>17, <1>18
  <2>2. found[2] = wanted /\ found[1] <= wanted
    <3> HIDE DEF finished, found
    <3> QED BY <1>11, <1>13, <1>17, <1>18, <2>1
  <2>3. 2 \in 1..Lesser(2, finished)
    <3> HIDE DEF finished
    <3> QED BY <1>14, <2>1 DEF Lesser
  <2>4. 20 * FoundIn(2) >= 19 * wanted
    BY <1>12, <1>13, <1>18
  <2>5. 2 \in enough
    <3> HIDE DEF finished
    <3> QED BY <2>3, <2>4
  <2> QED BY <1>15, <2>2, <2>5
<1>19. \A i \in DOMAIN a.found : a.found[i] <= a.wanted
  <2> HIDE DEF finished, found
  <2> QED BY <1>11, <1>15, <1>17
<1>20. ASSUME a.state = "done" PROVE a.spent = a.read
  <2>1. ~(stop < L)
    BY <1>15, <1>20
  <2> HIDE DEF finished, read
  <2> QED BY <1>4, <1>14, <1>15, <2>1
<1> QED BY <1>16, <1>18, <1>19, <1>20 DEF RecalledWell

--------------------------------------------------------------------------
(* The checks, asked and answered. *)

\* A call is one that can be asked, and the answer to a check what its operator gives.
CheckIInv ==
    /\ call \in Calls
    /\ answer # Unanswered =>
        /\ call.op = "plan checks" =>
               answer = PlanChecks(call.kinds, call.check, call.columns, [c \in DOMAIN call.kinds |-> c])
        /\ call.op = "group" =>
               answer = [exact |-> ExactDuplicates(call.rows), leak |-> SplitLeakage(call.rows),
                         balance |-> ClassBalance(call.rows)]
        /\ call.op = "content" => answer = MissingContent(call.rows)
        /\ call.op = "vectors" => answer = VectorHealth(call.rows)
        /\ call.op = "near" => answer = NearDuplicates(call.rows)
        /\ call.op = "recall" => answer = IndexRecall(call.table, call.queries, call.stop)

\* What a step that answers no check leaves of it.
LEMMA OtherReplies ==
    ASSUME Next
    PROVE  \/ AnswerCheck
           \/ Asks(QueryOp \cup LanguageOp \cup PanelOp \cup SourceOp \cup MediaOp \cup CommandOp)
<1>1. CASE AnswerQuery
  BY <1>1, QueryReplies DEF Asks
<1>2. CASE AnswerLanguage
  BY <1>2, LanguageReplies DEF Asks
<1>3. CASE AnswerPanel
  BY <1>3, PanelReplies DEF Asks
<1>4. CASE AnswerSource
  BY <1>4, SourceReplies DEF Asks
<1>5. CASE AnswerMedia
  BY <1>5, MediaReplies DEF Asks
<1>6. CASE AnswerCommand
  BY <1>6, CommandReplies DEF Asks
<1> QED BY <1>1, <1>2, <1>3, <1>4, <1>5, <1>6 DEF Next

LEMMA InitCheckIInv == Init => CheckIInv
BY DEF Init, CheckIInv, Calls

LEMMA NextCheckIInv == CheckIInv /\ [Next]_<<call, answer>> => CheckIInv'
<1> SUFFICES ASSUME CheckIInv, [Next]_<<call, answer>> PROVE CheckIInv'
  OBVIOUS
<1>1. ASSUME Asks(QueryOp \cup LanguageOp \cup PanelOp \cup SourceOp \cup MediaOp \cup CommandOp)
      PROVE  CheckIInv'
  <2>1. /\ call' = call
        /\ call.op \notin {"plan checks", "group", "content", "vectors", "near", "recall"}
    BY <1>1 DEF Asks, QueryOp, LanguageOp, PanelOp, SourceOp, MediaOp, CommandOp
  <2> QED BY <2>1 DEF CheckIInv
<1>2. CASE AnswerPlanChecks
  BY <1>2 DEF CheckIInv, AnswerPlanChecks, Reply
<1>3. CASE AnswerGroup
  BY <1>3 DEF CheckIInv, AnswerGroup, Reply
<1>4. CASE AnswerCount
  BY <1>4 DEF CheckIInv, AnswerCount, Reply
<1>5. CASE AnswerRecall
  BY <1>5 DEF CheckIInv, AnswerRecall, Reply
<1>6. CASE UNCHANGED <<call, answer>>
  BY <1>6 DEF CheckIInv
<1> QED BY <1>1, <1>2, <1>3, <1>4, <1>5, <1>6, OtherReplies DEF AnswerCheck

\* A call of a check, by its operation, is one of the calls of that check.
LEMMA CheckCallFacts ==
    ASSUME CheckIInv
    PROVE  /\ call.op = "plan checks" => call \in PlanCheckCalls
           /\ call.op = "group" => call \in GroupCalls
           /\ call.op \in {"content", "vectors", "near"} => call \in CountCalls
           /\ call.op = "recall" => call \in RecallCalls
<1>1. /\ call \in Calls
      /\ QueryOp \cap CheckOp = {} /\ LanguageOp \cap CheckOp = {} /\ PanelOp \cap CheckOp = {}
      /\ SourceOp \cap CheckOp = {} /\ MediaOp \cap CheckOp = {} /\ CommandOp \cap CheckOp = {}
  BY DEF CheckIInv, QueryOp, CheckOp, LanguageOp, PanelOp, SourceOp, MediaOp, CommandOp
<1>2. call.op \in CheckOp => call \in CheckCalls
  BY <1>1, QueryOps, LanguageOps, PanelOps, SourceOps, MediaOps, CommandOps DEF Calls
<1>3. call \in PlanCheckCalls => call.op = "plan checks"
  BY DEF PlanCheckCalls
<1>4. call \in GroupCalls => call.op = "group"
  BY DEF GroupCalls
<1>5. call \in CountCalls => call.op \in {"content", "vectors", "near"}
  BY DEF CountCalls
<1>6. call \in RecallCalls => call.op = "recall"
  BY DEF RecallCalls
<1>7. {"plan checks", "group", "content", "vectors", "near", "recall"} \subseteq CheckOp
  BY DEF CheckOp
<1> QED BY <1>2, <1>3, <1>4, <1>5, <1>6, <1>7 DEF CheckCalls

\* Rows that were chosen one by one are a sequence.
LEMMA RowsAreSeq ==
    ASSUME NEW R, NEW lo \in Nat, NEW hi \in Nat, NEW rows \in UNION {[1..n -> R] : n \in lo..hi}
    PROVE  rows \in Seq(R) /\ IsFiniteSet(DOMAIN rows)
<1>1. PICK n \in lo..hi : rows \in [1..n -> R]
  OBVIOUS
<1>2. n \in Nat /\ IsFiniteSet(1..n)
  BY FS_Interval
<1>3. rows \in Seq(R) /\ DOMAIN rows = 1..n
  BY <1>1, <1>2, SeqDef
<1> QED BY <1>2, <1>3

LEMMA PlanCallKinds == \A c \in PlanCheckCalls : c.kinds \in Kinds
<1> SUFFICES ASSUME NEW c \in PlanCheckCalls PROVE c.kinds \in Kinds
  OBVIOUS
<1>1. PICK n \in 0..2 : c.kinds \in [1..n -> ColumnKind]
  BY DEF PlanCheckCalls
<1>2. n \in Nat
  OBVIOUS
<1> QED BY <1>1, <1>2, KindsAre, Zenon

LEMMA CheckQuotes == CheckIInv => QuotesAreForWhatRuns
<1> SUFFICES ASSUME CheckIInv, Answered("plan checks") PROVE QuotesAreForWhatRuns
  BY DEF QuotesAreForWhatRuns
<1> DEFINE w == [c \in DOMAIN call.kinds |-> c]
<1>1. call \in PlanCheckCalls /\ answer = PlanChecks(call.kinds, call.check, call.columns, w)
  BY CheckCallFacts DEF CheckIInv, Answered
<1>2. call.kinds \in Kinds
  BY <1>1, PlanCallKinds
<1> HIDE DEF w
<1>3. QuotedWell(call.kinds, answer)
  BY <1>1, <1>2, QuoteFacts
<1> QED BY <1>3 DEF QuotesAreForWhatRuns, QuotedWell

LEMMA CheckGroups == CheckIInv => GroupsArePairs
<1> SUFFICES ASSUME CheckIInv, Answered("group") PROVE GroupsArePairs
  BY DEF GroupsArePairs
<1> DEFINE rows == call.rows
           R == {Null, "x", "y"} \X {Null, "x", "y"}
           again == {j \in DOMAIN rows : \E i \in 1..j - 1 : rows[i] = rows[j]}
           e == ExactDuplicates(rows)
           b == ClassBalance(rows)
<1>1. /\ call \in GroupCalls
      /\ answer = [exact |-> e, leak |-> SplitLeakage(rows), balance |-> b]
  BY CheckCallFacts DEF CheckIInv, Answered
<1>2. rows \in Seq(R) /\ rows # <<>>
  <2>1. rows \in UNION {[1..n -> R] : n \in 1..3}
    BY <1>1 DEF GroupCalls
  <2>2. PICK n \in 1..3 : rows \in [1..n -> R]
    BY <2>1
  <2> HIDE DEF rows, R
  <2>3. rows \in Seq(R) /\ 1 \in DOMAIN rows
    BY <2>2
  <2> QED BY <2>3
<1>3. answer.exact = e /\ answer.leak = SplitLeakage(rows) /\ answer.balance = b
  <2> HIDE DEF e, b
  <2> QED BY <1>1
<1>4. (\A i \in DOMAIN rows : rows[i][1] # Null) =>
          e.extra = Cardinality(again) /\ e.distinct = Len(rows) - Cardinality(again)
  <2> HIDE DEF R, rows
  <2> QED BY <1>2, ExactFacts
<1>5. \A id : id \in SplitLeakage(rows).leaked <=>
                  \E i, j \in DOMAIN rows :
                      /\ rows[i][1] = id /\ rows[j][1] = id
                      /\ rows[i][2] # rows[j][2] /\ Null \notin {rows[i][2], rows[j][2]}
  <2> HIDE DEF R, rows
  <2> QED BY <1>2, LeakFacts
<1>6. b.classes * b.smallest <= Len(rows) /\ Len(rows) <= b.classes * b.largest
  <2> HIDE DEF R, rows
  <2> QED BY <1>2, BalanceFacts
<1> HIDE DEF e, b
<1> QED BY <1>3, <1>4, <1>5, <1>6 DEF GroupsArePairs

LEMMA CheckBatches == CheckIInv => BatchesAddUp
<1> SUFFICES ASSUME CheckIInv PROVE BatchesAddUp
  OBVIOUS
<1>1. ASSUME Answered("content")
      PROVE  answer.complete <=>
                 \A i \in DOMAIN call.rows : call.rows[i][1] # Null /\ call.rows[i][2] = "full"
  <2> DEFINE R == {Null, "x"} \X {Null, "empty", "full"}
             rows == call.rows
  <2>1. call \in CountCalls /\ call.op = "content" /\ answer = MissingContent(rows)
    BY <1>1, CheckCallFacts DEF CheckIInv, Answered
  <2>2. rows \in UNION {[1..n -> R] : n \in 1..3}
    BY <2>1 DEF CountCalls
  <2>3. rows \in Seq(R)
    <3> HIDE DEF rows, R
    <3> QED BY <2>2, RowsAreSeq
  <2> HIDE DEF rows
  <2>4. MissingContent(rows).complete <=>
            \A i \in DOMAIN rows : rows[i][1] # Null /\ rows[i][2] = "full"
    BY <2>3, ContentFacts
  <2> QED BY <2>1, <2>4 DEF rows
<1>2. ASSUME Answered("vectors"), answer.state = "done"
      PROVE  /\ Len(call.rows) = answer.dead + answer.broken + CountIn(call.rows, LAMBDA v : v > 0)
             /\ answer.norms = "mixed" => Cardinality(ToSet(call.rows)) > 1
  <2> DEFINE R == {-2, -1, 0, 10, 12, 20}
             S == {-2, -1} \cup Nat
             rows == call.rows
  <2>1. call \in CountCalls /\ call.op = "vectors" /\ answer = VectorHealth(rows)
    BY <1>2, CheckCallFacts DEF CheckIInv, Answered
  <2>2. rows \in UNION {[1..n -> R] : n \in 1..3}
    BY <2>1 DEF CountCalls
  <2>3. R \subseteq S
    OBVIOUS
  <2>4. rows \in Seq(R)
    <3> HIDE DEF rows, R
    <3> QED BY <2>2, RowsAreSeq
  <2>5. rows \in Seq(S)
    <3> HIDE DEF rows, R, S
    <3> QED BY <2>3, <2>4
  <2> HIDE DEF rows
  <2> QED BY <1>2, <2>1, <2>5, VectorFacts DEF rows
<1>3. ASSUME Answered("near") PROVE answer.close <= answer.checked
  <2> DEFINE R == [finite : BOOLEAN, hits : {<<0>>, <<0, 0>>, <<0, 2>>, <<2, 3>>}]
             rows == call.rows
  <2>1. call \in CountCalls /\ call.op = "near" /\ answer = NearDuplicates(rows)
    BY <1>3, CheckCallFacts DEF CheckIInv, Answered
  <2>2. rows \in UNION {[1..n -> R] : n \in 0..2}
    BY <2>1 DEF CountCalls
  <2>3. IsFiniteSet(DOMAIN rows)
    <3> HIDE DEF rows, R
    <3> QED BY <2>2, RowsAreSeq
  <2> HIDE DEF rows
  <2> QED BY <2>1, <2>3, NearFacts
<1> QED BY <1>1, <1>2, <1>3 DEF BatchesAddUp

\* The places of the tables are never as far from one of them.
LEMMA NoTies == \A o, p, q \in {0, 1, 4, 6} : Far(o, q) = Far(p, q) => o = p
BY DEF Far

LEMMA CheckRecall == CheckIInv => RecallIsMeasured
<1> SUFFICES ASSUME CheckIInv, Answered("recall"), answer.state # "nothing" PROVE RecallIsMeasured
  BY DEF RecallIsMeasured
<1> DEFINE Places == {0, 1, 4, 6}
           table == call.table
           queries == call.queries
           rows == table.rows
<1>1. call \in RecallCalls /\ answer = IndexRecall(table, queries, call.stop)
  BY CheckCallFacts DEF CheckIInv, Answered
<1>2. PICK P \in SUBSET Places : table \in [rows : SetToSeqs(P), home : [P -> 1..2], flat : BOOLEAN]
  BY <1>1 DEF RecallCalls
<1>3. rows \in SetToSeqs(P) /\ table.home \in [P -> 1..2]
  BY <1>2
<1>4. queries \in SUBSET P /\ call.stop \in Nat
  <2>1. queries \subseteq DOMAIN table.home /\ call.stop \in {0, 2, 4}
    BY <1>1 DEF RecallCalls
  <2> HIDE DEF queries, table
  <2> QED BY <1>3, <2>1
<1>5. P \in SUBSET Nat /\ IsFiniteSet(P)
  <2> DEFINE I == 0..6
  <2>0. IsFiniteSet(I)
    <3>1. \A n \in Nat : IsFiniteSet(0..n)
      BY FS_Interval
    <3>2. 6 \in Nat
      OBVIOUS
    <3> QED BY <3>1, <3>2, Zenon
  <2>1. 0 \in I /\ 1 \in I /\ 4 \in I /\ 6 \in I /\ \A i \in I : i \in Nat
    OBVIOUS
  <2>2. P \in SUBSET I
    <3> HIDE DEF I
    <3> QED BY <2>1
  <2> HIDE DEF I, Places
  <2> QED BY <2>0, <2>1, <2>2, FS_Subset
<1>6. rows \in Seq(Nat) /\ ToSet(rows) = P
  <2> DEFINE n == Cardinality(P)
             D == 1..n
  <2>1. n \in Nat /\ IsFiniteSet(D) /\ Cardinality(D) = n
    BY <1>5, FS_CardinalityType, FS_Interval
  <2>2. rows \in [D -> P] /\ \A i, j \in D : i # j => rows[i] # rows[j]
    BY <1>3 DEF SetToSeqs
  <2> HIDE DEF rows
  <2>3. rows \in [D -> Nat]
    BY <1>5, <2>2
  <2>4. rows \in Seq(Nat)
    BY <2>1, <2>3, SeqDef
  <2> HIDE DEF D
  <2>5. rows \in Injection(D, P)
    BY <2>2 DEF Injection, IsInjective
  <2>6. rows \in Surjection(D, P)
    BY <1>5, <2>1, <2>5, FS_Injection
  <2>7. ToSet(rows) = P
    <3>1. DOMAIN rows = D /\ (\A i \in D : rows[i] \in P) /\ \A p \in P : \E i \in D : rows[i] = p
      BY <2>2, <2>6 DEF Surjection
    <3> QED BY <3>1 DEF ToSet
  <2> QED BY <2>4, <2>7
<1>7. \A q \in queries : \A o, p \in P : Far(o, q) = Far(p, q) => o = p
  <2> HIDE DEF queries
  <2> QED BY <1>4, NoTies
<1>8. DOMAIN table.home = P
  BY <1>3
<1> HIDE DEF queries, table
<1>9. RecalledWell(P, table, queries, answer)
  <2> DEFINE stop == call.stop
  <2>1. /\ table.rows \in Seq(Nat) /\ ToSet(table.rows) = P /\ queries \in SUBSET P /\ stop \in Nat
        /\ answer = IndexRecall(table, queries, stop)
    BY <1>1, <1>4, <1>6
  <2>2. answer.state # "nothing"
    OBVIOUS
  <2> HIDE DEF stop
  <2> QED BY ONLY <1>5, <1>7, <1>8, <2>1, <2>2, RecallFacts
<1> QED BY <1>8, <1>9 DEF RecallIsMeasured, RecalledWell, queries, table

\* What the checks conclude follows from the rows they were quoted for: the columns of
\* plan, the groups of the three that group, the batches of _batches, the recall of
\* _exact_neighbours and _measure.
THEOREM ScansHonest == Spec => []ScansAreHonest
<1>1. CheckIInv => ScansAreHonest
  BY CheckQuotes, CheckGroups, CheckBatches, CheckRecall DEF ScansAreHonest
<1> QED BY <1>1, InitCheckIInv, NextCheckIInv, PTL DEF Spec

--------------------------------------------------------------------------
(* The language layer, asked and answered. *)

\* A call is one that can be asked, and the language layer's answer what its operator gives.
LanguageIInv ==
    /\ call \in Calls
    /\ answer # Unanswered =>
        /\ call.op = "resolve" => answer = [used |-> Resolve(call.s), picker |-> ModelsFor(call.s)]
        /\ call.op = "wire" =>
               answer = [anthropic |-> AnthropicWire(Transcript(call.rounds)),
                         openai |-> OpenAIWire(Transcript(call.rounds))]
        /\ call.op = "outcome" => answer = Outcome(call.provider, call.method, call.outcome)
        /\ call.op = "filter" => answer = FilterDraft(call)
        /\ call.op = "spend" => answer = SpendHistory(call.ledger)
        /\ call.op = "tool" =>
               answer = CallTool(call.tool, call.configured, call.route, call.mode, call.limit)
        /\ call.op = "cred" =>
               answer = [file |-> CredFile(call), listing |-> Resolving(call), opening |-> Opening(call)]

\* What a step that is not the language layer's leaves of it.
LEMMA OtherLanguageReplies ==
    ASSUME Next
    PROVE  \/ AnswerLanguage
           \/ Asks(QueryOp \cup CheckOp \cup PanelOp \cup SourceOp \cup MediaOp \cup CommandOp)
<1>1. CASE AnswerQuery
  BY <1>1, QueryReplies DEF Asks
<1>2. CASE AnswerCheck
  BY <1>2, CheckReplies DEF Asks
<1>3. CASE AnswerPanel
  BY <1>3, PanelReplies DEF Asks
<1>4. CASE AnswerSource
  BY <1>4, SourceReplies DEF Asks
<1>5. CASE AnswerMedia
  BY <1>5, MediaReplies DEF Asks
<1>6. CASE AnswerCommand
  BY <1>6, CommandReplies DEF Asks
<1> QED BY <1>1, <1>2, <1>3, <1>4, <1>5, <1>6 DEF Next

LEMMA InitLanguageIInv == Init => LanguageIInv
BY DEF Init, LanguageIInv, Calls

LEMMA NextLanguageIInv == LanguageIInv /\ [Next]_<<call, answer>> => LanguageIInv'
<1> SUFFICES ASSUME LanguageIInv, [Next]_<<call, answer>> PROVE LanguageIInv'
  OBVIOUS
<1>1. ASSUME Asks(QueryOp \cup CheckOp \cup PanelOp \cup SourceOp \cup MediaOp \cup CommandOp)
      PROVE  LanguageIInv'
  <2>1. /\ call' = call
        /\ call.op \notin {"resolve", "wire", "outcome", "filter", "spend", "tool", "cred"}
    BY <1>1 DEF Asks, QueryOp, CheckOp, PanelOp, SourceOp, MediaOp, CommandOp
  <2> QED BY <2>1 DEF LanguageIInv
<1>2. CASE AnswerResolve
  BY <1>2 DEF LanguageIInv, AnswerResolve, Reply
<1>3. CASE AnswerWire
  BY <1>3 DEF LanguageIInv, AnswerWire, Reply
<1>4. CASE AnswerOutcome
  BY <1>4 DEF LanguageIInv, AnswerOutcome, Reply
<1>5. CASE AnswerFilter
  BY <1>5 DEF LanguageIInv, AnswerFilter, Reply
<1>6. CASE AnswerSpend
  BY <1>6 DEF LanguageIInv, AnswerSpend, Reply
<1>7. CASE AnswerTool
  BY <1>7 DEF LanguageIInv, AnswerTool, Reply
<1>8. CASE AnswerCred
  BY <1>8 DEF LanguageIInv, AnswerCred, Reply
<1>9. CASE UNCHANGED <<call, answer>>
  BY <1>9 DEF LanguageIInv
<1> QED BY <1>1, <1>2, <1>3, <1>4, <1>5, <1>6, <1>7, <1>8, <1>9, OtherLanguageReplies DEF AnswerLanguage

\* A call of the language layer, by its operation, is one of the calls of that operation.
LEMMA LanguageCallFacts ==
    ASSUME LanguageIInv
    PROVE  /\ call.op = "resolve" => call \in ResolveCalls
           /\ call.op = "wire" => call \in WireCalls
           /\ call.op = "outcome" => call \in OutcomeCalls
           /\ call.op = "filter" => call \in FilterCalls
           /\ call.op = "spend" => call \in SpendCalls
           /\ call.op = "tool" => call \in ToolCalls
           /\ call.op = "cred" => call \in CredCalls
<1>1. /\ call \in Calls
      /\ QueryOp \cap LanguageOp = {} /\ CheckOp \cap LanguageOp = {} /\ PanelOp \cap LanguageOp = {}
      /\ SourceOp \cap LanguageOp = {} /\ MediaOp \cap LanguageOp = {} /\ CommandOp \cap LanguageOp = {}
  BY DEF LanguageIInv, QueryOp, CheckOp, LanguageOp, PanelOp, SourceOp, MediaOp, CommandOp
<1>2. call.op \in LanguageOp => call \in LanguageCalls
  BY <1>1, QueryOps, CheckOps, PanelOps, SourceOps, MediaOps, CommandOps DEF Calls
<1>3. call \in ResolveCalls => call.op = "resolve"
  BY DEF ResolveCalls
<1>4. call \in WireCalls => call.op = "wire"
  BY DEF WireCalls
<1>5. call \in OutcomeCalls => call.op = "outcome"
  BY DEF OutcomeCalls
<1>6. call \in FilterCalls => call.op = "filter"
  BY DEF FilterCalls
<1>7. call \in SpendCalls => call.op = "spend"
  BY DEF SpendCalls
<1>8. call \in ToolCalls => call.op = "tool"
  BY DEF ToolCalls
<1>9. call \in CredCalls => call.op = "cred"
  BY DEF CredCalls
<1>10. {"resolve", "wire", "outcome", "filter", "spend", "tool", "cred"} \subseteq LanguageOp
  BY DEF LanguageOp
<1> QED BY <1>2, <1>3, <1>4, <1>5, <1>6, <1>7, <1>8, <1>9, <1>10 DEF LanguageCalls

LEMMA LanguageChoices == LanguageIInv => ChoicesAreHonoured
<1> SUFFICES ASSUME LanguageIInv, Answered("resolve") PROVE ChoicesAreHonoured
  BY DEF ChoicesAreHonoured
<1> DEFINE s == call.s
           u == Resolve(s)
           p == ModelsFor(s)
<1>1. call \in ResolveCalls /\ answer.used = u /\ answer.picker = p
  <2> HIDE DEF u, p
  <2> QED BY LanguageCallFacts DEF LanguageIInv, Answered, u, p
<1> DEFINE local == PickLocal(s.model, s.pulled)
           honoured ==
               /\ u.provider \in {"none", s.want} \/ (s.want = "auto" /\ u.provider # "openai-compat")
               /\ u.available =>
                      /\ s.enabled /\ s.want # "none" /\ u.deep # Unset /\ u.fast # Unset
                      /\ s.model # Unset => u.deep = s.model
                      /\ u.provider = "anthropic" => "anthropic" \in s.keys
                      /\ u.provider = "ollama" => s.daemon
                      /\ u.provider = "openai-compat" => s.base
               /\ u.available /\ u.provider # "openai-compat" =>
                      /\ p.reachable /\ p.provider = u.provider
                      /\ s.model = Unset => \E o \in p.options : o.id = u.deep
               /\ u.available => \A o \in p.options :
                      (o.id = u.deep => o.cost = Cost(u.provider, u.deep))
               /\ p.options # {} => p.reachable
<1>2. /\ s.model \in {Unset, "own", "opus"} /\ s.fast \in {Unset, "haiku"}
      /\ s.want \in {"auto", "anthropic", "ollama", "openai-compat", "none", "typo"}
  BY <1>1 DEF ResolveCalls
<1> HIDE DEF s
<1>3. ASSUME NEW q, NEW deep
      PROVE  /\ Using(q, deep, s.fast).provider = q /\ Using(q, deep, s.fast).available
             /\ Using(q, deep, s.fast).deep = deep
             /\ Using(q, deep, s.fast).fast = Chosen(s.fast, deep)
  <2> DEFINE able == deep \in Registry
  <2>1. Using(q, deep, s.fast) = [provider |-> q, available |-> TRUE, deep |-> deep,
                                  fast |-> Chosen(s.fast, deep), tools |-> able]
    BY DEF Using
  <2> HIDE DEF able
  <2> QED BY ONLY <2>1
<1>4. \A deep : deep # Unset => Chosen(s.fast, deep) # Unset
  BY <1>2 DEF Chosen, Unset
<1>5. \/ /\ u = Using("anthropic", Chosen(s.model, "opus"), s.fast)
         /\ s.enabled /\ s.want \in {"anthropic", "auto"} /\ "anthropic" \in s.keys
      \/ /\ u = Using("ollama", local, s.fast) /\ local # Unset
         /\ s.enabled /\ s.want \in {"ollama", "auto"} /\ s.daemon
      \/ /\ u = Using("openai-compat", s.model, s.fast) /\ s.model # Unset
         /\ s.enabled /\ s.want = "openai-compat" /\ s.base
      \/ \E why : u = None(why)
  <2> HIDE DEF local
  <2> QED BY DEF Resolve, local
<1>6. p.options # {} => p.reachable
  BY DEF ModelsFor, NoOptions
<1>7. \A m, from : Option(m, from).id = m /\ Option(m, from).cost =
                       IF from = "installed" THEN "free" ELSE IF from = "registry" THEN "priced" ELSE "unknown"
  BY DEF Option
<1>8. ASSUME /\ u = Using("anthropic", Chosen(s.model, "opus"), s.fast)
           /\ s.enabled /\ s.want \in {"anthropic", "auto"} /\ "anthropic" \in s.keys
      PROVE honoured
  <2> DEFINE deep == Chosen(s.model, "opus")
  <2>1. deep # Unset /\ (s.model # Unset => deep = s.model) /\ (s.model = Unset => deep = "opus")
    BY <1>2 DEF Chosen, Unset
  <2> HIDE DEF deep
  <2>2. u.provider = "anthropic" /\ u.available /\ u.deep = deep /\ u.fast # Unset
    BY <1>3, <1>4, <1>8, <2>1 DEF deep
  <2> HIDE DEF u
  <2>3. /\ p.provider = "anthropic" /\ p.reachable
        /\ p.options = {Option(m, "registry") : m \in Registry}
    BY <1>8, <2>2 DEF ModelsFor, u
  <2> HIDE DEF p
  <2>4. \A o \in p.options : o.id \in Registry /\ o.cost = "priced"
    BY <1>7, <2>3
  <2>5. s.model = Unset => \E o \in p.options : o.id = deep
    BY <1>7, <2>1, <2>3 DEF Registry
  <2>6. deep \in Registry => Cost("anthropic", deep) = "priced"
    BY DEF Cost
  <2> QED BY ONLY <1>8, <2>1, <2>2, <2>3, <2>4, <2>5, <2>6
<1>9. ASSUME /\ u = Using("ollama", local, s.fast) /\ local # Unset
           /\ s.enabled /\ s.want \in {"ollama", "auto"} /\ s.daemon
      PROVE honoured
  <2>1. (s.model # Unset => local = s.model) /\ (s.model = Unset => local \in s.pulled)
    BY <1>9 DEF PickLocal
  <2> HIDE DEF local
  <2>2. u.provider = "ollama" /\ u.available /\ u.deep = local /\ u.fast # Unset
    BY <1>3, <1>4, <1>9
  <2> HIDE DEF u
  <2>3. /\ p.provider = "ollama" /\ p.reachable
        /\ p.options = {Option(m, "installed") : m \in s.pulled}
    BY <1>9, <2>2 DEF ModelsFor, u
  <2> HIDE DEF p
  <2>4. \A o \in p.options : o.cost = "free"
    BY <1>7, <2>3
  <2>5. s.model = Unset => \E o \in p.options : o.id = local
    BY <1>7, <2>1, <2>3
  <2>6. Cost("ollama", local) = "free"
    BY DEF Cost
  <2> QED BY ONLY <1>9, <2>1, <2>2, <2>3, <2>4, <2>5, <2>6
<1>10. ASSUME /\ u = Using("openai-compat", s.model, s.fast) /\ s.model # Unset
            /\ s.enabled /\ s.want = "openai-compat" /\ s.base
       PROVE honoured
  <2>1. u.provider = "openai-compat" /\ u.available /\ u.deep = s.model /\ u.fast # Unset
    BY <1>3, <1>4, <1>10
  <2> HIDE DEF u
  <2>2. p.options \in {{}, {Option("opus", "registry"), Option("own", "endpoint")}}
    BY <1>10 DEF ModelsFor, NoOptions
  <2> HIDE DEF p
  <2>3. \A o \in p.options : \/ o.id = "opus" /\ o.cost = "priced"
                             \/ o.id = "own" /\ o.cost = "unknown"
    <3>1. ASSUME NEW o \in p.options
          PROVE  o = Option("opus", "registry") \/ o = Option("own", "endpoint")
      BY <2>2
    <3>2. Option("opus", "registry").id = "opus" /\ Option("opus", "registry").cost = "priced"
      BY DEF Option
    <3>3. Option("own", "endpoint").id = "own" /\ Option("own", "endpoint").cost = "unknown"
      BY DEF Option
    <3> QED BY ONLY <3>1, <3>2, <3>3
  <2>4. Cost("openai-compat", "opus") = "priced" /\ Cost("openai-compat", "own") = "unknown"
    BY DEF Cost, Registry
  <2> QED BY ONLY <1>6, <1>10, <2>1, <2>3, <2>4
<1>11. ASSUME \E why : u = None(why)
       PROVE honoured
  <2>1. u.provider = "none" /\ ~u.available
    BY <1>11 DEF None
  <2> HIDE DEF u, p
  <2> QED BY ONLY <1>6, <2>1
<1>12. honoured
  BY <1>5, <1>8, <1>9, <1>10, <1>11
<1> QED
  <2> HIDE DEF u, p
  <2> QED BY <1>1, <1>12 DEF ChoicesAreHonoured, s

LEMMA LanguageReads == LanguageIInv => RepliesAreRead
<1> SUFFICES ASSUME LanguageIInv, Answered("outcome") PROVE RepliesAreRead
  BY DEF RepliesAreRead
<1> DEFINE o == call.outcome
           m == call.method
<1>1. call \in OutcomeCalls /\ answer = Outcome(call.provider, m, o)
  BY LanguageCallFacts DEF LanguageIInv, Answered
<1>2. o \in Transport \cup Body
  BY <1>1 DEF OutcomeCalls
<1>3. \/ answer = AnthropicReply(m, o) \/ answer = OllamaReply(m, o) \/ answer = CompatReply(m, o)
      \/ answer = [kind |-> "no_provider", retryable |-> FALSE, metered |-> FALSE]
  BY <1>1 DEF Outcome
<1> HIDE DEF o, m
<1>4. CASE o \in Transport
  <2> DEFINE worth == Transport \ {"rejected", "not_found"}
  <2>1. /\ AnthropicReply(m, o) = Failed(o \in {"rate_limited", "server_error", "unreachable"})
        /\ OllamaReply(m, o) = Failed(o \in {"unreachable", "not_JSON"})
        /\ CompatReply(m, o) = Failed(o \in {"server_error", "unreachable", "not_JSON"})
    BY <1>4, Zenon DEF AnthropicReply, OllamaReply, CompatReply
  <2>2. \A r \in BOOLEAN : /\ Failed(r).metered = FALSE /\ Failed(r).kind = "error"
                           /\ Failed(r).retryable = r
    BY DEF Failed
  <2>3. /\ {"rate_limited", "server_error", "unreachable"} \subseteq worth
        /\ {"unreachable", "not_JSON"} \subseteq worth
        /\ {"server_error", "unreachable", "not_JSON"} \subseteq worth
    BY DEF Transport
  <2>4. \/ \E r \in BOOLEAN : answer = Failed(r) /\ (r => o \in worth)
        \/ answer = [kind |-> "no_provider", retryable |-> FALSE, metered |-> FALSE]
    <3> HIDE DEF worth
    <3>1. ASSUME NEW S, S \subseteq worth, answer = Failed(o \in S)
          PROVE  \E r \in BOOLEAN : answer = Failed(r) /\ (r => o \in worth)
      <4>1. CASE o \in S
        <5>1. (o \in S) = TRUE
          BY <4>1
        <5>2. answer = Failed(TRUE) /\ o \in worth
          BY <3>1, <4>1, <5>1, Zenon
        <5> QED BY <5>2
      <4>2. CASE o \notin S
        <5>1. (o \in S) = FALSE
          BY <4>2
        <5>2. answer = Failed(FALSE)
          BY <3>1, <5>1, Zenon
        <5> QED BY <5>2
      <4> QED BY <4>1, <4>2
    <3> QED BY <1>3, <2>1, <2>3, <3>1, Zenon
  <2>5. answer.metered = FALSE /\ answer.kind # "answer" /\ (answer.retryable => o \in worth)
    BY <2>2, <2>4
  <2> QED BY <2>5 DEF RepliesAreRead, Transport, Body, o
<1>5. CASE o \in Body /\ o \notin Transport
  <2>1. AnthropicReply(m, o) \in {Failed(FALSE), Answer}
    BY <1>5 DEF AnthropicReply
  <2>2. OllamaReply(m, o) \in {Failed(FALSE), Answer}
    BY <1>5 DEF OllamaReply
  <2>3. CompatReply(m, o) \in {Failed(FALSE), Answer}
    BY <1>5 DEF CompatReply
  <2>4. \/ answer = Failed(FALSE) \/ answer = Answer
        \/ answer = [kind |-> "no_provider", retryable |-> FALSE, metered |-> FALSE]
    BY <1>3, <2>1, <2>2, <2>3
  <2> QED BY <1>5, <2>4 DEF RepliesAreRead, Failed, Answer, o
<1> QED BY <1>2, <1>4, <1>5

LEMMA LanguageTools == LanguageIInv => ToolsAnswer
<1> SUFFICES ASSUME LanguageIInv, Answered("tool") PROVE ToolsAnswer
  BY DEF ToolsAnswer
<1>1. call \in ToolCalls /\ answer = CallTool(call.tool, call.configured, call.route, call.mode, call.limit)
  BY LanguageCallFacts DEF LanguageIInv, Answered
<1> QED BY <1>1, LanguageAssumption DEF ToolsAnswer, CallTool, ToolCalls, SayWhatFailed, Tool, Lesser

LEMMA LanguageSecrets == LanguageIInv => SecretsAgree
<1> SUFFICES ASSUME LanguageIInv, Answered("cred") PROVE SecretsAgree
  BY DEF SecretsAgree
<1> DEFINE c == call
<1>1. call \in CredCalls
      /\ answer = [file |-> CredFile(c), listing |-> Resolving(c), opening |-> Opening(c)]
  BY LanguageCallFacts DEF LanguageIInv, Answered
<1>2. CredFile(c) \in {"named", "checkout", "settings"} /\ (c.frozen => CredFile(c) # "checkout")
  <2> DEFINE places == IF c.named THEN <<"named">>
                       ELSE IF c.frozen THEN <<"settings">> ELSE <<"checkout", "settings">>
             T == {i \in DOMAIN places : places[i] \in c.files}
             there == At(places, T)
             P == {"named", "settings"} \cup (IF c.frozen THEN {} ELSE {"checkout"})
  <2>1. places \in Seq(P) /\ Len(places) \in {1, 2} /\ c.frozen \in BOOLEAN
    <3>1. c.named \in BOOLEAN /\ c.frozen \in BOOLEAN
      BY <1>1 DEF CredCalls
    <3>2. CASE c.named
      <4>1. places = <<"named">> /\ "named" \in P
        BY <3>2
      <4> HIDE DEF P
      <4> QED BY <3>1, <4>1
    <3>3. CASE ~c.named /\ c.frozen
      <4>1. places = <<"settings">> /\ "settings" \in P
        BY <3>3
      <4> HIDE DEF P
      <4> QED BY <3>1, <4>1
    <3>4. CASE ~c.named /\ ~c.frozen
      <4>1. places = <<"checkout", "settings">> /\ "checkout" \in P /\ "settings" \in P
        BY <3>4
      <4> HIDE DEF P
      <4> QED BY <3>1, <4>1
    <3> QED BY <3>1, <3>2, <3>3, <3>4
  <2> HIDE DEF places, P
  <2>2. DOMAIN places \in {1..1, 1..2} /\ Head(places) \in P /\ \A i \in DOMAIN places : places[i] \in P
    BY <2>1
  <2>3. T \in SUBSET Nat /\ IsFiniteSet(T)
    <3>1. \A n \in Nat : 1..n \in SUBSET Nat /\ IsFiniteSet(1..n)
      BY FS_Interval
    <3>2. 1 \in Nat /\ 2 \in Nat
      OBVIOUS
    <3>3. DOMAIN places \in SUBSET Nat /\ IsFiniteSet(DOMAIN places)
      BY <2>2, <3>1, <3>2, Zenon
    <3>4. T \subseteq DOMAIN places
      OBVIOUS
    <3> HIDE DEF T
    <3> QED BY <3>3, <3>4, FS_Subset
  <2>4. there # <<>> => Head(there) \in P
    <3>1. \A i \in T : places[i] \in P
      BY <2>2
    <3> HIDE DEF T
    <3>2. there \in Seq(P)
      BY <2>3, <3>1, AtSeq
    <3> HIDE DEF there
    <3> QED BY <3>2
  <2>5. CredFile(c) = IF there = <<>> THEN Head(places) ELSE Head(there)
    BY DEF CredFile, places
  <2>6. CredFile(c) \in P
    <3> HIDE DEF there
    <3> QED BY <2>2, <2>4, <2>5
  <2> QED BY <2>1, <2>6 DEF P
<1>3. answer.file = CredFile(c) /\ answer.listing = Resolving(c) /\ answer.opening = Opening(c)
  BY <1>1
<1>4. c.env \in {Unset, "empty", "value"}
  BY <1>1 DEF CredCalls
<1> QED BY <1>2, <1>3, <1>4 DEF SecretsAgree, Resolving, Opening, Kept, Unset

\* What a column holds among its first rows is in the column.
LEMMA FacetedFacts ==
    ASSUME NEW S, NEW values \in Seq(S)
    PROVE  /\ Faceted(values) \subseteq ToSet(values)
           /\ Faceted(values) # {} => Cardinality(Faceted(values)) <= FacetMost
<1> DEFINE first == ToSet(SubSeq(values, 1, Lesser(FacetSample, Len(values))))
<1>1. Faceted(values) = {} \/ (Faceted(values) = first /\ Cardinality(first) \in 1..FacetMost)
  BY DEF Faceted
<1>2. first \subseteq ToSet(values)
  <2> DEFINE n == Lesser(FacetSample, Len(values))
             s == SubSeq(values, 1, n)
  <2>1. n \in 0..Len(values) /\ Len(values) \in Nat /\ DOMAIN values = 1..Len(values)
    BY LanguageAssumption, LenProperties DEF Lesser
  <2> HIDE DEF n
  <2>2. DOMAIN s = 1..n /\ \A i \in 1..n : s[i] = values[i]
    <3>1. \A i \in 1..n : values[i] \in S
      BY <2>1, LenProperties
    <3>2. s \in Seq(S) /\ Len(s) = (IF 1 <= n THEN n - 1 + 1 ELSE 0)
          /\ \A i \in 1..n - 1 + 1 : s[i] = values[1 + i - 1]
      BY <2>1, <3>1, SubSeqProperties
    <3> HIDE DEF s
    <3>3. Len(s) = n /\ \A i \in 1..n : i \in 1..n - 1 + 1 /\ 1 + i - 1 = i
      BY <2>1, <3>2
    <3> QED BY <3>2, <3>3, LenProperties
  <2> HIDE DEF s
  <2>3. ToSet(s) \subseteq ToSet(values)
    BY <2>1, <2>2 DEF ToSet
  <2> QED BY <2>3 DEF s, n
<1> HIDE DEF first
<1>3. FacetMost \in Nat
  BY LanguageAssumption
<1> QED BY <1>1, <1>2, <1>3

LEMMA LanguageValues == LanguageIInv => ValuesStayHome
<1> SUFFICES ASSUME LanguageIInv, Answered("filter") PROVE ValuesStayHome
  BY DEF ValuesStayHome
<1> DEFINE c == call
           sends == SendValues(c.asked, c.loopback, c.provider)
           sent == IF sends THEN Faceted(c.values) ELSE {}
           kind == Outcome(c.provider, "complete", c.outcome).kind
<1>1. call \in FilterCalls /\ answer = FilterDraft(c)
  BY LanguageCallFacts DEF LanguageIInv, Answered
<1>2. /\ c.asked \in {"yes", "no", Unset} /\ c.provider \in {"anthropic", "ollama", "openai-compat", "none"}
      /\ c.draft \in {"refused", "empty", "no_column", "unreadable", "runs"}
      /\ c.values \in UNION {[1..n -> {"x", "y", "z"}] : n \in 0..3}
  BY <1>1 DEF FilterCalls
<1>3. c.values \in Seq({"x", "y", "z"})
  <2> DEFINE R == {"x", "y", "z"}
             values == c.values
  <2>1. values \in UNION {[1..n -> R] : n \in 0..3}
    BY <1>2
  <2> HIDE DEF R, values
  <2>2. values \in Seq(R)
    BY <2>1, RowsAreSeq
  <2> QED BY <2>2 DEF R, values
<1> HIDE DEF c
<1>4. sends => \/ c.asked = "yes"
               \/ (c.asked = Unset /\ c.loopback /\ c.provider # "anthropic")
  BY <1>2 DEF SendValues, Unset
<1>5. sent # {} => sends /\ Cardinality(sent) <= FacetMost /\ sent \subseteq ToSet(c.values)
  <2> HIDE DEF sends
  <2> QED BY <1>3, FacetedFacts
<1>6. kind = "answer" => c.provider # "none"
  BY DEF Outcome
<1> HIDE DEF sends, sent, kind
<1>7. answer.sent = sent /\ (answer.valid => answer.ok /\ ~c.ceiling /\ kind = "answer" /\ c.draft = "runs")
  <2>1. answer = IF c.ceiling \/ kind # "answer" THEN [ok |-> FALSE, valid |-> FALSE, sent |-> sent]
                 ELSE IF c.draft \in {"refused", "empty", "no_column", "unreadable"}
                      THEN [ok |-> TRUE, valid |-> FALSE, sent |-> sent]
                 ELSE [ok |-> TRUE, valid |-> TRUE, sent |-> sent]
    BY <1>1 DEF FilterDraft, sends, sent, kind
  <2> QED BY <1>2, <2>1
<1> QED BY <1>4, <1>5, <1>6, <1>7 DEF ValuesStayHome, c

--------------------------------------------------------------------------
(* The history of the spend. *)

\* The lines at some places that are calls, those of them with a known price, and hits.
Called(ledger, T) == {i \in T : ~ledger[i].cached}
Priced(ledger, T) == {i \in Called(ledger, T) : ledger[i].usd # -1}
Hits(ledger, T) == T \ Called(ledger, T)
Money(ledger, T) == SumFunction([i \in T |-> ledger[i].usd])

\* What a line may hold: a hit cost what is known.
Lined(ledger, T) ==
    \A i \in T : (ledger[i].usd \in Nat \/ ledger[i].usd = -1) /\ (ledger[i].cached => ledger[i].usd # -1)

LEMMA FoldFields ==
    ASSUME NEW ledger, NEW T
    PROVE  Fold(ledger, T) =
               [calls |-> Cardinality(Called(ledger, T)), usd |-> Money(ledger, Priced(ledger, T)),
                unpriced |-> Cardinality(Called(ledger, T) \ Priced(ledger, T)),
                hits |-> Cardinality(Hits(ledger, T)), avoided |-> Money(ledger, Hits(ledger, T))]
BY DEF Fold, Called, Priced, Hits, Money, SumOf

\* What is known of money is a natural number.
LEMMA MoneyType ==
    ASSUME NEW ledger, NEW T, Lined(ledger, T), NEW U \in {Priced(ledger, T), Hits(ledger, T)}
    PROVE  [i \in U |-> ledger[i].usd] \in [U -> Nat]
<1>1. ASSUME NEW i \in U PROVE ledger[i].usd \in Nat
  BY DEF Lined, Priced, Hits, Called
<1> QED BY <1>1

\* The parts of the lines, by a key, are counted and summed up as their whole.
LEMMA CountParts ==
    ASSUME NEW S, IsFiniteSet(S), NEW T, IsFiniteSet(T), NEW key \in [T -> S], NEW U \in SUBSET T
    PROVE  SumFunction([k \in S |-> Cardinality({i \in U : key[i] = k})]) = Cardinality(U)
<1> DEFINE short == [i \in U |-> key[i]]
<1>1. short \in [U -> S] /\ IsFiniteSet(U)
  BY FS_Subset
<1>2. \A k \in S : {i \in U : short[i] = k} = {i \in U : key[i] = k}
  OBVIOUS
<1>3. SumFunction([k \in S |-> Cardinality({i \in U : short[i] = k})]) = Cardinality(U)
  <2> HIDE DEF short
  <2> QED BY ONLY <1>1, IsFiniteSet(S), SumOfCounts
<1>4. [k \in S |-> Cardinality({i \in U : short[i] = k})] = [k \in S |-> Cardinality({i \in U : key[i] = k})]
  <2> HIDE DEF short
  <2> QED BY <1>2
<1> HIDE DEF short
<1> QED BY <1>3, <1>4

LEMMA MoneyParts ==
    ASSUME NEW S, IsFiniteSet(S), NEW T, IsFiniteSet(T), NEW key \in [T -> S], NEW ledger,
           NEW U \in SUBSET T, [i \in U |-> ledger[i].usd] \in [U -> Nat]
    PROVE  SumFunction([k \in S |-> Money(ledger, {i \in U : key[i] = k})]) = Money(ledger, U)
<1> DEFINE short == [i \in U |-> key[i]]
           v == [i \in U |-> ledger[i].usd]
<1>1. short \in [U -> S] /\ IsFiniteSet(U) /\ v \in [U -> Nat]
  BY FS_Subset
<1>2. ASSUME NEW k \in S PROVE PartSum(v, {i \in U : short[i] = k}) = Money(ledger, {i \in U : key[i] = k})
  <2>1. {i \in U : short[i] = k} = {i \in U : key[i] = k}
    OBVIOUS
  <2> DEFINE part == {i \in U : key[i] = k}
  <2>2. [i \in part |-> v[i]] = [i \in part |-> ledger[i].usd]
    OBVIOUS
  <2> HIDE DEF v, part, short
  <2>3. PartSum(v, part) = Money(ledger, part)
    BY <2>2 DEF PartSum, Money
  <2> QED BY <2>1, <2>3 DEF part
<1> HIDE DEF short, v
<1>3. SumFunction([k \in S |-> PartSum(v, {i \in U : short[i] = k})]) = SumFunction(v)
  BY ONLY <1>1, IsFiniteSet(S), SumOfSums
<1>4. [k \in S |-> PartSum(v, {i \in U : short[i] = k})] = [k \in S |-> Money(ledger, {i \in U : key[i] = k})]
  BY <1>2
<1> QED BY <1>3, <1>4 DEF v, Money

FoldField == {"calls", "usd", "unpriced", "hits", "avoided"}

\* One field of the lines, folded by a key and added up again.
Regrouped(ledger, S, T, key, f) == SumFunction([k \in S |-> Fold(ledger, {i \in T : key[i] = k})[f]])

LEMMA FoldParts ==
    ASSUME NEW S, IsFiniteSet(S), NEW T, IsFiniteSet(T), NEW key \in [T -> S],
           NEW ledger, Lined(ledger, T), NEW f \in FoldField
    PROVE  Regrouped(ledger, S, T, key, f) = Fold(ledger, T)[f]
<1> DEFINE Part(k) == {i \in T : key[i] = k}
           C == Called(ledger, T)
           P == Priced(ledger, T)
           H == Hits(ledger, T)
           By(U, k) == {i \in U : key[i] = k}
           summed == SumFunction([k \in S |-> Fold(ledger, Part(k))[f]]) = Fold(ledger, T)[f]
<1>1. C \in SUBSET T /\ P \in SUBSET T /\ H \in SUBSET T /\ C \ P \in SUBSET T
  BY DEF Called, Priced, Hits
<1>2. \A k : /\ Called(ledger, Part(k)) = By(C, k) /\ Priced(ledger, Part(k)) = By(P, k)
             /\ Hits(ledger, Part(k)) = By(H, k)
             /\ Called(ledger, Part(k)) \ Priced(ledger, Part(k)) = By(C \ P, k)
  BY DEF Called, Priced, Hits
<1>3. [i \in P |-> ledger[i].usd] \in [P -> Nat] /\ [i \in H |-> ledger[i].usd] \in [H -> Nat]
  BY MoneyType
<1> HIDE DEF C, P, H, Part, By
<1>4. \A k : Fold(ledger, Part(k)) =
                 [calls |-> Cardinality(By(C, k)), usd |-> Money(ledger, By(P, k)),
                  unpriced |-> Cardinality(By(C \ P, k)), hits |-> Cardinality(By(H, k)),
                  avoided |-> Money(ledger, By(H, k))]
  BY <1>2, FoldFields
<1>5. Fold(ledger, T) = [calls |-> Cardinality(C), usd |-> Money(ledger, P),
                         unpriced |-> Cardinality(C \ P), hits |-> Cardinality(H),
                         avoided |-> Money(ledger, H)]
  BY FoldFields DEF C, P, H
<1>6. /\ SumFunction([k \in S |-> Cardinality(By(C, k))]) = Cardinality(C)
      /\ SumFunction([k \in S |-> Cardinality(By(C \ P, k))]) = Cardinality(C \ P)
      /\ SumFunction([k \in S |-> Cardinality(By(H, k))]) = Cardinality(H)
  BY <1>1, CountParts DEF By
<1>7. /\ SumFunction([k \in S |-> Money(ledger, By(P, k))]) = Money(ledger, P)
      /\ SumFunction([k \in S |-> Money(ledger, By(H, k))]) = Money(ledger, H)
  BY <1>1, <1>3, MoneyParts DEF By
<1>8. ASSUME f = "calls" PROVE summed
  <2>1. [k \in S |-> Fold(ledger, Part(k))[f]] = [k \in S |-> Cardinality(By(C, k))]
    BY <1>4, <1>8
  <2>2. Fold(ledger, T)[f] = Cardinality(C)
    BY ONLY <1>5, <1>8
  <2> QED BY ONLY <1>6, <2>1, <2>2
<1>9. ASSUME f = "usd" PROVE summed
  <2>1. [k \in S |-> Fold(ledger, Part(k))[f]] = [k \in S |-> Money(ledger, By(P, k))]
    BY <1>4, <1>9
  <2>2. Fold(ledger, T)[f] = Money(ledger, P)
    BY ONLY <1>5, <1>9
  <2> QED BY ONLY <1>7, <2>1, <2>2
<1>10. ASSUME f = "unpriced" PROVE summed
  <2>1. [k \in S |-> Fold(ledger, Part(k))[f]] = [k \in S |-> Cardinality(By(C \ P, k))]
    BY <1>4, <1>10
  <2>2. Fold(ledger, T)[f] = Cardinality(C \ P)
    BY ONLY <1>5, <1>10
  <2> QED BY ONLY <1>6, <2>1, <2>2
<1>11. ASSUME f = "hits" PROVE summed
  <2>1. [k \in S |-> Fold(ledger, Part(k))[f]] = [k \in S |-> Cardinality(By(H, k))]
    BY <1>4, <1>11
  <2>2. Fold(ledger, T)[f] = Cardinality(H)
    BY ONLY <1>5, <1>11
  <2> QED BY ONLY <1>6, <2>1, <2>2
<1>12. ASSUME f = "avoided" PROVE summed
  <2>1. [k \in S |-> Fold(ledger, Part(k))[f]] = [k \in S |-> Money(ledger, By(H, k))]
    BY <1>4, <1>12
  <2>2. Fold(ledger, T)[f] = Money(ledger, H)
    BY ONLY <1>5, <1>12
  <2> QED BY ONLY <1>7, <2>1, <2>2
<1>13. summed
  <2> HIDE DEF summed
  <2> QED BY <1>8, <1>9, <1>10, <1>11, <1>12 DEF FoldField
<1> QED BY <1>13 DEF Part, Regrouped

\* Part of a bijection is one of the parts.
LEMMA Restricted ==
    ASSUME NEW T, NEW U, NEW b \in Bijection(T, U), NEW A \in SUBSET T, NEW B \in SUBSET U,
           \A i \in T : i \in A <=> b[i] \in B
    PROVE  [i \in A |-> b[i]] \in Bijection(A, B)
<1>1. /\ b \in [T -> U] /\ (\A i, j \in T : b[i] = b[j] => i = j)
      /\ \A u \in U : \E i \in T : b[i] = u
  BY DEF Bijection, Injection, IsInjective, Surjection
<1> DEFINE c == [i \in A |-> b[i]]
<1>2. c \in [A -> B] /\ (\A i, j \in A : c[i] = c[j] => i = j) /\ DOMAIN c = A
  BY <1>1
<1>3. \A u \in B : \E i \in A : c[i] = u
  BY <1>1
<1> HIDE DEF c
<1>4. c \in Bijection(A, B)
  BY <1>2, <1>3 DEF Bijection, Injection, IsInjective, Surjection
<1> QED BY <1>4 DEF c

LEMMA CountMoved ==
    ASSUME NEW T, IsFiniteSet(T), NEW U, NEW b \in Bijection(T, U), NEW A \in SUBSET T,
           NEW B \in SUBSET U, \A i \in T : i \in A <=> b[i] \in B
    PROVE  Cardinality(A) = Cardinality(B)
<1>1. ExistsBijection(A, B) /\ IsFiniteSet(A)
  BY Restricted, FS_Subset DEF ExistsBijection
<1> QED BY <1>1, FS_Bijection

LEMMA MoneyMoved ==
    ASSUME NEW T, IsFiniteSet(T), NEW U, NEW b \in Bijection(T, U), NEW A \in SUBSET T,
           NEW B \in SUBSET U, \A i \in T : i \in A <=> b[i] \in B,
           NEW one, NEW two, \A i \in T : one[i] = two[b[i]],
           [i \in B |-> two[i].usd] \in [B -> Nat]
    PROVE  Money(one, A) = Money(two, B)
<1> DEFINE c == [i \in A |-> b[i]]
           v == [i \in A |-> one[i].usd]
           w == [i \in B |-> two[i].usd]
<1>1. c \in Bijection(A, B) /\ IsFiniteSet(A) /\ IsFiniteSet(B)
  <2>1. c \in Bijection(A, B) /\ IsFiniteSet(A)
    BY Restricted, FS_Subset
  <2>2. ExistsBijection(A, B)
    BY <2>1 DEF ExistsBijection
  <2> QED BY <2>1, <2>2, FS_Bijection
<1>2. \A i \in A : c[i] \in B /\ v[i] = w[c[i]]
  OBVIOUS
<1>3. v \in [A -> Nat] /\ w \in [B -> Nat]
  <2>1. \A i \in B : w[i] \in Nat
    OBVIOUS
  <2>2. \A i \in A : v[i] \in Nat
    BY <1>2, <2>1
  <2> QED BY <2>1, <2>2
<1> HIDE DEF c, v, w
<1>4. SumFunction(w) = SumFunction(v)
  BY ONLY <1>1, <1>2, <1>3, SumRenamed
<1> QED BY <1>4 DEF v, w, Money

\* Lines that are the same, in whatever places, are folded into the same.
LEMMA FoldMoved ==
    ASSUME NEW T, IsFiniteSet(T), NEW U, NEW b \in Bijection(T, U),
           NEW one, NEW two, \A i \in T : one[i] = two[b[i]], Lined(two, U)
    PROVE  Fold(one, T) = Fold(two, U)
<1>0. b \in [T -> U]
  BY DEF Bijection, Injection
<1>1. /\ Called(one, T) \in SUBSET T /\ Called(two, U) \in SUBSET U
      /\ \A i \in T : i \in Called(one, T) <=> b[i] \in Called(two, U)
  BY <1>0 DEF Called
<1>2. /\ Priced(one, T) \in SUBSET T /\ Priced(two, U) \in SUBSET U
      /\ \A i \in T : i \in Priced(one, T) <=> b[i] \in Priced(two, U)
  BY <1>0, <1>1 DEF Priced
<1>3. /\ Hits(one, T) \in SUBSET T /\ Hits(two, U) \in SUBSET U
      /\ \A i \in T : i \in Hits(one, T) <=> b[i] \in Hits(two, U)
  BY <1>0, <1>1 DEF Hits
<1>4. /\ Called(one, T) \ Priced(one, T) \in SUBSET T /\ Called(two, U) \ Priced(two, U) \in SUBSET U
      /\ \A i \in T : i \in (Called(one, T) \ Priced(one, T)) <=> b[i] \in (Called(two, U) \ Priced(two, U))
  BY <1>1, <1>2
<1>5. /\ [i \in Priced(two, U) |-> two[i].usd] \in [Priced(two, U) -> Nat]
      /\ [i \in Hits(two, U) |-> two[i].usd] \in [Hits(two, U) -> Nat]
  BY MoneyType
<1>6. Cardinality(Called(one, T)) = Cardinality(Called(two, U))
  BY <1>1, CountMoved
<1>7. Cardinality(Hits(one, T)) = Cardinality(Hits(two, U))
  BY <1>3, CountMoved
<1>8. Cardinality(Called(one, T) \ Priced(one, T)) = Cardinality(Called(two, U) \ Priced(two, U))
  BY <1>4, CountMoved
<1>9. Money(one, Priced(one, T)) = Money(two, Priced(two, U))
  BY <1>2, <1>5, MoneyMoved
<1>10. Money(one, Hits(one, T)) = Money(two, Hits(two, U))
  BY <1>3, <1>5, MoneyMoved
<1> QED BY ONLY <1>6, <1>7, <1>8, <1>9, <1>10, FoldFields

\* Where the entries at some places are when they are listed backwards.
ListsBack(lines, s, T) ==
    \E b \in Bijection(DOMAIN lines, T) : \A k \in DOMAIN lines : lines[k] = s[b[k]]

LEMMA Backwards ==
    ASSUME NEW P, NEW s, NEW T \in SUBSET Nat, IsFiniteSet(T), \A i \in T : s[i] \in P
    PROVE  IsFiniteSet(DOMAIN Reverse(At(s, T))) /\ ListsBack(Reverse(At(s, T)), s, T)
<1> DEFINE a == At(s, T)
           n == Cardinality(T)
           back == Reverse(a)
           b == [k \in 1..n |-> CHOOSE i \in T : Rank(T, i) = n - k + 1]
<1>1. /\ n \in Nat
      /\ \A k \in 1..n : \E i \in T : Rank(T, i) = k /\ a[k] = s[i]
      /\ \A i \in T : Rank(T, i) \in 1..n /\ a[Rank(T, i)] = s[i]
      /\ \A i, k \in T : Rank(T, i) = Rank(T, k) => i = k
  BY AtFacts
<1>2. Len(a) = n
  BY AtSeq
<1> HIDE DEF a, n
<1>3. back = [i \in 1..n |-> a[(n - i) + 1]]
  BY <1>2 DEF Reverse
<1>4. \A k \in 1..n : (n - k) + 1 \in 1..n /\ n - k + 1 = (n - k) + 1
  BY <1>1
<1>5. ASSUME NEW k \in 1..n PROVE b[k] \in T /\ Rank(T, b[k]) = (n - k) + 1 /\ back[k] = s[b[k]]
  <2>1. \E i \in T : Rank(T, i) = n - k + 1
    BY <1>1, <1>4
  <2>2. b[k] \in T /\ Rank(T, b[k]) = n - k + 1
    BY <2>1
  <2> HIDE DEF b
  <2>3. Rank(T, b[k]) = (n - k) + 1
    BY <1>4, <2>2
  <2>4. back[k] = a[(n - k) + 1]
    BY <1>3
  <2> QED BY <1>1, <2>2, <2>3, <2>4
<1>6. DOMAIN b = 1..n /\ DOMAIN back = 1..n
  BY <1>3
<1>7. b = [k \in 1..n |-> b[k]]
  OBVIOUS
<1> HIDE DEF b, back
<1>8. b \in [1..n -> T]
  BY <1>5, <1>7
<1>9. ASSUME NEW k \in 1..n, NEW l \in 1..n, b[k] = b[l] PROVE k = l
  <2>1. (n - k) + 1 = (n - l) + 1
    BY <1>5, <1>9
  <2> QED BY <1>1, <2>1
<1>10. ASSUME NEW i \in T PROVE \E k \in 1..n : b[k] = i
  <2> DEFINE r == Rank(T, i)
             k == (n - r) + 1
  <2>1. r \in 1..n /\ k \in 1..n /\ (n - k) + 1 = r
    <3>1. r \in 1..n
      BY <1>1
    <3> HIDE DEF r
    <3> QED BY <1>1, <3>1
  <2>2. b[k] \in T /\ Rank(T, b[k]) = r
    BY <1>5, <2>1
  <2> HIDE DEF k
  <2> QED BY <1>1, <2>1, <2>2
<1>11. b \in Bijection(1..n, T)
  BY <1>6, <1>8, <1>9, <1>10 DEF Bijection, Injection, IsInjective, Surjection
<1>12. IsFiniteSet(1..n)
  BY <1>1, FS_Interval
<1>13. ListsBack(back, s, T) /\ IsFiniteSet(DOMAIN back)
  BY <1>5, <1>6, <1>11, <1>12 DEF ListsBack
<1> QED BY <1>13 DEF back, a

\* The lines by what they say, and by the day; a split added up again; the lines of the days.
SplitBy(ledger, T, g) == [t \in {ledger[i][g] : i \in T} |-> Fold(ledger, {i \in T : ledger[i][g] = t})]
ByDay(ledger, T, days) == [d \in days |-> Fold(ledger, {i \in T : Day(ledger[i].ts) = d})]
AddedUp(p, f) == SumOf(DOMAIN p, LAMBDA k : p[k][f])
Within(lines) == {i \in DOMAIN lines : Day(lines[i].ts) > -HistoryDays}

\* Split by what the lines say, the parts are the whole.
LEMMA SplitFacts ==
    ASSUME NEW ledger, NEW T, IsFiniteSet(T), Lined(ledger, T), NEW g, NEW f \in FoldField
    PROVE  AddedUp(SplitBy(ledger, T, g), f) = Fold(ledger, T)[f]
<1> DEFINE S == {ledger[i][g] : i \in T}
           Part(k) == {i \in T : ledger[i][g] = k}
           p == [t \in S |-> Fold(ledger, Part(t))]
           key == [i \in T |-> ledger[i][g]]
<1>1. IsFiniteSet(S)
  <2>1. key \in Surjection(T, S)
    BY DEF Surjection
  <2> HIDE DEF key, S
  <2> QED BY <2>1, FS_Surjection
<1>2. key \in [T -> S]
  OBVIOUS
<1>3. \A k \in S : {i \in T : key[i] = k} = Part(k)
  OBVIOUS
<1> HIDE DEF S, key, Part
<1>4. Regrouped(ledger, S, T, key, f) = Fold(ledger, T)[f]
  BY <1>1, <1>2, FoldParts
<1>5. [k \in S |-> Fold(ledger, {i \in T : key[i] = k})[f]] = [k \in DOMAIN p |-> p[k][f]]
  BY <1>3
<1>6. SumFunction([k \in DOMAIN p |-> p[k][f]]) = Fold(ledger, T)[f]
  BY <1>4, <1>5 DEF Regrouped
<1>7. AddedUp(p, f) = Fold(ledger, T)[f]
  <2> HIDE DEF p
  <2> QED BY <1>6 DEF AddedUp, SumOf
<1>8. p = SplitBy(ledger, T, g)
  BY DEF SplitBy, S, Part
<1> HIDE DEF p
<1> QED BY <1>7, <1>8

\* The days add up to the lines of those days, listed backwards or not.
LEMMA DailyFacts ==
    ASSUME NEW ledger, NEW T \in SUBSET Nat, IsFiniteSet(T), Lined(ledger, T), NEW f \in FoldField,
           NEW days, IsFiniteSet(days), NEW recent, recent = Reverse(At(ledger, T)),
           \A i \in T : (Day(ledger[i].ts) \in days <=> Day(ledger[i].ts) > -HistoryDays)
    PROVE  AddedUp(ByDay(ledger, T, days), f) = Fold(recent, Within(recent))[f]
<1> DEFINE p == ByDay(ledger, T, days)
           W == {i \in T : Day(ledger[i].ts) \in days}
           key == [i \in W |-> Day(ledger[i].ts)]
           V == Within(recent)
<1>1. IsFiniteSet(W) /\ key \in [W -> days] /\ Lined(ledger, W) /\ W \in SUBSET T
  <2>1. IsFiniteSet(W)
    BY FS_Subset
  <2> QED BY <2>1 DEF Lined
<1>2. \A d \in days : {i \in W : key[i] = d} = {i \in T : Day(ledger[i].ts) = d}
  OBVIOUS
<1> HIDE DEF key
<1>3. Regrouped(ledger, days, W, key, f) = Fold(ledger, W)[f]
  <2> HIDE DEF W
  <2>1. IsFiniteSet(W) /\ key \in [W -> days] /\ Lined(ledger, W)
    BY <1>1
  <2> QED BY <2>1, FoldParts
<1>4. [k \in days |-> Fold(ledger, {i \in W : key[i] = k})[f]] = [k \in DOMAIN p |-> p[k][f]]
  BY <1>2 DEF ByDay
<1>5. AddedUp(p, f) = Fold(ledger, W)[f]
  <2> HIDE DEF p, W
  <2> QED BY ONLY <1>3, <1>4 DEF AddedUp, SumOf, Regrouped
<1>6. PICK b \in Bijection(DOMAIN recent, T) : \A k \in DOMAIN recent : recent[k] = ledger[b[k]]
  <2> DEFINE P == {ledger[i] : i \in T}
  <2>1. \A i \in T : ledger[i] \in P
    OBVIOUS
  <2> HIDE DEF P
  <2>2. ListsBack(recent, ledger, T)
    BY <2>1, Backwards
  <2> QED BY <2>2 DEF ListsBack
<1>7. IsFiniteSet(DOMAIN recent)
  <2> DEFINE P == {ledger[i] : i \in T}
  <2>1. \A i \in T : ledger[i] \in P
    OBVIOUS
  <2> HIDE DEF P
  <2> QED BY ONLY <2>1, T \in SUBSET Nat, IsFiniteSet(T), recent = Reverse(At(ledger, T)), Backwards
<1>8. b \in [DOMAIN recent -> T]
  BY DEF Bijection, Injection
<1>9. V \in SUBSET DOMAIN recent /\ \A k \in DOMAIN recent : k \in V <=> b[k] \in W
  BY <1>6, <1>8 DEF Within
<1> HIDE DEF W, V
<1>10. [k \in V |-> b[k]] \in Bijection(V, W)
  BY <1>1, <1>9, Restricted
<1>11. IsFiniteSet(V)
  BY <1>7, <1>9, FS_Subset
<1>12. Fold(recent, V) = Fold(ledger, W)
  <2> DEFINE c == [k \in V |-> b[k]]
  <2>1. \A k \in V : recent[k] = ledger[c[k]]
    BY <1>6, <1>9
  <2> HIDE DEF c
  <2>2. c \in Bijection(V, W)
    BY <1>10 DEF c
  <2> QED BY <1>1, <1>11, <2>1, <2>2, FoldMoved
<1>13. AddedUp(p, f) = Fold(recent, V)[f]
  <2> HIDE DEF p
  <2> QED BY <1>5, <1>12
<1> QED BY <1>13 DEF V

\* What spend_history says of a ledger whose lines are of this half of the day or older.
THEOREM HistoryFacts ==
    ASSUME NEW L, NEW ledger \in Seq(L), Lined(ledger, DOMAIN ledger),
           \A i \in DOMAIN ledger : ledger[i].ts \in Int /\ ledger[i].ts <= Half,
           NEW f \in FoldField
    PROVE  LET a == SpendHistory(ledger)
           IN  /\ AddedUp(a.tasks, f) = a.totals[f] /\ AddedUp(a.models, f) = a.totals[f]
               /\ AddedUp(a.daily, f) = Fold(a.recent, Within(a.recent))[f]
               /\ (\A i \in DOMAIN ledger : ledger[i].cached) => a.totals.usd = 0
<1> DEFINE a == SpendHistory(ledger)
           T == {i \in DOMAIN ledger : ledger[i].ts >= Half - 2 * HistoryDays}
           days == 1 - HistoryDays..0
           By(g) == SplitBy(ledger, T, g)
           daily == ByDay(ledger, T, days)
           recent == Reverse(At(ledger, T))
<1>1. /\ a.totals = Fold(ledger, T) /\ a.daily = daily
      /\ a.tasks = By("task") /\ a.models = By("model") /\ a.recent = recent
  <2> HIDE DEF T, By, daily, recent
  <2>1. a = [totals |-> Fold(ledger, T), daily |-> daily, tasks |-> By("task"),
             models |-> By("model"), recent |-> recent]
    BY DEF SpendHistory, T, By, daily, recent, SplitBy, ByDay
  <2> HIDE DEF a
  <2> QED BY <2>1
<1>2. T \in SUBSET Nat /\ IsFiniteSet(T) /\ Lined(ledger, T)
  <2>1. DOMAIN ledger = 1..Len(ledger) /\ Len(ledger) \in Nat
    BY LenProperties
  <2>2. IsFiniteSet(DOMAIN ledger) /\ DOMAIN ledger \subseteq Nat
    BY <2>1, FS_Interval
  <2>3. IsFiniteSet(T)
    BY <2>2, FS_Subset
  <2> QED BY <2>2, <2>3 DEF Lined
<1>3. IsFiniteSet(days)
  BY LanguageAssumption, FS_Interval
<1>4. \A i \in T : (Day(ledger[i].ts) \in days <=> Day(ledger[i].ts) > -HistoryDays)
  <2> SUFFICES ASSUME NEW i \in T
               PROVE  Day(ledger[i].ts) \in days <=> Day(ledger[i].ts) > -HistoryDays
    OBVIOUS
  <2> DEFINE d == Day(ledger[i].ts)
  <2>1. d \in Int /\ d <= 0
    BY LanguageAssumption DEF Day
  <2> HIDE DEF d
  <2>2. HistoryDays \in Nat
    BY LanguageAssumption
  <2> QED BY <2>1, <2>2 DEF d
<1> HIDE DEF a, T, days
<1>5. \A g : AddedUp(By(g), f) = Fold(ledger, T)[f]
  BY <1>2, SplitFacts
<1>6. AddedUp(daily, f) = Fold(recent, Within(recent))[f]
  BY <1>2, <1>3, <1>4, DailyFacts
<1>7. ASSUME \A i \in DOMAIN ledger : ledger[i].cached PROVE a.totals.usd = 0
  <2>1. Priced(ledger, T) = {}
    BY <1>7 DEF Priced, Called, T
  <2>2. Money(ledger, {}) = 0
    <3> DEFINE v == [i \in {} |-> ledger[i].usd]
    <3>1. v \in [{} -> Nat] /\ (\A x \in {} : v[x] = 0) /\ IsFiniteSet({})
      BY FS_EmptySet
    <3> HIDE DEF v
    <3>2. SumFunction(v) = 0
      BY <3>1, SumFacts
    <3> QED BY <3>2 DEF v, Money
  <2>3. Fold(ledger, T).usd = Money(ledger, Priced(ledger, T))
    BY FoldFields
  <2> QED BY <1>1, <2>1, <2>2, <2>3
<1> HIDE DEF By, daily, recent
<1> QED BY <1>1, <1>5, <1>6, <1>7 DEF a

\* A line that the ledger of a call may hold.
Line ==
    [ts : -4..Half, task : {"ask", "filter"}, cached : BOOLEAN, model : {"opus"}, usd : {1, -1}]
        \cup [ts : {-2}, task : {"ask"}, cached : {FALSE}, model : {"own"}, usd : {-1, 3}]

LEMMA LineFacts ==
    ASSUME NEW r \in Line
    PROVE  /\ r.ts \in Int /\ r.ts <= Half
           /\ r.usd \in Nat \/ r.usd = -1
<1>1. CASE r \in [ts : -4..Half, task : {"ask", "filter"}, cached : BOOLEAN, model : {"opus"}, usd : {1, -1}]
  <2>1. r.ts \in -4..Half /\ r.usd \in {1, -1}
    BY <1>1
  <2> QED BY <2>1, LanguageAssumption
<1>2. CASE r \in [ts : {-2}, task : {"ask"}, cached : {FALSE}, model : {"own"}, usd : {-1, 3}]
  <2>1. r.ts = -2 /\ r.usd \in {-1, 3}
    BY <1>2
  <2> QED BY <2>1, LanguageAssumption
<1> QED BY <1>1, <1>2 DEF Line

LEMMA SpendLines ==
    ASSUME NEW c \in SpendCalls
    PROVE  /\ c.ledger \in Seq(Line)
           /\ \A i \in DOMAIN c.ledger : c.ledger[i].cached => c.ledger[i].usd # -1
<1> DEFINE Possible == {r \in Line : r.cached => r.usd # -1}
           T == {s \in UNION {[1..n -> Possible] : n \in 0..2} : Len(s) = 2 => s[1].ts <= s[2].ts}
           ledger == c.ledger
<1>1. ledger \in T
  <2>1. SpendCalls = [op : {"spend"}, ledger : T]
    BY DEF SpendCalls, Line
  <2> HIDE DEF T
  <2> QED BY <2>1
<1>2. ledger \in UNION {[1..n -> Possible] : n \in 0..2}
  <2> HIDE DEF Possible, ledger
  <2> QED BY <1>1
<1> HIDE DEF ledger
<1>3. ledger \in Seq(Possible)
  <2> HIDE DEF Possible
  <2> QED BY <1>2, RowsAreSeq
<1>4. \A i \in DOMAIN ledger : ledger[i] \in Possible
  <2> HIDE DEF Possible
  <2> QED BY <1>3
<1>5. ledger \in Seq(Line)
  <2>1. Possible \subseteq Line
    OBVIOUS
  <2> HIDE DEF Possible
  <2> QED BY <1>3, <2>1
<1>6. \A i \in DOMAIN ledger : ledger[i].cached => ledger[i].usd # -1
  BY <1>4
<1> QED BY <1>5, <1>6 DEF ledger

LEMMA LanguageHistory == LanguageIInv => HistoryAddsUp
<1> SUFFICES ASSUME LanguageIInv, Answered("spend") PROVE HistoryAddsUp
  BY DEF HistoryAddsUp
<1> DEFINE ledger == call.ledger
<1>1. call \in SpendCalls /\ answer = SpendHistory(ledger)
  BY LanguageCallFacts DEF LanguageIInv, Answered
<1>2. ledger \in Seq(Line) /\ \A i \in DOMAIN ledger : ledger[i].cached => ledger[i].usd # -1
  BY <1>1, SpendLines
<1> HIDE DEF ledger
<1>3. \A i \in DOMAIN ledger : ledger[i] \in Line
  BY <1>2
<1>4. Lined(ledger, DOMAIN ledger) /\ \A i \in DOMAIN ledger : ledger[i].ts \in Int /\ ledger[i].ts <= Half
  BY <1>2, <1>3, LineFacts DEF Lined
<1>5. ASSUME NEW f \in FoldField
      PROVE  /\ AddedUp(answer.tasks, f) = answer.totals[f]
             /\ AddedUp(answer.models, f) = answer.totals[f]
             /\ AddedUp(answer.daily, f) = Fold(answer.recent, Within(answer.recent))[f]
             /\ (\A i \in DOMAIN ledger : ledger[i].cached) => answer.totals.usd = 0
  BY <1>1, <1>2, <1>4, HistoryFacts
<1> QED BY <1>5 DEF HistoryAddsUp, AddedUp, Within, FoldField, ledger

--------------------------------------------------------------------------
(* Transcripts. *)

Id == {"a", "b", "c"}
Round == [ids : {<<"a">>, <<"a", "b">>, <<"b", "c", "a">>}, said : BOOLEAN]
Messages == [role : {"user", "assistant", "tool"}, ids : Seq(Id), said : BOOLEAN]

\* A turn at a has its results right after it, in order.
Followed(M, a) ==
    /\ a + Len(M[a].ids) <= Len(M)
    /\ \A j \in 1..Len(M[a].ids) : M[a + j].role = "tool" /\ M[a + j].ids = <<M[a].ids[j]>>

\* What is at k is a result of the turn at a.
ResultOf(M, a, k) ==
    /\ a \in 2..k - 1 /\ M[a].role = "assistant"
    /\ k - a \in 1..Len(M[a].ids) /\ M[k].ids = <<M[a].ids[k - a]>>

OfSome(M, k) == \E a \in 2..k - 1 : ResultOf(M, a, k)

\* A transcript is the prompt and then turns that called tools, each with its results.
Shaped(M) ==
    /\ M \in Seq(Messages) /\ Len(M) >= 1
    /\ M[1].role = "user" /\ M[1].ids = <<>> /\ M[1].said
    /\ \A k \in 2..Len(M) : \/ M[k].role = "assistant" /\ M[k].ids # <<>>
                            \/ M[k].role = "tool" /\ OfSome(M, k)
    /\ \A a \in 1..Len(M) : M[a].role = "assistant" => Followed(M, a)

LEMMA RoundFacts ==
    ASSUME NEW r \in Round
    PROVE  r.ids \in Seq(Id) /\ r.ids # <<>> /\ Len(r.ids) \in 1..3 /\ r.said \in BOOLEAN
<1>1. r.ids \in {<<"a">>, <<"a", "b">>, <<"b", "c", "a">>} /\ r.said \in BOOLEAN
  BY DEF Round
<1>2. <<"a">> \in Seq(Id) /\ <<"a", "b">> \in Seq(Id) /\ <<"b", "c", "a">> \in Seq(Id)
  BY DEF Id
<1>3. CASE r.ids = <<"a">>
  BY <1>1, <1>2, <1>3
<1>4. CASE r.ids = <<"a", "b">>
  BY <1>1, <1>2, <1>4
<1>5. CASE r.ids = <<"b", "c", "a">>
  BY <1>1, <1>2, <1>5
<1> QED BY ONLY <1>1, <1>3, <1>4, <1>5

LEMMA TurnFacts ==
    ASSUME NEW r \in Round
    PROVE  LET t == TurnOf(r)
           IN  /\ t \in Seq(Messages) /\ Len(t) = 1 + Len(r.ids) /\ Len(r.ids) \in Nat
               /\ t[1].role = "assistant" /\ t[1].ids = r.ids /\ r.ids # <<>>
               /\ \A j \in 1..Len(r.ids) : t[1 + j].role = "tool" /\ t[1 + j].ids = <<r.ids[j]>>
<1> DEFINE s == <<Message("assistant", r.ids, r.said)>>
           u == [j \in DOMAIN r.ids |-> Message("tool", <<r.ids[j]>>, TRUE)]
           n == Len(r.ids)
<1>1. r.ids \in Seq(Id) /\ r.ids # <<>> /\ n \in Nat /\ DOMAIN r.ids = 1..n /\ r.said \in BOOLEAN
  BY RoundFacts
<1>2. \A j \in 1..n : Message("tool", <<r.ids[j]>>, TRUE) \in Messages
  <2> TAKE j \in 1..n
  <2>1. <<r.ids[j]>> \in Seq(Id)
    BY <1>1
  <2> QED BY <2>1 DEF Message, Messages
<1>3. u \in Seq(Messages) /\ Len(u) = n
      /\ \A j \in 1..n : u[j].role = "tool" /\ u[j].ids = <<r.ids[j]>>
  <2>1. u = [j \in 1..n |-> Message("tool", <<r.ids[j]>>, TRUE)]
    BY <1>1
  <2> HIDE DEF u, n
  <2>2. u \in [1..n -> Messages]
    BY <1>2, <2>1
  <2>3. u \in Seq(Messages) /\ Len(u) = n
    BY <1>1, <2>2
  <2>4. \A j \in 1..n : u[j].role = "tool" /\ u[j].ids = <<r.ids[j]>>
    BY <2>1 DEF Message
  <2> QED BY <2>3, <2>4
<1>4. s \in Seq(Messages) /\ Len(s) = 1 /\ s[1].role = "assistant" /\ s[1].ids = r.ids
  <2>1. Message("assistant", r.ids, r.said) \in Messages
    BY <1>1 DEF Message, Messages
  <2> QED BY <2>1 DEF Message
<1> HIDE DEF s, u, n
<1>5. /\ s \o u \in Seq(Messages) /\ Len(s \o u) = 1 + n
      /\ (s \o u)[1] = s[1] /\ \A j \in 1..n : (s \o u)[1 + j] = u[j]
  <2>1. /\ s \o u \in Seq(Messages) /\ Len(s \o u) = Len(s) + Len(u)
        /\ (\A j \in 1..Len(s) : (s \o u)[j] = s[j])
        /\ \A j \in 1..Len(u) : (s \o u)[Len(s) + j] = u[j]
    BY ONLY <1>3, <1>4, ConcatFacts
  <2> QED BY ONLY <1>1, <1>3, <1>4, <2>1
<1>6. TurnOf(r) = s \o u
  BY DEF TurnOf, s, u
<1>7. TurnOf(r)[1] = s[1] /\ \A j \in 1..n : TurnOf(r)[1 + j] = u[j]
  BY ONLY <1>5, <1>6
<1> QED BY ONLY <1>1, <1>3, <1>4, <1>5, <1>6, <1>7 DEF n

\* A turn more leaves it a transcript.
LEMMA ShapedTurn ==
    ASSUME NEW M, Shaped(M), NEW r \in Round
    PROVE  Shaped(M \o TurnOf(r))
<1> DEFINE t == TurnOf(r)
           N == M \o t
           m == Len(M)
           n == Len(r.ids)
<1>1. /\ M \in Seq(Messages) /\ m \in Nat /\ m >= 1
      /\ t \in Seq(Messages) /\ Len(t) = 1 + n /\ n \in Nat
      /\ t[1].role = "assistant" /\ t[1].ids = r.ids /\ r.ids # <<>>
      /\ \A j \in 1..n : t[1 + j].role = "tool" /\ t[1 + j].ids = <<r.ids[j]>>
  BY TurnFacts DEF Shaped
<1> HIDE DEF t
<1>2. /\ N \in Seq(Messages) /\ Len(N) = m + (1 + n)
      /\ (\A k \in 1..m : N[k] = M[k]) /\ \A k \in 1..1 + n : N[m + k] = t[k]
  <2>1. /\ N \in Seq(Messages) /\ Len(N) = Len(M) + Len(t)
        /\ (\A k \in 1..Len(M) : N[k] = M[k]) /\ \A k \in 1..Len(t) : N[Len(M) + k] = t[k]
    <3>1. M \in Seq(Messages) /\ t \in Seq(Messages)
      BY <1>1
    <3> QED BY ONLY <3>1, ConcatFacts
  <2> HIDE DEF N
  <2> QED BY ONLY <1>1, <2>1
<1> HIDE DEF N, m, n
<1>3. N[m + 1].role = "assistant" /\ N[m + 1].ids = r.ids
  BY <1>1, <1>2
<1>4. \A j \in 1..n : N[(m + 1) + j].role = "tool" /\ N[(m + 1) + j].ids = <<r.ids[j]>>
  <2> TAKE j \in 1..n
  <2>1. 1 + j \in 1..1 + n /\ m + (1 + j) = (m + 1) + j
    BY <1>1
  <2> QED BY <1>1, <1>2, <2>1
<1>5. Len(N) >= 1 /\ N[1].role = "user" /\ N[1].ids = <<>> /\ N[1].said
  BY <1>1, <1>2 DEF Shaped
<1>6. ASSUME NEW k \in 2..Len(N)
      PROVE  \/ N[k].role = "assistant" /\ N[k].ids # <<>>
             \/ N[k].role = "tool" /\ OfSome(N, k)
  <2>1. CASE k \in 2..m
    <3>1. N[k] = M[k]
      BY <1>1, <1>2, <2>1
    <3>2. \/ M[k].role = "assistant" /\ M[k].ids # <<>>
          \/ M[k].role = "tool" /\ OfSome(M, k)
      BY <2>1 DEF Shaped, m
    <3>3. OfSome(M, k) => OfSome(N, k)
      <4> SUFFICES ASSUME NEW a \in 2..k - 1, ResultOf(M, a, k) PROVE OfSome(N, k)
        BY DEF OfSome
      <4>1. N[a] = M[a]
        BY <1>1, <1>2, <2>1
      <4>2. ResultOf(N, a, k)
        BY <3>1, <4>1 DEF ResultOf
      <4> QED BY <4>2 DEF OfSome
    <3> QED BY <3>1, <3>2, <3>3
  <2>2. CASE k = m + 1
    BY <1>1, <1>3, <2>2
  <2>3. CASE k \in m + 2..m + (1 + n)
    <3> DEFINE j == k - (m + 1)
    <3>1. j \in 1..n /\ k = (m + 1) + j /\ m + 1 \in 2..k - 1
      BY <1>1, <2>3
    <3> HIDE DEF j
    <3>2. N[k].role = "tool" /\ N[k].ids = <<r.ids[j]>>
      BY <1>4, <3>1
    <3>3. k - (m + 1) = j /\ Len(N[m + 1].ids) = n
      BY <1>3 DEF j, n
    <3>4. ResultOf(N, m + 1, k)
      BY <1>3, <3>1, <3>2, <3>3 DEF ResultOf
    <3> QED BY <3>1, <3>2, <3>4 DEF OfSome
  <2>4. k \in 2..m \/ k = m + 1 \/ k \in m + 2..m + (1 + n)
    BY <1>1, <1>2
  <2> QED BY <2>1, <2>2, <2>3, <2>4
<1>7. ASSUME NEW a \in 1..Len(N), N[a].role = "assistant"
      PROVE  Followed(N, a)
  <2>1. CASE a \in 1..m
    <3>1. N[a] = M[a] /\ Followed(M, a)
      BY <1>1, <1>2, <1>7, <2>1 DEF Shaped, m
    <3> DEFINE l == Len(M[a].ids)
    <3>2. l \in Nat /\ a + l <= m
      <4>1. M[a] \in Messages
        BY <1>1, <2>1 DEF m
      <4>2. M[a].ids \in Seq(Id)
        BY <4>1 DEF Messages
      <4> QED BY <3>1, <4>2 DEF Followed, m
    <3>3. \A j \in 1..l : N[a + j] = M[a + j]
      <4> HIDE DEF l
      <4>1. \A j \in 1..l : a + j \in 1..m
        BY <1>1, <2>1, <3>2
      <4> QED BY <1>2, <4>1
    <3>4. \A j \in 1..l : M[a + j].role = "tool" /\ M[a + j].ids = <<M[a].ids[j]>>
      BY <3>1 DEF Followed
    <3>5. a + l <= Len(N)
      <4> HIDE DEF l
      <4> QED BY <1>1, <1>2, <2>1, <3>2
    <3> QED BY <3>1, <3>3, <3>4, <3>5 DEF Followed
  <2>2. CASE a = m + 1
    <3>1. Len(N[a].ids) = n
      BY ONLY <1>3, <2>2 DEF n
    <3>2. a + n <= Len(N)
      BY ONLY <1>1, <1>2, <2>2
    <3> QED BY <1>3, <1>4, <2>2, <3>1, <3>2 DEF Followed
  <2>3. CASE a \in m + 2..m + (1 + n)
    <3> DEFINE j == a - (m + 1)
    <3>1. j \in 1..n /\ a = (m + 1) + j
      BY <1>1, <2>3
    <3> HIDE DEF j
    <3>2. N[a].role = "tool"
      BY <1>4, <3>1
    <3> QED BY <1>7, <3>2
  <2>4. a \in 1..m \/ a = m + 1 \/ a \in m + 2..m + (1 + n)
    BY <1>1, <1>2
  <2> QED BY <2>1, <2>2, <2>3, <2>4
<1>8. Shaped(N)
  BY <1>2, <1>5, <1>6, <1>7 DEF Shaped
<1> QED BY <1>8 DEF N, t

\* Every transcript the loop can make is one.
LEMMA TranscriptShaped ==
    ASSUME NEW rounds \in Seq(Round)
    PROVE  Shaped(Transcript(rounds))
<1> DEFINE L == Len(rounds)
           prompt == <<Message("user", <<>>, TRUE)>>
           StepOf(f, n) == IF n = 0 THEN prompt ELSE f[n - 1] \o TurnOf(rounds[n])
           upto == CHOOSE f : f = [n \in 0..L |-> StepOf(f, n)]
           Good == {M \in Seq(Messages) : Shaped(M)}
           F == [n \in 1..L |-> [M \in Good |-> M \o TurnOf(rounds[n])]]
<1>1. L \in Nat /\ \A n \in 1..L : rounds[n] \in Round
  OBVIOUS
<1>2. prompt \in Good
  <2>1. Message("user", <<>>, TRUE) \in Messages
    BY DEF Message, Messages
  <2> DEFINE e == Message("user", <<>>, TRUE)
  <2>2. prompt = <<e>> /\ e \in Messages /\ e.role = "user" /\ e.ids = <<>> /\ e.said
    BY <2>1 DEF Message
  <2> HIDE DEF prompt, e
  <2>3. prompt \in Seq(Messages) /\ Len(prompt) = 1 /\ prompt[1] = e
    BY ONLY <2>2
  <2>4. (\A k \in 2..Len(prompt) : FALSE) /\ \A a \in 1..Len(prompt) : prompt[a].role # "assistant"
    BY ONLY <2>2, <2>3
  <2>5. Len(prompt) >= 1
    BY <2>3
  <2>6. Shaped(prompt)
    BY ONLY <2>2, <2>3, <2>4, <2>5 DEF Shaped
  <2> QED BY <2>3, <2>6
<1>3. \A n \in 1..L : \A M \in Good : M \o TurnOf(rounds[n]) \in Good
  <2> SUFFICES ASSUME NEW n \in 1..L, NEW M \in Good PROVE M \o TurnOf(rounds[n]) \in Good
    OBVIOUS
  <2>1. Shaped(M \o TurnOf(rounds[n]))
    BY <1>1, ShapedTurn
  <2> QED BY <2>1 DEF Shaped
<1> HIDE DEF Good, prompt
<1>4. F \in [1..L -> [Good -> Good]]
  BY <1>3
<1> HIDE DEF L
<1>5. PICK f \in [0..L -> Good] : Unrolls(f, L, prompt, F)
  <2> HIDE DEF F
  <2>1. L \in Nat
    BY <1>1
  <2> QED BY ONLY <1>2, <1>4, <2>1, Unrolled
<1>6. \A n \in 0..L : f[n] = StepOf(f, n)
  <2> TAKE n \in 0..L
  <2>1. CASE n # 0
    <3>1. n \in 1..L /\ f[n - 1] \in Good
      BY <1>1, <2>1
    <3> QED BY <1>5, <2>1, <3>1 DEF Unrolls
  <2> QED BY <1>5, <2>1 DEF Unrolls
<1> HIDE DEF F
<1>7. f = [n \in 0..L |-> StepOf(f, n)]
  <2> HIDE DEF StepOf
  <2> QED BY <1>6
<1>8. upto = [n \in 0..L |-> StepOf(upto, n)]
  <2> HIDE DEF StepOf
  <2> QED BY <1>7
<1>9. upto[L] = Transcript(rounds)
  BY DEF Transcript, L, prompt
<1> HIDE DEF upto
<1>10. \A n \in 0..L : upto[n] = StepOf(upto, n)
  <2> HIDE DEF StepOf
  <2> QED BY <1>8
<1>11. \A n \in 0..L : upto[n] \in Good
  <2> DEFINE bad == {n \in 0..L : upto[n] \notin Good}
  <2> SUFFICES ASSUME bad # {} PROVE FALSE
    OBVIOUS
  <2>1. bad \in SUBSET Nat
    OBVIOUS
  <2>2. PICK n \in bad : \A m \in bad : n <= m
    <3> HIDE DEF bad
    <3> QED BY <2>1, Least
  <2>3. n # 0
    BY <1>1, <1>2, <1>10
  <2>4. n \in 1..L /\ n - 1 \in 0..L /\ n - 1 < n
    BY <1>1, <2>3
  <2>5. upto[n - 1] \in Good
    BY <2>2, <2>4
  <2>6. upto[n] = upto[n - 1] \o TurnOf(rounds[n])
    BY <1>10, <2>3
  <2>7. upto[n] \in Good
    BY <1>3, <2>4, <2>5, <2>6
  <2> QED BY <2>2, <2>7
<1>12. Transcript(rounds) \in Good
  BY <1>1, <1>9, <1>11
<1> QED BY <1>12 DEF Good

\* Messages in a provider's words, and what becomes of them on the way.
Words == [role : {"user", "assistant", "tool"}, ids : Seq(Id)]
Wires == [out : Seq(Words), pending : Seq(Id)]

\* Nobody speaks twice running, and whoever called is answered with the results next.
Turning(w) ==
    \A i \in 1..Len(w) - 1 :
        w[i].role # w[i + 1].role /\ (w[i].role = "assistant" => w[i + 1].ids = w[i].ids)

Spoken(w) == {i \in DOMAIN w : w[i].role = "assistant"}

LEMMA TurningAppend ==
    ASSUME NEW w \in Seq(Words), Len(w) >= 1, Turning(w), NEW e \in Words,
           w[Len(w)].role # e.role, w[Len(w)].role = "assistant" => e.ids = w[Len(w)].ids
    PROVE  Turning(Append(w, e))
<1> DEFINE v == Append(w, e)
           n == Len(w)
<1>1. /\ Len(v) = n + 1 /\ n \in Nat /\ v[n + 1] = e
      /\ \A i \in 1..n : v[i] = w[i]
  BY AppendFacts
<1> HIDE DEF v, n
<1>2. ASSUME NEW i \in 1..n
      PROVE  v[i].role # v[i + 1].role /\ (v[i].role = "assistant" => v[i + 1].ids = v[i].ids)
  <2>1. CASE i = n
    BY <1>1, <2>1 DEF n
  <2>2. CASE i # n
    <3>1. i \in 1..n - 1 /\ i + 1 \in 1..n
      BY <1>1, <2>2
    <3> QED BY <1>1, <3>1 DEF Turning, n
  <2> QED BY <2>1, <2>2
<1>3. Len(v) - 1 = n
  BY <1>1
<1> QED BY <1>2, <1>3 DEF Turning, v

LEMMA SpokenAppend ==
    ASSUME NEW w \in Seq(Words), NEW e \in Words
    PROVE  LET v == Append(w, e)
           IN  /\ e.role = "assistant" => At(v, Spoken(v)) = Append(At(w, Spoken(w)), e)
               /\ e.role # "assistant" => At(v, Spoken(v)) = At(w, Spoken(w))
<1> DEFINE v == Append(w, e)
           n == Len(w)
           T == Spoken(w)
<1>1. /\ v \in Seq(Words) /\ Len(v) = n + 1 /\ n \in Nat /\ v[n + 1] = e
      /\ (\A i \in 1..n : v[i] = w[i]) /\ DOMAIN w = 1..n /\ DOMAIN v = 1..n + 1
  BY AppendFacts
<1> HIDE DEF v, n
<1>2. T \in SUBSET (1..n) /\ T \in SUBSET Nat /\ IsFiniteSet(T)
  <2>1. T \in SUBSET (1..n) /\ IsFiniteSet(1..n)
    BY <1>1, FS_Interval DEF Spoken
  <2> HIDE DEF T
  <2>2. IsFiniteSet(T)
    BY <2>1, FS_Subset
  <2> QED BY <1>1, <2>1, <2>2
<1>3. \A i \in 1..n + 1 : i \in 1..n \/ i = n + 1
  BY <1>1
<1>4. 1..n \subseteq 1..n + 1 /\ n + 1 \in 1..n + 1
  BY <1>1
<1>5. \A i : i \in Spoken(v) <=> i \in T \/ (i = n + 1 /\ e.role = "assistant")
  BY <1>1, <1>3, <1>4 DEF Spoken
<1> HIDE DEF T
<1>6. At(w, T) = At(v, T)
  <2>1. \A i \in T : w[i] = v[i]
    BY <1>1, <1>2
  <2> QED BY ONLY <1>2, <2>1, AtSame
<1>7. ASSUME e.role = "assistant" PROVE At(v, Spoken(v)) = Append(At(w, T), e)
  <2>1. Spoken(v) = T \cup {n + 1}
    BY <1>5, <1>7
  <2>2. n + 1 \in Nat /\ \A i \in T : i < n + 1
    BY <1>1, <1>2
  <2>3. \A i \in T \cup {n + 1} : v[i] \in Words
    BY <1>1, <1>2
  <2>4. At(v, T \cup {n + 1}) = Append(At(v, T), v[n + 1])
    <3> DEFINE x == n + 1
    <3>1. x \in Nat /\ (\A i \in T : i < x) /\ \A i \in T \cup {x} : v[i] \in Words
      BY <2>2, <2>3
    <3>2. T \in SUBSET Nat /\ IsFiniteSet(T)
      BY <1>2
    <3> HIDE DEF x
    <3>3. At(v, T \cup {x}) = Append(At(v, T), v[x])
      BY ONLY <3>1, <3>2, AtGreatest
    <3> QED BY <3>3 DEF x
  <2> QED BY <1>1, <1>6, <2>1, <2>4
<1>8. ASSUME e.role # "assistant" PROVE At(v, Spoken(v)) = At(w, T)
  <2>1. Spoken(v) = T
    BY <1>5, <1>8
  <2> QED BY <1>6, <2>1
<1> QED BY <1>7, <1>8 DEF v, T

\* The results of the turn at a, as far as k, wait for the rest.
Waiting(M, w, a, k) ==
    /\ M[a].role = "assistant" /\ w.out[Len(w.out)] = Worded(M[a])
    /\ k - a \in 0..Len(M[a].ids) /\ Len(w.pending) = k - a
    /\ \A j \in 1..k - a : w.pending[j] = M[a].ids[j]

WaitsForSome(M, w, k) == \E a \in 2..k : Waiting(M, w, a, k)

\* What both providers have been told of the assistant.
SameSpoken(M, out, k) == At(out, Spoken(out)) = At(OpenAIWire(M), Spoken(OpenAIWire(M)) \cap (1..k))

\* _wire, after the first k messages.
Wired(M, w, k) ==
    /\ w \in Wires /\ Len(w.out) >= 1 /\ Turning(w.out)
    /\ \/ k = 1 /\ w.pending = <<>> /\ w.out[Len(w.out)].role = "user"
       \/ WaitsForSome(M, w, k)
    /\ SameSpoken(M, w.out, k)

LEMMA WireFacts ==
    ASSUME NEW M, Shaped(M)
    PROVE  /\ M \in Seq(Messages) /\ Len(M) \in Nat /\ DOMAIN OpenAIWire(M) = 1..Len(M)
           /\ \A i \in 1..Len(M) : /\ M[i].role \in {"user", "assistant", "tool"} /\ M[i].ids \in Seq(Id)
                                   /\ Len(M[i].ids) \in Nat
                                   /\ Worded(M[i]) \in Words /\ OpenAIWire(M)[i] = Worded(M[i])
                                   /\ Worded(M[i]).role = M[i].role /\ Worded(M[i]).ids = M[i].ids
<1>1. M \in Seq(Messages) /\ Len(M) \in Nat /\ DOMAIN M = 1..Len(M)
  BY DEF Shaped
<1>2. OpenAIWire(M) = [i \in 1..Len(M) |-> Worded(M[i])]
  BY <1>1 DEF OpenAIWire
<1>3. ASSUME NEW i \in 1..Len(M)
      PROVE  M[i].role \in {"user", "assistant", "tool"} /\ M[i].ids \in Seq(Id) /\ Len(M[i].ids) \in Nat
  <2>1. M[i] \in Messages
    BY <1>1
  <2>2. M[i].role \in {"user", "assistant", "tool"} /\ M[i].ids \in Seq(Id)
    BY ONLY <2>1 DEF Messages
  <2> QED BY <2>2
<1>4. ASSUME NEW i \in 1..Len(M)
      PROVE  /\ Worded(M[i]) \in Words /\ Worded(M[i]).role = M[i].role /\ Worded(M[i]).ids = M[i].ids
  BY <1>3 DEF Worded, Words
<1> QED BY <1>1, <1>2, <1>3, <1>4

\* Up to the next place, the assistant has said as much, or that place's message more.
LEMMA SpokenNext ==
    ASSUME NEW M, Shaped(M), NEW k \in 1..Len(M), k < Len(M)
    PROVE  LET o == OpenAIWire(M)
               before == At(o, Spoken(o) \cap (1..k))
               after == At(o, Spoken(o) \cap (1..k + 1))
           IN  /\ M[k + 1].role = "assistant" => after = Append(before, Worded(M[k + 1]))
               /\ M[k + 1].role # "assistant" => after = before
<1> DEFINE o == OpenAIWire(M)
           T == Spoken(o) \cap (1..k)
           U == Spoken(o) \cap (1..k + 1)
<1>1. /\ Len(M) \in Nat /\ DOMAIN o = 1..Len(M) /\ k \in Nat /\ k + 1 \in 1..Len(M)
      /\ \A i \in 1..Len(M) : o[i] = Worded(M[i]) /\ o[i] \in Words /\ o[i].role = M[i].role
  BY WireFacts
<1> HIDE DEF o
<1>2. T \in SUBSET Nat /\ IsFiniteSet(T) /\ (\A i \in T : i < k + 1)
  <2>1. T \in SUBSET (1..k) /\ IsFiniteSet(1..k)
    BY <1>1, FS_Interval
  <2> HIDE DEF T
  <2>2. IsFiniteSet(T)
    BY <2>1, FS_Subset
  <2> QED BY <1>1, <2>1, <2>2
<1>3. \A i : i \in 1..k + 1 <=> i \in 1..k \/ i = k + 1
  BY <1>1
<1>4. ASSUME M[k + 1].role = "assistant" PROVE At(o, U) = Append(At(o, T), Worded(M[k + 1]))
  <2>1. U = T \cup {k + 1}
    BY <1>1, <1>3, <1>4 DEF Spoken
  <2>2. \A i \in T \cup {k + 1} : o[i] \in Words
    BY <1>1 DEF Spoken
  <2>3. k + 1 \in Nat
    BY <1>1
  <2> HIDE DEF T, U
  <2>4. At(o, T \cup {k + 1}) = Append(At(o, T), o[k + 1])
    <3> DEFINE x == k + 1
    <3>1. x \in Nat /\ (\A i \in T : i < x) /\ \A i \in T \cup {x} : o[i] \in Words
      BY <1>2, <2>2, <2>3
    <3>2. T \in SUBSET Nat /\ IsFiniteSet(T)
      BY <1>2
    <3> HIDE DEF x
    <3>3. At(o, T \cup {x}) = Append(At(o, T), o[x])
      BY ONLY <3>1, <3>2, AtGreatest
    <3> QED BY <3>3 DEF x
  <2> QED BY <1>1, <2>1, <2>4
<1>5. ASSUME M[k + 1].role # "assistant" PROVE At(o, U) = At(o, T)
  <2>1. U = T
    BY <1>1, <1>3, <1>5 DEF Spoken
  <2> QED BY <2>1
<1> QED BY <1>4, <1>5 DEF o, T, U

\* A result is kept for the rest of its turn's.
LEMMA WiredTool ==
    ASSUME NEW M, Shaped(M), NEW k \in 1..Len(M), k < Len(M), NEW w, Wired(M, w, k),
           M[k + 1].role = "tool"
    PROVE  Wired(M, Added(w, M[k + 1]), k + 1)
<1> DEFINE v == Added(w, M[k + 1])
<1>1. /\ Len(M) \in Nat /\ k \in Nat /\ k + 1 \in 2..Len(M) /\ k + 1 \in 1..Len(M)
      /\ \A i \in 1..Len(M) : M[i].ids \in Seq(Id) /\ Len(M[i].ids) \in Nat
  BY WireFacts
<1>2. w \in Wires /\ w.out \in Seq(Words) /\ w.pending \in Seq(Id)
  BY DEF Wired, Wires
<1>3. v = [out |-> w.out, pending |-> w.pending \o M[k + 1].ids]
  BY DEF Added
<1>4. PICK a \in 2..(k + 1) - 1 : ResultOf(M, a, k + 1)
  <2>1. OfSome(M, k + 1)
    BY <1>1 DEF Shaped
  <2> QED BY <2>1 DEF OfSome
<1>5. a \in 2..k /\ M[a].role = "assistant" /\ (k + 1) - a \in 1..Len(M[a].ids)
      /\ M[k + 1].ids = <<M[a].ids[(k + 1) - a]>>
  BY <1>1, <1>4 DEF ResultOf
<1>6. Waiting(M, w, a, k)
  <2>1. k # 1
    BY <1>5
  <2>2. PICK b \in 2..k : Waiting(M, w, b, k)
    BY <2>1 DEF Wired, WaitsForSome
  <2>3. M[b].role = "assistant" /\ k - b \in 0..Len(M[b].ids)
    BY <2>2 DEF Waiting
  <2>4. a \in 1..Len(M) /\ b \in 1..Len(M)
    BY <1>1, <1>5
  <2>5. Followed(M, a) /\ Followed(M, b)
    BY <1>5, <2>3, <2>4 DEF Shaped
  <2>6. CASE a < b
    <3>1. b - a \in 1..Len(M[a].ids) /\ a + (b - a) = b
      BY <1>1, <1>5, <2>4, <2>6
    <3>2. M[b].role = "tool"
      BY <2>5, <3>1 DEF Followed
    <3> QED BY <2>3, <3>2
  <2>7. CASE b < a
    <3>1. a - b \in 1..Len(M[b].ids) /\ b + (a - b) = a
      BY <1>1, <1>5, <2>3, <2>4, <2>7
    <3>2. M[a].role = "tool"
      BY <2>5, <3>1 DEF Followed
    <3> QED BY <1>5, <3>2
  <2>8. CASE a = b
    BY <2>2, <2>8
  <2> QED BY <1>5, <2>6, <2>7, <2>8
<1> DEFINE e == M[a].ids[(k + 1) - a]
           p == w.pending \o <<e>>
<1>7. e \in Id
  <2>1. M[a].ids \in Seq(Id)
    BY <1>1, <1>5
  <2> QED BY <1>5, <2>1
<1> HIDE DEF e
<1>8. /\ p \in Seq(Id) /\ Len(p) = Len(w.pending) + 1 /\ p[Len(w.pending) + 1] = e
      /\ \A j \in 1..Len(w.pending) : p[j] = w.pending[j]
  BY <1>2, <1>7
<1> HIDE DEF p
<1>9. v = [out |-> w.out, pending |-> p]
  BY <1>3, <1>5 DEF p, e
<1>10. Waiting(M, v, a, k + 1)
  <2>1. Len(w.pending) = k - a /\ (k - a) + 1 = (k + 1) - a /\ k - a \in Nat
    BY <1>1, <1>5, <1>6 DEF Waiting
  <2>2. Len(p) = (k + 1) - a
    BY <1>8, <2>1
  <2>3. \A j \in 1..(k + 1) - a : p[j] = M[a].ids[j]
    <3> TAKE j \in 1..(k + 1) - a
    <3>1. CASE j = (k + 1) - a
      BY <1>8, <2>1, <3>1 DEF e
    <3>2. CASE j # (k + 1) - a
      <4>1. j \in 1..k - a
        BY <1>1, <2>1, <3>2
      <4> QED BY <1>6, <1>8, <2>1, <4>1 DEF Waiting
    <3> QED BY <3>1, <3>2
  <2>4. (k + 1) - a \in 0..Len(M[a].ids)
    BY <1>5
  <2> QED BY <1>6, <1>9, <2>2, <2>3, <2>4 DEF Waiting
<1>11. WaitsForSome(M, v, k + 1)
  <2>1. a \in 2..k + 1
    BY <1>1, <1>5
  <2> QED BY <1>10, <2>1 DEF WaitsForSome
<1>12. v \in Wires /\ v.out = w.out
  BY <1>2, <1>8, <1>9 DEF Wires
<1> HIDE DEF v
<1>13. SameSpoken(M, v.out, k + 1)
  <2>1. M[k + 1].role # "assistant"
    OBVIOUS
  <2>2. SameSpoken(M, w.out, k)
    BY DEF Wired
  <2> QED BY <1>12, <2>1, <2>2, SpokenNext DEF SameSpoken
<1>14. Wired(M, v, k + 1)
  BY <1>11, <1>12, <1>13 DEF Wired
<1> QED BY <1>14 DEF v

\* When nothing of a turn is missing, all that waits is said, and it is the user's.
LEMMA FlushedFacts ==
    ASSUME NEW M, Shaped(M), NEW k \in 1..Len(M), NEW w, Wired(M, w, k),
           k = Len(M) \/ M[k + 1].role = "assistant"
    PROVE  LET f == Flushed(w)
           IN  /\ f \in Seq(Words) /\ Len(f) \in Nat /\ Len(f) >= 1 /\ Turning(f)
               /\ f[Len(f)].role = "user" /\ SameSpoken(M, f, k)
<1> DEFINE f == Flushed(w)
           n == Len(w.out)
           last == w.out[n]
           e == [role |-> "user", ids |-> w.pending]
<1>1. Len(M) \in Nat /\ k \in Nat /\ \A i \in 1..Len(M) : /\ M[i].ids \in Seq(Id) /\ Len(M[i].ids) \in Nat
                                            /\ Worded(M[i]).role = M[i].role /\ Worded(M[i]).ids = M[i].ids
  BY WireFacts
<1>2. w.out \in Seq(Words) /\ w.pending \in Seq(Id) /\ n >= 1 /\ Turning(w.out) /\ n \in Nat
      /\ SameSpoken(M, w.out, k)
  BY DEF Wired, Wires
<1>3. CASE w.pending = <<>> /\ last.role = "user"
  <2>1. f = w.out
    BY <1>3 DEF Flushed
  <2> QED BY <1>2, <1>3, <2>1
<1>4. CASE WaitsForSome(M, w, k)
  <2>1. PICK a \in 2..k : Waiting(M, w, a, k)
    BY <1>4 DEF WaitsForSome
  <2>2. /\ a \in 1..Len(M) /\ M[a].role = "assistant" /\ M[a].ids \in Seq(Id) /\ Len(M[a].ids) \in Nat
        /\ last = Worded(M[a]) /\ k - a \in 0..Len(M[a].ids) /\ Len(w.pending) = k - a
        /\ \A j \in 1..k - a : w.pending[j] = M[a].ids[j]
    BY <1>1, <2>1 DEF Waiting
  <2>3. Followed(M, a) /\ M[a].ids # <<>>
    <3>1. a \in 2..Len(M)
      BY <1>1
    <3> QED BY <2>2, <3>1 DEF Shaped
  <2>4. k - a = Len(M[a].ids)
    <3> SUFFICES ASSUME k - a # Len(M[a].ids) PROVE FALSE
      OBVIOUS
    <3>1. (k - a) + 1 \in 1..Len(M[a].ids) /\ a + ((k - a) + 1) = k + 1
      <4> DEFINE l == Len(M[a].ids)
      <4>1. l \in Nat /\ k \in Nat /\ a \in 2..k /\ k - a \in 0..l /\ k - a # l
        BY <1>1, <2>2
      <4> HIDE DEF l
      <4>2. (k - a) + 1 \in 1..l /\ a + ((k - a) + 1) = k + 1
        BY ONLY <4>1
      <4> QED BY <4>2 DEF l
    <3>2. k + 1 <= Len(M)
      BY <1>1, <2>2, <2>3, <3>1 DEF Followed
    <3>3. M[k + 1].role = "tool"
      BY <2>3, <3>1 DEF Followed
    <3> QED BY <1>1, <3>2, <3>3
  <2>5. w.pending = M[a].ids
    BY <1>2, <2>2, <2>4, SeqEqual
  <2>6. last.role = "assistant" /\ last.ids = w.pending
    BY <1>1, <2>2, <2>5
  <2>7. e \in Words /\ e.role = "user" /\ e.ids = w.pending
    BY <1>2 DEF Words
  <2> HIDE DEF e
  <2>8. f = Append(w.out, e)
    BY <2>3, <2>5 DEF Flushed, e
  <2>9. /\ f \in Seq(Words) /\ Len(f) = n + 1 /\ f[n + 1] = e
    BY <1>2, <2>7, <2>8, AppendFacts
  <2>10. Turning(f)
    BY <1>2, <2>6, <2>7, <2>8, TurningAppend
  <2>11. SameSpoken(M, f, k)
    BY <1>2, <2>7, <2>8, SpokenAppend DEF SameSpoken
  <2>12. Len(f) \in Nat /\ Len(f) >= 1 /\ f[Len(f)].role = "user"
    <3> HIDE DEF f, n
    <3> QED BY ONLY <1>2, <2>7, <2>9
  <2> QED BY ONLY <2>9, <2>10, <2>11, <2>12
<1>5. WaitsForSome(M, w, k) \/ (w.pending = <<>> /\ last.role = "user")
  BY DEF Wired
<1> QED BY <1>3, <1>4, <1>5

\* The next turn is said after that.
LEMMA WiredTurn ==
    ASSUME NEW M, Shaped(M), NEW k \in 1..Len(M), k < Len(M), NEW w, Wired(M, w, k),
           M[k + 1].role = "assistant"
    PROVE  Wired(M, Added(w, M[k + 1]), k + 1)
<1> DEFINE m == M[k + 1]
           v == Added(w, m)
           f == Flushed(w)
           e == Worded(m)
           out == Append(f, e)
<1>1. /\ Len(M) \in Nat /\ k \in Nat /\ k + 1 \in 2..Len(M) /\ k + 1 \in 1..Len(M)
      /\ e \in Words /\ e.role = "assistant" /\ e.ids = m.ids /\ m.ids \in Seq(Id) /\ Len(m.ids) \in Nat
  BY WireFacts
<1>2. m.ids # <<>>
  BY <1>1 DEF Shaped
<1>3. v = [out |-> out, pending |-> <<>>]
  BY <1>2 DEF Added
<1>4. /\ f \in Seq(Words) /\ Len(f) \in Nat /\ Len(f) >= 1 /\ Turning(f)
      /\ f[Len(f)].role = "user" /\ SameSpoken(M, f, k)
  BY FlushedFacts
<1> HIDE DEF f, e
<1>5. out \in Seq(Words) /\ Len(out) = Len(f) + 1 /\ out[Len(f) + 1] = e
  BY <1>1, <1>4, AppendFacts
<1>6. Turning(out)
  BY <1>1, <1>4, TurningAppend
<1>7. SameSpoken(M, out, k + 1)
  <2>1. At(out, Spoken(out)) = Append(At(f, Spoken(f)), e)
    BY <1>1, <1>4, SpokenAppend
  <2> QED BY <1>4, <2>1, SpokenNext DEF SameSpoken, e
<1> HIDE DEF out
<1>8. v.out = out /\ v.pending = <<>> /\ v \in Wires
  BY <1>3, <1>5 DEF Wires
<1> HIDE DEF v
<1>9. Waiting(M, v, k + 1, k + 1)
  <2>1. out[Len(out)] = Worded(M[k + 1])
    BY <1>4, <1>5 DEF e
  <2>2. (k + 1) - (k + 1) = 0 /\ (1..0 = {}) /\ 0 \in 0..Len(m.ids) /\ Len(v.pending) = 0
    BY <1>1, <1>8
  <2> QED BY <1>8, <2>1, <2>2 DEF Waiting
<1>10. WaitsForSome(M, v, k + 1)
  <2>1. k + 1 \in 2..k + 1
    BY <1>1
  <2> QED BY <1>9, <2>1 DEF WaitsForSome
<1>11. Len(v.out) >= 1
  BY <1>4, <1>5, <1>8
<1>12. Wired(M, v, k + 1)
  BY <1>6, <1>7, <1>8, <1>10, <1>11 DEF Wired
<1> QED BY <1>12 DEF v

\* Whatever is added, what there is is wires.
LEMMA AddedType ==
    ASSUME NEW w \in Wires, NEW m \in Messages
    PROVE  Added(w, m) \in Wires
<1>1. w.out \in Seq(Words) /\ w.pending \in Seq(Id) /\ m.ids \in Seq(Id)
  BY DEF Wires, Messages
<1>2. Worded(m) \in Words
  BY DEF Worded, Words, Messages
<1> DEFINE e == [role |-> "user", ids |-> w.pending]
<1>3. e \in Words
  BY <1>1 DEF Words
<1> HIDE DEF e
<1>4. Flushed(w) \in Seq(Words)
  <2>1. Append(w.out, e) \in Seq(Words)
    BY <1>1, <1>3
  <2> QED BY <1>1, <2>1 DEF Flushed, e
<1>5. Append(Flushed(w), Worded(m)) \in Seq(Words)
  BY <1>2, <1>4
<1>6. w.pending \o m.ids \in Seq(Id) /\ <<>> \in Seq(Id)
  BY <1>1
<1>7. CASE m.role = "tool"
  BY <1>1, <1>6, <1>7 DEF Added, Wires
<1>8. CASE m.role # "tool" /\ ~m.said /\ m.ids = <<>>
  <2>1. Added(w, m) = [out |-> Flushed(w), pending |-> <<>>]
    BY <1>8 DEF Added
  <2> QED BY <1>4, <1>6, <2>1 DEF Wires
<1>9. CASE m.role # "tool" /\ ~(~m.said /\ m.ids = <<>>)
  <2>1. Added(w, m) = [out |-> Append(Flushed(w), Worded(m)), pending |-> <<>>]
    BY <1>9 DEF Added
  <2> QED BY <1>5, <1>6, <2>1 DEF Wires
<1> QED BY <1>7, <1>8, <1>9

\* The prompt comes first.
LEMMA WiredPrompt ==
    ASSUME NEW M, Shaped(M)
    PROVE  Wired(M, Added([out |-> <<>>, pending |-> <<>>], M[1]), 1)
<1> DEFINE w == [out |-> <<>>, pending |-> <<>>]
           v == Added(w, M[1])
           e == Worded(M[1])
           o == OpenAIWire(M)
<1>1. /\ Len(M) \in Nat /\ 1 \in 1..Len(M) /\ M[1].role = "user" /\ M[1].ids = <<>> /\ M[1].said
      /\ e \in Words /\ e.role = "user" /\ DOMAIN o = 1..Len(M) /\ o[1] = e
  <2>1. Len(M) \in Nat /\ 1 \in 1..Len(M) /\ M[1].role = "user" /\ M[1].ids = <<>> /\ M[1].said
    BY WireFacts DEF Shaped
  <2> QED BY <2>1, WireFacts
<1>2. Flushed(w) = <<>>
  BY DEF Flushed
<1>3. v = [out |-> Append(Flushed(w), e), pending |-> <<>>]
  BY <1>1 DEF Added
<1> HIDE DEF w, e, o
<1>4. v = [out |-> <<e>>, pending |-> <<>>]
  BY <1>2, <1>3
<1> DEFINE out == <<e>>
<1>5. out \in Seq(Words) /\ Len(out) = 1 /\ out[1] = e /\ DOMAIN out = 1..1
  BY <1>1
<1> HIDE DEF out
<1>6. v.out = out /\ v.pending = <<>> /\ v \in Wires
  <2>1. v = [out |-> out, pending |-> <<>>] /\ <<>> \in Seq(Id)
    BY <1>4 DEF out
  <2> QED BY <1>5, <2>1 DEF Wires
<1> HIDE DEF v
<1>7. Turning(out)
  BY <1>5 DEF Turning
<1>8. SameSpoken(M, out, 1)
  <2>1. Spoken(out) = {}
    BY <1>1, <1>5 DEF Spoken
  <2>2. Spoken(o) \cap (1..1) = {}
    BY <1>1 DEF Spoken
  <2>3. At(out, {}) = At(o, {})
    <3>1. {} \in SUBSET Nat /\ IsFiniteSet({}) /\ \A i \in {} : out[i] = o[i]
      BY FS_EmptySet
    <3> QED BY ONLY <3>1, AtSame
  <2> QED BY <2>1, <2>2, <2>3 DEF SameSpoken, o
<1>9. Wired(M, v, 1)
  <2>1. Len(v.out) >= 1 /\ v.out[Len(v.out)].role = "user"
    <3>1. v.out = out /\ Len(out) = 1 /\ out[1] = e /\ e.role = "user"
      BY <1>1, <1>5, <1>6
    <3>2. Len(v.out) = 1 /\ v.out[1] = e
      BY ONLY <3>1
    <3>3. v.out[Len(v.out)] = e
      BY ONLY <3>2
    <3>4. Len(v.out) >= 1
      BY ONLY <3>2
    <3> QED BY ONLY <3>1, <3>3, <3>4
  <2>2. Turning(v.out) /\ SameSpoken(M, v.out, 1)
    BY ONLY <1>6, <1>7, <1>8
  <2> QED BY ONLY <1>6, <2>1, <2>2 DEF Wired
<1> QED BY <1>9 DEF v, w

\* All of a transcript, in Anthropic's words.
LEMMA WireIs ==
    ASSUME NEW M, Shaped(M)
    PROVE  \E w : Wired(M, w, Len(M)) /\ AnthropicWire(M) = Flushed(w)
<1> DEFINE L == Len(M)
           base == [out |-> <<>>, pending |-> <<>>]
           StepOf(f, n) == IF n = 0 THEN base ELSE Added(f[n - 1], M[n])
           upto == CHOOSE f : f = [n \in 0..L |-> StepOf(f, n)]
           F == [n \in 1..L |-> [w \in Wires |-> Added(w, M[n])]]
<1>1. L \in Nat /\ L >= 1 /\ \A n \in 1..L : M[n] \in Messages
  BY DEF Shaped
<1>2. base \in Wires
  BY DEF Wires
<1>3. AnthropicWire(M) = Flushed(upto[L])
  BY DEF AnthropicWire
<1>4. F \in [1..L -> [Wires -> Wires]]
  BY <1>1, AddedType
<1>5. Wired(M, Added(base, M[1]), 1)
  BY WiredPrompt
<1>6. ASSUME NEW k \in 1..L, k < L, NEW w, Wired(M, w, k)
      PROVE  Wired(M, Added(w, M[k + 1]), k + 1)
  <2>1. k + 1 \in 2..Len(M)
    BY <1>1, <1>6
  <2>2. M[k + 1].role = "tool" \/ M[k + 1].role = "assistant"
    BY <2>1 DEF Shaped
  <2> QED BY <1>6, <2>2, WiredTool, WiredTurn
<1> HIDE DEF base
<1>7. PICK f \in [0..L -> Wires] : Unrolls(f, L, base, F)
  <2>1. L \in Nat
    BY <1>1
  <2> HIDE DEF L, F
  <2> QED BY ONLY <1>2, <1>4, <2>1, Unrolled
<1> HIDE DEF L
<1>8. \A n \in 0..L : f[n] = StepOf(f, n)
  <2> TAKE n \in 0..L
  <2>1. CASE n # 0
    <3>1. n \in 1..L /\ f[n - 1] \in Wires
      BY <1>1, <2>1
    <3> QED BY <1>7, <2>1, <3>1 DEF Unrolls
  <2> QED BY <1>7, <2>1 DEF Unrolls
<1> HIDE DEF F
<1>9. f = [n \in 0..L |-> StepOf(f, n)]
  <2> HIDE DEF StepOf
  <2> QED BY <1>8
<1>10. upto = [n \in 0..L |-> StepOf(upto, n)]
  <2> HIDE DEF StepOf
  <2> QED BY <1>9
<1> HIDE DEF upto
<1>11. \A n \in 0..L : upto[n] = StepOf(upto, n)
  <2> HIDE DEF StepOf
  <2> QED BY <1>10
<1>12. \A n \in 1..L : Wired(M, upto[n], n)
  <2> DEFINE bad == {n \in 1..L : ~Wired(M, upto[n], n)}
  <2> SUFFICES ASSUME bad # {} PROVE FALSE
    OBVIOUS
  <2>1. bad \in SUBSET Nat
    OBVIOUS
  <2>2. PICK n \in bad : \A m \in bad : n <= m
    <3> HIDE DEF bad
    <3> QED BY <2>1, Least
  <2>3. n \in 1..L /\ n \in 0..L /\ n # 0 /\ n - 1 \in 0..L /\ ~Wired(M, upto[n], n)
    BY <1>1, <2>2
  <2>4. upto[n] = Added(upto[n - 1], M[n])
    BY <1>11, <2>3
  <2>5. CASE n = 1
    <3>1. upto[0] = base
      BY <1>1, <1>11
    <3> QED BY <1>5, <2>3, <2>4, <2>5, <3>1
  <2>6. CASE n # 1
    <3> DEFINE k == n - 1
    <3>1. k \in 1..L /\ k < L /\ k < n /\ k + 1 = n
      BY <1>1, <2>3, <2>6
    <3>2. Wired(M, upto[k], k)
      BY <2>2, <3>1
    <3> HIDE DEF k
    <3>3. Wired(M, Added(upto[k], M[k + 1]), k + 1)
      BY <1>6, <3>1, <3>2
    <3> QED BY <2>3, <2>4, <3>1, <3>3 DEF k
  <2> QED BY <2>5, <2>6
<1>13. Wired(M, upto[L], L)
  BY <1>1, <1>12
<1> QED BY <1>3, <1>13 DEF L

\* What was asked of the wires holds of every transcript.
LEMMA LanguageTranscripts == LanguageIInv => TranscriptsHold
<1> SUFFICES ASSUME LanguageIInv, Answered("wire") PROVE TranscriptsHold
  BY DEF TranscriptsHold
<1> DEFINE rounds == call.rounds
           M == Transcript(rounds)
           a == AnthropicWire(M)
           o == OpenAIWire(M)
<1>1. call \in WireCalls /\ answer = [anthropic |-> a, openai |-> o]
  BY LanguageCallFacts DEF LanguageIInv, Answered
<1>2. rounds \in Seq(Round)
  <2>1. rounds \in UNION {[1..n -> Round] : n \in 0..3}
    <3>1. call \in [op : {"wire"}, rounds : UNION {[1..n -> Round] : n \in 0..3}]
      BY <1>1 DEF WireCalls, Round
    <3> QED BY <3>1
  <2> HIDE DEF rounds
  <2> QED BY <2>1, RowsAreSeq
<1> HIDE DEF rounds
<1>3. Shaped(M)
  BY <1>2, TranscriptShaped
<1> HIDE DEF M
<1>4. PICK w : Wired(M, w, Len(M)) /\ a = Flushed(w)
  BY <1>3, WireIs
<1>5. /\ a \in Seq(Words) /\ Len(a) \in Nat /\ Len(a) >= 1 /\ Turning(a)
      /\ a[Len(a)].role = "user" /\ SameSpoken(M, a, Len(M))
  <2>1. Len(M) \in 1..Len(M)
    BY <1>3 DEF Shaped
  <2> QED BY <1>3, <1>4, <2>1, FlushedFacts
<1>6. /\ Len(M) \in Nat /\ DOMAIN o = 1..Len(M)
      /\ \A i \in 1..Len(M) : o[i] = Worded(M[i]) /\ o[i].role = M[i].role /\ o[i].ids = M[i].ids
                              /\ Len(M[i].ids) \in Nat
  BY <1>3, WireFacts
<1> HIDE DEF a, o
<1>7. \A i \in 1..Len(a) - 1 : a[i].role # a[i + 1].role
  BY <1>5 DEF Turning
<1>8. ASSUME NEW i \in DOMAIN a, a[i].role = "assistant" PROVE a[i + 1].ids = a[i].ids
  <2>1. i \in 1..Len(a) /\ i # Len(a)
    BY <1>5, <1>8
  <2>2. i \in 1..Len(a) - 1
    BY <1>5, <2>1
  <2> QED BY <1>5, <1>8, <2>2 DEF Turning
<1>9. ASSUME NEW i \in DOMAIN o, NEW j \in 1..3, o[i].role = "assistant", j <= Len(o[i].ids)
      PROVE  o[i + j] = [role |-> "tool", ids |-> <<o[i].ids[j]>>]
  <2>1. i \in 1..Len(M) /\ M[i].role = "assistant" /\ o[i].ids = M[i].ids /\ Len(M[i].ids) \in Nat
    BY <1>6, <1>9
  <2>2. Followed(M, i)
    BY <1>3, <2>1 DEF Shaped
  <2>3. j \in 1..Len(M[i].ids) /\ i + j \in 1..Len(M)
    <3>1. i + Len(M[i].ids) <= Len(M)
      BY <2>2 DEF Followed
    <3> QED BY <1>6, <1>9, <2>1, <3>1
  <2>4. M[i + j].role = "tool" /\ M[i + j].ids = <<M[i].ids[j]>>
    BY <2>2, <2>3 DEF Followed
  <2>5. o[i + j] = Worded(M[i + j])
    BY <1>6, <2>3
  <2> QED BY <2>1, <2>4, <2>5 DEF Worded
<1>10. At(a, {i \in DOMAIN a : a[i].role = "assistant"}) = At(o, {i \in DOMAIN o : o[i].role = "assistant"})
  <2>1. At(a, Spoken(a)) = At(o, Spoken(o) \cap (1..Len(M)))
    BY <1>5 DEF SameSpoken, o
  <2>2. Spoken(o) \cap (1..Len(M)) = Spoken(o)
    BY <1>6 DEF Spoken
  <2> QED BY <2>1, <2>2 DEF Spoken
<1>11. answer.anthropic = a /\ answer.openai = o
  BY <1>1
<1> QED BY <1>7, <1>8, <1>9, <1>10, <1>11 DEF TranscriptsHold

--------------------------------------------------------------------------

\* Whatever the language layer is asked, its choices are the settings', a transcript reaches
\* both providers whole, only answers are metered, a column's values stay home, the history
\* of the spend adds up, and tools and secrets say no more than there is.
THEOREM LanguageHonest == Spec => []LanguageIsHonest
<1>1. LanguageIInv => LanguageIsHonest
  BY LanguageChoices, LanguageTranscripts, LanguageReads, LanguageValues, LanguageHistory,
     LanguageTools, LanguageSecrets DEF LanguageIsHonest
<1> QED BY <1>1, InitLanguageIInv, NextLanguageIInv, PTL DEF Spec

--------------------------------------------------------------------------
(* Queries, asked and answered. *)

\* A call is one that can be asked, and the answer to a query what its operator gives.
QueryIInv ==
    /\ call \in Calls
    /\ answer # Unanswered =>
        /\ call.op = "project" => answer = Projection(call.kinds, call.columns, call.expand)
        /\ call.op = "plan" => answer = Plan(call.spec, call.indices, call.running, call.taken)
        /\ call.op = "run" =>
               answer = [rows |-> Run(call.spec, call.indices).rows,
                         truncated |-> Run(call.spec, call.indices).truncated,
                         lance |-> LanceScript(call.spec, call.own),
                         lancedb |-> LancedbScript(call.spec, call.indices)]
        /\ call.op = "facets" => answer = Completion(call.kind, call.values, call.asked)
        /\ call.op = "validate" => answer = Validate(call.text, call.filter)
        /\ call.op = "estimate" =>
               answer = IF "typo" \in call.columns THEN Refuse(400)
                        ELSE ScanEstimate(call.files, call.columns)
        /\ call.op = "compare" => answer = StructuralDiff(call.a, call.b)

\* What a step that answers no query leaves of it.
LEMMA OtherQueryReplies ==
    ASSUME Next
    PROVE  \/ AnswerQuery
           \/ Asks(CheckOp \cup LanguageOp \cup PanelOp \cup SourceOp \cup MediaOp \cup CommandOp)
<1>1. CASE AnswerCheck
  BY <1>1, CheckReplies DEF Asks
<1>2. CASE AnswerLanguage
  BY <1>2, LanguageReplies DEF Asks
<1>3. CASE AnswerPanel
  BY <1>3, PanelReplies DEF Asks
<1>4. CASE AnswerSource
  BY <1>4, SourceReplies DEF Asks
<1>5. CASE AnswerMedia
  BY <1>5, MediaReplies DEF Asks
<1>6. CASE AnswerCommand
  BY <1>6, CommandReplies DEF Asks
<1> QED BY <1>1, <1>2, <1>3, <1>4, <1>5, <1>6 DEF Next

LEMMA InitQueryIInv == Init => QueryIInv
BY DEF Init, QueryIInv, Calls

LEMMA NextQueryIInv == QueryIInv /\ [Next]_<<call, answer>> => QueryIInv'
<1> SUFFICES ASSUME QueryIInv, [Next]_<<call, answer>> PROVE QueryIInv'
  OBVIOUS
<1>1. ASSUME Asks(CheckOp \cup LanguageOp \cup PanelOp \cup SourceOp \cup MediaOp \cup CommandOp)
      PROVE  QueryIInv'
  <2>1. /\ call' = call
        /\ call.op \notin {"project", "plan", "run", "facets", "validate", "estimate", "compare"}
    BY <1>1 DEF Asks, CheckOp, LanguageOp, PanelOp, SourceOp, MediaOp, CommandOp
  <2> QED BY <2>1 DEF QueryIInv
<1>2. CASE AnswerProjection
  BY <1>2 DEF QueryIInv, AnswerProjection, Reply
<1>3. CASE AnswerPlan
  BY <1>3 DEF QueryIInv, AnswerPlan, Reply
<1>4. CASE AnswerRun
  BY <1>4 DEF QueryIInv, AnswerRun, Reply
<1>5. CASE AnswerFacets
  BY <1>5 DEF QueryIInv, AnswerFacets, Reply
<1>6. CASE AnswerValidate
  BY <1>6 DEF QueryIInv, AnswerValidate, Reply
<1>7. CASE AnswerEstimate
  BY <1>7 DEF QueryIInv, AnswerEstimate, Reply
<1>8. CASE AnswerCompare
  BY <1>8 DEF QueryIInv, AnswerCompare, Reply
<1>9. CASE UNCHANGED <<call, answer>>
  BY <1>9 DEF QueryIInv
<1> QED BY <1>1, <1>2, <1>3, <1>4, <1>5, <1>6, <1>7, <1>8, <1>9, OtherQueryReplies DEF AnswerQuery

\* A query, by its operation, is one of the calls of that operation.
LEMMA QueryCallFacts ==
    ASSUME QueryIInv
    PROVE  /\ call.op = "project" => call \in ProjectionCalls
           /\ call.op = "plan" => call \in PlanCalls
           /\ call.op = "run" => call \in RunCalls
           /\ call.op = "facets" => call \in FacetCalls
           /\ call.op = "validate" => call \in ValidateCalls
           /\ call.op = "estimate" => call \in EstimateCalls
           /\ call.op = "compare" => call \in CompareCalls
<1>1. /\ call \in Calls
      /\ CheckOp \cap QueryOp = {} /\ LanguageOp \cap QueryOp = {} /\ PanelOp \cap QueryOp = {}
      /\ SourceOp \cap QueryOp = {} /\ MediaOp \cap QueryOp = {} /\ CommandOp \cap QueryOp = {}
  BY DEF QueryIInv, QueryOp, CheckOp, LanguageOp, PanelOp, SourceOp, MediaOp, CommandOp
<1>2. call.op \in QueryOp => call \in QueryCalls
  BY <1>1, CheckOps, LanguageOps, PanelOps, SourceOps, MediaOps, CommandOps DEF Calls
<1>3. /\ call \in ProjectionCalls => call.op = "project"
      /\ call \in PlanCalls => call.op = "plan"
      /\ call \in RunCalls => call.op = "run"
      /\ call \in FacetCalls => call.op = "facets"
      /\ call \in ValidateCalls => call.op = "validate"
      /\ call \in EstimateCalls => call.op = "estimate"
      /\ call \in CompareCalls => call.op = "compare"
  BY DEF ProjectionCalls, PlanCalls, RunCalls, FacetCalls, ValidateCalls, EstimateCalls, CompareCalls
<1>4. call.op \in {"project", "plan", "run", "facets", "validate", "estimate", "compare"} =>
          call.op \in QueryOp
  BY DEF QueryOp
<1> QED BY <1>2, <1>3, <1>4 DEF QueryCalls

LEMMA QueryProjects == QueryIInv => NothingHeavyUninvited
<1> SUFFICES ASSUME QueryIInv, Answered("project"), ~IsRefused(answer) PROVE NothingHeavyUninvited
  BY DEF NothingHeavyUninvited
<1> DEFINE kinds == call.kinds
           columns == call.columns
           expand == call.expand
           names == IF columns = {} THEN DOMAIN kinds ELSE columns
           wanted == {c \in names : ~Heavy(kinds[c]) \/ c \in expand}
<1>1. answer = Projection(kinds, columns, expand)
  BY DEF QueryIInv, Answered
<1>2. /\ names \subseteq DOMAIN kinds
      /\ ~ \E c \in expand \cap DOMAIN kinds : kinds[c] \in {"blob_v1", "blob_v2"}
      /\ answer = [read |-> wanted, omitted |-> names \ wanted]
  BY <1>1 DEF Projection, Refuse, IsRefused
<1>3. answer.read = wanted /\ answer.omitted = names \ wanted
  BY <1>2
<1>4. \A c \in wanted : (Heavy(kinds[c]) => c \in expand) /\ kinds[c] # "blob_v1"
  <2> TAKE c \in wanted
  <2>1. c \in DOMAIN kinds /\ (~Heavy(kinds[c]) \/ c \in expand)
    BY <1>2
  <2> QED BY <1>2, <2>1 DEF Heavy
<1>5. wanted \cup (names \ wanted) = names
  OBVIOUS
<1> QED BY <1>3, <1>4, <1>5 DEF NothingHeavyUninvited

\* The last of the indices that a column has is one of them.
LEMMA LastOf ==
    ASSUME NEW indices \in Seq(Index), NEW on \in SUBSET (DOMAIN indices), on # {}
    PROVE  (CHOOSE i \in on : \A j \in on : j <= i) \in on
<1>1. IsFiniteSet(DOMAIN indices) /\ DOMAIN indices \in SUBSET Nat
  <2>1. Len(indices) \in Nat /\ DOMAIN indices = 1..Len(indices)
    BY LenProperties
  <2>2. IsFiniteSet(1..Len(indices))
    BY <2>1, FS_Interval
  <2> QED BY <2>1, <2>2
<1>2. on \in SUBSET Nat /\ IsFiniteSet(on)
  BY <1>1, FS_Subset
<1>3. \E i \in on : \A j \in on : j <= i
  BY <1>2, Greatest
<1> QED BY <1>3

\* What the indices of a table say of it.
LEMMA IndexFacts ==
    ASSUME NEW indices \in Seq(Index)
    PROVE  /\ IndexedAs(indices, "t") = "inverted" =>
                  \E i \in DOMAIN indices : indices[i].type = "inverted"
           /\ IndexMetric(indices) \in {"none", "l2", "cosine"}
           /\ IndexMetric(indices) # "none" <=> \E i \in DOMAIN indices : indices[i].metric # "none"
           /\ IndexMetric(indices) # "none" =>
                  \E i \in DOMAIN indices : indices[i].metric = IndexMetric(indices)
<1>1. \A i \in DOMAIN indices : indices[i].metric \in {"none", "l2", "cosine"}
  <2>1. \A x \in Index : x.metric \in {"none", "l2", "cosine"}
    BY DEF Index
  <2> QED BY <2>1
<1>2. IndexedAs(indices, "t") = "inverted" => \E i \in DOMAIN indices : indices[i].type = "inverted"
  <2> DEFINE on == {i \in DOMAIN indices : indices[i].on = "t"}
             last == CHOOSE i \in on : \A j \in on : j <= i
  <2>1. CASE on = {}
    BY <2>1 DEF IndexedAs
  <2>2. CASE on # {}
    <3>1. last \in on /\ IndexedAs(indices, "t") = indices[last].type
      <4>1. last \in on
        BY <2>2, LastOf
      <4> QED BY <2>2, <4>1 DEF IndexedAs
    <3> QED BY <3>1
  <2> QED BY <2>1, <2>2
<1> DEFINE on == {i \in DOMAIN indices : indices[i].metric # "none"}
           last == CHOOSE i \in on : \A j \in on : j <= i
<1>3. CASE on = {}
  BY <1>2, <1>3 DEF IndexMetric
<1>4. CASE on # {}
  <2>1. last \in on
    BY <1>4, LastOf
  <2>2. IndexMetric(indices) = indices[last].metric
    BY <1>4 DEF IndexMetric
  <2> HIDE DEF last
  <2> QED BY <1>1, <1>2, <2>1, <2>2
<1> QED BY <1>3, <1>4

LEMMA QueryPaths == QueryIInv => PathsAreExplained
<1> SUFFICES ASSUME QueryIInv, Answered("plan"), ~IsRefused(answer) PROVE PathsAreExplained
  BY DEF PathsAreExplained
<1> DEFINE spec == call.spec
           indices == call.indices
           running == call.running
           taken == call.taken
           legs == IF spec.mode = "hybrid" /\ running THEN <<"fts", "vector">> ELSE <<spec.mode>>
           last == IF spec.mode = "hybrid" /\ running THEN "vector" ELSE spec.mode
           bad == {i \in DOMAIN legs : Refusal(legs[i], spec) # "ok"}
           path == UNION {Path(m, spec, indices, taken) : m \in ToSet(legs)}
           walked == Path(last, spec, indices, taken)
           warning == UnusedIndex(last, spec, indices, walked)
           Of(metric) == \E i \in DOMAIN indices : indices[i].metric = metric
           fits == Of(SearchMetric(spec, indices))
<1>1. call \in PlanCalls
  BY QueryCallFacts DEF Answered
<1>2. /\ spec.mode \in {"scan", "fts", "vector", "hybrid"} /\ running \in BOOLEAN
      /\ spec.metric \in {"none", "l2", "cosine"} /\ taken \in BOOLEAN
  BY <1>1 DEF PlanCalls
<1>3. indices \in Seq(Index)
  <2>1. indices \in UNION {[1..n -> Index] : n \in 0..2}
    BY <1>1 DEF PlanCalls
  <2> HIDE DEF indices
  <2> QED BY <2>1, RowsAreSeq
<1>4. answer = Plan(spec, indices, running, taken)
  BY DEF QueryIInv, Answered
<1>5. legs[Len(legs)] = last /\ Len(legs) \in DOMAIN legs /\ last \in ToSet(legs)
  BY DEF ToSet
<1>6. /\ bad = {}
      /\ answer = [path |-> path, offered |-> Capabilities(indices), warning |-> warning]
  BY <1>4, <1>5 DEF Plan, Refuse, IsRefused, Last
<1>7. answer.path = path /\ answer.offered = Capabilities(indices) /\ answer.warning = warning
  BY <1>6
<1>8. Refusal(last, spec) = "ok"
  BY <1>5, <1>6
<1>9. last = "vector" => spec.column = "v"
  BY <1>8 DEF Refusal, Nearest
<1>10. "fts" \in Capabilities(indices) => \E i \in DOMAIN indices : indices[i].type = "inverted"
  BY <1>3, IndexFacts DEF Capabilities
<1>11. IndexMetric(indices) # "none" <=> (Of("l2") \/ Of("cosine"))
  <2>1. \A i \in DOMAIN indices : indices[i].metric \in {"none", "l2", "cosine"}
    <3>1. \A x \in Index : x.metric \in {"none", "l2", "cosine"}
      BY DEF Index
    <3> HIDE DEF indices
    <3> QED BY <1>3, <3>1
  <2> HIDE DEF indices
  <2> QED BY <1>3, <2>1, IndexFacts
<1>12. IndexMetric(indices) # "none" => Of(IndexMetric(indices))
  BY <1>3, IndexFacts
<1>13. last = "vector" =>
          /\ warning # "none" <=> "ANN_index" \notin walked /\ IndexMetric(indices) # "none"
          /\ warning \in {"none", "metric", "unexplained"}
          /\ warning = "unexplained" =>
                 IndexMetric(indices) # "none" /\ SearchMetric(spec, indices) = IndexMetric(indices)
  <2> HIDE DEF walked
  <2> QED BY <1>9 DEF UnusedIndex
<1>14. running /\ spec.mode \in {"vector", "hybrid"} =>
          last = "vector" /\ ("ANN_index" \in path <=> "ANN_index" \in walked)
  <2> SUFFICES ASSUME running, spec.mode \in {"vector", "hybrid"}
               PROVE  last = "vector" /\ ("ANN_index" \in path <=> "ANN_index" \in walked)
    OBVIOUS
  <2>1. last = "vector" /\ ToSet(legs) \subseteq {"fts", "vector"} /\ "vector" \in ToSet(legs)
    BY DEF ToSet
  <2>2. /\ Path("fts", spec, indices, taken) = {"inverted_index"}
        /\ Path("vector", spec, indices, taken) = walked
    BY <2>1 DEF Path
  <2> HIDE DEF legs, walked, last
  <2> QED BY <2>1, <2>2
<1> HIDE DEF path, walked, warning, last, legs
<1>15. ASSUME running, spec.mode \in {"vector", "hybrid"}
       PROVE  /\ answer.warning # "none" <=>
                     "ANN_index" \notin answer.path /\ (Of("l2") \/ Of("cosine"))
              /\ answer.warning = "unexplained" => fits
              /\ answer.warning # "none" /\ ~fits => answer.warning = "metric"
  <2>1. warning = "unexplained" => fits
    BY <1>12, <1>13, <1>14, <1>15
  <2> HIDE DEF Of, fits
  <2> QED BY <1>7, <1>11, <1>13, <1>14, <1>15, <2>1
<1> QED BY <1>7, <1>10, <1>15 DEF PathsAreExplained

\* What differs of two functions.
Differs(p, q) ==
    [added |-> DOMAIN q \ DOMAIN p, removed |-> DOMAIN p \ DOMAIN q,
     changed |-> {n \in DOMAIN p \cap DOMAIN q : p[n] # q[n]}]

LEMMA DiffersFacts ==
    ASSUME NEW p, NEW q
    PROVE  LET part == Differs(p, q)
           IN  /\ \A n \in DOMAIN p \cup DOMAIN q :
                      (n \in DOMAIN p /\ n \in DOMAIN q /\ p[n] = q[n])
                          <=> (n \notin part.added \cup part.removed \cup part.changed)
               /\ part.added \cap part.changed = {} /\ part.removed \cap part.changed = {}
               /\ DOMAIN p = DOMAIN q => part.added = {} /\ part.removed = {}
               /\ p = q => part.added \cup part.removed \cup part.changed = {}
BY DEF Differs

LEMMA QueryDiffers == QueryIInv => DifferencesAddUp
<1> SUFFICES ASSUME QueryIInv, Answered("compare") PROVE DifferencesAddUp
  BY DEF DifferencesAddUp
<1> DEFINE a == call.a
           b == call.b
           same == /\ a.fields = b.fields
                   /\ DOMAIN a.indices = DOMAIN b.indices /\ a.rows = b.rows
                   /\ a.fragments = b.fragments
           verdict == Compared(a, b)
<1>1. answer = StructuralDiff(a, b)
  BY DEF QueryIInv, Answered
<1>2. /\ Differs(a.fields, b.fields) = Differs(a["fields"], b["fields"])
      /\ Differs(a.indices, b.indices) = Differs(a["indices"], b["indices"])
  OBVIOUS
<1>3. answer = [fields |-> Differs(a.fields, b.fields), indices |-> Differs(a.indices, b.indices),
                rows |-> b.rows - a.rows, fragments |-> b.fragments - a.fragments,
                verdict |-> verdict, unchanged |-> same]
  BY <1>1 DEF StructuralDiff, Differs
<1>4. call \in CompareCalls
  BY QueryCallFacts DEF Answered
<1>5. a.rows \in Int /\ b.rows \in Int /\ a.fragments \in Int /\ b.fragments \in Int /\ a.refused \in BOOLEAN /\ b.refused \in BOOLEAN
  BY <1>4 DEF CompareCalls
<1>6. (verdict = "neither") = (a.refused /\ b.refused)
  BY <1>5 DEF Compared
<1>7. same => /\ a.fields = b.fields /\ b.rows - a.rows = 0 /\ b.fragments - a.fragments = 0
  BY <1>5
<1> HIDE DEF same, verdict
<1>8. /\ answer.fields = Differs(a.fields, b.fields) /\ answer.indices = Differs(a.indices, b.indices)
      /\ answer.rows = b.rows - a.rows /\ answer.fragments = b.fragments - a.fragments
      /\ answer.verdict = verdict /\ answer.unchanged = same
  BY <1>3
<1>9. ASSUME NEW f \in {"fields", "indices"}
      PROVE  /\ \A n \in DOMAIN call.a[f] \cup DOMAIN call.b[f] :
                    (n \in DOMAIN call.a[f] /\ n \in DOMAIN call.b[f] /\ call.a[f][n] = call.b[f][n])
                        <=> (n \notin answer[f].added \cup answer[f].removed \cup answer[f].changed)
             /\ answer[f].added \cap answer[f].changed = {} /\ answer[f].removed \cap answer[f].changed = {}
  <2>1. answer[f] = Differs(call.a[f], call.b[f])
    BY <1>8
  <2> DEFINE p == call.a[f]
             q == call.b[f]
  <2> HIDE DEF p, q
  <2>2. answer[f] = Differs(p, q)
    BY <2>1 DEF p, q
  <2>3. /\ \A n \in DOMAIN p \cup DOMAIN q :
              (n \in DOMAIN p /\ n \in DOMAIN q /\ p[n] = q[n])
                  <=> (n \notin answer[f].added \cup answer[f].removed \cup answer[f].changed)
        /\ answer[f].added \cap answer[f].changed = {} /\ answer[f].removed \cap answer[f].changed = {}
    BY <2>2, DiffersFacts
  <2> QED BY <2>3 DEF p, q
<1>10. answer.unchanged =>
          /\ answer.fields.added \cup answer.fields.removed \cup answer.fields.changed = {}
          /\ answer.rows = 0 /\ answer.fragments = 0
  BY <1>7, <1>8, DiffersFacts
<1>11. (answer.verdict = "neither") = (call.a.refused /\ call.b.refused)
  BY <1>6, <1>8
<1> QED BY <1>9, <1>10, <1>11 DEF DifferencesAddUp

--------------------------------------------------------------------------
(* Estimates. *)

\* Half to even never rounds past a whole number that a fraction does not pass.
LEMMA RoundedWithin ==
    ASSUME NEW a \in Nat, NEW b \in Nat \ {0}, NEW m \in Nat, a <= b * m,
           NEW q, q = (2 * a + b) \div (2 * b)
    PROVE  q \in 0..m /\ (q % 2 = 1 => q - 1 \in 0..m)
<1> DEFINE c == 2 * a + b
           d == 2 * b
<1>1. c \in Nat /\ d \in Nat \ {0}
  OBVIOUS
<1>2. q \in Nat /\ q * d <= c
  <2> HIDE DEF c, d
  <2>1. q = c \div d
    BY DEF c, d
  <2> QED BY <1>1, <2>1, DivFacts
<1>3. c < (m + 1) * d
  <2>1. b * m \in Nat /\ (m + 1) * d = 2 * (b * m) + 2 * b
    OBVIOUS
  <2> HIDE DEF d
  <2> QED BY <2>1
<1>4. ~(m < q)
  <2> HIDE DEF c, d
  <2> SUFFICES ASSUME m < q PROVE FALSE
    OBVIOUS
  <2>1. (m + 1) * d = m * d + d /\ m * d + d <= q * d /\ q * d \in Nat
    BY <1>1, <1>2, TimesFacts
  <2> QED BY <1>1, <1>2, <1>3, <2>1
<1> HIDE DEF c, d
<1> QED BY <1>2, <1>4

\* A sample is of the files there are, and all of them where they are few.
LEMMA SampleFacts ==
    ASSUME NEW n \in Nat
    PROVE  Sample(n) \in SUBSET (1..n) /\ (n <= Budget => Sample(n) = 1..n)
<1>0. Budget \in Nat /\ Budget > 1
  BY QueriesAssumption
<1> SUFFICES ASSUME n > Budget PROVE Sample(n) \in SUBSET (1..n)
  BY <1>0 DEF Sample
<1> DEFINE b == Budget - 1
           quotient(i) == (2 * (i * (n - 1)) + b) \div (2 * b)
           half(i) == (2 * (i * (n - 1)) + b) % (2 * b) = 0
           rounded(i) == IF half(i) /\ quotient(i) % 2 = 1 THEN quotient(i) - 1 ELSE quotient(i)
<1>1. Sample(n) = {1 + rounded(i) : i \in 0..Budget - 1}
  BY <1>0 DEF Sample
<1>2. ASSUME NEW i \in 0..Budget - 1 PROVE rounded(i) \in 0..n - 1
  <2> DEFINE a == i * (n - 1)
             q == quotient(i)
  <2>1. b \in Nat \ {0} /\ n - 1 \in Nat /\ i \in Nat /\ i <= b
    BY <1>0
  <2>2. a \in Nat /\ a <= b * (n - 1)
    <3> DEFINE m == n - 1
    <3>1. m \in Nat
      BY <2>1
    <3> HIDE DEF b, m
    <3>2. i * m \in Nat /\ i * m <= b * m
      BY <2>1, <3>1
    <3> QED BY <3>2 DEF m
  <2>3. q = (2 * a + b) \div (2 * b)
    OBVIOUS
  <2> HIDE DEF q, a, b
  <2>4. q \in 0..n - 1 /\ (q % 2 = 1 => q - 1 \in 0..n - 1)
    BY <2>1, <2>2, <2>3, RoundedWithin
  <2> QED BY <2>4 DEF q
<1> HIDE DEF rounded
<1> QED BY <1>1, <1>2

\* What the files at D hold of the columns of C, file by file and column by column.
HeldByFiles(D, C, size, b, rows, seen) ==
    /\ IsFiniteSet(D) /\ IsFiniteSet(C) /\ size \in [D -> Nat] /\ b \in [D -> [C -> Nat]]
    /\ \A i \in D : SumFunction(b[i]) <= size[i]
    /\ rows = [i \in D |-> SumFunction(b[i])]
    /\ seen = [c \in C |-> SumFunction([i \in D |-> b[i][c]])]

\* By column it comes to the same, and is no more than those files are.
LEMMA ColumnsWithin ==
    ASSUME NEW D, NEW C, NEW size, NEW b, NEW rows, NEW seen, HeldByFiles(D, C, size, b, rows, seen)
    PROVE  /\ seen \in [C -> Nat] /\ SumFunction(size) \in Nat /\ SumFunction(seen) \in Nat
           /\ SumFunction(seen) = SumFunction(rows) /\ SumFunction(seen) <= SumFunction(size)
<1>0. /\ IsFiniteSet(D) /\ IsFiniteSet(C) /\ size \in [D -> Nat] /\ b \in [D -> [C -> Nat]]
      /\ \A i \in D : SumFunction(b[i]) <= size[i]
      /\ rows = [i \in D |-> SumFunction(b[i])]
      /\ seen = [c \in C |-> SumFunction([i \in D |-> b[i][c]])]
  BY DEF HeldByFiles
<1>1. rows \in [D -> Nat] /\ \A i \in D : rows[i] <= size[i]
  <2>1. \A i \in D : SumFunction(b[i]) \in Nat
    BY <1>0, SumFacts
  <2> QED BY <1>0, <2>1
<1>2. seen \in [C -> Nat]
  <2> SUFFICES ASSUME NEW c \in C PROVE SumFunction([i \in D |-> b[i][c]]) \in Nat
    BY <1>0
  <2> DEFINE column == [i \in D |-> b[i][c]]
  <2>1. column \in [D -> Nat]
    BY <1>0
  <2> HIDE DEF column
  <2>2. SumFunction(column) \in Nat
    BY <1>0, <2>1, SumFacts
  <2> QED BY <2>2 DEF column
<1>3. SumFunction(rows) = SumFunction(seen)
  BY <1>0, SumSwapped
<1>4. SumFunction(rows) <= SumFunction(size)
  BY <1>0, <1>1, SumMonotonic
<1>5. SumFunction(size) \in Nat /\ SumFunction(seen) \in Nat
  BY <1>0, <1>2, SumFacts
<1> QED BY <1>2, <1>3, <1>4, <1>5

\* The share a column has of some files, of all of them: together no more than all there is.
LEMMA SharesWithin ==
    ASSUME NEW C, IsFiniteSet(C), NEW seen \in [C -> Nat], NEW opened \in Nat, NEW total \in Nat,
           SumFunction(seen) <= opened, opened <= total,
           NEW w, w = [c \in C |-> IF opened = 0 THEN seen[c] ELSE (seen[c] * total) \div opened]
    PROVE  w \in [C -> Nat] /\ SumFunction(w) \in Nat /\ SumFunction(w) <= total
<1>0. SumFunction(seen) \in Nat
  BY SumFacts
<1>1. CASE opened = 0
  <2>1. w = seen
    BY <1>1
  <2> QED BY <1>0, <1>1, <2>1
<1>2. CASE opened # 0
  <2> DEFINE up == [c \in C |-> opened * w[c]]
             right == [c \in C |-> total * seen[c]]
  <2>1. ASSUME NEW c \in C PROVE w[c] \in Nat /\ opened * w[c] <= total * seen[c]
    <3> DEFINE a == seen[c] * total
               q == w[c]
    <3>1. a \in Nat /\ opened \in Nat \ {0} /\ a = total * seen[c]
      BY <1>2
    <3>2. q = a \div opened
      BY <1>2
    <3> HIDE DEF a, q
    <3>3. q \in Nat /\ q * opened <= a
      BY <3>1, <3>2, DivFacts
    <3>4. q * opened = opened * q
      BY <3>1, <3>3
    <3> QED BY <3>1, <3>3, <3>4 DEF q
  <2>2. w \in [C -> Nat]
    BY <2>1
  <2>3. up \in [C -> Nat] /\ right \in [C -> Nat] /\ \A c \in C : up[c] <= right[c]
    BY <2>1, <2>2
  <2>4. SumFunction(up) = opened * SumFunction(w) /\ SumFunction(right) = total * SumFunction(seen)
    BY <2>2, SumScaled
  <2> HIDE DEF up, right
  <2>5. SumFunction(up) <= SumFunction(right)
    BY <2>3, SumMonotonic
  <2>6. SumFunction(w) \in Nat
    BY <2>2, SumFacts
  <2> DEFINE x == SumFunction(w)
             y == SumFunction(seen)
  <2>7. x \in Nat /\ y \in Nat /\ y <= opened /\ opened * x <= total * y
    BY <1>0, <2>4, <2>5, <2>6
  <2> HIDE DEF x, y
  <2>8. total * y <= total * opened /\ total * opened = opened * total
    BY <2>7
  <2>9. opened * x <= opened * total /\ opened \in Nat \ {0}
    BY <1>2, <2>7, <2>8
  <2>10. x <= total
    <3> SUFFICES ASSUME total < x PROVE FALSE
      BY <2>7
    <3>1. opened * total + opened <= opened * x
      <4>1. total * opened + opened <= x * opened /\ total * opened = opened * total
                /\ x * opened = opened * x
        BY <2>7, <2>9, TimesFacts
      <4> QED BY <4>1
    <3>2. opened * total \in Nat /\ opened * x \in Nat
      BY <2>7
    <3> QED BY <2>9, <3>1, <3>2
  <2> QED BY <2>2, <2>6, <2>10 DEF x
<1> QED BY <1>1, <1>2

\* What a scan must read at least is no more than there is, and no less than the weight
\* where the files are alike.
LEMMA FloorWithin ==
    ASSUME NEW n \in Nat \ {0}, NEW size \in [1..n -> Nat], NEW w \in Nat, NEW over \in Nat,
           w <= SumFunction(size),
           NEW sum, sum = SumFunction([i \in 1..n |-> Lesser(n * size[i], w + over)])
    PROVE  /\ sum \div n <= SumFunction(size)
           /\ (\A i \in 1..n : size[i] = size[1]) => w <= sum \div n
<1> DEFINE S == 1..n
           total == SumFunction(size)
           paid == [i \in S |-> Lesser(n * size[i], w + over)]
           grown == [i \in S |-> n * size[i]]
<1>1. IsFiniteSet(S) /\ Cardinality(S) = n
  BY FS_Interval
<1>2. \A i \in S : n * size[i] \in Nat
  OBVIOUS
<1>3. paid \in [S -> Nat] /\ grown \in [S -> Nat] /\ \A i \in S : paid[i] <= grown[i]
  <2>1. \A x \in Nat : Lesser(x, w + over) \in Nat /\ Lesser(x, w + over) <= x
    BY DEF Lesser
  <2>2. \A i \in S : paid[i] = Lesser(grown[i], w + over)
    OBVIOUS
  <2>3. grown \in [S -> Nat]
    BY <1>2
  <2>4. paid = [i \in S |-> paid[i]]
    OBVIOUS
  <2> HIDE DEF paid, grown, S
  <2>5. \A i \in S : paid[i] \in Nat /\ paid[i] <= grown[i]
    BY <2>1, <2>2, <2>3
  <2> QED BY <2>3, <2>4, <2>5
<1>4. SumFunction(grown) = n * total
  <2>1. n \in Nat /\ size \in [S -> Nat]
    OBVIOUS
  <2> HIDE DEF S
  <2> QED BY ONLY <1>1, <2>1, SumScaled
<1>5. sum = SumFunction(paid) /\ sum \in Nat /\ total \in Nat
  <2>1. sum = SumFunction(paid) /\ size \in [S -> Nat]
    OBVIOUS
  <2> HIDE DEF paid, S
  <2>2. SumFunction(paid) \in Nat /\ SumFunction(size) \in Nat
    BY ONLY <1>1, <1>3, <2>1, SumFacts
  <2> QED BY <2>1, <2>2
<1>6. sum <= n * total
  <2> HIDE DEF paid, grown, S
  <2>1. SumFunction(paid) <= SumFunction(grown)
    BY <1>1, <1>3, SumMonotonic
  <2> QED BY <1>4, <1>5, <2>1
<1> DEFINE q == sum \div n
<1>7. q \in Nat /\ q * n <= sum /\ sum < q * n + n
  BY <1>5, DivFacts
<1>8. ~(total < q)
  <2> HIDE DEF total, q
  <2> SUFFICES ASSUME total < q PROVE FALSE
    OBVIOUS
  <2>1. total * n + n <= q * n /\ total * n \in Nat
    BY ONLY <1>5, <1>7, n \in Nat \ {0}, total < q, TimesFacts
  <2>2. total * n = n * total /\ q * n \in Nat
    BY ONLY <1>5, <1>7, n \in Nat \ {0}
  <2> DEFINE a == total * n
             b == q * n
  <2>3. a \in Nat /\ b \in Nat /\ a + n <= b /\ b <= sum /\ sum <= a
    BY ONLY <1>6, <1>7, <2>1, <2>2
  <2> HIDE DEF a, b
  <2> QED BY ONLY <2>3, n \in Nat \ {0}, <1>5
<1>9. ASSUME \A i \in S : size[i] = size[1] PROVE w <= q
  <2> DEFINE s == size[1]
             each == Lesser(n * s, w + over)
  <2>1. s \in Nat /\ n * s \in Nat
    BY <1>2
  <2>2. size = [i \in S |-> s]
    BY <1>9
  <2>3. paid = [i \in S |-> each]
    BY <1>9
  <2>4. each \in Nat
    BY <1>3, <2>3
  <2> HIDE DEF S, paid, each, s
  <2>5. total = s * n
    BY <1>1, <2>1, <2>2, SumConstant
  <2>6. sum = each * n
    BY <1>1, <1>5, <2>3, <2>4, SumConstant
  <2>7. q = each
    BY <1>5, <2>4, <2>6, DivFacts
  <2>8. s * n = n * s
    BY <2>1
  <2>9. w <= n * s
    BY <2>5, <2>8
  <2>10. w <= each
    <3> DEFINE x == n * s
    <3> HIDE DEF x
    <3>1. x \in Nat /\ w <= x
      BY <2>1, <2>9 DEF x
    <3>2. w <= Lesser(x, w + over)
      BY <3>1 DEF Lesser
    <3> QED BY <3>2 DEF x, each
  <2> QED BY <2>7, <2>10
<1> HIDE DEF q, total
<1>10. q <= total
  BY <1>5, <1>7, <1>8
<1> QED BY <1>9, <1>10 DEF q, total

\* Files whose columns in C hold no more than the file does.
FilesHold(files, C) ==
    /\ IsFiniteSet(C) /\ IsFiniteSet(DOMAIN files)
    /\ Len(files) \in Nat /\ DOMAIN files = 1..Len(files)
    /\ \A i \in DOMAIN files : files[i].size \in Nat /\ \A c \in C : files[i].bytes[c] \in Nat
    /\ \A i \in DOMAIN files : SumOf(C, LAMBDA c : files[i].bytes[c]) <= files[i].size

\* The weight of a scan is no more than there is, and exact where every file is opened.
LEMMA WeighedFacts ==
    ASSUME NEW files, NEW C, FilesHold(files, C)
    PROVE  LET total == SumOf(DOMAIN files, LAMBDA i : files[i].size)
               w == SumOf(C, LAMBDA c : Weight(files, c))
           IN  /\ w \in Nat /\ total \in Nat /\ w <= total
               /\ Len(files) <= Budget =>
                      w = SumOf(DOMAIN files, LAMBDA i : SumOf(C, LAMBDA c : files[i].bytes[c]))
<1> DEFINE n == Len(files)
           S == DOMAIN files
           D == Sample(n)
           size == [i \in S |-> files[i].size]
           opened == [i \in D |-> files[i].size]
           b == [i \in S |-> [c \in C |-> files[i].bytes[c]]]
           part == [i \in D |-> b[i]]
           seen == [c \in C |-> SumFunction([i \in D |-> part[i][c]])]
           w == [c \in C |-> Weight(files, c)]
<1>0. /\ IsFiniteSet(C) /\ IsFiniteSet(S) /\ n \in Nat /\ S = 1..n
      /\ \A i \in S : files[i].size \in Nat /\ \A c \in C : files[i].bytes[c] \in Nat
      /\ \A i \in S : SumOf(C, LAMBDA c : files[i].bytes[c]) <= files[i].size
  BY DEF FilesHold
<1>1. /\ D \in SUBSET S /\ IsFiniteSet(D) /\ (n <= Budget => D = S)
  <2>1. D \in SUBSET (1..n) /\ (n <= Budget => D = 1..n)
    BY <1>0, SampleFacts
  <2> QED BY <1>0, <2>1, FS_Subset
<1> HIDE DEF D, n
<1>2. /\ size \in [S -> Nat] /\ b \in [S -> [C -> Nat]]
      /\ \A i \in S : SumFunction(b[i]) <= size[i]
  BY <1>0 DEF SumOf
<1>3. /\ opened \in [D -> Nat] /\ part \in [D -> [C -> Nat]] /\ \A i \in D : part[i] = b[i]
      /\ \A i \in D : SumFunction(part[i]) <= opened[i]
  <2>1. \A i \in D : opened[i] = size[i]
    BY <1>1
  <2> HIDE DEF b
  <2>2. part \in [D -> [C -> Nat]] /\ \A i \in D : part[i] = b[i]
    BY <1>1, <1>2
  <2> HIDE DEF part, size
  <2>3. \A i \in D : opened[i] \in Nat
    BY <1>1, <1>2, <2>1
  <2> QED BY <1>1, <1>2, <2>1, <2>2, <2>3
<1>4. \A c \in C : [i \in D |-> part[i][c]] = [i \in D |-> files[i].bytes[c]]
  BY <1>1
<1>5. \A c \in C : w[c] = IF D = S \/ SumFunction(opened) = 0 THEN seen[c]
                          ELSE (seen[c] * SumFunction(size)) \div SumFunction(opened)
  <2> SUFFICES ASSUME NEW c \in C
               PROVE  w[c] = IF D = S \/ SumFunction(opened) = 0 THEN seen[c]
                             ELSE (seen[c] * SumFunction(size)) \div SumFunction(opened)
    OBVIOUS
  <2>1. w[c] = Weight(files, c)
    OBVIOUS
  <2>2. seen[c] = SumFunction([i \in D |-> files[i].bytes[c]])
    BY <1>4
  <2> QED BY <2>1, <2>2 DEF Weight, SumOf, D, n
<1> HIDE DEF size, opened, b, part, w
<1> DEFINE rows == [i \in D |-> SumFunction(part[i])]
<1>6. /\ seen \in [C -> Nat] /\ SumFunction(opened) \in Nat /\ SumFunction(seen) \in Nat
      /\ SumFunction(seen) = SumFunction(rows)
      /\ SumFunction(seen) <= SumFunction(opened)
  <2>1. HeldByFiles(D, C, opened, part, rows, seen)
    BY <1>0, <1>1, <1>3 DEF HeldByFiles
  <2> HIDE DEF rows, seen
  <2> QED BY <2>1, ColumnsWithin
<1>7. SumFunction(opened) <= SumFunction(size) /\ SumFunction(size) \in Nat
  <2>1. PartSum(size, D) <= SumFunction(size) /\ SumFunction(size) \in Nat
    BY <1>0, <1>1, <1>2, PartWithin, SumFacts
  <2>2. opened = [i \in D |-> size[i]]
    BY <1>1 DEF opened, size
  <2> QED BY <2>1, <2>2 DEF PartSum
<1>8. w = [c \in C |-> w[c]]
  BY DEF w
<1> HIDE DEF seen, S
<1>9. CASE D = S
  <2>1. w = seen
    BY <1>5, <1>6, <1>8, <1>9
  <2>2. rows = [i \in S |-> SumFunction(b[i])]
    BY <1>3, <1>9
  <2>3. SumFunction(w) = SumFunction([i \in S |-> SumFunction(b[i])]) /\ SumFunction(w) \in Nat
        /\ SumFunction(w) <= SumFunction(size)
    BY <1>6, <1>7, <2>1, <2>2
  <2>4. SumFunction(w) = SumOf(C, LAMBDA c : Weight(files, c))
    BY DEF SumOf, w
  <2>5. SumFunction(size) = SumOf(DOMAIN files, LAMBDA i : files[i].size)
    BY DEF SumOf, size, S
  <2>6. SumFunction([i \in S |-> SumFunction(b[i])])
            = SumOf(DOMAIN files, LAMBDA i : SumOf(C, LAMBDA c : files[i].bytes[c]))
    <3>1. \A i \in S : SumFunction(b[i]) = SumOf(C, LAMBDA c : files[i].bytes[c])
      BY DEF SumOf, b
    <3>2. [i \in S |-> SumFunction(b[i])] = [i \in S |-> SumOf(C, LAMBDA c : files[i].bytes[c])]
      BY <3>1
    <3> QED BY <3>2 DEF SumOf, S
  <2> QED BY <1>7, <2>3, <2>4, <2>5, <2>6
<1>10. CASE D # S
  <2> DEFINE o == SumFunction(opened)
             t == SumFunction(size)
  <2>1. o \in Nat /\ t \in Nat /\ o <= t /\ SumFunction(seen) <= o
    BY <1>6, <1>7
  <2>2. \A c \in C : w[c] = IF o = 0 THEN seen[c] ELSE (seen[c] * t) \div o
    BY <1>5, <1>10
  <2> HIDE DEF o, t
  <2>3. w = [c \in C |-> IF o = 0 THEN seen[c] ELSE (seen[c] * t) \div o]
    BY <1>8, <2>2
  <2>4. SumFunction(w) \in Nat /\ SumFunction(w) <= t
    BY <1>0, <1>6, <2>1, <2>3, SharesWithin
  <2> QED BY <1>1, <1>10, <2>1, <2>4 DEF SumOf, size, w, t, n, S
<1> QED BY <1>9, <1>10

LEMMA TwoColumns == IsFiniteSet({"a", "b"})
<1>1. IsFiniteSet({}) /\ IsFiniteSet({} \cup {"a"})
  BY FS_EmptySet, FS_AddElement
<1>2. IsFiniteSet(({} \cup {"a"}) \cup {"b"})
  BY <1>1, FS_AddElement
<1>3. ({} \cup {"a"}) \cup {"b"} = {"a", "b"}
  OBVIOUS
<1> QED BY <1>2, <1>3

\* A file that can be asked about holds no less than any of its columns together.
LEMMA PairHeld ==
    ASSUME NEW bytes \in [{"a", "b"} -> 0..2], NEW C \in SUBSET {"a", "b"}
    PROVE  /\ IsFiniteSet(C) /\ \A c \in C : bytes[c] \in Nat
           /\ SumOf(C, LAMBDA c : bytes[c]) <= bytes["a"] + bytes["b"]
<1> DEFINE K == {"a", "b"}
<1>1. IsFiniteSet(K) /\ bytes \in [K -> Nat]
  BY TwoColumns
<1>2. /\ PartSum(bytes, K) = bytes["a"] + PartSum(bytes, K \ {"a"})
      /\ PartSum(bytes, {"b"}) = bytes["b"] + PartSum(bytes, {"b"} \ {"b"})
  <2>1. K \in SUBSET K /\ {"b"} \in SUBSET K /\ "a" \in K /\ "b" \in {"b"}
    OBVIOUS
  <2> HIDE DEF K
  <2> QED BY ONLY <1>1, <2>1, PartSumRemove
<1>3. PartSum(bytes, {}) = 0
  <2> HIDE DEF K
  <2> QED BY ONLY <1>1, PartSums
<1>4. K \ {"a"} = {"b"} /\ {"b"} \ {"b"} = {} /\ bytes["a"] \in Nat /\ bytes["b"] \in Nat
  OBVIOUS
<1>5. PartSum(bytes, K) = bytes["a"] + bytes["b"]
  <2>1. PartSum(bytes, K \ {"a"}) = bytes["b"] + 0
    BY ONLY <1>2, <1>3, K \ {"a"} = {"b"}, {"b"} \ {"b"} = {}
  <2> HIDE DEF K
  <2> QED BY <1>2, <1>4, <2>1
<1>6. bytes = [c \in K |-> bytes[c]]
  OBVIOUS
<1> HIDE DEF K
<1>7. SumFunction(bytes) = bytes["a"] + bytes["b"]
  BY <1>5, <1>6 DEF PartSum
<1>8. C \in SUBSET K /\ \A c \in C : bytes[c] \in Nat
  BY DEF K
<1>9. PartSum(bytes, C) <= SumFunction(bytes)
  BY ONLY <1>1, <1>8, PartWithin
<1>10. IsFiniteSet(C)
  BY <1>1, <1>8, FS_Subset
<1> QED BY <1>7, <1>8, <1>9, <1>10 DEF PartSum, SumOf

LEMMA EstimateFacts ==
    ASSUME NEW c \in EstimateCalls, "typo" \notin c.columns
    PROVE  FilesHold(c.files, c.columns) /\ (c.files # <<>> => Len(c.files) # 0)
<1> DEFINE files == c.files
           C == c.columns
           File == {f \in [size : {1, 4}, bytes : [{"a", "b"} -> 0..2]] :
                        f.bytes["a"] + f.bytes["b"] <= f.size}
<1>1. C \in SUBSET {"a", "b"} /\ files \in UNION {[1..n -> File] : n \in 0..Budget + 1}
  BY DEF EstimateCalls
<1>2. Budget + 1 \in Nat
  BY QueriesAssumption
<1> HIDE DEF File
<1>3. files \in Seq(File) /\ IsFiniteSet(DOMAIN files)
  <2> DEFINE hi == Budget + 1
  <2> HIDE DEF hi, files
  <2>1. hi \in Nat /\ files \in UNION {[1..n -> File] : n \in 0..hi}
    BY <1>1, <1>2 DEF hi
  <2> QED BY <2>1, RowsAreSeq
<1>4. Len(files) \in Nat /\ DOMAIN files = 1..Len(files) /\ (Len(files) = 0 => files = <<>>)
  <2> HIDE DEF files
  <2> QED BY <1>3, LenProperties, EmptySeq
<1>5. ASSUME NEW i \in DOMAIN files
      PROVE  /\ files[i].size \in Nat /\ files[i].bytes \in [{"a", "b"} -> 0..2]
             /\ files[i].bytes["a"] + files[i].bytes["b"] <= files[i].size
  <2>1. files[i] \in File
    BY <1>3, <1>4
  <2> QED BY <2>1 DEF File
<1>6. ASSUME NEW i \in DOMAIN files
      PROVE  /\ files[i].size \in Nat /\ \A d \in C : files[i].bytes[d] \in Nat
             /\ SumOf(C, LAMBDA d : files[i].bytes[d]) <= files[i].size
  <2> DEFINE bytes == files[i].bytes
  <2>1. bytes["a"] + bytes["b"] <= files[i].size /\ files[i].size \in Nat
        /\ bytes["a"] \in Nat /\ bytes["b"] \in Nat /\ bytes \in [{"a", "b"} -> 0..2]
    BY <1>5
  <2> HIDE DEF bytes, C
  <2>2. /\ \A d \in C : bytes[d] \in Nat
        /\ SumOf(C, LAMBDA d : bytes[d]) <= bytes["a"] + bytes["b"]
    BY <1>1, <2>1, PairHeld
  <2>3. SumOf(C, LAMBDA d : bytes[d]) \in Nat
    <3> DEFINE held == [d \in C |-> bytes[d]]
    <3>1. held \in [C -> Nat] /\ IsFiniteSet(C)
      BY <1>1, <2>1, <2>2, PairHeld
    <3> HIDE DEF held
    <3>2. SumFunction(held) \in Nat
      BY <3>1, SumFacts
    <3> QED BY <3>2 DEF SumOf, held
  <2> QED BY <2>1, <2>2, <2>3 DEF bytes
<1>7. IsFiniteSet(C)
  BY <1>1, TwoColumns, FS_Subset
<1> QED BY <1>3, <1>4, <1>6, <1>7 DEF FilesHold

LEMMA QueryWeights == QueryIInv => WeightsAreHonest
<1> SUFFICES ASSUME QueryIInv, Answered("estimate"), ~IsRefused(answer) PROVE WeightsAreHonest
  BY DEF WeightsAreHonest
<1> DEFINE files == call.files
           C == call.columns
           n == Len(files)
           S == DOMAIN files
           size == [i \in S |-> files[i].size]
           total == SumOf(S, LAMBDA i : files[i].size)
           all == SumOf(S, LAMBDA i : SumOf(C, LAMBDA c : files[i].bytes[c]))
           w == SumOf(C, LAMBDA c : Weight(files, c))
<1>1. /\ call \in EstimateCalls
      /\ answer = IF "typo" \in C THEN Refuse(400) ELSE ScanEstimate(files, C)
  BY QueryCallFacts DEF Answered, QueryIInv
<1>2. "typo" \notin C
  BY <1>1 DEF Refuse, IsRefused
<1>3. FilesHold(files, C) /\ (files # <<>> => n # 0)
  BY <1>1, <1>2, EstimateFacts
<1>4. /\ answer.bytes = w /\ answer.floor = Floor(files, w) /\ answer.sampled = (n > Budget)
  BY <1>1, <1>2 DEF ScanEstimate
<1>5. w \in Nat /\ total \in Nat /\ w <= total /\ (n <= Budget => w = all)
  <2> HIDE DEF files, C
  <2> QED BY ONLY <1>3, WeighedFacts DEF SumOf
<1>6. n \in Nat /\ S = 1..n /\ \A i \in S : files[i].size \in Nat
  BY <1>3 DEF FilesHold
<1>7. Budget \in Nat /\ Overhead \in Nat
  BY QueriesAssumption
<1>8. total = SumFunction(size)
  BY DEF SumOf
<1> HIDE DEF w, total, all, n
<1>9. ~answer.sampled => answer.bytes = all
  <2>1. ~(n > Budget) => n <= Budget
    BY <1>6, <1>7
  <2> HIDE DEF files, C
  <2> QED BY ONLY <1>4, <1>5, <2>1
<1>10. ASSUME files # <<>>
       PROVE  /\ answer.floor <= total
              /\ (\A i, j \in S : files[i] = files[j]) => w <= answer.floor
  <2> DEFINE over == n * Overhead
             sum == SumFunction([i \in 1..n |-> Lesser(n * size[i], w + over)])
  <2>1. n \in Nat \ {0} /\ over \in Nat /\ size \in [1..n -> Nat] /\ w <= SumFunction(size)
    BY <1>3, <1>5, <1>6, <1>7, <1>8, <1>10
  <2>2. answer.floor = sum \div n
    <3>1. [i \in S |-> Lesser(n * files[i].size, w + n * Overhead)]
              = [i \in 1..n |-> Lesser(n * size[i], w + over)]
      BY <1>6
    <3> QED BY <1>4, <2>1, <3>1 DEF Floor, SumOf, n
  <2>3. (\A i, j \in S : files[i] = files[j]) => \A i \in 1..n : size[i] = size[1]
    BY <1>6, <2>1
  <2> HIDE DEF size, over
  <2>4. /\ sum \div n <= SumFunction(size)
        /\ (\A i \in 1..n : size[i] = size[1]) => w <= sum \div n
    BY ONLY <1>5, <2>1, FloorWithin
  <2> QED BY <1>8, <2>2, <2>3, <2>4
<1> QED BY <1>4, <1>5, <1>9, <1>10 DEF WeightsAreHonest, total, all, n

--------------------------------------------------------------------------
(* Values and pages. *)

\* How long a page is.
PageLength(l, offset, n) == IF offset >= l THEN 0 ELSE Lesser(n, l - offset)

\* A page is what is behind the offset, as much of it as was asked for and is there.
LEMMA PageFacts ==
    ASSUME NEW P, NEW s \in Seq(P), NEW offset \in Nat, NEW n \in Nat
    PROVE  /\ Page(s, offset, n) \in Seq(P)
           /\ Len(Page(s, offset, n)) = PageLength(Len(s), offset, n)
           /\ PageLength(Len(s), offset, n) \in Nat
           /\ DOMAIN Page(s, offset, n) = 1..PageLength(Len(s), offset, n)
           /\ \A i \in 1..PageLength(Len(s), offset, n) :
                 Page(s, offset, n)[i] = s[offset + i] /\ offset + i \in DOMAIN s
<1> DEFINE hi == Lesser(offset + n, Len(s))
           p == SubSeq(s, offset + 1, hi)
           l == PageLength(Len(s), offset, n)
<1>1. Len(s) \in Nat /\ DOMAIN s = 1..Len(s) /\ (\A i \in 1..Len(s) : s[i] \in P)
  BY LenProperties
<1>2. hi \in Nat /\ hi <= Len(s) /\ l \in Nat /\ (IF offset + 1 <= hi THEN hi - (offset + 1) + 1 ELSE 0) = l
      /\ (l > 0 => hi = offset + l)
  BY <1>1 DEF Lesser, PageLength
<1>3. Page(s, offset, n) = p
  BY DEF Page
<1>4. \A i \in offset + 1 .. hi : s[i] \in P
  <2> HIDE DEF hi
  <2> QED BY <1>1, <1>2
<1> HIDE DEF hi
<1>5. /\ p \in Seq(P) /\ Len(p) = (IF offset + 1 <= hi THEN hi - (offset + 1) + 1 ELSE 0)
      /\ \A i \in 1 .. hi - (offset + 1) + 1 : p[i] = s[(offset + 1) + i - 1]
  <2>1. offset + 1 \in Int /\ hi \in Int
    BY <1>2
  <2> QED BY <1>4, <2>1, SubSeqProperties
<1> HIDE DEF p, l
<1>6. Len(p) = l /\ DOMAIN p = 1..l
  BY <1>2, <1>5, LenProperties
<1>7. ASSUME NEW i \in 1..l PROVE p[i] = s[offset + i] /\ offset + i \in 1..Len(s)
  <2>1. /\ i \in 1 .. hi - (offset + 1) + 1 /\ (offset + 1) + i - 1 = offset + i
        /\ offset + i \in 1..Len(s)
    BY <1>1, <1>2
  <2> QED BY <1>5, <2>1
<1> QED BY <1>1, <1>2, <1>3, <1>5, <1>6, <1>7 DEF l

\* A window holds values that are there, and the whole of it where it is wide enough.
LEMMA WindowFacts ==
    ASSUME NEW values, NEW l \in Nat, DOMAIN values = 1..l, NEW offset \in Nat, NEW n \in Nat
    PROVE  /\ Window(values, offset, n) \subseteq ToSet(values) \ {NoValue}
           /\ \A i \in 1..l : offset < i /\ i <= offset + n /\ values[i] # NoValue
                  => values[i] \in Window(values, offset, n)
BY DEF Window, ToSet

LEMMA FacetFacts ==
    ASSUME NEW V, NEW values \in Seq(V), ~IsRefused(FacetValues(values))
    PROVE  LET real == ToSet(values) \ {NoValue}
               facet == FacetValues(values)
           IN  /\ facet.found \subseteq real
               /\ facet.complete \in BOOLEAN /\ (facet.complete => facet.found = real)
               /\ facet.found # {} =>
                      {Head(values), Last(values)} \ {NoValue} \subseteq facet.found
<1> DEFINE real == ToSet(values) \ {NoValue}
           facet == FacetValues(values)
           rows == Len(values)
           w == Sampled \div 3
           middle == Greater(0, rows \div 2 - w \div 2)
           last == Greater(0, rows - w)
           seen == Window(values, 0, w) \cup Window(values, middle, w) \cup Window(values, last, w)
<1>1. rows \in Nat /\ DOMAIN values = 1..rows
  BY LenProperties
<1>2. Sampled \in Nat /\ w \in Nat \ {0} /\ w <= Sampled
  <2>1. Sampled \in Nat /\ Sampled >= 3
    BY QueriesAssumption
  <2> QED BY ONLY <2>1
<1>3. \/ rows <= Sampled /\ facet = [found |-> real, complete |-> TRUE]
      \/ rows > Sampled /\ facet = [found |-> seen, complete |-> FALSE]
  <2> DEFINE short == ShortList(real)
             few == ShortList(Window(values, 0, w)) /\ ShortList(seen)
             probed == ShortList(Window(values, 0, Probe))
  <2>1. FacetValues(values) = IF ~probed THEN Refuse("not_a_facet")
                              ELSE IF rows <= Sampled THEN
                                   IF short THEN [found |-> real, complete |-> TRUE]
                                   ELSE Refuse("not_a_facet")
                              ELSE IF few THEN [found |-> seen, complete |-> FALSE]
                              ELSE Refuse("not_a_facet")
    BY DEF FacetValues
  <2>2. IsRefused(Refuse("not_a_facet"))
    BY DEF IsRefused, Refuse
  <2>3. rows <= Sampled \/ rows > Sampled
    BY <1>1, <1>2
  <2> HIDE DEF short, few, probed, real, seen, rows
  <2> QED BY <2>1, <2>2, <2>3
<1>4. middle \in Nat /\ last \in Nat /\ (rows > Sampled => last = rows - w)
  <2>1. middle \in Nat
    <3>1. rows \div 2 - w \div 2 \in Int
      BY <1>1, <1>2
    <3> QED BY <3>1 DEF Greater
  <2> HIDE DEF w, rows
  <2> QED BY <1>1, <1>2, <2>1 DEF Greater
<1>5. seen \subseteq real
  <2> HIDE DEF middle, last, w, rows
  <2> QED BY <1>1, <1>2, <1>4, WindowFacts
<1>6. rows # 0 => Head(values) = values[1] /\ Last(values) = values[rows]
  BY DEF Last
<1>7. rows = 0 => real = {}
  BY <1>1 DEF ToSet
<1>8. rows # 0 => {values[1], values[rows]} \ {NoValue} \subseteq real
  BY <1>1 DEF ToSet
<1>9. ASSUME rows > Sampled PROVE {values[1], values[rows]} \ {NoValue} \subseteq seen
  <2>1. /\ 1 \in 1..rows /\ rows \in 1..rows /\ 0 < 1 /\ 1 <= 0 + w
        /\ last < rows /\ rows <= last + w /\ 0 \in Nat
    BY <1>1, <1>2, <1>4, <1>9
  <2> HIDE DEF middle, last, w, rows
  <2>2. values[1] # NoValue => values[1] \in Window(values, 0, w)
    BY <1>1, <1>2, <2>1, WindowFacts
  <2>3. values[rows] # NoValue => values[rows] \in Window(values, last, w)
    BY <1>1, <1>2, <1>4, <2>1, WindowFacts
  <2> QED BY <2>2, <2>3
<1> HIDE DEF real, seen, rows
<1>10. CASE rows <= Sampled /\ facet = [found |-> real, complete |-> TRUE]
  BY <1>6, <1>7, <1>8, <1>10 DEF real
<1>11. CASE rows > Sampled /\ facet = [found |-> seen, complete |-> FALSE]
  <2>1. rows # 0
    BY <1>1, <1>2, <1>11
  <2> QED BY <1>5, <1>6, <1>9, <1>11, <2>1 DEF real
<1> QED BY <1>3, <1>10, <1>11

\* What a filter box is told of a column.
LEMMA CompletionFacts ==
    ASSUME NEW V, NEW kind \in {"string", "vector", "blob_v2", "binary"}, NEW values \in Seq(V),
           NEW asked \in BOOLEAN
    PROVE  LET real == ToSet(values) \ {NoValue}
               c == Completion(kind, values, asked)
           IN  /\ c.found \subseteq real /\ (c.complete => c.found = real)
               /\ c.found # {} => /\ c.filterable /\ asked
                                  /\ {Head(values), Last(values)} \ {NoValue} \subseteq c.found
<1> DEFINE real == ToSet(values) \ {NoValue}
           ends == {Head(values), Last(values)} \ {NoValue}
           facet == IF kind = "string" /\ asked THEN FacetValues(values) ELSE Refuse("not_asked")
           A == ~(Heavy(kind) \/ kind = "blob_v2")
           B == IF IsRefused(facet) THEN {} ELSE facet.found
           C == ~IsRefused(facet) /\ facet.complete
           c == Completion(kind, values, asked)
<1>1. c = [filterable |-> A, found |-> B, complete |-> C]
  BY DEF Completion
<1>2. c.filterable = A /\ c.found = B /\ c.complete = C
  <2> HIDE DEF A, B, C, c
  <2> QED BY <1>1
<1>3. kind = "string" => A
  BY DEF Heavy
<1>4. ASSUME ~IsRefused(facet)
      PROVE  /\ kind = "string" /\ asked
             /\ facet.found \subseteq real /\ (facet.complete => facet.found = real)
             /\ facet.found # {} => ends \subseteq facet.found
  <2>1. IsRefused(Refuse("not_asked"))
    BY DEF IsRefused, Refuse
  <2>2. kind = "string" /\ asked /\ facet = FacetValues(values)
    BY <1>4, <2>1
  <2>3. ~IsRefused(FacetValues(values))
    BY <1>4, <2>2
  <2> HIDE DEF facet
  <2> QED BY <2>2, <2>3, FacetFacts
<1> HIDE DEF A, facet, c, real, ends
<1>5. /\ c.found \subseteq real /\ (c.complete => c.found = real)
      /\ c.found # {} => c.filterable /\ asked /\ ends \subseteq c.found
  <2>1. CASE IsRefused(facet)
    BY <1>2, <2>1
  <2>2. CASE ~IsRefused(facet)
    BY <1>2, <1>3, <1>4, <2>2
  <2> QED BY <2>1, <2>2
<1> QED BY <1>5 DEF c, real, ends

\* The pages of what is at most three rows long are, together, all of it.
LEMMA PagesTogether ==
    ASSUME NEW m \in 0..3, NEW size \in Nat \ {0}
    PROVE  SumOf({i * size : i \in 0..3}, LAMBDA o : PageLength(m, o, size)) = m
<1> DEFINE K == {i * size : i \in 0..3}
           v == [o \in K |-> PageLength(m, o, size)]
           a == size
           b == 2 * size
           c == 3 * size
<1>1. K = {0, a, b, c}
  <2>1. 0 * size = 0 /\ 1 * size = a /\ 0..3 = {0, 1, 2, 3}
    OBVIOUS
  <2> QED BY <2>1
<1>2. 0 < a /\ a < b /\ b < c /\ a \in Nat /\ b \in Nat /\ c \in Nat
  OBVIOUS
<1>3. IsFiniteSet(K)
  <2>1. IsFiniteSet({}) /\ IsFiniteSet({} \cup {0})
    BY FS_EmptySet, FS_AddElement
  <2>2. IsFiniteSet((({} \cup {0}) \cup {a}) \cup {b})
    BY <2>1, FS_AddElement
  <2>3. IsFiniteSet(((({} \cup {0}) \cup {a}) \cup {b}) \cup {c})
    BY <2>2, FS_AddElement
  <2>4. K = ((({} \cup {0}) \cup {a}) \cup {b}) \cup {c}
    BY <1>1
  <2> QED BY <2>3, <2>4
<1>4. v \in [K -> Nat]
  <2>1. \A o \in Nat : PageLength(m, o, size) \in Nat
    BY DEF PageLength, Lesser
  <2>2. \A o \in K : o \in Nat
    BY <1>1, <1>2
  <2> QED BY <2>1, <2>2
<1>5. v[0] = PageLength(m, 0, size) /\ v[a] = PageLength(m, a, size)
      /\ v[b] = PageLength(m, b, size) /\ v[c] = PageLength(m, c, size)
  BY <1>1
<1>6. PageLength(m, 0, size) + PageLength(m, a, size) + PageLength(m, b, size)
          + PageLength(m, c, size) = m
  BY DEF PageLength, Lesser
<1> HIDE DEF v, a, b, c
<1>7. /\ PartSum(v, K) = v[0] + PartSum(v, K \ {0})
      /\ PartSum(v, {a, b, c}) = v[a] + PartSum(v, {a, b, c} \ {a})
      /\ PartSum(v, {b, c}) = v[b] + PartSum(v, {b, c} \ {b})
      /\ PartSum(v, {c}) = v[c] + PartSum(v, {c} \ {c})
  <2> DEFINE K1 == {a, b, c}
             K2 == {b, c}
             K3 == {c}
  <2>1. /\ K \in SUBSET K /\ K1 \in SUBSET K /\ K2 \in SUBSET K /\ K3 \in SUBSET K
        /\ 0 \in K /\ a \in K1 /\ b \in K2 /\ c \in K3
    BY <1>1
  <2> HIDE DEF K, K1, K2, K3
  <2>2. /\ PartSum(v, K) = v[0] + PartSum(v, K \ {0})
        /\ PartSum(v, K1) = v[a] + PartSum(v, K1 \ {a})
        /\ PartSum(v, K2) = v[b] + PartSum(v, K2 \ {b})
        /\ PartSum(v, K3) = v[c] + PartSum(v, K3 \ {c})
    BY ONLY <1>3, <1>4, <2>1, PartSumRemove
  <2> QED BY <2>2 DEF K1, K2, K3
<1>8. K \ {0} = {a, b, c} /\ {a, b, c} \ {a} = {b, c} /\ {b, c} \ {b} = {c} /\ {c} \ {c} = {}
  <2> HIDE DEF K
  <2> QED BY <1>1, <1>2
<1>9. PartSum(v, {}) = 0
  BY <1>3, <1>4, PartSums
<1>10. v[0] \in Nat /\ v[a] \in Nat /\ v[b] \in Nat /\ v[c] \in Nat
  BY <1>1, <1>4
<1>11. v = [o \in K |-> v[o]]
  BY DEF v
<1> HIDE DEF K
<1>12. PartSum(v, K) = v[0] + v[a] + v[b] + v[c]
  <2>1. PartSum(v, {c}) = v[c]
    BY ONLY <1>7, <1>8, <1>9, <1>10
  <2>2. PartSum(v, {b, c}) = v[b] + v[c]
    BY ONLY <1>7, <1>8, <2>1
  <2>3. PartSum(v, {a, b, c}) = v[a] + (v[b] + v[c])
    BY ONLY <1>7, <1>8, <2>2
  <2>4. PartSum(v, K) = v[0] + (v[a] + (v[b] + v[c]))
    BY ONLY <1>7, <1>8, <2>3
  <2> QED BY ONLY <1>10, <2>4
<1>13. SumFunction(v) = m
  BY <1>5, <1>6, <1>11, <1>12 DEF PartSum
<1> QED BY <1>13 DEF SumOf, v, K

\* What a search is made of, before its numbers are put in their bounds.
IsSearch(spec) ==
    /\ {"mode", "limit", "offset", "k", "prefilter", "filter"} \subseteq DOMAIN spec
    /\ spec = [f \in DOMAIN spec |-> spec[f]]
    /\ spec.limit \in Nat /\ spec.offset \in Nat /\ spec.k \in Nat
    /\ spec.prefilter \in BOOLEAN /\ spec.filter \in SUBSET Row

\* Only the two numbers change, and to what is within their bounds.
LEMMA NormalisedFacts ==
    ASSUME NEW spec, IsSearch(spec), NEW n, n = Normalised(spec)
    PROVE  /\ IsSearch(n) /\ DOMAIN n = DOMAIN spec
           /\ n.limit = Greater(1, Lesser(spec.limit, MaxLimit)) /\ n.k = Greater(1, Lesser(spec.k, MaxLimit))
           /\ n.limit \in 1..MaxLimit /\ n.k \in 1..MaxLimit
           /\ \A f \in DOMAIN spec : f # "limit" /\ f # "k" => n[f] = spec[f]
<1> DEFINE D == DOMAIN spec
<1>1. MaxLimit \in Nat \ {0}
  BY QueriesAssumption
<1>2. /\ {"mode", "limit", "offset", "k", "prefilter", "filter"} \subseteq D
      /\ spec = [f \in D |-> spec[f]]
      /\ spec.limit \in Nat /\ spec.offset \in Nat /\ spec.k \in Nat
      /\ spec.prefilter \in BOOLEAN /\ spec.filter \in SUBSET Row
  BY DEF IsSearch
<1>3. \A x \in Nat : Greater(1, Lesser(x, MaxLimit)) \in 1..MaxLimit
  BY <1>1 DEF Greater, Lesser
<1>4. n = [[spec EXCEPT !.limit = Greater(1, Lesser(spec.limit, MaxLimit))]
               EXCEPT !.k = Greater(1, Lesser(spec.k, MaxLimit))]
  BY <1>2 DEF Normalised
<1> DEFINE a == Greater(1, Lesser(spec.limit, MaxLimit))
           b == Greater(1, Lesser(spec.k, MaxLimit))
<1> HIDE DEF D
<1>5. /\ DOMAIN n = D /\ n = [f \in D |-> n[f]] /\ n.limit = a /\ n.k = b
      /\ \A f \in D : f # "limit" /\ f # "k" => n[f] = spec[f]
  <2> HIDE DEF a, b
  <2>1. n = [f \in D |-> IF f = "k" THEN b ELSE IF f = "limit" THEN a ELSE spec[f]]
    BY <1>2, <1>4 DEF a, b, D
  <2> QED BY <1>2, <2>1
<1>6. a \in 1..MaxLimit /\ b \in 1..MaxLimit
  BY <1>2, <1>3
<1> HIDE DEF a, b
<1>7. a \in Nat /\ b \in Nat
  BY <1>1, <1>6
<1>8. /\ n.offset = spec.offset /\ n.prefilter = spec.prefilter /\ n.filter = spec.filter
  BY <1>2, <1>5
<1>9. IsSearch(n)
  BY <1>2, <1>5, <1>7, <1>8 DEF IsSearch
<1> QED BY <1>5, <1>6, <1>9 DEF a, b, D

LEMMA RowCount == Row = 1..3 /\ IsFiniteSet(Row) /\ Cardinality(Row) = 3
<1> DEFINE lo == 1
           hi == 3
<1>1. lo \in Int /\ hi \in Int
  OBVIOUS
<1> HIDE DEF lo, hi
<1>2. IsFiniteSet(lo..hi) /\ Cardinality(lo..hi) = IF lo > hi THEN 0 ELSE hi - lo + 1
  BY ONLY <1>1, FS_Interval
<1>3. IsFiniteSet(1..3) /\ Cardinality(1..3) = 3
  BY ONLY <1>2 DEF lo, hi
<1> QED BY <1>3 DEF Row

\* The rows that match, as they lie.
LEMMA LyingFacts ==
    ASSUME NEW F \in SUBSET Row
    PROVE  LET lying == [r \in Row |-> r]
           IN  /\ {i \in DOMAIN lying : lying[i] \in F} = F
               /\ F \in SUBSET Nat /\ IsFiniteSet(F) /\ Cardinality(F) \in 0..3
               /\ At(lying, F) \in Seq(Row) /\ Len(At(lying, F)) = Cardinality(F)
<1> DEFINE lying == [r \in Row |-> r]
<1>1. Row = 1..3 /\ IsFiniteSet(Row) /\ Cardinality(Row) = 3
  BY RowCount
<1>2. F \in SUBSET Nat
  BY <1>1
<1>3. IsFiniteSet(F) /\ Cardinality(F) \in Nat /\ Cardinality(F) <= 3
  <2>1. IsFiniteSet(Row) /\ F \in SUBSET Row
    BY <1>1
  <2>2. IsFiniteSet(F) /\ Cardinality(F) \in Nat /\ Cardinality(F) <= Cardinality(Row)
    BY ONLY <2>1, CountFacts
  <2> QED BY <1>1, <2>2
<1>4. {i \in DOMAIN lying : lying[i] \in F} = F /\ \A i \in F : lying[i] \in Row
  OBVIOUS
<1> HIDE DEF lying
<1>5. At(lying, F) \in Seq(Row) /\ Len(At(lying, F)) = Cardinality(F)
  BY <1>2, <1>3, <1>4, AtSeq
<1>6. Cardinality(F) \in 0..3
  BY <1>3
<1> QED BY ONLY <1>2, <1>3, <1>4, <1>5, <1>6 DEF lying

\* A scan of the rows is a page of those that match.
LEMMA ScanRows ==
    ASSUME NEW spec, IsSearch(spec), spec.mode = "scan", NEW indices
    PROVE  LET n == Normalised(spec)
               done == Run(spec, indices)
           IN  /\ done.rows = Page(At([r \in Row |-> r], spec.filter), spec.offset, n.limit)
               /\ Len(done.rows) = PageLength(Cardinality(spec.filter), spec.offset, n.limit)
               /\ done.truncated = (spec.offset + Len(done.rows) < Cardinality(spec.filter))
<1> DEFINE n == Normalised(spec)
           lying == [r \in Row |-> r]
           match == At(lying, spec.filter)
           rows == Page(match, spec.offset, n.limit)
<1>1. /\ IsSearch(n) /\ n.mode = "scan" /\ n.offset = spec.offset /\ n.filter = spec.filter
      /\ n.limit \in Nat
  <2>1. /\ IsSearch(n) /\ \A f \in DOMAIN spec : f # "limit" /\ f # "k" => n[f] = spec[f]
    <3> HIDE DEF n
    <3> QED BY NormalisedFacts DEF n
  <2> HIDE DEF n
  <2> QED BY <2>1 DEF IsSearch
<1>2. spec.filter \in SUBSET Row /\ spec.offset \in Nat
  BY DEF IsSearch
<1>3. /\ {i \in DOMAIN lying : lying[i] \in spec.filter} = spec.filter
      /\ match \in Seq(Row) /\ Len(match) = Cardinality(spec.filter)
  BY <1>2, LyingFacts
<1>4. Len(rows) = PageLength(Cardinality(spec.filter), spec.offset, n.limit)
  <2> DEFINE l == n.limit
             o == spec.offset
             m == Cardinality(spec.filter)
  <2>1. match \in Seq(Row) /\ l \in Nat /\ o \in Nat /\ Len(match) = m
    BY <1>1, <1>2, <1>3
  <2> HIDE DEF match, n, l, o, m
  <2>2. Len(Page(match, o, l)) = PageLength(m, o, l)
    BY ONLY <2>1, PageFacts
  <2> QED BY ONLY <2>2 DEF l, o, m
<1> HIDE DEF n
<1>5. Leg(n) = rows
  <2> HIDE DEF lying
  <2>1. Leg(n) = Scan("scan", n, lying)
    BY <1>1 DEF Leg, lying
  <2>2. Scan("scan", n, lying) = Page(At(lying, {i \in DOMAIN lying : lying[i] \in n.filter}), n.offset, n.limit)
    BY DEF Scan
  <2>3. {i \in DOMAIN lying : lying[i] \in n.filter} = spec.filter
    BY <1>1, <1>3
  <2> QED BY ONLY <1>1, <2>1, <2>2, <2>3 DEF rows, match
<1>6. Run(spec, indices)
        = [rows |-> rows, truncated |-> n.mode = "scan" /\ n.offset + Len(rows) < Cardinality(n.filter)]
  <2>1. Running(spec, indices) = n
    BY <1>1 DEF Running, Ranked, n
  <2> QED BY <1>1, <1>5, <2>1 DEF Run
<1> DEFINE cut == n.mode = "scan" /\ n.offset + Len(rows) < Cardinality(n.filter)
<1>7. Run(spec, indices).rows = rows /\ Run(spec, indices).truncated = cut
  <2> HIDE DEF rows, cut
  <2> QED BY <1>6 DEF cut
<1>8. cut = (spec.offset + Len(rows) < Cardinality(spec.filter))
  BY <1>1
<1> HIDE DEF rows, cut
<1> QED BY <1>4, <1>7, <1>8 DEF rows, n

LEMMA QueryValues == QueryIInv => ValuesAreReal
<1> SUFFICES ASSUME QueryIInv PROVE ValuesAreReal
  OBVIOUS
<1>1. ASSUME Answered("facets")
      PROVE  LET real == ToSet(call.values) \ {NoValue}
             IN  /\ answer.found \subseteq real
                 /\ answer.complete => answer.found = real
                 /\ answer.found # {} => /\ answer.filterable /\ call.asked
                                         /\ {Head(call.values), Last(call.values)} \ {NoValue}
                                               \subseteq answer.found
  <2>1. call \in FacetCalls /\ answer = Completion(call.kind, call.values, call.asked)
    BY <1>1, QueryCallFacts DEF Answered, QueryIInv
  <2> DEFINE V == {NoValue, "x", "y", "z"}
             hi == Sampled + 1
             values == call.values
  <2>2. /\ call.kind \in {"string", "vector", "blob_v2", "binary"} /\ call.asked \in BOOLEAN
        /\ values \in UNION {[1..n -> V] : n \in 0..hi}
    BY <2>1 DEF FacetCalls
  <2>3. values \in Seq(V)
    <3>1. hi \in Nat
      BY QueriesAssumption
    <3> HIDE DEF values, hi, V
    <3> QED BY <2>2, <3>1, RowsAreSeq
  <2> HIDE DEF V
  <2> QED BY <2>1, <2>2, <2>3, CompletionFacts
<1>2. ASSUME Answered("validate"), call.text = "good"
      PROVE  LET Turned(offset) == Run([mode |-> "scan", limit |-> MaxLimit, offset |-> offset, k |-> 1,
                                        prefilter |-> TRUE, filter |-> call.filter], <<>>).rows
             IN  answer.matched = SumOf({i * MaxLimit : i \in 0..Cardinality(Row)},
                                        LAMBDA o : Len(Turned(o)))
  <2>1. call \in ValidateCalls /\ answer = Validate("good", call.filter)
    BY <1>2, QueryCallFacts DEF Answered, QueryIInv
  <2> DEFINE F == call.filter
             m == Cardinality(F)
             Spec0(o) == [mode |-> "scan", limit |-> MaxLimit, offset |-> o, k |-> 1,
                          prefilter |-> TRUE, filter |-> F]
             K == {i * MaxLimit : i \in 0..3}
  <2>2. F \in SUBSET Row /\ answer.matched = m
    <3>1. F \in SUBSET Row
      BY <2>1 DEF ValidateCalls
    <3> HIDE DEF F
    <3> QED BY <2>1, <3>1 DEF Validate, F
  <2>3. m \in 0..3
    BY <2>2, LyingFacts
  <2>4. MaxLimit \in Nat \ {0}
    BY QueriesAssumption
  <2> HIDE DEF F
  <2>5. ASSUME NEW o \in Nat PROVE Len(Run(Spec0(o), <<>>).rows) = PageLength(m, o, MaxLimit)
    <3> DEFINE s == Spec0(o)
    <3>1. IsSearch(s) /\ s.mode = "scan"
      BY <2>2, <2>4 DEF IsSearch
    <3>2. s.filter = F /\ s.offset = o /\ s.limit = MaxLimit
      OBVIOUS
    <3> HIDE DEF s
    <3>3. Normalised(s).limit = MaxLimit
      <4>1. Normalised(s).limit = Greater(1, Lesser(s.limit, MaxLimit))
        BY <3>1, NormalisedFacts
      <4> QED BY <2>4, <3>2, <4>1 DEF Greater, Lesser
    <3>4. Len(Run(s, <<>>).rows) = PageLength(Cardinality(s.filter), s.offset, Normalised(s).limit)
      BY ONLY <3>1, ScanRows
    <3>5. Len(Run(s, <<>>).rows) = PageLength(m, o, MaxLimit)
      BY ONLY <3>2, <3>3, <3>4
    <3> QED BY <3>5 DEF s
  <2>6. Cardinality(Row) = 3
    BY RowCount
  <2>7. \A o \in K : o \in Nat
    BY <2>4
  <2> HIDE DEF m, K
  <2>8. SumOf(K, LAMBDA o : Len(Run(Spec0(o), <<>>).rows)) = SumOf(K, LAMBDA o : PageLength(m, o, MaxLimit))
    <3>1. [o \in K |-> Len(Run(Spec0(o), <<>>).rows)] = [o \in K |-> PageLength(m, o, MaxLimit)]
      BY <2>5, <2>7
    <3> QED BY <3>1 DEF SumOf
  <2>9. SumOf(K, LAMBDA o : PageLength(m, o, MaxLimit)) = m
    BY <2>3, <2>4, PagesTogether DEF K, SumOf
  <2> QED BY <2>2, <2>6, <2>8, <2>9 DEF K, F
<1> QED BY <1>1, <1>2 DEF ValuesAreReal

--------------------------------------------------------------------------
(* The rows of an answer. *)

\* Rows in an order, each of them once.
Ranking(s) == s \in Seq(Row) /\ IsInjective(s)

LEMMA RankingFacts ==
    ASSUME NEW s, Ranking(s)
    PROVE  /\ Len(s) \in Nat /\ DOMAIN s = 1..Len(s) /\ \A i \in DOMAIN s : s[i] \in Row
           /\ \A i \in DOMAIN s : s[i] \in ToSet(s) /\ RankIn(s, s[i]) = i
           /\ \A r \in ToSet(s) : RankIn(s, r) \in DOMAIN s /\ s[RankIn(s, r)] = r
           /\ \A r : r \notin ToSet(s) => RankIn(s, r) = 0
           /\ \A r : RankIn(s, r) \in Nat /\ (RankIn(s, r) = 0 => r \notin ToSet(s))
<1>1. s \in Seq(Row) /\ \A i, j \in DOMAIN s : s[i] = s[j] => i = j
  BY DEF Ranking, IsInjective
<1>2. Len(s) \in Nat /\ DOMAIN s = 1..Len(s) /\ \A i \in DOMAIN s : s[i] \in Row
  BY <1>1, LenProperties
<1>3. ASSUME NEW r \in ToSet(s) PROVE RankIn(s, r) \in DOMAIN s /\ s[RankIn(s, r)] = r
  <2> DEFINE i == CHOOSE i \in DOMAIN s : s[i] = r
  <2>1. i \in DOMAIN s /\ s[i] = r
    BY <1>3 DEF ToSet
  <2>2. RankIn(s, r) = i
    BY <1>3 DEF RankIn
  <2> QED BY <2>1, <2>2
<1>4. \A i \in DOMAIN s : s[i] \in ToSet(s)
  BY DEF ToSet
<1>5. \A i \in DOMAIN s : RankIn(s, s[i]) = i
  BY <1>1, <1>3, <1>4
<1>6. \A r : r \notin ToSet(s) => RankIn(s, r) = 0
  BY DEF RankIn
<1>7. ASSUME NEW r PROVE RankIn(s, r) \in Nat /\ (RankIn(s, r) = 0 => r \notin ToSet(s))
  <2>1. CASE r \in ToSet(s)
    BY <1>2, <1>3, <2>1
  <2>2. CASE r \notin ToSet(s)
    BY <1>6, <2>2
  <2> QED BY <2>1, <2>2
<1> QED BY <1>2, <1>3, <1>4, <1>5, <1>6, <1>7

\* What the rows of F are ahead of in s they are ahead of in m, if it is there at all.
Leads(s, m, F) ==
    /\ ToSet(m) \subseteq ToSet(s)
    /\ \A t \in ToSet(m) : \A r \in ToSet(s) \cap F :
          RankIn(s, r) < RankIn(s, t) => r \in ToSet(m) /\ RankIn(m, r) < RankIn(m, t)

LEMMA LeadsTwice ==
    ASSUME NEW s, NEW m, NEW p, NEW F, Leads(s, m, F), Leads(m, p, F)
    PROVE  Leads(s, p, F)
BY DEF Leads

\* A page of a ranking is one, and keeps its order; from the first row on it leaves out
\* none that is ahead of one it holds.
LEMMA PageRanking ==
    ASSUME NEW s, Ranking(s), NEW offset \in Nat, NEW n \in Nat
    PROVE  LET p == Page(s, offset, n)
           IN  /\ Ranking(p) /\ ToSet(p) \subseteq ToSet(s) /\ Len(p) <= n
               /\ \A F : offset = 0 => Leads(s, p, F)
<1> DEFINE p == Page(s, offset, n)
           l == PageLength(Len(s), offset, n)
<1>1. s \in Seq(Row)
  BY DEF Ranking
<1>2. /\ p \in Seq(Row) /\ Len(p) = l /\ l \in Nat /\ DOMAIN p = 1..l
      /\ \A i \in 1..l : p[i] = s[offset + i] /\ offset + i \in DOMAIN s
  BY <1>1, PageFacts
<1>3. /\ Len(s) \in Nat /\ DOMAIN s = 1..Len(s)
      /\ \A i \in DOMAIN s : s[i] \in ToSet(s) /\ RankIn(s, s[i]) = i
      /\ \A r \in ToSet(s) : RankIn(s, r) \in DOMAIN s /\ s[RankIn(s, r)] = r
  BY RankingFacts
<1>4. l <= n
  BY <1>3 DEF PageLength, Lesser
<1> HIDE DEF p, l
<1>5. Ranking(p)
  <2> SUFFICES ASSUME NEW i \in DOMAIN p, NEW j \in DOMAIN p, p[i] = p[j] PROVE i = j
    BY <1>2 DEF Ranking, IsInjective
  <2>1. offset + i = offset + j
    BY <1>2, <1>3
  <2> QED BY <1>2, <2>1
<1>6. ToSet(p) \subseteq ToSet(s)
  <2>1. ASSUME NEW r \in ToSet(p) PROVE r \in ToSet(s)
    <3>1. PICK i \in DOMAIN p : r = p[i]
      BY <2>1 DEF ToSet
    <3> QED BY <1>2, <1>3, <3>1
  <2> QED BY <2>1
<1>7. ASSUME NEW F, offset = 0 PROVE Leads(s, p, F)
  <2> SUFFICES ASSUME NEW t \in ToSet(p), NEW r \in ToSet(s), RankIn(s, r) < RankIn(s, t)
               PROVE  r \in ToSet(p) /\ RankIn(p, r) < RankIn(p, t)
    BY <1>6 DEF Leads
  <2>1. /\ \A i \in DOMAIN p : p[i] \in ToSet(p) /\ RankIn(p, p[i]) = i
        /\ RankIn(p, t) \in DOMAIN p /\ p[RankIn(p, t)] = t
    BY <1>5, RankingFacts
  <2> DEFINE i == RankIn(s, r)
             j == RankIn(p, t)
  <2>2. j \in 1..l /\ t = s[j] /\ j \in DOMAIN s
    BY <1>2, <1>7, <2>1
  <2>3. RankIn(s, t) = j
    BY <1>3, <2>2
  <2>4. i \in 1..l /\ i < j /\ s[i] = r
    <3>1. i \in DOMAIN s /\ s[i] = r /\ i < RankIn(s, t)
      BY <1>3
    <3> HIDE DEF i, j
    <3> QED BY <1>2, <1>3, <2>2, <2>3, <3>1
  <2>5. p[i] = r
    <3> HIDE DEF i
    <3>1. offset + i = i
      BY <1>7, <2>4
    <3> QED BY <1>2, <2>4, <3>1
  <2> HIDE DEF i, j
  <2>6. r \in ToSet(p) /\ RankIn(p, r) = i
    BY <1>2, <2>1, <2>4, <2>5
  <2> QED BY <2>4, <2>6 DEF j
<1> QED BY <1>2, <1>4, <1>5, <1>6, <1>7 DEF p

\* The n-th of some places comes before the m-th exactly if its place does.
LEMMA RankOrder ==
    ASSUME NEW T \in SUBSET Nat, IsFiniteSet(T), NEW i \in T, NEW k \in T, i < k
    PROVE  Rank(T, i) < Rank(T, k)
<1> DEFINE I == {j \in T : j <= i}
           K == {j \in T : j <= k}
<1>1. IsFiniteSet(K) /\ I \in SUBSET K
  <2>1. I \in SUBSET K /\ K \in SUBSET T
    <3>1. \A j \in T : j <= i => j <= k
      OBVIOUS
    <3> QED BY <3>1
  <2> HIDE DEF I, K
  <2> QED BY ONLY <2>1, IsFiniteSet(T), FS_Subset
<1>2. Cardinality(I) <= Cardinality(K) /\ Cardinality(I) \in Nat /\ Cardinality(K) \in Nat
  <2> HIDE DEF I, K
  <2> QED BY <1>1, CountFacts
<1>3. Rank(T, i) # Rank(T, k)
  <2>1. i # k
    OBVIOUS
  <2> QED BY <2>1, Ranks DEF Rank
<1> QED BY <1>2, <1>3 DEF Rank

\* The rows of F in a ranking are one, in its order.
LEMMA MatchRanking ==
    ASSUME NEW s, Ranking(s), NEW F, NEW T, T = {i \in DOMAIN s : s[i] \in F}
    PROVE  LET m == At(s, T)
           IN  /\ Ranking(m) /\ ToSet(m) = ToSet(s) \cap F /\ Len(m) <= Len(s)
               /\ \A G : G \subseteq F => Leads(s, m, G)
<1> DEFINE m == At(s, T)
           c == Cardinality(T)
<1>1. /\ Len(s) \in Nat /\ DOMAIN s = 1..Len(s)
      /\ \A i \in DOMAIN s : s[i] \in Row /\ s[i] \in ToSet(s) /\ RankIn(s, s[i]) = i
      /\ \A r \in ToSet(s) : RankIn(s, r) \in DOMAIN s /\ s[RankIn(s, r)] = r
  BY RankingFacts
<1>2. T \in SUBSET DOMAIN s /\ T \in SUBSET Nat /\ IsFiniteSet(DOMAIN s) /\ IsFiniteSet(T)
      /\ Cardinality(DOMAIN s) = Len(s)
  <2>1. IsFiniteSet(1..Len(s)) /\ Cardinality(1..Len(s)) = Len(s)
    <3>1. Len(s) \in Int /\ 1 \in Int /\ (Len(s) < 1 => Len(s) = 0)
      BY <1>1
    <3> QED BY <1>1, <3>1, FS_Interval
  <2>2. T \in SUBSET DOMAIN s /\ T \in SUBSET Nat
    BY <1>1
  <2> QED BY <1>1, <2>1, <2>2, FS_Subset
<1>3. /\ c \in Nat /\ DOMAIN m = 1..c
      /\ \A n \in 1..c : \E i \in T : Rank(T, i) = n /\ m[n] = s[i]
      /\ \A i \in T : Rank(T, i) \in 1..c /\ m[Rank(T, i)] = s[i]
      /\ \A i, k \in T : Rank(T, i) = Rank(T, k) => i = k
  <2> HIDE DEF c
  <2> QED BY ONLY <1>2, AtFacts DEF c
<1>4. m \in Seq(Row) /\ Len(m) = c
  BY <1>1, <1>2, AtSeq
<1>5. c <= Len(s)
  BY <1>2, CountFacts
<1> HIDE DEF m, c
<1>6. Ranking(m)
  <2> SUFFICES ASSUME NEW x \in DOMAIN m, NEW y \in DOMAIN m, m[x] = m[y] PROVE x = y
    BY <1>4 DEF Ranking, IsInjective
  <2>1. PICK i \in T : Rank(T, i) = x /\ m[x] = s[i]
    BY <1>3
  <2>2. PICK k \in T : Rank(T, k) = y /\ m[y] = s[k]
    BY <1>3
  <2>3. i = k
    BY <1>1, <1>2, <2>1, <2>2
  <2> QED BY <2>1, <2>2, <2>3
<1>7. ToSet(m) = ToSet(s) \cap F
  <2>1. ASSUME NEW r \in ToSet(m) PROVE r \in ToSet(s) \cap F
    <3>1. PICK n \in 1..c : r = m[n]
      BY <1>3, <2>1 DEF ToSet
    <3>2. PICK i \in T : m[n] = s[i]
      BY <1>3
    <3> QED BY <1>1, <1>2, <3>1, <3>2
  <2>2. ASSUME NEW r \in ToSet(s) \cap F PROVE r \in ToSet(m)
    <3> DEFINE i == RankIn(s, r)
    <3>1. i \in T /\ s[i] = r
      BY <1>1, <2>2
    <3>2. Rank(T, i) \in DOMAIN m /\ m[Rank(T, i)] = r
      BY <1>3, <3>1
    <3> QED BY <3>2 DEF ToSet
  <2> QED BY <2>1, <2>2
<1>8. ASSUME NEW G, G \subseteq F PROVE Leads(s, m, G)
  <2> SUFFICES ASSUME NEW t \in ToSet(m), NEW r \in ToSet(s) \cap G, RankIn(s, r) < RankIn(s, t)
               PROVE  r \in ToSet(m) /\ RankIn(m, r) < RankIn(m, t)
    BY <1>7 DEF Leads
  <2> DEFINE i == RankIn(s, r)
             k == RankIn(s, t)
  <2>1. r \in ToSet(m) /\ t \in ToSet(s) /\ t \in F /\ r \in F /\ r \in ToSet(s)
    BY <1>7, <1>8
  <2>2. i \in T /\ k \in T /\ i < k /\ s[i] = r /\ s[k] = t
    BY <1>1, <2>1
  <2> HIDE DEF i, k
  <2>3. Rank(T, i) < Rank(T, k)
    BY <1>2, <2>2, RankOrder
  <2>4. /\ Rank(T, i) \in DOMAIN m /\ m[Rank(T, i)] = r
        /\ Rank(T, k) \in DOMAIN m /\ m[Rank(T, k)] = t
    BY <1>3, <2>2
  <2>5. RankIn(m, r) = Rank(T, i) /\ RankIn(m, t) = Rank(T, k)
    BY <1>6, <2>4, RankingFacts
  <2> QED BY <2>1, <2>3, <2>5
<1> QED BY <1>4, <1>5, <1>6, <1>7, <1>8 DEF m

\* One leg draws rows that match, each once, no more than it was asked for; prefiltered and
\* from the first row on, it leaves out none that is ahead of one it draws.
LEMMA ScanRanking ==
    ASSUME NEW spec, IsSearch(spec), NEW s, Ranking(s), NEW mode,
           NEW n, n = IF mode = "vector" THEN spec.k ELSE spec.limit
    PROVE  LET drawn == Scan(mode, spec, s)
           IN  /\ Ranking(drawn) /\ ToSet(drawn) \subseteq ToSet(s) \cap spec.filter /\ Len(drawn) <= n
               /\ (mode = "scan" \/ spec.prefilter) /\ (mode = "vector" \/ spec.offset = 0)
                      => Leads(s, drawn, spec.filter)
<1> DEFINE F == spec.filter
           o == IF mode = "vector" THEN 0 ELSE spec.offset
           Match(r) == At(r, {i \in DOMAIN r : r[i] \in F})
           Cut(r) == Page(r, o, n)
           drawn == Scan(mode, spec, s)
           early == mode = "scan" \/ spec.prefilter
<1>1. o \in Nat /\ n \in Nat
  BY DEF IsSearch
<1>2. drawn = IF early THEN Cut(Match(s)) ELSE Match(Cut(s))
  BY DEF Scan
<1>3. \A r : Ranking(r) => /\ Ranking(Match(r)) /\ ToSet(Match(r)) = ToSet(r) \cap F
                           /\ Len(Match(r)) <= Len(r) /\ Leads(r, Match(r), F)
  <2> SUFFICES ASSUME NEW r, Ranking(r)
               PROVE  /\ Ranking(Match(r)) /\ ToSet(Match(r)) = ToSet(r) \cap F
                      /\ Len(Match(r)) <= Len(r) /\ Leads(r, Match(r), F)
    OBVIOUS
  <2> DEFINE T == {i \in DOMAIN r : r[i] \in F}
  <2>1. T = {i \in DOMAIN r : r[i] \in F} /\ F \subseteq F /\ Match(r) = At(r, T)
    OBVIOUS
  <2> HIDE DEF T, F
  <2> QED BY <2>1, MatchRanking
<1>4. \A r : Ranking(r) => /\ Ranking(Cut(r)) /\ ToSet(Cut(r)) \subseteq ToSet(r) /\ Len(Cut(r)) <= n
                           /\ (o = 0 => Leads(r, Cut(r), F))
  <2> HIDE DEF F, o
  <2> QED BY <1>1, PageRanking
<1>5. \A r : Ranking(r) => Len(r) \in Nat
  BY RankingFacts
<1> HIDE DEF F, Match, Cut, early, drawn
<1>6. CASE early
  <2>1. drawn = Cut(Match(s)) /\ Ranking(Match(s)) /\ Leads(s, Match(s), F)
    BY <1>2, <1>3, <1>6
  <2>2. Ranking(drawn) /\ ToSet(drawn) \subseteq ToSet(s) \cap F /\ Len(drawn) <= n
    BY <1>3, <1>4, <2>1
  <2>3. o = 0 => Leads(s, drawn, F)
    BY <1>4, <2>1, LeadsTwice
  <2> QED BY <2>2, <2>3 DEF drawn, early, F
<1>7. CASE ~early
  <2>1. drawn = Match(Cut(s)) /\ Ranking(Cut(s)) /\ ToSet(Cut(s)) \subseteq ToSet(s) /\ Len(Cut(s)) <= n
    BY <1>2, <1>4, <1>7
  <2>2. Ranking(drawn) /\ ToSet(drawn) = ToSet(Cut(s)) \cap F /\ Len(drawn) <= Len(Cut(s))
    BY <1>3, <2>1
  <2>3. Len(drawn) <= n
    BY <1>1, <1>5, <2>1, <2>2
  <2> QED BY <1>7, <2>1, <2>2, <2>3 DEF drawn, early, F
<1> QED BY <1>6, <1>7

\* A search that asks for more or fewer rows.
LEMMA Widened ==
    ASSUME NEW spec, IsSearch(spec), NEW l \in Nat
    PROVE  LET wide == [spec EXCEPT !.limit = l]
           IN  /\ IsSearch(wide) /\ wide.limit = l /\ wide.offset = spec.offset
               /\ wide.filter = spec.filter /\ wide.prefilter = spec.prefilter
BY DEF IsSearch

\* What a fused score is: a fraction.
LEMMA ScoreFraction ==
    ASSUME NEW a \in Nat, NEW b \in Nat
    PROVE  Score(a, b)[1] \in Nat \ {0} /\ Score(a, b)[2] \in Nat \ {0}
<1>1. RrfK \in Nat \ {0}
  BY QueriesAssumption
<1>2. RrfK + a \in Nat \ {0} /\ RrfK + b \in Nat \ {0} /\ 2 * RrfK + a + b \in Nat \ {0}
  BY <1>1
<1>3. \A x, y \in Nat \ {0} : x * y \in Nat \ {0}
  OBVIOUS
<1>4. (RrfK + a) * (RrfK + b) \in Nat \ {0}
  BY <1>2, <1>3
<1> QED BY <1>2, <1>4 DEF Score

\* To be no less is handed on, of fractions.
LEMMA NoLessTwice ==
    ASSUME NEW p, NEW q, NEW r, p[1] \in Nat, q[1] \in Nat, r[1] \in Nat,
           p[2] \in Nat \ {0}, q[2] \in Nat \ {0}, r[2] \in Nat \ {0},
           ~Above(q, p), ~Above(r, q)
    PROVE  ~Above(r, p)
<1> DEFINE a == p[1]
           b == p[2]
           c == q[1]
           d == q[2]
           e == r[1]
           f == r[2]
<1>1. /\ a \in Nat /\ b \in Nat \ {0} /\ c \in Nat /\ d \in Nat \ {0} /\ e \in Nat /\ f \in Nat \ {0}
      /\ c * b <= a * d /\ e * d <= c * f
  <2>1. ~(c * b > a * d) /\ ~(e * d > c * f)
    BY DEF Above
  <2> HIDE DEF a, b, c, d, e, f
  <2>2. a \in Nat /\ b \in Nat \ {0} /\ c \in Nat /\ d \in Nat \ {0} /\ e \in Nat /\ f \in Nat \ {0}
    BY DEF a, b, c, d, e, f
  <2>3. c * b \in Nat /\ a * d \in Nat /\ e * d \in Nat /\ c * f \in Nat
    BY <2>2
  <2> QED BY <2>1, <2>2, <2>3
<1> HIDE DEF a, b, c, d, e, f
<1>2. (e * d) * b <= (c * f) * b
  <2> DEFINE u == e * d
             v == c * f
  <2>1. u \in Nat /\ v \in Nat /\ u <= v
    BY <1>1
  <2> HIDE DEF u, v
  <2>2. u * b <= v * b
    BY <1>1, <2>1
  <2> QED BY <2>2 DEF u, v
<1>3. (c * b) * f <= (a * d) * f
  <2> DEFINE u == c * b
             v == a * d
  <2>1. u \in Nat /\ v \in Nat /\ u <= v
    BY <1>1
  <2> HIDE DEF u, v
  <2>2. u * f <= v * f
    BY <1>1, <2>1
  <2> QED BY <2>2 DEF u, v
<1> DEFINE x == e * b
           y == a * f
<1>4. /\ (e * d) * b = x * d /\ (c * f) * b = (c * b) * f /\ (a * d) * f = y * d
      /\ x \in Nat /\ y \in Nat
  BY <1>1
<1>5. x * d <= y * d /\ x * d \in Nat /\ y * d \in Nat
  <2>1. x * d \in Nat /\ y * d \in Nat /\ (c * b) * f \in Nat
    BY <1>1, <1>4
  <2> HIDE DEF x, y
  <2> QED BY <1>2, <1>3, <1>4, <2>1
<1> HIDE DEF x, y
<1>6. ~(y < x)
  <2> SUFFICES ASSUME y < x PROVE FALSE
    OBVIOUS
  <2>1. y * d + d <= x * d
    BY ONLY <1>1, <1>4, y < x, TimesFacts
  <2> QED BY <1>1, <1>5, <2>1
<1> QED BY <1>4, <1>6 DEF Above, x, y, a, b, e, f

\* A row that both legs put ahead has the higher score.
LEMMA ScoreHigher ==
    ASSUME NEW a \in Nat, NEW b \in Nat, NEW c \in Nat, NEW d \in Nat, c # 0 \/ d # 0,
           c # 0 => a # 0 /\ a < c, d # 0 => b # 0 /\ b < d
    PROVE  Above(Score(a, b), Score(c, d))
<1> DEFINE x == RrfK + a
           y == RrfK + b
           u == RrfK + c
           v == RrfK + d
<1>1. RrfK \in Nat \ {0}
  BY QueriesAssumption
<1>2. x \in Nat \ {0} /\ y \in Nat \ {0} /\ u \in Nat \ {0} /\ v \in Nat \ {0}
  BY <1>1
<1>3. /\ Score(a, b) = IF a = 0 THEN <<1, y>> ELSE IF b = 0 THEN <<1, x>> ELSE <<x + y, x * y>>
      /\ Score(c, d) = IF c = 0 THEN <<1, v>> ELSE IF d = 0 THEN <<1, u>> ELSE <<u + v, u * v>>
  <2>1. 2 * RrfK + a + b = x + y /\ 2 * RrfK + c + d = u + v
    BY <1>1
  <2> QED BY <2>1 DEF Score
<1>4. (c # 0 => x < u) /\ (d # 0 => y < v)
  BY <1>1
<1> HIDE DEF x, y, u, v
<1>5. ASSUME NEW i \in Nat \ {0}, NEW j \in Nat \ {0}, NEW k \in Nat \ {0}, j < k
      PROVE  1 * k > 1 * j /\ (i + j) * k > 1 * (i * j) /\ (j + i) * k > 1 * (j * i)
  <2>1. i * j < i * k /\ i * k \in Nat /\ j * k \in Nat \ {0} /\ i * j \in Nat
    BY <1>5
  <2>2. (i + j) * k = i * k + j * k /\ (j + i) * k = i * k + j * k /\ j * i = i * j
    OBVIOUS
  <2>3. 1 * k > 1 * j
    BY <1>5
  <2> DEFINE p == i * j
             q == i * k
             r == j * k
  <2> HIDE DEF p, q, r
  <2>4. q + r > 1 * p
    BY <2>1 DEF p, q, r
  <2> QED BY <2>2, <2>3, <2>4 DEF p, q, r
<1>6. ASSUME x < u, y < v PROVE (x + y) * (u * v) > (u + v) * (x * y)
  <2>1. x * y < x * v
    BY <1>2, <1>6
  <2>2. x * y < u * y
    BY <1>2, <1>6
  <2> DEFINE p == x * y
             q == x * v
             r == u * y
  <2>3. p \in Nat /\ q \in Nat /\ r \in Nat /\ p < q /\ p < r
    BY <1>2, <2>1, <2>2
  <2>4. (x + y) * (u * v) = u * q + v * r /\ (u + v) * (x * y) = u * p + v * p
    BY <1>2
  <2> HIDE DEF p, q, r
  <2>5. u * p < u * q /\ v * p < v * r
    BY <1>2, <2>3
  <2>6. u * p \in Nat /\ u * q \in Nat /\ v * p \in Nat /\ v * r \in Nat
    BY <1>2, <2>3
  <2> QED BY <2>4, <2>5, <2>6
<1>7. CASE c # 0 /\ d # 0
  <2>1. Score(a, b) = <<x + y, x * y>> /\ Score(c, d) = <<u + v, u * v>>
    BY <1>3, <1>7
  <2> QED BY <1>4, <1>6, <1>7, <2>1 DEF Above
<1>8. CASE c = 0
  <2>1. d # 0 /\ b # 0 /\ y < v /\ Score(c, d) = <<1, v>>
    BY <1>3, <1>4, <1>8
  <2>2. Score(a, b) = IF a = 0 THEN <<1, y>> ELSE <<x + y, x * y>>
    BY <1>3, <2>1
  <2> QED BY <1>2, <1>5, <2>1, <2>2 DEF Above
<1>9. CASE c # 0 /\ d = 0
  <2>1. a # 0 /\ x < u /\ Score(c, d) = <<1, u>>
    BY <1>3, <1>4, <1>9
  <2>2. Score(a, b) = IF b = 0 THEN <<1, x>> ELSE <<x + y, x * y>>
    BY <1>3, <2>1
  <2> QED BY <1>2, <1>5, <2>1, <2>2 DEF Above
<1> QED BY <1>7, <1>8, <1>9

\* One ranking behind another that holds none of its rows.
LEMMA JoinRanking ==
    ASSUME NEW s, Ranking(s), NEW t, Ranking(t), ToSet(s) \cap ToSet(t) = {}
    PROVE  Ranking(s \o t) /\ ToSet(s \o t) = ToSet(s) \cup ToSet(t)
<1> DEFINE u == s \o t
           a == Len(s)
           b == Len(t)
<1>1. s \in Seq(Row) /\ t \in Seq(Row)
  BY DEF Ranking
<1>2. /\ u \in Seq(Row) /\ a \in Nat /\ b \in Nat
      /\ DOMAIN s = 1..a /\ DOMAIN t = 1..b /\ DOMAIN u = 1..a + b
      /\ \A n \in 1..a : u[n] = s[n]
      /\ \A n \in 1..b : u[a + n] = t[n]
  BY <1>1, ConcatFacts
<1> HIDE DEF u, a, b
<1>3. ASSUME NEW x \in DOMAIN u
      PROVE  \/ x \in 1..a /\ u[x] = s[x] /\ s[x] \in ToSet(s)
             \/ x - a \in 1..b /\ u[x] = t[x - a] /\ t[x - a] \in ToSet(t)
  <2>1. CASE x <= a
    <3>1. x \in 1..a
      BY <1>2, <2>1
    <3> QED BY <1>2, <3>1 DEF ToSet
  <2>2. CASE ~(x <= a)
    <3>1. x - a \in 1..b /\ a + (x - a) = x
      BY <1>2, <2>2
    <3>2. u[a + (x - a)] = t[x - a]
      BY <1>2, <3>1
    <3> QED BY <1>2, <3>1, <3>2 DEF ToSet
  <2> QED BY <2>1, <2>2
<1>4. Ranking(u)
  <2> SUFFICES ASSUME NEW x \in DOMAIN u, NEW y \in DOMAIN u, u[x] = u[y] PROVE x = y
    BY <1>2 DEF Ranking, IsInjective
  <2>1. (\A i, j \in DOMAIN s : s[i] = s[j] => i = j) /\ (\A i, j \in DOMAIN t : t[i] = t[j] => i = j)
    BY DEF Ranking, IsInjective
  <2>2. x \in Int /\ y \in Int /\ a \in Int
    BY <1>2
  <2>3. CASE x \in 1..a /\ y \in 1..a
    BY <1>2, <2>1, <2>3
  <2>4. CASE x \in 1..a /\ y \notin 1..a
    BY <1>2, <1>3, <2>4
  <2>5. CASE x \notin 1..a /\ y \in 1..a
    BY <1>2, <1>3, <2>5
  <2>6. CASE x \notin 1..a /\ y \notin 1..a
    <3>1. x - a \in DOMAIN t /\ y - a \in DOMAIN t /\ t[x - a] = t[y - a]
      BY <1>2, <1>3, <2>6
    <3>2. x - a = y - a
      BY <2>1, <3>1
    <3> QED BY <2>2, <3>2
  <2> QED BY <2>3, <2>4, <2>5, <2>6
<1>5. ToSet(u) \subseteq ToSet(s) \cup ToSet(t)
  <2> SUFFICES ASSUME NEW r \in ToSet(u) PROVE r \in ToSet(s) \cup ToSet(t)
    OBVIOUS
  <2>1. PICK x \in DOMAIN u : r = u[x]
    BY DEF ToSet
  <2> QED BY <1>3, <2>1
<1>6. ToSet(s) \subseteq ToSet(u)
  <2> SUFFICES ASSUME NEW x \in 1..a PROVE s[x] \in ToSet(u)
    BY <1>2 DEF ToSet
  <2>1. x \in DOMAIN u /\ u[x] = s[x]
    BY <1>2
  <2> QED BY <2>1 DEF ToSet
<1>7. ToSet(t) \subseteq ToSet(u)
  <2> SUFFICES ASSUME NEW x \in 1..b PROVE t[x] \in ToSet(u)
    BY <1>2 DEF ToSet
  <2>1. a + x \in DOMAIN u /\ u[a + x] = t[x]
    BY <1>2
  <2> QED BY <2>1 DEF ToSet
<1> QED BY <1>4, <1>5, <1>6, <1>7 DEF u

\* A ranking put in another order is one of the same rows.
LEMMA SortRanking ==
    ASSUME NEW all, Ranking(all), NEW prec, IsOrder(DOMAIN all, prec),
           NEW order, order = [n \in DOMAIN all |->
                                  all[CHOOSE i \in DOMAIN all : Cardinality(prec[i]) = n - 1]]
    PROVE  /\ Ranking(order) /\ ToSet(order) = ToSet(all)
           /\ \A i, j \in DOMAIN all : i \in prec[j] => RankIn(order, all[i]) < RankIn(order, all[j])
<1> DEFINE S == DOMAIN all
           L == Len(all)
           pos == [n \in S |-> CHOOSE i \in S : Cardinality(prec[i]) = n - 1]
<1>1. /\ L \in Nat /\ S = 1..L
      /\ \A i \in S : all[i] \in Row /\ all[i] \in ToSet(all) /\ RankIn(all, all[i]) = i
  BY RankingFacts
<1>2. IsFiniteSet(S) /\ Cardinality(S) = L
  <2> HIDE DEF S, L
  <2>1. L \in Int /\ 1 \in Int /\ (L < 1 => L = 0)
    BY <1>1
  <2> QED BY <1>1, <2>1, FS_Interval
<1>3. /\ \A i \in S : Cardinality(prec[i]) \in 0..L - 1
      /\ \A i \in S : \A j \in prec[i] : Cardinality(prec[j]) < Cardinality(prec[i])
      /\ \A i, j \in S : Cardinality(prec[i]) = Cardinality(prec[j]) => i = j
      /\ \A n \in 1..L : \E i \in S : Cardinality(prec[i]) = n - 1
  <2>1. IsOrder(S, prec)
    OBVIOUS
  <2> HIDE DEF S, L
  <2> QED BY <1>2, <2>1, OrderFacts
<1>4. \A n \in S : pos[n] \in S /\ Cardinality(prec[pos[n]]) = n - 1
  <2> SUFFICES ASSUME NEW n \in S PROVE pos[n] \in S /\ Cardinality(prec[pos[n]]) = n - 1
    OBVIOUS
  <2> HIDE DEF S, L
  <2>1. \E i \in S : Cardinality(prec[i]) = n - 1
    BY <1>1, <1>3
  <2> QED BY <2>1
<1>5. order = [n \in S |-> all[pos[n]]]
  OBVIOUS
<1> HIDE DEF S, L, pos
<1>6. DOMAIN order = S /\ \A n \in S : order[n] = all[pos[n]] /\ order[n] \in Row
  BY <1>1, <1>4, <1>5
<1>7. order \in Seq(Row)
  <2>1. order \in [1..L -> Row]
    BY <1>1, <1>4, <1>5
  <2> QED BY <1>1, <2>1, SeqDef
<1>8. Ranking(order)
  <2> SUFFICES ASSUME NEW x \in S, NEW y \in S, order[x] = order[y] PROVE x = y
    BY <1>6, <1>7 DEF Ranking, IsInjective
  <2>1. pos[x] = pos[y]
    <3>1. pos[x] \in S /\ pos[y] \in S /\ all[pos[x]] = all[pos[y]]
      BY <1>4, <1>6
    <3>2. RankIn(all, all[pos[x]]) = pos[x] /\ RankIn(all, all[pos[y]]) = pos[y]
      BY <1>1, <3>1
    <3> QED BY <3>1, <3>2
  <2>2. x - 1 = y - 1 /\ x \in Nat /\ y \in Nat
    BY <1>1, <1>4, <2>1
  <2> QED BY <2>2
<1>9. ASSUME NEW i \in S
      PROVE  /\ Cardinality(prec[i]) + 1 \in S /\ order[Cardinality(prec[i]) + 1] = all[i]
             /\ RankIn(order, all[i]) = Cardinality(prec[i]) + 1
  <2> DEFINE n == Cardinality(prec[i]) + 1
  <2>1. n \in S /\ n - 1 = Cardinality(prec[i])
    <3> DEFINE c == Cardinality(prec[i])
    <3>1. c \in 0..L - 1
      BY <1>3
    <3> HIDE DEF c
    <3>2. c + 1 \in 1..L /\ (c + 1) - 1 = c
      BY <1>1, <3>1
    <3> QED BY <1>1, <3>2 DEF c
  <2> HIDE DEF n
  <2>2. pos[n] = i
    BY <1>3, <1>4, <2>1
  <2>3. order[n] = all[i]
    BY <1>6, <2>1, <2>2
  <2>4. RankIn(order, all[i]) = n
    BY <1>6, <1>8, <2>1, <2>3, RankingFacts
  <2> QED BY <2>1, <2>3, <2>4 DEF n
<1>10. ToSet(order) = ToSet(all)
  <2>1. ASSUME NEW r \in ToSet(order) PROVE r \in ToSet(all)
    <3>1. PICK n \in S : r = order[n]
      BY <1>6, <2>1 DEF ToSet
    <3> QED BY <1>1, <1>4, <1>6, <3>1
  <2>2. ASSUME NEW r \in ToSet(all) PROVE r \in ToSet(order)
    <3>1. PICK i \in S : r = all[i]
      BY <2>2 DEF ToSet, S
    <3> QED BY <1>6, <1>9, <3>1 DEF ToSet
  <2> QED BY <2>1, <2>2
<1>11. ASSUME NEW i \in S, NEW j \in S, i \in prec[j]
       PROVE  RankIn(order, all[i]) < RankIn(order, all[j])
  <2>1. Cardinality(prec[i]) < Cardinality(prec[j])
    BY <1>3, <1>11
  <2> DEFINE c == Cardinality(prec[i])
             d == Cardinality(prec[j])
  <2>2. c \in 0..L - 1 /\ d \in 0..L - 1 /\ c < d
    BY <1>3, <2>1
  <2>3. RankIn(order, all[i]) = c + 1 /\ RankIn(order, all[j]) = d + 1
    BY <1>9
  <2> HIDE DEF c, d
  <2>4. c + 1 < d + 1
    BY <1>1, <2>2
  <2> QED BY <2>3, <2>4
<1> QED BY <1>8, <1>10, <1>11 DEF S

\* What both legs of a fused search put ahead.
BothAhead(fts, near, r, t) ==
    /\ RankIn(fts, t) # 0 => RankIn(fts, r) # 0 /\ RankIn(fts, r) < RankIn(fts, t)
    /\ RankIn(near, t) # 0 => RankIn(near, r) # 0 /\ RankIn(near, r) < RankIn(near, t)

\* A fused ranking holds the rows of its legs, once each, the first of them by their score:
\* one that both legs put ahead of another stays ahead of it.
LEMMA FuseFacts ==
    ASSUME NEW fts, Ranking(fts), NEW near, Ranking(near), NEW k \in Nat
    PROVE  LET fused == Fuse(fts, near, k)
           IN  /\ Ranking(fused) /\ ToSet(fused) \subseteq ToSet(fts) \cup ToSet(near)
               /\ Len(fused) <= k
               /\ \A r, t \in ToSet(fused) :
                     BothAhead(fts, near, r, t) => RankIn(fused, r) < RankIn(fused, t)
<1> DEFINE T == {i \in DOMAIN near : near[i] \notin ToSet(fts)}
           rest == At(near, T)
           all == fts \o rest
           S == DOMAIN all
           Of(i) == Score(RankIn(fts, all[i]), RankIn(near, all[i]))
           over == [i \in S |-> {j \in S : Above(Of(j), Of(i))}]
           Before(i) == {j \in S : Above(Of(j), Of(i)) \/ (~Above(Of(i), Of(j)) /\ j < i)}
           prec == [i \in S |-> Before(i)]
           order == [n \in S |-> all[CHOOSE i \in S : Cardinality(Before(i)) = n - 1]]
           fused == Fuse(fts, near, k)
<1>1. fused = Page(order, 0, k)
  BY DEF Fuse
<1>2. Ranking(rest) /\ ToSet(rest) = ToSet(near) \ ToSet(fts)
  <2> DEFINE F == Row \ ToSet(fts)
  <2>1. \A i \in DOMAIN near : near[i] \in Row /\ near[i] \in ToSet(near)
    BY RankingFacts
  <2>2. T = {i \in DOMAIN near : near[i] \in F}
    BY <2>1
  <2>3. ToSet(near) \subseteq Row
    <3> SUFFICES ASSUME NEW r \in ToSet(near) PROVE r \in Row
      OBVIOUS
    <3>1. PICK i \in DOMAIN near : r = near[i]
      BY DEF ToSet
    <3> QED BY <2>1, <3>1
  <2>4. ToSet(near) \cap F = ToSet(near) \ ToSet(fts)
    BY <2>3
  <2> HIDE DEF T, F
  <2>5. Ranking(rest) /\ ToSet(rest) = ToSet(near) \cap F
    BY <2>2, MatchRanking
  <2> QED BY <2>4, <2>5
<1> HIDE DEF rest
<1>3. Ranking(all) /\ ToSet(all) = ToSet(fts) \cup ToSet(near)
  <2>1. ToSet(fts) \cap ToSet(rest) = {} /\ ToSet(fts) \cup ToSet(rest) = ToSet(fts) \cup ToSet(near)
    BY <1>2
  <2>2. Ranking(fts \o rest) /\ ToSet(fts \o rest) = ToSet(fts) \cup ToSet(rest)
    BY ONLY Ranking(fts), <1>2, <2>1, JoinRanking
  <2> QED BY <2>1, <2>2
<1> HIDE DEF all
<1>4. /\ S \in SUBSET Nat
      /\ \A i \in S : all[i] \in ToSet(all) /\ RankIn(all, all[i]) = i
      /\ \A r \in ToSet(all) : RankIn(all, r) \in S /\ all[RankIn(all, r)] = r
  <2>1. Len(all) \in Nat /\ DOMAIN all = 1..Len(all)
    BY <1>3, RankingFacts
  <2> QED BY <1>3, <2>1, RankingFacts
<1>5. \A r : RankIn(fts, r) \in Nat /\ RankIn(near, r) \in Nat
             /\ (RankIn(fts, r) = 0 => r \notin ToSet(fts)) /\ (RankIn(near, r) = 0 => r \notin ToSet(near))
  BY RankingFacts
<1>6. \A i \in S : Of(i)[1] \in Nat \ {0} /\ Of(i)[2] \in Nat \ {0}
  BY <1>5, ScoreFraction
<1>7. IsOrder(S, prec)
  <2>1. over \in [S -> SUBSET S] /\ \A i, j \in S : j \in over[i] <=> Above(Of(j), Of(i))
    <3> HIDE DEF Of, S
    <3>1. over \in [S -> SUBSET S]
      OBVIOUS
    <3>2. ASSUME NEW i \in S, NEW j \in S PROVE j \in over[i] <=> Above(Of(j), Of(i))
      OBVIOUS
    <3> QED BY <3>1, <3>2
  <2>2. ASSUME NEW i \in S, NEW j \in S, Above(Of(j), Of(i)) PROVE ~Above(Of(i), Of(j))
    <3> DEFINE p == Of(i)
               q == Of(j)
    <3>1. p[1] \in Nat /\ p[2] \in Nat /\ q[1] \in Nat /\ q[2] \in Nat
      BY <1>6
    <3>2. Above(q, p)
      BY <2>2
    <3> HIDE DEF p, q
    <3>3. p[1] * q[2] \in Nat /\ q[1] * p[2] \in Nat
      BY <3>1
    <3>4. ~Above(p, q)
      BY <3>2, <3>3 DEF Above
    <3> QED BY <3>4 DEF p, q
  <2>3. ASSUME NEW i \in S, NEW j \in S, NEW l \in S, ~Above(Of(i), Of(j)), ~Above(Of(j), Of(l))
        PROVE  ~Above(Of(i), Of(l))
    <3> DEFINE p == Of(l)
               q == Of(j)
               r == Of(i)
    <3>1. /\ p[1] \in Nat /\ q[1] \in Nat /\ r[1] \in Nat
          /\ p[2] \in Nat \ {0} /\ q[2] \in Nat \ {0} /\ r[2] \in Nat \ {0}
      BY <1>6
    <3>2. ~Above(r, q) /\ ~Above(q, p)
      BY <2>3
    <3> HIDE DEF p, q, r
    <3>3. ~Above(r, p)
      BY <3>1, <3>2, NoLessTwice
    <3> QED BY <3>3 DEF p, r
  <2> HIDE DEF Of
  <2>4. \A i \in S : \A j \in over[i] : i \notin over[j]
    <3> SUFFICES ASSUME NEW i \in S, NEW j \in over[i] PROVE i \notin over[j]
      OBVIOUS
    <3> HIDE DEF over
    <3>1. j \in S
      BY <2>1
    <3> QED BY <2>1, <2>2, <3>1
  <2>5. \A i, j, l \in S : i \notin over[j] /\ j \notin over[l] => i \notin over[l]
    <3> HIDE DEF over
    <3> QED BY <2>1, <2>3
  <2>6. prec = [i \in S |-> {j \in S : j \in over[i] \/ (i \notin over[j] /\ j < i)}]
    <3>1. ASSUME NEW i \in S PROVE Before(i) = {j \in S : j \in over[i] \/ (i \notin over[j] /\ j < i)}
      <4> HIDE DEF over
      <4> QED BY <2>1
    <3> QED BY <3>1
  <2> HIDE DEF over, prec, S
  <2> QED BY <1>4, <2>1, <2>4, <2>5, <2>6, StableOrder
<1>8. order = [n \in S |-> all[CHOOSE i \in S : Cardinality(prec[i]) = n - 1]]
  <2>1. \A i \in S : prec[i] = Before(i)
    OBVIOUS
  <2> DEFINE at == [n \in S |-> CHOOSE i \in S : Cardinality(Before(i)) = n - 1]
             pos == [n \in S |-> CHOOSE i \in S : Cardinality(prec[i]) = n - 1]
  <2>2. ASSUME NEW n \in S PROVE at[n] = pos[n]
    <3>1. \A i \in S : (Cardinality(Before(i)) = n - 1) <=> (Cardinality(prec[i]) = n - 1)
      BY <2>1
    <3> HIDE DEF prec, Before, S
    <3>2. (CHOOSE i \in S : Cardinality(Before(i)) = n - 1) = (CHOOSE i \in S : Cardinality(prec[i]) = n - 1)
      BY <3>1
    <3> QED BY <3>2
  <2> HIDE DEF prec, Before, S
  <2>3. order = [n \in S |-> all[at[n]]]
    OBVIOUS
  <2>4. [n \in S |-> all[CHOOSE i \in S : Cardinality(prec[i]) = n - 1]] = [n \in S |-> all[pos[n]]]
    OBVIOUS
  <2> HIDE DEF at, pos, order
  <2>5. [n \in S |-> all[at[n]]] = [n \in S |-> all[pos[n]]]
    BY <2>2
  <2> QED BY <2>3, <2>4, <2>5
<1>9. \A i, j \in S : Above(Of(i), Of(j)) => i \in prec[j]
  <2> HIDE DEF Of
  <2> QED OBVIOUS
<1> HIDE DEF prec, order, Of
<1>10. /\ Ranking(order) /\ ToSet(order) = ToSet(all)
       /\ \A i, j \in S : i \in prec[j] => RankIn(order, all[i]) < RankIn(order, all[j])
  BY <1>3, <1>7, <1>8, SortRanking
<1> HIDE DEF fused, S
<1>11. /\ Ranking(fused) /\ ToSet(fused) \subseteq ToSet(order) /\ Len(fused) <= k
       /\ Leads(order, fused, Row)
  BY <1>1, <1>10, PageRanking
<1>12. ASSUME NEW r \in ToSet(fused), NEW t \in ToSet(fused), BothAhead(fts, near, r, t)
       PROVE  RankIn(fused, r) < RankIn(fused, t)
  <2> DEFINE i == RankIn(all, r)
             j == RankIn(all, t)
             a == RankIn(fts, r)
             b == RankIn(near, r)
             c == RankIn(fts, t)
             d == RankIn(near, t)
  <2>1. r \in ToSet(order) /\ r \in ToSet(all) /\ t \in ToSet(all)
    BY <1>10, <1>11
  <2>2. i \in S /\ j \in S /\ all[i] = r /\ all[j] = t
    BY <1>4, <2>1
  <2>3. a \in Nat /\ b \in Nat /\ c \in Nat /\ d \in Nat /\ (c # 0 \/ d # 0)
    BY <1>3, <1>5, <2>1
  <2>4. (c # 0 => a # 0 /\ a < c) /\ (d # 0 => b # 0 /\ b < d)
    BY <1>12 DEF BothAhead
  <2>5. Of(i) = Score(a, b) /\ Of(j) = Score(c, d)
    BY <2>2 DEF Of
  <2> HIDE DEF i, j, a, b, c, d
  <2>6. Above(Score(a, b), Score(c, d))
    BY <2>3, <2>4, ScoreHigher
  <2>7. RankIn(order, r) < RankIn(order, t)
    BY <1>9, <1>10, <2>2, <2>5, <2>6
  <2>8. r \in Row
    BY <1>3, <2>2, RankingFacts DEF S
  <2> QED BY <1>11, <2>1, <2>7, <2>8 DEF Leads
<1> QED BY <1>10, <1>3, <1>11, <1>12 DEF fused

\* What is ahead of a row in a ranking stays ahead of it in what is drawn from it.
LEMMA AheadDrawn ==
    ASSUME NEW s, Ranking(s), NEW m, Ranking(m), NEW F, Leads(s, m, F), NEW r \in F, NEW t,
           RankIn(s, r) # 0, RankIn(s, t) = 0 \/ RankIn(s, r) < RankIn(s, t), RankIn(m, t) # 0
    PROVE  RankIn(m, r) # 0 /\ RankIn(m, r) < RankIn(m, t)
<1>1. t \in ToSet(m) /\ r \in ToSet(s)
  BY RankingFacts
<1>2. t \in ToSet(s)
  BY <1>1 DEF Leads
<1>3. RankIn(s, t) \in DOMAIN s /\ DOMAIN s = 1..Len(s) /\ Len(s) \in Nat
  BY <1>2, RankingFacts
<1>4. RankIn(s, r) < RankIn(s, t)
  BY <1>3
<1>5. r \in ToSet(m) /\ RankIn(m, r) < RankIn(m, t)
  BY <1>1, <1>4 DEF Leads
<1>6. RankIn(m, r) \in DOMAIN m /\ DOMAIN m = 1..Len(m) /\ Len(m) \in Nat
  BY <1>5, RankingFacts
<1> QED BY <1>5, <1>6

\* A search and the rankings Lance answers it with.
IsRanked(spec) ==
    /\ IsSearch(spec) /\ {"text", "near"} \subseteq DOMAIN spec
    /\ Ranking(spec.text) /\ (spec.mode \in {"vector", "hybrid"} => Ranking(spec.near))

LEMMA LyingRanking == Ranking([r \in Row |-> r])
<1> DEFINE s == [r \in Row |-> r]
<1>1. Row = 1..3
  BY DEF Row
<1>2. s \in [1..3 -> Row] /\ 3 \in Nat
  BY <1>1
<1>3. s \in Seq(Row)
  <2> DEFINE n == 3
  <2>1. s \in [1..n -> Row] /\ n \in Nat
    BY <1>2
  <2> HIDE DEF s, n
  <2> QED BY <2>1, SeqDef
<1>4. IsInjective(s)
  BY DEF IsInjective
<1> QED BY <1>3, <1>4 DEF Ranking

\* One leg alone: rows that match, once each, no more than were asked for.
LEMMA LegRanking ==
    ASSUME NEW n, IsRanked(n)
    PROVE  /\ Ranking(Leg(n)) /\ ToSet(Leg(n)) \subseteq n.filter
           /\ Len(Leg(n)) <= IF n.mode = "vector" THEN n.k ELSE n.limit
<1> DEFINE lying == [r \in Row |-> r]
<1>1. /\ IsSearch(n) /\ Ranking(n.text) /\ Ranking(lying)
      /\ n.mode = "vector" => Ranking(n.near)
  BY LyingRanking DEF IsRanked
<1>2. /\ n.mode = "fts" => Leg(n) = Scan("fts", n, n.text)
      /\ n.mode = "vector" => Leg(n) = Scan("vector", n, n.near)
      /\ n.mode # "fts" /\ n.mode # "vector" => Leg(n) = Scan("scan", n, lying)
  BY DEF Leg
<1> HIDE DEF lying
<1> DEFINE Drawn(s, l) == Ranking(s) /\ ToSet(s) \subseteq n.filter /\ Len(s) <= l
<1>3. Drawn(Scan("fts", n, n.text), n.limit)
  <2> DEFINE l == n.limit
             s == n.text
  <2>1. Ranking(s) /\ l = IF "fts" = "vector" THEN n.k ELSE n.limit
    BY <1>1
  <2> HIDE DEF l, s
  <2>2. /\ Ranking(Scan("fts", n, s)) /\ ToSet(Scan("fts", n, s)) \subseteq ToSet(s) \cap n.filter
        /\ Len(Scan("fts", n, s)) <= l
    BY ONLY <1>1, <2>1, ScanRanking
  <2> QED BY <2>2 DEF l, s
<1>4. n.mode = "vector" => Drawn(Scan("vector", n, n.near), n.k)
  <2> SUFFICES ASSUME n.mode = "vector" PROVE Drawn(Scan("vector", n, n.near), n.k)
    OBVIOUS
  <2> DEFINE l == n.k
             s == n.near
  <2>1. Ranking(s) /\ l = IF "vector" = "vector" THEN n.k ELSE n.limit
    BY <1>1
  <2> HIDE DEF l, s
  <2>2. /\ Ranking(Scan("vector", n, s)) /\ ToSet(Scan("vector", n, s)) \subseteq ToSet(s) \cap n.filter
        /\ Len(Scan("vector", n, s)) <= l
    BY ONLY <1>1, <2>1, ScanRanking
  <2> QED BY <2>2 DEF l, s
<1>5. Drawn(Scan("scan", n, lying), n.limit)
  <2> DEFINE l == n.limit
  <2>1. l = IF "scan" = "vector" THEN n.k ELSE n.limit
    OBVIOUS
  <2> HIDE DEF l
  <2>2. /\ Ranking(Scan("scan", n, lying)) /\ ToSet(Scan("scan", n, lying)) \subseteq ToSet(lying) \cap n.filter
        /\ Len(Scan("scan", n, lying)) <= l
    BY ONLY <1>1, <2>1, ScanRanking
  <2> QED BY <2>2 DEF l
<1> QED BY <1>2, <1>3, <1>4, <1>5

\* Both legs fused: as much holds, and a row that both rankings put ahead of another stays
\* ahead of it, where the filter came first and no row was passed over.
LEMMA HybridRanking ==
    ASSUME NEW n, IsRanked(n), n.mode = "hybrid"
    PROVE  LET rows == Hybrid(n)
               Ahead(s, r, t) == RankIn(s, r) # 0 /\ (RankIn(s, t) = 0 \/ RankIn(s, r) < RankIn(s, t))
           IN  /\ Ranking(rows) /\ ToSet(rows) \subseteq n.filter /\ Len(rows) <= n.k
               /\ n.offset = 0 /\ n.prefilter =>
                      \A r, t \in ToSet(rows) :
                          Ahead(n.text, r, t) /\ Ahead(n.near, r, t) => RankIn(rows, r) < RankIn(rows, t)
<1> DEFINE text == n.text
           near == n.near
           k == n.k
           F == n.filter
           l == Greater(n.k, n.limit)
           wide == [n EXCEPT !.limit = l]
           fts == Scan("fts", wide, text)
           vec == Scan("vector", n, near)
           rows == Hybrid(n)
           ahead == n.offset = 0 /\ n.prefilter
<1>1. IsSearch(n) /\ Ranking(text) /\ Ranking(near) /\ k \in Nat /\ n.limit \in Nat
  BY DEF IsRanked, IsSearch
<1>2. l \in Nat
  BY <1>1 DEF Greater
<1>3. rows = Fuse(fts, vec, k)
  <2>1. wide = [n EXCEPT !.limit = Greater(n.k, @)]
    BY <1>1 DEF IsSearch
  <2> QED BY <2>1 DEF Hybrid
<1> HIDE DEF text, near, l, rows
<1>4. /\ IsSearch(wide) /\ wide.limit = l /\ wide.offset = n.offset
      /\ wide.filter = n.filter /\ wide.prefilter = n.prefilter
  BY <1>1, <1>2, Widened
<1> HIDE DEF wide
<1>5. Ranking(fts) /\ ToSet(fts) \subseteq F /\ (ahead => Leads(text, fts, F))
  <2>1. l = IF "fts" = "vector" THEN wide.k ELSE wide.limit
    BY <1>4
  <2>2. /\ Ranking(Scan("fts", wide, text)) /\ ToSet(Scan("fts", wide, text)) \subseteq ToSet(text) \cap wide.filter
        /\ ("fts" = "scan" \/ wide.prefilter) /\ ("fts" = "vector" \/ wide.offset = 0)
               => Leads(text, Scan("fts", wide, text), wide.filter)
    BY ONLY <1>1, <1>4, <2>1, ScanRanking
  <2> QED BY <1>4, <2>2
<1>6. Ranking(vec) /\ ToSet(vec) \subseteq F /\ (ahead => Leads(near, vec, F))
  <2>1. k = IF "vector" = "vector" THEN n.k ELSE n.limit
    OBVIOUS
  <2> HIDE DEF k
  <2>2. /\ Ranking(Scan("vector", n, near)) /\ ToSet(Scan("vector", n, near)) \subseteq ToSet(near) \cap n.filter
        /\ ("vector" = "scan" \/ n.prefilter) /\ ("vector" = "vector" \/ n.offset = 0)
               => Leads(near, Scan("vector", n, near), n.filter)
    BY ONLY <1>1, <2>1, ScanRanking
  <2> QED BY <2>2
<1> HIDE DEF fts, vec, k, F, ahead
<1>7. /\ Ranking(rows) /\ ToSet(rows) \subseteq ToSet(fts) \cup ToSet(vec) /\ Len(rows) <= k
      /\ \A r, t \in ToSet(rows) : BothAhead(fts, vec, r, t) => RankIn(rows, r) < RankIn(rows, t)
  BY ONLY <1>1, <1>3, <1>5, <1>6, FuseFacts
<1>8. ToSet(rows) \subseteq F
  BY <1>5, <1>6, <1>7
<1> DEFINE Ahead(s, r, t) == RankIn(s, r) # 0 /\ (RankIn(s, t) = 0 \/ RankIn(s, r) < RankIn(s, t))
<1>9. ASSUME ahead, NEW r \in ToSet(rows), NEW t \in ToSet(rows), Ahead(text, r, t), Ahead(near, r, t)
      PROVE  RankIn(rows, r) < RankIn(rows, t)
  <2>1. r \in F
    BY <1>8
  <2>2. RankIn(fts, t) # 0 => RankIn(fts, r) # 0 /\ RankIn(fts, r) < RankIn(fts, t)
    BY <1>1, <1>5, <1>9, <2>1, AheadDrawn
  <2>3. RankIn(vec, t) # 0 => RankIn(vec, r) # 0 /\ RankIn(vec, r) < RankIn(vec, t)
    BY <1>1, <1>6, <1>9, <2>1, AheadDrawn
  <2>4. BothAhead(fts, vec, r, t)
    BY <2>2, <2>3 DEF BothAhead
  <2> QED BY <1>7, <2>4
<1> QED BY <1>7, <1>8, <1>9 DEF rows, text, near, k, F, ahead

\* An answer, in its parts.
LEMMA RunParts ==
    ASSUME NEW spec, NEW indices, NEW own, NEW n, n = Running(spec, indices)
    PROVE  /\ Run(spec, indices).rows = IF n.mode = "hybrid" THEN Hybrid(n) ELSE Leg(n)
           /\ Ranked(Normalised(spec), IF spec.metric = "none" THEN own ELSE spec.metric) = n
                  => LanceScript(spec, own) = Leg(n)
           /\ n.mode # "hybrid" => LancedbScript(spec, indices) = Leg(n)
           /\ n.mode = "hybrid" => LancedbScript(spec, indices) = Fuse(Scan("fts", [n EXCEPT !.limit = n.k, !.offset = 0], n.text),
                                                                      Scan("vector", n, n.near), n.k)
<1> DEFINE rows == IF n.mode = "hybrid" THEN Hybrid(n) ELSE Leg(n)
           cut == n.mode = "scan" /\ n.offset + Len(rows) < Cardinality(n.filter)
<1>1. Run(spec, indices) = [rows |-> rows, truncated |-> cut]
  BY DEF Run
<1>2. Run(spec, indices).rows = rows
  <2> HIDE DEF rows, cut
  <2> QED BY <1>1
<1>3. /\ n.mode # "hybrid" => LancedbScript(spec, indices) = Leg(n)
      /\ n.mode = "hybrid" => LancedbScript(spec, indices) = Fuse(Scan("fts", [n EXCEPT !.limit = n.k, !.offset = 0], n.text),
                                                                 Scan("vector", n, n.near), n.k)
  BY DEF LancedbScript
<1>4. Ranked(Normalised(spec), IF spec.metric = "none" THEN own ELSE spec.metric) = n
          => LanceScript(spec, own) = Leg(n)
  BY DEF LanceScript
<1> QED BY <1>2, <1>3, <1>4

\* A scan says that it was cut exactly when a page more has a row, or was cut itself.
LEMMA NextPage ==
    ASSUME NEW spec, IsSearch(spec), spec.mode = "scan", NEW n, n = Normalised(spec), NEW indices
    PROVE  LET next == Run([n EXCEPT !.offset = @ + n.limit], indices)
           IN  Run(spec, indices).truncated = (next.rows # <<>> \/ next.truncated)
<1> DEFINE F == spec.filter
           m == Cardinality(F)
           o == spec.offset
           l == n.limit
           here == Run(spec, indices)
           onward == [n EXCEPT !.offset = n.offset + n.limit]
           next == Run(onward, indices)
           b == Normalised(onward)
<1>1. /\ IsSearch(n) /\ n.mode = "scan" /\ n.offset = o /\ n.filter = F /\ l \in 1..MaxLimit
  <2>1. /\ IsSearch(n) /\ l \in 1..MaxLimit /\ \A f \in DOMAIN spec : f # "limit" /\ f # "k" => n[f] = spec[f]
    BY NormalisedFacts
  <2> QED BY <2>1 DEF IsSearch
<1>2. /\ MaxLimit \in Nat \ {0} /\ o \in Nat /\ F \in SUBSET Row /\ l \in Nat /\ l >= 1
  <2>1. MaxLimit \in Nat \ {0}
    BY QueriesAssumption
  <2>2. o \in Nat /\ F \in SUBSET Row
    BY DEF IsSearch
  <2>3. l \in Nat /\ l >= 1
    <3> HIDE DEF l
    <3> QED BY <1>1, <2>1
  <2> QED BY <2>1, <2>2, <2>3
<1>3. m \in Nat
  <2>1. F \in SUBSET Row
    BY <1>2
  <2> HIDE DEF F
  <2>2. Cardinality(F) \in 0..3
    BY ONLY <2>1, LyingFacts
  <2> QED BY <2>2
<1>4. [n EXCEPT !.offset = @ + n.limit] = onward
  <2>1. "offset" \in DOMAIN n
    BY <1>1 DEF IsSearch
  <2> QED BY ONLY <2>1
<1>5. /\ IsSearch(onward) /\ onward.mode = "scan" /\ onward.offset = o + l /\ onward.filter = F
      /\ onward.limit = l
  BY <1>1, <1>2 DEF IsSearch
<1> HIDE DEF onward
<1>6. b.limit = l
  <2>1. b.limit = Greater(1, Lesser(onward.limit, MaxLimit))
    BY <1>5, NormalisedFacts
  <2> HIDE DEF l, b
  <2> QED BY <1>1, <1>2, <1>5, <2>1 DEF Greater, Lesser
<1>7. /\ Len(here.rows) = PageLength(m, o, l) /\ here.truncated = (o + Len(here.rows) < m)
  BY ScanRows
<1>8. /\ next.rows = Page(At([r \in Row |-> r], F), o + l, l)
      /\ Len(next.rows) = PageLength(m, o + l, l) /\ next.truncated = (o + l + Len(next.rows) < m)
  <2> HIDE DEF next, b
  <2>1. /\ next.rows = Page(At([r \in Row |-> r], onward.filter), onward.offset, b.limit)
        /\ Len(next.rows) = PageLength(Cardinality(onward.filter), onward.offset, b.limit)
        /\ next.truncated = (onward.offset + Len(next.rows) < Cardinality(onward.filter))
    BY ONLY <1>5, ScanRows DEF next, b
  <2> QED BY ONLY <1>5, <1>6, <2>1 DEF m
<1>9. next.rows \in Seq(Row)
  <2> DEFINE s == At([r \in Row |-> r], F)
             p == o + l
  <2>1. s \in Seq(Row) /\ p \in Nat /\ l \in Nat
    BY <1>2, LyingFacts
  <2> HIDE DEF s, p, l
  <2>2. Page(s, p, l) \in Seq(Row)
    BY ONLY <2>1, PageFacts
  <2> QED BY ONLY <1>8, <2>2 DEF s, p
<1> DEFINE rows == next.rows
<1>10. rows # <<>> <=> Len(rows) # 0
  <2> HIDE DEF rows
  <2> QED BY <1>9, EmptySeq DEF rows
<1> DEFINE x == PageLength(m, o, l)
           y == PageLength(m, o + l, l)
<1> HIDE DEF F, m, o, l, here, next
<1>11. (o + x < m) <=> (y # 0 \/ o + l + y < m)
  BY <1>2, <1>3 DEF PageLength, Lesser
<1> HIDE DEF x, y
<1>12. here.truncated = (o + x < m) /\ next.truncated = (o + l + y < m) /\ (next.rows # <<>> <=> y # 0)
  BY <1>7, <1>8, <1>10 DEF x, y
<1> DEFINE more == o + l + y < m
           some == next.rows # <<>>
<1>13. here.truncated = (some \/ next.truncated)
  <2>1. next.truncated = more /\ here.truncated = (o + x < m) /\ ((o + x < m) <=> (some \/ more))
    BY ONLY <1>11, <1>12
  <2> HIDE DEF more, some
  <2>2. here.truncated = (some \/ more)
    BY <2>1
  <2> QED BY <2>1, <2>2
<1> QED BY ONLY <1>4, <1>13 DEF here, next

\* A search, and the ranking Lance has by each metric.
IsAsked(spec) ==
    /\ IsSearch(spec) /\ {"text", "near", "metric"} \subseteq DOMAIN spec
    /\ spec.mode \in {"scan", "fts", "vector", "hybrid"} /\ spec.metric \in {"none", "l2", "cosine"}
    /\ Ranking(spec.text) /\ Ranking(spec.near["l2"]) /\ Ranking(spec.near["cosine"])

\* The searches that are asked for.
LEMMA AskedRuns ==
    ASSUME call \in RunCalls
    PROVE  IsAsked(call.spec) /\ call.own \in {"l2", "cosine"} /\ call.indices \in Seq(Index)
<1> DEFINE spec == call.spec
           Texts == {<<>>, <<2>>, <<2, 1>>, <<3, 2>>, <<3, 2, 1>>, <<2, 3, 1>>}
           distances == [l2 |-> <<1, 2, 3>>, cosine |-> <<2, 1, 3>>]
<1>1. /\ spec \in [mode : {"scan", "fts", "vector", "hybrid"}, limit : 0..2, offset : 0..2, k : 0..2,
                   prefilter : BOOLEAN, filter : SUBSET Row, metric : {"none", "l2", "cosine"},
                   text : Texts, near : {distances}]
      /\ call.own \in {"l2", "cosine"}
  BY DEF RunCalls
<1>2. \A s \in Texts : Ranking(s)
  <2>1. ASSUME NEW s \in Texts PROVE s \in Seq(1..3)
    <3>1. <<>> \in Seq(1..3)
      OBVIOUS
    <3>2. <<2>> \in Seq(1..3)
      OBVIOUS
    <3>3. <<2, 1>> \in Seq(1..3) /\ <<3, 2>> \in Seq(1..3)
      OBVIOUS
    <3>4. <<3, 2, 1>> \in Seq(1..3) /\ <<2, 3, 1>> \in Seq(1..3)
      OBVIOUS
    <3> QED BY <3>1, <3>2, <3>3, <3>4
  <2>2. ASSUME NEW s \in Texts PROVE IsInjective(s)
    BY DEF IsInjective
  <2> QED BY <2>1, <2>2 DEF Ranking, Row
<1>3. Ranking(distances["l2"]) /\ Ranking(distances["cosine"])
  <2>1. Ranking(<<1, 2, 3>>)
    BY DEF Ranking, Row, IsInjective
  <2>2. Ranking(<<2, 1, 3>>)
    BY DEF Ranking, Row, IsInjective
  <2> QED BY <2>1, <2>2
<1>4. call.indices \in Seq(Index)
  <2>1. call.indices \in {<<>>} \cup {<<i>> : i \in [on : {"v"}, type : {"ann"}, metric : {"l2", "cosine"}]}
    BY DEF RunCalls
  <2>2. \A i \in [on : {"v"}, type : {"ann"}, metric : {"l2", "cosine"}] : i \in Index
    BY DEF Index
  <2>3. \A i \in Index : <<i>> \in Seq(Index)
    OBVIOUS
  <2>4. <<>> \in Seq(Index)
    OBVIOUS
  <2> QED BY <2>1, <2>2, <2>3, <2>4
<1> HIDE DEF spec, Texts, distances
<1>5. /\ spec.mode \in {"scan", "fts", "vector", "hybrid"} /\ spec.limit \in 0..2 /\ spec.offset \in 0..2
      /\ spec.k \in 0..2 /\ spec.prefilter \in BOOLEAN /\ spec.filter \in SUBSET Row
      /\ spec.metric \in {"none", "l2", "cosine"} /\ spec.text \in Texts /\ spec.near = distances
      /\ DOMAIN spec = {"mode", "limit", "offset", "k", "prefilter", "filter", "metric", "text", "near"}
      /\ spec = [f \in DOMAIN spec |-> spec[f]]
  BY <1>1
<1>6. IsSearch(spec)
  BY <1>5 DEF IsSearch
<1>7. IsAsked(spec)
  BY <1>2, <1>3, <1>5, <1>6 DEF IsAsked
<1> QED BY <1>1, <1>4, <1>7 DEF spec

\* The spec that runs is one of rankings, and differs from what was asked only in what is
\* put in bounds.
LEMMA RunningFacts ==
    ASSUME NEW spec, IsAsked(spec), NEW indices \in Seq(Index), NEW n, n = Running(spec, indices)
    PROVE  /\ IsRanked(n) /\ n.mode = spec.mode /\ n.limit \in Nat /\ n.k \in Nat
           /\ spec.mode \in {"scan", "fts"} => n = Normalised(spec)
<1> DEFINE m == Normalised(spec)
           metric == SearchMetric(spec, indices)
<1>1. IsSearch(spec) /\ {"text", "near", "metric"} \subseteq DOMAIN spec /\ m = Normalised(spec)
  BY DEF IsAsked
<1>2. metric \in {"l2", "cosine"}
  BY IndexFacts DEF SearchMetric, IsAsked
<1>3. n = IF m.mode \in {"vector", "hybrid"} THEN [m EXCEPT !.near = m.near[metric]] ELSE m
  BY DEF Running, Ranked
<1> HIDE DEF m, metric
<1>4. /\ IsSearch(m) /\ DOMAIN m = DOMAIN spec
      /\ \A f \in DOMAIN spec : f # "limit" /\ f # "k" => m[f] = spec[f]
  BY ONLY <1>1, NormalisedFacts
<1>5. /\ m.text = spec.text /\ m.near = spec.near /\ m.mode = spec.mode
      /\ {"text", "near"} \subseteq DOMAIN m
  BY <1>1, <1>4 DEF IsSearch
<1>6. m.mode \in {"scan", "fts", "vector", "hybrid"} /\ Ranking(m.text) /\ Ranking(m.near[metric])
  BY <1>2, <1>5 DEF IsAsked
<1>7. CASE m.mode \notin {"vector", "hybrid"}
  <2>1. n = m
    BY <1>3, <1>7
  <2>2. n.limit \in Nat /\ n.k \in Nat
    BY <1>4, <2>1 DEF IsSearch
  <2> QED BY <1>4, <1>5, <1>6, <1>7, <2>1, <2>2 DEF IsRanked, m
<1>8. CASE m.mode \in {"vector", "hybrid"}
  <2> DEFINE near == m.near[metric]
  <2>1. n = [m EXCEPT !.near = near]
    BY <1>3, <1>8
  <2> HIDE DEF near
  <2>2. m = [f \in DOMAIN m |-> m[f]]
    BY <1>4 DEF IsSearch
  <2>3. /\ DOMAIN n = DOMAIN m /\ n = [f \in DOMAIN n |-> n[f]] /\ n.near = near
        /\ \A f \in DOMAIN m : f # "near" => n[f] = m[f]
    BY <1>5, <2>1, <2>2
  <2>4. IsSearch(n) /\ n.text = m.text /\ n.mode = m.mode
    BY <1>4, <1>5, <2>3 DEF IsSearch
  <2>5. IsRanked(n)
    BY <1>5, <1>6, <2>3, <2>4 DEF IsRanked, near
  <2>6. n.limit \in Nat /\ n.k \in Nat
    BY <2>4 DEF IsSearch
  <2> QED BY <1>5, <1>8, <2>4, <2>5, <2>6
<1> QED BY <1>7, <1>8

LEMMA QueryRows == QueryIInv => RowsAreTheRows
<1> SUFFICES ASSUME QueryIInv, Answered("run") PROVE RowsAreTheRows
  BY DEF RowsAreTheRows
<1> DEFINE given == call.spec
           indices == call.indices
           own == call.own
           n == Running(given, indices)
           rows == answer.rows
           hybrid == n.mode = "hybrid"
           Ahead(s, r, t) == RankIn(s, r) # 0 /\ (RankIn(s, t) = 0 \/ RankIn(s, r) < RankIn(s, t))
           meant == \/ n.mode \in {"scan", "fts"}
                    \/ n.mode = "vector" /\ given.metric # "none"
                    \/ n.mode = "vector" /\ own = SearchMetric(given, indices)
<1>1. /\ call \in RunCalls
      /\ answer = [rows |-> Run(given, indices).rows, truncated |-> Run(given, indices).truncated,
                   lance |-> LanceScript(given, own), lancedb |-> LancedbScript(given, indices)]
  BY QueryCallFacts DEF Answered, QueryIInv
<1>2. IsAsked(given) /\ indices \in Seq(Index)
  BY <1>1, AskedRuns
<1> HIDE DEF given, indices, own
<1>3. /\ rows = Run(given, indices).rows /\ answer.truncated = Run(given, indices).truncated
      /\ answer.lance = LanceScript(given, own) /\ answer.lancedb = LancedbScript(given, indices)
  <2> DEFINE a == Run(given, indices).rows
             b == Run(given, indices).truncated
             c == LanceScript(given, own)
             d == LancedbScript(given, indices)
  <2>1. answer = [rows |-> a, truncated |-> b, lance |-> c, lancedb |-> d]
    BY <1>1
  <2> HIDE DEF a, b, c, d
  <2>2. answer.rows = a /\ answer.truncated = b /\ answer.lance = c /\ answer.lancedb = d
    BY ONLY <2>1
  <2> QED BY ONLY <2>2 DEF a, b, c, d
<1>4. /\ IsRanked(n) /\ n.mode = given.mode /\ n.limit \in Nat /\ n.k \in Nat
      /\ given.mode \in {"scan", "fts"} => n = Normalised(given)
  <2> DEFINE m == n
  <2>1. m = Running(given, indices)
    OBVIOUS
  <2> HIDE DEF m
  <2>2. /\ IsRanked(m) /\ m.mode = given.mode /\ m.limit \in Nat /\ m.k \in Nat
        /\ given.mode \in {"scan", "fts"} => m = Normalised(given)
    BY ONLY <1>2, <2>1, RunningFacts
  <2> QED BY ONLY <2>2 DEF m
<1>5. /\ rows = IF hybrid THEN Hybrid(n) ELSE Leg(n)
      /\ meant => answer.lance = Leg(n)
      /\ ~hybrid => answer.lancedb = Leg(n)
      /\ hybrid => answer.lancedb = Fuse(Scan("fts", [n EXCEPT !.limit = n.k, !.offset = 0], n.text),
                                         Scan("vector", n, n.near), n.k)
  <2> DEFINE m == n
             scripted == Ranked(Normalised(given), IF given.metric = "none" THEN own ELSE given.metric)
  <2>1. m = Running(given, indices)
    OBVIOUS
  <2>2. meant => scripted = m
    <3>1. CASE n.mode \in {"scan", "fts"}
      <4>1. n = Normalised(given)
        BY <1>4, <3>1
      <4>2. scripted = Normalised(given)
        <5>1. Normalised(given).mode \in {"scan", "fts"}
          BY <3>1, <4>1
        <5> QED BY <5>1 DEF Ranked
      <4> QED BY <4>1, <4>2
    <3>2. CASE n.mode = "vector" /\ (given.metric # "none" \/ own = SearchMetric(given, indices))
      BY <3>2 DEF Running, SearchMetric
    <3> QED BY <3>1, <3>2
  <2> HIDE DEF m
  <2>3. /\ Run(given, indices).rows = IF m.mode = "hybrid" THEN Hybrid(m) ELSE Leg(m)
        /\ scripted = m => LanceScript(given, own) = Leg(m)
        /\ m.mode # "hybrid" => LancedbScript(given, indices) = Leg(m)
        /\ m.mode = "hybrid" => LancedbScript(given, indices) = Fuse(Scan("fts", [m EXCEPT !.limit = m.k, !.offset = 0], m.text),
                                                                    Scan("vector", m, m.near), m.k)
    BY ONLY <2>1, RunParts
  <2> HIDE DEF scripted, meant
  <2> QED BY ONLY <1>3, <2>2, <2>3 DEF m
<1> DEFINE most == IF n.mode \in {"scan", "fts"} THEN n.limit ELSE n.k
           next == Run([n EXCEPT !.offset = @ + n.limit], indices)
<1>6. n.mode = "scan" => answer.truncated = (next.rows # <<>> \/ next.truncated)
  <2> DEFINE m == n
  <2>1. IsSearch(given) /\ (given.mode = "scan" => m = Normalised(given))
    BY <1>2, <1>4 DEF IsAsked
  <2>2. m.mode = given.mode
    BY <1>4
  <2> HIDE DEF m
  <2>3. m.mode = "scan" =>
            Run(given, indices).truncated = (Run([m EXCEPT !.offset = @ + m.limit], indices).rows # <<>>
                                       \/ Run([m EXCEPT !.offset = @ + m.limit], indices).truncated)
    BY ONLY <2>1, <2>2, NextPage
  <2> QED BY ONLY <1>3, <2>3 DEF m
<1> HIDE DEF n, next
<1>7. ASSUME hybrid
      PROVE  /\ Ranking(rows) /\ ToSet(rows) \subseteq n.filter /\ Len(rows) <= n.k
             /\ n.offset = 0 /\ n.prefilter =>
                    \A r, t \in ToSet(rows) :
                        Ahead(n.text, r, t) /\ Ahead(n.near, r, t) => RankIn(rows, r) < RankIn(rows, t)
  <2>1. rows = Hybrid(n)
    BY <1>5, <1>7
  <2>2. n.mode = "hybrid"
    BY <1>7
  <2> HIDE DEF rows
  <2> QED BY ONLY <1>4, <2>1, <2>2, HybridRanking
<1>8. ASSUME ~hybrid
      PROVE  Ranking(rows) /\ ToSet(rows) \subseteq n.filter /\ Len(rows) <= most
  <2>1. rows = Leg(n)
    BY <1>5, <1>8
  <2>2. /\ Ranking(Leg(n)) /\ ToSet(Leg(n)) \subseteq n.filter
        /\ Len(Leg(n)) <= IF n.mode = "vector" THEN n.k ELSE n.limit
    BY ONLY <1>4, LegRanking
  <2>3. n.mode \in {"scan", "fts", "vector"}
    BY <1>2, <1>4, <1>8 DEF IsAsked
  <2> HIDE DEF rows
  <2> QED BY ONLY <2>1, <2>2, <2>3 DEF most
<1>9. ASSUME hybrid, n.offset = 0, n.limit <= n.k PROVE answer.lancedb = rows
  <2> DEFINE asked == [n EXCEPT !.limit = n.k, !.offset = 0]
             wide == [n EXCEPT !.limit = Greater(n.k, @)]
  <2>1. asked = wide
    <3>1. n = [f \in DOMAIN n |-> n[f]] /\ "limit" \in DOMAIN n /\ "offset" \in DOMAIN n
      BY <1>4 DEF IsRanked, IsSearch
    <3>2. Greater(n.k, n.limit) = n.k
      BY <1>4, <1>9 DEF Greater
    <3>3. wide = [n EXCEPT !.limit = n.k]
      BY <3>1, <3>2
    <3> DEFINE some == [n EXCEPT !.limit = n.k]
    <3>4. some.offset = 0 /\ some = [f \in DOMAIN some |-> some[f]] /\ asked = [some EXCEPT !.offset = 0]
      BY <1>9, <3>1
    <3> HIDE DEF some, asked
    <3>5. asked = some
      BY <3>4
    <3> QED BY <3>3, <3>5 DEF some
  <2>2. Hybrid(n) = Fuse(Scan("fts", wide, n.text), Scan("vector", n, n.near), n.k)
    BY DEF Hybrid
  <2> HIDE DEF asked, wide, rows
  <2>3. answer.lancedb = Fuse(Scan("fts", asked, n.text), Scan("vector", n, n.near), n.k)
    BY <1>5, <1>9 DEF asked
  <2> QED BY <1>5, <1>9, <2>1, <2>2, <2>3
<1>10. /\ IsInjective(rows) /\ ToSet(rows) \subseteq n.filter /\ Len(rows) <= most
  <2>1. Ranking(rows) /\ ToSet(rows) \subseteq n.filter /\ Len(rows) <= most
    <3>1. hybrid => most = n.k
      OBVIOUS
    <3> HIDE DEF rows, most
    <3> QED BY <1>7, <1>8, <3>1
  <2> HIDE DEF rows, most
  <2> QED BY <2>1 DEF Ranking
<1>11. hybrid /\ n.offset = 0 /\ n.prefilter =>
           \A r, t \in ToSet(rows) :
               Ahead(n.text, r, t) /\ Ahead(n.near, r, t) => RankIn(rows, r) < RankIn(rows, t)
  BY <1>7
<1>12. /\ ~hybrid => answer.lancedb = rows
       /\ meant => answer.lance = rows
       /\ hybrid /\ n.offset = 0 /\ n.limit <= n.k => answer.lancedb = rows
  BY <1>5, <1>9
<1> HIDE DEF rows, most
<1> QED BY <1>6, <1>10, <1>11, <1>12
        DEF RowsAreTheRows, rows, most, n, given, indices, own, next

--------------------------------------------------------------------------

\* Whatever is asked of a table, nothing heavy comes uninvited and the path is explained, the
\* rows are those that match, once each and in their order, the values offered are the
\* column's, what a scan would weigh is bounded by its files, and what differs between two
\* versions adds up.
THEOREM QueriesHonest == Spec => []QueriesAreHonest
<1>1. QueryIInv => QueriesAreHonest
  BY QueryProjects, QueryPaths, QueryRows, QueryValues, QueryWeights, QueryDiffers
     DEF QueriesAreHonest
<1> QED BY <1>1, InitQueryIInv, NextQueryIInv, PTL DEF Spec
====
