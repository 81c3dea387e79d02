---- MODULE LanguageLayer ----
(***************************************************************************)
(* The language layer, apart from the loop (Agent), the ledger's file and  *)
(* the cache: which provider the settings come to and what a picker is     *)
(* offered for it (intel/config.py, catalog.py, registry.py), how a        *)
(* transcript is worded for it and what becomes of its reply               *)
(* (providers.py), a sentence made into a filter and the history of the    *)
(* spend (routes/intel.py), the tools (toolset.py) and the secrets kept in *)
(* a file (credentials.py).  The services that answer are external.        *)
(***************************************************************************)
EXTENDS Asked, SequencesExt

CONSTANTS FacetProbe, FacetSample, FacetMost,   \* of tasks.py: 128, 10000, 40
          MaxRows,                              \* of a read_rows call: 100
          HistoryDays, Half                     \* days of history; a day is two halves

ASSUME LanguageAssumption ==
    /\ {FacetProbe, FacetSample, FacetMost, MaxRows, HistoryDays} \subseteq Nat \ {0}
    /\ Half \in {0, 1}

Unset == "unset"
None(why) == [provider |-> "none", why |-> why, available |-> FALSE]
Chosen(given, otherwise) == IF given = Unset THEN otherwise ELSE given

--------------------------------------------------------------------------
(* Who answers, and with which model. *)

Registry == {"opus", "haiku"}       \* priced, and the only ones known to hold tools
KnownGood == "qwen"
Pulled == {KnownGood, "own"}

\* _pick_local.
PickLocal(configured, pulled) ==
    IF configured # Unset THEN configured
    ELSE IF KnownGood \in pulled THEN KnownGood
    ELSE IF pulled # {} THEN CHOOSE m \in pulled : TRUE
    ELSE Unset

Using(provider, deep, fast) ==
    [provider |-> provider, available |-> TRUE, deep |-> deep, fast |-> Chosen(fast, deep),
     tools |-> deep \in Registry]

\* resolve: what the settings say, else what is there; an explicit choice is never
\* replaced by another that works, and auto never picks an endpoint.
Resolve(s) ==
    LET local == PickLocal(s.model, s.pulled)
    IN  IF ~s.enabled THEN None("off")
        ELSE IF s.want \in {"anthropic", "auto"} /\ "anthropic" \in s.keys THEN
             Using("anthropic", Chosen(s.model, "opus"), s.fast)
        ELSE IF s.want = "anthropic" THEN None("no_key")
        ELSE IF s.want \in {"ollama", "auto"} /\ s.daemon THEN
             IF local = Unset THEN None("no_models") ELSE Using("ollama", local, s.fast)
        ELSE IF s.want = "ollama" THEN None("no_daemon")
        ELSE IF s.want = "openai-compat" THEN
             IF ~s.base THEN None("no_base_URL")
             ELSE IF s.model = Unset THEN None("no_model")
             ELSE Using("openai-compat", s.model, s.fast)
        ELSE None("nothing")

\* cost_usd: of one call; what is run here is free, a price nobody knows is unknown.
Cost(provider, model) ==
    IF provider = "ollama" THEN "free"
    ELSE IF model \in Registry THEN "priced"
    ELSE "unknown"

Option(id, source) ==
    [id |-> id, source |-> source,
     cost |-> IF source = "installed" THEN "free" ELSE IF source = "registry" THEN "priced" ELSE "unknown"]
NoOptions(p) == [provider |-> p, options |-> {}, reachable |-> FALSE]

\* models_for: what a picker is offered for the provider auto has found.
ModelsFor(s) ==
    LET p == IF s.want = "auto" THEN Resolve(s).provider ELSE s.want
        Offer(S) == [provider |-> p, options |-> S, reachable |-> TRUE]
    IN  IF p = "anthropic" THEN Offer({Option(m, "registry") : m \in Registry})
        ELSE IF p = "ollama" /\ s.daemon THEN Offer({Option(m, "installed") : m \in s.pulled})
        ELSE IF p = "openai-compat" /\ s.base /\ s.serves THEN
             Offer({Option("opus", "registry"), Option("own", "endpoint")})
        ELSE NoOptions(p)

ResolveCalls ==
    [op : {"resolve"},
     s : [enabled : BOOLEAN, want : {"auto", "anthropic", "ollama", "openai-compat", "none", "typo"},
          keys : SUBSET {"anthropic", "openai-compat"}, daemon : BOOLEAN, pulled : SUBSET Pulled,
          model : {Unset, "own", "opus"}, fast : {Unset, "haiku"}, base : BOOLEAN, serves : BOOLEAN]]

AnswerResolve ==
    Reply("resolve", [used |-> Resolve(call.s), picker |-> ModelsFor(call.s)])

--------------------------------------------------------------------------
(* A transcript, in each provider's words.  A round is a turn that called tools, by the  *)
(* ids of its calls, and the result of each; the loop makes no other turn.                *)

Message(role, ids, said) == [role |-> role, ids |-> ids, said |-> said]

TurnOf(round) ==
    <<Message("assistant", round.ids, round.said)>>
        \o [j \in DOMAIN round.ids |-> Message("tool", <<round.ids[j]>>, TRUE)]

Transcript(rounds) ==
    LET upto[n \in 0..Len(rounds)] ==
            IF n = 0 THEN <<Message("user", <<>>, TRUE)>> ELSE upto[n - 1] \o TurnOf(rounds[n])
    IN  upto[Len(rounds)]

Worded(m) == [role |-> m.role, ids |-> m.ids]

\* flush: the results that wait are one message, and it is the user's.
Flushed(w) ==
    IF w.pending = <<>> THEN w.out ELSE Append(w.out, [role |-> "user", ids |-> w.pending])

\* A turn with neither words nor calls is dropped.
Added(w, m) ==
    IF m.role = "tool" THEN [out |-> w.out, pending |-> w.pending \o m.ids]
    ELSE [out |-> IF ~m.said /\ m.ids = <<>> THEN Flushed(w) ELSE Append(Flushed(w), Worded(m)),
          pending |-> <<>>]

\* _wire.
AnthropicWire(messages) ==
    LET upto[n \in 0..Len(messages)] ==
            IF n = 0 THEN [out |-> <<>>, pending |-> <<>>] ELSE Added(upto[n - 1], messages[n])
    IN  Flushed(upto[Len(messages)])

\* _openai_wire: message by message.
OpenAIWire(messages) == [i \in DOMAIN messages |-> Worded(messages[i])]

WireCalls ==
    [op : {"wire"},
     rounds : LET Round == [ids : {<<"a">>, <<"a", "b">>, <<"b", "c", "a">>}, said : BOOLEAN]
              IN  UNION {[1..n -> Round] : n \in 0..3}]

AnswerWire ==
    LET t == Transcript(call.rounds)
    IN  Reply("wire", [anthropic |-> AnthropicWire(t), openai |-> OpenAIWire(t)])

--------------------------------------------------------------------------
(* What becomes of a reply. *)

Transport == {"rejected", "not_found", "rate_limited", "server_error", "unreachable", "not_JSON"}
Body == {"fine", "declined", "no_choices", "prose", "prose_arguments"}

Failed(retryable) == [kind |-> "error", retryable |-> retryable, metered |-> FALSE]
Answer == [kind |-> "answer", retryable |-> FALSE, metered |-> TRUE]

\* complete (with a schema) and converse, of each provider: which failures are said to be
\* worth another try, and which bodies that came are no answer.  A rate limit is worth one
\* to Anthropic alone, and a server's own error is not to ollama.
AnthropicReply(method, outcome) ==
    IF outcome \in Transport THEN Failed(outcome \in {"rate_limited", "server_error", "unreachable"})
    ELSE IF outcome = "declined" \/ (outcome = "prose" /\ method = "complete") THEN Failed(FALSE)
    ELSE Answer

OllamaReply(method, outcome) ==
    IF outcome \in Transport THEN Failed(outcome \in {"unreachable", "not_JSON"})
    ELSE IF <<method, outcome>> \in {<<"complete", "prose">>, <<"converse", "prose_arguments">>} THEN
         Failed(FALSE)
    ELSE Answer

CompatReply(method, outcome) ==
    IF outcome \in Transport THEN Failed(outcome \in {"server_error", "unreachable", "not_JSON"})
    ELSE IF \/ outcome = "no_choices"
            \/ <<method, outcome>> \in {<<"complete", "prose">>, <<"converse", "prose_arguments">>} THEN
         Failed(FALSE)
    ELSE Answer

\* provider_for, and the call through the meter, which is told of answers only.
Outcome(provider, method, outcome) ==
    CASE provider = "anthropic"     -> AnthropicReply(method, outcome)
      [] provider = "ollama"        -> OllamaReply(method, outcome)
      [] provider = "openai-compat" -> CompatReply(method, outcome)
      [] OTHER -> [kind |-> "no_provider", retryable |-> FALSE, metered |-> FALSE]

OutcomeCalls ==
    [op : {"outcome"}, provider : {"anthropic", "ollama", "openai-compat", "none"},
     method : {"complete", "converse"}, outcome : Transport \cup Body]

AnswerOutcome == Reply("outcome", Outcome(call.provider, call.method, call.outcome))

--------------------------------------------------------------------------
(* A sentence made into a filter. *)

\* build_filter_context: a column's values, where the first rows make a short list and so
\* do more of them.
Faceted(values) ==
    LET First(n) == ToSet(SubSeq(values, 1, Lesser(n, Len(values))))
        Brief(S) == Cardinality(S) \in 1..FacetMost
    IN  IF Brief(First(FacetProbe)) /\ Brief(First(FacetSample)) THEN First(FacetSample) ELSE {}

\* Mutant: whoever says nothing is taken to agree.
SendValuesUnasked(asked, loopback, provider) == asked # "no"

\* _should_send_values: as asked, and unasked only where they stay on this machine.
SendValues(asked, loopback, provider) ==
    CASE asked = "yes" -> TRUE [] asked = "no" -> FALSE
      [] OTHER -> loopback /\ provider \in {"ollama", "openai-compat"}

\* nl_filter: a draft is returned whatever Lance makes of it, and counted if it names a
\* column.  The columns that were sent are reported with every outcome.
FilterDraft(c) ==
    LET sent == IF SendValues(c.asked, c.loopback, c.provider) THEN Faceted(c.values) ELSE {}
        kind == Outcome(c.provider, "complete", c.outcome).kind
        Said(ok, valid) == [ok |-> ok, valid |-> valid, sent |-> sent]
    IN  IF c.ceiling \/ kind # "answer" THEN Said(FALSE, FALSE)
        ELSE IF c.draft \in {"refused", "empty", "no_column", "unreadable"} THEN Said(TRUE, FALSE)
        ELSE Said(TRUE, TRUE)

FilterCalls ==
    [op : {"filter"}, asked : {"yes", "no", Unset}, loopback : BOOLEAN, ceiling : BOOLEAN,
     provider : {"anthropic", "ollama", "openai-compat", "none"},
     outcome : {"fine", "prose", "unreachable"},
     draft : {"refused", "empty", "no_column", "unreadable", "runs"},
     values : UNION {[1..n -> {"x", "y", "z"}] : n \in 0..3}]

AnswerFilter == Reply("filter", FilterDraft(call))

--------------------------------------------------------------------------
(* The history of the spend.  Time is in halves of days; now is the given half of the     *)
(* last day, 0.                                                                            *)

Day(ts) == ts \div 2

\* _fold, of the lines at some places: a cached line is not a call; an unknown price is
\* counted and not guessed.
Fold(ledger, places) ==
    LET calls == {i \in places : ~ledger[i].cached}
        priced == {i \in calls : ledger[i].usd # -1}
        hits == places \ calls
        Usd(S) == SumOf(S, LAMBDA i : ledger[i].usd)
    IN  [calls |-> Cardinality(calls), usd |-> Usd(priced), unpriced |-> Cardinality(calls \ priced),
         hits |-> Cardinality(hits), avoided |-> Usd(hits)]

\* spend_history: the lines of the window, by day, by task and by model.
SpendHistory(ledger) ==
    LET rows == {i \in DOMAIN ledger : ledger[i].ts >= Half - 2 * HistoryDays}
        By(f) == [t \in {ledger[i][f] : i \in rows} |-> Fold(ledger, {i \in rows : ledger[i][f] = t})]
    IN  [totals |-> Fold(ledger, rows),
         daily |-> [d \in 1 - HistoryDays..0 |-> Fold(ledger, {i \in rows : Day(ledger[i].ts) = d})],
         tasks |-> By("task"), models |-> By("model"), recent |-> Reverse(At(ledger, rows))]

SpendCalls ==
    LET Line == [ts : -4..Half, task : {"ask", "filter"}, cached : BOOLEAN,
                 model : {"opus"}, usd : {1, -1}]
                \cup [ts : {-2}, task : {"ask"}, cached : {FALSE}, model : {"own"}, usd : {-1, 3}]
        Possible == {r \in Line : r.cached => r.usd # -1}
    IN  [op : {"spend"},
         ledger : {s \in UNION {[1..n -> Possible] : n \in 0..2} : Len(s) = 2 => s[1].ts <= s[2].ts}]

AnswerSpend == Reply("spend", SpendHistory(call.ledger))

--------------------------------------------------------------------------
(* The tools. *)

Tool == {"list_tables", "describe_table", "estimate_scan", "table_run_config",
         "data_scan_estimate", "table_bundle", "table_findings", "table_versions",
         "table_indices", "table_fragments", "propose_operation", "read_rows",
         "query_capabilities", "validate_filter", "explain_query", "compare_versions"}
SayWhatFailed == {"propose_operation", "read_rows", "explain_query", "compare_versions"}

\* One tool called, by what its route makes of the arguments: an invented tool and a
\* console without a database are answers, and so is a mode nobody has.  Most tools call
\* any failure a missing table.
CallTool(tool, configured, route, mode, limit) ==
    IF tool \notin Tool THEN [said |-> "no_such_tool"]
    ELSE IF ~configured THEN [said |-> "not_configured"]
    ELSE IF tool = "explain_query" /\ ~mode THEN [said |-> "no_such_mode"]
    ELSE IF route = "answers" THEN
         [said |-> "answer", rows |-> IF tool = "read_rows" THEN Lesser(limit, MaxRows) ELSE 0,
          script |-> tool = "explain_query"]
    ELSE IF tool \in SayWhatFailed THEN [said |-> route]
    ELSE IF tool = "list_tables" THEN [said |-> "failed"]
    ELSE [said |-> "no_such_table"]

ToolCalls ==
    {c \in [op : {"tool"}, tool : Tool \cup {"invented"}, configured : BOOLEAN, mode : BOOLEAN,
            route : {"answers", "no_such_table", "bad_request"}, limit : 0..MaxRows + 1] :
        c.tool = "list_tables" => c.route = "answers"}

AnswerTool == Reply("tool", CallTool(call.tool, call.configured, call.route, call.mode, call.limit))

--------------------------------------------------------------------------
(* A secret: exported to the process (unset, empty or a value), or kept in a file.        *)

\* cred_places and cred_path: the file named, else the checkout's, else the one beside the
\* settings; a frozen app has no checkout.
CredFile(c) ==
    LET places == IF c.named THEN <<"named">>
                  ELSE IF c.frozen THEN <<"settings">> ELSE <<"checkout", "settings">>
        there == At(places, {i \in DOMAIN places : places[i] \in c.files})
    IN  IF there = <<>> THEN Head(places) ELSE Head(there)

Kept(c) == CredFile(c) \in c.files /\ c.kept

\* resolve: what a listing sends.
Resolving(c) == IF c.env = "value" THEN "env"
                ELSE IF Kept(c) THEN "cred"
                ELSE "nothing"

\* arm: what an open finds in the environment afterwards.
Opening(c) == IF c.env = Unset /\ Kept(c) THEN "cred"
              ELSE IF c.env = "value" THEN "env"
              ELSE "nothing"

CredCalls ==
    [op : {"cred"}, env : {Unset, "empty", "value"}, named : BOOLEAN, frozen : BOOLEAN,
     files : SUBSET {"named", "checkout", "settings"}, kept : BOOLEAN]

AnswerCred == Reply("cred", [file |-> CredFile(call), listing |-> Resolving(call), opening |-> Opening(call)])

--------------------------------------------------------------------------

LanguageCalls ==
    ResolveCalls \cup WireCalls \cup OutcomeCalls \cup FilterCalls \cup SpendCalls \cup ToolCalls
        \cup CredCalls

AnswerLanguage ==
    \/ AnswerResolve \/ AnswerWire \/ AnswerOutcome \/ AnswerFilter \/ AnswerSpend \/ AnswerTool
    \/ AnswerCred

--------------------------------------------------------------------------
(* Properties *)

\* A provider somebody named is that one or none; what answers has what it needs and a
\* model for both roles; the picker offers the models of the provider in use, and the
\* model in use is among them when nobody named one; where both know a price they agree.
ChoicesAreHonoured ==
    Answered("resolve") =>
        LET u == answer.used
            s == call.s
        IN  /\ u.provider \in {"none", s.want} \/ (s.want = "auto" /\ u.provider # "openai-compat")
            /\ u.available =>
                   /\ s.enabled /\ s.want # "none" /\ u.deep # Unset /\ u.fast # Unset
                   /\ s.model # Unset => u.deep = s.model
                   /\ u.provider = "anthropic" => "anthropic" \in s.keys
                   /\ u.provider = "ollama" => s.daemon
                   /\ u.provider = "openai-compat" => s.base
            /\ u.available /\ u.provider # "openai-compat" =>
                   /\ answer.picker.reachable /\ answer.picker.provider = u.provider
                   /\ s.model = Unset => \E o \in answer.picker.options : o.id = u.deep
            /\ u.available => \A o \in answer.picker.options :
                   (o.id = u.deep => o.cost = Cost(u.provider, u.deep))
            /\ answer.picker.options # {} => answer.picker.reachable

\* To Anthropic nobody speaks twice running; either way every call is followed by its
\* results, in order and before anything else is said, and nothing is lost.
TranscriptsHold ==
    Answered("wire") =>
        LET a == answer.anthropic
            o == answer.openai
            Turns(w) == At(w, {i \in DOMAIN w : w[i].role = "assistant"})
        IN  /\ \A i \in 1..Len(a) - 1 : a[i].role # a[i + 1].role
            /\ \A i \in DOMAIN a : (a[i].role = "assistant" => a[i + 1].ids = a[i].ids)
            /\ \A i \in DOMAIN o : \A j \in 1..3 :
                   o[i].role = "assistant" /\ j <= Len(o[i].ids) => o[i + j] = [role |-> "tool", ids |-> <<o[i].ids[j]>>]
            /\ Turns(a) = Turns(o)

\* An answer is metered and nothing else is; no failure of a body that came is worth
\* trying again, and none is if the service said that the request itself was wrong.
RepliesAreRead ==
    Answered("outcome") =>
        /\ answer.metered <=> answer.kind = "answer"
        /\ answer.retryable => call.outcome \notin Body \cup {"rejected", "not_found"}
        /\ answer.kind = "answer" => call.outcome \in Body

\* A value leaves the machine when somebody asked for it and not otherwise; what was sent is
\* all the column holds among the rows looked at; a draft that is called valid runs.
ValuesStayHome ==
    Answered("filter") =>
        /\ answer.sent # {} =>
               \/ call.asked = "yes"
               \/ (call.asked = Unset /\ call.loopback /\ call.provider # "anthropic")
        /\ answer.sent # {} => Cardinality(answer.sent) <= FacetMost /\ answer.sent \subseteq ToSet(call.values)
        /\ answer.valid => answer.ok /\ call.draft = "runs" /\ ~call.ceiling /\ call.provider # "none"

\* However a window is split, its parts are the whole; a hit is never spend; the days that
\* are shown hold no more than the totals, and what they miss is older than the first.
HistoryAddsUp ==
    Answered("spend") =>
        LET Parts(p, f) == SumOf(DOMAIN p, LAMBDA k : p[k][f])
        IN  \A f \in {"calls", "usd", "unpriced", "hits", "avoided"} :
                /\ Parts(answer.tasks, f) = answer.totals[f]
                /\ Parts(answer.models, f) = answer.totals[f]
                /\ Parts(answer.daily, f)
                     = Fold(answer.recent, {i \in DOMAIN answer.recent :
                                                Day(answer.recent[i].ts) > -HistoryDays})[f]
                /\ (\A i \in DOMAIN call.ledger : call.ledger[i].cached) => answer.totals.usd = 0

\* Without a database no tool says anything of one; an answer never holds more rows than
\* its page, and a script only where none of it is run; a tool that asks for a column, a
\* filter or a version says which was wrong.
ToolsAnswer ==
    Answered("tool") =>
        /\ answer.said = "answer" =>
               /\ call.configured /\ call.tool \in Tool /\ call.route = "answers"
               /\ answer.rows <= MaxRows /\ (answer.script => call.mode)
        /\ call.tool \in SayWhatFailed /\ call.route = "bad_request" => answer.said # "no_such_table"

\* What lists a root opens it, unless its variable is exported and empty; the environment
\* wins, and a file that is not there is no secret.
SecretsAgree ==
    Answered("cred") =>
        /\ call.env # "empty" => answer.listing = answer.opening
        /\ call.env = "value" => answer.listing = "env"
        /\ answer.listing = "cred" => answer.file \in call.files
        /\ call.frozen => answer.file # "checkout"

\* What the language layer says of providers, replies, spend and tools.
LanguageIsHonest ==
    /\ ChoicesAreHonoured /\ TranscriptsHold /\ RepliesAreRead /\ ValuesStayHome /\ HistoryAddsUp
    /\ ToolsAnswer /\ SecretsAgree

\* Known disagreements: a body that came was paid for (meter.py:5); a filter or a column
\* that is wrong is no missing table (toolset.py:311); what lists opens, whatever is
\* exported (credentials.py:14); the days of the window hold all of it (intel.py:508).
MoneySpentIsMetered == Answered("outcome") /\ call.provider # "none" /\ call.outcome \in Body => answer.metered
MissingMeansMissing == Answered("tool") /\ call.route = "bad_request" => answer.said # "no_such_table"
ListsWhatOpens == Answered("cred") => answer.listing = answer.opening
DaysHoldTheWindow ==
    Answered("spend") => SumOf(DOMAIN answer.daily, LAMBDA d : answer.daily[d].calls) = answer.totals.calls
====
