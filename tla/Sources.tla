---- MODULE Sources ----
(***************************************************************************)
(* server/sources/* and server/hf.py: which adapter serves a root, what it *)
(* says can be done there, what it lists, and what becomes of the listing  *)
(* in the panel of tables (Panels' Tables).  A path is a sequence of       *)
(* names; what the disk, the Hub or a service holds is part of the call.   *)
(***************************************************************************)
EXTENDS Panels

CONSTANT MaxDepth       \* MAX_DEPTH of a walk: how far below the root a table may be

ASSUME SourcesAssumption == MaxDepth \in Nat

--------------------------------------------------------------------------
(* The registry. *)

BuiltIn == {"local", "hf", "s3", "gs", "db"}

\* What adapt finds wrong, in the order it looks.  A property of the object that raises is
\* nothing it looks for.
Fault == <<"constructs", "raises", "api", "scheme", "prefix", "remote", "methods">>
FirstFault(faults) == Fault[CHOOSE i \in DOMAIN Fault :
                               Fault[i] \in faults /\ \A j \in 1..i - 1 : Fault[j] \notin faults]

Reject(registry, o, why) ==
    [registry EXCEPT !.rejected = Append(@, [scheme |-> o.scheme, by |-> o.by, why |-> why])]

\* Mutant: an installed package is swapped in.
RegisterReplaces(registry, o) ==
    IF o.faults # {} THEN Reject(registry, o, FirstFault(o.faults))
    ELSE [registry EXCEPT !.serves = Joined([s \in {o.scheme} |-> o.by], @)]

\* adapt and register: an unfit object is kept with its reason, and so is one for a scheme
\* that is served already.
Register(registry, o) ==
    IF o.faults # {} THEN Reject(registry, o, FirstFault(o.faults))
    ELSE IF o.scheme \in DOMAIN registry.serves THEN Reject(registry, o, "taken")
    ELSE [registry EXCEPT !.serves = Joined(@, [s \in {o.scheme} |-> o.by])]

\* load_plugins, of one of them: what cannot be imported is kept with that for its reason.
Loaded(registry, o) ==
    IF "import" \in o.faults THEN Reject(registry, o, "import") ELSE Register(registry, o)

\* _registry: the built-ins, then load_plugins unless the operator or a kiosk forbids it.
Registered(plugins, enabled) ==
    LET own == [serves |-> [s \in BuiltIn |-> "built-in"], rejected |-> <<>>]
        upto[n \in 0..Len(plugins)] ==
            IF n = 0 THEN own ELSE Loaded(upto[n - 1], plugins[n])
    IN  IF ~enabled THEN own
        ELSE IF \E o \in ToSet(plugins) :
                    "import" \notin o.faults /\ o.faults # {} /\ FirstFault(o.faults) = "raises"
             THEN Refuse("raised")
        ELSE upto[Len(plugins)]

OfferedPlugins ==
    LET Faulty == {f \in SUBSET (ToSet(Fault) \cup {"import"}) : Cardinality(f) <= 2}
        Plugin(by) == [scheme : {"hf", "new"}, by : {by}, faults : Faulty]
    IN  {<<>>} \cup {<<p>> : p \in Plugin("p")}
               \cup {<<p, q>> : p \in Plugin("p"), q \in Plugin("q")}
RegistryCalls == [op : {"registry"}, plugins : OfferedPlugins, enabled : BOOLEAN]

AnswerRegistry == Reply("registry", Registered(call.plugins, call.enabled))

--------------------------------------------------------------------------
(* What is under a root. *)

Discovered(tables) == [tables |-> tables, error |-> Unknown]
Nothing(why) == [tables |-> {}, error |-> <<why>>]

\* _walk: through directories that can be read, never into a table.
Walk(tree) ==
    {p \in DOMAIN tree : /\ tree[p] = "table" /\ Len(p) <= MaxDepth + 1
                         /\ \A n \in 1..Len(p) - 1 : tree[SubSeq(p, 1, n)] = "dir"}

\* LocalSource.list_tables.
ListLocal(c) ==
    CASE c.root = "absent" -> Nothing("no_such_directory")
      [] c.root = "closed" -> Discovered({})
      [] OTHER -> Discovered(Walk(c.tree))

\* _tables_in: the directories named *.lance, relative to the path that was asked for.
TablesIn(entries, prefix) == {prefix \o <<e.name>> : e \in {e \in entries : e.dir /\ e.lance}}

\* hf.list_tables: one call to the Hub; a bare repository without tables is tried once more
\* under data.
ListHub(c) ==
    LET Ask(path) == c.hub[path]
        bare == c.path = "bare"
        none == Ask(c.path).answered /\ TablesIn(Ask(c.path).holds, <<>>) = {}
    IN  IF ~c.dataset THEN Nothing("not_a_dataset")
        ELSE IF ~Ask(c.path).answered THEN Nothing(Ask(c.path).why)
        ELSE IF bare /\ none /\ ~Ask("data").answered THEN Nothing(Ask("data").why)
        ELSE IF bare /\ none THEN Discovered(TablesIn(Ask("data").holds, <<"data">>))
        ELSE Discovered(TablesIn(Ask(c.path).holds, <<>>))

\* explain, of a store and of a service: the first of its marks that the error carries.
StoreMark == <<"no_account", "no_credentials", "no_bucket", "denied", "nothing_there", "unreachable">>
ServiceMark == <<"bad_key", "denied", "nothing_there", "throttled", "unavailable">>
Explained(order, marks) ==
    LET seen == {i \in DOMAIN order : order[i] \in marks}
    IN  IF seen = {} THEN "other" ELSE order[CHOOSE i \in seen : \A j \in seen : i <= j]

\* ObjectStoreSource.list_tables and NamespaceSource.list_tables, with CloudSource's client.
ListStore(c) ==
    IF ~c.lists THEN Nothing("old_reader")
    ELSE IF c.fails THEN Nothing(Explained(StoreMark, c.marks))
    ELSE Discovered(c.holds)
ListService(c) ==
    IF ~c.lists THEN Nothing("old_reader")
    ELSE IF ~c.key THEN Nothing("no_key")
    ELSE IF c.fails THEN Nothing(Explained(ServiceMark, c.marks))
    ELSE Discovered(c.holds)

\* Guarded.list_tables: an adapter that raises, or answers something else, is unlistable.
Guarded(found, how) == IF how = "answers" THEN found ELSE Nothing("the_adapter_failed")

Listing(c) ==
    CASE c.source = "none" -> Nothing("no_root") [] c.source = "unknown" -> Nothing("no_adapter")
      [] c.source = "local" -> ListLocal(c) [] c.source = "hf" -> ListHub(c)
      [] c.source = "plugin" -> Guarded(Discovered(c.holds), c.how)
      [] c.source = "db" -> ListService(c) [] OTHER -> ListStore(c)

--------------------------------------------------------------------------
(* What can be done there, and the panel that does it. *)

\* capabilities, of each source: decided from what a root is, and from what Lance's reader
\* can do.
Claim(discover, reads, disk) == [discover |-> discover, reads |-> reads, disk |-> disk]
NoClaim == Claim("unsupported", "unsupported", "unsupported")

LocalClaims == Claim("available", "available", "available")
HubClaims == Claim("available", "available", "unsupported")
UnknownClaims == Claim("unsupported", "unverified", "unsupported")
PluginClaims(c) == IF c.how = "answers" THEN Claim("available", "available", "unsupported") ELSE NoClaim
StoreClaims(c) ==
    IF ~c.lists THEN NoClaim
    ELSE Claim("available", IF c.source = "s3" THEN "available" ELSE "unverified", "unsupported")
ServiceClaims(c) ==
    IF ~c.lists THEN NoClaim
    ELSE Claim("available", IF c.opens THEN "unverified" ELSE "unsupported", "unsupported")

Claims(c) ==
    CASE c.source = "none" -> NoClaim [] c.source = "local" -> LocalClaims
      [] c.source = "hf" -> HubClaims [] c.source = "unknown" -> UnknownClaims
      [] c.source = "plugin" -> PluginClaims(c) [] c.source = "db" -> ServiceClaims(c)
      [] OTHER -> StoreClaims(c)

\* target_for and Catalog.open: a service's table needs a client and a reader that can use
\* one; without them it is not found.
Opens(c, name) ==
    IF c.source = "db" /\ ~(c.opens /\ c.key) THEN "gone"
    ELSE IF name \in c.broken THEN "broken"
    ELSE "opens"

\* The panel of a root: what it can list, and what can be opened of it.
RootPanel(c) ==
    LET found == Listing(c)
    IN  Joined(Tables(Claims(c).discover = "available", found.error # Unknown,
                      [n \in found.tables |-> Opens(c, n)]),
               [claims |-> Claims(c), found |-> found])

Trees ==
    LET Paths == {<<"a">>, <<"b">>, <<"a", "a">>, <<"a", "b">>, <<"a", "a", "a">>}
        Parent(p) == SubSeq(p, 1, Len(p) - 1)
    IN  {t \in UNION {[P -> {"table", "dir", "closed", "file"}] : P \in SUBSET Paths} :
            \A p \in DOMAIN t : Len(p) > 1 => Parent(p) \in DOMAIN t /\ t[Parent(p)] # "file"}
Hubs ==
    LET Entry == [name : {"a"}, dir : BOOLEAN, lance : BOOLEAN]
    IN  [{"bare", "data"} -> [answered : {TRUE}, holds : SUBSET Entry, why : {"ok"}]
                         \cup [answered : {FALSE}, holds : {{}}, why : {"refused"}]]
Held == SUBSET {<<"a">>, <<"b">>}
MaybeBroken == {{}, {<<"a">>}}
RootCalls ==
    [op : {"root"}, source : {"none", "unknown"}]
    \cup [op : {"root"}, source : {"local"}, root : {"there", "closed", "absent"}, tree : Trees,
          broken : {{}, {<<"a", "b">>}}]
    \cup [op : {"root"}, source : {"hf"}, dataset : BOOLEAN, path : {"bare", "data"}, hub : Hubs,
          broken : {{}}]
    \cup [op : {"root"}, source : {"plugin"}, how : {"answers", "raises", "wrong_type"},
          holds : Held, broken : MaybeBroken]
    \cup [op : {"root"}, source : {"s3", "gs"}, lists : BOOLEAN, fails : BOOLEAN,
          marks : SUBSET ToSet(StoreMark), holds : Held, broken : MaybeBroken]
    \cup [op : {"root"}, source : {"db"}, lists : BOOLEAN, opens : BOOLEAN, key : BOOLEAN,
          fails : BOOLEAN, marks : SUBSET ToSet(ServiceMark), holds : Held, broken : {{}}]

AnswerRoot == Reply("root", RootPanel(call))

--------------------------------------------------------------------------
(* Properties *)

SourceCalls == RegistryCalls \cup RootCalls
AnswerSource == AnswerRegistry \/ AnswerRoot

\* Every adapter that was offered is listed once, served or with a reason that is true of
\* it; the built-ins serve their own schemes whatever is installed, and another scheme is
\* served by the first fit adapter that claimed it.
RegistryIsWhole ==
    Answered("registry") /\ ~IsRefused(answer) =>
        LET offered == IF call.enabled THEN call.plugins ELSE <<>>
            added == DOMAIN answer.serves \ BuiltIn
            fit == {i \in DOMAIN offered : offered[i].faults = {} /\ offered[i].scheme \notin BuiltIn}
        IN  /\ \A s \in BuiltIn : answer.serves[s] = "built-in"
            /\ Cardinality(added) + Len(answer.rejected) = Len(offered)
            /\ \A s \in added : \E i \in fit :
                  answer.serves[s] = offered[i].by /\ \A j \in fit : i <= j
            /\ \A r \in ToSet(answer.rejected) : \E o \in ToSet(offered) :
                  o.by = r.by /\ (r.why \in o.faults
                                  \/ (r.why = "taken" /\ answer.serves[o.scheme] # o.by))

\* What a root really holds, within reach of a listing that may read the root, as paths from
\* it.
Holds(c) ==
    CASE c.source = "local" -> IF c.root = "absent" THEN {} ELSE Walk(c.tree)
      [] c.source = "hf" ->
            {<<e.name>> : e \in {e \in c.hub[c.path].holds : e.dir /\ e.lance}}
            \cup IF c.path = "data" THEN {}
                 ELSE {<<"data", e.name>> : e \in {e \in c.hub["data"].holds : e.dir /\ e.lance}}
      [] c.source \in {"none", "unknown"} -> {}
      [] OTHER -> c.holds

\* A root of this machine that nobody here may read lists as an empty one (`_walk` swallows
\* the PermissionError of the root as it does that of a folder in it).
Unread(c) == c.source = "local" /\ c.root = "closed"

\* A panel with nothing in it and no reason is of a root that holds nothing, or of a folder
\* of this machine that may not be read; every table shown is one the root holds, at the path
\* it is listed under, and none is within another; a root that cannot be listed gives its
\* reason, at both doors the same way.
RootsAnswerForThemselves ==
    Answered("root") =>
        LET shown == answer.tables \cup answer.unreadable
            listed == answer.note = "manifests" /\ ~answer.failed
        IN  /\ shown \subseteq Holds(call)
            /\ \A p, q \in shown : p # q => ~IsPrefix(p, q)
            /\ answer.note = "cannot_list" => answer.found.error # Unknown
            /\ listed /\ shown = {} /\ (call.source = "db" => call.opens) /\ ~Unread(call) =>
                  Holds(call) = {}

\* Nothing is claimed of a store nobody measured, nor of an adapter that failed; an error is
\* explained by something it says, and by a bucket before a path in it.
ClaimsAreEarned ==
    Answered("root") =>
        /\ answer.claims.reads = "available" => call.source \in {"local", "hf", "s3", "plugin"}
        /\ answer.claims.disk = "available" => call.source = "local"
        /\ call.source = "plugin" /\ call.how # "answers" => answer.claims.discover = "unsupported"
        /\ call.source \in {"s3", "gs"} /\ call.fails /\ call.lists =>
              /\ answer.found.error[1] \in call.marks \cup {"other"}
              /\ "no_bucket" \in call.marks => answer.found.error[1] # "nothing_there"

\* What a root is said to be, to hold and to allow is so.
SourcesAreHonest == RegistryIsWhole /\ RootsAnswerForThemselves /\ ClaimsAreEarned

--------------------------------------------------------------------------
(* What the sources say of themselves and do not do. *)

\* "Import errors are recorded, never raised" (registry.py:293): an attribute that raises
\* anything but AttributeError is neither.
BrokenPluginsAreRecorded == Answered("registry") => ~IsRefused(answer)

\* "a walk that finds nothing has read the directory successfully" (catalog.py:180): not
\* when the root itself may not be read.
EmptyRootsWereRead ==
    Answered("root") /\ Unread(call) /\ Holds(call) # {} => answer.found.error # Unknown

\* "The table list below is real; opening one needs a newer reader" (namespace.py:75): the
\* panel opens each table it lists, and leaves out what it could not open.
ListedTablesAreShown ==
    Answered("root") /\ call.source = "db" /\ ~answer.failed =>
        answer.found.tables \subseteq answer.tables \cup answer.unreadable

\* "Returns an empty list only when the repository genuinely holds no .lance directory at
\* that path" (hf.py:169): one with no tables and no data directory is an error.
EmptyRepositoriesAreEmpty ==
    Answered("root") /\ call.source = "hf" /\ call.dataset /\ call.path = "bare"
    /\ call.hub["bare"].answered /\ Holds(call) = {} => answer.found.error = Unknown
====
