---- MODULE Operations ----
(***************************************************************************)
(* Operation plans: what the planners of server/ops promise of a table,    *)
(* the shelf of server/routes/ops.py that keeps the last of them by their  *)
(* ids, and what becomes of a promise when the table is written to, when   *)
(* its history is cleaned, when the console is pointed at another database *)
(* with a table of that name, and when somebody at last runs the script.   *)
(* The console never runs one.  A version of a table is what the planners  *)
(* look at; bytes, wording and the price of planning are left out.         *)
(***************************************************************************)
EXTENDS Naturals, Sequences, FiniteSets

CONSTANTS Database,     \* each with a table of the one name
          Shelf,        \* KEEP
          Retain,       \* versions a cleanup keeps
          AnnMinRows,   \* ANN_MIN_ROWS
          Floor,        \* VERSION_PROPOSAL_FLOOR
          Blob,         \* the databases whose table has a Blob V2 column
          Metric,       \* of a vector index
          Versions, PlanRequests, Runs      \* bounds

ASSUME OperationsAssumption ==
    /\ Blob \subseteq Database
    /\ Shelf \in Nat \ {0} /\ Retain \in Nat \ {0} /\ Floor \in Nat /\ AnnMinRows \in Nat
    /\ Versions \in Nat \ {0} /\ PlanRequests \in Nat /\ Runs \in Nat

VARIABLES
    past,       \* of each table: its versions, oldest first
    pruned,     \* of each table: the versions whose files are gone
    open,       \* the database the console is at
    pinned,     \* the version its handle is at, 0 when there is no handle
    shelf,      \* _PLANS, oldest first
    ran,        \* history: the plan whose script ran last, and what it changed
    planRequests, runs

opsVars == <<past, pruned, open, pinned, shelf, ran, planRequests, runs>>

\* rows and tombstones; fragments; how much of the vector column an index covers;
\* the storage format; the columns besides the vectors; the embedder's own metadata
Content == [live : 0..Versions + 1, dead : 0..Versions, fragments : 1..Versions + 1,
            index : {"none", "part", "all"}, behind : BOOLEAN, columns : {0, 1},
            embedder : BOOLEAN]

Latest(db) == Len(past[db])
Stored(db) == DOMAIN past[db] \ pruned[db]

--------------------------------------------------------------------------
(* The planners.  c is the version the handle is at, and v its number. *)

\* unsupported(): a plan that says why there is none.
Unsupported(kind, v) ==
    [kind |-> kind, at |-> v, db |-> open, ok |-> FALSE, holds |-> FALSE, affected |-> <<>>,
     reversible |-> FALSE, script |-> "none", option |-> 0]

Planned(kind, v, holds, affected, reversible, script, option) ==
    [kind |-> kind, at |-> v, db |-> open, ok |-> TRUE, holds |-> holds, affected |-> affected,
     reversible |-> reversible, script |-> script, option |-> option]

\* Mutant: the script opens whatever the table has become.
BuildIndexUnchecked(c, v, metric) ==
    Planned("index", v, c.index = "none" /\ c.live >= AnnMinRows, <<c.live, c.fragments>>, TRUE,
            "free", metric)

\* An index on the vector column; the metric is in the script and nowhere else.
BuildIndex(c, v, metric) ==
    Planned("index", v, c.index = "none" /\ c.live >= AnnMinRows, <<c.live, c.fragments>>, TRUE,
            "asserts", metric)

\* What a fragment holds: the rows that were deleted are still in it.
Physical(c) == c.live + c.dead

\* Mutant: the script opens whatever the table has become.
BuildCompactUnchecked(c, v) ==
    IF open \in Blob
    THEN Unsupported("compact", v)
    ELSE Planned("compact", v, c.fragments > 1, <<c.fragments, Physical(c), c.dead>>, TRUE,
                 "free", 0)

\* Refused where a blob column keeps its bytes elsewhere.  All of these fragments are
\* below target_rows, so more than one of them is a change.
BuildCompact(c, v) ==
    IF open \in Blob
    THEN Unsupported("compact", v)
    ELSE Planned("compact", v, c.fragments > 1, <<c.fragments, Physical(c), c.dead>>, TRUE,
                 "asserts", 0)

\* Versions a cleanup would remove: all but the newest, of what is still stored.
Removable(db) == {v \in Stored(db) : Cardinality({w \in Stored(db) : w > v}) >= Retain}

\* Quoted by Lance for the history as it is, if it can: a reader may have no quote, and a
\* tag it will not walk past is an exception.  Whether a branch needs what would go is
\* Lance's to say.  The script asserts nothing, and prints the quote.
BuildCleanup(v) ==
    {Planned("cleanup", v, Removable(open) # {} /\ ~referenced,
             <<Cardinality(Removable(open)), Cardinality(Stored(open))>>, FALSE, "free", 0)
        : referenced \in BOOLEAN} \cup {Unsupported("cleanup", v)}

\* The script opens the version it goes back to.
BuildRestore(c, v, to) ==
    IF to \notin Stored(open)
    THEN Unsupported("restore", v)
    ELSE Planned("restore", v, to # v, <<v, to, c.live, past[open][to].live>>, TRUE, "opens", to)

\* Written beside the table; no script when there is nothing to do.
BuildFormat(c, v) ==
    Planned("migrate-format", v, c.behind, <<c.live, c.behind>>, FALSE,
            IF c.behind THEN "asserts" ELSE "none", 0)

\* Never ready: what is at the destination is not something the console has looked at.
BuildCopy(c, v) == Planned("migrate-copy", v, FALSE, <<c.live>>, TRUE, "asserts", 0)

\* Nor is what reads the column; a column that is not there is refused.
BuildSchema(c, v) ==
    IF c.columns = 0 THEN Unsupported("migrate-schema", v)
    ELSE Planned("migrate-schema", v, FALSE, <<c.live>>, TRUE, "asserts", 0)

\* Nor the model that will replace one the table must name.
BuildEmbed(c, v) ==
    IF ~c.embedder THEN Unsupported("migrate-embed", v)
    ELSE Planned("migrate-embed", v, FALSE, <<c.live>>, TRUE, "asserts", 0)

\* ops.build, for every request that can be made of the handle.
Builds(c, v) ==
    {BuildIndex(c, v, metric) : metric \in Metric} \cup {BuildRestore(c, v, to) : to \in 1..Versions}
        \cup BuildCleanup(v)
        \cup {BuildCompact(c, v), BuildFormat(c, v), BuildCopy(c, v), BuildSchema(c, v),
              BuildEmbed(c, v)}

Ready(plan) == plan.ok /\ plan.holds

\* ops.proposals: an operation for each finding that calls for it.
Proposes(db, c, kind) ==
    \/ kind = "index" /\ c.index # "all"
    \/ kind = "compact" /\ c.dead > 0
    \/ kind = "cleanup" /\ Cardinality(Stored(db)) >= Floor
    \/ kind = "migrate-format" /\ c.behind

\* plan_id: the kind, the table's name, the version and what is affected.
PlanId(plan) == <<plan.kind, plan.at, plan.affected>>

\* What the plan will stand behind: the others, without the one of its id.
OtherPlans(plan) ==
    LET same == {i \in DOMAIN shelf : PlanId(shelf[i]) = PlanId(plan)}
        at == CHOOSE i \in same : TRUE
    IN  IF same = {} THEN shelf
        ELSE [i \in 1..Len(shelf) - 1 |-> IF i < at THEN shelf[i] ELSE shelf[i + 1]]

\* remember: the newest at the end, one for each id, the oldest dropped.
Remember(plan) ==
    LET all == Append(OtherPlans(plan), plan)
    IN  IF Len(all) > Shelf THEN Tail(all) ELSE all

--------------------------------------------------------------------------

New == [live |-> 2, dead |-> 0, fragments |-> 2, index |-> "none", behind |-> TRUE,
        columns |-> 1, embedder |-> TRUE]
Nothing == [plan |-> <<>>, before |-> New, after |-> New, done |-> FALSE]

OpsInit ==
    /\ past = [db \in Database |->
          <<IF db \in Blob THEN [New EXCEPT !.embedder = FALSE, !.behind = FALSE] ELSE New>>]
    /\ pruned = [db \in Database |-> {}]
    /\ open \in Database /\ pinned = 0
    /\ shelf = <<>> /\ ran = Nothing /\ planRequests = 0 /\ runs = 0

\* Somebody else writes a version.
Write(db) ==
    /\ Latest(db) < Versions
    /\ LET c == past[db][Latest(db)]
       IN  \/ past' = [past EXCEPT ![db] = Append(@, [c EXCEPT
                  !.live = @ + 1, !.fragments = @ + 1,
                  !.index = IF @ = "all" THEN "part" ELSE @])]
           \/ c.live > 0 /\ past' = [past EXCEPT ![db] = Append(@, [c EXCEPT
                  !.live = @ - 1, !.dead = @ + 1])]
    /\ UNCHANGED <<pruned, open, pinned, shelf, ran, planRequests, runs>>

\* The handle is opened at the latest version, once, and stays there.
Opened == IF pinned = 0 THEN Latest(open) ELSE pinned

\* POST /ops/tables/{name}/plan, and each plan of GET .../proposals.
BuildPlan ==
    /\ planRequests < PlanRequests /\ planRequests' = planRequests + 1
    /\ Opened \notin pruned[open]
    /\ pinned' = Opened
    /\ \E plan \in Builds(past[open][Opened], Opened) : shelf' = Remember(plan)
    /\ UNCHANGED <<past, pruned, open, ran, runs>>

\* The handle closes, for want of room or because the console goes to another database;
\* the shelf stays as it is.
Switch ==
    /\ pinned # 0 /\ pinned' = 0
    /\ open' \in Database
    /\ UNCHANGED <<past, pruned, shelf, ran, planRequests, runs>>

\* What Lance does: external, but for the arguments the script gives it.
Effect(plan, c) ==
    IF plan.kind = "index" THEN [c EXCEPT !.index = "all"]
    ELSE IF plan.kind = "compact" THEN [c EXCEPT !.fragments = 1, !.dead = 0]
    ELSE IF plan.kind = "restore" THEN past[plan.db][plan.option]
    ELSE c

\* What stops a script: its assertion, or a version whose files are gone.
ScriptRuns(plan) ==
    /\ plan.script = "asserts" => Latest(plan.db) = plan.at
    /\ plan.script = "opens" => plan.option \notin pruned[plan.db]

\* Somebody runs the script of a ready plan they were given, as it stands: the call of a
\* cleanup's is commented out.
RunScript ==
    /\ runs < Runs /\ runs' = runs + 1
    /\ \E i \in DOMAIN shelf :
          LET plan == shelf[i]
              before == past[plan.db][Latest(plan.db)]
              changes == ScriptRuns(plan) /\ plan.kind \notin {"cleanup", "migrate-format"}
          IN  /\ Ready(plan) /\ Latest(plan.db) < Versions
              /\ past' = IF changes
                         THEN [past EXCEPT ![plan.db] = Append(@, Effect(plan, before))] ELSE past
              /\ ran' = [plan |-> plan, before |-> before, done |-> ScriptRuns(plan),
                         after |-> past'[plan.db][Len(past'[plan.db])]]
    /\ UNCHANGED <<pruned, open, pinned, shelf, planRequests>>

\* Somebody cleans a history, with those lines or their own; what a branch or a tag needs
\* stays.
Clean(db) ==
    /\ runs < Runs /\ runs' = runs + 1
    /\ \E gone \in SUBSET Removable(db) :
          gone # {} /\ pruned' = [pruned EXCEPT ![db] = @ \cup gone]
    /\ UNCHANGED <<past, open, pinned, shelf, ran, planRequests>>

OpsNext == (\E db \in Database : Write(db) \/ Clean(db)) \/ BuildPlan \/ Switch \/ RunScript

--------------------------------------------------------------------------

\* planners/compact.py and cleanup.py, verification: between the version planned for and
\* the one a script makes "the row count must not move", an index is on the rows it was
\* planned for, and a restored table has the rows its plan named: a script either does
\* what was planned, though the table was written to since and the console has moved on,
\* or stops.  And a proposal that could be run as it stands does not come back once it
\* has been.
PromisesHold ==
    /\ \A db \in Database : past[db] \in Seq(Content) /\ pruned[db] \subseteq DOMAIN past[db]
    /\ pinned \in 0..Latest(open)
    /\ ran.done /\ ran.plan.kind \in {"index", "compact"} =>
          /\ ran.after.live = past[ran.plan.db][ran.plan.at].live
          /\ ran.plan.kind = "index" => ran.after.live = ran.plan.affected[1]
          /\ Proposes(ran.plan.db, ran.before, ran.plan.kind)
                => ~Proposes(ran.plan.db, ran.after, ran.plan.kind)
    /\ ran.done /\ ran.plan.kind = "restore" => ran.after.live = ran.plan.affected[4]
    /\ ran.done /\ ran.plan.kind \notin {"index", "compact", "restore"} => ran.after = ran.before

\* planners/index.py and compact.py, rollback: "restore to version N".  When a script has
\* changed the table, the version its plan says to go back to is still there, whatever
\* was cleaned between the plan and the script ("every other plan's rollback sentence
\* stops being true", cleanup.py): it is the one the script asserts to be the latest.
UndoIsThere ==
    [][runs' # runs /\ ran' # ran /\ ran'.done /\ ran'.plan.kind \in {"index", "compact"} =>
          ran'.plan.at \notin pruned'[ran'.plan.db]]_opsVars

\* plan.py: "the console has to say so rather than let somebody act on arithmetic about
\* a table that has moved": what get_plan compares with is the handle's version.
StalePlansSaySo ==
    \A i \in DOMAIN shelf :
        shelf[i].db = open /\ pinned # 0 /\ shelf[i].at # Latest(open) => shelf[i].at # pinned

\* plan_id: "lets an agent name a plan in its answer and the console still find it".
OnePlanPerId ==
    [][\A i \in DOMAIN shelf, j \in DOMAIN shelf' :
          PlanId(shelf[i]) = PlanId(shelf'[j]) => shelf[i] = shelf'[j]]_opsVars
====
