---- MODULE CommandLine ----
(***************************************************************************)
(* ingest/cli.py: what a command leaves to whoever called it, which is a   *)
(* build or a training pipeline: its exit code, what is on stdout, and     *)
(* what was read or written before it ended.  The run that `ingest` starts *)
(* is IngestRun, the job that `check` waits for is ScanJobs'; here they    *)
(* are what they may come to.                                              *)
(***************************************************************************)
EXTENDS Asked, SequencesExt

EXIT_OK == 0
EXIT_FAILED == 1        \* also Python's, for an exception nobody caught
EXIT_USAGE == 2
EXIT_INCOMPLETE == 3
EXIT_CANCELLED == 130

\* What is there to be read: no database, a database without the table that was named, a
\* table that does not open for another reason than that it is not there, or one that does.
Place == {"no_root", "no_table", "shut", "open"}

\* _resolved and _table_missing refuse what is not there as the caller's mistake; any other
\* error of an open escapes the routes and the command, and is Python's own exit.
Missing == {"no_root", "no_table"}

--------------------------------------------------------------------------
(* findings: the rules' sweep as a gate. *)

\* cmd_findings: a rule that broke is neither a pass nor a failure.
FindingsCode(c) ==
    IF c.facet = "unknown" \/ c.place \in Missing THEN EXIT_USAGE
    ELSE IF c.place = "shut" THEN EXIT_FAILED
    ELSE IF c.failOn = "no" THEN EXIT_OK
    ELSE IF c.partial THEN EXIT_INCOMPLETE
    ELSE IF c.warn > 0 \/ (c.failOn = "note" /\ c.note > 0) THEN EXIT_FAILED ELSE EXIT_OK

FindingsCommands ==
    [op : {"findings_command"}, facet : {"none", "known", "unknown"}, place : Place,
     failOn : {"no", "warn", "note"}, warn : 0..1, note : 0..1, partial : BOOLEAN]
AnswerFindingsCommand == Reply("findings_command", [exit |-> <<FindingsCode(call)>>])

--------------------------------------------------------------------------
(* check: the data checks as a gate. *)

Gated == {"duplicates", "balance"}
Listed == <<"duplicates", "balance">>           \* CHECKS, in the catalog's order

\* What a check that is run comes to; "raises" ends the job.
ComesTo == {"clean", "note", "warn", "failed", "unsupported", "raises"}

\* The selection: everything listed unless checks are named, and columns only for one.
Wanted(c) == At(Listed, {i \in DOMAIN Listed : c.named = {} \/ Listed[i] \in c.named})
Named(c) == c.columns /\ Len(Wanted(c)) = 1
Runnable(c) ==
    LET Ready(k) == c.ready[k] = "yes" \/ (c.ready[k] = "if_named" /\ Named(c))
    IN  At(Wanted(c), {i \in DOMAIN Wanted(c) : Ready(Wanted(c)[i])})

\* The job over them: it ends early at a check that raises, and at the check during which
\* somebody pressed Ctrl-C, whose result says so.
Results(c) ==
    LET run == Runnable(c)
        Ends(i) == c.comes[run[i]] = "raises" \/ c.pressed = i
        last == IF \E i \in DOMAIN run : Ends(i)
                THEN CHOOSE i \in DOMAIN run : Ends(i) /\ \A j \in 1..i - 1 : ~Ends(j)
                ELSE Len(run)
    IN  [i \in 1..last |->
            [check |-> run[i], came |-> IF c.pressed = i THEN "cancelled" ELSE c.comes[run[i]]]]
Interrupted(c) == c.pressed \in 1..Len(Results(c))
Reported(c) == At(Results(c), {i \in DOMAIN Results(c) : Results(c)[i].came # "raises"})
Came(c, outcomes) == Cardinality({i \in DOMAIN Reported(c) : Reported(c)[i].came \in outcomes})

\* cmd_check opens the table up to three times: for the plan (place), as the probe of
\* submit, and in the worker; `opens` is how many of the last two succeed.  An error of the
\* first two escapes.  One of the third leaves the job queued, and the command, which waits
\* for it, does not end; nor does it at a Ctrl-C, which only cancels the job.
CheckCode(c) ==
    IF c.unknown \/ c.place \in Missing THEN <<EXIT_USAGE>>
    ELSE IF c.place = "shut" THEN <<EXIT_FAILED>>
    ELSE IF c.quote THEN <<EXIT_OK>>
    ELSE IF Runnable(c) = <<>> THEN <<EXIT_USAGE>>
    ELSE IF c.opens = 0 THEN <<EXIT_FAILED>>
    ELSE IF c.opens = 1 THEN <<>>
    ELSE IF Interrupted(c) THEN <<EXIT_INCOMPLETE>>
    ELSE IF c.failOn = "no" THEN <<EXIT_OK>>
    ELSE IF Came(c, {"failed", "unsupported"}) > 0 THEN <<EXIT_INCOMPLETE>>
    ELSE <<IF Came(c, IF c.failOn = "warn" THEN {"warn"} ELSE {"warn", "note"}) > 0
           THEN EXIT_FAILED ELSE EXIT_OK>>

\* The job, where there is one: a check that raises fails it, and leaves no result.
Submitted(c) ==
    ~c.unknown /\ c.place = "open" /\ ~c.quote /\ Runnable(c) # <<>> /\ c.opens > 0
JobState(c) ==
    IF ~Submitted(c) THEN "none" ELSE IF c.opens = 1 THEN "queued"
    ELSE IF Interrupted(c) THEN "cancelled"
    ELSE IF \E r \in ToSet(Results(c)) : r.came = "raises" THEN "failed" ELSE "done"
Reads(c) == IF Submitted(c) /\ c.opens = 2 THEN Reported(c) ELSE <<>>

CheckCommands ==
    {c \in [op : {"check_command"}, named : SUBSET Gated, unknown : BOOLEAN, place : Place,
            columns : BOOLEAN, ready : [Gated -> {"yes", "if_named", "no"}], quote : BOOLEAN,
            opens : 0..2, comes : [Gated -> ComesTo], pressed : 0..2,
            failOn : {"no", "warn", "any"}] :
        /\ c.unknown => c.place = "open" /\ c.ready = [k \in Gated |-> "yes"]
        /\ c.unknown \/ c.place # "open" \/ c.quote \/ c.opens < 2 =>
              c.comes = [k \in Gated |-> "clean"] /\ c.pressed = 0
        /\ \A k \in Gated \ ToSet(Runnable(c)) : c.comes[k] = "clean"}
AnswerCheckCommand ==
    Reply("check_command", [exit |-> CheckCode(call), job |-> JobState(call), results |-> Reads(call)])

--------------------------------------------------------------------------
(* scan and ingest: a survey, and a run that may be interrupted twice. *)

\* The destination: beside the tables of the connection, where one may write.  What was said
\* becomes a Path, in which the two slashes of a remote one are one: a folder of this machine.
Destination(c) ==
    IF c.into # "unsaid" THEN "folder"
    ELSE IF c.beside = "writable_folder" THEN "beside" ELSE "home"

\* writes_capability, before anything is looked at: of its reasons the operator's is left,
\* since no destination is remote any more.
Refused(c) == c.readOnly

\* cmd_ingest: the first Ctrl-C only sets the flag that the run looks at, so that the run
\* returns, "cancelled" or because it was over anyway; a second ends it where it is.
IngestCode(c) ==
    IF c.kinds # "implemented" THEN EXIT_USAGE
    ELSE IF Refused(c) THEN EXIT_FAILED
    ELSE IF c.dry THEN EXIT_OK
    ELSE IF c.presses = 2 \/ c.cancelled THEN EXIT_CANCELLED
    ELSE IF c.raises \/ c.rows = 0 THEN EXIT_FAILED ELSE EXIT_OK
Writes(c) ==
    IF c.kinds = "implemented" /\ ~Refused(c) /\ ~c.dry THEN c.rows ELSE 0

IngestCalls ==
    {c \in [op : {"ingest_command"}, kinds : {"implemented", "unimplemented", "unknown"},
            readOnly : BOOLEAN, into : {"unsaid", "folder", "remote"},
            beside : {"writable_folder", "closed_folder", "remote", "none"}, dry : BOOLEAN,
            readable : BOOLEAN, presses : 0..2, raises : BOOLEAN, cancelled : BOOLEAN, rows : 0..1] :
        /\ c.cancelled => c.presses = 1 /\ ~c.raises
        /\ c.raises => c.presses < 2
        /\ ~c.readable => c.rows = 0 /\ ~c.cancelled /\ (c.dry \/ c.raises \/ c.presses = 2)}
AnswerIngest ==
    Reply("ingest_command", [exit |-> <<IngestCode(call)>>, rows |-> Writes(call),
                             destination |-> Destination(call)])

\* cmd_scan: a remote folder, of which nothing is known, is not a failure.
ScanCode(c) ==
    IF c.kinds = "unknown" THEN EXIT_USAGE
    ELSE IF c.readable = "no" THEN EXIT_FAILED ELSE EXIT_OK
ScanCalls ==
    [op : {"scan_command"}, kinds : {"all", "known", "unknown"}, readable : {"yes", "no", "unknown"}]
AnswerScan == Reply("scan_command", [exit |-> <<ScanCode(call)>>])

--------------------------------------------------------------------------
(* run-config, bundle, cost: a document on stdout; open: a place to start from. *)

\* cmd_run_config, cmd_bundle, cmd_cost: the document is all that is on stdout, and the rest
\* is said elsewhere; a refusal by the route is the caller's mistake, another error of the
\* open is not caught.
Report(c) ==
    IF c.place = "open" /\ c.columns # "unknown"
    THEN [exit |-> <<EXIT_OK>>, stdout |-> <<"document">>,
          stderr |-> {n \in {"warnings", "incomplete"} : c.command = "run-config" /\ ~c.json
                          /\ (n = "warnings" => c.warn > 0) /\ (n = "incomplete" => c.partial)}
                     \cup {n \in {"redacted"} : c.command = "bundle" /\ ~c.paths}]
    ELSE IF c.place = "shut"
    THEN [exit |-> <<EXIT_FAILED>>, stdout |-> <<>>, stderr |-> {"traceback"}]
    ELSE [exit |-> <<EXIT_USAGE>>, stdout |-> <<>>, stderr |-> {"refusal"}]
ReportCalls ==
    [op : {"report_command"}, command : {"run-config", "bundle", "cost"}, place : Place,
     columns : {"none", "known", "unknown"}, json : BOOLEAN, paths : BOOLEAN,
     warn : 0..1, partial : BOOLEAN]
AnswerReport == Reply("report_command", Report(call))

\* resolve_open_target: a path is its folders, "t" one whose name ends in .lance.  The
\* innermost of those is the table, whether or not it exists, and what it is in the root.
Innermost(path) == CHOOSE i \in DOMAIN path : path[i] = "t" /\ \A j \in i + 1..Len(path) : path[j] # "t"
OpenTarget(c) ==
    IF "t" \in ToSet(c.path)
    THEN [error |-> FALSE, root |-> Innermost(c.path) - 1, table |-> Innermost(c.path)]
    ELSE [error |-> c.path # <<>> /\ c.there # "tables", root |-> Len(c.path), table |-> 0]

\* cmd_open: without a database nothing is opened, and without an interface nothing served.
Open(c) ==
    LET target == OpenTarget(c)
        code == IF target.error \/ (c.path = <<>> /\ ~c.configured) THEN <<EXIT_USAGE>>
                ELSE IF ~c.ui THEN <<EXIT_FAILED>> ELSE <<>>
    IN  [exit |-> code, serves |-> code = <<>>, error |-> target.error, root |-> target.root,
         table |-> target.table]
OpenCalls ==
    [op : {"open_command"}, path : UNION {[1..n -> {"d", "t"}] : n \in 0..3},
     there : {"nothing", "a_file", "folder", "tables"}, configured : BOOLEAN, ui : BOOLEAN]
AnswerOpen == Reply("open_command", Open(call))

--------------------------------------------------------------------------
CommandCalls ==
    FindingsCommands \cup CheckCommands \cup IngestCalls \cup ScanCalls \cup ReportCalls \cup OpenCalls
AnswerCommand ==
    \/ AnswerFindingsCommand \/ AnswerCheckCommand \/ AnswerIngest \/ AnswerScan \/ AnswerReport
    \/ AnswerOpen

--------------------------------------------------------------------------
(* What whoever called may conclude. *)

\* A gate over a table that opened fails only over something that was found, and says 3 when
\* a rule broke, a check could not look or somebody stopped it ("this split leaks" and "we
\* could not look at your split", cmd_check).  It passes only with nothing of that among what
\* was looked at, which is all that could run unless a check ended the job by raising: the
\* two cases in which the code's 1 and 0 mean less are named here, and stated below as what
\* it says and does not do.  A mistake in the command reads no data.
GatesTellFactsFromGaps ==
    /\ Answered("findings_command") =>
          /\ answer.exit = <<EXIT_FAILED>> /\ call.place # "shut" =>
                ~call.partial /\ call.warn + call.note > 0
          /\ answer.exit = <<EXIT_OK>> /\ call.failOn # "no" =>
                /\ call.place = "open" /\ ~call.partial
                /\ call.warn = 0 /\ (call.failOn = "note" => call.note = 0)
          /\ answer.exit = <<EXIT_INCOMPLETE>> => call.partial
    /\ Answered("check_command") =>
          LET All(outcomes) == \A r \in ToSet(answer.results) : r.came \in outcomes
              looked == {r.check : r \in ToSet(answer.results)}
          IN  /\ answer.exit = <<EXIT_FAILED>> =>
                    IF answer.job = "none" THEN call.place = "shut" \/ call.opens = 0
                    ELSE All({"clean", "note", "warn"}) /\ ~All({"clean"})
              /\ answer.exit = <<EXIT_OK>> /\ call.failOn # "no" /\ ~call.quote =>
                    /\ All(IF call.failOn = "any" THEN {"clean"} ELSE {"clean", "note"})
                    /\ answer.job \in {"done", "failed"}
                    /\ answer.job = "done" => looked = ToSet(Runnable(call))
              /\ ~All({"clean", "note", "warn", "failed", "unsupported"}) =>
                    answer.exit = <<EXIT_INCOMPLETE>>
              /\ answer.exit = <<EXIT_USAGE>> \/ call.quote => answer.results = <<>>

\* 0 of an ingest means rows that are there and a run nobody stopped, or a dry run; refusals
\* and mistakes leave nothing behind; nothing is written where no writer reaches.
IngestTellsWhatItLeft ==
    Answered("ingest_command") =>
        /\ answer.exit = <<EXIT_OK>> => call.dry \/ (answer.rows > 0 /\ ~call.cancelled)
        /\ answer.exit = <<EXIT_USAGE>> => answer.rows = 0
        /\ answer.exit = <<EXIT_CANCELLED>> => call.presses > 0
        /\ answer.rows > 0 => answer.destination \in {"folder", "beside", "home"} /\ ~call.readOnly

\* A redirect of stdout is the whole document or an empty file, never a refusal; and a table
\* that is opened is the innermost that the path names, under a root outside it.
DocumentsAndPlacesAreWhole ==
    /\ Answered("report_command") =>
          answer.stdout = (IF answer.exit = <<EXIT_OK>> THEN <<"document">> ELSE <<>>)
    /\ Answered("open_command") /\ answer.serves /\ answer.table > 0 =>
          /\ call.path[answer.table] = "t"
          /\ answer.root < answer.table
          /\ \A i \in answer.table + 1..Len(call.path) : call.path[i] = "d"

\* What a pipeline concludes from a command is what happened.
CommandsAreHonest == GatesTellFactsFromGaps /\ IngestTellsWhatItLeft /\ DocumentsAndPlacesAreWhole

--------------------------------------------------------------------------
(* What the code says of itself and does not do. *)

\* "a gate that returns the same code for 'this table has a warning' and 'we could not check
\* this table' re-collapses the distinction" (EXIT_INCOMPLETE): 1 is both, when the table is
\* there and does not open.
CouldNotOpenIsNotOne ==
    (Answered("findings_command") \/ Answered("check_command")) /\ call.place = "shut" =>
        answer.exit # <<EXIT_FAILED>>

\* "a check that could not run is `3` and not `1`" (cmd_check): one that was named and is
\* refused before the job, or that ends the job by raising, may leave 0.
CouldNotRunIsThree ==
    Answered("check_command") /\ call.failOn # "no" /\ answer.exit = <<EXIT_OK>> /\ ~call.quote =>
        \A k \in call.named : \E r \in ToSet(answer.results) : r.check = k

\* "The one place a Ctrl-C in this project stops the work rather than the wait" (cmd_check):
\* it stops neither where the worker's handle did not open and the job stays queued.
CommandsEnd == Answered("check_command") => answer.exit # <<>>

\* "survey and validate" (--dry-run): a folder that cannot be read is a success.
DryRunIsASurvey ==
    Answered("ingest_command") /\ call.dry /\ answer.exit = <<EXIT_OK>> => call.readable

\* "{destination} is a remote URI ... ingest writes local files" (capability.py:84): the
\* command builds the table in a folder named after the address, here.
RemotesAreRefused ==
    Answered("ingest_command") /\ call.into = "remote" => answer.rows = 0
====
