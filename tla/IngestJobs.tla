---- MODULE IngestJobs ----
(***************************************************************************)
(* The background ingest jobs of ingest/core/jobs.py as the routes of      *)
(* server/routes/ingest.py drive them.                                     *)
(*                                                                         *)
(* Two threads share the registry.  The event loop runs one request        *)
(* handler at a time (the handlers never await inside jobs.py), but a      *)
(* handler is several steps, and the one worker thread of the pool takes   *)
(* its own steps between them.  `handler` is the request in flight,        *)
(* `worker` the worker's position; `journal` and `disk` are what outlives  *)
(* the process.  A run is kept to what a registry can tell apart: files    *)
(* are looked at one by one, a batch is committed or not, the run returns  *)
(* or raises.  IngestRun has the detail.                                   *)
(***************************************************************************)
EXTENDS Naturals, Sequences, FiniteSets

CONSTANTS Job,      \* the ids submit may ever hand out
          Table,    \* table paths under the destination
          NoJob, NoTable, Foreign,
          Files,    \* bound: files a run looks at
          Faults,   \* bound: journal writes that fail
          Keep      \* JOURNAL_KEEP

ASSUME ConstantsAssumption ==
    /\ NoJob \notin Job /\ Foreign \notin Job /\ Foreign # NoJob
    /\ NoTable \notin Table
    /\ Files \in Nat /\ Faults \in Nat /\ Keep \in Nat \ {0}

Live  == {"queued", "running", "cancelling"}                  \* LIVE_STATES
Ended == {"cancelled", "failed", "done"}

NoResult == [created |-> FALSE]
Nothing  == [owner |-> NoJob, rows |-> 0]

Free == [op |-> "free", job |-> NoJob, todo |-> {}]
Idle == [pc |-> "idle", job |-> NoJob, left |-> 0, created |-> FALSE]

VARIABLES
    state,      \* Job.state; "new" before submit, "lost" once the process has exited
    table,      \* Job.table_uri
    cancel,     \* the jobs whose cancel Event is set
    result,     \* Job.result
    registry,   \* the keys of _REGISTRY
    pool,       \* what _POOL has accepted and not started, oldest first
    worker,     \* the pool's single thread, and the locals of its run()
    handler,    \* the request the event loop is in
    journal,    \* jobs_dir()/<id>.json
    newer,      \* journals written since this one was: their order by mtime
    unsaved,    \* history: the worker's job, if its last journal write did not reach the disk
    faults,     \* how many did not
    disk        \* the tables themselves: who made them, how many batches they hold

vars == <<state, table, cancel, result, registry, pool, worker, handler,
          journal, newer, unsaved, faults, disk>>

\* What a journal file can be found to be: the state of the job it holds, or no record.
Record == Live \cup Ended \cup {"interrupted", "absent", "torn"}

TypeOK ==
    /\ state \in [Job -> Live \cup Ended \cup {"new", "lost"}]
    /\ table \in [Job -> Table \cup {NoTable}]
    /\ cancel \subseteq Job
    /\ result \in [Job -> [created : BOOLEAN]]
    /\ registry \subseteq Job
    /\ pool \in Seq(Job)
    /\ worker \in [pc : {"idle", "started", "plan", "file", "flush", "index",
                         "journal", "prune"},
                   job : Job \cup {NoJob}, left : Nat, created : BOOLEAN]
    /\ handler \in [op : {"free", "validated", "registered", "journalled", "cancel",
                          "forget", "discard", "discarded", "listing", "rewrite"},
                    job : Job \cup {NoJob}, todo : SUBSET Job]
    /\ journal \in [Job -> Record]
    /\ newer \in [Job -> SUBSET Job]
    /\ unsaved \subseteq Job /\ faults \in 0..Faults
    /\ disk \in [Table -> [owner : Job \cup {NoJob, Foreign}, rows : Nat]]

\* A table may already stand at a destination: somebody else's.
Init ==
    /\ state = [j \in Job |-> "new"]
    /\ table = [j \in Job |-> NoTable]
    /\ cancel = {}
    /\ result = [j \in Job |-> NoResult]
    /\ registry = {}
    /\ pool = <<>>
    /\ worker = Idle
    /\ handler = Free
    /\ journal = [j \in Job |-> "absent"]
    /\ newer = [j \in Job |-> {}]
    /\ unsaved = {} /\ faults = 0
    /\ disk \in [Table -> {Nothing, [owner |-> Foreign, rows |-> 1]}]

--------------------------------------------------------------------------
(* The journal. *)

Exists(t) == disk[t].owner # NoJob
Present(f) == journal[f] # "absent"
Readable(f) == journal[f] \notin {"absent", "torn"}

\* as_dict, of which the state is what load_journal and a reader go by.
AsDict(j) == state[j]

Put(j, record) ==
    /\ journal' = [journal EXCEPT ![j] = record]
    /\ newer' = [k \in Job |-> IF k = j THEN {} ELSE newer[k] \cup {j}]

\* The disk may refuse: the file is not opened and stays as it was, or it is opened,
\* which empties it, and not filled.  Either way the caller is not told.
WriteJournal(j, record) ==
    \/ Put(j, record) /\ unsaved' = unsaved \ {j} /\ UNCHANGED faults
    \/ /\ faults < Faults /\ faults' = faults + 1
       /\ Put(j, "torn") \/ UNCHANGED <<journal, newer>>
       /\ unsaved' = unsaved \cup ({j} \cap {worker.job})

Unlink(S) ==
    /\ journal' = [j \in Job |-> IF j \in S THEN "absent" ELSE journal[j]]
    /\ newer' = [j \in Job |-> IF j \in S THEN {} ELSE newer[j] \ S]

\* _prune_journal: everything but the Keep most recently written.
Stale == {j \in Job : Present(j) /\ Cardinality({k \in newer[j] : Present(k)}) >= Keep}

UNCHANGED_JOURNAL == UNCHANGED <<journal, newer, unsaved, faults>>

--------------------------------------------------------------------------
(* Requests: the event loop's steps. *)

HandlerAt(op) == handler.op = op
Answer == handler' = Free

\* start_job: _validate refuses a path that exists; the table is not taken yet.
StartJob(j, t) ==
    /\ HandlerAt("free")
    /\ state[j] = "new"
    /\ ~Exists(t)
    /\ table' = [table EXCEPT ![j] = t]
    /\ handler' = [Free EXCEPT !.op = "validated", !.job = j]
    /\ UNCHANGED <<state, cancel, result, registry, pool, worker, disk>>
    /\ UNCHANGED_JOURNAL

\* Mutant: only queued and running jobs keep their table.
BusyUnlessCancelling(t) ==
    \E k \in registry : state[k] \in {"queued", "running"} /\ table[k] = t

Busy(t) == \E k \in registry : state[k] \in Live /\ table[k] = t

\* submit, under _LOCK.  A refusal has registered nothing.
Submit ==
    /\ HandlerAt("validated")
    /\ LET j == handler.job
       IN  IF Busy(table[j])
           THEN /\ table' = [table EXCEPT ![j] = NoTable]
                /\ Answer
                /\ UNCHANGED <<state, registry>>
           ELSE /\ state' = [state EXCEPT ![j] = "queued"]
                /\ registry' = registry \cup {j}
                /\ handler' = [handler EXCEPT !.op = "registered"]
                /\ UNCHANGED table
    /\ UNCHANGED <<cancel, result, pool, worker, disk>>
    /\ UNCHANGED_JOURNAL

SubmitJournal ==
    /\ HandlerAt("registered")
    /\ WriteJournal(handler.job, AsDict(handler.job))
    /\ handler' = [handler EXCEPT !.op = "journalled"]
    /\ UNCHANGED <<state, table, cancel, result, registry, pool, worker, disk>>

SubmitPool ==
    /\ HandlerAt("journalled")
    /\ pool' = Append(pool, handler.job)
    /\ Answer
    /\ UNCHANGED <<state, table, cancel, result, registry, worker, disk>>
    /\ UNCHANGED_JOURNAL

\* cancel reads job.state without the lock ...
Cancel(j) ==
    /\ HandlerAt("free")
    /\ j \in registry
    /\ state[j] \in Live
    /\ cancel' = cancel \cup {j}
    /\ handler' = [Free EXCEPT !.op = "cancel", !.job = j]
    /\ UNCHANGED <<state, table, result, registry, pool, worker, disk>>
    /\ UNCHANGED_JOURNAL

\* Mutant: a misspelt state, outside LIVE_STATES.
CancelMarkMisspelt ==
    /\ HandlerAt("cancel")
    /\ state' = [state EXCEPT ![handler.job] = "canceling"]
    /\ Answer
    /\ UNCHANGED <<table, cancel, result, registry, pool, worker, disk>>
    /\ UNCHANGED_JOURNAL

\* ... and writes it under the lock, whatever it has become in between.
CancelMark ==
    /\ HandlerAt("cancel")
    /\ state' = [state EXCEPT ![handler.job] = "cancelling"]
    /\ Answer
    /\ UNCHANGED <<table, cancel, result, registry, pool, worker, disk>>
    /\ UNCHANGED_JOURNAL

\* forget takes any id, one in the registry or one only the journal knows.
Forget(j) ==
    /\ HandlerAt("free")
    /\ j \in registry \/ Present(j)
    /\ registry' = registry \ {j}
    /\ handler' = [Free EXCEPT !.op = "forget", !.job = j]
    /\ UNCHANGED <<state, table, cancel, result, pool, worker, disk>>
    /\ UNCHANGED_JOURNAL

\* The route answers with the listing, in the same request, or with an error when the
\* file cannot be removed: the job has left the registry all the same.
ForgetUnlink ==
    /\ HandlerAt("forget")
    /\ \/ /\ Unlink({handler.job}) /\ UNCHANGED <<unsaved, faults>>
          /\ handler' = [Free EXCEPT !.op = "listing",
                                     !.todo = {j \in Job : Present(j)} \ {handler.job}]
       \/ Answer /\ UNCHANGED_JOURNAL
    /\ UNCHANGED <<state, table, cancel, result, registry, pool, worker, disk>>

Discard(j) ==
    /\ HandlerAt("free")
    /\ j \in registry
    /\ state[j] \notin Live
    /\ result[j].created
    /\ handler' = [Free EXCEPT !.op = "discard", !.job = j]
    /\ UNCHANGED <<state, table, cancel, result, registry, pool, worker, disk>>
    /\ UNCHANGED_JOURNAL

\* writer.discard: by path, if anything is there.
DiscardRemove ==
    /\ HandlerAt("discard")
    /\ disk' = [disk EXCEPT ![table[handler.job]] = Nothing]
    /\ handler' = [handler EXCEPT !.op = "discarded"]
    /\ UNCHANGED <<state, table, cancel, result, registry, pool, worker>>
    /\ UNCHANGED_JOURNAL

DiscardJournal ==
    /\ HandlerAt("discarded")
    /\ WriteJournal(handler.job, AsDict(handler.job))
    /\ Answer
    /\ UNCHANGED <<state, table, cancel, result, registry, pool, worker, disk>>

\* listing: load_journal over every file in the directory, those of jobs this
\* process is running included.  (The first call in a process does it twice.)
Listing ==
    /\ HandlerAt("free")
    /\ \E j \in Job : Present(j)
    /\ handler' = [Free EXCEPT !.op = "listing", !.todo = {j \in Job : Present(j)}]
    /\ UNCHANGED <<state, table, cancel, result, registry, pool, worker, disk>>
    /\ UNCHANGED_JOURNAL

\* One file: a live record is about to be rewritten; any other, one that does not
\* parse, or one the worker is half-way through writing, is left alone.
ListingRead(f) ==
    /\ HandlerAt("listing")
    /\ f \in handler.todo
    /\ \/ /\ journal[f] \in Live
          /\ handler' = [handler EXCEPT !.op = "rewrite", !.job = f, !.todo = @ \ {f}]
       \/ /\ journal[f] \notin Live \/ worker.job = f
          /\ handler' = [handler EXCEPT !.todo = @ \ {f}]
    /\ UNCHANGED <<state, table, cancel, result, registry, pool, worker, disk>>
    /\ UNCHANGED_JOURNAL

\* Mutant: what was left mid-flight is put down as failed.
ListingRewriteFailed ==
    /\ HandlerAt("rewrite")
    /\ WriteJournal(handler.job, "failed")
    /\ handler' = [Free EXCEPT !.op = "listing", !.todo = handler.todo]
    /\ UNCHANGED <<state, table, cancel, result, registry, pool, worker, disk>>

ListingRewrite ==
    /\ HandlerAt("rewrite")
    /\ WriteJournal(handler.job, "interrupted")
    /\ handler' = [Free EXCEPT !.op = "listing", !.todo = handler.todo]
    /\ UNCHANGED <<state, table, cancel, result, registry, pool, worker, disk>>

ListingEnd ==
    /\ HandlerAt("listing")
    /\ handler.todo = {}
    /\ Answer
    /\ UNCHANGED <<state, table, cancel, result, registry, pool, worker, disk>>
    /\ UNCHANGED_JOURNAL

HandlerStep ==
    \/ Submit \/ SubmitJournal \/ SubmitPool \/ CancelMark \/ ForgetUnlink
    \/ DiscardRemove \/ DiscardJournal \/ ListingRewrite \/ ListingEnd
    \/ \E f \in Job : ListingRead(f)

Request ==
    \/ \E j \in Job : Cancel(j) \/ Forget(j) \/ Discard(j)
    \/ \E j \in Job, t \in Table : StartJob(j, t)
    \/ Listing

--------------------------------------------------------------------------
(* The worker: _execute, with run() between its first journal and its last. *)

WorkerAt(pc) == worker.pc = pc

\* A tick of the run may or may not be one that is journalled (the first file, a
\* stage change, every fiftieth file), so either happens.
Tick == UNCHANGED_JOURNAL \/ WriteJournal(worker.job, AsDict(worker.job))

\* Mutant: the newest waiting job goes first.
StartNewest ==
    LET n == Len(pool) IN
    /\ WorkerAt("idle")
    /\ pool # <<>>
    /\ pool' = SubSeq(pool, 1, n - 1)
    /\ state' = [state EXCEPT ![pool[n]] = "running"]
    /\ worker' = [Idle EXCEPT !.pc = "started", !.job = pool[n]]
    /\ UNCHANGED <<table, cancel, result, registry, handler, disk>>
    /\ UNCHANGED_JOURNAL

Start ==
    /\ WorkerAt("idle")
    /\ pool # <<>>
    /\ pool' = Tail(pool)
    /\ state' = [state EXCEPT ![Head(pool)] = "running"]
    /\ worker' = [Idle EXCEPT !.pc = "started", !.job = Head(pool)]
    /\ UNCHANGED <<table, cancel, result, registry, handler, disk>>
    /\ UNCHANGED_JOURNAL

StartJournal ==
    /\ WorkerAt("started")
    /\ WriteJournal(worker.job, AsDict(worker.job))
    /\ worker' = [worker EXCEPT !.pc = "plan"]
    /\ UNCHANGED <<state, table, cancel, result, registry, pool, handler, disk>>

\* The survey and the embedder's probe went well; a bad plan is RunRaise.
RunPlan ==
    /\ WorkerAt("plan")
    /\ worker' = [worker EXCEPT !.pc = "file", !.left = Files]
    /\ Tick
    /\ UNCHANGED <<state, table, cancel, result, registry, pool, handler, disk>>

\* check_cancel lets the file through; it fails, fills a batch, is the last one
\* with rows pending (flush), or none of these.
RunFile ==
    /\ WorkerAt("file")
    /\ worker.left > 0
    /\ worker.job \notin cancel
    /\ \E pc \in {"file", "flush"} :
          worker' = [worker EXCEPT !.pc = pc, !.left = @ - 1]
    /\ Tick
    /\ UNCHANGED <<state, table, cancel, result, registry, pool, handler, disk>>

\* Mutant: create_table does not ask whether anything is there.
RunFlushAdopting ==
    /\ WorkerAt("flush")
    /\ LET t == table[worker.job]
       IN  /\ disk' = [disk EXCEPT ![t] = [owner |-> IF Exists(t) THEN @.owner ELSE worker.job,
                                           rows  |-> @.rows + 1]]
           /\ worker' = [worker EXCEPT !.pc = "file", !.created = TRUE]
    /\ Tick
    /\ UNCHANGED <<state, table, cancel, result, registry, pool, handler>>

\* The first batch creates the table; create_table raises if one is there (see
\* RunRaise).  A later batch is appended by path, and Lance makes the dataset anew
\* if the path has meanwhile been emptied.
RunFlush ==
    /\ WorkerAt("flush")
    /\ LET t == table[worker.job]
       IN  /\ ~worker.created => ~Exists(t)
           /\ disk' = [disk EXCEPT ![t] = [owner |-> IF Exists(t) THEN @.owner ELSE worker.job,
                                           rows  |-> @.rows + 1]]
           /\ worker' = [worker EXCEPT !.pc = "file", !.created = TRUE]
    /\ Tick
    /\ UNCHANGED <<state, table, cancel, result, registry, pool, handler>>

\* The loop is over: every file was looked at, or the same failure repeated.  With
\* nothing written the run returns; otherwise it indexes first.
RunFinish ==
    /\ WorkerAt("file")
    /\ worker.left < Files
    /\ worker.created
    /\ worker' = [worker EXCEPT !.pc = "index", !.left = 0]
    /\ Tick
    /\ UNCHANGED <<state, table, cancel, result, registry, pool, handler, disk>>

Returned(outcome) ==
    /\ result' = [result EXCEPT ![worker.job] =
                     [created |-> worker.created]]
    /\ state' = [state EXCEPT ![worker.job] = outcome]
    /\ worker' = [worker EXCEPT !.pc = "journal"]
    /\ UNCHANGED <<table, cancel, registry, pool, handler, disk>>
    /\ UNCHANGED_JOURNAL

\* Mutant: no way out for a run that wrote nothing.
RunDoneIfCreated == WorkerAt("index") /\ Returned("done")

RunDone ==
    /\ \/ WorkerAt("index")
       \/ WorkerAt("file") /\ worker.left < Files /\ ~worker.created
    /\ Returned("done")

RunCancelled ==
    /\ WorkerAt("file")
    /\ worker.left > 0
    /\ worker.job \in cancel
    /\ Returned("cancelled")

\* Mutant: the except clause forgets the state.
RunRaiseSilently ==
    /\ worker.pc \in {"plan", "flush", "index"}
    /\ worker' = [worker EXCEPT !.pc = "journal"]
    /\ UNCHANGED <<state, table, cancel, result, registry, pool, handler, disk>>
    /\ UNCHANGED_JOURNAL

\* A bad plan, an embedder or a disk that fails a whole batch, a table that is
\* already there, or an index that cannot be built.  No result is left behind.
RunRaise ==
    /\ worker.pc \in {"plan", "flush", "index"}
    /\ state' = [state EXCEPT ![worker.job] = "failed"]
    /\ worker' = [worker EXCEPT !.pc = "journal"]
    /\ UNCHANGED <<table, cancel, result, registry, pool, handler, disk>>
    /\ UNCHANGED_JOURNAL

FinalJournal ==
    /\ WorkerAt("journal")
    /\ WriteJournal(worker.job, AsDict(worker.job))
    /\ worker' = [worker EXCEPT !.pc = "prune"]
    /\ UNCHANGED <<state, table, cancel, result, registry, pool, handler, disk>>

\* The oldest goes first, and the first that cannot be removed is the end of it.
Prune ==
    /\ WorkerAt("prune")
    /\ \E S \in SUBSET Stale :
          /\ \A j \in Stale : newer[j] \cap S # {} => j \in S
          /\ Unlink(S)
    /\ worker' = Idle /\ unsaved' = {} /\ UNCHANGED faults
    /\ UNCHANGED <<state, table, cancel, result, registry, pool, handler, disk>>

WorkerStep ==
    \/ Start \/ StartJournal \/ RunPlan \/ RunFile \/ RunFlush \/ RunFinish
    \/ RunDone \/ RunCancelled \/ RunRaise \/ FinalJournal \/ Prune

--------------------------------------------------------------------------
(* The process exits and the server is started again. *)

\* write_text truncates before it writes: a journal in the middle of a write is left
\* torn, and load_journal will skip it.
BeingWritten ==
    {j \in Job : \/ j = worker.job /\ worker.pc # "prune"
                 \/ j = handler.job /\ handler.op \in {"registered", "discarded", "rewrite"}}

Exit ==
    /\ state' = [j \in Job |-> IF state[j] = "new" THEN "new" ELSE "lost"]
    /\ table' = [j \in Job |-> IF state[j] = "new" THEN NoTable ELSE table[j]]
    /\ cancel' = {}
    /\ result' = [j \in Job |-> NoResult]
    /\ registry' = {}
    /\ pool' = <<>>
    /\ worker' = Idle
    /\ handler' = Free
    /\ \E torn \in SUBSET BeingWritten :
          journal' = [j \in Job |-> IF j \in torn THEN "torn" ELSE journal[j]]
    /\ unsaved' = {}
    /\ UNCHANGED <<newer, faults, disk>>

Next == Request \/ HandlerStep \/ WorkerStep \/ Exit

\* The event loop finishes a request it has begun and the pool's thread keeps running.
\* Nothing makes a user send a request, and nothing makes the process exit.
Fairness == WF_vars(HandlerStep) /\ WF_vars(WorkerStep)

Spec == Init /\ [][Next]_vars /\ Fairness

--------------------------------------------------------------------------
(* What makes the registry correct. *)

Pooled == {pool[n] : n \in DOMAIN pool}

\* Two registered jobs that are both queued, running or cancelling never write the
\* same table: submit's refusal is made in one critical section, and cancel's
\* late write of "cancelling" cannot revive a job beside a newer one.
OneWriterPerTable ==
    \A j, k \in registry :
        j # k /\ state[j] \in Live /\ state[k] \in Live => table[j] # table[k]

\* A job the registry calls queued or running is really on its way: it waits in the
\* pool, or the worker has it, or the request that submits it is still in submit.
AliveMeansScheduled ==
    \A j \in registry : state[j] \in {"queued", "running"} =>
        \/ j \in Pooled
        \/ worker.job = j
        \/ handler.job = j /\ handler.op \in {"registered", "journalled"}

\* While a run may be leaving rows behind, and until somebody forgets it, there is a
\* journal a restart can read to explain them, unless the last attempt to write it
\* failed, which _write_journal passes over: no pruning, which other jobs cause, and no
\* listing takes it away.  And a journal that records an outcome records one the run has
\* really had: its thread will write nothing more to the table.
JournalsTellTheTruth ==
    /\ worker.job \in registry /\ worker.pc \notin {"idle", "started"} =>
          Readable(worker.job) \/ worker.job \in unsaved
    /\ \A j \in Job : journal[j] \in Ended =>
          /\ j \notin Pooled
          /\ worker.job = j => worker.pc \in {"journal", "prune"}


\* "Ingest creates; it does not adopt or overwrite": a table that is there grows only
\* by the batches of the run that made it, and changes in no other way but being
\* deleted by a discard.
OnlyItsMakerGrowsATable ==
    [][\A t \in Table : disk[t] # Nothing /\ disk'[t] # disk[t] =>
          \/ handler.op = "discard" /\ disk'[t] = Nothing
          \/ /\ disk[t].owner = worker.job
             /\ disk'[t] = [disk[t] EXCEPT !.rows = @ + 1]]_vars

\* A job nobody cancels comes to an end of its own, or goes with its process.
UncancelledJobsEnd ==
    \A j \in Job : state[j] = "queued" ~> state[j] \in Ended \cup {"lost"} \/ j \in cancel

\* The registry and its pool are a queue with one server that never resumes anything.
Untaken == {j \in Job : state[j] = "new" \/ (handler.job = j /\ handler.op \in {"registered", "journalled"})}
Queue == INSTANCE SerialQueue WITH
    Item    <- Job,
    NoItem  <- NoJob,
    waiting <- pool,
    serving <- worker.job,
    lost    <- {j \in Job : state[j] = "lost"},
    over    <- {j \in Job \ (Untaken \cup Pooled \cup {worker.job}) : state[j] # "lost"}

IsASerialQueue == Queue!Spec

--------------------------------------------------------------------------
(* What the text says of the registry and the code does not do. *)

\* "Stop after the current file" (cancel_job): a job that is being cancelled stops.
CancellingEnds ==
    \A j \in Job : state[j] = "cancelling" /\ j \in registry
                      ~> state[j] \in Ended \cup {"lost"} \/ j \notin registry

\* "Delete the table a job created. Refuses one it did not." (discard)
DiscardTakesOnlyItsOwn ==
    [][handler.op = "discard" /\ disk' # disk => disk[table[handler.job]].owner = handler.job]_vars

\* "Read past jobs, rewriting anything left mid-flight as interrupted" (load_journal):
\* a job this process saw to its end is not recorded as interrupted.
FinishedIsNotInterrupted ==
    \A j \in registry :
        state[j] \in Ended /\ worker.job # j => journal[j] # "interrupted"

====
