---- MODULE ScanJobs ----
(***************************************************************************)
(* The data scans of server/scanjobs.py as server/routes/datascan.py       *)
(* drives them.  The registry is memory only: it ends with its process and *)
(* leaves nothing, so an exit is no action here.                           *)
(*                                                                         *)
(* Two threads again: the event loop, one request at a time, and the one   *)
(* worker of the pool.  submit and forget hold the lock from end to end    *)
(* and read each state once, so they are one step each; cancel holds it    *)
(* only to find the job, so it is three.  Jobs are numbered as they are    *)
(* submitted.                                                              *)
(***************************************************************************)
EXTENDS Naturals, Sequences, FiniteSets

CONSTANTS Jobs,     \* bound: submissions
          Table, NoTable,
          Checks,   \* bound: selections of one job
          Keep      \* KEEP

ASSUME ConstantsAssumption ==
    Jobs \in Nat \ {0} /\ Checks \in Nat \ {0} /\ Keep \in Nat \ {0} /\ NoTable \notin Table

Job == 1 .. Jobs
NoJob == 0
Live == {"queued", "running", "cancelling"}     \* LIVE_STATES
Ended == {"cancelled", "failed", "done"}

VARIABLES
    state,      \* ScanJob.state; "new" before submit
    table,      \* ScanJob.table
    todo,       \* selections whose check has not run
    cancel,     \* the jobs whose cancel Event is set
    registry,   \* the keys of _REGISTRY
    order,      \* _ORDER
    pool,       \* what _POOL has accepted and not started
    worker,     \* the pool's thread
    handler     \* the event loop: free, or inside cancel(job)

vars == <<state, table, todo, cancel, registry, order, pool, worker, handler>>
registered == <<registry, order>>

Idle == [pc |-> "idle", job |-> NoJob]
Free == [op |-> "free", job |-> NoJob]
Members(s) == {s[n] : n \in DOMAIN s}

TypeOK ==
    /\ state \in [Job -> Live \cup Ended \cup {"new"}]
    /\ table \in [Job -> Table \cup {NoTable}]
    /\ todo \in [Job -> 0 .. Checks]
    /\ cancel \subseteq Job
    /\ registry \subseteq Job
    /\ order \in Seq(Job) /\ Len(order) = Cardinality(Members(order))
    /\ pool \in Seq(Job)
    /\ worker \in [pc : {"idle", "opened", "loop", "check", "judge", "cancelled", "done",
                         "close"}, job : Job \cup {NoJob}]
    /\ handler \in [op : {"free", "look", "mark"}, job : Job \cup {NoJob}]

Init ==
    /\ state = [j \in Job |-> "new"]
    /\ table = [j \in Job |-> NoTable]
    /\ todo = [j \in Job |-> 0]
    /\ cancel = {} /\ registry = {} /\ order = <<>> /\ pool = <<>>
    /\ worker = Idle /\ handler = Free

--------------------------------------------------------------------------
(* Requests. *)

Finished(j) == j \in registry /\ state[j] \notin Live

\* Mutant: any id may be the stale one.
PrunedBlindly(s) == IF Len(s) > Keep THEN SubSeq(s, Len(s) - Keep + 1, Len(s)) ELSE s

\* The while loop of submit over _ORDER: ids of finished jobs leave at the head until
\* Keep are left; the first that is live, or no longer registered, goes to the tail
\* and ends the loop.
Pruned(s) ==
    LET surplus == IF Len(s) > Keep THEN Len(s) - Keep ELSE 0
        gone == CHOOSE n \in 0 .. surplus : /\ \A i \in 1 .. n : Finished(s[i])
                                            /\ n < surplus => ~Finished(s[n + 1])
        rest == SubSeq(s, gone + 1, Len(s))
    IN  IF Len(rest) > Keep THEN Append(Tail(rest), Head(rest)) ELSE rest

Busy(t) == \E j \in registry : table[j] = t /\ state[j] \in Live

\* submit, with a table that opens.  One that does not, or is busy, changes nothing.
Submit(t, n) ==
    /\ handler = Free
    /\ ~Busy(t)
    /\ \E j \in Job :
          /\ state[j] = "new"
          /\ \A i \in 1 .. j - 1 : state[i] # "new"
          /\ state' = [state EXCEPT ![j] = "queued"]
          /\ table' = [table EXCEPT ![j] = t]
          /\ todo' = [todo EXCEPT ![j] = n]
          /\ order' = Pruned(Append(order, j))
          /\ registry' = (registry \cup {j}) \ (Members(order) \ Members(order'))
          /\ pool' = Append(pool, j)
    /\ UNCHANGED <<cancel, worker, handler>>

CancelSet(j) ==
    /\ handler = Free
    /\ j \in registry
    /\ state[j] \in Live
    /\ cancel' = cancel \cup {j}
    /\ handler' = [op |-> "look", job |-> j]
    /\ UNCHANGED <<state, table, todo, registered, pool, worker>>

CancelLook ==
    /\ handler.op = "look"
    /\ handler' = IF state[handler.job] = "running" THEN [handler EXCEPT !.op = "mark"] ELSE Free
    /\ UNCHANGED <<state, table, todo, cancel, registered, pool, worker>>

CancelMark ==
    /\ handler.op = "mark"
    /\ state' = [state EXCEPT ![handler.job] = "cancelling"]
    /\ handler' = Free
    /\ UNCHANGED <<table, todo, cancel, registered, pool, worker>>

\* forget leaves the id in _ORDER.
Forget(j) ==
    /\ handler = Free
    /\ Finished(j)
    /\ registry' = registry \ {j}
    /\ UNCHANGED <<state, table, todo, cancel, order, pool, worker, handler>>

--------------------------------------------------------------------------
(* The worker: _run. *)

At(pc) == worker.pc = pc
Goto(pc) == worker' = [worker EXCEPT !.pc = pc]
SetState(s) == state' = [state EXCEPT ![worker.job] = s]

\* Mutant: the newest goes first.
OpenNewest ==
    /\ At("idle")
    /\ pool # <<>>
    /\ worker' = [pc |-> "opened", job |-> pool[Len(pool)]]
    /\ pool' = SubSeq(pool, 1, Len(pool) - 1)
    /\ UNCHANGED <<state, table, todo, cancel, registered, handler>>

\* The job's own handle, at the version it was quoted against.
Open ==
    /\ At("idle")
    /\ pool # <<>>
    /\ worker' = [pc |-> "opened", job |-> Head(pool)]
    /\ pool' = Tail(pool)
    /\ UNCHANGED <<state, table, todo, cancel, registered, handler>>

\* That version, or the table, is gone by now: the exception ends in the pool's
\* future, which nobody reads.
OpenRaises ==
    /\ At("opened")
    /\ worker' = Idle
    /\ UNCHANGED <<state, table, todo, cancel, registered, pool, handler>>

Run ==
    /\ At("opened")
    /\ SetState("running")
    /\ Goto("loop")
    /\ UNCHANGED <<table, todo, cancel, registered, pool, handler>>

LoopStops ==
    /\ At("loop")
    /\ todo[worker.job] > 0
    /\ worker.job \in cancel
    /\ SetState("cancelling")
    /\ Goto("judge")
    /\ UNCHANGED <<table, todo, cancel, registered, pool, handler>>

LoopChecks ==
    /\ At("loop")
    /\ todo[worker.job] > 0
    /\ worker.job \notin cancel
    /\ Goto("check")
    /\ UNCHANGED <<state, table, todo, cancel, registered, pool, handler>>

\* run_check answers for a check that fails or is stopped between batches, too.
CheckEnds ==
    /\ At("check")
    /\ todo' = [todo EXCEPT ![worker.job] = @ - 1]
    /\ Goto("loop")
    /\ UNCHANGED <<state, table, cancel, registered, pool, handler>>

\* Mutant: the except clause forgets the state.
CheckRaisesSilently ==
    /\ At("check")
    /\ Goto("close")
    /\ UNCHANGED <<state, table, todo, cancel, registered, pool, handler>>

\* The survey of the table or a capability raised.
CheckRaises ==
    /\ At("check")
    /\ SetState("failed")
    /\ Goto("close")
    /\ UNCHANGED <<table, todo, cancel, registered, pool, handler>>

LoopEnds ==
    /\ At("loop")
    /\ todo[worker.job] = 0
    /\ Goto("judge")
    /\ UNCHANGED <<state, table, todo, cancel, registered, pool, handler>>

\* The flag is read, and then the state is written.
Judge ==
    /\ At("judge")
    /\ Goto(IF worker.job \in cancel THEN "cancelled" ELSE "done")
    /\ UNCHANGED <<state, table, todo, cancel, registered, pool, handler>>

End ==
    /\ worker.pc \in {"cancelled", "done"}
    /\ SetState(worker.pc)
    /\ Goto("close")
    /\ UNCHANGED <<table, todo, cancel, registered, pool, handler>>

Close ==
    /\ At("close")
    /\ worker' = Idle
    /\ UNCHANGED <<state, table, todo, cancel, registered, pool, handler>>

WorkerStep ==
    \/ Open \/ OpenRaises \/ Run \/ LoopStops \/ LoopChecks \/ CheckEnds \/ CheckRaises
    \/ LoopEnds \/ Judge \/ End \/ Close

HandlerStep == CancelLook \/ CancelMark

Request == \/ \E t \in Table, n \in 1 .. Checks : Submit(t, n)
           \/ \E j \in Job : CancelSet(j) \/ Forget(j)

Next == Request \/ HandlerStep \/ WorkerStep

\* Both threads keep running; nobody has to ask for anything.
Spec == Init /\ [][Next]_vars /\ WF_vars(HandlerStep) /\ WF_vars(WorkerStep)

--------------------------------------------------------------------------
(* What makes the registry correct. *)

AtWork == (Members(pool) \cup {worker.job}) \ {NoJob}

\* "refusing a second one over a table already being scanned": of two jobs with work
\* to do, or that look as if they had, no two are over one table.  What is queued or
\* being scanned can be found, polled and cancelled: neither the pruning that other
\* submissions cause nor a forget takes it away.  And a job says "cancelled" only if
\* somebody asked, and "done" only if all its checks ran.
ScansAreSound ==
    /\ TypeOK
    /\ \A j \in Job : /\ state[j] = "cancelled" => j \in cancel
                      /\ state[j] = "done" => todo[j] = 0
    /\ \A j, k \in registry \cup AtWork :
          j # k /\ state[j] \in Live /\ state[k] \in Live => table[j] # table[k]
    /\ \A j \in AtWork : state[j] \in Live => j \in registry /\ j \in Members(order)

\* A scan that got its handle, and that nobody cancels, ends.
OpenedScansEnd ==
    \A j \in Job : state[j] = "running" ~> state[j] \in Ended \/ j \in cancel

\* Registry and pool are a queue with one server; it has no exit to survive.
Queue == INSTANCE SerialQueue WITH
    Item    <- Job,
    NoItem  <- NoJob,
    waiting <- pool,
    serving <- worker.job,
    lost    <- {},
    over    <- {j \in Job : state[j] # "new" /\ j \notin AtWork}

IsASerialQueue == Queue!Spec

--------------------------------------------------------------------------
(* What the text says of the registry and the code does not do. *)

\* "A scan of this table is already running." (TableBusy): a table that is refused has
\* a scan queued or running.
BusyMeansAtWork ==
    \A t \in Table : Busy(t) => \E j \in AtWork : table[j] = t

====
