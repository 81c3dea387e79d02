---- MODULE IngestJobsProofs ----
(***************************************************************************)
(* For any number of jobs, tables and files: the registry is well typed,   *)
(* never has two live jobs for one table, and calls no job queued or       *)
(* running that nothing will run; journals tell the truth, a table grows   *)
(* by its maker only, and registry and pool are a queue with one server.   *)
(***************************************************************************)
EXTENDS IngestJobs, SequenceFacts, TLAPS

Submitting == handler.op \in {"registered", "journalled"}

\* Which job each thread may hold.
Shape ==
    /\ handler.op \notin {"free", "listing"} => handler.job \in Job
    /\ worker.pc = "idle" <=> worker.job = NoJob
    /\ handler.op \in {"free", "listing"} => handler.job = NoJob
    /\ handler.op \in {"discard", "discarded", "cancel"} => handler.job \in registry

\* A job is known to the registry, the pool, the worker or a submit only once it has
\* been submitted, and then it has a table.
Submitted ==
    /\ \A j \in registry \cup Pooled \cup ({worker.job} \ {NoJob}) :
          state[j] \notin {"new", "lost"}
    /\ \A j \in Job : state[j] \notin {"new", "lost"} => table[j] \in Table
    /\ handler.op = "validated" => state[handler.job] = "new" /\ table[handler.job] \in Table
    /\ Submitting => state[handler.job] = "queued"

\* A job is in at most one place on its way to the worker.
OnePlace ==
    /\ NoRepeats(pool)
    /\ worker.job \notin Pooled
    /\ Submitting => handler.job \notin Pooled /\ handler.job # worker.job

\* What a job that waits, or one whose run is over, may be called.
Called ==
    /\ \A j \in Pooled : state[j] \in {"queued", "cancelling"}
    /\ worker.pc \in {"journal", "prune"} => state[worker.job] \notin {"queued", "running"}

\* The job a cancel is about to call "cancelling" counts as live already.
AsGoodAsLive(j) == state[j] \in Live \/ (handler.op = "cancel" /\ handler.job = j)

OneWriterStrong ==
    \A j, k \in registry :
        j # k /\ AsGoodAsLive(j) /\ AsGoodAsLive(k) => table[j] # table[k]

IInv == /\ TypeOK /\ Shape /\ Submitted /\ OnePlace /\ Called
        /\ OneWriterStrong /\ AliveMeansScheduled

--------------------------------------------------------------------------
(* The journal stays well typed. *)

Noted == unsaved \subseteq Job /\ faults \in 0..Faults
USE DEF Noted

LEMMA AsDictTyped ==
    ASSUME TypeOK, NEW j \in Job, state[j] \notin {"new", "lost"}
    PROVE  AsDict(j) \in Record
BY DEF TypeOK, AsDict, Record, Live, Ended

LEMMA JournalTyped ==
    ASSUME TypeOK, NEW j \in Job, NEW record \in Record, WriteJournal(j, record)
    PROVE  journal' \in [Job -> Record] /\ newer' \in [Job -> SUBSET Job] /\ Noted'
<1>1. "torn" \in Record
  BY DEF Record
<1>2. ASSUME NEW content \in Record, Put(j, content)
      PROVE  journal' \in [Job -> Record] /\ newer' \in [Job -> SUBSET Job]
  BY <1>2 DEF TypeOK, Put
<1>3. journal' \in [Job -> Record] /\ newer' \in [Job -> SUBSET Job]
  <2>1. Put(j, record) \/ Put(j, "torn") \/ UNCHANGED <<journal, newer>>
    BY DEF WriteJournal
  <2> QED BY <1>1, <1>2, <2>1 DEF TypeOK
<1>4. faults' \in 0..Faults
  BY ConstantsAssumption DEF TypeOK, WriteJournal
<1>5. unsaved' \subseteq Job
  BY DEF TypeOK, WriteJournal
<1> QED BY <1>3, <1>4, <1>5

LEMMA TickTyped ==
    ASSUME TypeOK, Submitted, worker.job \in Job, Tick
    PROVE  journal' \in [Job -> Record] /\ newer' \in [Job -> SUBSET Job] /\ Noted'
<1>1. CASE UNCHANGED_JOURNAL
  BY <1>1 DEF TypeOK, UNCHANGED_JOURNAL
<1>2. CASE WriteJournal(worker.job, AsDict(worker.job))
  <2>1. worker.job # NoJob
    BY ConstantsAssumption
  <2>2. AsDict(worker.job) \in Record
    BY <2>1, AsDictTyped DEF Submitted
  <2> QED BY <1>2, <2>2, JournalTyped
<1> QED BY <1>1, <1>2 DEF Tick

LEMMA UnlinkTyped ==
    ASSUME TypeOK, NEW S, Unlink(S)
    PROVE  journal' \in [Job -> Record] /\ newer' \in [Job -> SUBSET Job]
BY DEF TypeOK, Unlink, Record, Live, Ended

LEMMA StartJobKeeps ==
    ASSUME IInv, NEW j \in Job, NEW t \in Table, StartJob(j, t) PROVE IInv'
<1> USE ConstantsAssumption DEF IInv, StartJob, HandlerAt, Answer, Free
<1>1. Pooled' = Pooled
  BY DEF Pooled
<1>3. TypeOK'
  BY ConstantsAssumption DEF TypeOK, Shape, Submitted, Live, Ended, UNCHANGED_JOURNAL
<1>4. Shape' /\ Submitted' /\ OnePlace'
  BY <1>1 DEF TypeOK, Shape, Submitted, Submitting, OnePlace, Called, Live
<1>5. Called' /\ OneWriterStrong' /\ AliveMeansScheduled'
  BY <1>1 DEF TypeOK, Shape, Submitted, Submitting, OnePlace, Called, OneWriterStrong, AsGoodAsLive, AliveMeansScheduled, Live
<1> QED BY <1>3, <1>4, <1>5

LEMMA CancelKeeps ==
    ASSUME IInv, NEW j \in Job, Cancel(j) PROVE IInv'
<1> USE ConstantsAssumption DEF IInv, Cancel, HandlerAt, Answer, Free
<1>1. Pooled' = Pooled
  BY DEF Pooled
<1>3. TypeOK'
  BY ConstantsAssumption DEF TypeOK, Shape, Submitted, Live, Ended, UNCHANGED_JOURNAL
<1>4. Shape' /\ Submitted' /\ OnePlace'
  BY <1>1 DEF TypeOK, Shape, Submitted, Submitting, OnePlace, Called, Live
<1>5. Called' /\ OneWriterStrong' /\ AliveMeansScheduled'
  BY <1>1 DEF TypeOK, Shape, Submitted, Submitting, OnePlace, Called, OneWriterStrong, AsGoodAsLive, AliveMeansScheduled, Live
<1> QED BY <1>3, <1>4, <1>5

LEMMA ForgetKeeps ==
    ASSUME IInv, NEW j \in Job, Forget(j) PROVE IInv'
<1> USE ConstantsAssumption DEF IInv, Forget, HandlerAt, Answer, Free
<1>1. Pooled' = Pooled
  BY DEF Pooled
<1>3. TypeOK'
  BY ConstantsAssumption DEF TypeOK, Shape, Submitted, Live, Ended, UNCHANGED_JOURNAL
<1>4. Shape' /\ Submitted' /\ OnePlace'
  BY <1>1 DEF TypeOK, Shape, Submitted, Submitting, OnePlace, Called, Live
<1>5. Called' /\ OneWriterStrong' /\ AliveMeansScheduled'
  BY <1>1 DEF TypeOK, Shape, Submitted, Submitting, OnePlace, Called, OneWriterStrong, AsGoodAsLive, AliveMeansScheduled, Live
<1> QED BY <1>3, <1>4, <1>5

LEMMA DiscardKeeps ==
    ASSUME IInv, NEW j \in Job, Discard(j) PROVE IInv'
<1> USE ConstantsAssumption DEF IInv, Discard, HandlerAt, Answer, Free
<1>1. Pooled' = Pooled
  BY DEF Pooled
<1>3. TypeOK'
  BY ConstantsAssumption DEF TypeOK, Shape, Submitted, Live, Ended, UNCHANGED_JOURNAL
<1>4. Shape' /\ Submitted' /\ OnePlace'
  BY <1>1 DEF TypeOK, Shape, Submitted, Submitting, OnePlace, Called, Live
<1>5. Called' /\ OneWriterStrong' /\ AliveMeansScheduled'
  BY <1>1 DEF TypeOK, Shape, Submitted, Submitting, OnePlace, Called, OneWriterStrong, AsGoodAsLive, AliveMeansScheduled, Live
<1> QED BY <1>3, <1>4, <1>5

LEMMA ListingKeeps ==
    ASSUME IInv, Listing PROVE IInv'
<1> USE ConstantsAssumption DEF IInv, Listing, HandlerAt, Answer, Free
<1>1. Pooled' = Pooled
  BY DEF Pooled
<1>3. TypeOK'
  BY ConstantsAssumption DEF TypeOK, Shape, Submitted, Live, Ended, UNCHANGED_JOURNAL
<1>4. Shape' /\ Submitted' /\ OnePlace'
  BY <1>1 DEF TypeOK, Shape, Submitted, Submitting, OnePlace, Called, Live
<1>5. Called' /\ OneWriterStrong' /\ AliveMeansScheduled'
  BY <1>1 DEF TypeOK, Shape, Submitted, Submitting, OnePlace, Called, OneWriterStrong, AsGoodAsLive, AliveMeansScheduled, Live
<1> QED BY <1>3, <1>4, <1>5

LEMMA SubmitJournalKeeps ==
    ASSUME IInv, SubmitJournal PROVE IInv'
<1> USE ConstantsAssumption DEF IInv, SubmitJournal, HandlerAt, Answer, Free
<1>1. Pooled' = Pooled
  BY DEF Pooled
<1>2. journal' \in [Job -> Record] /\ newer' \in [Job -> SUBSET Job] /\ Noted'
  BY AsDictTyped, JournalTyped DEF TypeOK, Shape, Submitted, Submitting
<1>3. TypeOK'
  BY <1>2, ConstantsAssumption DEF TypeOK, Shape, Submitted, Live, Ended
<1>4. Shape' /\ Submitted' /\ OnePlace'
  BY <1>1 DEF TypeOK, Shape, Submitted, Submitting, OnePlace, Called, Live
<1>5. Called' /\ OneWriterStrong' /\ AliveMeansScheduled'
  BY <1>1 DEF TypeOK, Shape, Submitted, Submitting, OnePlace, Called, OneWriterStrong, AsGoodAsLive, AliveMeansScheduled, Live
<1> QED BY <1>3, <1>4, <1>5

LEMMA CancelMarkKeeps ==
    ASSUME IInv, CancelMark PROVE IInv'
<1> USE ConstantsAssumption DEF IInv, CancelMark, HandlerAt, Answer, Free
<1>1. Pooled' = Pooled
  BY DEF Pooled
<1>3. TypeOK'
  BY ConstantsAssumption DEF TypeOK, Shape, Submitted, Live, Ended, UNCHANGED_JOURNAL
<1>4. Shape' /\ Submitted' /\ OnePlace'
  BY <1>1 DEF TypeOK, Shape, Submitted, Submitting, OnePlace, Called, Live
<1>5. Called' /\ OneWriterStrong' /\ AliveMeansScheduled'
  BY <1>1 DEF TypeOK, Shape, Submitted, Submitting, OnePlace, Called, OneWriterStrong, AsGoodAsLive, AliveMeansScheduled, Live
<1> QED BY <1>3, <1>4, <1>5

\* Whatever became of the file, the request is over or goes on to the listing.
LEMMA ForgetAnswers ==
    ASSUME ForgetUnlink
    PROVE  /\ handler'.op \in {"free", "listing"} /\ handler'.job = NoJob
           /\ handler' \in [op : {"free", "validated", "registered", "journalled", "cancel",
                                  "forget", "discard", "discarded", "listing", "rewrite"},
                            job : Job \cup {NoJob}, todo : SUBSET Job]
<1> DEFINE listed == {j \in Job : Present(j)} \ {handler.job}
<1>1. handler' = [Free EXCEPT !.op = "listing", !.todo = listed] \/ handler' = Free
  BY Zenon DEF ForgetUnlink, Answer
<1>2. listed \in SUBSET Job
  OBVIOUS
<1> HIDE DEF listed
<1>3. CASE handler' = [Free EXCEPT !.op = "listing", !.todo = listed]
  BY <1>2, <1>3 DEF Free
<1>4. CASE handler' = Free
  BY <1>4 DEF Free
<1> QED BY <1>1, <1>3, <1>4

LEMMA ForgetUnlinkKeeps ==
    ASSUME IInv, ForgetUnlink PROVE IInv'
<1> USE ConstantsAssumption DEF IInv
<1>1. /\ Pooled' = Pooled /\ handler.op = "forget"
      /\ UNCHANGED <<state, table, cancel, result, registry, pool, worker, disk>>
      /\ \/ Unlink({handler.job}) /\ UNCHANGED <<unsaved, faults>>
         \/ UNCHANGED_JOURNAL
  BY DEF Pooled, ForgetUnlink, HandlerAt
<1>0. /\ handler'.op \in {"free", "listing"} /\ handler'.job = NoJob
      /\ handler' \in [op : {"free", "validated", "registered", "journalled", "cancel",
                             "forget", "discard", "discarded", "listing", "rewrite"},
                       job : Job \cup {NoJob}, todo : SUBSET Job]
  BY ForgetAnswers
<1>2. journal' \in [Job -> Record] /\ newer' \in [Job -> SUBSET Job] /\ Noted'
  <2>1. CASE UNCHANGED_JOURNAL
    BY <2>1 DEF UNCHANGED_JOURNAL, TypeOK
  <2> QED BY <1>1, <2>1, UnlinkTyped DEF TypeOK
<1>3. TypeOK'
  BY <1>0, <1>1, <1>2 DEF TypeOK
<1>4. Shape' /\ Submitted' /\ OnePlace'
  BY <1>0, <1>1 DEF Shape, Submitted, Submitting, OnePlace
<1>5. Called' /\ OneWriterStrong' /\ AliveMeansScheduled'
  BY <1>0, <1>1 DEF Shape, Called, OneWriterStrong, AsGoodAsLive, AliveMeansScheduled
<1> QED BY <1>3, <1>4, <1>5

LEMMA DiscardRemoveKeeps ==
    ASSUME IInv, DiscardRemove PROVE IInv'
<1> USE ConstantsAssumption DEF IInv, DiscardRemove, HandlerAt, Answer, Free
<1>1. Pooled' = Pooled
  BY DEF Pooled
<1>3. TypeOK'
  BY ConstantsAssumption DEF TypeOK, Shape, Submitted, Live, Ended, Nothing, UNCHANGED_JOURNAL
<1>4. Shape' /\ Submitted' /\ OnePlace'
  BY <1>1 DEF TypeOK, Shape, Submitted, Submitting, OnePlace, Called, Live
<1>5. Called' /\ OneWriterStrong' /\ AliveMeansScheduled'
  BY <1>1 DEF TypeOK, Shape, Submitted, Submitting, OnePlace, Called, OneWriterStrong, AsGoodAsLive, AliveMeansScheduled, Live
<1> QED BY <1>3, <1>4, <1>5

LEMMA DiscardJournalKeeps ==
    ASSUME IInv, DiscardJournal PROVE IInv'
<1> USE ConstantsAssumption DEF IInv, DiscardJournal, HandlerAt, Answer, Free
<1>1. Pooled' = Pooled
  BY DEF Pooled
<1>2. journal' \in [Job -> Record] /\ newer' \in [Job -> SUBSET Job] /\ Noted'
  BY AsDictTyped, JournalTyped DEF TypeOK, Shape, Submitted, Submitting
<1>3. TypeOK'
  BY <1>2, ConstantsAssumption DEF TypeOK, Shape, Submitted, Live, Ended
<1>4. Shape' /\ Submitted' /\ OnePlace'
  BY <1>1 DEF TypeOK, Shape, Submitted, Submitting, OnePlace, Called, Live
<1>5. Called' /\ OneWriterStrong' /\ AliveMeansScheduled'
  BY <1>1 DEF TypeOK, Shape, Submitted, Submitting, OnePlace, Called, OneWriterStrong, AsGoodAsLive, AliveMeansScheduled, Live
<1> QED BY <1>3, <1>4, <1>5

LEMMA ListingReadKeeps ==
    ASSUME IInv, NEW f \in Job, ListingRead(f) PROVE IInv'
<1> USE ConstantsAssumption DEF IInv, HandlerAt
<1>1. Pooled' = Pooled /\ UNCHANGED <<state, table, cancel, result, registry, pool, worker, disk, journal, newer, unsaved, faults>>
  BY DEF Pooled, ListingRead, UNCHANGED_JOURNAL
<1>2. \/ handler' = [handler EXCEPT !.op = "rewrite", !.job = f, !.todo = @ \ {f}]
      \/ handler' = [handler EXCEPT !.todo = @ \ {f}]
  BY DEF ListingRead
<1>3. handler.op = "listing"
  BY DEF ListingRead
<1>4. TypeOK'
  <2>1. handler.todo \ {f} \in SUBSET Job
    BY DEF TypeOK
  <2>2. handler' \in [op : {"free", "validated", "registered", "journalled", "cancel",
                           "forget", "discard", "discarded", "listing", "rewrite"},
                     job : Job \cup {NoJob}, todo : SUBSET Job]
    <3>1. CASE handler' = [handler EXCEPT !.op = "rewrite", !.job = f,
                                          !.todo = handler.todo \ {f}]
      BY <3>1, <1>3, <2>1 DEF TypeOK
    <3>2. CASE handler' = [handler EXCEPT !.todo = handler.todo \ {f}]
      BY <3>2, <2>1 DEF TypeOK
    <3> QED BY <1>2, <3>1, <3>2
  <2> QED BY <1>1, <2>2 DEF TypeOK
<1>5. handler'.op \in {"listing", "rewrite"} /\ (handler'.op = "listing" => handler'.job = NoJob)
      /\ handler'.job \in Job \cup {NoJob} /\ (handler'.op = "rewrite" => handler'.job = f)
  <2>1. handler.job = NoJob /\ DOMAIN handler = {"op", "job", "todo"}
    BY <1>3 DEF TypeOK, Shape
  <2> QED BY <1>2, <1>3, <2>1
<1>6. Shape' /\ Submitted' /\ OnePlace'
  BY <1>1, <1>3, <1>5 DEF Shape, Submitted, Submitting, OnePlace
<1>7. Called' /\ OneWriterStrong' /\ AliveMeansScheduled'
  BY <1>1, <1>3, <1>5 DEF Shape, Called, OneWriterStrong, AsGoodAsLive, AliveMeansScheduled
<1> QED BY <1>4, <1>6, <1>7

LEMMA ListingRewriteKeeps ==
    ASSUME IInv, ListingRewrite PROVE IInv'
<1> USE ConstantsAssumption DEF IInv, ListingRewrite, HandlerAt, Answer, Free
<1>1. Pooled' = Pooled
  BY DEF Pooled
<1>2. journal' \in [Job -> Record] /\ newer' \in [Job -> SUBSET Job] /\ Noted'
  <2>1. handler.job \in Job /\ "interrupted" \in Record
    BY DEF TypeOK, Shape, Record
  <2> QED BY <2>1, JournalTyped
<1>3. TypeOK'
  BY <1>2, ConstantsAssumption DEF TypeOK, Shape, Submitted, Live, Ended
<1>4. Shape' /\ Submitted' /\ OnePlace'
  BY <1>1 DEF TypeOK, Shape, Submitted, Submitting, OnePlace, Called, Live
<1>5. Called' /\ OneWriterStrong' /\ AliveMeansScheduled'
  BY <1>1 DEF TypeOK, Shape, Submitted, Submitting, OnePlace, Called, OneWriterStrong, AsGoodAsLive, AliveMeansScheduled, Live
<1> QED BY <1>3, <1>4, <1>5

LEMMA ListingEndKeeps ==
    ASSUME IInv, ListingEnd PROVE IInv'
<1> USE ConstantsAssumption DEF IInv, ListingEnd, HandlerAt, Answer, Free
<1>1. Pooled' = Pooled
  BY DEF Pooled
<1>3. TypeOK'
  BY ConstantsAssumption DEF TypeOK, Shape, Submitted, Live, Ended, UNCHANGED_JOURNAL
<1>4. Shape' /\ Submitted' /\ OnePlace'
  BY <1>1 DEF TypeOK, Shape, Submitted, Submitting, OnePlace, Called, Live
<1>5. Called' /\ OneWriterStrong' /\ AliveMeansScheduled'
  BY <1>1 DEF TypeOK, Shape, Submitted, Submitting, OnePlace, Called, OneWriterStrong, AsGoodAsLive, AliveMeansScheduled, Live
<1> QED BY <1>3, <1>4, <1>5

LEMMA StartJournalKeeps ==
    ASSUME IInv, StartJournal PROVE IInv'
<1> USE ConstantsAssumption DEF IInv, StartJournal, WorkerAt
<1>1. Pooled' = Pooled
  BY DEF Pooled
<1>2. journal' \in [Job -> Record] /\ newer' \in [Job -> SUBSET Job] /\ Noted'
  BY AsDictTyped, JournalTyped DEF TypeOK, Shape, Submitted, Submitting
<1>3. TypeOK'
  BY <1>2, ConstantsAssumption DEF TypeOK, Shape, Submitted, Live, Ended
<1>4. Shape' /\ Submitted' /\ OnePlace'
  BY <1>1 DEF TypeOK, Shape, Submitted, Submitting, OnePlace, Called, Live
<1>5. Called' /\ OneWriterStrong' /\ AliveMeansScheduled'
  BY <1>1 DEF TypeOK, Shape, Submitted, Submitting, OnePlace, Called, OneWriterStrong, AsGoodAsLive, AliveMeansScheduled, Live
<1> QED BY <1>3, <1>4, <1>5

LEMMA RunPlanKeeps ==
    ASSUME IInv, RunPlan PROVE IInv'
<1> USE ConstantsAssumption DEF IInv, RunPlan, WorkerAt
<1>1. Pooled' = Pooled
  BY DEF Pooled
<1>2. journal' \in [Job -> Record] /\ newer' \in [Job -> SUBSET Job] /\ Noted'
  BY TickTyped DEF TypeOK, Shape
<1>3. TypeOK'
  BY <1>2, ConstantsAssumption DEF TypeOK, Shape, Submitted, Live, Ended
<1>4. Shape' /\ Submitted' /\ OnePlace'
  BY <1>1 DEF TypeOK, Shape, Submitted, Submitting, OnePlace, Called, Live
<1>5. Called' /\ OneWriterStrong' /\ AliveMeansScheduled'
  BY <1>1 DEF TypeOK, Shape, Submitted, Submitting, OnePlace, Called, OneWriterStrong, AsGoodAsLive, AliveMeansScheduled, Live
<1> QED BY <1>3, <1>4, <1>5

LEMMA RunFileKeeps ==
    ASSUME IInv, RunFile PROVE IInv'
<1> USE ConstantsAssumption DEF IInv, RunFile, WorkerAt
<1>1. Pooled' = Pooled
  BY DEF Pooled
<1>2. journal' \in [Job -> Record] /\ newer' \in [Job -> SUBSET Job] /\ Noted'
  BY TickTyped DEF TypeOK, Shape
<1>3. TypeOK'
  <2>1. worker.left - 1 \in Nat
    BY DEF TypeOK
  <2>2. PICK pc \in {"file", "flush"} : worker' = [worker EXCEPT !.pc = pc, !.left = worker.left - 1]
    OBVIOUS
  <2>3. worker' \in [pc : {"idle", "started", "plan", "file", "flush", "index", "journal", "prune"},
                     job : Job \cup {NoJob}, left : Nat, created : BOOLEAN]
    BY <2>1, <2>2 DEF TypeOK
  <2> QED BY <1>2, <2>3 DEF TypeOK
<1>4. Shape' /\ Submitted' /\ OnePlace'
  BY <1>1 DEF TypeOK, Shape, Submitted, Submitting, OnePlace, Called, Live
<1>5. Called' /\ OneWriterStrong' /\ AliveMeansScheduled'
  BY <1>1 DEF TypeOK, Shape, Submitted, Submitting, OnePlace, Called, OneWriterStrong, AsGoodAsLive, AliveMeansScheduled, Live
<1> QED BY <1>3, <1>4, <1>5

LEMMA RunFlushKeeps ==
    ASSUME IInv, RunFlush PROVE IInv'
<1> USE ConstantsAssumption DEF IInv, RunFlush, WorkerAt
<1>1. Pooled' = Pooled
  BY DEF Pooled
<1>2. journal' \in [Job -> Record] /\ newer' \in [Job -> SUBSET Job] /\ Noted'
  BY TickTyped DEF TypeOK, Shape
<1>3. TypeOK'
  <2> DEFINE u == table[worker.job]
  <2>1. u \in Table /\ disk[u].rows + 1 \in Nat
    BY DEF TypeOK, Shape, Submitted
  <2>2. [owner |-> IF Exists(u) THEN disk[u].owner ELSE worker.job, rows |-> disk[u].rows + 1]
          \in [owner : Job \cup {NoJob, Foreign}, rows : Nat]
    BY <2>1 DEF TypeOK
  <2>3. disk' \in [Table -> [owner : Job \cup {NoJob, Foreign}, rows : Nat]]
    BY <2>1, <2>2 DEF TypeOK
  <2>4. worker' \in [pc : {"idle", "started", "plan", "file", "flush", "index", "journal", "prune"},
                     job : Job \cup {NoJob}, left : Nat, created : BOOLEAN]
    BY <2>1 DEF TypeOK
  <2> QED BY <1>2, <2>3, <2>4 DEF TypeOK
<1>4. Shape' /\ Submitted' /\ OnePlace'
  BY <1>1 DEF TypeOK, Shape, Submitted, Submitting, OnePlace, Called, Live
<1>5. Called' /\ OneWriterStrong' /\ AliveMeansScheduled'
  BY <1>1 DEF TypeOK, Shape, Submitted, Submitting, OnePlace, Called, OneWriterStrong, AsGoodAsLive, AliveMeansScheduled, Live
<1> QED BY <1>3, <1>4, <1>5

LEMMA RunFinishKeeps ==
    ASSUME IInv, RunFinish PROVE IInv'
<1> USE ConstantsAssumption DEF IInv, RunFinish, WorkerAt
<1>1. Pooled' = Pooled
  BY DEF Pooled
<1>2. journal' \in [Job -> Record] /\ newer' \in [Job -> SUBSET Job] /\ Noted'
  BY TickTyped DEF TypeOK, Shape
<1>3. TypeOK'
  BY <1>2, ConstantsAssumption DEF TypeOK, Shape, Submitted, Live, Ended
<1>4. Shape' /\ Submitted' /\ OnePlace'
  BY <1>1 DEF TypeOK, Shape, Submitted, Submitting, OnePlace, Called, Live
<1>5. Called' /\ OneWriterStrong' /\ AliveMeansScheduled'
  BY <1>1 DEF TypeOK, Shape, Submitted, Submitting, OnePlace, Called, OneWriterStrong, AsGoodAsLive, AliveMeansScheduled, Live
<1> QED BY <1>3, <1>4, <1>5

LEMMA RunDoneKeeps ==
    ASSUME IInv, RunDone PROVE IInv'
<1> USE ConstantsAssumption DEF IInv, RunDone, WorkerAt, Returned
<1>1. Pooled' = Pooled
  BY DEF Pooled
<1>3. TypeOK'
  BY ConstantsAssumption DEF TypeOK, Shape, Submitted, Live, Ended, UNCHANGED_JOURNAL, UNCHANGED_JOURNAL
<1>4. Shape' /\ Submitted' /\ OnePlace'
  BY <1>1 DEF TypeOK, Shape, Submitted, Submitting, OnePlace, Called, Live
<1>5. Called' /\ OneWriterStrong' /\ AliveMeansScheduled'
  BY <1>1 DEF TypeOK, Shape, Submitted, Submitting, OnePlace, Called, OneWriterStrong, AsGoodAsLive, AliveMeansScheduled, Live
<1> QED BY <1>3, <1>4, <1>5

LEMMA RunCancelledKeeps ==
    ASSUME IInv, RunCancelled PROVE IInv'
<1> USE ConstantsAssumption DEF IInv, RunCancelled, WorkerAt, Returned
<1>1. Pooled' = Pooled
  BY DEF Pooled
<1>3. TypeOK'
  BY ConstantsAssumption DEF TypeOK, Shape, Submitted, Live, Ended, UNCHANGED_JOURNAL, UNCHANGED_JOURNAL
<1>4. Shape' /\ Submitted' /\ OnePlace'
  BY <1>1 DEF TypeOK, Shape, Submitted, Submitting, OnePlace, Called, Live
<1>5. Called' /\ OneWriterStrong' /\ AliveMeansScheduled'
  BY <1>1 DEF TypeOK, Shape, Submitted, Submitting, OnePlace, Called, OneWriterStrong, AsGoodAsLive, AliveMeansScheduled, Live
<1> QED BY <1>3, <1>4, <1>5

LEMMA RunRaiseKeeps ==
    ASSUME IInv, RunRaise PROVE IInv'
<1> USE ConstantsAssumption DEF IInv, RunRaise, WorkerAt
<1>1. Pooled' = Pooled
  BY DEF Pooled
<1>3. TypeOK'
  BY ConstantsAssumption DEF TypeOK, Shape, Submitted, Live, Ended, UNCHANGED_JOURNAL
<1>4. Shape' /\ Submitted' /\ OnePlace'
  BY <1>1 DEF TypeOK, Shape, Submitted, Submitting, OnePlace, Called, Live
<1>5. Called' /\ OneWriterStrong' /\ AliveMeansScheduled'
  BY <1>1 DEF TypeOK, Shape, Submitted, Submitting, OnePlace, Called, OneWriterStrong, AsGoodAsLive, AliveMeansScheduled, Live
<1> QED BY <1>3, <1>4, <1>5

LEMMA FinalJournalKeeps ==
    ASSUME IInv, FinalJournal PROVE IInv'
<1> USE ConstantsAssumption DEF IInv, FinalJournal, WorkerAt
<1>1. Pooled' = Pooled
  BY DEF Pooled
<1>2. journal' \in [Job -> Record] /\ newer' \in [Job -> SUBSET Job] /\ Noted'
  BY AsDictTyped, JournalTyped DEF TypeOK, Shape, Submitted, Submitting
<1>3. TypeOK'
  BY <1>2, ConstantsAssumption DEF TypeOK, Shape, Submitted, Live, Ended
<1>4. Shape' /\ Submitted' /\ OnePlace'
  BY <1>1 DEF TypeOK, Shape, Submitted, Submitting, OnePlace, Called, Live
<1>5. Called' /\ OneWriterStrong' /\ AliveMeansScheduled'
  BY <1>1 DEF TypeOK, Shape, Submitted, Submitting, OnePlace, Called, OneWriterStrong, AsGoodAsLive, AliveMeansScheduled, Live
<1> QED BY <1>3, <1>4, <1>5

LEMMA PruneKeeps ==
    ASSUME IInv, Prune PROVE IInv'
<1> USE ConstantsAssumption DEF IInv, Prune, WorkerAt, Idle
<1>1. Pooled' = Pooled
  BY DEF Pooled
<1>0. NoJob \notin Pooled
  BY DEF Pooled, TypeOK
<1>2. journal' \in [Job -> Record] /\ newer' \in [Job -> SUBSET Job] /\ Noted'
  BY UnlinkTyped DEF TypeOK
<1>3. TypeOK'
  BY <1>2, ConstantsAssumption DEF TypeOK, Shape, Submitted, Live, Ended
<1>4. Shape' /\ Submitted' /\ OnePlace'
  BY <1>0, <1>1 DEF TypeOK, Shape, Submitted, Submitting, OnePlace, Called, Live
<1>5. Called' /\ OneWriterStrong' /\ AliveMeansScheduled'
  BY <1>1 DEF TypeOK, Shape, Submitted, Submitting, OnePlace, Called, OneWriterStrong, AsGoodAsLive, AliveMeansScheduled, Live
<1> QED BY <1>3, <1>4, <1>5

LEMMA SubmitKeeps ==
    ASSUME IInv, Submit PROVE IInv'
<1> USE ConstantsAssumption DEF IInv, HandlerAt
<1> DEFINE me == handler.job
<1>1. /\ Pooled' = Pooled
      /\ UNCHANGED <<cancel, result, pool, worker, disk, journal, newer, unsaved, faults>>
      /\ handler.op = "validated" /\ me \in Job /\ state[me] = "new" /\ table[me] \in Table
  BY DEF Pooled, Submit, UNCHANGED_JOURNAL, Shape, Submitted
<1>2. me \notin registry /\ me \notin Pooled /\ me # worker.job
  BY <1>1 DEF Submitted, Shape
<1>3. CASE Busy(table[me])
  <2>1. table' = [table EXCEPT ![me] = NoTable] /\ handler' = Free /\ UNCHANGED <<state, registry>>
    BY <1>3 DEF Submit, Answer
  <2>2. TypeOK'
    BY <1>1, <2>1 DEF TypeOK, Free
  <2>3. Shape' /\ Submitted' /\ OnePlace' /\ Called'
    BY <1>1, <2>1 DEF TypeOK, Shape, Submitted, Submitting, OnePlace, Called, Free
  <2>4. OneWriterStrong' /\ AliveMeansScheduled'
    BY <1>1, <1>2, <2>1 DEF TypeOK, OneWriterStrong, AsGoodAsLive, AliveMeansScheduled, Free
  <2> QED BY <2>2, <2>3, <2>4
<1>4. CASE ~Busy(table[me])
  <2>1. /\ state' = [state EXCEPT ![me] = "queued"] /\ registry' = registry \cup {me}
        /\ handler' = [handler EXCEPT !.op = "registered"] /\ table' = table
    BY <1>4 DEF Submit
  <2>2. TypeOK'
    BY <1>1, <2>1 DEF TypeOK, Live
  <2>3. handler'.op = "registered" /\ handler'.job = me
    BY <2>1 DEF TypeOK
  <2>4. Shape' /\ Submitted' /\ OnePlace'
    BY <1>1, <1>2, <2>1, <2>3 DEF TypeOK, Shape, Submitted, Submitting, OnePlace
  <2>5. Called' /\ AliveMeansScheduled'
    BY <1>1, <1>2, <2>1, <2>3 DEF TypeOK, Shape, Called, AliveMeansScheduled
  <2>6. OneWriterStrong'
    BY <1>1, <1>2, <1>4, <2>1, <2>3 DEF TypeOK, OneWriterStrong, AsGoodAsLive, Busy, Live
  <2> QED BY <2>2, <2>4, <2>5, <2>6
<1> QED BY <1>3, <1>4

LEMMA SubmitPoolKeeps ==
    ASSUME IInv, SubmitPool PROVE IInv'
<1> USE ConstantsAssumption DEF IInv, HandlerAt
<1> DEFINE me == handler.job
<1>1. /\ pool' = Append(pool, me) /\ handler' = Free
      /\ UNCHANGED <<state, table, cancel, result, registry, worker, disk, journal, newer, unsaved, faults>>
      /\ handler.op = "journalled" /\ me \in Job
  BY DEF SubmitPool, Answer, UNCHANGED_JOURNAL, Shape
<1>2. me \notin Pooled /\ me # worker.job /\ state[me] = "queued"
  BY <1>1 DEF OnePlace, Submitted, Submitting
<1>3. Pooled' = Pooled \cup {me} /\ NoRepeats(pool')
  <2>1. Pooled = Entries(pool) /\ Pooled' = Entries(pool')
    BY DEF Pooled, Entries
  <2>2. pool \in Seq(Job) /\ NoRepeats(pool) /\ me \in Job \ Entries(pool)
    BY <1>1, <1>2, <2>1 DEF TypeOK, OnePlace
  <2> QED BY <1>1, <2>1, <2>2, AppendEntries
<1>4. TypeOK'
  BY <1>1 DEF TypeOK, Free
<1>5. Shape' /\ Submitted' /\ OnePlace'
  BY <1>1, <1>2, <1>3 DEF Shape, Submitted, Submitting, OnePlace, Free
<1>6. Called' /\ OneWriterStrong' /\ AliveMeansScheduled'
  BY <1>1, <1>2, <1>3 DEF Shape, Called, OneWriterStrong, AsGoodAsLive, AliveMeansScheduled, Free
<1> QED BY <1>4, <1>5, <1>6

LEMMA StartKeeps ==
    ASSUME IInv, Start PROVE IInv'
<1> USE ConstantsAssumption DEF IInv, WorkerAt
<1> DEFINE me == Head(pool)
<1>1. /\ pool' = Tail(pool) /\ pool # <<>> /\ worker.pc = "idle" /\ worker.job = NoJob
      /\ state' = [state EXCEPT ![me] = "running"]
      /\ worker' = [Idle EXCEPT !.pc = "started", !.job = me]
      /\ UNCHANGED <<table, cancel, result, registry, handler, disk, journal, newer, unsaved, faults>>
  BY DEF Start, UNCHANGED_JOURNAL, Shape
<1>2. me \in Pooled /\ Pooled' = Pooled \ {me} /\ NoRepeats(pool')
  <2>1. Pooled = Entries(pool) /\ Pooled' = Entries(pool')
    BY DEF Pooled, Entries
  <2>2. pool \in Seq(Job) /\ NoRepeats(pool)
    BY DEF TypeOK, OnePlace
  <2> QED BY <1>1, <2>1, <2>2, TailEntries
<1>3. Pooled \subseteq Job
  BY DEF Pooled, TypeOK
<1>4. me \in Job /\ state[me] \in {"queued", "cancelling"}
  BY <1>2, <1>3 DEF Called
<1>5. worker'.pc = "started" /\ worker'.job = me
  BY <1>1 DEF Idle
<1>6. TypeOK'
  <2>1. pool' \in Seq(Job)
    BY <1>1 DEF TypeOK
  <2>2. worker' \in [pc : {"idle", "started", "plan", "file", "flush", "index", "journal", "prune"},
                     job : Job \cup {NoJob}, left : Nat, created : BOOLEAN]
    BY <1>1, <1>4 DEF Idle
  <2> QED BY <1>1, <1>4, <2>1, <2>2 DEF TypeOK, Live
<1>7. Shape' /\ Submitted' /\ OnePlace'
  BY <1>1, <1>2, <1>3, <1>4, <1>5 DEF TypeOK, Shape, Submitted, Submitting, OnePlace
<1>8. Called' /\ OneWriterStrong'
  BY <1>1, <1>2, <1>3, <1>4, <1>5
     DEF TypeOK, Shape, Called, OneWriterStrong, AsGoodAsLive, Live
<1>9. AliveMeansScheduled'
  BY <1>1, <1>2, <1>3, <1>4, <1>5 DEF TypeOK, Shape, AliveMeansScheduled
<1> QED BY <1>6, <1>7, <1>8, <1>9

LEMMA ExitKeeps ==
    ASSUME IInv, Exit PROVE IInv'
<1> USE ConstantsAssumption DEF IInv, Exit, Free, Idle
<1>1. Pooled' = {}
  BY DEF Pooled
<1>2. PICK torn \in SUBSET Job :
          journal' = [j \in Job |-> IF j \in torn THEN "torn"
                                                  ELSE journal[j]]
  BY DEF BeingWritten
<1>3. TypeOK'
  <2>1. "torn" \in Record
    BY DEF Record
  <2>2. journal' \in [Job -> Record]
    BY <1>2, <2>1 DEF TypeOK
  <2>3. state' \in [Job -> Live \cup Ended \cup {"new", "lost"}]
    BY DEF TypeOK
  <2>4. table' \in [Job -> Table \cup {NoTable}]
    BY DEF TypeOK
  <2>5. NoResult \in [created : BOOLEAN]
    BY DEF NoResult
  <2>6. result' \in [Job -> [created : BOOLEAN]]
    BY <2>5
  <2>7. /\ cancel' = {} /\ registry' = {} /\ pool' = <<>> /\ newer' = newer /\ unsaved' = {} /\ faults' = faults /\ disk' = disk
        /\ worker' = Idle /\ handler' = Free
    OBVIOUS
  <2> HIDE DEF Exit
  <2> QED BY <2>2, <2>3, <2>4, <2>6, <2>7 DEF TypeOK
<1>4. Shape' /\ Submitted' /\ OnePlace'
  BY <1>1 DEF TypeOK, Shape, Submitted, Submitting, OnePlace, NoRepeats
<1>5. Called' /\ OneWriterStrong' /\ AliveMeansScheduled'
  BY <1>1 DEF Called, OneWriterStrong, AliveMeansScheduled
<1> QED BY <1>3, <1>4, <1>5

LEMMA InitIInv == Init => IInv
<1> SUFFICES ASSUME Init PROVE IInv
  OBVIOUS
<1> USE ConstantsAssumption DEF Init, Free, Idle
<1>1. Pooled = {}
  BY DEF Pooled
<1>2. TypeOK
  BY DEF TypeOK, NoResult, Nothing, Record
<1>3. Shape /\ Submitted /\ OnePlace
  BY <1>1 DEF Shape, Submitted, Submitting, OnePlace, NoRepeats
<1>4. Called /\ OneWriterStrong /\ AliveMeansScheduled
  BY <1>1 DEF Called, OneWriterStrong, AliveMeansScheduled
<1> QED BY <1>2, <1>3, <1>4 DEF IInv

LEMMA NextIInv == IInv /\ [Next]_vars => IInv'
<1> SUFFICES ASSUME IInv, [Next]_vars PROVE IInv'
  OBVIOUS
<1>1. CASE Request
  BY <1>1, StartJobKeeps, CancelKeeps, ForgetKeeps, DiscardKeeps, ListingKeeps DEF Request
<1>2. CASE HandlerStep
  BY <1>2, SubmitKeeps, SubmitJournalKeeps, SubmitPoolKeeps, CancelMarkKeeps, ForgetUnlinkKeeps,
     DiscardRemoveKeeps, DiscardJournalKeeps, ListingReadKeeps, ListingRewriteKeeps,
     ListingEndKeeps DEF HandlerStep
<1>3. CASE WorkerStep
  BY <1>3, StartKeeps, StartJournalKeeps, RunPlanKeeps, RunFileKeeps, RunFlushKeeps,
     RunFinishKeeps, RunDoneKeeps, RunCancelledKeeps, RunRaiseKeeps, FinalJournalKeeps,
     PruneKeeps DEF WorkerStep
<1>4. CASE Exit
  BY <1>4, ExitKeeps
<1>5. CASE UNCHANGED vars
  <2>1. Pooled' = Pooled /\ UNCHANGED <<state, table, cancel, result, registry, pool, worker,
                                        handler, journal, newer, unsaved, faults, disk>>
    BY <1>5 DEF vars, Pooled
  <2>2. TypeOK'
    BY <2>1 DEF IInv, TypeOK
  <2>3. Shape' /\ Submitted' /\ OnePlace'
    BY <2>1 DEF IInv, Shape, Submitted, Submitting, OnePlace
  <2>4. Called' /\ OneWriterStrong' /\ AliveMeansScheduled'
    BY <2>1 DEF IInv, Called, OneWriterStrong, AsGoodAsLive, AliveMeansScheduled
  <2> QED BY <2>2, <2>3, <2>4 DEF IInv
<1> QED BY <1>1, <1>2, <1>3, <1>4, <1>5 DEF Next

--------------------------------------------------------------------------
(* The results. *)

\* Every reachable state satisfies the inductive invariant.
THEOREM Inductive == Spec => []IInv
BY InitIInv, NextIInv, PTL DEF Spec

\* The registry, its threads, the journal and the tables stay in their types.
THEOREM TypeCorrect == Spec => []TypeOK
<1>1. IInv => TypeOK
  BY DEF IInv
<1> QED BY <1>1, Inductive, PTL

\* However submits, cancels, forgets, discards and the worker's steps interleave, two
\* registered jobs that are still live never name the same table (submit's 409).
THEOREM OneWriter == Spec => []OneWriterPerTable
<1>1. IInv => OneWriterPerTable
  BY DEF IInv, OneWriterStrong, AsGoodAsLive, OneWriterPerTable
<1> QED BY <1>1, Inductive, PTL

\* A job shown as queued or running always has a thread that will get to it; only
\* "cancelling" can be left behind.
THEOREM Scheduled == Spec => []AliveMeansScheduled
<1>1. IInv => AliveMeansScheduled
  BY DEF IInv
<1> QED BY <1>1, Inductive, PTL

--------------------------------------------------------------------------
(* The journal. *)

\* A job whose run is going on is called running, or cancelling.
Running ==
    worker.pc \in {"started", "plan", "file", "flush", "index"} =>
        state[worker.job] \in {"running", "cancelling"}

\* A forget has taken the job out of the registry before it unlinks the journal.
Forgotten == handler.op = "forget" => handler.job \notin registry

\* A job that is not over has no outcome in its journal.
NoEarlyOutcome ==
    \A j \in Job : state[j] \in {"new", "queued", "running"} => journal[j] \notin Ended

JInv == Running /\ Forgotten /\ NoEarlyOutcome /\ JournalsTellTheTruth

\* Who is waiting, at work, or over.
LEMMA Outcomes ==
    ASSUME IInv, Running, NEW j \in Job, state[j] \in Ended
    PROVE  j \notin Pooled /\ (worker.job = j => worker.pc \in {"journal", "prune"})
BY ConstantsAssumption DEF IInv, TypeOK, Shape, Called, Running, Ended

\* A step that leaves the journal, the pool and the worker's job and place alone.
LEMMA JournalStays ==
    ASSUME IInv, JInv, UNCHANGED <<worker, pool, journal, unsaved>>, Forgotten',
           \A j \in Job : state'[j] = state[j] \/ state'[j] = "cancelling"
                             \/ (state[j] = "new" /\ state'[j] = "queued"),
           worker.job \in registry' => worker.job \in registry
    PROVE  JInv'
<1>1. Pooled' = Pooled
  BY DEF Pooled
<1>2. Running'
  BY ConstantsAssumption DEF IInv, TypeOK, Shape, JInv, Running
<1>3. NoEarlyOutcome'
  BY DEF JInv, NoEarlyOutcome
<1>4. JournalsTellTheTruth'
  BY <1>1 DEF JInv, JournalsTellTheTruth, Readable
<1> QED BY <1>2, <1>3, <1>4 DEF JInv

\* What a write, whether it reaches the disk or not, leaves of the journals.
LEMMA Written ==
    ASSUME IInv, NEW j \in Job, NEW record, WriteJournal(j, record),
           record \notin {"absent", "torn"}
    PROVE  /\ \A k \in Job \ {j} : journal'[k] = journal[k] /\ (k \in unsaved' <=> k \in unsaved)
           /\ j = worker.job => Readable(j)' \/ j \in unsaved'
           /\ journal'[j] = record \/ journal'[j] = "torn" \/ journal'[j] = journal[j]
<1>1. ASSUME NEW content, Put(j, content)
      PROVE  journal'[j] = content /\ \A k \in Job \ {j} : journal'[k] = journal[k]
  BY <1>1 DEF IInv, TypeOK, Put
<1>2. CASE Put(j, record) /\ unsaved' = unsaved \ {j}
  BY <1>1, <1>2 DEF Readable
<1>3. CASE /\ Put(j, "torn") \/ UNCHANGED <<journal, newer>>
           /\ unsaved' = unsaved \cup ({j} \cap {worker.job})
  BY <1>1, <1>3
<1> QED BY <1>2, <1>3 DEF WriteJournal

\* One journal is written by the request the event loop is in.
LEMMA HandlerWrites ==
    ASSUME IInv, JInv, NEW j \in Job, NEW record, WriteJournal(j, record), Forgotten',
           UNCHANGED <<state, registry, pool, worker>>,
           record \notin {"absent", "torn"},
           record \in Ended => state[j] \in Ended
    PROVE  JInv'
<1>1. Pooled' = Pooled
  BY DEF Pooled
<1>2. /\ \A k \in Job \ {j} : journal'[k] = journal[k] /\ (k \in unsaved' <=> k \in unsaved)
      /\ j = worker.job => Readable(j)' \/ j \in unsaved'
      /\ journal'[j] \in Ended => state[j] \in Ended \/ journal'[j] = journal[j]
  BY Written DEF Ended
<1>3. Running'
  BY DEF JInv, Running
<1>4. NoEarlyOutcome'
  BY <1>2 DEF JInv, NoEarlyOutcome, Ended
<1>5. JournalsTellTheTruth'
  <2>1. ASSUME NEW k \in Job, journal'[k] \in Ended
        PROVE  k \notin Pooled /\ (worker.job = k => worker.pc \in {"journal", "prune"})
    <3>1. CASE k = j /\ state[j] \in Ended
      BY <1>2, <2>1, <3>1, Outcomes DEF JInv
    <3>2. CASE journal'[k] = journal[k]
      BY <2>1, <3>2 DEF JInv, JournalsTellTheTruth
    <3> QED BY <1>2, <2>1, <3>1, <3>2
  <2>2. ASSUME worker.job \in registry, worker.pc \notin {"idle", "started"}
        PROVE  Readable(worker.job)' \/ worker.job \in unsaved'
    <3>1. worker.job \in Job /\ (Readable(worker.job) \/ worker.job \in unsaved)
      BY <2>2 DEF IInv, TypeOK, JInv, JournalsTellTheTruth
    <3> QED BY <1>2, <3>1 DEF Readable
  <2> QED BY <1>1, <2>1, <2>2 DEF JournalsTellTheTruth, Readable
<1> QED BY <1>3, <1>4, <1>5 DEF JInv

LEMMA RequestKeepsJournals == ASSUME IInv, JInv, Request PROVE JInv'
<1>1. ASSUME NEW j \in Job, Cancel(j) PROVE JInv'
  BY <1>1, JournalStays DEF Cancel, UNCHANGED_JOURNAL, Forgotten, Free
<1>2. ASSUME NEW j \in Job, Forget(j) PROVE JInv'
  BY <1>2, JournalStays DEF Forget, UNCHANGED_JOURNAL, Forgotten, Free
<1>3. ASSUME NEW j \in Job, Discard(j) PROVE JInv'
  BY <1>3, JournalStays DEF Discard, UNCHANGED_JOURNAL, Forgotten, Free
<1>4. ASSUME NEW j \in Job, NEW t \in Table, StartJob(j, t) PROVE JInv'
  BY <1>4, JournalStays DEF StartJob, UNCHANGED_JOURNAL, Forgotten, Free
<1>5. CASE Listing
  BY <1>5, JournalStays DEF Listing, UNCHANGED_JOURNAL, Forgotten, Free
<1> QED BY <1>1, <1>2, <1>3, <1>4, <1>5 DEF Request

LEMMA HandlerKeepsJournals == ASSUME IInv, JInv, HandlerStep PROVE JInv'
<1> USE ConstantsAssumption
<1>1. CASE Submit
  <2> DEFINE me == handler.job
  <2>1. /\ handler.op = "validated" /\ me \in Job /\ state[me] = "new" /\ me # worker.job
        /\ UNCHANGED <<worker, pool, journal, unsaved>>
    BY <1>1 DEF Submit, HandlerAt, UNCHANGED_JOURNAL, IInv, Shape, Submitted
  <2>2. /\ \/ UNCHANGED <<state, registry>> /\ handler'.op = "free"
           \/ /\ state' = [state EXCEPT ![me] = "queued"] /\ registry' = registry \cup {me}
              /\ handler'.op = "registered"
    BY <1>1 DEF Submit, Answer, Free, IInv, TypeOK
  <2>3. Forgotten'
    BY <2>2 DEF Forgotten
  <2>4. \A j \in Job : state'[j] = state[j] \/ (state[j] = "new" /\ state'[j] = "queued")
    BY <2>1, <2>2 DEF IInv, TypeOK
  <2> QED BY <2>1, <2>2, <2>3, <2>4, JournalStays
<1>2. CASE SubmitJournal
  <2>1. handler.job \in Job /\ state[handler.job] = "queued" /\ handler'.op = "journalled"
    BY <1>2 DEF SubmitJournal, HandlerAt, IInv, TypeOK, Shape, Submitted, Submitting
  <2>2. AsDict(handler.job) = "queued"
    BY <2>1 DEF AsDict
  <2> QED BY <1>2, <2>1, <2>2, HandlerWrites DEF SubmitJournal, Forgotten, Ended
<1>3. CASE SubmitPool
  <2>1. /\ handler.job \in Job /\ state[handler.job] = "queued" /\ handler.job # worker.job
        /\ pool' = Append(pool, handler.job) /\ handler' = Free
        /\ UNCHANGED <<state, registry, worker, journal, unsaved>>
    BY <1>3 DEF SubmitPool, Answer, HandlerAt, UNCHANGED_JOURNAL, IInv, TypeOK, Shape, Submitted,
                Submitting, OnePlace
  <2>2. Pooled' = Pooled \cup {handler.job}
    <3>1. pool \in Seq(Job) /\ Pooled = Entries(pool) /\ Pooled' = Entries(pool')
      BY DEF IInv, TypeOK, Pooled, Entries
    <3> QED BY <2>1, <3>1, AppendFacts
  <2>3. Running' /\ Forgotten' /\ NoEarlyOutcome'
    BY <2>1 DEF JInv, Running, Forgotten, NoEarlyOutcome, Free
  <2>4. journal[handler.job] \notin Ended
    BY <2>1 DEF JInv, NoEarlyOutcome
  <2>5. JournalsTellTheTruth'
    BY <2>1, <2>2, <2>4 DEF JInv, JournalsTellTheTruth, Readable
  <2> QED BY <2>3, <2>5 DEF JInv
<1>4. CASE CancelMark
  BY <1>4, JournalStays DEF CancelMark, Answer, Free, UNCHANGED_JOURNAL, Forgotten, IInv, TypeOK
<1>5. CASE ForgetUnlink
  <2>1. /\ handler.job \notin registry /\ handler'.op \in {"free", "listing"}
        /\ UNCHANGED <<state, registry, pool, worker, unsaved>>
    <3>1. handler.op = "forget" /\ UNCHANGED <<state, registry, pool, worker>>
      BY <1>5 DEF ForgetUnlink, HandlerAt
    <3>2. UNCHANGED unsaved
      BY <1>5 DEF ForgetUnlink, Unlink, UNCHANGED_JOURNAL
    <3>3. handler'.op \in {"free", "listing"}
      BY <1>5, ForgetAnswers
    <3> QED BY <3>1, <3>2, <3>3 DEF JInv, Forgotten
  <2>2. Pooled' = Pooled
    BY <2>1 DEF Pooled
  <2>3. \A j \in Job : journal'[j] = journal[j] \/ (j = handler.job /\ journal'[j] = "absent")
    BY <1>5 DEF ForgetUnlink, Unlink, UNCHANGED_JOURNAL
  <2>4. Running' /\ Forgotten'
    BY <2>1 DEF JInv, Running, Forgotten
  <2>5. NoEarlyOutcome'
    BY <2>1, <2>3 DEF JInv, NoEarlyOutcome, Ended
  <2>6. JournalsTellTheTruth'
    <3>1. \A j \in Job : journal'[j] \in Ended =>
             journal[j] \in Ended
      BY <2>3 DEF Ended
    <3>2. worker.job \in registry => worker.job \in Job /\ worker.job # handler.job
      BY <2>1 DEF IInv, TypeOK
    <3>3. worker.job \in registry => journal'[worker.job] = journal[worker.job]
      BY <2>3, <3>2
    <3> QED BY <2>1, <2>2, <3>1, <3>3 DEF JInv, JournalsTellTheTruth, Readable
  <2> QED BY <2>4, <2>5, <2>6 DEF JInv
<1>6. CASE DiscardRemove
  <2>1. handler'.op = "discarded"
    BY <1>6 DEF DiscardRemove, IInv, TypeOK
  <2> QED BY <1>6, <2>1, JournalStays DEF DiscardRemove, UNCHANGED_JOURNAL, Forgotten
<1>7. CASE DiscardJournal
  <2>1. handler.job \in Job /\ handler.job \in registry
    BY <1>7 DEF DiscardJournal, HandlerAt, IInv, Shape
  <2>2. AsDict(handler.job) = state[handler.job] /\ state[handler.job] \notin {"absent", "torn"}
    BY <2>1 DEF AsDict, IInv, TypeOK, Live, Ended
  <2>3. handler'.op = "free" /\ WriteJournal(handler.job, AsDict(handler.job))
        /\ UNCHANGED <<state, registry, pool, worker>>
    BY <1>7 DEF DiscardJournal, Answer, Free
  <2> QED BY <2>1, <2>2, <2>3, HandlerWrites DEF Forgotten
<1>8. CASE ListingRewrite
  <2>1. handler.job \in Job
    BY <1>8 DEF ListingRewrite, HandlerAt, IInv, Shape
  <2> QED BY <1>8, <2>1, HandlerWrites DEF ListingRewrite, Free, Forgotten, Ended
<1>9. CASE ListingEnd
  BY <1>9, JournalStays DEF ListingEnd, Answer, Free, UNCHANGED_JOURNAL, Forgotten
<1>10. ASSUME NEW f \in Job, ListingRead(f) PROVE JInv'
  <2>1. handler'.op \in {"rewrite", "listing"}
    BY <1>10 DEF ListingRead, HandlerAt, IInv, TypeOK
  <2> QED BY <1>10, <2>1, JournalStays DEF ListingRead, UNCHANGED_JOURNAL, Forgotten
<1> QED BY <1>1, <1>2, <1>3, <1>4, <1>5, <1>6, <1>7, <1>8, <1>9, <1>10 DEF HandlerStep

\* The worker writes its job's record, or leaves the journal alone.
LEMMA WorkerWrites ==
    ASSUME IInv, JInv, worker.pc # "idle", Tick,
           worker'.pc # "idle", worker'.job = worker.job,
           UNCHANGED <<state, registry, pool, handler>>,
           worker.pc \in {"started", "plan", "file", "flush", "index"} =>
              worker'.pc \in {"plan", "file", "flush", "index"},
           worker.pc \in {"journal", "prune"} => worker'.pc = "prune",
           worker.pc = "started" => WriteJournal(worker.job, AsDict(worker.job))
    PROVE  JInv'
<1> DEFINE w == worker.job
<1>1. /\ w \in Job /\ w # NoJob /\ Pooled' = Pooled
      /\ state[w] \in Live \cup Ended /\ w \notin Pooled
  BY ConstantsAssumption DEF IInv, TypeOK, Shape, Submitted, OnePlace, Pooled
<1>2. AsDict(w) = state[w]
  BY DEF AsDict
<1>3. /\ \A j \in Job \ {w} : journal'[j] = journal[j]
      /\ Readable(w)' \/ w \in unsaved' \/ (UNCHANGED <<journal, unsaved>> /\ worker.pc # "started")
      /\ journal'[w] \in {state[w], "torn"} \/ journal'[w] = journal[w]
  <2>1. CASE WriteJournal(w, AsDict(w))
    <3>1. AsDict(w) \notin {"absent", "torn"}
      BY <1>1, <1>2 DEF Live, Ended
    <3> QED BY <1>1, <1>2, <2>1, <3>1, Written
  <2>2. CASE UNCHANGED_JOURNAL /\ worker.pc # "started"
    BY <2>2 DEF UNCHANGED_JOURNAL
  <2> QED BY <2>1, <2>2 DEF Tick
<1>4. Running' /\ Forgotten'
  <2>1. worker.pc \in {"started", "plan", "file", "flush", "index", "journal", "prune"}
    BY DEF IInv, TypeOK
  <2> QED BY <2>1 DEF JInv, Running, Forgotten
<1>5. NoEarlyOutcome'
  BY <1>1, <1>3 DEF JInv, NoEarlyOutcome, Ended
<1>6. JournalsTellTheTruth'
  <2>1. w \in registry => Readable(w)' \/ w \in unsaved'
    BY <1>1, <1>3 DEF JInv, JournalsTellTheTruth, Readable
  <2>2. ASSUME NEW j \in Job, journal'[j] \in Ended
        PROVE  j \notin Pooled /\ (w = j => worker'.pc \in {"journal", "prune"})
    <3>1. CASE j # w
      BY <1>1, <1>3, <2>2, <3>1 DEF JInv, JournalsTellTheTruth
    <3>2. CASE j = w /\ state[w] \in Ended
      BY <1>1, <2>2, <3>2, Outcomes DEF JInv
    <3>3. CASE j = w /\ journal'[w] = journal[w]
      BY <1>1, <2>2, <3>3 DEF JInv, JournalsTellTheTruth
    <3> QED BY <1>3, <2>2, <3>1, <3>2, <3>3 DEF Ended
  <2> QED BY <1>1, <2>1, <2>2 DEF JournalsTellTheTruth, Readable
<1> QED BY <1>4, <1>5, <1>6 DEF JInv

\* A run ends: its job has an outcome, and the thread is on its way to the last journal.
LEMMA RunEnds ==
    ASSUME IInv, JInv, worker.pc \in {"plan", "file", "flush", "index"},
           NEW s \in Ended, state' = [state EXCEPT ![worker.job] = s],
           worker' = [worker EXCEPT !.pc = "journal"],
           UNCHANGED <<registry, pool, handler, journal, unsaved>>
    PROVE  JInv'
<1>1. /\ worker.job \in Job /\ Pooled' = Pooled
      /\ worker'.pc = "journal" /\ worker'.job = worker.job
  BY DEF IInv, TypeOK, Shape, Pooled
<1>2. \A j \in Job : state'[j] = state[j] \/ state'[j] \in Ended
  BY <1>1 DEF IInv, TypeOK
<1>3. Running' /\ Forgotten'
  BY <1>1 DEF JInv, Running, Forgotten
<1>4. NoEarlyOutcome'
  BY <1>2 DEF JInv, NoEarlyOutcome, Ended
<1>5. JournalsTellTheTruth'
  BY <1>1 DEF JInv, JournalsTellTheTruth, Readable
<1> QED BY <1>3, <1>4, <1>5 DEF JInv

LEMMA WorkerKeepsJournals == ASSUME IInv, JInv, WorkerStep PROVE JInv'
<1> USE ConstantsAssumption
<1>1. CASE Start
  <2> DEFINE me == Head(pool)
  <2>1. /\ pool' = Tail(pool) /\ pool # <<>> /\ pool \in Seq(Job) /\ NoRepeats(pool)
        /\ state' = [state EXCEPT ![me] = "running"]
        /\ worker'.pc = "started" /\ worker'.job = me
        /\ UNCHANGED <<registry, handler, journal, unsaved>>
    BY <1>1 DEF Start, UNCHANGED_JOURNAL, IInv, TypeOK, OnePlace, Idle
  <2>2. me \in Pooled /\ Pooled' = Pooled \ {me}
    <3>1. Pooled = Entries(pool) /\ Pooled' = Entries(pool')
      BY DEF Pooled, Entries
    <3> QED BY <2>1, <3>1, TailEntries
  <2>3. me \in Job
    BY <2>1, HeadTailProperties
  <2>4. state'[me] = "running" /\ \A j \in Job \ {me} : state'[j] = state[j]
    BY <2>1, <2>3 DEF IInv, TypeOK
  <2>5. journal[me] \notin Ended
    BY <2>2, <2>3 DEF JInv, JournalsTellTheTruth
  <2>6. Running' /\ Forgotten' /\ NoEarlyOutcome'
    BY <2>1, <2>4, <2>5 DEF JInv, Running, Forgotten, NoEarlyOutcome
  <2>7. JournalsTellTheTruth'
    BY <2>1, <2>2, <2>5 DEF JInv, JournalsTellTheTruth, Readable
  <2> QED BY <2>6, <2>7 DEF JInv
<1>2. CASE StartJournal
  <2>1. worker'.pc = "plan" /\ worker'.job = worker.job
    BY <1>2 DEF StartJournal, IInv, TypeOK
  <2> QED BY <1>2, <2>1, WorkerWrites DEF StartJournal, WorkerAt, Tick
<1>3. CASE RunPlan
  <2>1. worker'.pc = "file" /\ worker'.job = worker.job
    BY <1>3 DEF RunPlan, IInv, TypeOK
  <2> QED BY <1>3, <2>1, WorkerWrites DEF RunPlan, WorkerAt
<1>4. CASE RunFile
  <2>1. worker'.pc \in {"file", "flush"} /\ worker'.job = worker.job
    BY <1>4 DEF RunFile, IInv, TypeOK
  <2> QED BY <1>4, <2>1, WorkerWrites DEF RunFile, WorkerAt
<1>5. CASE RunFlush
  <2>1. worker'.pc = "file" /\ worker'.job = worker.job
    BY <1>5 DEF RunFlush, IInv, TypeOK
  <2> QED BY <1>5, <2>1, WorkerWrites DEF RunFlush, WorkerAt
<1>6. CASE RunFinish
  <2>1. worker'.pc = "index" /\ worker'.job = worker.job
    BY <1>6 DEF RunFinish, IInv, TypeOK
  <2> QED BY <1>6, <2>1, WorkerWrites DEF RunFinish, WorkerAt
<1>7. CASE RunDone
  BY <1>7, RunEnds DEF RunDone, Returned, WorkerAt, UNCHANGED_JOURNAL, Ended
<1>8. CASE RunCancelled
  BY <1>8, RunEnds DEF RunCancelled, Returned, WorkerAt, UNCHANGED_JOURNAL, Ended
<1>9. CASE RunRaise
  BY <1>9, RunEnds DEF RunRaise, UNCHANGED_JOURNAL, Ended
<1>10. CASE FinalJournal
  <2>1. worker'.pc = "prune" /\ worker'.job = worker.job
    BY <1>10 DEF FinalJournal, IInv, TypeOK
  <2> QED BY <1>10, <2>1, WorkerWrites DEF FinalJournal, WorkerAt, Tick
<1>11. CASE Prune
  <2>1. /\ worker'.pc = "idle" /\ worker'.job = NoJob
        /\ UNCHANGED <<state, registry, pool, handler>> /\ Pooled' = Pooled
    BY <1>11 DEF Prune, Idle, Pooled
  <2>2. \A j \in Job : journal'[j] = journal[j] \/ journal'[j] = "absent"
    BY <1>11 DEF Prune, Unlink
  <2>3. Running' /\ Forgotten'
    BY <2>1 DEF JInv, Running, Forgotten
  <2>4. NoEarlyOutcome'
    BY <2>1, <2>2 DEF JInv, NoEarlyOutcome, Ended
  <2>5. JournalsTellTheTruth'
    BY <2>1, <2>2 DEF JInv, JournalsTellTheTruth, Ended
  <2> QED BY <2>3, <2>4, <2>5 DEF JInv
<1> QED BY <1>1, <1>2, <1>3, <1>4, <1>5, <1>6, <1>7, <1>8, <1>9, <1>10, <1>11 DEF WorkerStep

LEMMA ExitKeepsJournals == ASSUME IInv, JInv, Exit PROVE JInv'
<1>1. /\ worker'.pc = "idle" /\ worker'.job = NoJob /\ handler'.op = "free"
      /\ registry' = {} /\ pool' = <<>>
      /\ \A j \in Job : state'[j] = IF state[j] = "new" THEN "new" ELSE "lost"
  BY DEF Exit, Idle, Free
<1>2. \A j \in Job : journal'[j] = journal[j] \/ journal'[j] = "torn"
  BY DEF Exit
<1>3. Pooled' = {} /\ NoJob \notin Job
  BY <1>1, ConstantsAssumption DEF Pooled
<1>4. Running' /\ Forgotten' /\ JournalsTellTheTruth'
  BY <1>1, <1>3 DEF Running, Forgotten, JournalsTellTheTruth
<1>5. NoEarlyOutcome'
  BY <1>1, <1>2 DEF JInv, NoEarlyOutcome, Ended
<1> QED BY <1>4, <1>5 DEF JInv

LEMMA NextJInv == IInv /\ JInv /\ [Next]_vars => JInv'
<1> SUFFICES ASSUME IInv, JInv, [Next]_vars PROVE JInv'
  OBVIOUS
<1>1. CASE UNCHANGED vars
  BY <1>1, JournalStays DEF vars, JInv, Forgotten
<1> QED BY <1>1, RequestKeepsJournals, HandlerKeepsJournals, WorkerKeepsJournals,
           ExitKeepsJournals DEF Next

LEMMA InitJInv == Init => JInv
BY ConstantsAssumption
   DEF Init, JInv, Running, Forgotten, NoEarlyOutcome, JournalsTellTheTruth, Idle, Free,
       Ended

\* While a run may be leaving rows, and until somebody forgets it, a restart finds a
\* journal of it to read, unless the last attempt to write it failed; and an outcome is journalled only when the run has had it (jobs.py: _write_journal,
\* _prune_journal, load_journal), whatever other jobs, forgets and listings do.
THEOREM Journalled == Spec => []JournalsTellTheTruth
<1>1. JInv => JournalsTellTheTruth
  BY DEF JInv
<1> QED BY <1>1, InitJInv, NextJInv, Inductive, PTL DEF Spec

--------------------------------------------------------------------------
(* The tables. *)

\* The run's table, once it has created it, is its own, unless a discard took it; a
\* table nobody owns holds nothing.
Owned ==
    /\ worker.created => disk[table[worker.job]].owner \in {worker.job, NoJob}
    /\ worker.created => worker.pc # "idle"
    /\ \A t \in Table : disk[t].owner = NoJob => disk[t] = Nothing

\* What happens to the tables: a discard empties one, or the run at work adds a batch.
LEMMA DiskChanges ==
    ASSUME IInv, Owned, [Next]_vars
    PROVE  \/ UNCHANGED disk
           \/ /\ DiscardRemove
              /\ disk' = [disk EXCEPT ![table[handler.job]] = Nothing]
           \/ RunFlush
BY DEF Next, Request, HandlerStep, WorkerStep, StartJob, Submit, SubmitJournal, SubmitPool, Cancel,
       CancelMark, Forget, ForgetUnlink, Discard, DiscardRemove, DiscardJournal, Listing,
       ListingRead, ListingRewrite, ListingEnd, Start, StartJournal, RunPlan, RunFile, RunFinish,
       RunDone, RunCancelled, Returned, RunRaise, FinalJournal, Prune, Exit, vars

\* What one batch does to its table.
LEMMA Flushed ==
    ASSUME IInv, Owned, RunFlush
    PROVE  /\ worker.job \in Job /\ table[worker.job] \in Table
           /\ \A t \in Table \ {table[worker.job]} : disk'[t] = disk[t]
           /\ disk'[table[worker.job]].owner = worker.job
           /\ disk[table[worker.job]] # Nothing =>
                 /\ disk[table[worker.job]].owner = worker.job
                 /\ disk'[table[worker.job]] = [disk[table[worker.job]] EXCEPT !.rows = @ + 1]
<1> USE ConstantsAssumption
<1> DEFINE t == table[worker.job]
<1>1. worker.job \in Job /\ t \in Table
  BY DEF RunFlush, WorkerAt, IInv, TypeOK, Shape, Submitted
<1>2. /\ ~worker.created => ~Exists(t)
      /\ disk' = [disk EXCEPT ![t] = [owner |-> IF Exists(t) THEN disk[t].owner ELSE worker.job,
                                      rows |-> disk[t].rows + 1]]
  BY DEF RunFlush
<1>3. disk \in [Table -> [owner : Job \cup {NoJob, Foreign}, rows : Nat]]
  BY DEF IInv, TypeOK
<1>4. /\ \A u \in Table \ {t} : disk'[u] = disk[u]
      /\ disk'[t] = [owner |-> IF Exists(t) THEN disk[t].owner ELSE worker.job,
                     rows |-> disk[t].rows + 1]
  BY <1>1, <1>2, <1>3
<1>5. Exists(t) => disk[t].owner = worker.job
  BY <1>1, <1>2 DEF Owned, Exists
<1>6. ~Exists(t) => disk[t] = Nothing
  BY <1>1 DEF Owned, Exists
<1>7. disk'[t].owner = worker.job
  BY <1>4, <1>5
<1>8. ASSUME disk[t] # Nothing PROVE disk'[t] = [disk[t] EXCEPT !.rows = disk[t].rows + 1]
  <2>1. disk[t] \in [owner : Job \cup {NoJob, Foreign}, rows : Nat]
    BY <1>1, <1>3
  <2>2. disk'[t] = [owner |-> disk[t].owner, rows |-> disk[t].rows + 1]
    BY <1>4, <1>6, <1>8
  <2> QED BY <2>1, <2>2
<1> QED BY <1>1, <1>4, <1>5, <1>6, <1>7, <1>8

\* Nothing but a new batch or a new run changes what the run at work has created.
LEMMA OwnedStays ==
    ASSUME IInv, Owned, UNCHANGED disk,
           worker'.created => /\ worker.created /\ worker'.pc # "idle"
                              /\ worker'.job = worker.job
                              /\ table'[worker.job] = table[worker.job]
    PROVE  Owned'
BY DEF Owned

LEMMA NextOwned == IInv /\ Owned /\ [Next]_vars => Owned'
<1> SUFFICES ASSUME IInv, Owned, [Next]_vars PROVE Owned'
  OBVIOUS
<1> USE ConstantsAssumption
<1>1. worker.created => worker.job \in Job /\ worker.pc # "idle" /\ state[worker.job] # "new"
  BY DEF Owned, IInv, TypeOK, Shape, Submitted
<1>2. CASE Request \/ HandlerStep
  <2>1. UNCHANGED worker
    BY <1>2 DEF Request, HandlerStep, StartJob, Submit, SubmitJournal, SubmitPool, Cancel, CancelMark,
       Forget, ForgetUnlink, Discard, DiscardRemove, DiscardJournal, Listing, ListingRead,
       ListingRewrite, ListingEnd
  <2>2. UNCHANGED table \/ (\E j \in Job, u \in Table \cup {NoTable} :
                              state[j] = "new" /\ table' = [table EXCEPT ![j] = u])
    <3>1. ASSUME NEW j \in Job, NEW t \in Table, StartJob(j, t)
          PROVE  state[j] = "new" /\ table' = [table EXCEPT ![j] = t]
      BY <3>1 DEF StartJob
    <3>2. CASE Submit
      <4>1. handler.job \in Job /\ state[handler.job] = "new"
        BY <3>2 DEF Submit, HandlerAt, IInv, Shape, Submitted
      <4> QED BY <3>2, <4>1 DEF Submit
    <3> QED BY <1>2, <3>1, <3>2
            DEF Request, HandlerStep, SubmitJournal, SubmitPool, Cancel, CancelMark,
                Forget, ForgetUnlink, Discard, DiscardRemove, DiscardJournal, Listing, ListingRead,
                ListingRewrite, ListingEnd
  <2>3. worker.created => table'[worker.job] = table[worker.job]
    BY <1>1, <2>2 DEF IInv, TypeOK
  <2>4. CASE UNCHANGED disk
    BY <1>1, <2>1, <2>3, <2>4, OwnedStays
  <2>5. CASE DiscardRemove
    <3>1. /\ disk' = [disk EXCEPT ![table[handler.job]] = Nothing] /\ Nothing.owner = NoJob
          /\ UNCHANGED table
      BY <2>5 DEF DiscardRemove, Nothing
    <3>2. \A t \in Table : disk'[t] = disk[t] \/ disk'[t] = Nothing
      BY <3>1 DEF IInv, TypeOK
    <3>3. worker.created => table[worker.job] \in Table
      BY <1>1 DEF IInv, TypeOK, Shape, Submitted
    <3> QED BY <2>1, <3>1, <3>2, <3>3 DEF Owned
  <2> QED BY <1>2, <2>4, <2>5
          DEF Request, HandlerStep, StartJob, Submit, SubmitJournal, SubmitPool, Cancel, CancelMark,
              Forget, ForgetUnlink, Discard, DiscardJournal, Listing, ListingRead,
              ListingRewrite, ListingEnd
<1>3. CASE RunFlush
  <2>1. worker'.pc = "file" /\ worker'.job = worker.job /\ UNCHANGED table
    BY <1>3 DEF RunFlush, IInv, TypeOK
  <2>2. \A t \in Table \ {table[worker.job]} : disk'[t] = disk[t]
    BY <1>3, Flushed
  <2>3. disk'[table[worker.job]].owner = worker.job /\ worker.job # NoJob
    BY <1>3, Flushed
  <2> QED BY <2>1, <2>2, <2>3 DEF Owned
<1>4. CASE Start \/ Prune \/ Exit
  <2>1. UNCHANGED disk
    BY <1>4 DEF Start, Prune, Exit
  <2>2. ~worker'.created
    <3>1. \A pc, j : [Idle EXCEPT !.pc = pc, !.job = j].created = FALSE
      BY DEF Idle
    <3>2. CASE Start
      BY <3>1, <3>2 DEF Start
    <3>3. CASE Prune \/ Exit
      BY <3>3 DEF Prune, Exit, Idle
    <3> QED BY <1>4, <3>2, <3>3
  <2> QED BY <2>1, <2>2, OwnedStays
<1>5. CASE WorkerStep /\ ~Start /\ ~Prune /\ ~RunFlush
  <2>1. UNCHANGED <<disk, table>>
    BY <1>5 DEF WorkerStep, StartJournal, RunPlan, RunFile, RunFinish, RunDone, RunCancelled, Returned,
       RunRaise, FinalJournal
  <2>2. worker'.created = worker.created /\ worker'.job = worker.job /\ worker'.pc # "idle"
    <3>1. CASE RunFile
      BY <3>1 DEF RunFile, IInv, TypeOK
    <3>2. CASE RunFinish
      BY <3>2 DEF RunFinish, IInv, TypeOK
    <3>3. CASE RunPlan
      BY <3>3 DEF RunPlan, IInv, TypeOK
    <3>4. CASE StartJournal \/ FinalJournal
      BY <3>4 DEF StartJournal, FinalJournal, IInv, TypeOK
    <3>5. CASE RunDone \/ RunCancelled \/ RunRaise
      BY <3>5 DEF RunDone, RunCancelled, Returned, RunRaise, IInv, TypeOK
    <3> QED BY <1>5, <3>1, <3>2, <3>3, <3>4, <3>5 DEF WorkerStep
  <2> QED BY <2>1, <2>2, OwnedStays
<1>6. CASE UNCHANGED vars
  BY <1>1, <1>6, OwnedStays DEF vars
<1> QED BY <1>2, <1>3, <1>4, <1>5, <1>6 DEF Next

LEMMA InitOwned == Init => Owned
<1> SUFFICES ASSUME Init PROVE Owned
  OBVIOUS
<1>1. ASSUME NEW t \in Table, disk[t].owner = NoJob PROVE disk[t] = Nothing
  <2>1. disk[t] \in {Nothing, [owner |-> Foreign, rows |-> 1]}
    BY DEF Init
  <2> QED BY <1>1, <2>1, ConstantsAssumption
<1> QED BY <1>1 DEF Init, Owned, Idle

\* Ingest creates and does not adopt or overwrite: between two states of any run of the
\* registry, a table that is there either grows by one batch of the run that made it or
\* is deleted by a discard (pipeline.py: _flush; jobs.py: discard).
THEOREM OnlyItsMaker == Spec => OnlyItsMakerGrowsATable
<1>1. IInv /\ Owned /\ [Next]_vars =>
        [\A t \in Table : disk[t] # Nothing /\ disk'[t] # disk[t] =>
           \/ handler.op = "discard" /\ disk'[t] = Nothing
           \/ /\ disk[t].owner = worker.job
              /\ disk'[t] = [disk[t] EXCEPT !.rows = @ + 1]]_vars
  <2> SUFFICES ASSUME IInv, Owned, [Next]_vars,
                      NEW t \in Table, disk[t] # Nothing, disk'[t] # disk[t]
               PROVE  \/ handler.op = "discard" /\ disk'[t] = Nothing
                      \/ /\ disk[t].owner = worker.job
                         /\ disk'[t] = [disk[t] EXCEPT !.rows = @ + 1]
    OBVIOUS
  <2>1. CASE DiscardRemove /\ disk' = [disk EXCEPT ![table[handler.job]] = Nothing]
    BY <2>1 DEF DiscardRemove, HandlerAt, IInv, TypeOK
  <2>2. CASE RunFlush
    BY <2>2, Flushed
  <2> QED BY <2>1, <2>2, DiskChanges
<1> QED BY <1>1, InitOwned, NextOwned, Inductive, PTL DEF Spec, OnlyItsMakerGrowsATable

--------------------------------------------------------------------------
(* A queue with one server. *)

Lost == {j \in Job : state[j] = "lost"}
Over == {j \in Job \ (Untaken \cup Pooled \cup {worker.job}) : state[j] # "lost"}

\* The queue has a name left for exactly what no submit has brought to the pool.
LEMMA FreshIsUntaken == ASSUME IInv PROVE Queue!Fresh = Untaken
<1>1. ASSUME NEW j \in Untaken
      PROVE  j \in Job /\ j \notin Pooled /\ j # worker.job /\ j \notin Over /\ j \notin Lost
  <2>1. CASE state[j] = "new"
    BY <1>1, <2>1, ConstantsAssumption DEF Untaken, Over, Lost, IInv, Submitted
  <2>2. CASE handler.job = j /\ Submitting
    BY <1>1, <2>2 DEF Untaken, Over, Lost, IInv, Submitted, OnePlace
  <2> QED BY <1>1, <2>1, <2>2 DEF Untaken, Submitting
<1>2. ASSUME NEW j \in Job, j \notin Pooled, j # worker.job, j \notin Over, j \notin Lost
      PROVE  j \in Untaken
  BY <1>2 DEF Over, Lost
<1>3. Queue!Fresh = Job \ (Over \cup Lost \cup {worker.job} \cup Pooled)
  BY DEF Queue!Fresh, Over, Lost, Pooled
<1> QED BY <1>1, <1>2, <1>3

\* A step that neither submits, takes nor finishes a job is none of the queue's.
LEMMA QueueStays ==
    ASSUME IInv, UNCHANGED pool, worker'.job = worker.job, Untaken' = Untaken,
           \A j \in Job : state'[j] = "lost" <=> state[j] = "lost"
    PROVE  UNCHANGED Queue!vars
<1>1. Pooled' = Pooled
  BY DEF Pooled
<1>2. Over' = Over /\ Lost' = Lost
  BY <1>1 DEF Over, Lost
<1> QED BY <1>2 DEF Queue!vars, Over, Lost

LEMMA RequestIsNotTheQueues == ASSUME IInv, Request PROVE UNCHANGED Queue!vars
<1>1. UNCHANGED <<state, pool, worker>> /\ handler.op = "free" /\ handler'.op \notin {"registered", "journalled"}
  BY DEF Request, StartJob, Cancel, Forget, Discard, Listing, HandlerAt, Free
<1>2. Untaken' = Untaken
  BY <1>1 DEF Untaken
<1> QED BY <1>1, <1>2, QueueStays

LEMMA HandlerAccepts == ASSUME IInv, HandlerStep PROVE [Queue!Next]_(Queue!vars)
<1> USE ConstantsAssumption
<1>1. CASE SubmitPool
  <2> DEFINE me == handler.job
  <2>1. /\ pool' = Append(pool, me) /\ UNCHANGED <<state, worker>> /\ handler'.op = "free"
        /\ me \in Job /\ Submitting /\ state[me] = "queued"
    BY <1>1 DEF SubmitPool, Answer, HandlerAt, Free, Submitting, IInv, Shape, Submitted
  <2>2. Pooled' = Pooled \cup {me}
    <3>1. pool \in Seq(Job) /\ Pooled = Entries(pool) /\ Pooled' = Entries(pool')
      BY DEF IInv, TypeOK, Pooled, Entries
    <3> QED BY <2>1, <3>1, AppendFacts
  <2>3. Untaken = Untaken' \cup {me}
    BY <2>1 DEF Untaken, Submitting
  <2>4. Over' = Over /\ Lost' = Lost
    BY <2>1, <2>2, <2>3 DEF Over, Lost
  <2>5. me \in Queue!Fresh
    BY <2>3, FreshIsUntaken
  <2>6. Queue!Accept(me)
    BY <2>1, <2>4, <2>5 DEF Queue!Accept, Over, Lost
  <2> QED BY <2>1, <2>6 DEF Queue!Next
<1>2. CASE Submit
  <2>1. /\ handler.op = "validated" /\ handler.job \in Job /\ state[handler.job] = "new"
        /\ UNCHANGED <<pool, worker>>
    BY <1>2 DEF Submit, HandlerAt, IInv, Shape, Submitted
  <2>2. \/ UNCHANGED state /\ handler'.op = "free"
        \/ /\ state' = [state EXCEPT ![handler.job] = "queued"]
           /\ handler'.op = "registered" /\ handler'.job = handler.job
    BY <1>2 DEF Submit, Answer, Free, IInv, TypeOK
  <2>3. Untaken' = Untaken /\ \A j \in Job : state'[j] = "lost" <=> state[j] = "lost"
    <3>1. CASE UNCHANGED state /\ handler'.op = "free"
      BY <2>1, <3>1 DEF Untaken
    <3>2. CASE /\ state' = [state EXCEPT ![handler.job] = "queued"]
               /\ handler'.op = "registered" /\ handler'.job = handler.job
      <4>1. \A j \in Job : state'[j] = IF j = handler.job THEN "queued" ELSE state[j]
        BY <3>2 DEF IInv, TypeOK
      <4> QED BY <2>1, <3>2, <4>1 DEF Untaken
    <3> QED BY <2>2, <3>1, <3>2
  <2> QED BY <2>1, <2>3, QueueStays
<1>3. CASE SubmitJournal
  <2>1. /\ handler.op = "registered" /\ handler'.op = "journalled" /\ handler'.job = handler.job
        /\ UNCHANGED <<state, pool, worker>>
    BY <1>3 DEF SubmitJournal, HandlerAt, IInv, TypeOK
  <2>2. Untaken' = Untaken
    BY <2>1 DEF Untaken
  <2> QED BY <2>1, <2>2, QueueStays
<1>4. CASE CancelMark
  <2>1. /\ handler.op = "cancel" /\ handler'.op = "free" /\ UNCHANGED <<pool, worker>>
        /\ handler.job \in Job /\ state[handler.job] \notin {"new", "lost"}
    BY <1>4 DEF CancelMark, HandlerAt, Answer, Free, IInv, Shape, Submitted
  <2>2. \A j \in Job : state'[j] = IF j = handler.job THEN "cancelling" ELSE state[j]
    BY <1>4 DEF CancelMark, IInv, TypeOK
  <2>3. Untaken' = Untaken
    BY <2>1, <2>2 DEF Untaken
  <2> QED BY <2>1, <2>2, <2>3, QueueStays
<1>5. CASE ForgetUnlink \/ DiscardRemove \/ DiscardJournal \/ ListingRewrite \/ ListingEnd
               \/ \E f \in Job : ListingRead(f)
  <2>1. UNCHANGED <<state, pool, worker>>
    BY <1>5 DEF ForgetUnlink, DiscardRemove, DiscardJournal, ListingRewrite, ListingEnd, ListingRead
  <2>2. /\ handler.op \notin {"registered", "journalled"}
        /\ handler'.op \notin {"registered", "journalled"}
    <3>1. ASSUME NEW f \in Job, ListingRead(f)
          PROVE  handler.op = "listing" /\ handler'.op \in {"listing", "rewrite"}
      BY <3>1 DEF ListingRead, HandlerAt, IInv, TypeOK
    <3>2. CASE DiscardRemove
      BY <3>2 DEF DiscardRemove, HandlerAt, IInv, TypeOK
    <3>3. CASE DiscardJournal \/ ListingEnd
      BY <3>3 DEF DiscardJournal, ListingEnd, HandlerAt, Answer, Free
    <3>4. CASE ForgetUnlink
      BY <3>4, ForgetAnswers DEF ForgetUnlink, HandlerAt
    <3>5. CASE ListingRewrite
      BY <3>5 DEF ListingRewrite, HandlerAt, Free
    <3> QED BY <1>5, <3>1, <3>2, <3>3, <3>4, <3>5
  <2>3. Untaken' = Untaken
    BY <2>1, <2>2 DEF Untaken
  <2> QED BY <2>1, <2>3, QueueStays
<1> QED BY <1>1, <1>2, <1>3, <1>4, <1>5 DEF HandlerStep

LEMMA WorkerServes == ASSUME IInv, WorkerStep PROVE [Queue!Next]_(Queue!vars)
<1> USE ConstantsAssumption
<1>0. UNCHANGED handler
  BY DEF WorkerStep, Start, StartJournal, RunPlan, RunFile, RunFlush, RunFinish, RunDone,
         RunCancelled, Returned, RunRaise, FinalJournal, Prune
<1>1. CASE Start
  <2> DEFINE me == Head(pool)
  <2>1. /\ pool' = Tail(pool) /\ pool # <<>> /\ worker.job = NoJob /\ pool \in Seq(Job)
        /\ state' = [state EXCEPT ![me] = "running"] /\ NoRepeats(pool)
    BY <1>1 DEF Start, WorkerAt, IInv, TypeOK, Shape, OnePlace
  <2>2. worker'.job = me
    BY <1>1 DEF Start, Idle
  <2>3. me \in Pooled /\ Pooled' = Pooled \ {me} /\ me \in Job
    <3>1. Pooled = Entries(pool) /\ Pooled' = Entries(pool')
      BY DEF Pooled, Entries
    <3> QED BY <2>1, <3>1, TailEntries, HeadTailProperties
  <2>4. state[me] \in {"queued", "cancelling"}
    BY <2>3 DEF IInv, Called
  <2>5. \A j \in Job : state'[j] = IF j = me THEN "running" ELSE state[j]
    BY <2>1 DEF IInv, TypeOK
  <2>6. Untaken' = Untaken
    BY <1>0, <2>4, <2>5 DEF Untaken
  <2>7. Over' = Over /\ Lost' = Lost
    BY <2>1, <2>2, <2>3, <2>4, <2>5, <2>6 DEF Over, Lost
  <2>8. Queue!Take
    BY <2>1, <2>2, <2>7 DEF Queue!Take, Over, Lost
  <2> QED BY <2>8 DEF Queue!Next
<1>2. CASE Prune
  <2>1. /\ worker'.job = NoJob /\ worker.pc = "prune" /\ UNCHANGED <<state, pool>>
    BY <1>2 DEF Prune, WorkerAt, Idle
  <2>2. /\ worker.job \in Job /\ worker.job # NoJob /\ worker.job \notin Untaken
        /\ state[worker.job] # "lost" /\ worker.job \notin Pooled
    BY <2>1 DEF IInv, TypeOK, Shape, Submitted, OnePlace, Untaken, Submitting
  <2>3. Pooled' = Pooled /\ Untaken' = Untaken /\ Lost' = Lost
    BY <1>0, <2>1 DEF Pooled, Untaken, Lost
  <2>4. Over' = Over \cup {worker.job}
    BY <2>1, <2>2, <2>3 DEF Over
  <2>5. Queue!Finish
    BY <2>1, <2>2, <2>3, <2>4 DEF Queue!Finish, Over, Lost
  <2> QED BY <2>5 DEF Queue!Next
<1>3. CASE RunDone \/ RunCancelled \/ RunRaise
  <2>1. PICK s \in Ended : state' = [state EXCEPT ![worker.job] = s]
    BY <1>3 DEF RunDone, RunCancelled, Returned, RunRaise, Ended
  <2>2. UNCHANGED pool /\ worker'.job = worker.job /\ worker.job \in Job
    BY <1>3 DEF RunDone, RunCancelled, Returned, RunRaise, WorkerAt, IInv, TypeOK, Shape
  <2>3. state[worker.job] \notin {"new", "lost"}
    BY <2>2 DEF IInv, Submitted
  <2>4. \A j \in Job : state'[j] = IF j = worker.job THEN s ELSE state[j]
    BY <2>1 DEF IInv, TypeOK
  <2>5. Untaken' = Untaken
    BY <1>0, <2>3, <2>4 DEF Untaken, Ended
  <2> QED BY <2>2, <2>3, <2>4, <2>5, QueueStays DEF Ended
<1>4. CASE StartJournal \/ RunPlan \/ RunFile \/ RunFlush \/ RunFinish \/ FinalJournal
  <2>1. UNCHANGED <<state, pool>>
    BY <1>4 DEF StartJournal, RunPlan, RunFile, RunFlush, RunFinish, FinalJournal
  <2>2. worker'.job = worker.job
    <3>1. CASE StartJournal \/ RunPlan \/ FinalJournal
      BY <3>1 DEF StartJournal, RunPlan, FinalJournal, IInv, TypeOK
    <3>2. CASE RunFile
      BY <3>2 DEF RunFile, IInv, TypeOK
    <3>3. CASE RunFlush
      BY <3>3 DEF RunFlush, IInv, TypeOK
    <3>4. CASE RunFinish
      BY <3>4 DEF RunFinish, IInv, TypeOK
    <3> QED BY <1>4, <3>1, <3>2, <3>3, <3>4
  <2>3. Untaken' = Untaken
    BY <1>0, <2>1 DEF Untaken
  <2> QED BY <2>1, <2>2, <2>3, QueueStays
<1> QED BY <1>1, <1>2, <1>3, <1>4 DEF WorkerStep

LEMMA ExitIsTheQueues == ASSUME IInv, Exit PROVE Queue!Exit
<1> USE ConstantsAssumption
<1>1. /\ \A j \in Job : state'[j] = IF state[j] = "new" THEN "new" ELSE "lost"
      /\ pool' = <<>> /\ worker'.job = NoJob /\ handler'.op = "free"
  BY DEF Exit, Idle, Free
<1>2. Pooled' = {} /\ Untaken' = {j \in Job : state[j] = "new"}
  BY <1>1 DEF Pooled, Untaken
<1>3. Over' = {}
  BY <1>1, <1>2 DEF Over
<1> DEFINE S == {j \in Untaken : state[j] # "new"}
<1>4. Lost' = (Job \ Untaken) \cup S
  <2>1. \A j \in Job : state[j] = "new" => j \in Untaken
    BY DEF Untaken
  <2> QED BY <1>1, <2>1 DEF Lost, Untaken
<1>5. S \in SUBSET Queue!Fresh /\ Lost' = (Job \ Queue!Fresh) \cup S
  BY <1>4, FreshIsUntaken
<1> QED BY <1>1, <1>3, <1>5 DEF Queue!Exit, Over, Lost

LEMMA NextIsTheQueues == IInv /\ [Next]_vars => [Queue!Next]_(Queue!vars)
<1> SUFFICES ASSUME IInv, [Next]_vars PROVE [Queue!Next]_(Queue!vars)
  OBVIOUS
<1>1. CASE UNCHANGED vars
  <2>1. UNCHANGED <<state, pool, worker, handler>>
    BY <1>1 DEF vars
  <2>2. Untaken' = Untaken
    BY <2>1 DEF Untaken
  <2> QED BY <2>1, <2>2, QueueStays
<1>2. CASE Exit
  BY <1>2, ExitIsTheQueues DEF Queue!Next
<1> QED BY <1>1, <1>2, RequestIsNotTheQueues, HandlerAccepts, WorkerServes DEF Next

LEMMA InitIsTheQueues == Init => Queue!Init
<1> SUFFICES ASSUME Init PROVE Queue!Init
  OBVIOUS
<1>1. Over = {} /\ Lost = {}
  BY DEF Init, Over, Lost, Untaken
<1> QED BY <1>1 DEF Init, Queue!Init, Over, Lost, Idle

\* The registry, its pool of one thread and the exits of the process are the safety part
\* of SerialQueue: what submit accepts is run one job at a time, in that order, at most
\* once, and never again by a later process.
THEOREM OneAtATime == Spec => Queue!Init /\ [][Queue!Next]_(Queue!vars)
BY InitIsTheQueues, NextIsTheQueues, Inductive, PTL DEF Spec
====
