---- MODULE ScanJobsProofs ----
(***************************************************************************)
(* For any number of jobs, tables and checks, and any length of the        *)
(* registry: no table has two live scans, no scan that waits or runs is    *)
(* pruned or forgotten, an outcome is earned, and registry and pool are a  *)
(* queue with one server.                                                  *)
(***************************************************************************)
EXTENDS ScanJobs, SequenceFacts

\* Which job each thread may hold.
Shape ==
    /\ worker.pc = "idle" <=> worker.job = NoJob
    /\ handler.op = "free" <=> handler.job = NoJob
    /\ handler.op # "free" => handler.job \in registry
    /\ handler.op = "mark" => state[handler.job] \notin {"new", "queued"}

\* What is known anywhere has been submitted; what is registered is in the order.
Known ==
    /\ \A j \in registry \cup Members(order) \cup AtWork : state[j] # "new"
    /\ registry \subseteq Members(order)
    /\ NoRepeats(order)

\* A job is in one place on its way to the worker, and what it is called there.
OnItsWay ==
    /\ NoRepeats(pool)
    /\ worker.job \notin Members(pool)
    /\ \A j \in Members(pool) : state[j] = "queued"
    /\ worker.pc = "opened" => state[worker.job] = "queued"
    /\ worker.pc \in {"loop", "check", "judge", "cancelled", "done"} =>
          state[worker.job] \in {"running", "cancelling"}

\* The worker's verdict is earned before it is written, and afterwards.
Earned ==
    /\ worker.pc = "check" => todo[worker.job] > 0
    /\ worker.pc = "judge" => worker.job \in cancel \/ todo[worker.job] = 0
    /\ worker.pc = "cancelled" => worker.job \in cancel
    /\ worker.pc = "done" => todo[worker.job] = 0
    /\ \A j \in Job : /\ state[j] = "cancelled" => j \in cancel
                      /\ state[j] = "done" => todo[j] = 0

\* What is live and has work to do can be found.
Tracked == \A j \in AtWork : state[j] \in Live => j \in registry

\* The job a cancel is about to call "cancelling" counts as live already.
AsGoodAsLive(j) == state[j] \in Live \/ (handler.op = "mark" /\ handler.job = j)

OneScan ==
    \A j, k \in registry :
        j # k /\ AsGoodAsLive(j) /\ AsGoodAsLive(k) => table[j] # table[k]

IInv == TypeOK /\ Shape /\ Known /\ OnItsWay /\ Earned /\ Tracked /\ OneScan

--------------------------------------------------------------------------
(* The registry's order. *)

\* Pruning drops finished jobs only, and none of the others is lost or doubled.
LEMMA PrunedFacts ==
    ASSUME NEW s \in Seq(Job), NoRepeats(s)
    PROVE  /\ Pruned(s) \in Seq(Job)
           /\ NoRepeats(Pruned(s))
           /\ Entries(Pruned(s)) \subseteq Entries(s)
           /\ \A x \in Entries(s) \ Entries(Pruned(s)) : Finished(x)
<1> USE ConstantsAssumption
<1> DEFINE surplus == IF Len(s) > Keep THEN Len(s) - Keep ELSE 0
           P(n) == /\ \A i \in 1 .. n : Finished(s[i])
                   /\ n < surplus => ~Finished(s[n + 1])
           gone == CHOOSE n \in 0 .. surplus : P(n)
           rest == SubSeq(s, gone + 1, Len(s))
           T == {m \in 0 .. surplus : m < surplus => ~Finished(s[m + 1])}
<1>1. Len(s) \in Nat /\ surplus \in 0 .. Len(s)
  <2>1. Len(s) \in Nat
    BY LenProperties
  <2> QED BY <2>1
<1> HIDE DEF surplus
<1>2. \E n \in 0 .. surplus : P(n)
  <2>1. T \in SUBSET Nat /\ surplus \in T
    BY <1>1
  <2>2. PICK x \in T : \A y \in T : x <= y
    <3> HIDE DEF T
    <3> QED BY <2>1, Least
  <2>3. ASSUME NEW i \in 1 .. x PROVE Finished(s[i])
    <3>1. i - 1 \in 0 .. surplus /\ i - 1 < x /\ (i - 1) + 1 = i
      BY <1>1
    <3>2. i - 1 \notin T
      BY <2>2, <3>1
    <3> QED BY <3>1, <3>2
  <2> QED BY <2>2, <2>3
<1>3. gone \in 0 .. surplus /\ P(gone)
  <2> HIDE DEF P
  <2> QED BY <1>2
<1> HIDE DEF gone
<1>4. gone \in 0 .. Len(s)
  BY <1>1, <1>3
<1>5. /\ rest \in Seq(Job) /\ NoRepeats(rest)
      /\ Entries(rest) \subseteq Entries(s)
      /\ \A x \in Entries(s) \ Entries(rest) : \E i \in 1 .. gone : x = s[i]
  BY <1>4, DropEntries
<1>6. \A x \in Entries(s) \ Entries(rest) : Finished(x)
  BY <1>3, <1>5
<1>7. Pruned(s) = IF Len(rest) > Keep THEN Append(Tail(rest), Head(rest)) ELSE rest
  BY DEF Pruned, surplus, gone
<1> HIDE DEF rest
<1>8. CASE Len(rest) > Keep
  <2>1. rest # <<>>
    BY <1>8, EmptyFacts
  <2>2. /\ Append(Tail(rest), Head(rest)) \in Seq(Job)
        /\ NoRepeats(Append(Tail(rest), Head(rest)))
        /\ Entries(Append(Tail(rest), Head(rest))) = Entries(rest)
    BY <1>5, <2>1, RotateEntries
  <2>3. Pruned(s) = Append(Tail(rest), Head(rest))
    BY <1>7, <1>8
  <2> QED BY <1>5, <1>6, <2>2, <2>3
<1>9. CASE ~(Len(rest) > Keep)
  <2>1. Pruned(s) = rest
    BY <1>7, <1>9
  <2> QED BY <1>5, <1>6, <2>1
<1> QED BY <1>8, <1>9

\* Members is what SequenceFacts calls Entries.
LEMMA MembersAreEntries == \A s : Members(s) = Entries(s)
BY DEF Members, Entries

--------------------------------------------------------------------------
(* The steps. *)

LEMMA InitIInv == Init => IInv
<1> SUFFICES ASSUME Init PROVE IInv
  OBVIOUS
<1> USE ConstantsAssumption
<1>1. Members(<<>>) = {} /\ Len(<<>>) = 0 /\ Cardinality({}) = 0
      /\ <<>> \in Seq(Job) /\ NoRepeats(<<>>)
  BY EmptyFacts, MembersAreEntries, FS_EmptySet, EmptySeq DEF NoRepeats
<1>2. TypeOK
  <2>1. order \in Seq(Job) /\ Len(order) = Cardinality(Members(order)) /\ pool \in Seq(Job)
    BY <1>1 DEF Init
  <2>2. state \in [Job -> Live \cup Ended \cup {"new"}] /\ table \in [Job -> Table \cup {NoTable}]
        /\ todo \in [Job -> 0 .. Checks] /\ cancel \subseteq Job /\ registry \subseteq Job
    BY DEF Init
  <2> QED BY <2>1, <2>2 DEF Init, TypeOK, Idle, Free
<1>3. AtWork = {}
  BY <1>1 DEF Init, AtWork, Idle
<1>4. Shape /\ Known /\ OnItsWay
  BY <1>1, <1>3 DEF Init, Shape, Known, OnItsWay, Idle, Free
<1>5. Earned /\ Tracked /\ OneScan
  BY <1>1, <1>3 DEF Init, Earned, Tracked, OneScan, Idle, Free, Live
<1> QED BY <1>2, <1>4, <1>5 DEF IInv

\* The five actions of the worker that write a job's state or its checks, and the ones
\* that only move on, differ in what they write and where they go.
LEMMA Working ==
    ASSUME IInv, worker.pc # "idle",
           NEW p \in {"loop", "check", "judge", "cancelled", "done", "close"},
           NEW s \in Live \cup Ended, s # "queued",
           NEW t \in 0 .. Checks,
           worker' = [worker EXCEPT !.pc = p],
           state' = [state EXCEPT ![worker.job] = s],
           todo' = [todo EXCEPT ![worker.job] = t],
           UNCHANGED <<table, cancel, registered, pool, handler>>,
           p # "close" => s \in {"running", "cancelling"},
           p = "check" => t > 0,
           p = "judge" => worker.job \in cancel \/ t = 0,
           p = "cancelled" => worker.job \in cancel,
           p = "done" => t = 0,
           s = "cancelled" => worker.job \in cancel,
           s = "done" => t = 0,
           s \in Live => state[worker.job] \in Live
    PROVE  IInv'
<1> DEFINE w == worker.job
<1>0. w \in Job /\ w # NoJob /\ worker'.job = w /\ worker'.pc = p /\ worker.pc # "idle"
  BY ConstantsAssumption DEF IInv, TypeOK, Shape, Job, NoJob
<1>1. /\ state' \in [Job -> Live \cup Ended \cup {"new"}]
      /\ todo' \in [Job -> 0 .. Checks]
      /\ state'[w] = s /\ todo'[w] = t
      /\ \A j \in Job \ {w} : state'[j] = state[j] /\ todo'[j] = todo[j]
  BY <1>0 DEF IInv, TypeOK
<1>2. TypeOK'
  BY <1>1 DEF IInv, TypeOK, registered
<1>3. AtWork' = AtWork /\ Members(pool)' = Members(pool) /\ Members(order)' = Members(order)
      /\ w \in AtWork /\ AtWork \subseteq Job
  BY <1>0 DEF AtWork, registered, IInv, TypeOK, Members
<1>4. Shape'
  BY <1>0, <1>1 DEF IInv, TypeOK, Shape, registered, Live, Ended
<1>5. Known'
  <2>1. NoRepeats(order)' /\ registry' \subseteq Members(order)'
    BY <1>3 DEF IInv, Known, registered
  <2>2. \A j \in registry \cup Members(order) \cup AtWork : j \in Job /\ state[j] # "new"
    BY <1>3 DEF IInv, Known, TypeOK, Members
  <2>3. \A j \in registry \cup Members(order) \cup AtWork : state'[j] # "new"
    BY <1>1, <2>2 DEF Live, Ended
  <2> QED BY <1>3, <2>1, <2>3 DEF Known, registered
<1>6. OnItsWay'
  <2>1. \A j \in Members(pool) : j \in Job /\ j # w /\ state[j] = "queued"
    BY DEF IInv, OnItsWay, TypeOK, Members
  <2>2. \A j \in Members(pool) : state'[j] = "queued"
    BY <1>1, <2>1
  <2> QED BY <1>0, <1>1, <1>3, <2>1, <2>2 DEF IInv, OnItsWay, registered
<1>7. Earned'
  BY <1>0, <1>1 DEF IInv, Earned, registered
<1>8. Tracked'
  BY <1>0, <1>1, <1>3 DEF IInv, Tracked, registered
<1>9. OneScan'
  <2>1. \A j \in Job : AsGoodAsLive(j)' => AsGoodAsLive(j)
    BY <1>0, <1>1 DEF AsGoodAsLive
  <2> QED BY <2>1 DEF IInv, OneScan, TypeOK, registered
<1> QED BY <1>2, <1>4, <1>5, <1>6, <1>7, <1>8, <1>9 DEF IInv

\* What every job the worker has in hand is.
LEMMA InHand ==
    ASSUME IInv, worker.pc # "idle"
    PROVE  /\ worker.job \in Job
           /\ state[worker.job] \in Live \cup Ended \cup {"new"}
           /\ todo[worker.job] \in 0 .. Checks
           /\ UNCHANGED state => state' = [state EXCEPT ![worker.job] = state[worker.job]]
           /\ UNCHANGED todo => todo' = [todo EXCEPT ![worker.job] = todo[worker.job]]
           /\ worker.pc \in {"loop", "check", "judge", "cancelled", "done"} =>
                 state[worker.job] \in {"running", "cancelling"}
BY ConstantsAssumption DEF IInv, TypeOK, Shape, OnItsWay, Job, NoJob

LEMMA RunIInv == IInv /\ Run => IInv'
<1> SUFFICES ASSUME IInv, Run PROVE IInv'
  OBVIOUS
<1>1. state[worker.job] = "queued"
  BY DEF IInv, OnItsWay, Run, At
<1> QED BY <1>1, InHand, Working DEF Run, At, Goto, SetState, registered, Live

LEMMA LoopStopsIInv == IInv /\ LoopStops => IInv'
BY InHand, Working DEF LoopStops, At, Goto, SetState, registered, Live

LEMMA LoopChecksIInv == IInv /\ LoopChecks => IInv'
BY InHand, Working DEF LoopChecks, At, Goto, registered, Live

LEMMA LoopEndsIInv == IInv /\ LoopEnds => IInv'
BY InHand, Working DEF LoopEnds, At, Goto, registered, Live

LEMMA CheckEndsIInv == IInv /\ CheckEnds => IInv'
<1> SUFFICES ASSUME IInv, CheckEnds PROVE IInv'
  OBVIOUS
<1> DEFINE n == todo[worker.job]
<1>1. n > 0 /\ worker.pc = "check"
  BY DEF CheckEnds, At, IInv, Earned
<1>2. n - 1 \in 0 .. Checks
  BY <1>1, InHand, ConstantsAssumption
<1> QED BY <1>1, <1>2, InHand, Working DEF CheckEnds, At, Goto, registered, Live

LEMMA CheckRaisesIInv == IInv /\ CheckRaises => IInv'
BY InHand, Working DEF CheckRaises, At, Goto, SetState, registered, Live, Ended

LEMMA JudgeIInv == IInv /\ Judge => IInv'
<1> SUFFICES ASSUME IInv, Judge PROVE IInv'
  OBVIOUS
<1>1. worker.job \in cancel \/ todo[worker.job] = 0
  BY DEF Judge, At, IInv, Earned
<1> QED BY <1>1, InHand, Working DEF Judge, At, Goto, registered, Live

LEMMA EndIInv == IInv /\ End => IInv'
<1> SUFFICES ASSUME IInv, End PROVE IInv'
  OBVIOUS
<1>1. /\ worker.pc = "cancelled" => worker.job \in cancel
      /\ worker.pc = "done" => todo[worker.job] = 0
  BY DEF IInv, Earned
<1> QED BY <1>1, InHand, Working DEF End, Goto, SetState, registered, Live, Ended

\* The worker lets go of a job, scanned or not.
LEMMA LettingGo == IInv /\ (OpenRaises \/ Close) => IInv'
<1> SUFFICES ASSUME IInv, worker' = Idle,
                    UNCHANGED <<state, table, todo, cancel, registered, pool, handler>>
             PROVE  IInv'
  BY DEF OpenRaises, Close
<1>1. TypeOK'
  BY DEF IInv, TypeOK, Idle, NoJob, registered
<1>2. AtWork' \subseteq AtWork /\ Members(pool)' = Members(pool) /\ NoJob \notin Members(pool)
  BY ConstantsAssumption DEF IInv, TypeOK, AtWork, Idle, Members, Job, NoJob
<1>3. Shape' /\ Known' /\ OnItsWay'
  BY <1>2 DEF IInv, Shape, Known, OnItsWay, Idle, registered, Members
<1>4. Earned' /\ Tracked' /\ OneScan'
  BY <1>2 DEF IInv, Earned, Tracked, OneScan, AsGoodAsLive, Idle, registered
<1> QED BY <1>1, <1>3, <1>4 DEF IInv

\* The worker takes the oldest job of the pool.
LEMMA OpenIInv == IInv /\ Open => IInv'
<1> SUFFICES ASSUME IInv, Open PROVE IInv'
  OBVIOUS
<1>1. /\ Head(pool) \in Job /\ Tail(pool) \in Seq(Job)
      /\ Head(pool) \in Members(pool) /\ Members(Tail(pool)) = Members(pool) \ {Head(pool)}
      /\ NoRepeats(Tail(pool))
  BY TailEntries, HeadTailProperties, MembersAreEntries DEF IInv, TypeOK, OnItsWay, Open
<1>2. worker'.pc = "opened" /\ worker'.job = Head(pool) /\ worker.job = NoJob
  BY DEF Open, At, IInv, Shape
<1>3. TypeOK'
  BY <1>1 DEF IInv, TypeOK, Open, registered
<1>4. AtWork' = AtWork /\ Members(order)' = Members(order)
  <2>1. AtWork' = (Members(Tail(pool)) \cup {Head(pool)}) \ {NoJob}
    BY <1>2 DEF AtWork, Open
  <2> QED BY <1>1, <1>2, <2>1 DEF AtWork, Open, registered
<1>5. Shape' /\ Known'
  <2>1. Head(pool) # NoJob
    BY <1>1, ConstantsAssumption DEF Job, NoJob
  <2> QED BY <1>2, <1>4, <2>1 DEF IInv, Shape, Known, Open, registered
<1>6. OnItsWay'
  <2>1. Members(pool)' = Members(pool) \ {Head(pool)}
    BY <1>1 DEF Open
  <2> QED BY <1>1, <1>2, <2>1 DEF IInv, OnItsWay, Open
<1>7. Earned' /\ Tracked' /\ OneScan'
  BY <1>2, <1>4 DEF IInv, Earned, Tracked, OneScan, AsGoodAsLive, Open, registered
<1> QED BY <1>3, <1>5, <1>6, <1>7 DEF IInv

LEMMA CancelSetIInv == ASSUME NEW j \in Job, IInv, CancelSet(j) PROVE IInv'
<1>1. TypeOK'
  BY DEF IInv, TypeOK, CancelSet, registered
<1>2. AtWork' = AtWork /\ Members(order)' = Members(order) /\ Members(pool)' = Members(pool)
  BY DEF AtWork, CancelSet, registered
<1>3. Shape' /\ Known' /\ OnItsWay'
  BY <1>2, ConstantsAssumption
     DEF IInv, Shape, Known, OnItsWay, CancelSet, registered, Job, NoJob
<1>4. Earned' /\ Tracked' /\ OneScan'
  BY <1>2 DEF IInv, Earned, Tracked, OneScan, AsGoodAsLive, CancelSet, registered, Free
<1> QED BY <1>1, <1>3, <1>4 DEF IInv

LEMMA CancelLookIInv == IInv /\ CancelLook => IInv'
<1> SUFFICES ASSUME IInv, CancelLook PROVE IInv'
  OBVIOUS
<1>0. /\ handler'.op = "mark" => handler'.job = handler.job /\ state[handler.job] = "running"
      /\ (handler'.op = "free" /\ handler'.job = NoJob) \/ handler'.op = "mark"
      /\ handler.job \in Job /\ handler.job # NoJob
      /\ handler' \in [op : {"free", "look", "mark"}, job : Job \cup {NoJob}]
  BY ConstantsAssumption DEF CancelLook, Free, IInv, TypeOK, Shape, Job, NoJob
<1>1. TypeOK'
  BY <1>0 DEF IInv, TypeOK, CancelLook, registered
<1>2. AtWork' = AtWork /\ Members(order)' = Members(order) /\ Members(pool)' = Members(pool)
  BY DEF AtWork, CancelLook, registered
<1>3. Shape' /\ Known' /\ OnItsWay'
  BY <1>0, <1>2 DEF IInv, Shape, Known, OnItsWay, CancelLook, registered
<1>4. Earned' /\ Tracked' /\ OneScan'
  <2>1. \A j \in Job : AsGoodAsLive(j)' => AsGoodAsLive(j)
    BY <1>0 DEF AsGoodAsLive, CancelLook, Live
  <2> QED BY <1>2, <2>1 DEF IInv, TypeOK, Earned, Tracked, OneScan, CancelLook, registered
<1> QED BY <1>1, <1>3, <1>4 DEF IInv

LEMMA CancelMarkIInv == IInv /\ CancelMark => IInv'
<1> SUFFICES ASSUME IInv, CancelMark PROVE IInv'
  OBVIOUS
<1> DEFINE c == handler.job
<1>0. /\ c \in Job /\ c \in registry /\ state[c] \notin {"new", "queued"}
      /\ c \notin Members(pool) /\ (worker.pc = "opened" => worker.job # c)
      /\ handler'.op = "free" /\ handler'.job = NoJob
  BY DEF CancelMark, Free, IInv, TypeOK, Shape, OnItsWay
<1>1. /\ state' \in [Job -> Live \cup Ended \cup {"new"}]
      /\ state'[c] = "cancelling"
      /\ \A j \in Job \ {c} : state'[j] = state[j]
  BY <1>0 DEF CancelMark, IInv, TypeOK, Live
<1>2. TypeOK'
  BY <1>0, <1>1 DEF IInv, TypeOK, CancelMark, registered, Free
<1>3. AtWork' = AtWork /\ Members(order)' = Members(order) /\ Members(pool)' = Members(pool)
      /\ AtWork \subseteq Job /\ Members(order) \subseteq Job /\ Members(pool) \subseteq Job
  BY DEF AtWork, CancelMark, registered, IInv, TypeOK, Members
<1>4. Shape' /\ Known'
  BY <1>0, <1>1, <1>3 DEF IInv, TypeOK, Shape, Known, CancelMark, registered
<1>5. OnItsWay'
  BY <1>0, <1>1, <1>3 DEF IInv, TypeOK, Shape, OnItsWay, CancelMark, registered
<1>6. Earned' /\ Tracked'
  BY <1>0, <1>1, <1>3 DEF IInv, Earned, Tracked, CancelMark, registered
<1>7. OneScan'
  <2>1. \A j \in Job : AsGoodAsLive(j)' => AsGoodAsLive(j)
    BY <1>0, <1>1 DEF AsGoodAsLive, CancelMark
  <2> QED BY <2>1 DEF IInv, TypeOK, OneScan, CancelMark, registered
<1> QED BY <1>2, <1>4, <1>5, <1>6, <1>7 DEF IInv

LEMMA ForgetIInv == ASSUME NEW j \in Job, IInv, Forget(j) PROVE IInv'
<1>1. TypeOK'
  BY DEF IInv, TypeOK, Forget
<1>2. AtWork' = AtWork /\ Members(order)' = Members(order) /\ Members(pool)' = Members(pool)
  BY DEF AtWork, Forget
<1>3. Shape' /\ Known' /\ OnItsWay'
  BY <1>2 DEF IInv, Shape, Known, OnItsWay, Forget, Free
<1>4. Earned' /\ Tracked' /\ OneScan'
  BY <1>2 DEF IInv, Earned, Tracked, OneScan, AsGoodAsLive, Forget, Finished
<1> QED BY <1>1, <1>3, <1>4 DEF IInv

\* A submission: the job is new, its table has no live scan, and whatever the pruning
\* drops is finished.
LEMMA SubmitIInv ==
    ASSUME NEW t \in Table, NEW n \in 1 .. Checks, IInv, Submit(t, n) PROVE IInv'
<1> USE ConstantsAssumption
<1>1. PICK j \in Job :
         /\ state[j] = "new"
         /\ state' = [state EXCEPT ![j] = "queued"]
         /\ table' = [table EXCEPT ![j] = t]
         /\ todo' = [todo EXCEPT ![j] = n]
         /\ order' = Pruned(Append(order, j))
         /\ registry' = (registry \cup {j}) \ (Members(order) \ Members(order'))
         /\ pool' = Append(pool, j)
  BY DEF Submit
<1>2. /\ UNCHANGED <<cancel, worker, handler>> /\ handler.op = "free"
      /\ \A k \in registry : table[k] = t => state[k] \notin Live
  BY DEF Submit, Busy, Free
<1>3. /\ j \notin registry /\ j \notin Members(order) /\ j \notin AtWork /\ j \notin Members(pool)
      /\ j # worker.job /\ j # NoJob /\ ~Finished(j)
  BY <1>1 DEF IInv, Known, AtWork, Job, NoJob, Finished
<1>4. /\ state' \in [Job -> Live \cup Ended \cup {"new"}]
      /\ table' \in [Job -> Table \cup {NoTable}] /\ todo' \in [Job -> 0 .. Checks]
      /\ state'[j] = "queued" /\ table'[j] = t
      /\ \A k \in Job \ {j} : state'[k] = state[k] /\ table'[k] = table[k] /\ todo'[k] = todo[k]
  <2>1. n \in 0 .. Checks /\ "queued" \in Live
    BY DEF Live
  <2> QED BY <1>1, <2>1 DEF IInv, TypeOK
<1>5. /\ Append(order, j) \in Seq(Job) /\ NoRepeats(Append(order, j))
      /\ Entries(Append(order, j)) = Members(order) \cup {j}
  BY <1>3, AppendEntries, AppendFacts, MembersAreEntries DEF IInv, TypeOK, Known
<1>6. /\ order' \in Seq(Job) /\ NoRepeats(order')
      /\ Members(order') \subseteq Members(order) \cup {j}
      /\ j \in Members(order')
      /\ \A x \in Members(order) \ Members(order') : Finished(x)
  BY <1>1, <1>3, <1>5, PrunedFacts, MembersAreEntries
<1>7. /\ registry' = (registry \cap Members(order')) \cup {j}
      /\ \A x \in registry : state[x] \in Live => x \in registry'
  BY <1>1, <1>3, <1>6 DEF IInv, Known, Finished
<1>8. /\ pool' \in Seq(Job) /\ NoRepeats(pool') /\ Members(pool') = Members(pool) \cup {j}
  BY <1>1, <1>3, AppendEntries, AppendFacts, MembersAreEntries DEF IInv, TypeOK, OnItsWay
<1>9. TypeOK'
  <2>1. Len(order') = Cardinality(Members(order'))
    BY <1>6, EntriesCount, MembersAreEntries
  <2> QED BY <1>2, <1>4, <1>6, <1>7, <1>8, <2>1 DEF IInv, TypeOK
<1>10. /\ AtWork' = AtWork \cup {j} /\ AtWork \subseteq Job /\ Members(pool) \subseteq Job
       /\ registry \subseteq Job /\ Members(order) \subseteq Job
       /\ worker.pc # "idle" => worker.job \in Job
  <2>1. AtWork' = AtWork \cup {j}
    BY <1>2, <1>3, <1>8 DEF AtWork
  <2>2. Members(pool) \subseteq Job /\ Members(order) \subseteq Job
    BY DEF IInv, TypeOK, Members
  <2>3. registry \subseteq Job /\ worker.job \in Job \cup {NoJob}
        /\ (worker.pc # "idle" => worker.job \in Job)
    BY DEF IInv, TypeOK, Shape
  <2> QED BY <2>1, <2>2, <2>3 DEF AtWork
<1>11. Shape'
  BY <1>2 DEF IInv, Shape
<1>12. Known'
  <2>1. \A k \in registry' \cup Members(order') \cup AtWork' :
           k = j \/ k \in registry \cup Members(order) \cup AtWork
    BY <1>6, <1>7, <1>10
  <2>2. \A k \in registry' \cup Members(order') \cup AtWork' : state'[k] # "new"
    BY <1>4, <1>10, <2>1 DEF IInv, Known
  <2> QED BY <1>6, <1>7, <2>2 DEF Known
<1>13. OnItsWay'
  <2>1. \A k \in Members(pool') : state'[k] = "queued"
    BY <1>4, <1>8, <1>10 DEF IInv, OnItsWay
  <2>2. worker.job \notin Members(pool')
    BY <1>3, <1>8 DEF IInv, OnItsWay
  <2> QED BY <1>2, <1>3, <1>4, <1>8, <1>10, <2>1, <2>2 DEF IInv, OnItsWay
<1>14. Earned'
  BY <1>2, <1>3, <1>4, <1>10 DEF IInv, Earned
<1>15. Tracked'
  BY <1>4, <1>7, <1>10 DEF IInv, Tracked
<1>16. OneScan'
  <2> SUFFICES ASSUME NEW k \in registry', NEW l \in registry', k # l,
                      state'[k] \in Live, state'[l] \in Live
               PROVE  table'[k] # table'[l]
    BY <1>2 DEF OneScan, AsGoodAsLive
  <2>1. CASE k = j \/ l = j
    BY <1>2, <1>4, <1>7, <1>10, <2>1
  <2>2. CASE k # j /\ l # j
    BY <1>4, <1>7, <1>10, <2>2 DEF IInv, OneScan, AsGoodAsLive
  <2> QED BY <2>1, <2>2
<1> QED BY <1>9, <1>11, <1>12, <1>13, <1>14, <1>15, <1>16 DEF IInv

\* No step at all.
LEMMA StutterIInv == IInv /\ UNCHANGED vars => IInv'
<1> SUFFICES ASSUME IInv, UNCHANGED vars PROVE IInv'
  OBVIOUS
<1>1. AtWork' = AtWork /\ Members(order)' = Members(order) /\ Members(pool)' = Members(pool)
  BY DEF vars, AtWork, registered
<1> QED BY <1>1 DEF vars, registered, IInv, TypeOK, Shape, Known, OnItsWay, Earned, Tracked,
                    OneScan, AsGoodAsLive

LEMMA NextIInv == IInv /\ [Next]_vars => IInv'
<1> SUFFICES ASSUME IInv, [Next]_vars PROVE IInv'
  OBVIOUS
<1>1. CASE Request
  BY <1>1, SubmitIInv, CancelSetIInv, ForgetIInv DEF Request
<1>2. CASE HandlerStep
  BY <1>2, CancelLookIInv, CancelMarkIInv DEF HandlerStep
<1>3. CASE WorkerStep
  BY <1>3, OpenIInv, LettingGo, RunIInv, LoopStopsIInv, LoopChecksIInv, CheckEndsIInv,
     CheckRaisesIInv, LoopEndsIInv, JudgeIInv, EndIInv DEF WorkerStep
<1> QED BY <1>1, <1>2, <1>3, StutterIInv DEF Next

LEMMA IInvAlways == Spec => []IInv
BY InitIInv, NextIInv, PTL DEF Spec

--------------------------------------------------------------------------
(* What the registry promises. *)

\* The registry's state is of the shape scanjobs.py declares, and _ORDER lists no job
\* twice, however many scans are submitted, cancelled, pruned and forgotten.
THEOREM TypeCorrect == Spec => []TypeOK
BY IInvAlways, PTL DEF IInv

\* No table has two live scans, no scan with work to do is pruned or forgotten, and
\* "cancelled" and "done" are earned (scanjobs.py: submit, cancel, forget, _run).
THEOREM Sound == Spec => []ScansAreSound
<1>1. IInv => ScansAreSound
  <2> SUFFICES ASSUME IInv PROVE ScansAreSound
    OBVIOUS
  <2>1. ASSUME NEW j \in AtWork, state[j] \in Live
        PROVE  j \in registry /\ j \in Members(order)
    BY <2>1 DEF IInv, Tracked, Known
  <2>2. ASSUME NEW j \in registry \cup AtWork, NEW k \in registry \cup AtWork,
               j # k, state[j] \in Live, state[k] \in Live
        PROVE  table[j] # table[k]
    BY <2>1, <2>2 DEF IInv, OneScan, AsGoodAsLive
  <2> QED BY <2>1, <2>2 DEF IInv, Earned, ScansAreSound
<1> QED BY <1>1, IInvAlways, PTL

--------------------------------------------------------------------------
(* A queue with one server. *)

Over == {j \in Job : state[j] # "new" /\ j \notin AtWork}

\* A step that neither takes, drops nor submits a job is none of the queue's.
LEMMA QueueStays ==
    ASSUME IInv, UNCHANGED pool, worker'.job = worker.job,
           \A j \in Job : state'[j] = "new" <=> state[j] = "new"
    PROVE  UNCHANGED Queue!vars
<1>1. AtWork' = AtWork
  BY DEF AtWork
<1>2. Over' = Over
  BY <1>1 DEF Over
<1> QED BY <1>2 DEF Queue!vars, Over

LEMMA SubmitAccepts ==
    ASSUME NEW t \in Table, NEW n \in 1 .. Checks, IInv, Submit(t, n) PROVE Queue!Next
<1> USE ConstantsAssumption
<1>1. PICK j \in Job :
         state[j] = "new" /\ state' = [state EXCEPT ![j] = "queued"] /\ pool' = Append(pool, j)
  BY DEF Submit
<1>2. UNCHANGED worker /\ j \notin AtWork /\ j # worker.job /\ j # NoJob /\ j \notin Members(pool)
  BY <1>1 DEF Submit, IInv, Known, AtWork, Job, NoJob
<1>3. Members(pool') = Members(pool) \cup {j}
  BY <1>1, AppendFacts, MembersAreEntries DEF IInv, TypeOK
<1>4. AtWork' = AtWork \cup {j}
  BY <1>2, <1>3 DEF AtWork
<1>5. \A k \in Job : /\ k # j => state'[k] = state[k]
                     /\ state'[j] = "queued"
  BY <1>1 DEF IInv, TypeOK
<1>6. Over' = Over
  BY <1>1, <1>4, <1>5 DEF Over
<1>7. j \in Queue!Fresh
  BY <1>1, <1>2 DEF Queue!Fresh, Members
<1>8. Queue!Accept(j)
  BY <1>1, <1>2, <1>6, <1>7 DEF Queue!Accept, Over
<1> QED BY <1>8 DEF Queue!Next

LEMMA OpenTakes == ASSUME IInv, Open PROVE Queue!Next
<1>1. Members(Tail(pool)) = Members(pool) \ {Head(pool)} /\ Head(pool) \in Members(pool)
  BY TailEntries, MembersAreEntries DEF IInv, TypeOK, OnItsWay, Open
<1>2. worker'.job = Head(pool) /\ worker.job = NoJob /\ pool' = Tail(pool) /\ pool # <<>>
  BY DEF Open, At, IInv, Shape
<1>3. AtWork' = AtWork
  <2>1. AtWork' = (Members(Tail(pool)) \cup {Head(pool)}) \ {NoJob}
    BY <1>2 DEF AtWork
  <2> QED BY <1>1, <1>2, <2>1 DEF AtWork
<1>4. Over' = Over
  BY <1>3 DEF Over, Open
<1>5. Queue!Take
  BY <1>2, <1>4 DEF Queue!Take, Over
<1> QED BY <1>5 DEF Queue!Next

LEMMA LettingGoFinishes == ASSUME IInv, OpenRaises \/ Close PROVE Queue!Next
<1>1. worker' = Idle /\ UNCHANGED <<state, pool>> /\ worker.pc # "idle"
  BY DEF OpenRaises, Close, At
<1>2. worker.job \in Job /\ worker.job # NoJob /\ worker.job \notin Members(pool)
  BY <1>1, ConstantsAssumption DEF IInv, TypeOK, Shape, OnItsWay, Job, NoJob
<1>3. worker.job \in AtWork /\ AtWork' = AtWork \ {worker.job}
  BY <1>1, <1>2 DEF AtWork, Idle
<1>4. state[worker.job] # "new"
  BY <1>3 DEF IInv, Known
<1>5. Over' = Over \cup {worker.job}
  BY <1>1, <1>2, <1>3, <1>4 DEF Over
<1>6. Queue!Finish
  BY <1>1, <1>2, <1>5 DEF Queue!Finish, Over, Idle
<1> QED BY <1>6 DEF Queue!Next

LEMMA NextIsTheQueues == IInv /\ [Next]_vars => [Queue!Next]_(Queue!vars)
<1> SUFFICES ASSUME IInv, [Next]_vars PROVE Queue!Next \/ UNCHANGED Queue!vars
  OBVIOUS
<1>1. CASE Request
  <2>1. ASSUME NEW j \in Job, CancelSet(j) \/ Forget(j) PROVE UNCHANGED Queue!vars
    BY <2>1, QueueStays DEF CancelSet, Forget
  <2> QED BY <1>1, <2>1, SubmitAccepts DEF Request
<1>2. CASE HandlerStep
  <2>1. CASE CancelLook
    BY <2>1, QueueStays DEF CancelLook
  <2>2. CASE CancelMark
    <3>1. handler.job \in Job /\ state[handler.job] # "new"
      BY <2>2 DEF CancelMark, IInv, TypeOK, Shape
    <3>2. \A j \in Job : state'[j] = "new" <=> state[j] = "new"
      BY <2>2, <3>1 DEF CancelMark, IInv, TypeOK
    <3> QED BY <2>2, <3>2, QueueStays DEF CancelMark
  <2> QED BY <1>2, <2>1, <2>2 DEF HandlerStep
<1>3. CASE WorkerStep
  <2>1. CASE Open
    BY <2>1, OpenTakes
  <2>2. CASE OpenRaises \/ Close
    BY <2>2, LettingGoFinishes
  <2>3. CASE LoopChecks \/ CheckEnds \/ LoopEnds \/ Judge
    <3>1. worker'.job = worker.job /\ UNCHANGED <<state, pool>>
      BY <2>3 DEF LoopChecks, CheckEnds, LoopEnds, Judge, Goto, IInv, TypeOK
    <3> QED BY <3>1, QueueStays
  <2>4. CASE Run \/ LoopStops \/ CheckRaises \/ End
    <3>1. PICK s \in {"running", "cancelling", "failed", "cancelled", "done"} : SetState(s)
      BY <2>4 DEF Run, LoopStops, CheckRaises, End
    <3>2. /\ worker'.job = worker.job /\ worker.job \in Job
          /\ state[worker.job] # "new" /\ UNCHANGED pool
      BY <2>4, ConstantsAssumption
         DEF Run, LoopStops, CheckRaises, End, Goto, At, IInv, TypeOK, Shape, OnItsWay, Job, NoJob
    <3>3. \A j \in Job : state'[j] = "new" <=> state[j] = "new"
      BY <3>1, <3>2 DEF SetState, IInv, TypeOK
    <3> QED BY <3>2, <3>3, QueueStays
  <2> QED BY <1>3, <2>1, <2>2, <2>3, <2>4 DEF WorkerStep
<1>4. CASE UNCHANGED vars
  BY <1>4, QueueStays DEF vars
<1> QED BY <1>1, <1>2, <1>3, <1>4 DEF Next

LEMMA InitIsTheQueues == Init => Queue!Init
<1> SUFFICES ASSUME Init PROVE Queue!Init
  OBVIOUS
<1>1. Over = {}
  BY DEF Init, Over
<1> QED BY <1>1 DEF Init, Queue!Init, Over, Idle

\* The registry and its pool of one are the safety part of SerialQueue: what submit
\* accepts is scanned one job at a time, in the order it was accepted, and at most once.
THEOREM OneAtATime == Spec => Queue!Init /\ [][Queue!Next]_(Queue!vars)
BY IInvAlways, InitIsTheQueues, NextIsTheQueues, PTL DEF Spec
====
