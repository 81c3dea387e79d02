---- MODULE IngestRunProofs ----
(***************************************************************************)
(* For any number of files, rows, reasons and for any batch and limit: a   *)
(* run accounts for each file once, never commits a row before its         *)
(* original, is stopped only by the same failure Limit times in a row, and *)
(* is a batch log to whoever reads its table.                              *)
(***************************************************************************)
EXTENDS IngestRun, SequenceFacts, TLAPS

Ascends(s) == \A i, k \in DOMAIN s : i < k => s[i] < s[k]

\* How many files the run is past: the one it stopped at is a failure already.
Past == IF result.stopped THEN at ELSE at - 1

\* Every file the run is past is committed, waiting or failed, and only one of these.
OnceEach ==
    /\ Committed \cup Waiting \cup Failed = 1 .. Past
    /\ Committed \cap Failed = {} /\ Waiting \cap Failed = {}
    /\ Len(items) + Len(pending) + Len(failures) = Past

InOrder ==
    /\ Ascends(items) /\ Ascends(pending)
    /\ \A m \in Committed, n \in Waiting : m < n

\* The last failures, as many as the run counts, are of files in a row and for one
\* reason; it is stopped exactly when they are Limit.
Streak ==
    /\ consecutive <= Len(failures)
    /\ \A i \in Len(failures) - consecutive + 1 .. Len(failures) :
          /\ failures[i].reason = failures[Len(failures)].reason
          /\ failures[i].file = failures[Len(failures)].file - (Len(failures) - i)
    /\ consecutive > 0 => failures[Len(failures)].file = Past
    /\ result.stopped <=> consecutive = Limit

\* What the place the run has reached says of the rest.
Place ==
    /\ pc \in {"extracted", "copied"} => at \in File
    /\ pc \in {"flush", "lastflush"} => pending # <<>>
    /\ pc = "lastflush" => at = Files + 1
    /\ pc \in {"after", "index", "returned"} /\ ~result.cancelled /\ ~result.stopped =>
          at = Files + 1 /\ pending = <<>>
    /\ result.stopped => at \in File
    /\ result.stopped \/ result.cancelled =>
          result.partial /\ pc \in {"after", "index", "returned", "raised"}
    /\ result.ended = "no" <=> pc \notin {"returned", "raised"}
    /\ result.ended = "returned" <=> pc = "returned"
    /\ pc = "returned" /\ ~result.partial => failures = <<>>

\* An original is stored before its file's rows can be committed.
Stored ==
    /\ (Committed \cup Waiting) \cap keyed \subseteq copied
    /\ pc = "copied" => at \in copied
    /\ sources = File

IInv == TypeOK /\ OnceEach /\ InOrder /\ Streak /\ Place /\ Stored

--------------------------------------------------------------------------
(* Sequences. *)

\* An ascending sequence stays one when a larger element is appended ...
LEMMA AppendAscends ==
    ASSUME NEW s \in Seq(Nat), NEW e \in Nat, Ascends(s), \A m \in Entries(s) : m < e
    PROVE  Ascends(Append(s, e))
BY AppendFacts DEF Ascends, Entries

\* ... and when another is joined to it all of whose elements are larger.
LEMMA ConcatAscends ==
    ASSUME NEW s \in Seq(Nat), NEW t \in Seq(Nat), Ascends(s), Ascends(t),
           \A m \in Entries(s), n \in Entries(t) : m < n
    PROVE  Ascends(s \o t)
<1> DEFINE u == s \o t
<1>1. /\ Len(s) \in Nat /\ Len(t) \in Nat
      /\ DOMAIN s = 1 .. Len(s) /\ DOMAIN t = 1 .. Len(t) /\ DOMAIN u = 1 .. Len(s) + Len(t)
      /\ \A n \in 1 .. Len(s) : u[n] = s[n]
      /\ \A n \in 1 .. Len(t) : u[Len(s) + n] = t[n]
  BY ConcatFacts
<1> HIDE DEF u
<1> SUFFICES ASSUME NEW i \in 1 .. Len(s) + Len(t), NEW k \in 1 .. Len(s) + Len(t), i < k
             PROVE  u[i] < u[k]
  BY <1>1 DEF Ascends, u
<1>2. CASE k <= Len(s)
  <2>1. i \in DOMAIN s /\ k \in DOMAIN s /\ u[i] = s[i] /\ u[k] = s[k]
    BY <1>1, <1>2
  <2> QED BY <2>1 DEF Ascends
<1>3. CASE i > Len(s)
  <2>1. /\ i - Len(s) \in DOMAIN t /\ k - Len(s) \in DOMAIN t
        /\ u[i] = t[i - Len(s)] /\ u[k] = t[k - Len(s)] /\ i - Len(s) < k - Len(s)
    <3>1. i - Len(s) \in 1 .. Len(t) /\ k - Len(s) \in 1 .. Len(t)
          /\ Len(s) + (i - Len(s)) = i /\ Len(s) + (k - Len(s)) = k /\ i - Len(s) < k - Len(s)
      BY <1>1, <1>3
    <3>2. u[Len(s) + (i - Len(s))] = t[i - Len(s)] /\ u[Len(s) + (k - Len(s))] = t[k - Len(s)]
      BY <1>1, <3>1
    <3> QED BY <1>1, <3>1, <3>2
  <2> QED BY <1>1, <2>1 DEF Ascends
<1>4. CASE i <= Len(s) /\ k > Len(s)
  <2>1. k - Len(s) \in 1 .. Len(t) /\ Len(s) + (k - Len(s)) = k /\ i \in 1 .. Len(s)
    BY <1>1, <1>4
  <2>2. u[Len(s) + (k - Len(s))] = t[k - Len(s)] /\ u[i] = s[i]
    BY <1>1, <2>1
  <2>3. u[i] \in Entries(s) /\ u[k] \in Entries(t)
    BY <1>1, <2>1, <2>2 DEF Entries
  <2> QED BY <2>3
<1> QED BY <1>1, <1>2, <1>3, <1>4

--------------------------------------------------------------------------
(* The steps. *)

LEMMA InitIInv == Init => IInv
<1> SUFFICES ASSUME Init PROVE IInv
  OBVIOUS
<1> USE ConstantsAssumption
<1>1. TypeOK
  <2>1. <<>> \in Seq(File) /\ <<>> \in Seq([file : File, reason : Reason])
    BY EmptySeq
  <2>2. 1 \in 1 .. Files + 1 /\ 0 \in 0 .. MaxRows /\ 0 \in 0 .. Limit /\ 0 \in Nat
    OBVIOUS
  <2>3. NoResult \in [ended : {"no", "planned", "raised", "returned"}, stopped : BOOLEAN,
                      cancelled : BOOLEAN, partial : BOOLEAN]
    BY DEF NoResult
  <2> QED BY <2>1, <2>2, <2>3 DEF Init, TypeOK
<1>2. Committed = {} /\ Waiting = {} /\ Failed = {} /\ Past = 0
  BY DEF Init, Committed, Waiting, Failed, Past, NoResult
<1>3. OnceEach /\ InOrder
  BY <1>2, EmptyFacts DEF Init, OnceEach, InOrder, Ascends
<1>4. Streak
  BY EmptyFacts DEF Init, Streak, NoResult
<1>5. Place /\ Stored
  BY <1>2 DEF Init, Place, Stored, NoResult
<1> QED BY <1>1, <1>3, <1>4, <1>5 DEF IInv

\* A step that leaves the loop's bookkeeping and the table alone.
LEMMA BooksStay ==
    ASSUME IInv, UNCHANGED <<at, pending, failures, consecutive, items>>,
           result'.stopped = result.stopped
    PROVE  /\ OnceEach' /\ InOrder' /\ Streak'
           /\ Committed' = Committed /\ Waiting' = Waiting
<1>1. Committed' = Committed /\ Waiting' = Waiting /\ Failed' = Failed /\ Past' = Past
  BY DEF Committed, Waiting, Failed, Past
<1>2. OnceEach'
  BY <1>1 DEF IInv, OnceEach
<1>3. InOrder'
  BY <1>1 DEF IInv, InOrder, Ascends
<1>4. Streak'
  BY <1>1 DEF IInv, Streak
<1> QED BY <1>1, <1>2, <1>3, <1>4

LEMMA PlanSteps ==
    ASSUME IInv, PlanRefuses \/ Plan PROVE IInv'
<1> USE DEF PlanRefuses, Plan, Raises, loop, stored
<1>1. result'.stopped = result.stopped
  BY DEF IInv, TypeOK
<1>2. TypeOK'
  BY DEF IInv, TypeOK
<1>3. Place'
  BY DEF IInv, TypeOK, Place
<1>4. Stored'
  BY <1>1, BooksStay DEF IInv, Stored
<1> QED BY <1>1, <1>2, <1>3, <1>4, BooksStay DEF IInv

LEMMA SetCancelStep ==
    ASSUME IInv, SetCancel PROVE IInv'
<1> USE DEF SetCancel, loop, stored
<1> QED BY BooksStay DEF IInv, TypeOK, Place, Stored

LEMMA ExtractStep ==
    ASSUME IInv, Extract PROVE IInv'
<1> USE DEF Extract, stored
<1>1. OnceEach' /\ InOrder' /\ Streak' /\ Committed' = Committed /\ Waiting' = Waiting
  BY BooksStay
<1>2. TypeOK'
  <2>1. fresh' \in 0 .. MaxRows
    BY ConstantsAssumption
  <2>2. keyed' \subseteq File
    BY DEF IInv, TypeOK
  <2> QED BY <2>1, <2>2 DEF IInv, TypeOK
<1>3. Place'
  BY DEF IInv, Place
<1>4. at \notin Committed \cup Waiting
  BY DEF IInv, TypeOK, OnceEach, Past, Place, File
<1>5. Stored'
  BY <1>1, <1>4 DEF IInv, Stored
<1> QED BY <1>1, <1>2, <1>3, <1>5 DEF IInv

LEMMA CopyStep ==
    ASSUME IInv, CopyOriginal PROVE IInv'
<1> USE DEF CopyOriginal
<1>1. OnceEach' /\ InOrder' /\ Streak' /\ Committed' = Committed /\ Waiting' = Waiting
  BY BooksStay
<1>5. chunks' \subseteq chunks /\ sources' = sources
  BY DEF InScratch
<1>2. TypeOK'
  BY <1>5 DEF IInv, TypeOK, Place
<1>3. Place'
  BY DEF IInv, Place
<1>4. Stored'
  BY <1>1, <1>5 DEF IInv, Stored
<1> QED BY <1>1, <1>2, <1>3, <1>4 DEF IInv

LEMMA KeepStep ==
    ASSUME IInv, Keep PROVE IInv'
<1> USE DEF Keep, Pend, stored
<1>1. at \in File /\ ~result.stopped /\ ~result.cancelled /\ pc \in {"extracted", "copied"}
  BY DEF IInv, Place
<1>2. /\ pending' \in Seq(File) /\ pending' # <<>>
      /\ Len(pending') = Len(pending) + 1 /\ Len(pending) \in Nat
      /\ Entries(pending') = Entries(pending) \cup {at}
  BY <1>1, AppendFacts DEF IInv, TypeOK
<1>3. Committed' = Committed /\ Waiting' = Waiting \cup {at} /\ Failed' = Failed
  BY <1>2 DEF Committed, Waiting, Failed, Entries
<1>4. Past = at - 1 /\ Past' = at
  BY <1>1 DEF Past, File
<1>5. TypeOK'
  BY <1>1, <1>2, ConstantsAssumption DEF IInv, TypeOK, File
<1>6. OnceEach'
  <2>1. Len(items) \in Nat /\ Len(failures) \in Nat
    BY LenProperties DEF IInv, TypeOK
  <2>2. Committed' \cup Waiting' \cup Failed' = 1 .. Past'
    BY <1>1, <1>3, <1>4 DEF IInv, OnceEach, File
  <2>3. Committed' \cap Failed' = {} /\ Waiting' \cap Failed' = {}
    BY <1>1, <1>3, <1>4 DEF IInv, OnceEach, File
  <2>4. Len(items') + Len(pending') + Len(failures') = Past'
    BY <1>1, <1>2, <1>4, <2>1 DEF IInv, OnceEach, File
  <2> QED BY <2>2, <2>3, <2>4 DEF OnceEach
<1>7. InOrder'
  <2>1. pending \in Seq(Nat)
    <3>1. File \subseteq Nat /\ pending \in Seq(File)
      BY DEF IInv, TypeOK, File
    <3> QED BY <3>1, SeqMonotonic
  <2>2. \A m \in Committed \cup Waiting : m < at
    BY <1>1, <1>4 DEF IInv, OnceEach, File
  <2>3. Ascends(pending')
    <3>1. \A m \in Entries(pending) : m < at
      BY <2>2 DEF Entries, Waiting
    <3> QED BY <1>1, <2>1, <3>1, AppendAscends DEF IInv, InOrder, File
  <2>4. Ascends(items')
    BY DEF IInv, InOrder
  <2>5. \A m \in Committed', n \in Waiting' : m < n
    BY <1>3, <2>2 DEF IInv, InOrder
  <2> QED BY <2>3, <2>4, <2>5 DEF InOrder
<1>8. Streak'
  <2>1. Len(failures) \in Nat
    BY LenProperties DEF IInv, TypeOK
  <2> QED BY <1>1, <2>1, ConstantsAssumption DEF Streak
<1>9. Place'
  BY <1>1, <1>2 DEF IInv, TypeOK, Place
<1>10. Stored'
  BY <1>3 DEF IInv, Stored
<1> QED BY <1>5, <1>6, <1>7, <1>8, <1>9, <1>10 DEF IInv

\* The failure of the file at hand joins the streak, or begins one.
LEMMA FailStreak ==
    ASSUME IInv, NEW why \in Reason, at \in File, ~result.stopped, NEW n,
           n = (IF why = LastReason THEN consecutive + 1 ELSE 1),
           failures' = Append(failures, [file |-> at, reason |-> why])
    PROVE  /\ n \in 1 .. Limit
           /\ failures' \in Seq([file : File, reason : Reason])
           /\ Len(failures) \in Nat /\ Len(failures') = Len(failures) + 1
           /\ Failed' = Failed \cup {at}
           /\ n <= Len(failures')
           /\ failures'[Len(failures')].file = at
           /\ \A i \in Len(failures') - n + 1 .. Len(failures') :
                 /\ failures'[i].reason = failures'[Len(failures')].reason
                 /\ failures'[i].file = failures'[Len(failures')].file - (Len(failures') - i)
<1> DEFINE f == [file |-> at, reason |-> why]
           k == Len(failures)
<1>1. f \in [file : File, reason : Reason] /\ f.file = at /\ f.reason = why
  OBVIOUS
<1>2. /\ failures' \in Seq([file : File, reason : Reason])
      /\ k \in Nat /\ Len(failures') = k + 1
      /\ DOMAIN failures = 1 .. k /\ DOMAIN failures' = 1 .. k + 1
      /\ \A i \in 1 .. k : failures'[i] = failures[i]
      /\ failures'[k + 1] = f
  BY <1>1, AppendFacts DEF IInv, TypeOK
<1> HIDE DEF f
<1>3. Failed' = Failed \cup {at}
  <2>1. ASSUME NEW x \in Failed' PROVE x \in Failed \cup {at}
    <3>1. PICK i \in 1 .. k + 1 : x = failures'[i].file
      BY <1>2, <2>1 DEF Failed
    <3>2. CASE i \in 1 .. k
      BY <1>2, <3>1, <3>2 DEF Failed
    <3>3. CASE i = k + 1
      BY <1>1, <1>2, <3>1, <3>3
    <3> QED BY <1>2, <3>2, <3>3
  <2>2. Failed \subseteq Failed'
    <3>1. \A i \in 1 .. k : i \in 1 .. k + 1 /\ failures'[i].file = failures[i].file
      BY <1>2
    <3> QED BY <1>2, <3>1 DEF Failed
  <2>3. at \in Failed'
    <3>1. k + 1 \in DOMAIN failures' /\ failures'[k + 1].file = at
      BY <1>1, <1>2
    <3> QED BY <3>1 DEF Failed
  <2> QED BY <2>1, <2>2, <2>3
<1>4. consecutive \in 0 .. Limit - 1 /\ consecutive <= k
  BY ConstantsAssumption DEF IInv, TypeOK, Streak
<1>5. n \in 1 .. Limit /\ n <= k + 1
  BY <1>2, <1>4, ConstantsAssumption
<1>6. at \in Nat \ {0} /\ at - 1 = Past
  BY ConstantsAssumption DEF File, Past
<1>7. ASSUME NEW i \in (k + 1) - n + 1 .. k + 1
      PROVE  failures'[i].reason = why /\ failures'[i].file = at - ((k + 1) - i)
  <2>1. CASE i = k + 1
    BY <1>1, <1>2, <1>6, <2>1
  <2>2. CASE i # k + 1
    <3>1. n = consecutive + 1 /\ why = LastReason
      BY <1>2, <1>4, <2>2
    <3>2. consecutive > 0 /\ i \in k - consecutive + 1 .. k /\ i \in 1 .. k
      BY <1>2, <1>4, <3>1, <2>2
    <3>3. failures # <<>>
      BY <3>2, EmptyFacts, <1>2
    <3>4. failures[k].reason = why /\ failures[k].file = at - 1
      BY <1>6, <3>1, <3>2, <3>3 DEF LastReason, IInv, Streak
    <3>5. failures[i].reason = failures[k].reason
          /\ failures[i].file = failures[k].file - (k - i)
      BY <3>2 DEF IInv, Streak
    <3> QED BY <1>2, <1>6, <3>2, <3>4, <3>5
  <2> QED BY <2>1, <2>2
<1> QED BY <1>1, <1>2, <1>3, <1>5, <1>7

LEMMA FileFailsStep ==
    ASSUME IInv, NEW why \in Reason, FileFails(why) PROVE IInv'
<1> USE DEF FileFails, FailFor, stored
<1> DEFINE n == IF why = LastReason THEN consecutive + 1 ELSE 1
<1>1. at \in File /\ ~result.stopped /\ ~result.cancelled /\ pc \in {"next", "extracted", "copied"}
  BY DEF IInv, Place
<1>2. /\ n \in 1 .. Limit /\ consecutive' = n
      /\ failures' \in Seq([file : File, reason : Reason])
      /\ Len(failures) \in Nat /\ Len(failures') = Len(failures) + 1
      /\ Failed' = Failed \cup {at}
      /\ n <= Len(failures')
      /\ failures'[Len(failures')].file = at
      /\ \A i \in Len(failures') - n + 1 .. Len(failures') :
            /\ failures'[i].reason = failures'[Len(failures')].reason
            /\ failures'[i].file = failures'[Len(failures')].file - (Len(failures') - i)
  BY <1>1, FailStreak
<1> HIDE DEF n
<1>3. /\ result'.stopped <=> n = Limit
      /\ result'.cancelled = FALSE /\ result'.ended = result.ended
      /\ result' \in [ended : {"no", "planned", "raised", "returned"}, stopped : BOOLEAN,
                      cancelled : BOOLEAN, partial : BOOLEAN]
      /\ n = Limit => pc' = "after" /\ at' = at /\ result'.partial
      /\ n # Limit => pc' = "next" /\ at' = at + 1
  <2>1. CASE n = Limit
    <3>1. at' = at /\ pc' = "after" /\ result' = [result EXCEPT !.stopped = TRUE, !.partial = TRUE]
      BY <1>2, <2>1, ConstantsAssumption DEF GiveUp
    <3> QED BY <1>1, <2>1, <3>1 DEF IInv, TypeOK
  <2>2. CASE n # Limit
    <3>1. pc' = "next" /\ at' = at + 1 /\ result' = result
      BY <1>2, <2>2, ConstantsAssumption DEF Continue
    <3> QED BY <1>1, <2>2, <3>1 DEF IInv, TypeOK
  <2> QED BY <2>1, <2>2
<1>4. Past = at - 1 /\ Past' = at
  BY <1>1, <1>3 DEF Past, File
<1>5. Committed' = Committed /\ Waiting' = Waiting
  BY DEF Committed, Waiting
<1>6. TypeOK'
  BY <1>1, <1>2, <1>3, ConstantsAssumption DEF IInv, TypeOK, File
<1>7. OnceEach'
  <2>1. Len(items) \in Nat /\ Len(pending) \in Nat
    BY LenProperties DEF IInv, TypeOK
  <2>2. Committed' \cup Waiting' \cup Failed' = 1 .. Past'
    BY <1>1, <1>2, <1>4, <1>5 DEF IInv, OnceEach, File
  <2>3. Committed' \cap Failed' = {} /\ Waiting' \cap Failed' = {}
    BY <1>1, <1>2, <1>4, <1>5 DEF IInv, OnceEach, File
  <2>4. Len(items') + Len(pending') + Len(failures') = Past'
    BY <1>1, <1>2, <1>4, <2>1 DEF IInv, OnceEach, File
  <2> QED BY <2>2, <2>3, <2>4 DEF OnceEach
<1>8. InOrder'
  BY <1>5 DEF IInv, InOrder, Ascends
<1>9. Streak'
  BY <1>2, <1>3, <1>4 DEF Streak
<1>10. Place'
  BY <1>1, <1>3 DEF IInv, Place
<1>11. Stored'
  BY <1>3, <1>5 DEF IInv, Stored
<1> QED BY <1>6, <1>7, <1>8, <1>9, <1>10, <1>11 DEF IInv

\* Writing a batch commits what waited, in order.
LEMMA FlushStep ==
    ASSUME IInv, Flush PROVE IInv'
<1> USE DEF Flush
<1>1. /\ items' \in Seq(File) /\ Len(items') = Len(items) + Len(pending)
      /\ Len(items) \in Nat /\ Len(pending) \in Nat
      /\ Entries(items') = Entries(items) \cup Entries(pending)
  BY ConcatFacts DEF IInv, TypeOK
<1>2. Committed' = Committed \cup Waiting /\ Waiting' = {} /\ Failed' = Failed /\ Past' = Past
  <2>1. Committed' = Entries(items') /\ Committed = Entries(items) /\ Waiting = Entries(pending)
        /\ Waiting' = Entries(pending')
    BY DEF Committed, Waiting, Entries
  <2>2. Waiting' = {}
    BY <2>1, EmptyFacts
  <2>3. Failed' = Failed /\ Past' = Past
    BY DEF Failed, Past
  <2> QED BY <1>1, <2>1, <2>2, <2>3
<1>3. TypeOK'
  BY <1>1, EmptySeq DEF IInv, TypeOK
<1>4. OnceEach'
  BY <1>1, <1>2, EmptyFacts DEF IInv, OnceEach
<1>5. InOrder'
  <2>1. items \in Seq(Nat) /\ pending \in Seq(Nat)
    <3>1. File \subseteq Nat /\ items \in Seq(File) /\ pending \in Seq(File)
      BY DEF IInv, TypeOK, File
    <3> QED BY <3>1, SeqMonotonic
  <2>2. \A m \in Entries(items), n \in Entries(pending) : m < n
    BY DEF IInv, InOrder, Entries, Committed, Waiting
  <2>3. Ascends(items')
    BY <2>1, <2>2, ConcatAscends DEF IInv, InOrder
  <2> QED BY <1>2, <2>3 DEF InOrder, Ascends
<1>6. Streak'
  BY <1>2 DEF IInv, Streak
<1>7. Place'
  BY DEF IInv, Place
<1>8. Stored'
  BY <1>2 DEF IInv, Stored
<1> QED BY <1>3, <1>4, <1>5, <1>6, <1>7, <1>8 DEF IInv

LEMMA EndSteps ==
    ASSUME IInv, FlushRaises \/ LoopEnds \/ StopForCancel \/ After \/ IndexRaises \/ Return
    PROVE  IInv'
<1> USE DEF FlushRaises, LoopEnds, StopForCancel, After, IndexRaises, Return, Raises, loop, stored
<1>1. /\ UNCHANGED <<at, pending, failures, consecutive, items, keyed, copied, sources>>
      /\ result'.stopped = result.stopped
  BY DEF IInv, TypeOK
<1>2. OnceEach' /\ InOrder' /\ Streak' /\ Committed' = Committed /\ Waiting' = Waiting
  BY <1>1, BooksStay
<1>3. TypeOK'
  BY DEF IInv, TypeOK
<1>4. Place'
  <2>1. CASE FlushRaises \/ IndexRaises
    BY <2>1 DEF IInv, TypeOK, Place
  <2>2. CASE LoopEnds
    <3>1. at = Files + 1
      BY <2>2, ConstantsAssumption DEF IInv, TypeOK, File
    <3> QED BY <2>2, <3>1 DEF IInv, Place
  <2>3. CASE StopForCancel
    BY <2>3 DEF IInv, TypeOK, Place
  <2>4. CASE After
    BY <2>4 DEF IInv, TypeOK, Place
  <2>5. CASE Return
    BY <2>5 DEF IInv, TypeOK, Place
  <2> QED BY <2>1, <2>2, <2>3, <2>4, <2>5
<1>5. Stored'
  BY <1>1, <1>2 DEF IInv, Stored
<1> QED BY <1>2, <1>3, <1>4, <1>5 DEF IInv

LEMMA NextIInv == IInv /\ [Next]_vars => IInv'
<1> SUFFICES ASSUME IInv, [Next]_vars PROVE IInv'
  OBVIOUS
<1>1. CASE UNCHANGED vars
  BY <1>1, BooksStay DEF vars, IInv, TypeOK, Place, Stored
<1>2. CASE SetCancel
  BY <1>2, SetCancelStep
<1>3. CASE PlanRefuses \/ Plan
  BY <1>3, PlanSteps
<1>4. CASE Extract \/ CopyOriginal \/ Keep \/ Flush
  BY <1>4, ExtractStep, CopyStep, KeepStep, FlushStep
<1>5. CASE FlushRaises \/ LoopEnds \/ StopForCancel \/ After \/ IndexRaises \/ Return
  BY <1>5, EndSteps
<1>6. ASSUME NEW why \in Reason, FileFails(why) PROVE IInv'
  BY <1>6, FileFailsStep
<1> QED BY <1>1, <1>2, <1>3, <1>4, <1>5, <1>6 DEF Next, Step

--------------------------------------------------------------------------
(* The theorems. *)

LEMMA Inductive == Spec => []IInv
BY InitIInv, NextIInv, PTL DEF Spec

\* Every variable of a run stays in its type: the file it is at, the rows it holds and
\* the failures it counts in a row are within their bounds (run()).
THEOREM TypeCorrect == Spec => []TypeOK
BY Inductive, PTL DEF IInv

\* Whatever a run commits with a blob_key has its original in the side table already
\* (_write_blobs before the rows are pending), and of what the handlers hand over, the
\* user's own files among it, the clean-up deletes no original (its scratch guard).
THEOREM RowsJoin == Spec => []RowsJoinTheirOriginals
<1>1. IInv => RowsJoinTheirOriginals
  BY DEF IInv, Stored, RowsJoinTheirOriginals
<1> QED BY <1>1, Inductive, PTL

\* A run that returns whole has each file once, as rows or as a failure; one that
\* stopped has seen the same failure of Limit files in a row (the loop of run()).
THEOREM Accounted == Spec => []FilesAreAccountedFor
<1>1. ASSUME IInv PROVE FilesAreAccountedFor
  <2>1. ASSUME result.ended = "returned", ~result.cancelled, ~result.stopped
        PROVE  Committed \cup Failed = File /\ Committed \cap Failed = {}
    <3>1. at = Files + 1 /\ pending = <<>>
      BY <1>1, <2>1 DEF IInv, Place
    <3>2. Waiting = {} /\ Past = Files
      BY <2>1, <3>1, ConstantsAssumption DEF Waiting, Past
    <3> QED BY <1>1, <3>2 DEF IInv, OnceEach, File
  <2>2. ASSUME result.stopped
        PROVE  LET n == Len(failures)
               IN  /\ n >= Limit
                   /\ \A i \in n - Limit + 1 .. n :
                         /\ failures[i].reason = failures[n].reason
                         /\ failures[i].file = failures[n].file - (n - i)
    BY <1>1, <2>2, LenProperties, ConstantsAssumption DEF IInv, TypeOK, Streak
  <2> QED BY <2>1, <2>2 DEF FilesAreAccountedFor
<1> QED BY <1>1, Inductive, PTL

--------------------------------------------------------------------------
(* A run is a batch log. *)

\* A batch that is written is one the log may commit.
LEMMA FlushCommits ==
    ASSUME IInv, Flush PROVE Log!Commit
<1> USE DEF Flush
<1> DEFINE k == Len(items)
<1>1. /\ items' \in Seq(File) /\ Len(items') = k + Len(pending)
      /\ k \in Nat /\ Len(pending) \in Nat /\ pending # <<>>
      /\ DOMAIN items = 1 .. k /\ DOMAIN pending = 1 .. Len(pending)
      /\ \A n \in 1 .. k : items'[n] = items[n]
      /\ \A n \in 1 .. Len(pending) : items'[k + n] = pending[n]
  BY ConcatFacts DEF IInv, TypeOK, Place
<1>2. Len(pending) > 0
  BY <1>1, EmptySeq DEF IInv, TypeOK
<1>3. SubSeq(items', 1, k) = items
  <2>1. \A i \in 1 .. k : items'[i] \in File
    BY <1>1 DEF IInv, TypeOK
  <2>2. /\ SubSeq(items', 1, k) \in Seq(File)
        /\ Len(SubSeq(items', 1, k)) = k
        /\ \A i \in 1 .. k : SubSeq(items', 1, k)[i] = items'[i]
    BY <1>1, <2>1, SubSeqProperties
  <2> QED BY <1>1, <2>2, SeqEqual DEF IInv, TypeOK
<1>4. SubSeq(items', k + 1, Len(items')) = pending
  <2> DEFINE b == SubSeq(items', k + 1, Len(items'))
  <2>1. \A i \in k + 1 .. Len(items') : items'[i] \in File
    <3>1. \A i \in 1 .. Len(items') : items'[i] \in File
      BY <1>1, ElementOfSeq
    <3> QED BY <1>1, <3>1
  <2>2. /\ b \in Seq(File) /\ Len(b) = Len(pending)
        /\ \A i \in 1 .. Len(pending) : b[i] = items'[k + i]
    BY <1>1, <1>2, <2>1, SubSeqProperties
  <2> HIDE DEF b
  <2>3. b = pending
    BY <1>1, <2>2, SeqEqual DEF IInv, TypeOK
  <2> QED BY <2>3 DEF b
<1>5. Log!IsBatch(pending, Log!LastOf(items))
  <2>1. \A i \in DOMAIN pending : pending[i] \in File
    BY <1>1 DEF IInv, TypeOK
  <2>2. \A i \in DOMAIN pending : Log!LastOf(items) < pending[i]
    <3> SUFFICES ASSUME NEW i \in DOMAIN pending PROVE Log!LastOf(items) < pending[i]
      OBVIOUS
    <3>1. CASE items = <<>>
      BY <2>1, <3>1 DEF Log!LastOf, File
    <3>2. CASE items # <<>>
      <4>1. k \in DOMAIN items
        BY <1>1, <3>2, EmptySeq DEF IInv, TypeOK
      <4>2. items[k] \in Committed /\ pending[i] \in Waiting
        BY <4>1 DEF Committed, Waiting
      <4> QED BY <3>2, <4>2 DEF Log!LastOf, IInv, InOrder
    <3> QED BY <3>1, <3>2
  <2>3. Log!LastOf(items) \in Nat
    <3>1. CASE items = <<>>
      BY <3>1 DEF Log!LastOf
    <3>2. CASE items # <<>>
      <4>1. k \in DOMAIN items
        BY <1>1, <3>2, EmptySeq DEF IInv, TypeOK
      <4>2. items[k] \in File
        BY <1>1, <4>1 DEF IInv, TypeOK
      <4> QED BY <3>2, <4>2 DEF Log!LastOf, File
    <3> QED BY <3>1, <3>2
  <2> QED BY <1>1, <2>1, <2>2, <2>3 DEF Log!IsBatch, IInv, InOrder, Ascends, File
<1>6. Verdict = "running" /\ Verdict' = Verdict
  <2>1. result.ended = "no"
    BY DEF IInv, Place
  <2> QED BY <2>1 DEF Verdict
<1>7. Log!IsBatch(SubSeq(items', k + 1, Len(items')), Log!LastOf(items))
  BY <1>4, <1>5
<1>8. Len(items) < Len(items')
  BY <1>1, <1>2
<1> HIDE DEF Flush
<1> QED BY <1>3, <1>6, <1>7, <1>8 DEF Log!Commit

\* A run that ends is a log that ends; as a whole one only with every file in it.
LEMMA ReturnEnds ==
    ASSUME IInv, IInv', result.ended = "no", result'.ended # "no", UNCHANGED items
    PROVE  Log!End
<1>1. Verdict = "running"
  BY DEF Verdict
<1>2. CASE result'.ended \in {"planned", "raised"}
  <2>1. Verdict' = "raised"
    BY <1>2 DEF Verdict
  <2> QED BY <1>1, <2>1 DEF Log!End
<1>3. CASE result'.ended = "returned" /\ result'.partial
  <2>1. Verdict' = "partial"
    BY <1>3 DEF Verdict
  <2> QED BY <1>1, <2>1 DEF Log!End
<1>4. CASE result'.ended = "returned" /\ ~result'.partial
  <2>1. Verdict' = "whole"
    BY <1>4 DEF Verdict
  <2>2. /\ ~result'.stopped /\ ~result'.cancelled /\ failures' = <<>>
        /\ at' = Files + 1 /\ pending' = <<>>
    BY <1>4 DEF IInv, Place
  <2>3. Past' = Files
    BY <2>2, ConstantsAssumption DEF Past
  <2>4. Len(items) = Files
    <3>1. Len(items') \in Nat
      BY LenProperties DEF IInv, TypeOK
    <3> QED BY <2>2, <2>3, <3>1, EmptyFacts DEF IInv, OnceEach
  <2> QED BY <1>1, <2>1, <2>4 DEF Log!End
<1> QED BY <1>2, <1>3, <1>4 DEF IInv, TypeOK

LEMMA StepRefines ==
    ASSUME IInv, [Next]_vars PROVE [Log!Next]_(Log!vars)
<1>1. IInv'
  BY NextIInv
<1>2. CASE Flush
  BY <1>2, FlushCommits DEF Log!Next
<1>3. CASE ~Flush
  <2>1. UNCHANGED items /\ (result.ended = "no" \/ UNCHANGED result)
    <3>1. CASE UNCHANGED vars
      BY <3>1 DEF vars
    <3>2. CASE SetCancel \/ PlanRefuses \/ Plan \/ Extract \/ CopyOriginal \/ Keep
      BY <3>2 DEF SetCancel, PlanRefuses, Plan, Extract, CopyOriginal, Keep, Pend, Raises,
                  loop, stored, IInv, Place
    <3>3. CASE FlushRaises \/ LoopEnds \/ StopForCancel \/ After \/ IndexRaises \/ Return
      BY <3>3 DEF FlushRaises, LoopEnds, StopForCancel, After, IndexRaises, Return, Raises,
                  loop, stored, IInv, Place
    <3>4. ASSUME NEW why \in Reason, FileFails(why)
          PROVE  UNCHANGED items /\ result.ended = "no"
      BY <3>4 DEF FileFails, FailFor, stored, IInv, Place
    <3> QED BY <1>3, <3>1, <3>2, <3>3, <3>4 DEF Next, Step
  <2>2. CASE result.ended = "no" /\ result'.ended # "no"
    BY <1>1, <2>1, <2>2, ReturnEnds DEF Log!Next
  <2>3. CASE ~(result.ended = "no" /\ result'.ended # "no")
    <3>1. Verdict' = Verdict
      BY <2>1, <2>3 DEF Verdict
    <3> QED BY <2>1, <3>1 DEF Log!vars
  <2> QED BY <2>2, <2>3
<1> QED BY <1>2, <1>3

\* Whole batches only: to a reader of its table a run is a BatchLog. The table grows by
\* whole files, in the order they were found and none twice, never after the run has
\* ended, and a run that does not call itself partial has left no file out.
THEOREM WholeBatchesOnly == Spec => Log!Init /\ [][Log!Next]_(Log!vars)
<1>1. Init => Log!Init
  BY DEF Init, NoResult, Verdict, Log!Init
<1>2. IInv /\ [Next]_vars => [Log!Next]_(Log!vars)
  BY StepRefines
<1> QED BY <1>1, <1>2, Inductive, PTL DEF Spec
====
