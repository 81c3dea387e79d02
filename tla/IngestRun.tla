---- MODULE IngestRun ----
(***************************************************************************)
(* One run of ingest/core/run.py: the plan, the loop over the files, the   *)
(* batches it commits through ingest/core/writer.py and the side table of  *)
(* originals, up to the result it returns or the exception it raises.      *)
(*                                                                         *)
(* The run is one thread.  What happens around it is the cancel flag,      *)
(* which another thread sets, and the destination, where somebody else's   *)
(* table may stand.  A file is its number; its rows are a count.           *)
(***************************************************************************)
EXTENDS Naturals, Sequences, FiniteSets

CONSTANTS Files,    \* bound: files the survey finds
          MaxRows,  \* bound: rows one file turns into
          Batch,    \* BATCH_ROWS
          Limit,    \* CONSECUTIVE_FAILURE_LIMIT
          Reason,   \* first lines of exceptions
          NoReason

ASSUME ConstantsAssumption ==
    /\ Files \in Nat \ {0} /\ MaxRows \in Nat \ {0}
    /\ Batch \in Nat \ {0} /\ Limit \in Nat \ {0}
    /\ NoReason \notin Reason

File == 1 .. Files

VARIABLES
    pc,         \* where run() is
    copying,    \* copy_mode = "blobs"
    cancel,     \* the caller's flag
    at,         \* the file the loop is at; files_done is at - 1
    fresh,      \* rows of that file, extracted and not yet pending
    chunks,     \* where what its handler hands over to be stored lies
    keyed,      \* the files whose rows carry a blob_key
    pending,    \* pending_rows: the files they came from ...
    rows,       \* ... and how many they are
    failures,   \* result.failures
    consecutive,
    table,      \* <name>.lance: "absent", "foreign" or "ours"
    items,      \* what we committed to it: files, in order
    blobs,      \* <name>_blobs.lance likewise
    copied,     \* the files whose originals are in it
    scratch,    \* the run's own directory: not yet made, there, or removed
    sources,    \* the originals
    result      \* what run() returns

vars == <<pc, copying, cancel, at, fresh, chunks, keyed, pending, rows, failures, consecutive,
          table, items, blobs, copied, scratch, sources, result>>

loop == <<at, fresh, chunks, keyed, pending, rows, failures, consecutive>>
stored == <<table, items, blobs, copied>>

NoResult == [ended |-> "no", stopped |-> FALSE, cancelled |-> FALSE, partial |-> FALSE]

TypeOK ==
    /\ pc \in {"plan", "next", "extracted", "copied", "flush", "lastflush", "after",
               "index", "returned", "raised"}
    /\ copying \in BOOLEAN /\ cancel \in BOOLEAN
    /\ at \in 1 .. Files + 1
    /\ fresh \in 0 .. MaxRows
    /\ chunks \subseteq {"scratch", "original"}
    /\ keyed \subseteq File
    /\ pending \in Seq(File)
    /\ rows \in Nat
    /\ failures \in Seq([file : File, reason : Reason])
    /\ consecutive \in 0 .. Limit
    /\ table \in {"absent", "foreign", "ours"} /\ blobs \in {"absent", "foreign", "ours"}
    /\ items \in Seq(File)
    /\ copied \subseteq File
    /\ scratch \in {"unmade", "there", "removed"}
    /\ sources \subseteq File
    /\ result \in [ended : {"no", "planned", "raised", "returned"}, stopped : BOOLEAN,
                   cancelled : BOOLEAN, partial : BOOLEAN]

Init ==
    /\ pc = "plan"
    /\ copying \in BOOLEAN
    /\ cancel = FALSE
    /\ at = 1 /\ fresh = 0 /\ chunks = {} /\ keyed = {} /\ pending = <<>> /\ rows = 0
    /\ failures = <<>> /\ consecutive = 0
    /\ table \in {"absent", "foreign"} /\ blobs \in {"absent", "foreign"}
    /\ items = <<>> /\ copied = {}
    /\ scratch = "unmade"
    /\ sources = File
    /\ result = NoResult

--------------------------------------------------------------------------

\* The job's cancel Event, set by another thread.
SetCancel ==
    /\ ~cancel
    /\ pc \notin {"returned", "raised"}
    /\ cancel' = TRUE
    /\ UNCHANGED <<pc, copying, loop, stored, scratch, sources, result>>

\* An exception leaves run() as it stands.
Raises(when) ==
    /\ pc' = "raised"
    /\ result' = [result EXCEPT !.ended = when]
    /\ UNCHANGED <<copying, cancel, loop, stored, sources>>

\* The scratch directory comes first, the checks after it.
PlanRefuses ==
    /\ pc = "plan"
    /\ scratch' = "there"
    /\ Raises("planned")

Plan ==
    /\ pc = "plan"
    /\ scratch' = "there"
    /\ pc' = "next"
    /\ UNCHANGED <<copying, cancel, loop, stored, sources, result>>

\* check_cancel, then the handler: at least one row, and with copy_mode "blobs" the
\* segments of a video or a recording (an image or a document has none).  Today's
\* handlers put these in the scratch directory; _write_blobs has to be right for one
\* that hands over the user's own file too.
Extract ==
    /\ pc = "next"
    /\ at \in File
    /\ ~cancel
    /\ fresh' \in 1 .. MaxRows
    /\ \/ UNCHANGED <<keyed, chunks>>
       \/ /\ copying
          /\ chunks' \in {{"scratch"}, {"original"}, {"scratch", "original"}}
          /\ keyed' = keyed \cup {at}
    /\ pc' = "extracted"
    /\ UNCHANGED <<copying, cancel, at, pending, rows, failures, consecutive, stored,
                   scratch, sources, result>>

\* Mutant: the clean-up takes every path for one of its own.
InScratchUnchecked == chunks

\* What the clean-up may unlink: the paths that resolve into this run's scratch.
InScratch == chunks \ {"original"}

\* _write_blobs, before the file's rows are pending: one version of the side table, then
\* each path it may is unlinked, or stays when that fails.
CopyOriginal ==
    /\ pc = "extracted"
    /\ at \in keyed
    /\ blobs # "foreign"
    /\ blobs' = "ours"
    /\ copied' = copied \cup {at}
    /\ \E gone \in SUBSET InScratch :
          /\ chunks' = chunks \ gone
          /\ sources' = IF "original" \in gone THEN sources \ {at} ELSE sources
    /\ pc' = "copied"
    /\ UNCHANGED <<copying, cancel, at, fresh, keyed, pending, rows, failures, consecutive,
                   table, items, scratch, result>>

\* consecutive is reset as the file's try block ends; then its rows are pending.
Pend ==
    /\ pending' = Append(pending, at)
    /\ rows' = rows + fresh
    /\ fresh' = 0
    /\ chunks' = {}
    /\ consecutive' = 0
    /\ at' = at + 1
    /\ pc' = IF rows' >= Batch THEN "flush" ELSE "next"
    /\ UNCHANGED <<copying, cancel, keyed, failures, stored, scratch, sources, result>>

Keep == pc = (IF at \in keyed THEN "copied" ELSE "extracted") /\ Pend

LastReason == IF failures = <<>> THEN NoReason ELSE failures[Len(failures)].reason

\* The except clause for one file: the n-th failure in a row.
FailFor(why, n) ==
    /\ \/ pc = "next" /\ at \in File /\ ~cancel
       \/ pc \in {"extracted", "copied"}
    /\ failures' = Append(failures, [file |-> at, reason |-> why])
    /\ consecutive' = n
    /\ fresh' = 0
    /\ chunks' = {}
    /\ UNCHANGED <<copying, cancel, keyed, pending, rows, stored, scratch, sources>>

GiveUp ==
    /\ pc' = "after"
    /\ result' = [result EXCEPT !.stopped = TRUE, !.partial = TRUE]
    /\ UNCHANGED at

Continue ==
    /\ pc' = "next"
    /\ at' = at + 1
    /\ UNCHANGED result

\* Mutant: one failure too many.
FileFailsLate(why) ==
    /\ FailFor(why, IF why = LastReason THEN consecutive + 1 ELSE 1)
    /\ IF consecutive' > Limit THEN GiveUp ELSE Continue

\* The handler, the stat of _rows_for, the copy or the last stat raised.  After the
\* same reason Limit times in a row the loop is left, and its else clause with it.
FileFails(why) ==
    /\ FailFor(why, IF why = LastReason THEN consecutive + 1 ELSE 1)
    /\ IF consecutive' >= Limit THEN GiveUp ELSE Continue

\* Mutant: a batch stays pending once it is written.
FlushKeeping ==
    /\ pc \in {"flush", "lastflush"}
    /\ table # "foreign"
    /\ table' = "ours"
    /\ items' = items \o pending
    /\ rows' = 0
    /\ pc' = IF pc = "flush" THEN "next" ELSE "after"
    /\ UNCHANGED <<copying, cancel, at, fresh, chunks, keyed, pending, failures, consecutive,
                   blobs, copied, scratch, sources, result>>

\* flush: create_table for the first batch, which refuses a path that is taken, and
\* append for the others.
Flush ==
    /\ pc \in {"flush", "lastflush"}
    /\ table # "foreign"
    /\ table' = "ours"
    /\ items' = items \o pending
    /\ pending' = <<>>
    /\ rows' = 0
    /\ pc' = IF pc = "flush" THEN "next" ELSE "after"
    /\ UNCHANGED <<copying, cancel, at, fresh, chunks, keyed, failures, consecutive, blobs,
                   copied, scratch, sources, result>>

\* The embedder, create_table or the write raised: nothing in run() catches it.
FlushRaises ==
    /\ pc \in {"flush", "lastflush"}
    /\ Raises("raised")
    /\ UNCHANGED scratch

\* Mutant: the loop has no else clause.
LoopEndsUnflushed ==
    /\ pc = "next"
    /\ at \notin File
    /\ pc' = "after"
    /\ UNCHANGED <<copying, cancel, loop, stored, scratch, sources, result>>

\* The loop's else clause.
LoopEnds ==
    /\ pc = "next"
    /\ at \notin File
    /\ pc' = IF pending = <<>> THEN "after" ELSE "lastflush"
    /\ UNCHANGED <<copying, cancel, loop, stored, scratch, sources, result>>

\* The except clause of Cancelled. 
StopForCancel ==
    /\ pc = "next"
    /\ at \in File
    /\ cancel
    /\ pc' = "after"
    /\ result' = [result EXCEPT !.cancelled = TRUE, !.partial = TRUE]
    /\ UNCHANGED <<copying, cancel, loop, stored, scratch, sources>>

\* rmtree; then either nothing was written, or the indices come next.
After ==
    /\ pc = "after"
    /\ scratch' = "removed"
    /\ IF table # "ours"
       THEN /\ pc' = "returned"
            /\ result' = [result EXCEPT !.partial = TRUE, !.ended = "returned"]
       ELSE /\ pc' = "index"
            /\ UNCHANGED result
    /\ UNCHANGED <<copying, cancel, loop, stored, sources>>

IndexRaises ==
    /\ pc = "index"
    /\ ~result.cancelled
    /\ Raises("raised")
    /\ UNCHANGED scratch

Return ==
    /\ pc = "index"
    /\ pc' = "returned"
    /\ result' = [result EXCEPT !.partial = @ \/ failures # <<>>, !.ended = "returned"]
    /\ UNCHANGED <<copying, cancel, loop, stored, scratch, sources>>

Step ==
    \/ PlanRefuses \/ Plan \/ Extract \/ CopyOriginal \/ Keep \/ Flush \/ FlushRaises
    \/ LoopEnds \/ StopForCancel \/ After \/ IndexRaises \/ Return
    \/ \E why \in Reason : FileFails(why)

Next == Step \/ SetCancel

\* The thread keeps running; nobody has to cancel it.
Spec == Init /\ [][Next]_vars /\ WF_vars(Step)

--------------------------------------------------------------------------
(* What makes a run correct. *)

Failed == {failures[n].file : n \in DOMAIN failures}
Committed == {items[n] : n \in DOMAIN items}
Waiting == {pending[n] : n \in DOMAIN pending}

\* Every row that is committed with a blob_key finds its original in the side table,
\* at every moment a reader may look: the originals are written first.  And tidying up
\* after a copy never deletes the original, wherever the handler let it lie: of all that
\* is handed over only what the run itself put into its scratch directory goes.
RowsJoinTheirOriginals ==
    /\ Committed \cap keyed \subseteq copied
    /\ sources = File

\* One file's failure is one file's failure: a run that was neither cancelled nor
\* stopped accounts for each file once, as rows or as a failure; and it is stopped only
\* after Limit files in a row failed the same way.
FilesAreAccountedFor ==
    /\ result.ended = "returned" /\ ~result.cancelled /\ ~result.stopped =>
          /\ Committed \cup Failed = File
          /\ Committed \cap Failed = {}
    /\ result.stopped =>
        LET n == Len(failures)
        IN  /\ n >= Limit
            /\ \A i \in n - Limit + 1 .. n :
                  /\ failures[i].reason = failures[n].reason
                  /\ failures[i].file = failures[n].file - (n - i)

\* What a reader of the result takes the run for.
Verdict ==
    IF result.ended = "no" THEN "running"
    ELSE IF result.ended # "returned" THEN "raised"
    ELSE IF result.partial THEN "partial" ELSE "whole"

\* The run is a batch log, and it ends.
Log == INSTANCE BatchLog WITH table <- items, verdict <- Verdict

IsABatchLog == Log!Spec
====
