---- MODULE SpendLedger ----
(***************************************************************************)
(* The record of what model calls have cost (server/intel/ledger.py): one  *)
(* line per call in a file that every process appends to and trims under a *)
(* lock and a count of its own.  Files are named by their inodes: a trim   *)
(* fills a second file, whose name all processes share, and renames it     *)
(* over the first, which whoever has it open goes on writing to.           *)
(***************************************************************************)
EXTENDS Naturals, Sequences, FiniteSets

CONSTANTS Writer,       \* the processes that record
          MaxLines, KeepLines,
          TrimEvery,    \* 500: appends of a process between two looks at the length
          Records,      \* bound: calls recorded
          Clears        \* bound: times the history is deleted or a process restarts

ASSUME LedgerAssumption ==
    /\ MaxLines \in Nat /\ KeepLines \in 1..MaxLines /\ TrimEvery \in Nat \ {0}
    /\ Records \in Nat /\ Clears \in Nat

VARIABLES
    content,    \* of each inode, in the order they were created
    ledger,     \* the inode at spend.jsonl, 0 when there is none
    trimmed,    \* the inode at spend.jsonl.tmp, 0 when there is none
    writer,     \* what each process is doing under its lock
    appended,   \* of each process: lines since its last look
    recorded,   \* calls so far: the line of the n-th is n
    written,    \* history: what was appended since the history was last deleted
    met,        \* history: two processes have been at work at once
    restarts, clears

ledgerVars ==
    <<content, ledger, trimmed, writer, appended, recorded, written, met, restarts, clears>>

NoFile == 0
Resting == [step |-> "resting"]

Lines == IF ledger = NoFile THEN <<>> ELSE content[ledger]

\* Mutant: the head is what is kept.
KeptFromHead(lines) == SubSeq(lines, 1, KeepLines)

Kept(lines) == SubSeq(lines, Len(lines) - KeepLines + 1, Len(lines))

LedgerInit ==
    /\ content = <<>> /\ ledger = NoFile /\ trimmed = NoFile
    /\ writer = [p \in Writer |-> Resting]
    /\ appended = [p \in Writer |-> 0]
    /\ recorded = 0 /\ written = <<>> /\ met = FALSE /\ restarts = 0 /\ clears = 0

\* record, under the lock: the file is opened, and created if it is not there.
OpenLedger(p) ==
    /\ writer[p] = Resting /\ recorded < Records
    /\ recorded' = recorded + 1
    /\ IF ledger = NoFile
       THEN content' = Append(content, <<>>) /\ ledger' = Len(content')
       ELSE UNCHANGED <<content, ledger>>
    /\ writer' = [writer EXCEPT ![p] = [step |-> "opened", file |-> ledger', line |-> recorded']]
    /\ UNCHANGED <<written, trimmed, appended, restarts, clears>>

\* The line goes to the end of the file that was opened; every TrimEvery lines of its
\* own the process looks at the length.
AppendLine(p) ==
    /\ writer[p].step = "opened"
    /\ content' = [content EXCEPT ![writer[p].file] = Append(@, writer[p].line)]
    /\ written' = Append(written, writer[p].line)
    /\ LET looks == appended[p] + 1 >= TrimEvery
       IN  /\ appended' = [appended EXCEPT ![p] = IF looks THEN 0 ELSE @ + 1]
           /\ writer' = [writer EXCEPT ![p] = IF looks THEN [step |-> "looks"] ELSE Resting]
    /\ UNCHANGED <<ledger, trimmed, recorded, restarts, clears>>

\* _trim: no file, or one that is short enough, is left alone.
Look(p) ==
    /\ writer[p].step = "looks"
    /\ writer' = [writer EXCEPT ![p] =
          IF Len(Lines) <= MaxLines THEN Resting ELSE [step |-> "read", lines |-> Lines]]
    /\ UNCHANGED <<written, content, ledger, trimmed, appended, recorded, restarts, clears>>

\* The second file, emptied if another trim has left or is filling one.
Truncate(p) ==
    /\ writer[p].step = "read"
    /\ IF trimmed = NoFile
       THEN content' = Append(content, <<>>) /\ trimmed' = Len(content')
       ELSE content' = [content EXCEPT ![trimmed] = <<>>] /\ UNCHANGED trimmed
    /\ writer' = [writer EXCEPT ![p] =
          [step |-> "truncated", file |-> trimmed', lines |-> writer[p].lines]]
    /\ UNCHANGED <<written, ledger, appended, recorded, restarts, clears>>

\* What is kept is written from the start of that file, over what others have put there.
Fill(p) ==
    /\ writer[p].step = "truncated"
    /\ LET kept == Kept(writer[p].lines)
       IN  content' = [content EXCEPT ![writer[p].file] =
              kept \o SubSeq(@, Len(kept) + 1, Len(@))]
    /\ writer' = [writer EXCEPT ![p].step = "filled"]
    /\ UNCHANGED <<written, ledger, trimmed, appended, recorded, restarts, clears>>

\* The rename, which fails quietly when another process has renamed it first.
Rename(p) ==
    /\ writer[p].step = "filled"
    /\ IF trimmed = NoFile THEN UNCHANGED <<ledger, trimmed>>
       ELSE ledger' = trimmed /\ trimmed' = NoFile
    /\ writer' = [writer EXCEPT ![p] = Resting]
    /\ UNCHANGED <<written, content, appended, recorded, restarts, clears>>

\* clear, DELETE /intel/spend: under this process's lock, whatever the others are doing.
ClearLedger(p) ==
    /\ writer[p] = Resting /\ ledger # NoFile
    /\ clears < Clears /\ clears' = clears + 1
    /\ ledger' = NoFile /\ written' = <<>>
    /\ UNCHANGED <<content, trimmed, writer, appended, recorded, restarts>>

\* A process that ends at any of these steps counts from nothing when it is back.
WriterRestarts(p) ==
    /\ restarts < Clears /\ restarts' = restarts + 1
    /\ writer' = [writer EXCEPT ![p] = Resting]
    /\ appended' = [appended EXCEPT ![p] = 0]
    /\ UNCHANGED <<written, content, ledger, trimmed, recorded, clears>>

LedgerNext ==
    \E p \in Writer :
        /\ \/ OpenLedger(p) \/ AppendLine(p) \/ Look(p) \/ Truncate(p) \/ Fill(p) \/ Rename(p)
           \/ ClearLedger(p) \/ WriterRestarts(p)
        /\ met' = (met \/ \E q \in Writer \ {p} : writer[q] # Resting)

--------------------------------------------------------------------------

\* ledger.py, _trim: "Keep the tail, drop the head".  As long as no two processes have
\* been at work at once, whatever ended in the middle of a trim, the file is the tail of
\* what was written, and not less of it than KeepLines.  No call is billed twice in the
\* history even when trims of two processes share a file and write over one another.
TailSurvives ==
    /\ {ledger, trimmed} \subseteq 0..Len(content)
    /\ \A i \in DOMAIN content : content[i] \in Seq(1..Records)
    /\ appended \in [Writer -> 0..TrimEvery - 1]
    /\ \A i, j \in DOMAIN Lines : i # j => Lines[i] # Lines[j]
    /\ ~met => \E n \in 0..Len(written) :
               /\ Lines = SubSeq(written, n + 1, Len(written))
               /\ Len(Lines) >= KeepLines \/ n = 0
====
