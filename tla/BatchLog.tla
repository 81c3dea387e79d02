---- MODULE BatchLog ----
(***************************************************************************)
(* What an ingest run promises whoever reads the table it leaves (the      *)
(* docstring of ingest/core/run.py, "Whole batches only"): the table only  *)
(* ever grows, by whole files in the order they were found, none twice;    *)
(* once the run has ended it grows no more; and a run that does not call   *)
(* itself partial has left no file out.                                    *)
(***************************************************************************)
EXTENDS Naturals, Sequences, FiniteSets

CONSTANTS Files     \* how many files there are: 1..Files, in the order found

VARIABLES table,    \* the files whose rows are committed, in order
          verdict   \* "running", "raised", "partial" or "whole"

vars == <<table, verdict>>

LastOf(s) == IF s = <<>> THEN 0 ELSE s[Len(s)]

\* Some files at most Files, in ascending order, all after the file n.
IsBatch(b, n) ==
    /\ b # <<>>
    /\ \A i \in DOMAIN b : b[i] \in (n + 1) .. Files
    /\ \A i, k \in DOMAIN b : i < k => b[i] < b[k]

Init == table = <<>> /\ verdict = "running"

\* The new rows are read off the new table.
Commit ==
    /\ verdict = "running"
    /\ Len(table) < Len(table')
    /\ SubSeq(table', 1, Len(table)) = table
    /\ IsBatch(SubSeq(table', Len(table) + 1, Len(table')), LastOf(table))
    /\ UNCHANGED verdict

End ==
    /\ verdict = "running"
    /\ \/ verdict' \in {"raised", "partial"}
       \/ verdict' = "whole" /\ Len(table) = Files
    /\ UNCHANGED table

Next == Commit \/ End

Spec == Init /\ [][Next]_vars /\ WF_vars(End)
====
