---- MODULE MCIngestJobs ----
EXTENDS IngestJobs, TLC

\* Jobs and tables are interchangeable: nothing compares ids or paths but for equality.
Ids == Permutations(Job) \cup Permutations(Table)
====
