---- MODULE AnswerCache ----
(***************************************************************************)
(* Summaries kept on disk (server/intel/cache.py), asked for by POST       *)
(* /intel/tables/{name}/summary (server/routes/intel.py) in several        *)
(* processes and deleted under them by DELETE /intel/cache.  An answer is  *)
(* the version of the table it was written about; the key on disk is the   *)
(* version alone, uri, task, model and prompt being the same throughout.   *)
(* A version is [life, number]: a table that was deleted and made again    *)
(* counts from one.                                                        *)
(***************************************************************************)
EXTENDS Naturals, FiniteSets

CONSTANTS Reader,       \* the processes
          Numbers,     \* bound: versions of one life of the table
          Lives,        \* bound: times the table is made
          Asks,         \* bound: summaries asked for
          Sweeps        \* bound: times the cache is cleared

ASSUME CacheAssumption ==
    Numbers \in Nat \ {0} /\ Lives \in Nat \ {0} /\ Asks \in Nat /\ Sweeps \in Nat

VARIABLES
    table,      \* the latest version of the table
    handle,     \* of each process: the version its handle is at
    asking,     \* of each process: the request it is answering
    entry,      \* on disk, by number: an answer, or that there is none
    temporary,  \* the processes whose temporary file is there
    sweep,      \* the files a clear has listed and not removed yet
    answered,   \* history: the last answer given, and for which handle
    asks, sweeps

cacheVars == <<table, handle, asking, entry, temporary, sweep, answered, asks, sweeps>>

Version == [life : 1..Lives, number : 1..Numbers]
NoAnswer == [life |-> 0, number |-> 0]
Torn == [life |-> 0, number |-> 1]
Quiet == [step |-> "quiet"]

\* Mutant: one entry for all versions.
KeyOfTable(v) == 1

\* Key.path: the uri, the version's number, the task, the model and the prompt.
Key(v) == v.number

CacheInit ==
    /\ table = [life |-> 1, number |-> 1]
    /\ handle = [p \in Reader |-> table]
    /\ asking = [p \in Reader |-> Quiet]
    /\ entry = [n \in 1..Numbers |-> NoAnswer]
    /\ temporary = {} /\ sweep = {}
    /\ answered = [gave |-> NoAnswer, for |-> NoAnswer]
    /\ asks = 0 /\ sweeps = 0

\* A write makes the next version of the table.
WriteTable ==
    /\ table.number < Numbers
    /\ table' = [table EXCEPT !.number = @ + 1]
    /\ UNCHANGED <<handle, asking, entry, temporary, sweep, answered, asks, sweeps>>

\* The table is deleted (a discarded ingest) and one is made in its place.
RemakeTable ==
    /\ table.life < Lives
    /\ table' = [life |-> table.life + 1, number |-> 1]
    /\ UNCHANGED <<handle, asking, entry, temporary, sweep, answered, asks, sweeps>>

\* The handle is closed for want of room or with its database, and opened again.
Reopen(p) ==
    /\ asking[p] = Quiet /\ handle[p] # table
    /\ handle' = [handle EXCEPT ![p] = table]
    /\ UNCHANGED <<table, asking, entry, temporary, sweep, answered, asks, sweeps>>

Gives(p, answer) == answered' = [gave |-> answer, for |-> handle[p]]

\* summarise: what is on disk and can be read is the answer, unless a fresh one is asked for.
AskCached(p) ==
    /\ asking[p] = Quiet /\ asks < Asks /\ asks' = asks + 1
    /\ entry[Key(handle[p])] \notin {NoAnswer, Torn}
    /\ Gives(p, entry[Key(handle[p])])
    /\ UNCHANGED <<table, handle, asking, entry, temporary, sweep, sweeps>>

\* Otherwise the findings are derived from the handle and the model writes one.  An empty
\* one and a failed call are given and not kept.
AskModel(p, refresh, worthKeeping) ==
    /\ asking[p] = Quiet /\ asks < Asks /\ asks' = asks + 1
    /\ refresh \/ entry[Key(handle[p])] \in {NoAnswer, Torn}
    /\ Gives(p, handle[p])
    /\ asking' = [asking EXCEPT ![p] = IF worthKeeping THEN [step |-> "made"] ELSE Quiet]
    /\ UNCHANGED <<table, handle, entry, temporary, sweep, sweeps>>

\* put, first half: a temporary file beside the entry.
MakeTemporary(p) ==
    /\ asking[p].step = "made"
    /\ asking' = [asking EXCEPT ![p].step = "written"]
    /\ temporary' = temporary \cup {p}
    /\ UNCHANGED <<table, handle, entry, sweep, answered, asks, sweeps>>

\* put, second half: renamed, unless a clear has taken the temporary file for an entry.
Keep(p) ==
    /\ asking[p].step = "written"
    /\ asking' = [asking EXCEPT ![p] = Quiet]
    /\ entry' = IF p \in temporary THEN [entry EXCEPT ![Key(handle[p])] = handle[p]] ELSE entry
    /\ temporary' = temporary \ {p}
    /\ UNCHANGED <<table, handle, sweep, answered, asks, sweeps>>

\* A process that ends in the middle of a put leaves its temporary file for a clear.
ReaderRestarts(p) ==
    /\ asking[p] # Quiet
    /\ asking' = [asking EXCEPT ![p] = Quiet]
    /\ handle' = [handle EXCEPT ![p] = table]
    /\ UNCHANGED <<table, entry, temporary, sweep, answered, asks, sweeps>>

\* clear: every *.json there is, temporary ones among them, then each in its turn.
Sweep ==
    /\ sweep = {} /\ sweeps < Sweeps /\ sweeps' = sweeps + 1
    /\ sweep' = {<<"entry", n>> : n \in {k \in 1..Numbers : entry[k] # NoAnswer}}
                    \cup {<<"temporary", p>> : p \in temporary}
    /\ UNCHANGED <<table, handle, asking, entry, temporary, answered, asks>>

SweepOne(file) ==
    /\ file \in sweep
    /\ sweep' = sweep \ {file}
    /\ entry' = IF file[1] = "entry" THEN [entry EXCEPT ![file[2]] = NoAnswer] ELSE entry
    /\ temporary' = IF file[1] = "temporary" THEN temporary \ {file[2]} ELSE temporary
    /\ UNCHANGED <<table, handle, asking, answered, asks, sweeps>>

CacheNext ==
    \/ WriteTable \/ RemakeTable \/ Sweep
    \/ \E file \in sweep : SweepOne(file)
    \/ \E p \in Reader :
          \/ Reopen(p) \/ AskCached(p) \/ MakeTemporary(p) \/ Keep(p) \/ ReaderRestarts(p)
          \/ \E refresh, worthKeeping \in BOOLEAN : AskModel(p, refresh, worthKeeping)

--------------------------------------------------------------------------

\* cache.py: "an answer computed about version 7 stays true about version 7 forever".
\* Whoever wrote it and whatever was written to the table since, the answer given is
\* about the version of the handle that asked, up to the life of the table; and an entry
\* that is there is whole, though a put, a clear or a restart meets another.
AnswersAreAboutTheirVersion ==
    /\ handle \in [Reader -> Version] /\ table \in Version /\ temporary \subseteq Reader
    /\ answered.gave.number = answered.for.number
    /\ \A n \in 1..Numbers : entry[n] # Torn

\* The same, and about the table that is there now: not so once one has been made in
\* the place of another.
AnswersAreAboutTheirTable == answered.gave = answered.for
====
