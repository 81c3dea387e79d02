# LanceScope in TLA+

LanceScope is a console for reading LanceDB datasets, with an ingest pipeline that makes
them, a language layer that answers questions about them and a desktop shell around the
server. This directory holds TLA+ models of it, the TLC configurations that check them, and
proofs of the properties that matter most for every size of the system. Two kinds of module:
state machines of the parts where threads, processes and failures meet (jobs, handles, the
agent, the shared files, the desktop), and *calls* of the parts that keep no state (queries,
panels, checks, findings, adapters, media, providers, commands), where every input within
small bounds is asked once and its answer looked at.

Paths below are relative to `src/`. The models translate the code; the docstrings and
messages they are compared with are quoted where a property is stated.

1. [What the system is made of](#1-what-the-system-is-made-of)
2. [The plan](#2-the-plan)
3. [The modules](#3-the-modules)
4. [The runs](#4-the-runs)
5. [The proofs](#5-the-proofs)
6. [Where the code and its own words disagree](#6-where-the-code-and-its-own-words-disagree)
7. [What is not modelled](#7-what-is-not-modelled)

## 1. What the system is made of

One server process (FastAPI, one event loop) serves a Next.js console. Almost every handler
is an `async def` that never awaits, so that it is atomic with respect to every other
handler; the exceptions are what makes the system concurrent:

* two pools of one worker thread each, for ingest jobs and for data scans;
* `asyncio.to_thread` in four routes that read a table and in the agent's calls to a model;
* other processes over the same files: the ingest command line, a second server, the
  desktop's menu, the MCP server;
* the desktop shell (Rust), which starts, watches and kills the server.

### Ingest jobs — `ingest/core/jobs.py`, `server/routes/ingest.py`

*State*: a registry of jobs in memory, a cancel flag for each, a pool with one worker, one
journal file for each job on disk (the newest twenty kept).
*Operations*: submit (refused while a live job has the same destination), cancel, forget,
discard (deletes the table the job created), listing (reads every journal and rewrites the
live ones as interrupted), the worker's run, exit and restart.
*Hard*: cancel reads the state without the lock and writes it later; listing reads, decides
and writes a file the worker is writing; discard works by path; everything may stop between
two steps, also in the middle of a journal; the disk may refuse a journal, and nobody is told.
*Correct when*: no two live jobs write one table; a job that is called queued or running will
be run; a journal that reports an outcome reports one that happened, and a job past its start has
one unless the disk refused the last; a table grows only by
its maker; jobs end, in order.

### Ingest run — `ingest/core/run.py`, `writer.py`, `indexing.py`, `plan.py`

*State*: the rows pending, the table and its side table of originals, the failures, a scratch
directory.
*Operations*: plan, extract a file, copy its original, commit a batch, survive a failure,
give up after the same failure repeated, cancel, index, return or raise.
*Hard*: one file can fail in four places; the two tables are written one after the other; the
cancel flag is set at any moment; an embedder or a disk fails a whole batch; what was copied is
deleted afterwards, by a path that may be the user's own file.
*Correct when*: no row refers to an original that is not there; every file is accounted for
once; a run gives up only on real repetition; the table is whole batches in order; originals
are never deleted.

### Data scans — `server/scanjobs.py`, `server/routes/datascan.py`

*State*: a registry, an order, a pool with one worker; nothing on disk.
*Operations*: submit (with pruning), cancel, forget, the worker's checks.
*Hard*: the same races as ingest's, with different answers; the handle is opened before the
`try`; pruning meets jobs that are live or forgotten.
*Correct when*: one scan for a table at a time; work can always be found; "cancelled" and
"done" mean it.

### Catalog — `server/catalog.py`, `server/compare.py`, `server/routes/catalog.py`

*State*: open datasets in an LRU, pinned ones beside it, each with a counter of bytes read
that a drain empties.
*Operations*: open (hit, miss, evict), drain, rebind to another database, close all; read by
panels, comparisons and four requests that run on threads.
*Hard*: a thread holds a handle that the loop evicts, closes or drains; a comparison opens
two handles one after the other.
*Correct when*: nothing open is unaccounted for; nothing of an old database is served under
a new one; what is in use is not closed; a counter reports its owner's reads.

### Demo corpus and switching databases — `server/routes/demo.py`, `main.py`, `routes/settings.py`

*State*: the demo's two pinned handles; the root of the catalog.
*Operations*: load at startup (with a second root to fall back to), load again after a switch,
search, video.
*Hard*: a load can fail half-way, be tried again under another database, or fail after it has
assigned its state.
*Correct when*: the demo goes on through a switch, with both its tables from one database.

### Agent and spend meter — `server/intel/agent.py`, `meter.py`, `routes/intel.py`

*State*: for each question its turns, bytes, money, transcript; one meter for the process.
*Operations*: a turn of the model on a thread, the tools it calls, the caps looked at before
each step, one last turn when the bytes are spent; one-call tasks on the loop; reset.
*Hard*: several questions spend at once from one meter, and check, call and record are three
steps; the last turn skips two of the caps; providers fail anywhere.
*Correct when*: every tool call is answered; the caps hold up to one step; the bills add up;
only a finished run is called answered; questions end.

### Desktop shell and updater — `desktop/src-tauri/src/`, `server/standalone.py`

*State*: the shell's process, its windows and splash, the boot thread, the child it holds, the
server's own process with its port and its watcher, the update found and the install going on.
*Operations*: boot (start, wait for the port, wait for an answer, show), close, quit, crash,
check for updates, press install, the server's binding, printing, watching and ending.
*Hard*: windows are closed and quits asked for between any two steps of boot; the child is
held only after it was started; a second press, or a check that finds the update again, during
an install.
*Correct when*: no server outlives its shell; the user always has a window or an explanation;
one install at a time; whatever begins ends.

### What the server keeps and does not own alone

Settings (`server/settings.py`, `routes/settings.py`, `launch.py`, the desktop's menu), the spend
ledger (`intel/ledger.py`), the answer cache (`intel/cache.py`), the buckets of a public demo
(`kiosk.py`) and the operation plans (`server/ops/`, `routes/ops.py`).

*State*: one settings file and each process's catalog; lines in a file; answers in a directory;
tokens for each address and one shared; the last fifty plans, each about a version of a table.
*Operations*: load, change, save; append, trim, clear; put, get, clear; take; plan, fetch a plan,
and somebody running the script outside.
*Hard*: several processes with a lock each of its own, a file renamed over another that is open,
files that do not parse, requests refused by the second bucket after the first was charged,
tables that move or are made again under the same numbers.
*Correct when*: only an overwritten save loses a connection; the ledger is the tail of what was
spent; an answer is about its version; nobody exceeds the shared rate, and one address takes no
more of it than its own settings allow; a plan that is run does what it promised, and what it
changed can be taken back.

### What keeps no state

Their functions are asked and answer; correctness is about all inputs, and the hazards are
boundaries, combinations of fields, partial failure and what a refusal says.

| part | code | correct when |
|---|---|---|
| Queries, estimates, comparisons | `query.py`, `estimate.py`, `compare.py` | nothing heavy is read uninvited; the path is explained; rows, weights and differences are the real ones |
| Dataset panels, run config, bundle | `routes/catalog.py`, `intel/runconfig.py`, `bundle.py`, `routes/demo.py` | empty means empty; histories and layouts add up; a cell is streamed once; a document names what is missing and leaks no root |
| Findings | `intel/findings.py` | one rule's failure is neither silence nor the end of the others; thresholds are where they say |
| Data checks | `intel/datascan.py` | what runs is what was quoted; batches add up; pairs are pairs; recall is measured against the truth |
| Language layer | `intel/config.py`, `registry.py`, `providers.py`, `tasks.py`, `toolset.py`, `credentials.py`, `routes/intel.py` | choices are honoured; transcripts are well-formed for each provider; values stay home unless asked for; tools answer; secrets agree |
| Sources | `server/sources/`, `hf.py` | every adapter is served or explained; a root that looks empty is; a claim of a capability is earned |
| Media, embedders, survey | `ingest/core/media/`, `embedders/`, `plan.py` | retries end; vectors stay with their items; moments play from the segment that holds them; words are kept; counts add up |
| Command line | `ingest/cli.py` | an exit code tells a fact from a gap; a redirect is a whole document |
| Console, corpus scripts, packaging | | views, one-shot scripts and builds: not modelled |

Components, status and reasons are listed in `PROJECT.json`, with the hazards and the lines
where they bite.

## 2. The plan

The order was that of what could cost a user data, money or a wrong answer. All of it is built:

1. **IngestJobs**, with **SerialQueue** as what it promises.
2. **IngestRun**, with **BatchLog** as what it promises.
3. **ScanJobs**, a second implementation of SerialQueue.
4. **Catalog** with the demo and the switch of databases.
5. **Agent** with the meter.
6. **DesktopShell**: shell, server and updater.
7. **Settings**, **SpendLedger**, **AnswerCache**, **Kiosk**, **Operations**, put side by side by
   **Stores**.
8. **Queries**, **Findings**, **Panels**, **Sources**, **ScanChecks**, **LanguageLayer**, **Media**,
   **CommandLine** over **Asked**, put side by side by **Answers**.
9. The proofs: a module for each of the first four, **StoresProofs** for Agent, DesktopShell and the
   shared files, **AnswersProofs** and **PanelsProofs** for the calls, all over **SequenceFacts**.

Proofs: every safety property and every action property that a run checks of IngestJobs, IngestRun,
ScanJobs, Catalog, Agent, DesktopShell and the five parts of Stores has a theorem, and so has the
safety part of the three refinements (section 5). So has what the calls of Answers promise:
`QueriesAreHonest`, `ScansAreHonest`, `LanguageIsHonest`, `PanelsAreHonest` and `EdgesAreHonest`.

Composition still to write: a run of IngestRun inside the worker of IngestJobs (each is now
abstract in the other), and Operations over Catalog's handles.

## 3. The modules

### SerialQueue

What both registries promise: work is accepted once, served one at a time in order, and never
resumed by another process. Four variables, four actions. IngestJobs and ScanJobs implement
it by `INSTANCE ... WITH`.

### IngestJobs (MCIngestJobs, IngestJobsProofs)

| in the model | in the code |
|---|---|
| `state`, `table`, `cancel`, `result` | fields of `Job` |
| `registry`, `pool`, `worker` | `_REGISTRY`, what `_POOL` has accepted, its thread inside `_execute` |
| `handler` | the request the event loop is in: one at a time, in several steps |
| `journal`, `newer` | `jobs_dir()/<id>.json`, and the order of their mtimes |
| `WriteJournal` | the write, or its failure: the file torn, or left as it was |
| `unsaved`, `faults` | whose last journal did not reach the disk; how many did not |
| `disk` | the tables: who made each and how many batches it holds |
| `StartJob`, `Submit`, `SubmitJournal`, `SubmitPool` | `start_job`'s validation, then `submit`'s three steps |
| `Cancel`, `CancelMark` | the unlocked read and the locked write of `cancel` |
| `Forget`, `ForgetUnlink` | `forget` and the listing its route answers with |
| `Discard`, `DiscardRemove`, `DiscardJournal` | `discard` |
| `Listing`, `ListingRead`, `ListingRewrite`, `ListingEnd` | `load_journal`, file by file |
| `Start` ... `Prune` | `_execute` around `run`, which is kept to files, batches and outcomes |
| `Exit` | the process ends anywhere; a journal being written may be torn |

A run's progress may or may not be journalled at a step (`Tick`), which covers the schedule
of first file, stage change and fiftieth file. A journal's `OSError` is swallowed by the code
(`jobs.py:116-119`), so that the caller's step goes on after a failed write as after one that
succeeded. A restart is the state that `Exit` leaves: an
empty registry over the same journals and tables, with the old ids "lost".

### BatchLog, IngestRun (IngestRunProofs)

`BatchLog` is the promise to whoever reads the table: it grows by whole files in the order
found, none twice, ends with a verdict, and a verdict that is not "partial" means no file was
left out. `IngestRun` is `run()` step by step:
`Plan`/`PlanRefuses`, `Extract`, `CopyOriginal` (with the tidying up behind the copy), `Keep` (with the
reset of the counter), `FileFails` (with the reason compared and the counter kept), `Flush`/`FlushRaises`,
`LoopEnds` (the loop's `else`), `StopForCancel`, `After` (the scratch directory removed),
`IndexRaises`, `Return`. Another thread sets the flag (`SetCancel`) at any moment, and somebody
else's table may stand at either destination. `chunks` is where the bytes lie that a handler hands
over to be stored: in the scratch directory, or the user's own file. Of these only what
`InScratch` lets through is unlinked (`run.py:481-487`), each if the unlink succeeds.

### ScanJobs (ScanJobsProofs)

`submit` and `forget` hold the lock throughout and are one action each; `cancel` is three
(`CancelSet`, `CancelLook`, `CancelMark`). `Pruned` is the `while` loop over `_ORDER` with its
odd end: an id that cannot go moves to the tail, and the loop stops. The worker: `Open` (the
thread takes the job), `OpenRaises` (the handle fails before the `try`), `Run`, the loop with
its two exits, `CheckRaises`, `Judge` (the flag is read) and `End` (the state is written, later).

### Catalog (MCCatalog, CatalogProofs)

Handles are numbered and reused once nobody refers to them; there is a bound on them, `Handles`,
and a miss waits for a `Fresh` one. `lru` and `pinned` are the two
caches of both catalogs (the console's and the demo's own), `about` maps the open ones to the
key and the root they were opened under, `counter` to the set of those whose reads were counted
since the last drain. `Open` is a hit or a miss with the eviction. Requests on the loop are a
begin (`Browse`, `CompareLeft`, `CompareRight`, `DemoRead`) and an `EndRead`, each with its
drain; `Thread` is a request that left the loop: drain, read, drain, with the handle it was
given. `ApplyRoot` is the switch, with `LoadMoments`, `LoadSegments`, `LoadFails` and
`LoadColumns` as the demo's second chance; the same steps, with the fall-back to `home`, are
the start of the server.

### Agent (MCAgent, StoresProofs)

`call[c]` is where a caller is inside `spend`: `Check` (the ceiling), `Bill` (the provider
answers and the meter counts) or `ProviderFails`. `run[i]` is one question's `run`: `LoopHead` (turns,
clock, money, then a thread), `Turn` (an answer, or tools to call), `Tool` (one call answered,
with what was read or with the news that the bytes are spent), `ToolsDone` (back to the top, or
the one turn more), `NoTurn` (refused or failed). A task (self-test, filter, summary) makes its
call on the event loop, so that nothing of a question moves meanwhile (`LoopFree`), while the
threads of questions go on. `ResetMeter` may come at any moment; `wiped` remembers what it
dropped, so that the bills can be added up.

Money is in whole units and a tool's result is its bytes. The clock may run out at any look.

### DesktopShell (StoresProofs)

`boot` is where the boot thread is (`StartServer`, `PortArrives`/`StoppedEarly`/`PortTimeout`,
`StoreChild`, `Answers`/`NeverAnswers`, `OpenMain`, `Explain`); `held` is whether the shell holds the
child, `server` whether it lives, `watcher` whom it watches. `Close`, `Quit`, `ExitHook`,
`ProcessEnds` and `Crash` are the ways out. Each press of the install button is a task of its own:
`BeginInstall`, `TakeFound`, `AskAgain`, `InstallFails`, `Installed`, `Restart`.

### Settings, SpendLedger, AnswerCache, Kiosk, Operations; Stores (MCStores, StoresProofs)

* **Settings**: `disk` is the file as it parses (or does not), `pending[p]` a request that has loaded
  and not yet saved, `root[p]` and `panels[p]` the catalogs of a process; a hand may edit the file.
  `ResolveRoot` is the ladder of `resolve_root`, `FromDict` what loading makes of an entry.
  `Without` is the list comprehension that drops entries, in loading and in a removal.
* **SpendLedger**: files are inodes, so that a rename over an open file is seen; append, the steps
  of a trim, clear, restart. `met` remembers that two processes were at work at once.
* **AnswerCache**: get, the call, the put in its two steps, the clear over the names it listed; the
  table's version is [life, number], the key only the number.
* **Kiosk**: two levels of buckets, each with its rate (`Rate`, `GlobalRate`), and a clock;
  `served[n]` are the requests served in the last n ticks, of which the last is the window of the
  upstream.
* **Operations**: `past` is each table's history, `pruned` what was cleaned from it, `shelf` the
  plans, `pinned` the version of the console's handle; `BuildPlan` is the planners, `RunScript`
  somebody running a plan as it stands, whenever, and `Clean` somebody cleaning a history: the
  script of a cleanup plan only prints the quote, its call being commented out (`cleanup.py:175`).
  A compaction counts rows as fragments do, deleted ones included (`Physical`); a cleanup may be
  without a quote, and is not ready while a branch needs what it would remove
  (`cleanup.py:127-133`).

None of the five reads another, so **Stores** moves one of them in a behaviour, which keeps the
runs as small as the largest.

### Asked and the modules of calls; Answers

In **Asked** a behaviour is one call, chosen at the start from all that its callers can ask, and
one step that answers it; a property relates the two. The function is an operator named after the
one in the code, the set of inputs one named after its callers (`...Calls`). What a library or a
service answers is part of the call (the outcome of an HTTP attempt, a ranking of an index, a
folder's entries, whether Lance takes an index that fits). **Answers** puts the families side by side:

| module | asks |
|---|---|
| Queries | projection, plan, page, hybrid fusion, both scripts that repeat a query, completions of a filter, estimate, comparison |
| Findings | ten rules with their thresholds, failures of a rule, facets, summary |
| Panels | listing, history, indices, layout, rows, ranges of a cell, run config, explanation, bundle; extends Queries and Findings, which it shows |
| Sources | registry and plugins, what a root holds and what may be done there, explanations of failures; extends Panels, which shows the listing |
| ScanChecks | which columns, which refusals, which quotes, the checks over batches of rows, the sweep of recall |
| LanguageLayer | provider and model, wire form of a transcript, replies and failures, the filter task, history of spend, tools, credentials |
| Media | requests to an embedder, embedder for a table, frames and segments, subtitles, audio windows, pages, survey |
| CommandLine | exit codes and output of findings, check, scan, ingest, run-config, bundle, cost, open |

In Queries a search has the metric it runs with (`SearchMetric`) and a script the one it names: the
script for `lance` names what was asked for, which may be none, and then Lance's own decides. In
CommandLine a table may be missing, or be there and not open (`"shut"`), and `check` opens it three
times, each of which may be the one that fails; `job` in its answer is what became of the job.

## 4. The runs

Distinct states are those of the run as configured. Deadlock is checked where the system
always has a next step (IngestJobs, whose process may exit and start again); elsewhere a
behaviour may end (a run returns, a server is down, all questions are answered) and the
configuration says so.

| run | question it answers | bounds | states |
|---|---|---|---|
| IngestJobs_safety | Do requests, the worker and exits, in any order, keep one writer for a table, every live job on its way, every journal true, every table its maker's? | 2 jobs, 2 tables (each perhaps somebody else's), 2 files, 1 journal kept, 1 journal write that fails; symmetric in jobs and tables | 8.93 M |
| IngestJobs_live | Does a job nobody cancels end, and is the registry a serial queue? | 2 jobs, 1 table, 1 file, 1 journal kept, no write that fails | 459 k |
| IngestRun_whole | Does a run keep its tables joined, account for its files, give up only on repetition, spare the originals, and end as a log of whole batches? | 5 files of 1 or 2 rows, batches of 3, giving up after 2 alike, 2 reasons | 655 k |
| ScanJobs_whole | Do cancels, forgets and pruning leave one scan a table, work that can be found, outcomes that mean it, scans that end, and a serial queue? | 3 submissions, 2 tables, up to 2 checks each, 1 job kept | 825 k |
| Catalog_whole | Do panels, comparisons, a thread, the demo, switches and the shutdown leave every handle accounted for, current, and open while in use? | 4 databases, 2 names, 1 thread, 2 open handles, 9 handles | 2.82 M |
| Agent_whole | Do questions and tasks over one meter answer every call, keep their caps and the ceiling, add up, tell the truth about finishing, and end? | 2 questions, 1 task, 2 turns, 2 tools a turn, a byte budget, a ceiling and a price of 1 | 1.12 M |
| Desktop_whole | Does one launch, with windows closed, quits, crashes and timeouts at any step, leave no server, always something to look at, one install at a time, and nothing unfinished? | 2 presses of the update button | 50 k |
| Stores_whole | Do the shared files, the buckets and the plans keep what they promise under every interleaving of the processes that share them? | 2 servers, 2 databases, 2 labels, 2 requests and 1 edit; 2 writers, 6 records; 2 readers, 2 lives of 2 versions, 3 asks; 3 addresses, 9 ticks, a shared rate half the visitor's; 2 tables of 3 versions, 2 plans, 2 scripts or cleanings | 2.43 M |
| Answers_whole | Is every answer of the stateless parts honest? | one call; small data, below | 1.40 M |
| IngestJobs_discard, Settings_panels, Operations_stale | the three disagreements of section 6 that have a run | as above, smaller | to the first counterexample |

Why these bounds reach the interesting cases:

* *Two jobs* are what a conflict over a table, a prune that takes another's journal (one is
  kept), a journal that failed before or after one that did not, a second discard or an overtaken
  listing takes. With *two tables* they may also be independent, and one may be somebody else's. The
  proofs of section 5 have no bound.
* *Five files* with batches of three rows give a batch filled exactly, one overfilled, a last
  batch that is not full, failures alike with a success or another reason between them, and a
  repetition after a committed batch. The limit (2) is below the number of files on either side.
* *Three scans with one kept* give a prune that stops at a live job, one that meets an id
  already forgotten, and one that removes something.
* *Two open handles* is the least with which a comparison can hold both sides; with two names
  in two scopes there are always more keys than room. Nine handles are never used up: two
  cached, four pinned, two on the loop, one with the thread. The proofs leave their number open. The databases are the demo's, one with half of it, one with the same names
  and other contents, and none.
* *Two questions* can pass the ceiling at once, beside a task on the loop; with one turn or two,
  money or none to mind, each cap is the first to be reached in some behaviour, and the last
  turn after the byte budget comes on top of both.
* *Two presses* are what a second press in the middle of an install, or after a failed one, takes.
* *Six records* with a look at the length after every second append give two trims by each of two
  processes, and appends between the steps of a trim. *Two lives* of a table are what a version
  number needs to mean two things. *Nine ticks* are one window and a half, so that a window that
  is not the first is seen; forgetting addresses starts at the second. The
  shared rate is half the visitor's, as under the setting `kiosk.py:91` advises, which is where one
  caller can take more than its burst.
* *Three versions* of a table, which has two fragments when it is made, let it be written to, or
  cleaned, between a compaction or an index and its script: an unchecked compaction then keeps another
  number of rows than the version has that it was planned for, and an index that does not look
  outlives the version its plan says to go back to. They also let a restore take back what a script
  did. One plan on the shelf of two makes the limit bite.
* *Calls*: limits and caps are 2 or 3, so that inputs below, at and above each are asked; rows,
  files, fragments and cues are up to three or four, over batches and windows of two; a nested
  root is one level deeper than the walk goes; an HTTP request may fail at every attempt.
  Constants that are shares or counts in the code (98 %, ten times, half) are kept as they are.

### Fairness

* IngestJobs, ScanJobs: weak fairness of the request in flight (the event loop finishes a
  handler, which does not await) and of the worker's thread. None on users, none on exit.
* IngestRun: weak fairness of the run's own thread. Nobody has to cancel.
* Agent: weak fairness of each caller's `spend` and of each question's steps. A question waits
  for the loop whenever a task holds it, but a task is one call, a provider's client has a
  timeout (`intel/providers.py:39-40`) and the tasks of a behaviour are finitely many, so that
  the loop is free again for good and weak fairness is enough.
* DesktopShell: weak fairness of the server's own steps (printing, binding, watching, seeing that
  its parent is gone), of the boot thread (each of its waits has a deadline), of the exit hook, and
  of each accepted press. None on users, timeouts racing an answer, or crashes.
* Catalog, Stores, Answers: none; they have no liveness property.

### Properties and their mutants

Most properties are conjunctions of named parts, one sentence each in the comment above; TLC
reports the conjunction, the module tells which part is which. Every property has a mutant in the
module: a definition next to the one it changes, with a comment that says which mistake it is
(`BusyUnlessCancelling`, `RunFlushAdopting`, `CacheEvictingNewest`, `BuildCompactUnchecked`,
`NeighboursAndItself` ...). Under it the run reports exactly that property. The list is `mutants` in
`PROJECT.json`.

The liveness of IngestJobs speaks of jobs nobody cancels: one that is cancelled may stay
"cancelling" for ever. That of ScanJobs speaks of scans that got their handle: one that did not
stays queued for ever. That of DesktopShell speaks of servers that can tell: one that starts to watch
when its shell is gone already watches a stranger. Section 6 has all three.

## 5. The proofs

Checked by TLAPS, for every value of the constants that satisfies each module's assumption; these
say only that bounds are numbers of the right kind, that markers such as `NoJob` are not what they
mark, that questions and tasks are finitely many, and in Catalog that a root holds what its corpus
is made of and that `max_open` is at least the two a comparison needs (`catalog.py` has a fixed
`MAX_OPEN`, and no caller passes less), in Media that a window of speech has an even length and that
captions are remembered for at least the three words of the longest cue among the calls (`subtitles.py`
remembers 40). Every bound of section 4 is gone here: any number of jobs,
files, handles, presses, writers, readers, addresses, versions. A call of Answers is still one of
those its module lists; what the operators return is proved, in the lemmas, of arguments of any length.

| module | theorems | of |
|---|---|---|
| IngestJobsProofs | `TypeCorrect`, `OneWriter`, `Scheduled`, `Journalled`, `OnlyItsMaker`, `OneAtATime` | registry, worker, journals, tables, queue |
| IngestRunProofs | `TypeCorrect`, `RowsJoin`, `Accounted`, `WholeBatchesOnly` | one run, and its log |
| ScanJobsProofs | `TypeCorrect`, `Sound`, `OneAtATime` | scans, and their queue |
| CatalogProofs | `Sound`, `ColdOnly`, `OwnCounter`, `KeepsPlaying` | handles, threads, demo |
| StoresProofs | `AgentTypeCorrect`, `Ceiling`, `Answered`, `Capped`, `Complete`, `Accounts` | questions, tasks, meter |
| | `NoServerLeft`, `AlwaysAWindow`, `OneInstall` | shell, server, updater |
| | `Sound`, `OnlyStaleSaves`, `TailKept`, `AboutTheirVersion`, `Allowances`, `Promises`, `CanBeUndone` | settings, ledger, cache, kiosk, plans |
| AnswersProofs | `ScansHonest`, `NeighboursAreExact`, `LanguageHonest`, `HistoryFacts`, `QueriesHonest` | data checks, language layer, queries |
| PanelsProofs | `PanelsHonest`, `EdgesHonest`, `DedupeFacts`, `AudioFacts` | panels and bundle, sources, media, commands |

Each is proved from an inductive invariant (`IInv` in most modules): the initial states have it,
every action keeps it, it implies the property. An action has a lemma of its own, or shares one
with actions that disturb the same conjuncts.
Why the property alone is not inductive, and what makes it so:

**IngestJobs.** `OneWriterPerTable`: a cancel that has read a live state will write "cancelling"
later, when the job may have ended and its table be taken again. The strengthening counts the job of
a cancel in flight as live (`AsGoodAsLive`), and the handler's place shows why this is sound: while
the event loop is inside cancel, it is not inside submit. It also needs that a job is in at most one
of the submitting handler, the pool and the worker (`OnePlace`), who may hold which job (`Shape`),
that whatever they hold has been submitted and has a table (`Submitted`), and what a waiting job may
be called (`Called`). `AliveMeansScheduled` rests on the same conjuncts. `JournalsTellTheTruth` needs
in addition that a job at work is called running or cancelling (`Running`), that no job which is not
over has an outcome on disk (`NoEarlyOutcome`), and that a forget takes the job out of the registry
before it unlinks (`Forgotten`). A job past its start has its journal unless its last write failed,
which `unsaved` remembers until one succeeds: a failed write of somebody else's file does not touch
the worker's. `OnlyItsMakerGrowsATable`, that what the run at work has created is
its own or has been discarded (`Owned`).

**IngestRun.** That files are accounted for at the end is a statement about every moment before it:
the files the run is past are committed, waiting or failed, and only one of these (`OnceEach`), in
order (`InOrder`); the last failures, as many as the counter says, are of files in a row and for one
reason (`Streak`); what each place of the code says of the rest (`Place`). `Stored` carries the
original of a file from the copy to the commit, which is what makes `RowsJoinTheirOriginals` hold
between the two.

**ScanJobs.** The two halves of a cancel are treated as in IngestJobs (`OneScan`). A verdict is
judged before it is written, so `Earned` says at each place of the worker which verdict it may still
give; `Tracked` that what is live and has work can be found, which pruning keeps because what it
drops is finished (`PrunedFacts`, about the loop over `_ORDER` and its odd end).

**Catalog.** A handle that is read may be evicted only when it is the coldest of a full cache, and
the property says so of the past: that many other tables have been used since. What is inductive is
about the order (`Warm`): everything hotter than a thread's handle was used since the thread began,
so that when its handle has become the coldest, `max_open` others were. `Cached` divides the open
handles between the two caches, `Armed` gives the pinned ones and their counters to the demo, `Held`
says what the request on the loop has in its hands.

**Agent.** For a question the invariant says what its turns, money, bytes and transcript may be at
each place of the loop (`Turns`, `Money`, `Bytes`, `Transcript`, `Finished`): the turn that is about
to be taken was below the cap when it was looked at, and only the turn after the byte budget is
taken without looking. `SpentWithinCeiling` is not inductive: a call that passed the check bills
later. `Ahead` charges every call in flight (`Asked`) at its full price beforehand: meter + Price *
|Asked| stays below ceiling + Price * (questions + 1). A check adds one to `Asked` only while the
meter is below the ceiling, and `OneTask` (tasks run on the loop, one at a time) bounds `Asked` by
the questions and one; a bill moves at most a price from the one summand to the other; a reset only
lowers the meter. `BillsAddUp` needs that a bill stays with its call until the turn is counted
(`BillsIInv`) and that a sum over a finite set changes by what one of its values changes
(`SumChange`). The community modules define the sum by recursion over subsets; `Parts` replaces the
induction, by taking a least counterexample.

**DesktopShell.** `Reachable` follows the child: from the moment it is stored a live one is held, so
that the exit hook can kill it, and the hook has run before the process is gone. `Windows` says that
the splash is there until the boot is over; `Exclusive` that `busy` is one press's from the moment it
was accepted.

**Settings.** Every save is made from what the process has loaded, so the invariant has to say what
that is (`SettingsIInv`): the change of what the file holds now, or else it is marked stale, and then
the process does not follow the file either. Ids end in their uri (`Made`), which is why an old item
of the menu opens what it names; and a file may hold a broken entry, but never a database twice.

**Ledger.** Without other processes a trim works on the lines that are in the file (`AtWork`, `Alone`).
With them lines may be lost, but none is ever there twice: a line about to be written is nowhere yet
(`FreshLines`), and between the truncation and the filling of the second file whatever others appended
to it lies behind what the trim will write over it (`NoLineTwice`).

**Cache.** An entry is of a version with the number it is kept by, whoever puts and sweeps. **Kiosk.**
What was served in the last n ticks and what is left in the shared bucket come from one purse that
regains `GlobalRate` at each tick, for every n up to the window: the bound of the window alone is not
kept by a tick. While one address is all that has asked, what it has taken of the shared bucket is
what its own lacks, and what it regained over the shared one (`GainFacts`). **Plans.** What a plan
that is ready says is so of versions, which do not change (`SaysTheTruth`); it is therefore still so whenever its script runs, and a script that asserts the
version it was planned for runs to its end only on that one. `UndoIsThere` needs that the newest
version of a table is never among the cleaned (`CleanStep`): the version a script found to be the
latest is stored at that moment, and still after what it wrote.

**Calls.** A behaviour of Answers is one call and its answer, so the invariant says that an answer is
what the operator gives for a call that can be asked (`CheckIInv`, `LanguageIInv`, `QueryIInv`,
`PanelIInv`, `EdgeIInv`); the work is in what the operators give. Of the *data checks*: the columns a check takes of a table are columns of the right
kinds, in order (`QuoteFacts`); rows, duplicates and classes are counted by groups that are disjoint
(`SumOfSums`, `SumRenamed`); every row is at one place of one batch (`Blocks`, `BatchFacts`), so that
what batches count adds up to what the table holds (`CountedOnce`); keeping the nearest k of what was
kept and of the next batch loses nobody who is among the nearest k of all (`TopTop`, and
`NeighboursAreExact` over any number of batches). Of the *language layer*: a transcript is a prompt
and then turns, each with its results right behind it (`Shaped`, kept by every turn); the fold that
words it for Anthropic has, after any number of messages, what was said with nobody speaking twice and
the results of the last turn waiting in order (`Wired`), whereupon flushing them keeps both. A history
is split by what its lines say, into parts that are disjoint (`FoldParts`), and the lines it shows, the
newest first, are its lines in another order (`Backwards`, `FoldMoved`). Of the *queries*: a page of a
ranking is a ranking, and whoever leads in it led before (`PageRanking`, `MatchRanking`, `ScanRanking`);
sorting by a relation that is never both ways and whose negation is handed on puts every row at one
place (`StableOrder`), fused scores, which are fractions, are such a relation (`NoLessTwice`), and
less in both legs is a greater sum of fractions (`ScoreHigher`), so that fusion keeps what both legs
agree on (`FuseFacts`). What a page leaves is counted by where it ends (`ScanRows`, `NextPage`), and
pages of one size hold each matching row once (`PagesTogether`). The weight of a scan is a sum over its
columns of a sum over its files, and is bounded by exchanging the two (`SharesWithin`, `FloorWithin`).
Of the *panels*: the differences a history shows telescope to the rows of its last version
(`Telescope`); the bytes of a layout are a sum over fragments of a sum over files, exchanged and
compared with what is on disk (`LayoutFacts`); pages flattened are a prefix that grows with every
page until it is the whole (`Grows`, `PagesFlatten`); a range reads inside the value (`SpanPlays`); a
rule says one thing or nothing, so that findings are counted by their rule, by severity and by panel
with one result (`HeardFacts`, `SweepCounts`, `PanelSums`); and a bundle costs what the sections that
were read cost (`PanelBundles`). Of the *edges*: a registry lists every plugin once,
served or with a reason that is true of it (`EdgeRegistry`); requests, each within its limits, hold
every item once and in order, so that the vectors put together again are those of the items
(`EdgeVectors`); segments lie end to end, the runt folded into the last, and a row's moment lies in
the one it plays from (`Tiles`, `EdgePictures`). The loops over lines and cues are functions over
0..n, and what is kept is an invariant of their steps (`Inductively`): what the parser has read of a
file after n lines says each line under its last time, or is about to (`Parsed`); what `dedupe` has
kept after n cues ends with the last of them, and what it remembers is the end of that (`Recalls`), so
that of a cue that runs on it drops exactly the words that were there (`OverlapExact`). Windows cover
a track and do not overlap (`WindowsCover`), and a window in which something was said has text because
a flattening of longer parts is longer
(`FlattenShorter`, `AudioFacts`).

**Refinements.** `OneAtATime` (twice) and `WholeBatchesOnly` show that every step of IngestJobs,
ScanJobs and IngestRun is a step of SerialQueue or BatchLog, or a stutter, and that the initial
states map to initial states: the safety part of what the runs check.

**SequenceFacts** has what the proofs share: the entries of an appended, rotated, shortened and
concatenated sequence, sequences without repetition and their length; the rank of a number in a finite
set (`Ranks`) and of an element in a total order (`StableOrder`); sums over finite sets, split into
parts, renamed, exchanged, scaled and shared out; and the two ways around induction:
`Least`, by which a property of numbers is proved from a least counterexample (`Inductively` is its
form for a property that every step of a loop keeps), and `Unrolled`, by which a function defined by
recursion on 0..n exists and satisfies its equation. `SumNext` and `Telescope` are sums along a
sequence.

Model-checked only: liveness and with it the fairness part of the refinements (`ENABLED` and weak
fairness are beyond the provers), and the three runs that end in a counterexample. The theorems about
Answers are about the calls its modules list; that a call outside them is answered as well is proved
where a lemma does not need the list (`NeighboursAreExact`, `HistoryFacts`, `DedupeFacts`,
`AudioFacts`).

## 6. Where the code and its own words disagree

Three have a run that TLC ends with a counterexample, and an entry under `findings`:

| run | what happens |
|---|---|
| IngestJobs_discard | a job stays discardable after its table is gone: discarding it again deletes the table a newer job has made at the same path (`ingest/core/jobs.py:292`) |
| Settings_panels | after one tool call of the agent the panels follow a catalog of their own, which a switch of databases does not reach (`server/headless.py:57`) |
| Operations_stale | a plan made before somebody else wrote to the table is compared with the version of the console's own handle and never says that it is stale (`server/routes/ops.py:199`) |

The rest was met while modelling and has no run of its own. Where a module states the words as a
property, it is under "what the code says of itself and does not do" there, and no run lists it.

**Jobs, runs, scans**

* cancel reads "running", the run ends, cancel writes "cancelling": the job never leaves it, its
  table stays refused, it cannot be discarded (`ingest/core/jobs.py:264`);
* a listing writes "interrupted" over the outcome the worker has just written (`jobs.py:151`);
* a scan whose handle cannot be opened stays queued: its table is refused for ever
  (`scanjobs.py:163`);
* a run that fails after its first batch leaves a table that its maker may not discard, since
  only a result says who created it (`jobs.py:215`, `jobs.py:289`); a run that fails before
  `After` leaves its scratch directory;
* a journal that cannot be written is no error (`jobs.py:116-119`): a running job may have no record
  for "explaining leftovers after a restart", a torn one, or one of an earlier state;
* forgetting a job that runs does not stop it: the worker journals it again, and its table is no
  longer refused to others (`jobs.py:274-279`);
* an interrupted journal whose run had no result yet counts no rows although batches are
  committed;
* a run stopped by repetition leaves its loop by `break`, past the flush: rows of files counted
  as done are dropped (`run.py:372-387`). A cancelled one drops them too and names the file
  before the one it stopped at (`run.py:391`);
* a name that is taken is found out only after files were decoded, when the first batch is written;
* ids forgotten stay in `_ORDER`, where they use up KEEP, and a prune that meets a live job moves
  it to the tail, so that the listing is no longer newest first (`scanjobs.py:150-156`);
* a cancelled scan can end between cancel's look and its write, and stays "cancelling".

**Handles, demo, agent, desktop**

* a thread whose handle was evicted or rebound fails on `None` in its drain (`catalog.py:105`);
* `demo.load` assigns `STATE` before it has read the columns, so that tables with the demo's
  names and other columns arm it for good (`routes/demo.py:166`);
* a model that ends without a word after an earlier remark is reported as having answered with
  that remark (`agent.py:291`, `agent.py:361`);
* a database with half of the demo leaves its table pinned; the next database serves the other
  half (`routes/demo.py:163`);
* a query on its thread and a panel of the same table drain one counter: each reports what the
  other left (`catalog.py:105`);
* a server that starts watching after its shell has crashed takes the new parent for its own and
  stays (`standalone.py:113`).

**Settings, ledger, cache, kiosk, plans**

* "the stored key is scoped to the provider it was stored for": it follows the selected one
  (`settings.py:344`, `settings.py:333`); pinning a removed id falls back without a word
  (`launch.py:176`); GET /settings reports the file's root, not the one in use;
* another process's trim can drop lines or bring cleared history back (`ledger.py:102`);
* the ledger's count of appends starts over with each process, so that short-lived ones never
  trim it (`ledger.py:92-97`);
* answers, estimates and disk figures are kept by the number of a version: a table deleted and made
  again serves old ones (`intel/cache.py:46`, `estimate.py`, `catalog.py:390`);
* "six queries a minute is thirty per window" leaves out the burst (`kiosk.py`); Retry-After rounds
  down; "a single caller cannot drain the shared allowance" (`kiosk.py:174`) is so while a visitor
  regains no more than is shared, and not under the `GLOBAL_QPM=3` beside six that `kiosk.py:91`
  advises: how slowly it then drains is what `AllowancesHold` bounds;
* a cleanup is "the only operation here that cannot be undone" (`cleanup.py:161`), and a format
  migration is irreversible as well (`migrate.py:103`); its verification, "the newest version stays"
  the one it was quoted for (`cleanup.py:157`), fails when the table was written to since; once it has
  run, a plan that names a version that went cannot be run or taken back, as `cleanup.py:12` says, and
  no script but the assertion of the latest version notices;
* plans about one name in two databases share an id (`ops/plan.py:97`), and the shelf is not
  emptied by a switch; the compaction of a single fragment with deleted rows is proposed and never
  ready; `sizing.sub_vectors_for` says other divisors than it tries.

**Queries, estimates, comparisons**

* explaining a hybrid search plans a scan, validates neither leg and says that an index was not
  used; `reproduction` of a hybrid is a filtered scan; its text leg keeps an offset the vector leg
  does not have;
* capabilities keep the last kind of index of a column; the weight of an explained query is that of
  the columns asked for, not of the projection;
* the "floor" of an estimate is below the weight where files are uneven, and a column that only
  files outside the sample have is a KeyError;
* `reproduction` says `spec.metric`, which is `None` when nobody named one, while the search ran with
  the index's (`query.py:423-424` against `:398` and `:578`; its docstring promises what was run), and
  it opens the version that is latest when it is run;
* a search that walked past an index that fits is warned of as unexplained (`query.py:736`): why is
  Lance's affair;
* `unchanged` of a comparison does not look at indices that changed.

**Panels, run configs, bundles**

* `bytes=-5` is read as 0 to 5; a range that ends before its start is read to the end or fails; the
  content type is sniffed from the bytes sent, and `mime` heard only for a cell looked up by key
  (`routes/catalog.py:1253`, `routes/demo.py:374`);
* a Blob V1 column is left out with the advice to expand it, which is refused (`:664`); the
  operation of a version assumes it read the one before (`:303`); fragments of a remote root report
  zero bytes where the docstring says never (`:1334`); an exception without a message is an
  IndexError in the listing;
* a run config of named columns falls back to the whole table's weight when footers fail
  (`runconfig.py:170`) and has no footer time, which its route says it has (`:831`);
* a bundle keeps the root in the message of an exception that is no HTTP one (`bundle.py:27`), counts
  no time off the meter (`:241`) and refuses an unknown format after having read everything.

**Checks and findings**

* a sweep of recall stopped inside a setting loses its bytes; exact-duplicates counts the values of
  the first column; split-leakage counts a null split as one split and compares without it; a null
  vector fails vector-health; near-duplicates takes the first hit for the row itself;
* version-churn speaks of "one version per 0 rows" where there are more versions than rows.

**Language layer**

* calls that failed after a body came are not metered (`meter.py:5`); what may be tried again differs
  by provider; call ids of two providers default to the tool's name; the model listing is cached
  without the key it was listed with;
* four tools report a refused argument as a table that is not there (`headless.missing`, against
  the comment at `toolset.py:311`); an exported empty variable is used by one half of
  `credentials.py` and not by the other; `since` of the spend history is one day further back than
  the days asked for (`routes/intel.py:508`).

**Sources**

* tables of a `db://` root that cannot be opened vanish from its listing, which "is real"
  (`namespace.py:75`); a local folder that cannot be read lists as empty (`catalog.py:180`); a bare
  repository without data is an error instead of empty (`hf.py:169`), and long trees are cut;
* an adapter whose attribute raises makes the registry raise at every call (`registry.py:293`);
  a full `hf://` or `s3://` table is opened at another place than "as-is" (`catalog.py:254`).

**Embedders, media, survey**

* the embedder that answers for a table is matched by the model's name alone (`config.py:205`), and a
  local one is offered without what it needs (`routes/ingest.py:234`); a Retry-After that is a date
  is a ValueError (`embedders/base.py:69`);
* a moment before the first segment plays from the last (`video.py:130`); rows titled by a
  container's tags are labelled as the filename's (`audio.py:13`); a caption line of digits is
  dropped; a cue on a window's boundary is in two rows;
* a folder that exists and cannot be listed is readable with "Nothing here" (`plan.py:16`), an exact
  count at the limit is called a floor, and a HEIC counts as ingestable without its plugin
  (`plan.py:90`).

**Command line**

* "a check that could not run is 3": one that was named and is refused before the job starts may
  leave 0, and so may one that raises, which fails the job, leaves no result and is not among what is
  gated (`cli.py:429-432`, `cli.py:492`, `cli.py:523`);
* a table that is there and does not open ends `findings` and `check` (with `--quote` too) with a
  traceback and Python's own 1, which is `EXIT_FAILED`, "this table has a warning": `open_table`
  turns only a FileNotFoundError into a refusal (`routes/catalog.py:118-129`; `cli.py:339`,
  `cli.py:457`, `cli.py:499`, against `cli.py:37-40`). When only the worker's own open fails, `check`
  hangs, and Ctrl-C then waits too (`cli.py:500-509`);
* `--columns` is not heard with more than one check;
* `ingest --into s3://...` does not meet the refusal of remote destinations: the address is made a
  Path, whose `s3:/...` is no address, and a folder of that name is filled here (`cli.py:170`,
  `capability.py:84`); `--dry-run` of a folder that cannot be read exits 0.

## 7. What is not modelled

* *Data*: what rows, documents, embeddings and plans contain, beyond the few values a property
  tells apart; a model knows counts and owners.
* *Time*: timeouts are choices that may be made at any moment; the query's is the client that
  stops waiting while its thread goes on. Only Kiosk has a clock.
* *Disks*: a write that fails is a step of IngestJobs (`Faults` of them in a behaviour), IngestRun and
  Settings. That a refused journal delays a job's end is not checked: the liveness run has none
  (`Faults = 0`), and the code does not look at the outcome.
* *Other processes over the journal directory*: IngestJobs has one server; a restart is an exit.
* *Compositions of state machines*: a run is outcomes and batches inside IngestJobs, and a whole
  process inside IngestRun; handles stand at a version inside Operations, and have none inside
  Catalog. Section 2 has what is still to be composed.
* *The ceiling as a setting that changes*: it is one of several values, fixed for a behaviour.
* *What Lance does inside a call*: an append is atomic, a table exists or not, and a version once
  opened stays readable while a thread holds it. Rankings of an index are part of a call.
* *Layout*: the text of the Markdown, the YAML and the terminal; which parts they have is modelled.
* *Web console, corpus scripts, packaging*: views without state that another part could see, scripts
  run once by hand, and builds. `PROJECT.json` gives the reason for each, and for every component
  that is modelled in part what is missing from it.
