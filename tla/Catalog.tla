---- MODULE Catalog ----
(***************************************************************************)
(* The open datasets of the console: server/catalog.py, the requests of    *)
(* server/routes/*.py that read through it, the switch of databases of     *)
(* server/routes/settings.py, and the demo of server/routes/demo.py that   *)
(* main.py arms at startup and settings.py arms later.                     *)
(*                                                                         *)
(* Requests run on one event loop and finish what they do before the next  *)
(* one starts, except that four of them hand their handle to a worker      *)
(* thread (query, completions, validate and the scan quote), which goes on *)
(* beside the loop and beside a client that has stopped waiting.           *)
(*                                                                         *)
(* A counter is the set of those whose reads it has counted since it was   *)
(* drained.  A version of a table is a name of its own.                    *)
(***************************************************************************)
EXTENDS Naturals, Sequences, FiniteSets

CONSTANTS Root, NoRoot,     \* databases; NoRoot when nothing is configured
          Holds,            \* the tables each of them has
          Corpus,           \* those whose moments and segments are the demo's
          Homes,            \* what cfg.demo_root() may be, NoRoot included
          Name,             \* tables
          Reader,           \* bound: worker threads at once
          MaxOpen,          \* max_open
          Handles           \* bound: handles that can exist at once

DemoTables == {"moments", "segments"}

ASSUME ConstantsAssumption ==
    /\ NoRoot \in Root /\ Homes \subseteq Root
    /\ Holds \in [Root -> SUBSET Name] /\ Holds[NoRoot] = {}
    /\ Corpus \subseteq {r \in Root : DemoTables \subseteq Holds[r]}
    /\ DemoTables \subseteq Name
    /\ {"loop", "demo"} \cap Reader = {}
    /\ MaxOpen \in Nat /\ MaxOpen >= 2
    /\ Handles \in Nat

Handle == 1 .. Handles
NoHandle == 0

\* The keys of _open and _pinned, in CATALOG ("main") and in DEMO_CATALOG ("home").
ConsoleKey(n) == [cat |-> "main", scope |-> "console", name |-> n]
CompareKey(n) == [cat |-> "main", scope |-> "compare", name |-> n]
DemoKey(c, n) == [cat |-> c, scope |-> "demo", name |-> n]
Key == [cat : {"main", "home"}, scope : {"console", "compare", "demo"}, name : Name]

VARIABLES
    phase,      \* the server's lifespan: "boot", "up" or "down"
    root,       \* the root of CATALOG
    home,       \* the root of DEMO_CATALOG
    lru,        \* the handles in _open, the coldest first
    pinned,     \* the handles in _pinned, of both catalogs
    about,      \* of the handles whose ds is not None: the key and the root they were
                \* opened with ...
    counter,    \* ... and whose reads they have counted since they were drained
    loop,       \* the request on the event loop and the handles it holds
    reader,     \* the worker threads
    demo        \* STATE.moments and STATE.segments

handles == <<lru, pinned, about>>
vars == <<phase, root, home, lru, pinned, about, counter, loop, reader, demo>>

Members(s) == {s[n] : n \in DOMAIN s}
opened == DOMAIN about
Free == [op |-> "free", cat |-> "main", held |-> <<>>]
Idle == [pc |-> "idle", handle |-> NoHandle, key |-> {}, since |-> {}, moved |-> FALSE]

TypeOK ==
    /\ phase \in {"boot", "up", "down"}
    /\ root \in Root /\ home \in Homes
    /\ lru \in Seq(Handle) /\ Len(lru) = Cardinality(Members(lru))
    /\ pinned \subseteq Handle /\ opened \subseteq Handle
    /\ about \in [opened -> [key : Key, root : Root]]
    /\ counter \in [opened -> SUBSET (Reader \cup {"loop", "demo"})]
    /\ loop \in [op : {"free", "browse", "pair", "demo", "load", "columns"},
                 cat : {"main", "home"}, held : Seq(Handle)]
    /\ reader \in [Reader -> [pc : {"idle", "zero", "read", "collect"},
                              handle : Handle \cup {NoHandle}, key : SUBSET Key,
                              since : SUBSET Key, moved : BOOLEAN]]
    /\ demo \in Seq(Handle)

Init ==
    /\ phase = "boot"
    /\ root \in Root /\ home \in Homes
    /\ lru = <<>> /\ pinned = {}
    /\ about = <<>> /\ counter = <<>>
    /\ loop = [Free EXCEPT !.op = "load"]
    /\ reader = [r \in Reader |-> Idle]
    /\ demo = <<>>

--------------------------------------------------------------------------
(* Catalog.open, rebind and close_all. *)

RootOf(c) == IF c = "main" THEN root ELSE home
Known(k) == {h \in pinned \cup Members(lru) : about[h].key = k}

\* Raises FileNotFoundError, and changes nothing.
Misses(k) == Known(k) = {} /\ k.name \notin Holds[RootOf(k.cat)]

InUse == opened \cup Members(loop.held) \cup {reader[r].handle : r \in Reader}
Fresh == {h \in Handle \ InUse : \A g \in Handle \ InUse : h <= g}

With(k, h) == [g \in opened \cup {h} |->
    IF g = h THEN [key |-> k, root |-> RootOf(k.cat)] ELSE about[g]]
Without(f, hs) == [g \in DOMAIN f \ hs |-> f[g]]

\* Mutant: popitem takes the last.
CacheEvictingNewest(k, h) ==
    LET full == Len(lru) = MaxOpen
    IN  /\ lru' = IF full THEN lru ELSE Append(lru, h)
        /\ about' = Without(With(k, h), IF full THEN {h} ELSE {})

\* The end of open: the coldest is closed when there are more than max_open.
Cache(k, h) ==
    LET s == Append(lru, h)
        full == Len(s) > MaxOpen
    IN  /\ lru' = IF full THEN Tail(s) ELSE s
        /\ about' = Without(With(k, h), IF full THEN {Head(s)} ELSE {})

Pin(k, h) ==
    /\ pinned' = pinned \cup {h}
    /\ about' = With(k, h)
    /\ UNCHANGED lru

New(k, pin, h) ==
    /\ Known(k) = {}
    /\ k.name \in Holds[RootOf(k.cat)]
    /\ h \in Fresh
    /\ IF pin THEN Pin(k, h) ELSE Cache(k, h) /\ UNCHANGED pinned

MovedToEnd(s, n) ==
    [m \in DOMAIN s |-> IF m < n THEN s[m] ELSE IF m < Len(s) THEN s[m + 1] ELSE s[n]]

\* A hit: pinned handles first, and move_to_end for the others, asked to be pinned or not.
Hit(k, h) ==
    /\ h \in Known(k)
    /\ IF h \in pinned
       THEN UNCHANGED lru
       ELSE /\ Known(k) \cap pinned = {}
            /\ \E n \in DOMAIN lru : lru[n] = h /\ lru' = MovedToEnd(lru, n)
    /\ UNCHANGED <<pinned, about>>

Open(k, pin, h) == Hit(k, h) \/ New(k, pin, h)

\* The handles hs are drained, and then counted the reads of who; a dataset that was
\* just opened has counted nothing.
Count(hs, who) ==
    counter' = [g \in DOMAIN about' |->
        IF g \in hs THEN who ELSE IF g \in opened THEN counter[g] ELSE {}]

\* Mutant: the old root's handles are closed and kept.
RebindKeeping(r) ==
    /\ root' = r
    /\ UNCHANGED <<about, lru, pinned>>

\* Mutant: the pinned handles are closed with the others.
RebindEverything(r) ==
    /\ root' = r
    /\ about' = <<>>
    /\ lru' = <<>>
    /\ pinned' = {}

Rebind(r) ==
    /\ root' = r
    /\ about' = Without(about, Members(lru))
    /\ lru' = <<>>
    /\ UNCHANGED pinned

CloseAll ==
    /\ about' = Without(about, Members(lru) \cup pinned)
    /\ lru' = <<>>
    /\ pinned' = {}

\* For the threads at work an open is one more key that was used.
Noted(k) ==
    [r \in Reader |-> IF reader[r].pc = "idle" THEN reader[r]
                                               ELSE [reader[r] EXCEPT !.since = @ \cup {k}]]

--------------------------------------------------------------------------
(* Requests on the event loop.  A read there is a drain, the reads and a drain. *)

Serving == phase = "up" /\ loop = Free

BeginRead(op, hs) ==
    /\ loop' = [op |-> op, cat |-> "main", held |-> hs]
    /\ Count(Members(hs), {IF op = "demo" THEN "demo" ELSE "loop"})

\* Mutant: the scope is not part of the key.
BrowseDemo(n) ==
    /\ Serving
    /\ \E h \in Handle : Open(DemoKey("main", n), FALSE, h) /\ BeginRead("browse", <<h>>)
    /\ reader' = Noted(DemoKey("main", n))
    /\ UNCHANGED <<phase, root, home, demo>>

\* The panels: every route of the console, of ops and of the estimates that reads inline.
Browse(n) ==
    /\ Serving
    /\ \E h \in Handle : Open(ConsoleKey(n), FALSE, h) /\ BeginRead("browse", <<h>>)
    /\ reader' = Noted(ConsoleKey(n))
    /\ UNCHANGED <<phase, root, home, demo>>

\* open_pair: two versions, one after the other, and then a read of both.
CompareLeft(n) ==
    /\ Serving
    /\ \E h \in Handle : /\ Open(CompareKey(n), FALSE, h)
                         /\ loop' = [op |-> "pair", cat |-> "main", held |-> <<h>>]
                         /\ Count({}, {})
    /\ reader' = Noted(CompareKey(n))
    /\ UNCHANGED <<phase, root, home, demo>>

CompareRight(n) ==
    /\ loop.op = "pair"
    /\ \/ /\ \E h \in Handle : /\ Open(CompareKey(n), FALSE, h)
                               /\ BeginRead("browse", Append(loop.held, h))
          /\ reader' = Noted(CompareKey(n))
       \/ /\ Misses(CompareKey(n))
          /\ loop' = Free
          /\ UNCHANGED <<handles, counter, reader>>
    /\ UNCHANGED <<phase, root, home, demo>>

\* Search, video and sample; the demo's lock adds nothing, for none of them awaits.
DemoRead ==
    /\ Serving
    /\ demo # <<>>
    /\ UNCHANGED handles
    /\ BeginRead("demo", demo)
    /\ UNCHANGED <<phase, root, home, reader, demo>>

\* The last drain of a request, and its answer.
EndRead ==
    /\ loop.op \in {"browse", "demo"}
    /\ UNCHANGED handles
    /\ Count(Members(loop.held), {})
    /\ loop' = Free
    /\ UNCHANGED <<phase, root, home, reader, demo>>

\* _apply_root, and then _arm_demo_if_present.
ApplyRoot(r) ==
    /\ Serving
    /\ Rebind(r)
    /\ loop' = IF demo = <<>> THEN [Free EXCEPT !.op = "load"] ELSE Free
    /\ reader' = [x \in Reader |-> [reader[x] EXCEPT !.moved = @ \/ reader[x].pc # "idle"]]
    /\ Count({}, {})
    /\ UNCHANGED <<phase, home, demo>>

Shutdown ==
    /\ Serving
    /\ CloseAll
    /\ phase' = "down"
    /\ Count({}, {})
    /\ UNCHANGED <<root, home, loop, reader, demo>>

--------------------------------------------------------------------------
(* demo.load, at startup and after a switch of databases. *)

LoadMoments ==
    /\ loop.op = "load" /\ loop.held = <<>>
    /\ \E h \in Handle : /\ Open(DemoKey(loop.cat, "moments"), TRUE, h)
                         /\ loop' = [loop EXCEPT !.held = <<h>>]
                         /\ Count({}, {})
    /\ UNCHANGED <<phase, root, home, reader, demo>>

\* STATE is assigned before the columns are read.
LoadSegments ==
    /\ loop.op = "load" /\ loop.held # <<>>
    /\ \E h \in Handle : /\ Open(DemoKey(loop.cat, "segments"), TRUE, h)
                         /\ loop' = [loop EXCEPT !.op = "columns", !.held = Append(@, h)]
                         /\ demo' = loop'.held
                         /\ Count({}, {})
    /\ UNCHANGED <<phase, root, home, reader>>

\* A table is missing: load returns False, and load_demo tries the demo's own root once.
LoadFails ==
    /\ loop.op = "load"
    /\ Misses(DemoKey(loop.cat, IF loop.held = <<>> THEN "moments" ELSE "segments"))
    /\ IF phase = "boot" /\ loop.cat = "main" /\ home \notin {NoRoot, root}
       THEN /\ loop' = [op |-> "load", cat |-> "home", held |-> <<>>]
            /\ UNCHANGED <<phase, pinned, about>>
       ELSE /\ loop' = Free
            /\ phase' = "up"
            /\ LET own == {h \in pinned : about[h].key.cat = "home"}
               IN  /\ about' = Without(about, own)
                   /\ pinned' = pinned \ own
    /\ Count({}, {})
    /\ UNCHANGED <<root, home, lru, reader, demo>>

\* The columns are there, or reading them raises: that ends a server that is starting,
\* and is swallowed by settings.
LoadColumns ==
    /\ loop.op = "columns"
    /\ phase' = IF \A h \in Members(demo) : about[h].root \in Corpus THEN "up"
                ELSE IF phase = "boot" THEN "down" ELSE phase
    /\ counter' = [h \in opened |-> IF h \in Members(demo) THEN counter[h] \cup {"demo"}
                                                           ELSE counter[h]]
    /\ loop' = Free
    /\ UNCHANGED <<root, home, handles, reader, demo>>

--------------------------------------------------------------------------
(* The requests that read on a worker thread. *)

ThreadBegin(r, n) ==
    /\ Serving
    /\ reader[r].pc = "idle"
    /\ \E h \in Handle :
          /\ Open(ConsoleKey(n), FALSE, h)
          /\ reader' = [Noted(ConsoleKey(n)) EXCEPT ![r] =
                           [Idle EXCEPT !.pc = "zero", !.handle = h, !.key = {ConsoleKey(n)}]]
          /\ Count({}, {})
    /\ UNCHANGED <<phase, root, home, loop, demo>>

ThreadZero(r) ==
    /\ reader[r].pc = "zero"
    /\ reader[r].handle \in opened
    /\ counter' = [counter EXCEPT ![reader[r].handle] = {}]
    /\ reader' = [reader EXCEPT ![r].pc = "read"]
    /\ UNCHANGED <<phase, root, home, handles, loop, demo>>

\* The dataset itself lives as long as the thread holds it.
ThreadRead(r) ==
    /\ reader[r].pc = "read"
    /\ counter' = [h \in opened |-> IF h = reader[r].handle THEN counter[h] \cup {r}
                                                            ELSE counter[h]]
    /\ reader' = [reader EXCEPT ![r].pc = "collect"]
    /\ UNCHANGED <<phase, root, home, handles, loop, demo>>

ThreadCollect(r) ==
    /\ reader[r].pc = "collect"
    /\ reader[r].handle \in opened
    /\ counter' = [counter EXCEPT ![reader[r].handle] = {}]
    /\ reader' = [reader EXCEPT ![r] = Idle]
    /\ UNCHANGED <<phase, root, home, handles, loop, demo>>

\* ds is None: the drain raises.
ThreadRaises(r) ==
    /\ reader[r].pc \in {"zero", "collect"}
    /\ reader[r].handle \notin opened
    /\ reader' = [reader EXCEPT ![r] = Idle]
    /\ UNCHANGED <<phase, root, home, handles, counter, loop, demo>>

Thread(r) ==
    \/ ThreadZero(r) \/ ThreadRead(r) \/ ThreadCollect(r) \/ ThreadRaises(r)

LoopStep ==
    \/ EndRead \/ LoadMoments \/ LoadSegments \/ LoadFails \/ LoadColumns
    \/ \E n \in Name : CompareRight(n)

Request ==
    \/ DemoRead \/ Shutdown
    \/ \E n \in Name : Browse(n) \/ CompareLeft(n)
    \/ \E r \in Root : ApplyRoot(r)
    \/ \E r \in Reader, n \in Name : ThreadBegin(r, n)

Next == LoopStep \/ Request \/ \E r \in Reader : Thread(r)

Spec == Init /\ [][Next]_vars

--------------------------------------------------------------------------
(* What makes the catalog correct. *)

\* "An LRU keeps clicking through twenty tables from leaking twenty open datasets":
\* every open dataset is one the catalog will close, and unpinned there are at most
\* max_open; every dataset it hands out from its caches is open; no key has two; and "they
\* belong to the old root and their names no longer resolve": after a switch of databases
\* the console reads no table of the one before.
HandlesAreSound ==
    /\ TypeOK
    /\ opened = Members(lru) \cup pinned
    /\ Len(lru) <= MaxOpen
    /\ \A g, h \in Members(lru) \cup pinned : about[g].key = about[h].key => g = h
    /\ \A h \in Members(lru) : about[h].root = root

\* A thread loses its handle only to a switch of databases, a shutdown, or after
\* max_open other tables were used: a table in steady use stays open.  What a request on
\* the event loop holds is open until it answers; comparing two versions is where one
\* open could evict the other.
OnlyColdHandlesAreTaken ==
    /\ \A r \in Reader :
          reader[r].pc # "idle" /\ reader[r].handle \notin opened =>
              \/ reader[r].moved \/ phase = "down"
              \/ Cardinality(reader[r].since \ reader[r].key) >= MaxOpen
    /\ Members(loop.held) \subseteq opened

\* "Switching the console to another database mid-demo must not stop the video": once
\* armed, the demo's handles are the same and open until the server goes down.
DemoKeepsPlaying ==
    [][demo # <<>> /\ phase' # "down" => demo' = demo /\ Members(demo) \subseteq opened']_vars

\* "neither can perturb the other's counter": what the demo's instrument drains are the
\* demo's own reads.
DemoCounterIsItsOwn == \A h \in Members(demo) \cap opened : counter[h] \subseteq {"demo"}

--------------------------------------------------------------------------
(* What the text says of the catalog and the code does not do. *)

\* "Give the demo a second chance when a connection turns out to hold its corpus": a demo
\* that is armed has both its tables from one database.
DemoServesOneCorpus ==
    demo # <<>> /\ phase # "down" => about[demo[1]].root = about[demo[2]].root

\* "So a handle has exactly one owner of its drain, and anything that wants to know what
\* a read cost asks its own handle": what a request reports are its own reads.
ResponsesReportTheirOwnReads ==
    \A r \in Reader : reader[r].pc = "collect" /\ reader[r].handle \in opened
                      => counter[reader[r].handle] = {r}
====
