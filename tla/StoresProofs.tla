---- MODULE StoresProofs ----
(***************************************************************************)
(* For any processes, callers, databases and bounds: the settings file is  *)
(* whole and loses a connection only to a stale save, the ledger is the    *)
(* tail of what was spent and bills no call twice, an answer is about the  *)
(* version it is given for, the shared allowance of a demo holds, and a    *)
(* plan that is run does what it promised.  Each part's invariant is a     *)
(* matter of its own variables; a section puts them together.  Beside them *)
(* stand the process that owns the server that keeps them and the loop     *)
(* whose spending they record.  For any number of presses of the update    *)
(* button, the desktop shell leaves no server it can reach, always has a   *)
(* window or is on its way out, and never runs two installs.  For any      *)
(* number of questions and tasks, any budgets, prices and ceilings, the    *)
(* agent's loop is well typed, answers every call it was asked for, stays  *)
(* within its four caps, calls nothing cut short an answer, the calls that *)
(* were in flight are all that can pass the ceiling, and what the meter    *)
(* has counted is what was billed.                                         *)
(***************************************************************************)
EXTENDS Stores, DesktopShell, Agent, SequenceFacts

--------------------------------------------------------------------------
(* The settings file. *)

\* A connection as a process makes it: its id ends in its uri.
Made == {[id |-> Slug(l, u), uri |-> u] : l \in Label, u \in Uri}

\* Every database at most once, whatever stands between.
OncePerUri(conns) ==
    \A i, j \in DOMAIN conns :
        i # j /\ conns[i] # Broken /\ conns[j] # Broken => conns[i].uri # conns[j].uri

\* What a file holds that parses.
Raw == [conns : Seq(Made \cup {Broken}), active : Ids \cup {NoId}, provider : Providers,
        key : Providers \cup {NoKey}]

\* What a process holds, and writes.
Whole(s) ==
    /\ s \in [conns : Seq(Made), active : Ids \cup {NoId}, provider : Providers,
              key : Providers \cup {NoKey}]
    /\ OncePerUri(s.conns)
    /\ s.active \in IdsOf(s) \cup {NoId}

Saves == [phase : {"loaded", "written"}, request : Request, stale : BOOLEAN,
          next : {s \in Values : Whole(s)}]

Saving(p) == pending[p] # Idle

\* A save that is not stale is the change of what the file still holds; one that is belongs
\* to a process that has yet to follow somebody else's change.
SettingsIInv ==
    /\ disk \in {Absent, Garbled} \/ (disk \in Raw /\ OncePerUri(disk.conns))
    /\ saver \in BOOLEAN
    /\ saver => Whole(disk)
    /\ pending \in [Server -> {Idle} \cup Saves]
    /\ \A p \in Server : Saving(p) /\ pending[p].stale => foreign[p]
    /\ \A p \in Server : Saving(p) /\ ~pending[p].stale =>
          /\ pending[p].next = Change(Load, pending[p].request)
          /\ pending[p].request.op \in {"activate", "remove"}
                => pending[p].request.id \in IdsOf(Load)
    /\ root \in [Server -> Uri \cup {NoUri}]
    /\ \A p \in Server : foreign[p] \/ root[p] = ResolveRoot(p, Load)
    /\ panels \in [Server -> Uri \cup {Main}]
    /\ foreign \in [Server -> BOOLEAN]
    /\ menu \subseteq Made
    /\ edits \in Nat

--------------------------------------------------------------------------
(* The answer cache. *)

Files == ({"entry"} \X (1..Numbers)) \cup ({"temporary"} \X Reader)

\* An answer on disk is a version of the number it is kept by.
CacheIInv ==
    /\ table \in Version
    /\ handle \in [Reader -> Version]
    /\ asking \in [Reader -> {Quiet} \cup [step : {"made", "written"}]]
    /\ entry \in [1..Numbers -> Version \cup {NoAnswer}]
    /\ \A n \in 1..Numbers : entry[n] # NoAnswer => entry[n].number = n
    /\ temporary \subseteq Reader
    /\ sweep \subseteq Files
    /\ answered.gave.number = answered.for.number

--------------------------------------------------------------------------
(* The limits of a public demo. *)

\* What was served lately and what is left for everybody come from one purse, which
\* regains its rate at each tick; and whoever is alone has paid for what is missing in it,
\* but for what a higher rate has brought back to their own.
KioskIInv ==
    /\ heavy \in [Address -> 0..Full]
    /\ shared \in 0..GlobalFull
    /\ served \in [1..Window -> Nat]
    /\ \A n \in 1..Window : served[n] * Cost + shared <= GlobalFull + (n - 1) * GlobalRate
    /\ askers \subseteq Address /\ IsFiniteSet(askers)
    /\ tracked \subseteq askers
    /\ askers = {} => shared = GlobalFull
    /\ ticks \in Nat
    /\ \A a \in Address : askers = {a} => GlobalFull - shared <= Full - heavy[a] + ticks * Gain

--------------------------------------------------------------------------
(* The spend ledger. *)

\* What a process can be doing, with these files and this many lines.
Steps(files, n) ==
    {Resting, [step |-> "looks"]}
        \cup [step : {"opened"}, file : files, line : 1..n]
        \cup [step : {"read"}, lines : Seq(1..n)]
        \cup [step : {"truncated", "filled"}, file : files, lines : Seq(1..n)]

Opening(p) == writer[p].step = "opened"
Trimming(p) == writer[p].step \in {"read", "truncated", "filled"}

LedgerTypes ==
    /\ recorded \in 0..Records
    /\ content \in Seq(Seq(1..recorded))
    /\ ledger \in 0..Len(content) /\ trimmed \in 0..Len(content)
    /\ written \in Seq(1..recorded)
    /\ appended \in [Writer -> 0..TrimEvery - 1]
    /\ writer \in [Writer -> Steps(DOMAIN content, recorded)]

\* The two names are never of one file.
TwoFiles == ledger # NoFile => ledger # trimmed

\* A line about to be written is nowhere yet.
FreshLines ==
    \A p \in Writer : Opening(p) =>
        /\ \A i \in DOMAIN content : writer[p].line \notin Entries(content[i])
        /\ \A q \in Writer : Trimming(q) => writer[p].line \notin Entries(writer[q].lines)
        /\ \A q \in Writer : Opening(q) /\ writer[q].line = writer[p].line => q = p

\* No file has a line twice, nor will have when a trim has written over what others put
\* there: they put it behind what the trim will write.
NoLineTwice ==
    /\ \A i \in DOMAIN content : NoRepeats(content[i])
    /\ \A p \in Writer : Trimming(p) =>
          NoRepeats(writer[p].lines) /\ Len(writer[p].lines) > MaxLines
    /\ \A p \in Writer : writer[p].step = "truncated" =>
          \A i \in DOMAIN content[writer[p].file] :
             i > KeepLines => content[writer[p].file][i] \notin Entries(writer[p].lines)

\* The tail of what was written from the n-th on, which is all of it or long enough.
IsTail(lines, n) ==
    /\ lines = SubSeq(written, n + 1, Len(written))
    /\ Len(lines) >= KeepLines \/ n = 0

\* One that nobody disturbs is at work on the files that have the names, with the lines
\* that are in them.
AtWork(p) ==
    /\ Opening(p) => writer[p].file = ledger
    /\ Trimming(p) => writer[p].lines = Lines
    /\ writer[p].step \in {"truncated", "filled"} => writer[p].file = trimmed
    /\ writer[p].step = "truncated" => content[trimmed] = <<>>
    /\ writer[p].step = "filled" => content[trimmed] = Kept(writer[p].lines)

\* While no two have met, one is at work at most, and the ledger is a tail.
Alone ==
    ~met =>
        /\ \A p, q \in Writer : writer[p] # Resting /\ writer[q] # Resting => p = q
        /\ \E n \in 0..Len(written) : IsTail(Lines, n)
        /\ \A p \in Writer : AtWork(p)

LedgerIInv == LedgerTypes /\ TwoFiles /\ FreshLines /\ NoLineTwice /\ Alone

--------------------------------------------------------------------------
(* The operation plans. *)

Kinds == {"index", "compact", "cleanup", "restore",
          "migrate-format", "migrate-copy", "migrate-schema", "migrate-embed"}

\* A version has at most a row and a fragment more than its number, and fewer tombstones.
PastTypes ==
    /\ past \in [Database -> Seq(Content)]
    /\ \A db \in Database :
          /\ Latest(db) \in 1..Versions
          /\ \A v \in 1..Latest(db) : /\ past[db][v].live <= v + 1 /\ past[db][v].dead < v
                                      /\ past[db][v].fragments <= v + 1
    /\ pruned \in [Database -> SUBSET (1..Versions)]
    /\ \A db \in Database : pruned[db] \subseteq 1..Latest(db) /\ Latest(db) \notin pruned[db]
    /\ open \in Database
    /\ pinned \in 0..Latest(open)

Plan == [kind : Kinds, at : 1..Versions, db : Database, ok : BOOLEAN, holds : BOOLEAN,
         affected : Seq(Nat \cup BOOLEAN), reversible : BOOLEAN,
         script : {"asserts", "opens", "free", "none"}, option : Nat \cup Metric]

\* What a plan that is ready says is so of the versions it names, and stays so: they do
\* not change.
SaysTheTruth(plan) ==
    /\ plan.at <= Latest(plan.db)
    /\ Ready(plan) =>
          /\ plan.kind \in {"index", "compact"} => plan.script = "asserts"
          /\ plan.kind = "index" => plan.affected[1] = past[plan.db][plan.at].live
          /\ plan.kind = "restore" =>
                /\ plan.option \in 1..Latest(plan.db)
                /\ plan.affected[4] = past[plan.db][plan.option].live
          /\ plan.kind \notin {"migrate-copy", "migrate-schema", "migrate-embed"}

ShelfIsTrue == shelf \in Seq(Plan) /\ \A i \in DOMAIN shelf : SaysTheTruth(shelf[i])

\* PromisesHold, of the script that ran last.
RanAsPromised ==
    /\ ran.done => ran.plan \in Plan /\ ran.plan.at <= Latest(ran.plan.db)
    /\ ran.done /\ ran.plan.kind \in {"index", "compact"} =>
          /\ ran.after.live = past[ran.plan.db][ran.plan.at].live
          /\ ran.plan.kind = "index" => ran.after.live = ran.plan.affected[1]
          /\ Proposes(ran.plan.db, ran.before, ran.plan.kind)
                => ~Proposes(ran.plan.db, ran.after, ran.plan.kind)
    /\ ran.done /\ ran.plan.kind = "restore" => ran.after.live = ran.plan.affected[4]
    /\ ran.done /\ ran.plan.kind \notin {"index", "compact", "restore"} => ran.after = ran.before

OpsIInv == PastTypes /\ ShelfIsTrue /\ RanAsPromised

--------------------------------------------------------------------------
(* Proofs: the settings file. *)

\* What is left of a sequence without some of its entries: the others, each as often as it
\* was there, and all of it when there is nothing to leave out.
LEMMA WithoutFacts ==
    ASSUME NEW S, NEW s \in Seq(S), NEW out
    PROVE  /\ Without(s, out) \in Seq(S \ out)
           /\ Entries(Without(s, out)) = Entries(s) \ out
           /\ \A m, n \in DOMAIN Without(s, out) : m # n =>
                 \E i, j \in DOMAIN s : i # j /\ Without(s, out)[m] = s[i] /\ Without(s, out)[n] = s[j]
           /\ Entries(s) \cap out = {} => Without(s, out) = s
<1> DEFINE left == {i \in DOMAIN s : s[i] \notin out}
           Rank(i) == Cardinality({j \in left : j <= i})
           Nth(n) == CHOOSE i \in left : Rank(i) = n
           w == Without(s, out)
<1>1. Len(s) \in Nat /\ DOMAIN s = 1 .. Len(s) /\ \A i \in DOMAIN s : s[i] \in S
  BY LenProperties
<1>2. left \in SUBSET Nat /\ IsFiniteSet(left) /\ left \subseteq DOMAIN s
  <2>1. IsFiniteSet(1 .. Len(s)) /\ left \in SUBSET (1 .. Len(s))
    BY <1>1, FS_Interval
  <2> QED BY <1>1, <2>1, FS_Subset
<1>3. \A i \in left : s[i] \in S \ out
  BY <1>1
<1>4. w = [n \in 1 .. Cardinality(left) |-> s[Nth(n)]]
  BY DEF Without
<1>5. \A i \in DOMAIN s : s[i] \notin out => i \in left
  OBVIOUS
<1>9. Entries(s) \cap out = {} => left = DOMAIN s
  BY DEF Entries
<1> HIDE DEF left, w
<1>6. /\ Cardinality(left) \in Nat
      /\ \A n \in 1 .. Cardinality(left) : \E i \in left : Rank(i) = n
      /\ \A i, k \in left : Rank(i) = Rank(k) => i = k
      /\ \A i \in left : Rank(i) \in 1 .. Cardinality(left)
  BY <1>2, Ranks
<1> HIDE DEF Rank
<1>7. \A n \in 1 .. Cardinality(left) : Nth(n) \in left /\ Rank(Nth(n)) = n
  BY <1>6
<1>8. \A i \in left : Nth(Rank(i)) = i
  BY <1>6, <1>7
<1> HIDE DEF Nth
<1>10. w \in Seq(S \ out) /\ DOMAIN w = 1 .. Cardinality(left)
       /\ \A n \in DOMAIN w : w[n] = s[Nth(n)] /\ Nth(n) \in left
  <2>1. w \in [1 .. Cardinality(left) -> S \ out]
    BY <1>3, <1>4, <1>7
  <2> QED BY <1>4, <1>6, <1>7, <2>1, SeqDef
<1>11. Entries(w) = Entries(s) \ out
  <2>1. ASSUME NEW x \in Entries(w) PROVE x \in Entries(s) \ out
    <3>1. PICK n \in DOMAIN w : x = w[n]
      BY DEF Entries
    <3>2. x = s[Nth(n)] /\ Nth(n) \in left
      BY <1>10, <3>1
    <3> DEFINE i == Nth(n)
    <3>3. x = s[i] /\ i \in DOMAIN s /\ x \notin out
      BY <1>2, <1>3, <3>2
    <3> HIDE DEF i
    <3> QED BY ONLY <3>3 DEF Entries
  <2>2. ASSUME NEW x \in Entries(s) \ out PROVE x \in Entries(w)
    <3>1. PICK i \in DOMAIN s : x = s[i]
      BY DEF Entries
    <3>2. i \in left
      BY <1>5, <3>1
    <3>3. Rank(i) \in DOMAIN w /\ w[Rank(i)] = x
      BY <1>6, <1>8, <1>10, <3>1, <3>2
    <3> QED BY <3>3 DEF Entries
  <2> QED BY <2>1, <2>2
<1>12. ASSUME NEW m \in DOMAIN w, NEW n \in DOMAIN w, m # n
       PROVE  \E i, j \in DOMAIN s : i # j /\ w[m] = s[i] /\ w[n] = s[j]
  <2>1. m \in 1 .. Cardinality(left) /\ n \in 1 .. Cardinality(left)
    BY <1>10
  <2>2. Nth(m) # Nth(n)
    BY <1>7, <1>12, <2>1
  <2>3. Nth(m) \in DOMAIN s /\ Nth(n) \in DOMAIN s
    BY <1>2, <1>7, <2>1
  <2> QED BY <1>10, <2>2, <2>3
<1>13. ASSUME Entries(s) \cap out = {} PROVE w = s
  <2>1. left = 1 .. Len(s)
    BY <1>1, <1>9, <1>13
  <2>2. Cardinality(left) = Len(s)
    <3>1. Len(s) \in Nat
      BY <1>1
    <3>2. Cardinality(1 .. Len(s)) = Len(s)
      BY <3>1, FS_Interval
    <3> QED BY <2>1, <3>2
  <2>3. ASSUME NEW i \in 1 .. Len(s) PROVE Rank(i) = i
    <3>1. {j \in left : j <= i} = 1 .. i
      BY <1>1, <2>1
    <3>2. Cardinality(1 .. i) = i
      BY <1>1, FS_Interval
    <3> QED BY <3>1, <3>2 DEF Rank
  <2>4. \A n \in 1 .. Len(s) : Nth(n) = n
    BY <1>8, <2>1, <2>3
  <2>5. w = [n \in 1 .. Len(s) |-> s[n]]
    BY <1>4, <2>2, <2>4
  <2> QED BY <1>1, <2>5, SeqDef
<1> QED BY <1>10, <1>11, <1>12, <1>13 DEF w

\* An id says which database a connection is of, and is never the absence of one.
LEMMA MadeFacts ==
    ASSUME NEW c \in Made
    PROVE  /\ c \in Connection /\ c.id \in Ids /\ c.uri \in Uri /\ c.id # NoId /\ c # Broken
           /\ \A d \in Made : c.id = d.id => c = d
<1>1. PICK l \in Label, u \in Uri : c = [id |-> <<l, u>>, uri |-> u]
  BY DEF Made, Slug
<1>2. c.id = <<l, u>> /\ c.uri = u
  BY <1>1
<1>3. c.id \in Ids /\ c \in Connection
  BY <1>1, <1>2 DEF Ids, Connection, Slug
<1>4. c.id # NoId
  BY <1>2 DEF NoId
<1>5. ASSUME NEW d \in Made, c.id = d.id PROVE c = d
  <2>1. PICK k \in Label, v \in Uri : d = [id |-> <<k, v>>, uri |-> v]
    BY DEF Made, Slug
  <2>2. d.id = <<k, v>>
    BY <2>1
  <2>3. k = l /\ v = u
    BY <1>2, <1>5, <2>2
  <2> QED BY <1>1, <2>1, <2>3
<1> QED BY <1>2, <1>3, <1>4, <1>5, SettingsAssumption

\* What a process holds is of the type of its values, and is in the file as it is.
LEMMA WholeFacts ==
    ASSUME NEW s, Whole(s)
    PROVE  /\ s \in Values /\ s \in Raw /\ s \notin {Absent, Garbled}
           /\ FromDict(s) = s
<1>1. Seq(Made) \subseteq Seq(Connection) /\ Seq(Made) \subseteq Seq(Made \cup {Broken})
  <2>1. Made \subseteq Connection
    BY MadeFacts
  <2> QED BY <2>1
<1>2. s \in Values /\ s \in Raw
  BY <1>1 DEF Whole, Values, Raw
<1>3. Without(s.conns, {Broken}) = s.conns
  <2>1. s.conns \in Seq(Made)
    BY DEF Whole
  <2>2. Entries(s.conns) \subseteq Made
    BY <2>1, LenProperties DEF Entries
  <2>3. Entries(s.conns) \cap {Broken} = {}
    BY <2>2, MadeFacts
  <2> DEFINE conns == s.conns
  <2> HIDE DEF conns
  <2>4. conns \in Seq(Made) /\ Entries(conns) \cap {Broken} = {}
    BY <2>1, <2>3 DEF conns
  <2>5. Without(conns, {Broken}) = conns
    BY ONLY <2>4, WithoutFacts
  <2> QED BY <2>5 DEF conns
<1>4. FromDict(s) = s
  BY <1>2, <1>3 DEF FromDict, Whole, IdsOf, Values
<1> QED BY <1>2, <1>4, SettingsAssumption

\* A list with each database once and an active connection of it make a whole value.
LEMMA Replaced ==
    ASSUME NEW t \in [conns : Seq(Made), active : Ids \cup {NoId}, provider : Providers,
                      key : Providers \cup {NoKey}],
           OncePerUri(t.conns),
           t.active \in {c.id : c \in Listed(t.conns)} \cup {NoId}
    PROVE  Whole(t)
BY DEF Whole, IdsOf

\* Ids are those of connections.
LEMMA IdFacts ==
    ASSUME NEW conns \in Seq(Made), NEW id, id \in {c.id : c \in Listed(conns)} \cup {NoId}
    PROVE  id \in Ids \cup {NoId}
<1>1. Listed(conns) \subseteq Made
  BY LenProperties DEF Listed
<1> QED BY <1>1, MadeFacts

\* Loading leaves out the spoiled entries and an active connection that is not listed.
LEMMA FromDictFacts ==
    ASSUME NEW raw \in Raw, OncePerUri(raw.conns)
    PROVE  /\ Whole(FromDict(raw))
           /\ Listed(FromDict(raw).conns) = Listed(raw.conns) \ {Broken}
<1> DEFINE conns == raw.conns
           left == Without(conns, {Broken})
           ids == {c.id : c \in Listed(left)}
<1>1. conns \in Seq(Made \cup {Broken}) /\ raw.active \in Ids \cup {NoId}
  BY DEF Raw
<1>2. Made = (Made \cup {Broken}) \ {Broken}
  BY MadeFacts
<1>3. FromDict(raw) = [raw EXCEPT !.conns = left,
                                  !.active = IF raw.active \in ids THEN raw.active ELSE NoId]
  BY DEF FromDict
<1> DEFINE any == Made \cup {Broken}
<1> HIDE DEF conns, any
<1>4. /\ left \in Seq(any \ {Broken})
      /\ Entries(left) = Entries(conns) \ {Broken}
      /\ \A m, n \in DOMAIN left : m # n =>
            \E i, j \in DOMAIN conns : i # j /\ left[m] = conns[i] /\ left[n] = conns[j]
  <2>1. conns \in Seq(any)
    BY <1>1 DEF any
  <2> DEFINE out == {Broken}
  <2> HIDE DEF out
  <2>2. /\ Without(conns, out) \in Seq(any \ out)
        /\ Entries(Without(conns, out)) = Entries(conns) \ out
        /\ \A m, n \in DOMAIN Without(conns, out) : m # n =>
              \E i, j \in DOMAIN conns :
                  i # j /\ Without(conns, out)[m] = conns[i] /\ Without(conns, out)[n] = conns[j]
    BY ONLY <2>1, WithoutFacts
  <2> QED BY <2>2 DEF out
<1> HIDE DEF left
<1>5. left \in Seq(Made) /\ Listed(left) = Listed(conns) \ {Broken}
  BY <1>2, <1>4 DEF Entries, Listed, any
<1>6. OncePerUri(left)
  <2>1. OncePerUri(conns)
    BY DEF conns
  <2> QED BY <1>4, <2>1 DEF OncePerUri
<1> DEFINE id == IF raw.active \in ids THEN raw.active ELSE NoId
<1>7. id \in {c.id : c \in Listed(left)} \cup {NoId}
  OBVIOUS
<1> HIDE DEF id, ids
<1> DEFINE t == FromDict(raw)
<1>8. t = [raw EXCEPT !.conns = left, !.active = id]
  BY <1>3 DEF id
<1> HIDE DEF t
<1>9. id \in Ids \cup {NoId}
  BY <1>5, <1>7, IdFacts
<1>10. /\ t \in [conns : Seq(Made), active : Ids \cup {NoId}, provider : Providers,
                key : Providers \cup {NoKey}]
       /\ t.conns = left /\ t.active = id
  BY <1>5, <1>8, <1>9 DEF Raw
<1>11. Whole(t)
  BY <1>6, <1>7, <1>10, Replaced
<1> QED BY <1>5, <1>10, <1>11 DEF conns, t

\* Nothing saved yet, or nothing readable.
LEMMA DefaultsWhole == Whole(Defaults) /\ Listed(Defaults.conns) = {}
<1>1. Defaults.conns = <<>> /\ Defaults.active = NoId
  BY DEF Defaults
<1>2. Defaults \in [conns : Seq(Made), active : Ids \cup {NoId}, provider : Providers,
                    key : Providers \cup {NoKey}]
  BY SettingsAssumption DEF Defaults
<1>3. DOMAIN <<>> = {}
  OBVIOUS
<1> QED BY <1>1, <1>2, <1>3 DEF Whole, OncePerUri, Listed

\* An addition lists a database that is not listed, and loses none.
LEMMA AddWhole ==
    ASSUME NEW s, Whole(s), NEW r \in Request, r.op = "add"
    PROVE  /\ Whole(AddConnection(s, r))
           /\ Listed(s.conns) \subseteq Listed(AddConnection(s, r).conns)
<1> DEFINE conns == s.conns
           same == {c \in Listed(conns) : c.uri = r.uri}
           new == [id |-> Slug(r.label, r.uri), uri |-> r.uri]
           id == IF same = {} THEN Slug(r.label, r.uri) ELSE (CHOOSE c \in same : TRUE).id
           after == IF same = {} THEN Append(conns, [id |-> id, uri |-> r.uri]) ELSE conns
           t == AddConnection(s, r)
<1>1. r.uri \in Uri /\ r.label \in Label /\ r.activate \in BOOLEAN
  BY DEF Request
<1>2. new \in Made /\ new.uri = r.uri /\ new.id = Slug(r.label, r.uri)
  BY <1>1 DEF Made
<1>3. conns \in Seq(Made) /\ OncePerUri(conns)
  BY DEF Whole
<1>4. t = [s EXCEPT !.conns = after, !.active = IF r.activate THEN id ELSE @]
  BY DEF AddConnection
<1>5. Listed(conns) \subseteq Made /\ DOMAIN conns = 1 .. Len(conns) /\ Len(conns) \in Nat
  BY <1>3, LenProperties DEF Listed
<1> HIDE DEF conns, same, new, t
<1>6. /\ after \in Seq(Made) /\ OncePerUri(after) /\ Listed(conns) \subseteq Listed(after)
      /\ id \in {c.id : c \in Listed(after)}
  <2>1. CASE same = {}
    <3>1. after = Append(conns, new) /\ id = new.id
      BY <1>2, <2>1 DEF new
    <3>2. /\ Append(conns, new) \in Seq(Made)
          /\ DOMAIN Append(conns, new) = 1 .. Len(conns) + 1
          /\ \A n \in 1 .. Len(conns) : Append(conns, new)[n] = conns[n]
          /\ Append(conns, new)[Len(conns) + 1] = new
          /\ Entries(Append(conns, new)) = Entries(conns) \cup {new}
      BY <1>2, <1>3, AppendFacts
    <3>3. \A n \in 1 .. Len(conns) : conns[n].uri # new.uri
      BY <1>2, <1>5, <2>1 DEF same, Listed
    <3> HIDE DEF after, id
    <3>4. OncePerUri(after)
      BY <1>3, <1>5, <3>1, <3>2, <3>3 DEF OncePerUri
    <3>5. Listed(after) = Listed(conns) \cup {new}
      BY <3>1, <3>2 DEF Listed, Entries
    <3> QED BY <3>1, <3>2, <3>4, <3>5
  <2>2. CASE same # {}
    <3>1. id \in {c.id : c \in same} /\ after = conns
      BY <2>2
    <3>2. same \subseteq Listed(conns)
      BY DEF same
    <3> QED BY <1>3, <3>1, <3>2
  <2> QED BY <2>1, <2>2
<1> DEFINE a == IF r.activate THEN id ELSE s.active
<1>7. a \in {c.id : c \in Listed(after)} \cup {NoId}
  <2>1. s.active \in {c.id : c \in Listed(conns)} \cup {NoId}
    BY DEF Whole, IdsOf, conns
  <2> QED BY <1>6, <2>1
<1>8. s \in Raw /\ t = [s EXCEPT !.conns = after, !.active = a]
  BY <1>4, WholeFacts
<1> HIDE DEF after, id, a
<1>9. a \in Ids \cup {NoId}
  BY <1>6, <1>7, IdFacts
<1>10. /\ t \in [conns : Seq(Made), active : Ids \cup {NoId}, provider : Providers,
                key : Providers \cup {NoKey}]
       /\ t.conns = after /\ t.active = a
  BY <1>6, <1>8, <1>9 DEF Raw
<1>11. Whole(t)
  BY <1>6, <1>7, <1>10, Replaced
<1> QED BY <1>6, <1>10, <1>11 DEF t, conns

\* A removal takes what has the id, and the first that is left becomes the active one.
LEMMA RemoveWhole ==
    ASSUME NEW s, Whole(s), NEW id \in Ids
    PROVE  /\ Whole(RemoveConnection(s, id))
           /\ \A c \in Listed(s.conns) \ Listed(RemoveConnection(s, id).conns) : c.id = id
<1> DEFINE conns == s.conns
           out == {c \in Listed(conns) : c.id = id}
           left == Without(conns, out)
           first == IF left = <<>> THEN NoId ELSE left[1].id
           active == IF s.active # id THEN s.active ELSE first
           t == RemoveConnection(s, id)
<1>1. t = [s EXCEPT !.conns = left, !.active = active]
  BY DEF RemoveConnection
<1>2. conns \in Seq(Made) /\ OncePerUri(conns) /\ s \in Raw
  BY WholeFacts DEF Whole
<1>3. s.active \in {c.id : c \in Listed(conns)} \cup {NoId}
  BY DEF Whole, IdsOf
<1>4. \A c \in Listed(conns) : c.id # id => c \notin out
  OBVIOUS
<1>5. \A c \in out : c.id = id
  OBVIOUS
<1> HIDE DEF conns, t, out
<1>6. /\ left \in Seq(Made \ out) /\ Entries(left) = Entries(conns) \ out
      /\ \A m, n \in DOMAIN left : m # n =>
            \E i, j \in DOMAIN conns : i # j /\ left[m] = conns[i] /\ left[n] = conns[j]
  BY ONLY <1>2, WithoutFacts
<1> HIDE DEF left
<1>7. left \in Seq(Made) /\ Listed(left) = Listed(conns) \ out
  BY <1>6 DEF Entries, Listed
<1>8. OncePerUri(left)
  BY <1>2, <1>6 DEF OncePerUri
<1>9. first \in {c.id : c \in Listed(left)} \cup {NoId}
  <2>1. left # <<>> => 1 \in DOMAIN left
    BY <1>7, EmptySeq, LenProperties
  <2> QED BY <2>1 DEF Listed
<1>10. active \in {c.id : c \in Listed(left)} \cup {NoId}
  BY <1>3, <1>4, <1>7, <1>9
<1> HIDE DEF first, active
<1>11. active \in Ids \cup {NoId}
  BY <1>7, <1>10, IdFacts
<1>12. /\ t \in [conns : Seq(Made), active : Ids \cup {NoId}, provider : Providers,
                key : Providers \cup {NoKey}]
       /\ t.conns = left /\ t.active = active
  BY <1>1, <1>2, <1>7, <1>11 DEF Raw
<1>13. Whole(t)
  BY <1>8, <1>10, <1>12, Replaced
<1>14. \A c \in Listed(conns) \ Listed(t.conns) : c.id = id
  <2>1. t.conns = left /\ Listed(left) = Listed(conns) \ out
    BY <1>7, <1>12
  <2> QED BY <1>5, <2>1
<1> QED BY <1>13, <1>14 DEF t, conns

\* The intelligence is no business of the list.
LEMMA IntelligenceWhole ==
    ASSUME NEW s, Whole(s), NEW r \in Request, r.op = "intelligence"
    PROVE  /\ Whole(PutIntelligence(s, r))
           /\ PutIntelligence(s, r).conns = s.conns
           /\ PutIntelligence(s, r).active = s.active
<1> DEFINE provider == IF r.provider = "unset" THEN s.provider ELSE r.provider
           t == PutIntelligence(s, r)
<1>1. r.provider \in Providers \cup {"unset"} /\ r.key \in {"unset", "clear", "typed"}
  BY DEF Request
<1>2. provider \in Providers
  BY <1>1 DEF Whole
<1> HIDE DEF provider
<1> DEFINE key == IF r.key = "unset" THEN s.key ELSE IF r.key = "clear" THEN NoKey ELSE provider
<1>3. key \in Providers \cup {NoKey}
  BY <1>2 DEF Whole
<1>4. t = [s EXCEPT !.provider = provider, !.key = key]
  BY <1>1 DEF PutIntelligence, provider
<1> HIDE DEF key, t
<1>5. /\ t \in [conns : Seq(Made), active : Ids \cup {NoId}, provider : Providers,
                key : Providers \cup {NoKey}]
      /\ t.conns = s.conns /\ t.active = s.active
  BY <1>2, <1>3, <1>4 DEF Whole
<1>6. IdsOf(t) = IdsOf(s)
  BY <1>5 DEF IdsOf
<1> QED BY <1>5, <1>6 DEF Whole, t

\* Every change of a whole value is whole, and only a removal loses a connection.
LEMMA ChangeFacts ==
    ASSUME NEW s, Whole(s), NEW r \in Request,
           r.op \in {"activate", "remove"} => r.id \in IdsOf(s)
    PROVE  /\ Whole(Change(s, r))
           /\ \A c \in Listed(s.conns) \ Listed(Change(s, r).conns) :
                 r.op = "remove" /\ r.id = c.id
           /\ r.op = "intelligence" =>
                 Change(s, r).conns = s.conns /\ Change(s, r).active = s.active
<1>1. r.op \in {"add", "activate", "remove", "intelligence"}
  BY DEF Request
<1>2. CASE r.op = "add"
  <2>1. Change(s, r) = AddConnection(s, r)
    BY <1>2 DEF Change
  <2> QED BY <1>2, <2>1, AddWhole
<1>3. CASE r.op = "activate"
  <2> DEFINE t == Change(s, r)
             conns == s.conns
             id == r.id
  <2>1. t = [s EXCEPT !.active = id]
    BY <1>3 DEF Change
  <2>2. s \in Raw /\ conns \in Seq(Made) /\ OncePerUri(conns)
        /\ id \in {c.id : c \in Listed(conns)}
    BY <1>3, WholeFacts DEF Whole, IdsOf
  <2> HIDE DEF t, id
  <2>3. id \in Ids \cup {NoId}
    BY <2>2, IdFacts
  <2>4. /\ t \in [conns : Seq(Made), active : Ids \cup {NoId}, provider : Providers,
                key : Providers \cup {NoKey}]
        /\ t.conns = conns /\ t.active = id
    BY <2>1, <2>2, <2>3 DEF Raw
  <2> HIDE DEF conns
  <2>5. Whole(t)
    BY <2>2, <2>4, Replaced
  <2> QED BY <1>3, <2>4, <2>5 DEF t, conns
<1>4. CASE r.op = "remove"
  <2>1. Change(s, r) = RemoveConnection(s, r.id) /\ r.id \in Ids
    BY <1>4 DEF Change, Request
  <2> QED BY <1>4, <2>1, RemoveWhole
<1>5. CASE r.op = "intelligence"
  <2>1. Change(s, r) = PutIntelligence(s, r)
    BY <1>5 DEF Change
  <2> QED BY <1>5, <2>1, IntelligenceWhole
<1> QED BY <1>1, <1>2, <1>3, <1>4, <1>5

\* What a process makes of the file, as long as that is one.
LEMMA LoadFacts ==
    ASSUME disk \in {Absent, Garbled} \/ (disk \in Raw /\ OncePerUri(disk.conns))
    PROVE  /\ Whole(Load)
           /\ disk \notin {Absent, Garbled} =>
                 Load = FromDict(disk) /\ Listed(Load.conns) = Listed(disk.conns) \ {Broken}
<1>1. CASE disk \in {Absent, Garbled}
  <2>1. Load = Defaults
    BY <1>1 DEF Load
  <2> QED BY <1>1, <2>1, DefaultsWhole
<1>2. CASE disk \notin {Absent, Garbled}
  <2>1. Load = FromDict(disk)
    BY <1>2 DEF Load
  <2> QED BY <1>2, <2>1, FromDictFacts
<1> QED BY <1>1, <1>2

\* The root is one of those there are, or none.
LEMMA RootFacts ==
    ASSUME NEW s, Whole(s), NEW p \in Server
    PROVE  ResolveRoot(p, s) \in Uri \cup {NoUri}
<1>1. Listed(s.conns) \subseteq Made
  BY LenProperties DEF Listed, Whole
<1>2. ASSUME s.active \in IdsOf(s)
      PROVE  (CHOOSE c \in Listed(s.conns) : c.id = s.active).uri \in Uri
  <2>1. \E c \in Listed(s.conns) : c.id = s.active
    BY <1>2 DEF IdsOf
  <2>2. (CHOOSE c \in Listed(s.conns) : c.id = s.active) \in Listed(s.conns)
    BY <2>1
  <2> QED BY <1>1, <2>2, MadeFacts
<1>3. LanceRoot[p] \in Uri \cup {NoUri} /\ DemoRoot \in Uri \cup {NoUri}
  BY SettingsAssumption
<1> QED BY <1>2, <1>3 DEF ResolveRoot

\* Nothing is saved, nothing saves, and everybody follows the defaults.
LEMMA SettingsInit_ == SettingsInit => SettingsIInv
<1> SUFFICES ASSUME SettingsInit PROVE SettingsIInv
  OBVIOUS
<1>1. disk = Absent /\ Load = Defaults
  BY DEF SettingsInit, Load
<1>2. \A p \in Server : pending[p] = Idle
  BY DEF SettingsInit
<1>3. pending \in [Server -> {Idle} \cup Saves]
  BY DEF SettingsInit
<1>4. /\ root \in [Server -> Uri \cup {NoUri}]
      /\ \A p \in Server : root[p] = ResolveRoot(p, Load)
  BY <1>1, DefaultsWhole, RootFacts DEF SettingsInit
<1>5. /\ panels \in [Server -> Uri \cup {Main}] /\ foreign \in [Server -> BOOLEAN]
      /\ menu \subseteq Made /\ edits \in Nat /\ saver = FALSE
  BY DEF SettingsInit
<1> QED BY <1>1, <1>2, <1>3, <1>4, <1>5 DEF SettingsIInv, Saving

\* A save is no idleness, is of a request and of something whole, and ages into one.
LEMMA SavesFacts ==
    ASSUME NEW x \in Saves
    PROVE  /\ x # Idle /\ x.phase # "idle" /\ x.stale \in BOOLEAN
           /\ x.request \in Request /\ x.next \in Values /\ Whole(x.next)
           /\ [x EXCEPT !.phase = "written"] \in Saves
           /\ [x EXCEPT !.phase = "written"].request = x.request
           /\ [x EXCEPT !.phase = "written"].next = x.next
           /\ [x EXCEPT !.phase = "written"].stale = x.stale
           /\ [x EXCEPT !.stale = TRUE] \in Saves
           /\ [x EXCEPT !.stale = TRUE].stale
<1>1. x.phase \in {"loaded", "written"} /\ x.stale \in BOOLEAN
      /\ x.request \in Request /\ x.next \in Values /\ Whole(x.next)
  BY DEF Saves
<1>2. Idle.phase = "idle"
  BY DEF Idle
<1>3. /\ [x EXCEPT !.phase = "written"] \in Saves
      /\ [x EXCEPT !.phase = "written"].request = x.request
      /\ [x EXCEPT !.phase = "written"].next = x.next
      /\ [x EXCEPT !.phase = "written"].stale = x.stale
  BY DEF Saves
<1>4. /\ [x EXCEPT !.stale = TRUE] \in Saves
      /\ [x EXCEPT !.stale = TRUE].stale
  BY DEF Saves
<1> QED BY <1>1, <1>2, <1>3, <1>4

\* A request changes what it loaded, and saves it later.
LEMMA BeginStep ==
    ASSUME SettingsIInv, NEW p \in Server, NEW r \in Request, Begin(p, r)
    PROVE  SettingsIInv'
<1> DEFINE stale == FALSE
           next == Change(Load, r)
           new == [phase |-> "loaded", request |-> r, stale |-> stale, next |-> next]
<1>1. disk' = disk /\ saver' = saver /\ root' = root /\ panels' = panels
      /\ foreign' = foreign /\ menu' = menu /\ edits' = edits
  BY DEF Begin
<1>2. pending' = [pending EXCEPT ![p] = new]
  BY DEF Begin
<1>3. Load' = Load /\ IdsOf(Load)' = IdsOf(Load)
  BY <1>1 DEF Load
<1>4. r.op \in {"activate", "remove"} => r.id \in IdsOf(Load)
  BY DEF Begin
<1>5. Whole(next) /\ next \in Values
  <2>1. Whole(Load)
    BY LoadFacts DEF SettingsIInv
  <2> HIDE DEF next
  <2>2. Whole(next)
    BY <1>4, <2>1, ChangeFacts DEF next
  <2> QED BY <2>2, WholeFacts
<1>6. stale \in BOOLEAN /\ ~stale
  OBVIOUS
<1> HIDE DEF next, stale
<1>7. new \in Saves /\ new.request = r /\ new.next = next /\ new.stale = stale
  BY <1>5, <1>6 DEF Saves
<1> HIDE DEF new
<1>8. pending' \in [Server -> {Idle} \cup Saves]
  BY <1>2, <1>7 DEF SettingsIInv
<1>9. pending'[p] = new /\ \A q \in Server : q # p => pending'[q] = pending[q]
  BY <1>2 DEF SettingsIInv
<1>10. ASSUME NEW q \in Server, Saving(q)', pending'[q].stale PROVE foreign'[q]
  <2>1. q # p
    BY <1>6, <1>7, <1>9, <1>10
  <2>2. Saving(q) /\ pending[q].stale
    BY <1>9, <1>10, <2>1 DEF Saving
  <2> QED BY <1>1, <2>2 DEF SettingsIInv
<1>11. ASSUME NEW q \in Server, Saving(q)', ~pending'[q].stale
       PROVE  /\ pending'[q].next = Change(Load', pending'[q].request)
              /\ pending'[q].request.op \in {"activate", "remove"}
                    => pending'[q].request.id \in IdsOf(Load')
  <2>1. CASE q = p
    BY <1>3, <1>4, <1>7, <1>9, <2>1 DEF next
  <2>2. CASE q # p
    <3>1. pending'[q] = pending[q] /\ Saving(q) /\ ~pending[q].stale
      BY <1>9, <1>11, <2>2 DEF Saving
    <3> QED BY <1>3, <3>1 DEF SettingsIInv
  <2> QED BY <2>1, <2>2
<1> QED BY <1>1, <1>3, <1>8, <1>10, <1>11 DEF SettingsIInv

\* As long as the file is the same, saves that go on or are given up keep what is said of
\* them, and so does whoever follows it or is told not to.
LEMMA SameFile ==
    ASSUME SettingsIInv, disk' = disk, saver' = saver, edits' \in Nat,
           pending' \in [Server -> {Idle} \cup Saves],
           \A p \in Server : Saving(p)' =>
               /\ Saving(p) /\ pending'[p].request = pending[p].request
               /\ pending'[p].next = pending[p].next /\ pending'[p].stale = pending[p].stale
               /\ foreign'[p] = foreign[p],
           root' \in [Server -> Uri \cup {NoUri}], foreign' \in [Server -> BOOLEAN],
           \A p \in Server : \/ root'[p] = ResolveRoot(p, Load)
                             \/ root'[p] = root[p] /\ foreign'[p] = foreign[p],
           panels' \in [Server -> Uri \cup {Main}], menu' \subseteq Made
    PROVE  SettingsIInv'
<1>1. Load' = Load
  BY DEF Load
<1>2. ASSUME NEW p \in Server, Saving(p)', pending'[p].stale PROVE foreign'[p]
  BY <1>2 DEF SettingsIInv
<1>3. ASSUME NEW p \in Server, Saving(p)', ~pending'[p].stale
      PROVE  /\ pending'[p].next = Change(Load', pending'[p].request)
             /\ pending'[p].request.op \in {"activate", "remove"}
                   => pending'[p].request.id \in IdsOf(Load')
  <2>1. /\ pending[p].next = Change(Load, pending[p].request)
        /\ pending[p].request.op \in {"activate", "remove"}
              => pending[p].request.id \in IdsOf(Load)
    BY <1>3 DEF SettingsIInv
  <2> QED BY <1>1, <1>3, <2>1
<1>4. \A p \in Server : foreign'[p] \/ root'[p] = ResolveRoot(p, Load')
  BY <1>1 DEF SettingsIInv
<1>5. /\ disk' \in {Absent, Garbled} \/ (disk' \in Raw /\ OncePerUri(disk'.conns))
      /\ saver' \in BOOLEAN /\ (saver' => Whole(disk'))
  BY DEF SettingsIInv
<1> QED BY <1>2, <1>3, <1>4, <1>5 DEF SettingsIInv

\* The first half of a save.
LEMMA WriteTemporaryStep ==
    ASSUME SettingsIInv, NEW p \in Server, WriteTemporary(p)
    PROVE  SettingsIInv'
<1>1. disk' = disk /\ saver' = saver /\ root' = root /\ panels' = panels
      /\ foreign' = foreign /\ menu' = menu /\ edits' = edits
  BY DEF WriteTemporary
<1>2. pending[p] \in Saves
  <2>1. pending[p].phase = "loaded" /\ pending[p] \in {Idle} \cup Saves
    BY DEF WriteTemporary, SettingsIInv
  <2>2. Idle.phase = "idle"
    BY DEF Idle
  <2> QED BY <2>1, <2>2
<1> DEFINE old == pending[p]
           new == [old EXCEPT !.phase = "written"]
<1>3. pending' = [pending EXCEPT ![p] = new]
  BY DEF WriteTemporary
<1>4. /\ new \in Saves /\ new.request = old.request /\ new.next = old.next
      /\ new.stale = old.stale /\ old # Idle
  BY <1>2, SavesFacts
<1> HIDE DEF new
<1>5. /\ pending' \in [Server -> {Idle} \cup Saves] /\ pending'[p] = new
      /\ \A q \in Server : q # p => pending'[q] = pending[q]
  BY <1>3, <1>4 DEF SettingsIInv
<1>6. ASSUME NEW q \in Server, Saving(q)'
      PROVE  /\ Saving(q) /\ pending'[q].request = pending[q].request
             /\ pending'[q].next = pending[q].next /\ pending'[q].stale = pending[q].stale
  BY <1>4, <1>5, <1>6 DEF Saving
<1>7. /\ edits' \in Nat /\ root' \in [Server -> Uri \cup {NoUri}]
      /\ foreign' \in [Server -> BOOLEAN] /\ panels' \in [Server -> Uri \cup {Main}]
      /\ menu' \subseteq Made
  BY <1>1 DEF SettingsIInv
<1> QED BY <1>1, <1>5, <1>6, <1>7, SameFile

\* A request that fails leaves the file, and the process where it was.
LEMMA SaveFailsStep ==
    ASSUME SettingsIInv, NEW p \in Server, SaveFails(p)
    PROVE  SettingsIInv'
<1>1. disk' = disk /\ saver' = saver /\ root' = root /\ panels' = panels
      /\ foreign' = foreign /\ menu' = menu /\ edits' = edits
  BY DEF SaveFails
<1>2. /\ pending' \in [Server -> {Idle} \cup Saves] /\ pending'[p] = Idle
      /\ \A q \in Server : q # p => pending'[q] = pending[q]
  BY DEF SaveFails, SettingsIInv
<1>3. ASSUME NEW q \in Server, Saving(q)'
      PROVE  /\ Saving(q) /\ pending'[q].request = pending[q].request
             /\ pending'[q].next = pending[q].next /\ pending'[q].stale = pending[q].stale
  BY <1>2, <1>3 DEF Saving
<1>4. /\ edits' \in Nat /\ root' \in [Server -> Uri \cup {NoUri}]
      /\ foreign' \in [Server -> BOOLEAN] /\ panels' \in [Server -> Uri \cup {Main}]
      /\ menu' \subseteq Made
  BY <1>1 DEF SettingsIInv
<1> QED BY <1>1, <1>2, <1>3, <1>4, SameFile

\* A tool call binds the panels to some catalog.
LEMMA ToolCallStep ==
    ASSUME SettingsIInv, NEW p \in Server, ToolCall(p)
    PROVE  SettingsIInv'
<1>1. disk' = disk /\ saver' = saver /\ pending' = pending /\ root' = root
      /\ foreign' = foreign /\ menu' = menu /\ edits' = edits
  BY DEF ToolCall
<1>2. ResolveRoot(p, Load) \in Uri
  <2>1. Whole(Load)
    BY LoadFacts DEF SettingsIInv
  <2>2. ResolveRoot(p, Load) \in Uri \cup {NoUri}
    BY <2>1, RootFacts
  <2> QED BY <2>2 DEF ToolCall
<1>3. panels' \in [Server -> Uri \cup {Main}]
  BY <1>2 DEF ToolCall, SettingsIInv
<1>4. \A q \in Server : Saving(q)' => Saving(q)
  BY <1>1 DEF Saving
<1>5. /\ edits' \in Nat /\ root' \in [Server -> Uri \cup {NoUri}]
      /\ foreign' \in [Server -> BOOLEAN] /\ menu' \subseteq Made
      /\ pending' \in [Server -> {Idle} \cup Saves]
  BY <1>1 DEF SettingsIInv
<1> QED BY <1>1, <1>3, <1>4, <1>5, SameFile

\* A process that starts follows the file, with nothing to save.
LEMMA SettingsRestart ==
    ASSUME SettingsIInv, NEW p \in Server, Restart(p)
    PROVE  SettingsIInv'
<1>1. disk' = disk /\ saver' = saver /\ menu' = menu /\ edits' = edits
  BY DEF Restart
<1>2. /\ pending' \in [Server -> {Idle} \cup Saves] /\ pending'[p] = Idle
      /\ \A q \in Server : q # p => pending'[q] = pending[q]
  BY DEF Restart, SettingsIInv
<1>3. ResolveRoot(p, Load) \in Uri \cup {NoUri}
  <2>1. Whole(Load)
    BY LoadFacts DEF SettingsIInv
  <2> QED BY <2>1, RootFacts
<1>4. /\ root' \in [Server -> Uri \cup {NoUri}] /\ root'[p] = ResolveRoot(p, Load)
      /\ \A q \in Server : q # p => root'[q] = root[q]
  BY <1>3 DEF Restart, SettingsIInv
<1>5. /\ foreign' \in [Server -> BOOLEAN]
      /\ \A q \in Server : q # p => foreign'[q] = foreign[q]
  BY DEF Restart, SettingsIInv
<1>6. panels' \in [Server -> Uri \cup {Main}]
  BY DEF Restart, SettingsIInv, Main
<1>7. ASSUME NEW q \in Server, Saving(q)'
      PROVE  /\ Saving(q) /\ pending'[q].request = pending[q].request
             /\ pending'[q].next = pending[q].next /\ pending'[q].stale = pending[q].stale
             /\ foreign'[q] = foreign[q]
  <2>1. q # p
    BY <1>2, <1>7 DEF Saving
  <2> QED BY <1>2, <1>5, <1>7, <2>1 DEF Saving
<1>8. \A q \in Server : \/ root'[q] = ResolveRoot(q, Load)
                        \/ root'[q] = root[q] /\ foreign'[q] = foreign[q]
  BY <1>4, <1>5
<1>9. edits' \in Nat /\ menu' \subseteq Made
  BY <1>1 DEF SettingsIInv
<1> QED BY <1>1, <1>2, <1>4, <1>5, <1>6, <1>7, <1>8, <1>9, SameFile

\* The menu shows what is in the file.
LEMMA InstallMenuStep ==
    ASSUME SettingsIInv, InstallMenu
    PROVE  SettingsIInv'
<1>1. disk' = disk /\ saver' = saver /\ pending' = pending /\ root' = root
      /\ foreign' = foreign /\ panels' = panels /\ edits' = edits
  BY DEF InstallMenu
<1>2. menu' \subseteq Made
  <2>1. CASE disk \in {Absent, Garbled}
    BY <2>1 DEF InstallMenu
  <2>2. CASE disk \notin {Absent, Garbled}
    <3>1. disk.conns \in Seq(Made \cup {Broken})
      BY <2>2 DEF SettingsIInv, Raw
    <3>2. Listed(disk.conns) \subseteq Made \cup {Broken}
      BY <3>1, LenProperties DEF Listed
    <3>3. menu' = Listed(disk.conns) \ {Broken}
      BY <2>2 DEF InstallMenu
    <3> QED BY <3>2, <3>3
  <2> QED BY <2>1, <2>2
<1>3. \A q \in Server : Saving(q)' => Saving(q)
  BY <1>1 DEF Saving
<1>4. /\ edits' \in Nat /\ root' \in [Server -> Uri \cup {NoUri}]
      /\ foreign' \in [Server -> BOOLEAN] /\ panels' \in [Server -> Uri \cup {Main}]
      /\ pending' \in [Server -> {Idle} \cup Saves]
  BY <1>1 DEF SettingsIInv
<1> QED BY <1>1, <1>2, <1>3, <1>4, SameFile

\* Whoever saves has what it saved, and follows it unless it saved no connection; every
\* other save that goes on is stale now.
LEMMA ReplaceStep ==
    ASSUME SettingsIInv, NEW p \in Server, Replace(p)
    PROVE  SettingsIInv'
<1> DEFINE old == pending[p]
           next == old.next
           follows == old.request.op # "intelligence"
<1>1. /\ disk' = next /\ saver' = TRUE /\ panels' = panels /\ menu' = menu /\ edits' = edits
      /\ pending' = [Others(p) EXCEPT ![p] = Idle]
      /\ foreign' = [q \in Server |-> IF q # p THEN TRUE ELSE foreign[p] /\ ~follows]
  BY DEF Replace
<1>2. root' = IF follows THEN [root EXCEPT ![p] = ResolveRoot(p, next)] ELSE root
  BY DEF Replace
<1>3. old \in Saves /\ old # Idle
  <2>1. old.phase = "written" /\ old \in {Idle} \cup Saves
    BY DEF Replace, SettingsIInv
  <2>2. Idle.phase = "idle"
    BY DEF Idle
  <2> QED BY <2>1, <2>2
<1>4. Whole(next) /\ next \in Raw /\ next \notin {Absent, Garbled} /\ FromDict(next) = next
  <2>1. Whole(next)
    BY <1>3, SavesFacts
  <2> HIDE DEF next
  <2> QED BY <2>1, WholeFacts
<1>5. Load' = next
  BY <1>1, <1>4 DEF Load
<1>6. ~foreign[p] => ~old.stale
  BY <1>3 DEF SettingsIInv, Saving
<1>7. ~foreign[p] /\ ~follows => root[p] = ResolveRoot(p, next)
  <2> SUFFICES ASSUME ~foreign[p], ~follows PROVE root[p] = ResolveRoot(p, next)
    OBVIOUS
  <2>1. root[p] = ResolveRoot(p, Load) /\ Whole(Load)
    BY LoadFacts DEF SettingsIInv
  <2>2. next = Change(Load, old.request) /\ old.request \in Request
    BY <1>3, <1>6, SavesFacts DEF SettingsIInv, Saving
  <2> DEFINE loaded == Load
             r == old.request
  <2>3. Whole(loaded) /\ r \in Request /\ r.op = "intelligence" /\ next = Change(loaded, r)
    BY <2>1, <2>2
  <2> HIDE DEF loaded, r, next
  <2>4. next.conns = loaded.conns /\ next.active = loaded.active
    BY <2>3, ChangeFacts
  <2>5. ResolveRoot(p, next) = ResolveRoot(p, loaded)
    BY <2>4 DEF ResolveRoot, IdsOf
  <2> QED BY <2>1, <2>5 DEF loaded
<1>8. pending' \in [Server -> {Idle} \cup Saves] /\ pending'[p] = Idle
  <2>1. ASSUME NEW q \in Server PROVE Others(p)[q] \in {Idle} \cup Saves
    <3>1. pending[q] \in {Idle} \cup Saves
      BY DEF SettingsIInv
    <3>2. CASE pending[q] \in Saves
      <4> DEFINE x == pending[q]
      <4>1. [x EXCEPT !.stale = TRUE] \in Saves
        BY <3>2, SavesFacts
      <4> QED BY <3>2, <4>1 DEF Others
    <3>3. CASE pending[q] = Idle
      <4>1. pending[q].phase = "idle"
        BY <3>3 DEF Idle
      <4> QED BY <3>3, <4>1 DEF Others
    <3> QED BY <3>1, <3>2, <3>3
  <2>2. Others(p) \in [Server -> {Idle} \cup Saves]
    BY <2>1 DEF Others
  <2> QED BY <1>1, <2>2
<1>9. ASSUME NEW q \in Server, Saving(q)' PROVE pending'[q].stale /\ foreign'[q]
  <2>1. q # p
    BY <1>8, <1>9 DEF Saving
  <2>2. pending'[q] = Others(p)[q]
    BY <1>1, <2>1 DEF Others
  <2>3. pending[q] \in Saves
    <3>1. CASE pending[q] = Idle
      <4>1. pending[q].phase = "idle"
        BY <3>1 DEF Idle
      <4>2. Others(p)[q] = Idle
        BY <3>1, <4>1 DEF Others
      <4> QED BY <1>9, <2>2, <4>2 DEF Saving
    <3> QED BY <3>1 DEF SettingsIInv
  <2> DEFINE x == pending[q]
  <2>4. [x EXCEPT !.stale = TRUE].stale /\ x.phase # "idle"
    BY <2>3, SavesFacts
  <2>5. pending'[q].stale
    BY <2>1, <2>2, <2>4 DEF Others
  <2>6. foreign'[q] = TRUE
    BY <1>1, <2>1
  <2> QED BY <2>5, <2>6
<1> HIDE DEF next, follows
<1>10. root' \in [Server -> Uri \cup {NoUri}]
  <2>1. ResolveRoot(p, next) \in Uri \cup {NoUri}
    BY <1>4, RootFacts
  <2> QED BY <1>2, <2>1 DEF SettingsIInv
<1>11. foreign' \in [Server -> BOOLEAN]
  <2>1. (foreign[p] /\ ~follows) \in BOOLEAN
    BY Zenon
  <2> QED BY <1>1, <2>1, Zenon
<1>12. ASSUME NEW q \in Server PROVE foreign'[q] \/ root'[q] = ResolveRoot(q, Load')
  <2>1. CASE q # p
    <3>1. foreign'[q] = TRUE
      BY <1>1, <2>1
    <3> QED BY <3>1
  <2>2. CASE q = p
    <3>1. foreign'[p] <=> foreign[p] /\ ~follows
      BY <1>1
    <3>2. follows => root'[p] = ResolveRoot(p, next)
      BY <1>2 DEF SettingsIInv
    <3>3. ~follows => root'[p] = root[p]
      BY <1>2
    <3> QED BY <1>5, <1>7, <2>2, <3>1, <3>2, <3>3
  <2> QED BY <2>1, <2>2
<1>13. disk' \in Raw /\ OncePerUri(disk'.conns) /\ saver' \in BOOLEAN /\ Whole(disk')
  BY <1>1, <1>4 DEF Whole
<1>14. panels' \in [Server -> Uri \cup {Main}] /\ menu' \subseteq Made /\ edits' \in Nat
  BY <1>1 DEF SettingsIInv
<1> QED BY <1>8, <1>9, <1>10, <1>11, <1>12, <1>13, <1>14 DEF SettingsIInv

\* A hand spoils the file, and everybody's view of it.
LEMMA EditByHandStep ==
    ASSUME SettingsIInv, EditByHand
    PROVE  SettingsIInv'
<1>1. /\ saver' = FALSE /\ root' = root /\ panels' = panels /\ menu' = menu
      /\ edits' = edits + 1 /\ foreign' = [q \in Server |-> TRUE]
      /\ pending' = [q \in Server |->
            IF pending[q] = Idle THEN Idle ELSE [pending[q] EXCEPT !.stale = TRUE]]
  BY DEF EditByHand
<1>2. ASSUME NEW q \in Server
      PROVE  pending'[q] \in {Idle} \cup Saves /\ (Saving(q)' => pending'[q].stale)
  <2>1. CASE pending[q] = Idle
    BY <1>1, <2>1 DEF Saving
  <2>2. CASE pending[q] # Idle
    <3> DEFINE x == pending[q]
    <3>1. x \in Saves
      BY <2>2 DEF SettingsIInv
    <3>2. [x EXCEPT !.stale = TRUE] \in Saves /\ [x EXCEPT !.stale = TRUE].stale
      BY <3>1, SavesFacts
    <3>3. pending'[q] = [x EXCEPT !.stale = TRUE]
      BY <1>1, <2>2
    <3> QED BY <3>2, <3>3
  <2> QED BY <2>1, <2>2
<1>3. pending' \in [Server -> {Idle} \cup Saves]
  BY <1>1, <1>2
<1>4. \A q \in Server : foreign'[q] = TRUE
  BY <1>1
<1>5. disk' \in {Absent, Garbled} \/ (disk' \in Raw /\ OncePerUri(disk'.conns))
  <2>1. CASE disk' = Garbled
    BY <2>1
  <2>2. ASSUME NEW id \in Ids, disk' = [Load EXCEPT !.conns = Append(@, Broken), !.active = id]
        PROVE  disk' \in Raw /\ OncePerUri(disk'.conns)
    <3> DEFINE loaded == Load
               conns == loaded.conns
               longer == Append(conns, Broken)
               any == Made \cup {Broken}
    <3>1. Whole(loaded) /\ loaded \in Raw
      <4>1. Whole(Load)
        BY LoadFacts DEF SettingsIInv
      <4> HIDE DEF loaded
      <4>2. Whole(loaded)
        BY <4>1 DEF loaded
      <4> QED BY <4>2, WholeFacts
    <3>2. disk' = [loaded EXCEPT !.conns = longer, !.active = id]
      BY <2>2
    <3> HIDE DEF loaded
    <3>3. conns \in Seq(any) /\ Broken \in any /\ OncePerUri(conns)
      BY <3>1 DEF Whole, Raw
    <3> HIDE DEF conns, any
    <3>4. /\ longer \in Seq(any) /\ DOMAIN conns = 1 .. Len(conns) /\ Len(conns) \in Nat
          /\ DOMAIN longer = 1 .. Len(conns) + 1
          /\ \A n \in 1 .. Len(conns) : longer[n] = conns[n]
          /\ longer[Len(conns) + 1] = Broken
      BY <3>3, AppendFacts
    <3> HIDE DEF longer
    <3>5. OncePerUri(longer)
      <4> SUFFICES ASSUME NEW i \in DOMAIN longer, NEW j \in DOMAIN longer,
                          i # j, longer[i] # Broken, longer[j] # Broken
                   PROVE  longer[i].uri # longer[j].uri
        BY DEF OncePerUri
      <4>1. i \in DOMAIN conns /\ j \in DOMAIN conns
        BY <3>4
      <4>2. longer[i] = conns[i] /\ longer[j] = conns[j]
        BY <3>4, <4>1
      <4> QED BY <3>3, <4>1, <4>2 DEF OncePerUri
    <3>6. disk' \in Raw /\ disk'.conns = longer
      BY <3>1, <3>2, <3>4 DEF Raw, any
    <3> QED BY <3>5, <3>6
  <2> QED BY <2>1, <2>2 DEF EditByHand
<1>6. foreign' \in [Server -> BOOLEAN]
  BY <1>1
<1>7. saver' \in BOOLEAN /\ ~saver'
  BY <1>1
<1>8. /\ root' \in [Server -> Uri \cup {NoUri}] /\ panels' \in [Server -> Uri \cup {Main}]
      /\ menu' \subseteq Made /\ edits' \in Nat
  BY <1>1 DEF SettingsIInv
<1> QED BY <1>2, <1>3, <1>4, <1>5, <1>6, <1>7, <1>8 DEF SettingsIInv

\* Every step of the processes, of a hand and of the menu.
LEMMA SettingsStep == SettingsIInv /\ [SettingsNext]_settingsVars => SettingsIInv'
<1> SUFFICES ASSUME SettingsIInv, [SettingsNext]_settingsVars PROVE SettingsIInv'
  OBVIOUS
<1>1. CASE UNCHANGED settingsVars
  <2>1. /\ disk' = disk /\ saver' = saver /\ pending' = pending /\ root' = root
        /\ panels' = panels /\ foreign' = foreign /\ menu' = menu /\ edits' = edits
    BY <1>1 DEF settingsVars
  <2>2. \A q \in Server : Saving(q)' => Saving(q)
    BY <2>1 DEF Saving
  <2>3. /\ edits' \in Nat /\ root' \in [Server -> Uri \cup {NoUri}]
        /\ foreign' \in [Server -> BOOLEAN] /\ panels' \in [Server -> Uri \cup {Main}]
        /\ pending' \in [Server -> {Idle} \cup Saves] /\ menu' \subseteq Made
    BY <2>1 DEF SettingsIInv
  <2> QED BY <2>1, <2>2, <2>3, SameFile
<1>2. ASSUME NEW p \in Server, NEW r \in Request, Begin(p, r) PROVE SettingsIInv'
  BY <1>2, BeginStep
<1>3. ASSUME NEW p \in Server, WriteTemporary(p) PROVE SettingsIInv'
  BY <1>3, WriteTemporaryStep
<1>4. ASSUME NEW p \in Server, Replace(p) PROVE SettingsIInv'
  BY <1>4, ReplaceStep
<1>5. ASSUME NEW p \in Server, SaveFails(p) PROVE SettingsIInv'
  BY <1>5, SaveFailsStep
<1>6. ASSUME NEW p \in Server, ToolCall(p) PROVE SettingsIInv'
  BY <1>6, ToolCallStep
<1>7. ASSUME NEW p \in Server, Restart(p) PROVE SettingsIInv'
  BY <1>7, SettingsRestart
<1>8. CASE EditByHand
  BY <1>8, EditByHandStep
<1>9. CASE InstallMenu
  BY <1>9, InstallMenuStep
<1> QED BY <1>1, <1>2, <1>3, <1>4, <1>5, <1>6, <1>7, <1>8, <1>9 DEF SettingsNext

\* What the invariant says of the file, of its followers and of the menu.
LEMMA SettingsSafe == SettingsIInv => SettingsAreSound
<1> SUFFICES ASSUME SettingsIInv PROVE SettingsAreSound
  OBVIOUS
<1> DEFINE loaded == Load
<1>1. Whole(loaded)
  <2>1. Whole(Load)
    BY LoadFacts DEF SettingsIInv
  <2> QED BY <2>1
<1>2. disk \in {Absent, Garbled} \/ FromDict(disk) \in Values
  <2> DEFINE value == FromDict(disk)
  <2>1. disk \notin {Absent, Garbled} => Whole(value)
    BY FromDictFacts DEF SettingsIInv
  <2> HIDE DEF value
  <2>2. disk \notin {Absent, Garbled} => value \in Values
    BY <2>1, WholeFacts
  <2> QED BY <2>2 DEF value
<1>3. ASSUME NEW p \in Server, pending[p].phase # "idle"
      PROVE  /\ pending[p].phase \in {"loaded", "written"}
             /\ pending[p].request \in Request /\ pending[p].next \in Values
             /\ pending[p].stale \in BOOLEAN
  <2>1. pending[p] # Idle
    <3>1. Idle.phase = "idle"
      BY DEF Idle
    <3> QED BY <1>3, <3>1
  <2>2. pending[p] \in Saves
    BY <2>1 DEF SettingsIInv
  <2> QED BY <2>2 DEF Saves
<1>4. SettingsTypeOK
  <2>1. menu \subseteq Connection
    BY MadeFacts DEF SettingsIInv
  <2> QED BY <1>2, <1>3, <2>1 DEF SettingsTypeOK, SettingsIInv
<1>5. saver => disk \notin {Absent, Garbled} /\ FromDict(disk) = disk
  BY WholeFacts DEF SettingsIInv
<1> HIDE DEF loaded
<1> DEFINE conns == loaded.conns
<1>6. conns \in Seq(Made) /\ OncePerUri(conns)
  BY <1>1 DEF Whole
<1>7. Listed(conns) \subseteq Made /\ \A i \in DOMAIN conns : conns[i] \in Made
  BY <1>6, LenProperties DEF Listed
<1> HIDE DEF conns
<1>8. \A i, j \in DOMAIN conns : i # j => conns[i].uri # conns[j].uri
  BY <1>6, <1>7, MadeFacts DEF OncePerUri
<1>9. \A item \in menu, c \in Listed(conns) : item.id = c.id => item.uri = c.uri
  <2> SUFFICES ASSUME NEW item \in menu, NEW c \in Listed(conns), item.id = c.id
               PROVE  item.uri = c.uri
    OBVIOUS
  <2>1. item \in Made /\ c \in Made
    BY <1>7 DEF SettingsIInv
  <2>2. item = c
    BY <2>1, MadeFacts
  <2> QED BY <2>2
<1>10. ASSUME NEW p \in Server, NEW c \in Listed(conns)
       PROVE  Pinning(p, loaded, c.id).uri = c.uri
  <2> DEFINE asked == {d \in Listed(conns) : d.id = c.id}
             one == CHOOSE d \in asked : TRUE
             uri == IF asked # {} THEN one.uri ELSE ResolveRoot(p, loaded)
  <2>1. c \in asked
    OBVIOUS
  <2>2. one \in asked
    BY <2>1
  <2>3. one = c
    <3>1. one \in Made /\ c \in Made /\ one.id = c.id
      BY <1>7, <2>2
    <3> HIDE DEF one
    <3> QED BY <3>1, MadeFacts
  <2>4. uri = c.uri /\ c.uri # NoUri
    <3>1. c \in Made
      BY <1>7
    <3>2. c.uri \in Uri
      BY <3>1, MadeFacts
    <3> QED BY <2>1, <2>3, <3>2, SettingsAssumption
  <2>5. Pinning(p, loaded, c.id) = IF uri = NoUri THEN [mode |-> "none", uri |-> NoUri]
                                                  ELSE [mode |-> "connection", uri |-> uri]
    BY DEF Pinning, conns
  <2> HIDE DEF uri
  <2> QED BY <2>4, <2>5
<1>11. \A p \in Server : ~foreign[p] => root[p] = ResolveRoot(p, loaded)
  BY DEF SettingsIInv, loaded
<1> QED BY <1>4, <1>5, <1>8, <1>9, <1>10, <1>11 DEF SettingsAreSound, loaded, conns

\* A connection is lost by a removal, by a hand, or by a save that was stale.
LEMMA SettingsLose ==
    SettingsIInv /\ [SettingsNext]_settingsVars =>
        [\A c \in Listed(Load.conns) \ Listed(Load'.conns) :
            \/ edits' # edits
            \/ \E p \in Server :
                  /\ pending[p].phase = "written" /\ pending'[p] = Idle
                  /\ \/ pending[p].stale
                     \/ pending[p].request.op = "remove"
                        /\ pending[p].request.id = c.id]_settingsVars
<1> SUFFICES ASSUME SettingsIInv, SettingsNext,
                    NEW c \in Listed(Load.conns) \ Listed(Load'.conns), edits' = edits
             PROVE  \E p \in Server :
                       /\ pending[p].phase = "written" /\ pending'[p] = Idle
                       /\ \/ pending[p].stale
                          \/ pending[p].request.op = "remove"
                             /\ pending[p].request.id = c.id
  OBVIOUS
<1>1. disk' # disk
  BY DEF Load
<1>2. ~EditByHand
  <2>1. EditByHand => edits' = edits + 1
    BY DEF EditByHand
  <2>2. edits \in Nat
    BY DEF SettingsIInv
  <2> QED BY <2>1, <2>2
<1>3. PICK p \in Server : Replace(p)
  BY <1>1, <1>2 DEF SettingsNext, Begin, WriteTemporary, SaveFails, ToolCall, Restart,
                    InstallMenu
<1> DEFINE old == pending[p]
           loaded == Load
           r == old.request
           next == old.next
<1>4. old \in Saves /\ old.phase = "written" /\ disk' = next
  <2>1. old.phase = "written" /\ old \in {Idle} \cup Saves
    BY <1>3 DEF Replace, SettingsIInv
  <2>2. Idle.phase = "idle"
    BY DEF Idle
  <2> QED BY <1>3, <2>1, <2>2 DEF Replace
<1>5. pending'[p] = Idle
  BY <1>3 DEF Replace, Others, SettingsIInv
<1>6. ASSUME ~old.stale PROVE r.op = "remove" /\ r.id = c.id
  <2>1. next = Change(Load, r) /\ old # Idle
        /\ (r.op \in {"activate", "remove"} => r.id \in IdsOf(Load))
    BY <1>4, <1>6, SavesFacts DEF SettingsIInv, Saving
  <2>2. r \in Request /\ Whole(next)
    BY <1>4, SavesFacts
  <2>3. Whole(Load)
    BY LoadFacts DEF SettingsIInv
  <2>4. next = Change(loaded, r) /\ Whole(loaded)
        /\ (r.op \in {"activate", "remove"} => r.id \in IdsOf(loaded))
    BY <2>1, <2>3
  <2> HIDE DEF loaded, next, r
  <2>5. Load' = next
    <3>1. next \notin {Absent, Garbled} /\ FromDict(next) = next
      BY <2>2, WholeFacts
    <3> QED BY <1>4, <3>1 DEF Load
  <2>6. c \in Listed(loaded.conns) \ Listed(next.conns)
    BY <2>5 DEF loaded
  <2> DEFINE after == Change(loaded, r)
  <2>7. \A d \in Listed(loaded.conns) \ Listed(after.conns) : r.op = "remove" /\ r.id = d.id
    BY <2>2, <2>4, ChangeFacts
  <2>8. after = next
    BY <2>4
  <2> HIDE DEF after
  <2> QED BY <2>6, <2>7, <2>8
<1> QED BY <1>4, <1>5, <1>6

--------------------------------------------------------------------------
(* Proofs: the answer cache. *)

\* Nothing is kept or asked at the start.
LEMMA CacheInit_ == CacheInit => CacheIInv
<1> USE CacheAssumption
<1> SUFFICES ASSUME CacheInit PROVE CacheIInv
  OBVIOUS
<1>1. [life |-> 1, number |-> 1] \in Version
  BY DEF Version
<1>2. entry \in [1..Numbers -> Version \cup {NoAnswer}]
      /\ \A n \in 1..Numbers : entry[n] = NoAnswer
  BY DEF CacheInit
<1> QED BY <1>1, <1>2 DEF CacheInit, CacheIInv, Quiet

\* Whoever asks, writes, sweeps, reopens or remakes the table keeps the cache's invariant.
LEMMA CacheStep == CacheIInv /\ [CacheNext]_cacheVars => CacheIInv'
<1> USE CacheAssumption
<1> SUFFICES ASSUME CacheIInv, [CacheNext]_cacheVars PROVE CacheIInv'
  OBVIOUS
<1> USE DEF CacheIInv
<1>1. CASE UNCHANGED cacheVars
  BY <1>1 DEF cacheVars, Quiet, Files
<1>2. CASE WriteTable
  <2>1. table'.number = table.number + 1 /\ table'.life = table.life /\ table' \in Version
    BY <1>2 DEF WriteTable, Version
  <2> QED BY <1>2, <2>1 DEF WriteTable, Files
<1>3. CASE RemakeTable
  <2>1. table' \in Version
    BY <1>3 DEF RemakeTable, Version
  <2> QED BY <1>3, <2>1 DEF RemakeTable, Files
<1>4. CASE Sweep
  BY <1>4 DEF Sweep, Files
<1>5. ASSUME NEW file \in sweep, SweepOne(file) PROVE CacheIInv'
  <2>1. /\ table' = table /\ handle' = handle /\ asking' = asking /\ answered' = answered
        /\ sweep' \subseteq Files /\ temporary' \subseteq Reader
    BY <1>5 DEF SweepOne, Files
  <2>2. file[1] = "entry" => file[2] \in 1..Numbers
    BY <1>5 DEF Files
  <2>3. \/ entry' = entry
        \/ file[2] \in 1..Numbers /\ entry' = [entry EXCEPT ![file[2]] = NoAnswer]
    BY <1>5, <2>2 DEF SweepOne
  <2>4. /\ entry' \in [1..Numbers -> Version \cup {NoAnswer}]
        /\ \A n \in 1..Numbers : entry'[n] # NoAnswer => entry'[n] = entry[n]
    BY <2>3
  <2> QED BY <2>1, <2>4 DEF Files
<1>6. ASSUME NEW p \in Reader, Reopen(p) PROVE CacheIInv'
  BY <1>6 DEF Reopen, Files
<1>7. ASSUME NEW p \in Reader, AskCached(p) PROVE CacheIInv'
  <2>1. Key(handle[p]) \in 1..Numbers /\ Key(handle[p]) = handle[p].number
    BY DEF Key, Version
  <2>2. answered' = [gave |-> entry[Key(handle[p])], for |-> handle[p]]
        /\ entry[Key(handle[p])] # NoAnswer
    BY <1>7 DEF AskCached, Gives
  <2>3. answered'.gave.number = answered'.for.number
    BY <2>1, <2>2
  <2> QED BY <1>7, <2>3 DEF AskCached, Files
<1>8. ASSUME NEW p \in Reader, MakeTemporary(p) PROVE CacheIInv'
  <2>1. asking[p] \in [step : {"made", "written"}]
    BY <1>8 DEF MakeTemporary, Quiet
  <2>2. asking' \in [Reader -> {Quiet} \cup [step : {"made", "written"}]]
    BY <1>8, <2>1 DEF MakeTemporary
  <2> QED BY <1>8, <2>2 DEF MakeTemporary, Files
<1>9. ASSUME NEW p \in Reader, Keep(p) PROVE CacheIInv'
  <2>1. handle[p] \in Version /\ Key(handle[p]) \in 1..Numbers
        /\ Key(handle[p]) = handle[p].number
    BY DEF Key, Version
  <2>2. entry' = entry \/ entry' = [entry EXCEPT ![Key(handle[p])] = handle[p]]
    BY <1>9 DEF Keep
  <2>3. /\ entry' \in [1..Numbers -> Version \cup {NoAnswer}]
        /\ \A n \in 1..Numbers : entry'[n] # NoAnswer => entry'[n].number = n
    BY <2>1, <2>2
  <2>4. asking' \in [Reader -> {Quiet} \cup [step : {"made", "written"}]]
    BY <1>9 DEF Keep
  <2> QED BY <1>9, <2>3, <2>4 DEF Keep, Files
<1>10. ASSUME NEW p \in Reader, ReaderRestarts(p) PROVE CacheIInv'
  BY <1>10 DEF ReaderRestarts, Files
<1>11. ASSUME NEW p \in Reader, NEW refresh \in BOOLEAN, NEW worthKeeping \in BOOLEAN,
              AskModel(p, refresh, worthKeeping)
       PROVE  CacheIInv'
  <2>1. answered' = [gave |-> handle[p], for |-> handle[p]]
    BY <1>11 DEF AskModel, Gives
  <2>2. asking' \in [Reader -> {Quiet} \cup [step : {"made", "written"}]]
    BY <1>11 DEF AskModel
  <2> QED BY <1>11, <2>1, <2>2 DEF AskModel, Files
<1> QED BY <1>1, <1>2, <1>3, <1>4, <1>5, <1>6, <1>7, <1>8, <1>9, <1>10, <1>11 DEF CacheNext

\* The invariant keeps what is given about the version it is given for.
LEMMA CacheSafe == CacheIInv => AnswersAreAboutTheirVersion
<1> SUFFICES ASSUME CacheIInv PROVE AnswersAreAboutTheirVersion
  OBVIOUS
<1>1. \A n \in 1..Numbers : entry[n] # Torn
  BY DEF CacheIInv, Version, NoAnswer, Torn
<1> QED BY <1>1 DEF CacheIInv, AnswersAreAboutTheirVersion

--------------------------------------------------------------------------
(* Proofs: the limits of a public demo. *)

\* What a span of ticks brings to the purse, and to a visitor over it.
LEMMA GainFacts ==
    /\ Gain \in Nat /\ Rate <= GlobalRate + Gain
    /\ \A n \in Nat : n * Gain \in Nat /\ (n + 1) * Gain = n * Gain + Gain
    /\ \A n \in Nat \ {0} : /\ (n - 1) * GlobalRate \in Nat
                          /\ n * GlobalRate = (n - 1) * GlobalRate + GlobalRate
<1> USE KioskAssumption
<1>1. Gain \in Nat /\ Rate <= GlobalRate + Gain
  BY DEF Gain
<1>2. ASSUME NEW g \in Nat, NEW n \in Nat
      PROVE  n * g \in Nat /\ (n + 1) * g = n * g + g
  OBVIOUS
<1>3. ASSUME NEW n \in Nat \ {0}
      PROVE  /\ (n - 1) * GlobalRate \in Nat
             /\ n * GlobalRate = (n - 1) * GlobalRate + GlobalRate
  OBVIOUS
<1> QED BY <1>1, <1>2, <1>3

\* The purse is full at the start and nothing was served.
LEMMA KioskInit_ == KioskInit => KioskIInv
<1> USE KioskAssumption
<1> SUFFICES ASSUME KioskInit PROVE KioskIInv
  OBVIOUS
<1>1. Full \in Nat /\ GlobalFull \in Nat
  BY DEF Full, GlobalFull
<1>2. IsFiniteSet({})
  BY FS_EmptySet
<1>3. \A n \in 1..Window : served[n] * Cost + shared <= GlobalFull + (n - 1) * GlobalRate
  <2>1. \A n \in 1..Window : (n - 1) * GlobalRate \in Nat
    BY GainFacts
  <2> QED BY <1>1, <2>1 DEF KioskInit
<1> QED BY <1>1, <1>2, <1>3 DEF KioskInit, KioskIInv

\* A tick refills the purse and makes everything served a tick older; a request pays.
LEMMA KioskStep == KioskIInv /\ [KioskNext]_kioskVars => KioskIInv'
<1> USE KioskAssumption
<1> SUFFICES ASSUME KioskIInv, [KioskNext]_kioskVars PROVE KioskIInv'
  OBVIOUS
<1>1. /\ Full \in Nat /\ GlobalFull \in Nat /\ Cost \in Nat \ {0}
      /\ shared \in Nat /\ shared <= GlobalFull
      /\ \A a \in Address : heavy[a] \in Nat /\ heavy[a] <= Full
  BY DEF Full, GlobalFull, KioskIInv
<1>2. CASE UNCHANGED kioskVars
  BY <1>2 DEF kioskVars, KioskIInv
<1>3. CASE Tick
  <2>1. /\ shared' \in 0..GlobalFull /\ shared' <= shared + GlobalRate
        /\ shared' = GlobalFull \/ shared' = shared + GlobalRate
        /\ heavy' \in [Address -> 0..Full]
        /\ \A a \in Address : heavy'[a] >= heavy[a] /\ heavy'[a] <= heavy[a] + Rate
    BY <1>1, <1>3 DEF Tick, NoMore, KioskIInv
  <2>2. served' \in [1..Window -> Nat]
    BY <1>3 DEF Tick, KioskIInv
  <2>3. ASSUME NEW n \in 1..Window
        PROVE  served'[n] * Cost + shared' <= GlobalFull + (n - 1) * GlobalRate
    <3>1. CASE n = 1
      <4>1. served'[n] * Cost = 0 /\ (n - 1) * GlobalRate = 0
        BY <1>3, <3>1 DEF Tick
      <4> QED BY <1>1, <2>1, <4>1
    <3>2. CASE n # 1
      <4>1. n - 1 \in 1..Window /\ served'[n] = served[n - 1] /\ served[n - 1] \in Nat
        BY <1>3, <3>2 DEF Tick, KioskIInv
      <4>2. served[n - 1] * Cost + shared <= GlobalFull + (n - 1 - 1) * GlobalRate
        BY <4>1 DEF KioskIInv
      <4> DEFINE units == served[n - 1] * Cost
                 brought == (n - 1 - 1) * GlobalRate
      <4>3. units \in Nat /\ brought \in Nat /\ (n - 1) * GlobalRate = brought + GlobalRate
        BY <1>1, <4>1, GainFacts
      <4>4. units + shared <= GlobalFull + brought /\ served'[n] * Cost = units
        BY <4>1, <4>2
      <4> HIDE DEF units, brought
      <4> QED BY <1>1, <2>1, <4>3, <4>4
    <3> QED BY <3>1, <3>2
  <2>4. askers' = {} => shared' = GlobalFull
    BY <1>1, <1>3, <2>1 DEF Tick, KioskIInv
  <2>5. ASSUME NEW a \in Address, askers' = {a}
        PROVE  GlobalFull - shared' <= Full - heavy'[a] + ticks' * Gain
    <3> DEFINE gained == ticks * Gain
    <3>1. GlobalFull - shared <= Full - heavy[a] + gained
      BY <1>3, <2>5 DEF Tick, KioskIInv
    <3>2. heavy'[a] \in 0..Full /\ heavy'[a] <= heavy[a] + Rate
      BY <2>1
    <3>3. gained \in Nat /\ ticks' * Gain = gained + Gain
      BY <1>3, GainFacts DEF Tick, KioskIInv
    <3> HIDE DEF gained
    <3> QED BY <1>1, <2>1, <3>1, <3>2, <3>3, GainFacts
  <2>6. ticks' \in Nat
    BY <1>3 DEF Tick, KioskIInv
  <2> QED BY <1>3, <2>1, <2>2, <2>3, <2>4, <2>5, <2>6 DEF Tick, KioskIInv
<1>4. ASSUME NEW a \in Address, LimitHeavy(a) PROVE KioskIInv'
  <2> DEFINE now == Swept
             own == now.at[a] < Cost
             atWork == shared < Cost
  <2>1. /\ heavy' = IF own THEN now.at ELSE [now.at EXCEPT ![a] = @ - Cost]
        /\ shared' = IF own \/ atWork THEN shared ELSE shared - Cost
        /\ tracked' = now.of \cup {a} /\ askers' = askers \cup {a}
        /\ served' = IF own \/ atWork THEN served ELSE OneMore
    BY <1>4 DEF LimitHeavy
  <2>2. /\ now.at \in [Address -> 0..Full] /\ now.of \subseteq askers
        /\ now.at[a] \in Nat
    BY <1>1 DEF Swept, KioskIInv
  <2>3. askers \subseteq {a} => now.at = heavy
    <3>1. Cardinality({a}) = 1 /\ Cardinality({}) = 0
      BY FS_Singleton, FS_EmptySet
    <3>2. askers \subseteq {a} => tracked = {} \/ tracked = {a}
      BY DEF KioskIInv
    <3>3. askers \subseteq {a} => ~(Cardinality(tracked) > MaxTracked)
      BY <3>1, <3>2
    <3> QED BY <3>3 DEF Swept
  <2> HIDE DEF now
  <2>4. /\ shared' \in 0..GlobalFull /\ heavy' \in [Address -> 0..Full]
    BY <1>1, <2>1, <2>2
  <2>5. served' \in [1..Window -> Nat]
    <3>1. served \in [1..Window -> Nat]
      BY DEF KioskIInv
    <3>2. OneMore \in [1..Window -> Nat]
      BY <3>1 DEF OneMore
    <3>3. served' = served \/ served' = OneMore
      BY <2>1
    <3> QED BY ONLY <3>1, <3>2, <3>3
  <2>6. ASSUME NEW n \in 1..Window
        PROVE  served'[n] * Cost + shared' <= GlobalFull + (n - 1) * GlobalRate
    <3>1. served[n] \in Nat /\ served[n] * Cost + shared <= GlobalFull + (n - 1) * GlobalRate
      BY DEF KioskIInv
    <3>2. CASE own \/ atWork
      BY <2>1, <3>1, <3>2
    <3>3. CASE ~(own \/ atWork)
      <4>1. served'[n] = served[n] + 1 /\ shared' = shared - Cost
        BY <2>1, <3>3 DEF OneMore
      <4>2. (served[n] + 1) * Cost = served[n] * Cost + Cost
        BY <1>1, <3>1
      <4> DEFINE units == served[n] * Cost
                 brought == (n - 1) * GlobalRate
      <4>3. units \in Nat /\ brought \in Nat
        BY <1>1, <3>1, GainFacts
      <4>4. units + shared <= GlobalFull + brought /\ served'[n] * Cost = units + Cost
        BY <3>1, <4>1, <4>2
      <4> HIDE DEF units, brought
      <4>5. served'[n] * Cost + shared' <= GlobalFull + brought
        BY <1>1, <4>1, <4>3, <4>4
      <4> QED BY <4>5 DEF brought
    <3> QED BY <3>2, <3>3
  <2>7. askers' # {} /\ askers' \subseteq Address /\ IsFiniteSet(askers')
    BY <2>1, FS_AddElement DEF KioskIInv
  <2>8. tracked' \subseteq askers'
    BY <2>1, <2>2
  <2>9. ASSUME NEW b \in Address, askers' = {b}
        PROVE  GlobalFull - shared' <= Full - heavy'[b] + ticks' * Gain
    <3> DEFINE gained == ticks * Gain
    <3>0. gained \in Nat /\ ticks' * Gain = gained
      BY <1>4, GainFacts DEF LimitHeavy, KioskIInv
    <3>1. b = a /\ askers \subseteq {a} /\ now.at = heavy
      BY <2>1, <2>3, <2>9
    <3>2. GlobalFull - shared <= Full - heavy[a] + gained
      <4>1. CASE askers = {}
        <5>1. shared = GlobalFull
          BY <4>1 DEF KioskIInv
        <5> HIDE DEF gained
        <5> QED BY <1>1, <3>0, <5>1
      <4>2. CASE askers = {a}
        BY <4>2 DEF KioskIInv
      <4> QED BY <3>1, <4>1, <4>2
    <3> HIDE DEF gained
    <3>3. CASE own
      BY <2>1, <3>0, <3>1, <3>2, <3>3
    <3>4. CASE ~own
      <4>1. heavy'[a] = heavy[a] - Cost /\ (shared' = shared \/ shared' = shared - Cost)
        BY <2>1, <2>2, <3>1, <3>4
      <4> QED BY <1>1, <3>0, <3>1, <3>2, <4>1
    <3> QED BY <3>3, <3>4
  <2>10. ticks' \in Nat
    BY <1>4 DEF LimitHeavy, KioskIInv
  <2> QED BY <2>4, <2>5, <2>6, <2>7, <2>8, <2>9, <2>10 DEF KioskIInv
<1> QED BY <1>2, <1>3, <1>4 DEF KioskNext

\* One purse, and the shared burst kept for others.
LEMMA KioskSafe == KioskIInv => AllowancesHold
<1> USE KioskAssumption
<1> SUFFICES ASSUME KioskIInv PROVE AllowancesHold
  OBVIOUS
<1>1. Full \in Nat /\ GlobalFull \in Nat /\ shared \in Nat
  BY DEF Full, GlobalFull, KioskIInv
<1>2. served[Window] * Cost <= GlobalFull + Window * GlobalRate
  <2>1. /\ served[Window] \in Nat
        /\ served[Window] * Cost + shared <= GlobalFull + (Window - 1) * GlobalRate
    BY DEF KioskIInv
  <2> DEFINE units == served[Window] * Cost
             brought == (Window - 1) * GlobalRate
  <2>2. units \in Nat /\ brought \in Nat /\ Window * GlobalRate = brought + GlobalRate
    BY <2>1, GainFacts
  <2>3. units + shared <= GlobalFull + brought
    BY <2>1
  <2> HIDE DEF units, brought
  <2>4. units <= GlobalFull + Window * GlobalRate
    BY <1>1, <2>2, <2>3
  <2> QED BY <2>4 DEF units
<1>3. ASSUME Cardinality(askers) = 1 PROVE GlobalFull - shared <= Full + ticks * Gain
  <2> DEFINE gained == ticks * Gain
  <2>0. gained \in Nat
    BY GainFacts DEF KioskIInv
  <2>1. PICK a : askers = {a}
    BY <1>3, FS_Singleton DEF KioskIInv
  <2>2. a \in Address /\ heavy[a] \in Nat /\ GlobalFull - shared <= Full - heavy[a] + gained
    BY <2>1 DEF KioskIInv
  <2> HIDE DEF gained
  <2>3. GlobalFull - shared <= Full + gained
    BY <1>1, <2>0, <2>2
  <2> QED BY <2>3 DEF gained
<1> QED BY <1>2, <1>3 DEF KioskIInv, AllowancesHold

--------------------------------------------------------------------------
(* Proofs: the operation plans. *)

\* Nothing a shelf keeps was not there before, but the plan it is given.
LEMMA RememberFacts ==
    ASSUME shelf \in Seq(Plan), NEW plan \in Plan
    PROVE  Remember(plan) \in Seq(Plan) /\ Entries(Remember(plan)) \subseteq Entries(shelf) \cup {plan}
<1> USE OperationsAssumption
<1> DEFINE same == {i \in DOMAIN shelf : PlanId(shelf[i]) = PlanId(plan)}
           at == CHOOSE i \in same : TRUE
           others == OtherPlans(plan)
           all == Append(others, plan)
<1>1. Len(shelf) \in Nat /\ DOMAIN shelf = 1..Len(shelf) /\ \A i \in 1..Len(shelf) : shelf[i] \in Plan
  BY LenProperties
<1>2. others \in Seq(Plan) /\ Entries(others) \subseteq Entries(shelf)
  <2>1. others = IF same = {} THEN shelf
                 ELSE [i \in 1..Len(shelf) - 1 |-> IF i < at THEN shelf[i] ELSE shelf[i + 1]]
    BY DEF OtherPlans
  <2> HIDE DEF at, others
  <2>2. CASE same = {}
    BY <2>1, <2>2
  <2>3. CASE same # {}
    <3>1. Len(shelf) - 1 \in Nat
      BY <1>1, <2>3
    <3>2. \A i \in 1..Len(shelf) - 1 : i \in 1..Len(shelf) /\ i + 1 \in 1..Len(shelf)
      BY <1>1
    <3>3. others = [i \in 1..Len(shelf) - 1 |-> IF i < at THEN shelf[i] ELSE shelf[i + 1]]
      BY <2>1, <2>3
    <3>4. \A i \in 1..Len(shelf) - 1 : others[i] = shelf[i] \/ others[i] = shelf[i + 1]
      BY <3>3
    <3>5. DOMAIN others = 1..Len(shelf) - 1
      BY <3>3
    <3>6. \A i \in 1..Len(shelf) - 1 : others[i] \in Plan /\ others[i] \in Entries(shelf)
      BY <1>1, <3>2, <3>4 DEF Entries
    <3>7. others \in [1..Len(shelf) - 1 -> Plan]
      BY <3>3, <3>6
    <3>8. others \in Seq(Plan)
      BY <3>1, <3>7, SeqDef
    <3> QED BY <3>5, <3>6, <3>8 DEF Entries
  <2> QED BY <2>2, <2>3
<1> HIDE DEF others
<1>3. /\ all \in Seq(Plan) /\ all # <<>> /\ Entries(all) = Entries(others) \cup {plan}
  BY <1>2, AppendFacts
<1>4. Remember(plan) = IF Len(all) > Shelf THEN Tail(all) ELSE all
  BY DEF Remember, others, all
<1> HIDE DEF all
<1>5. Tail(all) \in Seq(Plan) /\ Entries(Tail(all)) \subseteq Entries(all)
  BY <1>3, TailFacts
<1> QED BY <1>2, <1>3, <1>4, <1>5

\* Every planner says the truth of the version it looks at.
LEMMA BuildsAreTrue ==
    ASSUME PastTypes, NEW v \in 1..Latest(open), NEW plan \in Builds(past[open][v], v)
    PROVE  plan \in Plan /\ SaysTheTruth(plan)
<1> USE OperationsAssumption
<1> DEFINE c == past[open][v]
<1>1. /\ open \in Database /\ v \in Nat /\ Latest(open) \in 1..Versions /\ v \in 1..Versions
      /\ DOMAIN past[open] = 1..Latest(open)
      /\ \A w \in 1..Latest(open) : past[open][w] \in Content
  BY DEF PastTypes, Latest
<1>2. c \in Content /\ c.live \in Nat /\ c.dead \in Nat /\ c.fragments \in Nat /\ c.behind \in BOOLEAN
  BY <1>1 DEF Content
<1> DEFINE Honest == plan \in Plan /\ SaysTheTruth(plan)
<1>3. \A kind \in Kinds : plan = Unsupported(kind, v) => Honest
  <2> SUFFICES ASSUME NEW kind \in Kinds, plan = Unsupported(kind, v) PROVE Honest
    OBVIOUS
  <2>1. <<>> \in Seq(Nat \cup BOOLEAN)
    OBVIOUS
  <2>2. plan \in Plan
    BY <1>1, <2>1 DEF Unsupported, Plan
  <2> QED BY <1>1, <2>2 DEF Unsupported, SaysTheTruth, Ready, Latest
<1>4. CASE \E metric \in Metric : plan = BuildIndex(c, v, metric)
  <2>1. PICK metric \in Metric : plan = BuildIndex(c, v, metric)
    BY <1>4
  <2>2. <<c.live, c.fragments>> \in Seq(Nat \cup BOOLEAN)
    BY <1>2
  <2>3. plan \in Plan
    BY <1>1, <2>1, <2>2 DEF BuildIndex, Planned, Plan, Kinds
  <2>4. plan.at = v /\ plan.db = open /\ plan.kind = "index" /\ plan.script = "asserts" /\ plan.affected[1] = c.live
    BY <2>1 DEF BuildIndex, Planned
  <2> QED BY <1>1, <2>3, <2>4 DEF SaysTheTruth
<1>5. CASE \E to \in 1..Versions : plan = BuildRestore(c, v, to)
  <2>1. PICK to \in 1..Versions : plan = BuildRestore(c, v, to)
    BY <1>5
  <2>2. CASE to \notin Stored(open)
    BY <1>3, <2>1, <2>2 DEF BuildRestore, Kinds
  <2>3. CASE to \in Stored(open)
    <3>1. to \in 1..Latest(open) /\ past[open][to].live \in Nat
      BY <1>1, <2>3 DEF Stored, Content
    <3>2. <<v, to, c.live, past[open][to].live>> \in Seq(Nat \cup BOOLEAN)
      BY <1>1, <1>2, <3>1
    <3>3. plan = Planned("restore", v, to # v, <<v, to, c.live, past[open][to].live>>, TRUE, "opens", to)
      BY <2>1, <2>3 DEF BuildRestore
    <3>4. plan \in Plan
      BY <1>1, <3>1, <3>2, <3>3 DEF Planned, Plan, Kinds
    <3>5. plan.at = v /\ plan.db = open /\ plan.kind = "restore" /\ plan.option = to /\ plan.affected[4] = past[open][to].live
      BY <3>3 DEF Planned
    <3> QED BY <1>1, <3>1, <3>4, <3>5 DEF SaysTheTruth
  <2> QED BY <2>2, <2>3
<1>6. CASE plan = BuildCompact(c, v)
  <2>1. CASE open \in Blob
    BY <1>3, <1>6, <2>1 DEF BuildCompact, Kinds
  <2>2. CASE open \notin Blob
    <3>1. <<c.fragments, Physical(c), c.dead>> \in Seq(Nat \cup BOOLEAN)
      BY <1>2 DEF Physical
    <3>2. plan = Planned("compact", v, c.fragments > 1, <<c.fragments, Physical(c), c.dead>>, TRUE,
                         "asserts", 0)
      BY <1>6, <2>2 DEF BuildCompact
    <3>3. plan \in Plan
      BY <1>1, <3>1, <3>2 DEF Planned, Plan, Kinds
    <3>4. plan.at = v /\ plan.db = open /\ plan.kind = "compact" /\ plan.script = "asserts"
      BY <3>2 DEF Planned
    <3> QED BY <1>1, <3>3, <3>4 DEF SaysTheTruth
  <2> QED BY <2>1, <2>2
<1>7. CASE plan \in BuildCleanup(v)
  <2>1. Cardinality(Removable(open)) \in Nat /\ Cardinality(Stored(open)) \in Nat
    <3>1. Stored(open) \subseteq 1..Latest(open) /\ Removable(open) \subseteq 1..Latest(open)
      BY <1>1 DEF Stored, Removable
    <3>2. IsFiniteSet(1..Latest(open))
      BY <1>1, FS_Interval
    <3> QED BY <3>1, <3>2, FS_Subset, FS_CardinalityType
  <2>2. <<Cardinality(Removable(open)), Cardinality(Stored(open))>> \in Seq(Nat \cup BOOLEAN)
    BY <2>1
  <2>3. CASE plan = Unsupported("cleanup", v)
    BY <1>3, <2>3 DEF Kinds
  <2>4. CASE plan # Unsupported("cleanup", v)
    <3>1. PICK referenced \in BOOLEAN :
             plan = Planned("cleanup", v, Removable(open) # {} /\ ~referenced,
                            <<Cardinality(Removable(open)), Cardinality(Stored(open))>>, FALSE, "free", 0)
      BY <1>7, <2>4 DEF BuildCleanup
    <3>2. plan \in Plan
      BY <1>1, <2>2, <3>1 DEF Planned, Plan, Kinds
    <3>3. plan.at = v /\ plan.db = open /\ plan.kind = "cleanup"
      BY <3>1 DEF Planned
    <3> QED BY <1>1, <3>2, <3>3 DEF SaysTheTruth
  <2> QED BY <2>3, <2>4
<1>8. CASE plan = BuildFormat(c, v)
  <2>1. <<c.live, c.behind>> \in Seq(Nat \cup BOOLEAN)
    BY <1>2
  <2>2. plan \in Plan
    BY <1>1, <1>2, <1>8, <2>1 DEF BuildFormat, Planned, Plan, Kinds
  <2>3. plan.at = v /\ plan.db = open /\ plan.kind = "migrate-format"
    BY <1>8 DEF BuildFormat, Planned
  <2> QED BY <1>1, <2>2, <2>3 DEF SaysTheTruth
<1>9. \A kind \in {"migrate-copy", "migrate-schema", "migrate-embed"} :
        plan = Planned(kind, v, FALSE, <<c.live>>, TRUE, "asserts", 0) => Honest
  <2> SUFFICES ASSUME NEW kind \in {"migrate-copy", "migrate-schema", "migrate-embed"},
                      plan = Planned(kind, v, FALSE, <<c.live>>, TRUE, "asserts", 0)
               PROVE  Honest
    OBVIOUS
  <2>1. <<c.live>> \in Seq(Nat \cup BOOLEAN)
    BY <1>2
  <2>2. plan \in Plan
    BY <1>1, <2>1 DEF Planned, Plan, Kinds
  <2>3. plan.at = v /\ plan.db = open /\ ~plan.holds
    BY DEF Planned
  <2>4. ~Ready(plan)
    BY <2>3 DEF Ready
  <2>5. plan.at <= Latest(plan.db)
    <3>1. v <= Latest(open)
      BY <1>1
    <3> QED BY <2>3, <3>1, Zenon
  <2>6. SaysTheTruth(plan)
    BY <2>4, <2>5 DEF SaysTheTruth
  <2> QED BY <2>2, <2>6
<1>10. CASE plan = BuildCopy(c, v) \/ plan = BuildSchema(c, v) \/ plan = BuildEmbed(c, v)
  <2> HIDE DEF Honest
  <2>1. \/ \E kind \in {"migrate-copy", "migrate-schema", "migrate-embed"} :
              plan = Planned(kind, v, FALSE, <<c.live>>, TRUE, "asserts", 0)
        \/ \E kind \in Kinds : plan = Unsupported(kind, v)
    BY <1>10 DEF BuildCopy, BuildSchema, BuildEmbed, Kinds
  <2>2. Honest
    BY <2>1, <1>3, <1>9
  <2> QED BY <2>2 DEF Honest
<1> QED BY <1>4, <1>5, <1>6, <1>7, <1>8, <1>10 DEF Builds

\* An empty shelf, and databases with one version each.
LEMMA OpsInit_ == OpsInit => OpsIInv
<1> USE OperationsAssumption
<1> SUFFICES ASSUME OpsInit PROVE OpsIInv
  OBVIOUS
<1> DEFINE first(db) == IF db \in Blob THEN [New EXCEPT !.embedder = FALSE, !.behind = FALSE] ELSE New
<1>1. New \in Content
  BY DEF New, Content
<1>2. \A db \in Database : /\ first(db) \in Content
                           /\ first(db).live = 2 /\ first(db).dead = 0 /\ first(db).fragments = 2
  <2> SUFFICES ASSUME NEW db \in Database
               PROVE  /\ first(db) \in Content
                      /\ first(db).live = 2 /\ first(db).dead = 0 /\ first(db).fragments = 2
    OBVIOUS
  <2>1. New.live = 2 /\ New.dead = 0 /\ New.fragments = 2
    BY DEF New
  <2>2. CASE db \in Blob
    <3>1. first(db) = [New EXCEPT !.embedder = FALSE, !.behind = FALSE]
      BY <2>2
    <3>2. first(db) = [live |-> 2, dead |-> 0, fragments |-> 2, index |-> "none", behind |-> FALSE,
                       columns |-> 1, embedder |-> FALSE]
      BY <3>1 DEF New
    <3> HIDE DEF first
    <3> QED BY <3>2 DEF Content
  <2>3. CASE db \notin Blob
    BY <1>1, <2>1, <2>3
  <2> QED BY <2>2, <2>3
<1>3. past = [db \in Database |-> <<first(db)>>]
  BY DEF OpsInit
<1> HIDE DEF first
<1>4. \A db \in Database : /\ past[db] \in Seq(Content) /\ Len(past[db]) = 1
                           /\ past[db][1] = first(db)
  <2> SUFFICES ASSUME NEW db \in Database
               PROVE  past[db] \in Seq(Content) /\ Len(past[db]) = 1 /\ past[db][1] = first(db)
    OBVIOUS
  <2>1. past[db] = <<first(db)>> /\ first(db) \in Content
    BY <1>2, <1>3
  <2> QED BY <2>1
<1>5. past \in [Database -> Seq(Content)]
  BY <1>3, <1>4
<1>6. pruned = [db \in Database |-> {}] /\ open \in Database /\ pinned = 0 /\ shelf = <<>> /\ ran = Nothing
  BY DEF OpsInit
<1>7. PastTypes
  <2>1. \A db \in Database : Latest(db) = 1
    BY <1>4 DEF Latest
  <2>2. ASSUME NEW db \in Database, NEW v \in 1..Latest(db)
        PROVE  past[db][v].live <= v + 1 /\ past[db][v].dead < v /\ past[db][v].fragments <= v + 1
    <3>1. v = 1
      BY <2>1
    <3> QED BY <1>2, <1>4, <3>1
  <2>3. pruned \in [Database -> SUBSET (1..Versions)] /\ \A db \in Database : pruned[db] = {}
    BY <1>6
  <2>4. pinned \in 0..Latest(open)
    BY <1>6, <2>1
  <2> QED BY <1>5, <1>6, <2>1, <2>2, <2>3, <2>4 DEF PastTypes
<1>8. ShelfIsTrue
  BY <1>6 DEF ShelfIsTrue
<1>9. RanAsPromised
  BY <1>6 DEF RanAsPromised, Nothing
<1> QED BY <1>7, <1>8, <1>9 DEF OpsIInv

\* A version, once written, stays as it is.
VersionsStay ==
    \A db \in Database : /\ Len(past[db]) <= Len(past'[db])
                         /\ \A v \in 1..Len(past[db]) : past'[db][v] = past[db][v]

\* One more version of a table, within the bounds of its number.
LEMMA Growth ==
    ASSUME PastTypes, NEW db \in Database, NEW c \in Content, Latest(db) < Versions,
           c.live <= Latest(db) + 2, c.dead <= Latest(db), c.fragments <= Latest(db) + 2,
           past' = [past EXCEPT ![db] = Append(@, c)],
           UNCHANGED <<pruned, open, pinned>>
    PROVE  PastTypes' /\ VersionsStay /\ past'[db][Len(past'[db])] = c
<1> USE OperationsAssumption
<1> DEFINE more == Append(past[db], c)
<1>1. /\ past[db] \in Seq(Content) /\ Latest(db) = Len(past[db]) /\ Latest(db) \in Nat
      /\ DOMAIN past[db] = 1..Latest(db)
  BY DEF PastTypes, Latest
<1>2. /\ more \in Seq(Content) /\ Len(more) = Latest(db) + 1
      /\ \A v \in 1..Latest(db) : more[v] = past[db][v]
      /\ more[Latest(db) + 1] = c
  BY <1>1, AppendFacts
<1>3. past' = [past EXCEPT ![db] = more]
  OBVIOUS
<1> HIDE DEF more
<1>4. past' \in [Database -> Seq(Content)] /\ past'[db] = more
      /\ \A d \in Database \ {db} : past'[d] = past[d]
  BY <1>2, <1>3 DEF PastTypes
<1>5. ASSUME NEW d \in Database
      PROVE  /\ Len(past'[d]) \in 1..Versions
             /\ \A v \in 1..Len(past'[d]) : /\ past'[d][v].live <= v + 1 /\ past'[d][v].dead < v
                                            /\ past'[d][v].fragments <= v + 1
             /\ Len(past[d]) <= Len(past'[d])
             /\ \A v \in 1..Len(past[d]) : past'[d][v] = past[d][v]
             /\ pruned'[d] \subseteq 1..Len(past'[d]) /\ Len(past'[d]) \notin pruned'[d]
  <2>1. /\ Len(past[d]) \in 1..Versions
        /\ \A v \in 1..Len(past[d]) : /\ past[d][v].live <= v + 1 /\ past[d][v].dead < v
                                      /\ past[d][v].fragments <= v + 1
        /\ pruned[d] \subseteq 1..Len(past[d]) /\ Len(past[d]) \notin pruned[d]
    BY DEF PastTypes, Latest
  <2>2. CASE d # db
    BY <1>4, <2>1, <2>2
  <2>3. CASE d = db
    <3>1. past'[d] = more /\ Len(past'[d]) = Len(past[d]) + 1
      BY <1>1, <1>2, <1>4, <2>3
    <3>2. \A v \in 1..Len(past[d]) : past'[d][v] = past[d][v]
      BY <1>1, <1>2, <1>4, <2>3
    <3>3. past'[d][Len(past[d]) + 1] = c
      BY <1>1, <1>2, <1>4, <2>3
    <3>4. c.dead \in Nat
      BY DEF Content
    <3>5. c.live <= Len(past[d]) + 2 /\ c.dead < Len(past[d]) + 1 /\ c.fragments <= Len(past[d]) + 2
      BY <1>1, <2>1, <2>3, <3>4
    <3>6. ASSUME NEW v \in 1..Len(past'[d])
          PROVE  past'[d][v].live <= v + 1 /\ past'[d][v].dead < v /\ past'[d][v].fragments <= v + 1
      <4>1. v \in 1..Len(past[d]) \/ v = Len(past[d]) + 1
        BY <2>1, <3>1
      <4> QED BY <2>1, <3>2, <3>3, <3>5, <4>1
    <3>7. Len(past[d]) < Versions
      BY <1>1, <2>3
    <3>8. pruned'[d] \subseteq 1..Len(past'[d]) /\ Len(past'[d]) \notin pruned'[d]
      BY <2>1, <3>1
    <3> QED BY <2>1, <3>1, <3>2, <3>6, <3>7, <3>8
  <2> QED BY <2>2, <2>3
<1>6. VersionsStay
  BY <1>5 DEF VersionsStay
<1>7. open' \in Database /\ pinned' \in 0..Len(past'[open'])
  <2>1. open \in Database /\ pinned \in 0..Len(past[open])
    BY DEF PastTypes, Latest
  <2>2. Len(past[open]) \in Nat /\ Len(past'[open]) \in Nat /\ Len(past[open]) <= Len(past'[open])
    BY <1>5, <2>1 DEF PastTypes, Latest
  <2> QED BY <2>1, <2>2
<1>8. pruned' \in [Database -> SUBSET (1..Versions)]
  BY DEF PastTypes
<1>9. PastTypes'
  BY <1>4, <1>5, <1>7, <1>8 DEF PastTypes, Latest
<1> QED BY <1>1, <1>2, <1>4, <1>6, <1>9

\* What was true of a plan stays true.
LEMMA StillTrue ==
    ASSUME PastTypes, PastTypes', VersionsStay
    PROVE  \A plan \in Plan : SaysTheTruth(plan) => SaysTheTruth(plan)'
<1> USE OperationsAssumption
<1> SUFFICES ASSUME NEW plan \in Plan, SaysTheTruth(plan) PROVE SaysTheTruth(plan)'
  OBVIOUS
<1>1. plan.db \in Database /\ plan.at \in 1..Versions
  BY DEF Plan
<1>2. /\ Len(past[plan.db]) \in Nat /\ Len(past'[plan.db]) \in Nat
      /\ Len(past[plan.db]) <= Len(past'[plan.db])
      /\ \A v \in 1..Len(past[plan.db]) : past'[plan.db][v] = past[plan.db][v]
  <2>1. Len(past[plan.db]) \in 1..Versions
    BY <1>1 DEF PastTypes, Latest
  <2>2. Len(past'[plan.db]) \in 1..Versions
    BY <1>1 DEF PastTypes, Latest
  <2>3. /\ Len(past[plan.db]) <= Len(past'[plan.db])
        /\ \A v \in 1..Len(past[plan.db]) : past'[plan.db][v] = past[plan.db][v]
    BY <1>1 DEF VersionsStay
  <2> QED BY <2>1, <2>2, <2>3
<1>3. plan.at \in 1..Len(past[plan.db]) /\ plan.at <= Len(past'[plan.db])
  BY <1>1, <1>2 DEF SaysTheTruth, Latest
<1>4. ASSUME Ready(plan), plan.kind = "index"
      PROVE  plan.affected[1] = past'[plan.db][plan.at].live
  BY <1>2, <1>3, <1>4 DEF SaysTheTruth
<1>5. ASSUME Ready(plan), plan.kind = "restore"
      PROVE  /\ plan.option \in 1..Len(past'[plan.db])
             /\ plan.affected[4] = past'[plan.db][plan.option].live
  <2>1. plan.option \in 1..Len(past[plan.db]) /\ plan.affected[4] = past[plan.db][plan.option].live
    BY <1>5 DEF SaysTheTruth, Latest
  <2> QED BY <1>2, <2>1
<1> QED BY <1>3, <1>4, <1>5 DEF SaysTheTruth, Latest, Ready

\* A new version, or one that is gone, changes nothing of what the last script did.
LEMMA RanStays ==
    ASSUME PastTypes, PastTypes', VersionsStay, RanAsPromised, UNCHANGED ran
    PROVE  RanAsPromised'
<1> USE OperationsAssumption
<1>1. CASE ~ran.done
  BY <1>1 DEF RanAsPromised
<1>2. CASE ran.done
  <2> DEFINE plan == ran.plan
  <2>1. plan \in Plan /\ plan.at <= Latest(plan.db)
    BY <1>2 DEF RanAsPromised
  <2>2. plan.db \in Database /\ plan.at \in 1..Versions
    BY <2>1 DEF Plan
  <2>3. /\ Len(past[plan.db]) \in Nat /\ Len(past'[plan.db]) \in Nat
        /\ Len(past[plan.db]) <= Len(past'[plan.db])
        /\ \A v \in 1..Len(past[plan.db]) : past'[plan.db][v] = past[plan.db][v]
    <3>1. Len(past[plan.db]) \in 1..Versions
      BY <2>2 DEF PastTypes, Latest
    <3>2. Len(past'[plan.db]) \in 1..Versions
      BY <2>2 DEF PastTypes, Latest
    <3>3. /\ Len(past[plan.db]) <= Len(past'[plan.db])
          /\ \A v \in 1..Len(past[plan.db]) : past'[plan.db][v] = past[plan.db][v]
      BY <2>2 DEF VersionsStay
    <3> QED BY <3>1, <3>2, <3>3
  <2>4. plan.at \in 1..Len(past[plan.db]) /\ plan.at <= Len(past'[plan.db])
    BY <2>1, <2>2, <2>3 DEF Latest
  <2>5. past'[plan.db][plan.at] = past[plan.db][plan.at]
    BY <2>3, <2>4
  <2> QED BY <1>2, <2>1, <2>4, <2>5 DEF RanAsPromised, Proposes, Latest
<1> QED BY <1>1, <1>2

\* The shelf and what was run last are not touched by a new version.
LEMMA WriteStep ==
    ASSUME OpsIInv, NEW db \in Database, Write(db)
    PROVE  OpsIInv'
<1> USE OperationsAssumption
<1> DEFINE c == past[db][Latest(db)]
           written_1 == [c EXCEPT !.live = @ + 1, !.fragments = @ + 1,
                                  !.index = IF @ = "all" THEN "part" ELSE @]
           written_2 == [c EXCEPT !.live = @ - 1, !.dead = @ + 1]
<1>1. PastTypes /\ ShelfIsTrue /\ RanAsPromised
  BY DEF OpsIInv
<1>2. /\ Latest(db) \in 1..Versions /\ Latest(db) < Versions
      /\ c \in Content /\ c.live <= Latest(db) + 1 /\ c.dead < Latest(db) /\ c.fragments <= Latest(db) + 1
  <2>1. Latest(db) \in 1..Versions /\ Latest(db) = Len(past[db]) /\ past[db] \in Seq(Content)
    BY <1>1 DEF PastTypes, Latest
  <2> QED BY <1>1, <2>1 DEF PastTypes, Write
<1>3. /\ \/ past' = [past EXCEPT ![db] = Append(@, written_1)]
         \/ c.live > 0 /\ past' = [past EXCEPT ![db] = Append(@, written_2)]
      /\ UNCHANGED <<pruned, open, pinned, shelf, ran, planRequests, runs>>
  BY DEF Write
<1> HIDE DEF c
<1>4. c.live \in Nat /\ c.dead \in Nat /\ c.fragments \in Nat /\ c.fragments >= 1
      /\ c.index \in {"none", "part", "all"} /\ c.behind \in BOOLEAN /\ c.columns \in {0, 1}
      /\ c.embedder \in BOOLEAN
  BY <1>2 DEF Content
<1>5. written_1 \in Content /\ written_1.live = c.live + 1 /\ written_1.dead = c.dead
      /\ written_1.fragments = c.fragments + 1
  <2>1. c.live + 1 \in 0..Versions + 1 /\ c.fragments + 1 \in 1..Versions + 1
    BY <1>2, <1>4
  <2>2. (IF c.index = "all" THEN "part" ELSE c.index) \in {"none", "part", "all"}
    BY <1>4
  <2>3. ASSUME NEW l \in 0..Versions + 1, NEW f \in 1..Versions + 1,
               NEW i \in {"none", "part", "all"}
        PROVE  [c EXCEPT !.live = l, !.fragments = f, !.index = i] \in Content
    BY <1>2 DEF Content
  <2>4. written_1 \in Content
    BY <2>1, <2>2, <2>3
  <2> QED BY <1>2, <2>4 DEF Content
<1>6. c.live > 0 => written_2 \in Content /\ written_2.live = c.live - 1
                    /\ written_2.dead = c.dead + 1 /\ written_2.fragments = c.fragments
  <2> SUFFICES ASSUME c.live > 0
               PROVE  written_2 \in Content /\ written_2.live = c.live - 1
                      /\ written_2.dead = c.dead + 1 /\ written_2.fragments = c.fragments
    OBVIOUS
  <2>1. c.live - 1 \in 0..Versions + 1 /\ c.dead + 1 \in 0..Versions
    BY <1>2, <1>4
  <2>2. ASSUME NEW l \in 0..Versions + 1, NEW d \in 0..Versions
        PROVE  [c EXCEPT !.live = l, !.dead = d] \in Content
    BY <1>2 DEF Content
  <2>3. written_2 \in Content
    BY <2>1, <2>2
  <2> QED BY <1>2, <2>3 DEF Content
<1> HIDE DEF written_1, written_2
<1>7. PastTypes' /\ VersionsStay
  <2>1. CASE past' = [past EXCEPT ![db] = Append(@, written_1)]
    <3>1. written_1.live <= Latest(db) + 2 /\ written_1.dead <= Latest(db)
          /\ written_1.fragments <= Latest(db) + 2
      BY <1>2, <1>4, <1>5
    <3> QED BY <1>1, <1>2, <1>3, <1>5, <2>1, <3>1, Growth
  <2>2. CASE c.live > 0 /\ past' = [past EXCEPT ![db] = Append(@, written_2)]
    <3>1. written_2.live <= Latest(db) + 2 /\ written_2.dead <= Latest(db)
          /\ written_2.fragments <= Latest(db) + 2
      BY <1>2, <1>4, <1>6, <2>2
    <3> QED BY <1>1, <1>2, <1>3, <1>6, <2>2, <3>1, Growth
  <2> QED BY <1>3, <2>1, <2>2
<1>8. ShelfIsTrue'
  <2>1. \A i \in DOMAIN shelf : shelf[i] \in Plan
    BY <1>1 DEF ShelfIsTrue
  <2>2. \A plan \in Plan : SaysTheTruth(plan) => SaysTheTruth(plan)'
    BY <1>1, <1>7, StillTrue
  <2> QED BY <1>1, <1>3, <2>1, <2>2 DEF ShelfIsTrue, SaysTheTruth
<1>9. RanAsPromised'
  BY <1>1, <1>3, <1>7, RanStays
<1> QED BY <1>7, <1>8, <1>9 DEF OpsIInv

\* A new plan is true of the version it looks at, and the handle stays at a version.
LEMMA BuildPlanStep == OpsIInv /\ BuildPlan => OpsIInv'
<1> USE OperationsAssumption
<1> SUFFICES ASSUME OpsIInv, BuildPlan PROVE OpsIInv'
  OBVIOUS
<1>1. PastTypes /\ ShelfIsTrue /\ RanAsPromised
  BY DEF OpsIInv
<1>2. UNCHANGED <<past, pruned, open, ran>> /\ pinned' = Opened
  BY DEF BuildPlan
<1>3. Opened \in 1..Latest(open)
  BY <1>1 DEF PastTypes, Opened
<1>4. PastTypes'
  <2>1. pinned' \in 0..Latest(open)
    BY <1>1, <1>2, <1>3 DEF PastTypes
  <2> QED BY <1>1, <1>2, <2>1 DEF PastTypes, Latest
<1>5. PICK plan \in Builds(past[open][Opened], Opened) : shelf' = Remember(plan)
  BY DEF BuildPlan
<1>6. plan \in Plan /\ SaysTheTruth(plan)
  BY <1>1, <1>3, BuildsAreTrue
<1>7. shelf' \in Seq(Plan) /\ Entries(shelf') \subseteq Entries(shelf) \cup {plan}
  BY <1>1, <1>5, <1>6, RememberFacts DEF ShelfIsTrue
<1>8. ASSUME NEW i \in DOMAIN shelf' PROVE SaysTheTruth(shelf'[i])
  <2>1. shelf'[i] \in Entries(shelf) \cup {plan}
    BY <1>7 DEF Entries
  <2>2. CASE shelf'[i] = plan
    BY <1>6, <2>2
  <2>3. CASE \E k \in DOMAIN shelf : shelf'[i] = shelf[k]
    BY <1>1, <2>3 DEF ShelfIsTrue
  <2> QED BY <2>1, <2>2, <2>3 DEF Entries
<1>9. ShelfIsTrue'
  BY <1>2, <1>7, <1>8 DEF ShelfIsTrue, SaysTheTruth, Latest
<1>10. RanAsPromised'
  BY <1>1, <1>2 DEF RanAsPromised, Proposes, Latest
<1> QED BY <1>4, <1>9, <1>10 DEF OpsIInv

\* What a script makes of a table is a version of it, and what the plan said of it.
LEMMA EffectFacts ==
    ASSUME PastTypes, NEW plan \in Plan, SaysTheTruth(plan), Ready(plan), ScriptRuns(plan)
    PROVE  LET c == past[plan.db][Latest(plan.db)]
               after == Effect(plan, c)
           IN  /\ c \in Content /\ after \in Content
               /\ after.live <= Latest(plan.db) + 2 /\ after.dead <= Latest(plan.db)
               /\ after.fragments <= Latest(plan.db) + 2
               /\ plan.kind \in {"index", "compact"} =>
                     after.live = past[plan.db][plan.at].live /\ plan.at = Latest(plan.db)
               /\ plan.kind = "index" => after.live = plan.affected[1]
               /\ plan.kind = "index" => after.index = "all"
               /\ plan.kind = "compact" => after.dead = 0
               /\ plan.kind = "restore" => after.live = plan.affected[4]
               /\ plan.kind \notin {"index", "compact", "restore"} => after = c
<1> USE OperationsAssumption
<1> DEFINE n == Latest(plan.db)
           c == past[plan.db][n]
           after == Effect(plan, c)
<1>1. /\ plan.db \in Database /\ n \in 1..Versions
      /\ \A v \in 1..n : /\ past[plan.db][v] \in Content /\ past[plan.db][v].live <= v + 1
                         /\ past[plan.db][v].dead < v /\ past[plan.db][v].fragments <= v + 1
  <2>1. plan.db \in Database
    BY DEF Plan
  <2>2. n \in 1..Versions /\ n = Len(past[plan.db]) /\ past[plan.db] \in Seq(Content)
    BY <2>1 DEF PastTypes, Latest
  <2> QED BY <2>1, <2>2 DEF PastTypes
<1>2. c \in Content /\ c.live <= n + 1 /\ c.dead < n /\ c.fragments <= n + 1
  BY <1>1
<1>3. c.live \in Nat /\ c.dead \in Nat /\ c.fragments \in Nat /\ c.fragments >= 1
      /\ c.index \in {"none", "part", "all"} /\ c.behind \in BOOLEAN /\ c.columns \in {0, 1}
      /\ c.embedder \in BOOLEAN
  BY <1>2 DEF Content
<1>4. /\ plan.kind \in {"index", "compact"} => plan.at = n /\ c = past[plan.db][plan.at]
      /\ plan.kind = "index" => c.live = plan.affected[1]
  <2>1. plan.kind \in {"index", "compact"} => plan.at = n
    BY DEF SaysTheTruth, ScriptRuns
  <2> QED BY <2>1 DEF SaysTheTruth
<1> HIDE DEF n, c
<1> DEFINE Good == /\ after \in Content
                   /\ after.live <= n + 2 /\ after.dead <= n /\ after.fragments <= n + 2
                   /\ plan.kind \in {"index", "compact"} =>
                         after.live = past[plan.db][plan.at].live /\ plan.at = n
                   /\ plan.kind = "index" => after.live = plan.affected[1]
                   /\ plan.kind = "index" => after.index = "all"
                   /\ plan.kind = "compact" => after.dead = 0
                   /\ plan.kind = "restore" => after.live = plan.affected[4]
                   /\ plan.kind \notin {"index", "compact", "restore"} => after = c
<1>5. ASSUME plan.kind = "index" PROVE Good
  <2>1. after = [live |-> c.live, dead |-> c.dead, fragments |-> c.fragments, index |-> "all",
                 behind |-> c.behind, columns |-> c.columns, embedder |-> c.embedder]
    BY <1>2, <1>5 DEF Effect, Content
  <2> HIDE DEF after
  <2>2. after \in Content
    BY <1>2, <2>1 DEF Content
  <2>3. Good
    BY <1>1, <1>2, <1>3, <1>4, <1>5, <2>1, <2>2
  <2> QED BY <2>3
<1>6. ASSUME plan.kind = "compact" PROVE Good
  <2>1. after = [live |-> c.live, dead |-> 0, fragments |-> 1, index |-> c.index,
                 behind |-> c.behind, columns |-> c.columns, embedder |-> c.embedder]
    BY <1>2, <1>6 DEF Effect, Content
  <2> HIDE DEF after
  <2>2. after \in Content
    BY <1>2, <2>1 DEF Content
  <2>3. Good
    BY <1>1, <1>2, <1>3, <1>4, <1>6, <2>1, <2>2
  <2> QED BY <2>3
<1>7. ASSUME plan.kind = "restore" PROVE Good
  <2>1. after = past[plan.db][plan.option]
    BY <1>7 DEF Effect
  <2> HIDE DEF after
  <2>2. plan.option \in 1..n /\ plan.affected[4] = after.live
    BY <1>7, <2>1 DEF SaysTheTruth, n
  <2>3. after \in Content /\ after.live <= plan.option + 1 /\ after.dead < plan.option
        /\ after.fragments <= plan.option + 1
    BY <1>1, <2>1, <2>2
  <2>4. after.live \in Nat /\ after.dead \in Nat /\ after.fragments \in Nat
    BY <2>3 DEF Content
  <2>5. after.live <= n + 2 /\ after.dead <= n /\ after.fragments <= n + 2
    BY <1>1, <2>2, <2>3, <2>4
  <2>6. Good
    BY <1>7, <2>2, <2>3, <2>5
  <2> QED BY <2>6
<1>8. ASSUME plan.kind \notin {"index", "compact", "restore"} PROVE Good
  <2>1. after = c
    BY <1>8 DEF Effect
  <2> HIDE DEF after
  <2>2. Good
    BY <1>1, <1>2, <1>3, <1>8, <2>1
  <2> QED BY <2>2
<1>9. Good
  <2> HIDE DEF Good
  <2> QED BY <1>5, <1>6, <1>7, <1>8
<1> QED BY <1>2, <1>9 DEF n, c

\* What a cleanup takes has been stored, and is never the latest.
LEMMA RemovableFacts ==
    ASSUME PastTypes, NEW db \in Database
    PROVE  Removable(db) \subseteq 1..Latest(db) /\ Latest(db) \notin Removable(db)
<1> USE OperationsAssumption
<1>1. past[db] \in Seq(Content) /\ Latest(db) = Len(past[db]) /\ Latest(db) \in Nat
  BY DEF PastTypes, Latest
<1>2. Stored(db) \subseteq 1..Latest(db)
  BY <1>1 DEF Stored
<1>3. {w \in Stored(db) : w > Latest(db)} = {}
  BY <1>1, <1>2
<1>4. Cardinality({w \in Stored(db) : w > Latest(db)}) = 0
  BY <1>3, FS_EmptySet
<1>5. ~(0 >= Retain)
  OBVIOUS
<1> QED BY <1>2, <1>4, <1>5 DEF Removable

\* A script that does not stop does what its plan says.
LEMMA RunScriptStep == OpsIInv /\ RunScript => OpsIInv'
<1> USE OperationsAssumption
<1> SUFFICES ASSUME OpsIInv, RunScript PROVE OpsIInv'
  OBVIOUS
<1>1. PastTypes /\ ShelfIsTrue /\ RanAsPromised
  BY DEF OpsIInv
<1>2. UNCHANGED <<pruned, open, pinned, shelf>>
  BY DEF RunScript
<1> DEFINE Before(plan) == past[plan.db][Latest(plan.db)]
           Changes(plan) == ScriptRuns(plan) /\ plan.kind \notin {"cleanup", "migrate-format"}
<1>3. PICK i \in DOMAIN shelf :
         LET plan == shelf[i]
         IN  /\ Ready(plan) /\ Latest(plan.db) < Versions
             /\ past' = IF Changes(plan)
                        THEN [past EXCEPT ![plan.db] = Append(@, Effect(plan, Before(plan)))]
                        ELSE past
             /\ ran' = [plan |-> plan, before |-> Before(plan), done |-> ScriptRuns(plan),
                        after |-> past'[plan.db][Len(past'[plan.db])]]
  BY DEF RunScript
<1> DEFINE plan == shelf[i]
           before == Before(plan)
           after == Effect(plan, before)
           db == plan.db
<1>4. plan \in Plan /\ SaysTheTruth(plan) /\ Ready(plan) /\ db \in Database /\ Latest(db) < Versions
  <2>1. plan \in Plan /\ SaysTheTruth(plan)
    BY <1>1 DEF ShelfIsTrue
  <2>2. Ready(plan) /\ Latest(db) < Versions
    BY <1>3
  <2> HIDE DEF plan
  <2>3. db \in Database
    BY <2>1 DEF Plan
  <2> QED BY <2>1, <2>2, <2>3
<1>5. /\ past' = IF Changes(plan) THEN [past EXCEPT ![db] = Append(@, after)] ELSE past
      /\ ran' = [plan |-> plan, before |-> before, done |-> ScriptRuns(plan),
                 after |-> past'[db][Len(past'[db])]]
  BY <1>3
<1>6. ScriptRuns(plan) =>
          /\ before \in Content /\ after \in Content
          /\ after.live <= Latest(db) + 2 /\ after.dead <= Latest(db)
          /\ after.fragments <= Latest(db) + 2
          /\ plan.kind \in {"index", "compact"} =>
                after.live = past[db][plan.at].live /\ plan.at = Latest(db)
          /\ plan.kind = "index" => after.live = plan.affected[1]
          /\ plan.kind = "index" => after.index = "all"
          /\ plan.kind = "compact" => after.dead = 0
          /\ plan.kind = "restore" => after.live = plan.affected[4]
          /\ plan.kind \notin {"index", "compact", "restore"} => after = before
  BY <1>1, <1>4, EffectFacts
<1> HIDE DEF plan, before, after, db, Before
<1>7. db = plan.db /\ before = past[db][Len(past[db])]
  BY DEF db, before, Before, Latest
<1>8. PastTypes' /\ VersionsStay /\ (ScriptRuns(plan) => past'[db][Len(past'[db])] = after)
  <2>1. CASE Changes(plan)
    <3>1. past' = [past EXCEPT ![db] = Append(@, after)] /\ UNCHANGED <<pruned, open, pinned>>
      BY <1>2, <1>5, <2>1
    <3> QED BY <1>1, <1>4, <1>6, <2>1, <3>1, Growth
  <2>2. CASE ~Changes(plan)
    <3>1. past' = past
      BY <1>5, <2>2
    <3>2. ScriptRuns(plan) => past'[db][Len(past'[db])] = after
      BY <1>6, <1>7, <2>2, <3>1
    <3>3. VersionsStay
      BY <1>1, <3>1 DEF VersionsStay, PastTypes, Latest
    <3>4. PastTypes'
      BY <1>1, <1>2, <3>1 DEF PastTypes, Latest
    <3> QED BY <3>2, <3>3, <3>4
  <2> QED BY <2>1, <2>2
<1>9. ShelfIsTrue'
  <2>1. \A k \in DOMAIN shelf : shelf[k] \in Plan
    BY <1>1 DEF ShelfIsTrue
  <2>2. \A p \in Plan : SaysTheTruth(p) => SaysTheTruth(p)'
    BY <1>1, <1>8, StillTrue
  <2> QED BY <1>1, <1>2, <2>1, <2>2 DEF ShelfIsTrue, SaysTheTruth
<1>10. RanAsPromised'
  <2>1. ran'.plan = plan /\ ran'.before = before /\ ran'.after = past'[db][Len(past'[db])]
        /\ (ran'.done <=> ScriptRuns(plan))
    BY <1>5
  <2>2. CASE ~ran'.done
    BY <2>2 DEF RanAsPromised
  <2>3. CASE ran'.done
    <3>1. ran'.after = after
      BY <1>8, <2>1, <2>3
    <3>2. plan \in Plan /\ plan.at \in 1..Len(past[db]) /\ Len(past[db]) \in Nat
      <4>1. plan \in Plan /\ plan.at \in 1..Versions /\ plan.at <= Latest(db)
        BY <1>4, <1>7 DEF SaysTheTruth, Plan
      <4> QED BY <1>1, <1>4, <4>1 DEF PastTypes, Latest
    <3>3. past'[db][plan.at] = past[db][plan.at] /\ plan.at <= Len(past'[db])
      <4>1. Len(past[db]) <= Len(past'[db]) /\ Len(past'[db]) \in Nat
        BY <1>4, <1>8 DEF VersionsStay, PastTypes, Latest
      <4> QED BY <1>4, <1>8, <3>2, <4>1 DEF VersionsStay
    <3> QED BY <1>6, <1>7, <2>1, <2>3, <3>1, <3>2, <3>3 DEF RanAsPromised, Proposes, Latest
  <2> QED BY <2>2, <2>3
<1> QED BY <1>8, <1>9, <1>10 DEF OpsIInv

\* A cleaning takes versions that are stored, and leaves the latest.
LEMMA CleanStep ==
    ASSUME OpsIInv, NEW db \in Database, Clean(db)
    PROVE  OpsIInv'
<1> USE OperationsAssumption
<1>1. PastTypes /\ ShelfIsTrue /\ RanAsPromised
  BY DEF OpsIInv
<1>2. UNCHANGED <<past, open, pinned, shelf, ran>>
  BY DEF Clean
<1>3. PICK gone \in SUBSET Removable(db) : pruned' = [pruned EXCEPT ![db] = @ \cup gone]
  BY DEF Clean
<1>4. gone \subseteq 1..Latest(db) /\ Latest(db) \notin gone
  BY <1>1, RemovableFacts
<1>5. gone \subseteq 1..Versions
  BY <1>1, <1>4 DEF PastTypes
<1>6. PastTypes'
  <2>1. /\ pruned' \in [Database -> SUBSET (1..Versions)]
        /\ \A d \in Database : pruned'[d] \subseteq 1..Latest(d) /\ Latest(d) \notin pruned'[d]
    BY <1>1, <1>3, <1>4, <1>5 DEF PastTypes
  <2> QED BY <1>1, <1>2, <2>1 DEF PastTypes, Latest
<1>7. VersionsStay
  BY <1>1, <1>2 DEF VersionsStay, PastTypes, Latest
<1>8. ShelfIsTrue'
  BY <1>1, <1>2 DEF ShelfIsTrue, SaysTheTruth, Latest
<1>9. RanAsPromised'
  BY <1>1, <1>2, <1>6, <1>7, RanStays
<1> QED BY <1>6, <1>8, <1>9 DEF OpsIInv

\* Each operation of the plans keeps their invariant.
LEMMA OpsStep == OpsIInv /\ [OpsNext]_opsVars => OpsIInv'
<1> SUFFICES ASSUME OpsIInv, [OpsNext]_opsVars PROVE OpsIInv'
  OBVIOUS
<1>1. CASE UNCHANGED opsVars
  BY <1>1 DEF opsVars, OpsIInv, PastTypes, ShelfIsTrue, SaysTheTruth, RanAsPromised, Proposes,
              Latest, Stored
<1>2. CASE \E db \in Database : Write(db)
  BY <1>2, WriteStep
<1>3. CASE BuildPlan
  BY <1>3, BuildPlanStep
<1>4. CASE Switch
  <2>1. PastTypes /\ ShelfIsTrue /\ RanAsPromised
    BY DEF OpsIInv
  <2>2. UNCHANGED <<past, pruned, shelf, ran>> /\ pinned' = 0 /\ open' \in Database
    BY <1>4 DEF Switch
  <2>3. PastTypes'
    BY <2>1, <2>2 DEF PastTypes, Latest
  <2>4. ShelfIsTrue' /\ RanAsPromised'
    BY <2>1, <2>2 DEF ShelfIsTrue, SaysTheTruth, Latest, RanAsPromised, Proposes
  <2> QED BY <2>3, <2>4 DEF OpsIInv
<1>5. CASE RunScript
  BY <1>5, RunScriptStep
<1>6. CASE \E db \in Database : Clean(db)
  BY <1>6, CleanStep
<1> QED BY <1>1, <1>2, <1>3, <1>4, <1>5, <1>6 DEF OpsNext

\* What the run checks of the plans.
LEMMA OpsSafe == OpsIInv => PromisesHold
<1> SUFFICES ASSUME OpsIInv PROVE PromisesHold
  OBVIOUS
<1>1. \A db \in Database : past[db] \in Seq(Content) /\ pruned[db] \subseteq DOMAIN past[db]
  BY DEF OpsIInv, PastTypes, Latest
<1>2. pinned \in 0..Latest(open)
  BY DEF OpsIInv, PastTypes
<1> QED BY <1>1, <1>2 DEF OpsIInv, RanAsPromised, PromisesHold

\* The version a script goes back to is the one it asserts, which no cleaning takes.
LEMMA OpsCanBeUndone ==
    OpsIInv /\ [OpsNext]_opsVars =>
        [runs' # runs /\ ran' # ran /\ ran'.done /\ ran'.plan.kind \in {"index", "compact"} =>
            ran'.plan.at \notin pruned'[ran'.plan.db]]_opsVars
<1> SUFFICES ASSUME OpsIInv, [OpsNext]_opsVars, ran' # ran, ran'.done,
                    ran'.plan.kind \in {"index", "compact"}
             PROVE  ran'.plan.at \notin pruned'[ran'.plan.db]
  OBVIOUS
<1>1. RunScript
  BY DEF OpsNext, opsVars, Write, BuildPlan, Switch, Clean
<1>2. PICK i \in DOMAIN shelf :
         /\ Ready(shelf[i])
         /\ ran' = [plan |-> shelf[i], before |-> past[shelf[i].db][Latest(shelf[i].db)],
                    done |-> ScriptRuns(shelf[i]),
                    after |-> past'[shelf[i].db][Len(past'[shelf[i].db])]]
  BY <1>1 DEF RunScript
<1> DEFINE plan == shelf[i]
<1>3. ran'.plan = plan /\ ScriptRuns(plan)
  BY <1>2
<1>4. plan \in Plan /\ SaysTheTruth(plan)
  BY DEF OpsIInv, ShelfIsTrue
<1> HIDE DEF plan
<1>5. plan.at = Latest(plan.db)
  BY <1>2, <1>3, <1>4 DEF SaysTheTruth, ScriptRuns, plan
<1>6. Latest(plan.db) \notin pruned[plan.db]
  <2>1. plan.db \in Database
    BY <1>4 DEF Plan
  <2> QED BY <2>1 DEF OpsIInv, PastTypes
<1>7. pruned' = pruned
  BY <1>1 DEF RunScript
<1> QED BY <1>3, <1>5, <1>6, <1>7

--------------------------------------------------------------------------
(* Proofs: the spend ledger. *)

\* A sequence over a set is one over a larger set.
LEMMA SeqGrow ==
    ASSUME NEW S, NEW T, S \subseteq T
    PROVE  Seq(S) \subseteq Seq(T)
<1> SUFFICES ASSUME NEW s \in Seq(S) PROVE s \in Seq(T)
  OBVIOUS
<1>1. Len(s) \in Nat /\ s \in [1..Len(s) -> S]
  BY LenProperties
<1>2. s \in [1..Len(s) -> T]
  BY <1>1
<1> QED BY <1>1, <1>2, SeqDef

\* More files and more lines allow more to a process.
LEMMA StepsGrow ==
    ASSUME NEW files, NEW more, files \subseteq more, NEW n \in Nat, NEW m \in Nat, n <= m
    PROVE  /\ Steps(files, n) \subseteq Steps(more, m)
           /\ Seq(1..n) \subseteq Seq(1..m) /\ Seq(Seq(1..n)) \subseteq Seq(Seq(1..m))
<1>1. 1..n \subseteq 1..m
  OBVIOUS
<1>2. Seq(1..n) \subseteq Seq(1..m)
  BY <1>1, SeqGrow
<1>3. Seq(Seq(1..n)) \subseteq Seq(Seq(1..m))
  BY <1>2, SeqGrow
<1> QED BY <1>1, <1>2, <1>3 DEF Steps

\* What is at hand at each step.
LEMMA StepFacts ==
    ASSUME NEW files, NEW n, NEW w \in Steps(files, n)
    PROVE  /\ w.step = "opened" => w \in [step : {"opened"}, file : files, line : 1..n]
           /\ w.step = "read" => w \in [step : {"read"}, lines : Seq(1..n)]
           /\ w.step \in {"truncated", "filled"} =>
                 w \in [step : {"truncated", "filled"}, file : files, lines : Seq(1..n)]
BY DEF Steps, Resting

\* The file and the lines a process has at hand are files and lines there are.
LEMMA AtHand ==
    ASSUME LedgerTypes, NEW p \in Writer
    PROVE  /\ Opening(p) => writer[p].file \in DOMAIN content /\ writer[p].line \in 1..recorded
           /\ Trimming(p) => writer[p].lines \in Seq(1..recorded)
           /\ writer[p].step \in {"truncated", "filled"} => writer[p].file \in DOMAIN content
           /\ writer[p] = Resting => writer[p].step = "resting"
<1>1. writer[p] \in Steps(DOMAIN content, recorded)
  BY DEF LedgerTypes
<1>2. writer[p] = Resting => writer[p].step = "resting"
  BY DEF Resting
<1> QED BY <1>1, <1>2, StepFacts DEF Opening, Trimming

\* The lines of the ledger are lines, each once, and none that is about to be written.
LEMMA LinesFacts ==
    ASSUME LedgerTypes, FreshLines, NoLineTwice
    PROVE  /\ Lines \in Seq(1..recorded) /\ NoRepeats(Lines)
           /\ \A p \in Writer : Opening(p) => writer[p].line \notin Entries(Lines)
           /\ Len(content) \in Nat /\ DOMAIN content = 1..Len(content)
           /\ \A i \in DOMAIN content : content[i] \in Seq(1..recorded)
           /\ recorded \in Nat
<1>1. /\ Len(content) \in Nat /\ DOMAIN content = 1..Len(content) /\ recorded \in Nat
      /\ \A i \in DOMAIN content : content[i] \in Seq(1..recorded)
  BY LenProperties DEF LedgerTypes
<1>2. CASE ledger = NoFile
  <2>1. Lines = <<>>
    BY <1>2 DEF Lines
  <2>2. NoRepeats(<<>>) /\ Entries(<<>>) = {} /\ <<>> \in Seq(1..recorded)
    BY DEF NoRepeats, Entries
  <2> QED BY <1>1, <2>1, <2>2
<1>3. CASE ledger # NoFile
  <2>1. Lines = content[ledger] /\ ledger \in DOMAIN content
    BY <1>1, <1>3 DEF Lines, NoFile, LedgerTypes
  <2> QED BY <1>1, <2>1 DEF FreshLines, NoLineTwice
<1> QED BY <1>2, <1>3

\* The tail that is kept.
LEMMA KeptFacts ==
    ASSUME NEW S, NEW lines \in Seq(S), NoRepeats(lines), Len(lines) > MaxLines
    PROVE  /\ Kept(lines) \in Seq(S) /\ Len(Kept(lines)) = KeepLines
           /\ NoRepeats(Kept(lines)) /\ Entries(Kept(lines)) \subseteq Entries(lines)
<1> USE LedgerAssumption
<1> DEFINE n == Len(lines) - KeepLines
<1>1. Len(lines) \in Nat /\ n \in 0..Len(lines) /\ Len(lines) - n = KeepLines
  BY LenProperties
<1>2. Kept(lines) = SubSeq(lines, n + 1, Len(lines))
  BY DEF Kept
<1> HIDE DEF n
<1>3. /\ SubSeq(lines, n + 1, Len(lines)) \in Seq(S)
      /\ NoRepeats(SubSeq(lines, n + 1, Len(lines)))
      /\ Len(SubSeq(lines, n + 1, Len(lines))) = Len(lines) - n
      /\ Entries(SubSeq(lines, n + 1, Len(lines))) \subseteq Entries(lines)
  BY <1>1, DropEntries
<1> QED BY <1>1, <1>2, <1>3

\* What a fill makes of what it finds in the file: the lines kept, and what others have
\* put behind them.
Filled(lines, old) == Kept(lines) \o SubSeq(old, Len(Kept(lines)) + 1, Len(old))

LEMMA FilledFacts ==
    ASSUME NEW S, NEW lines \in Seq(S), NoRepeats(lines), Len(lines) > MaxLines,
           NEW old \in Seq(S), NoRepeats(old),
           \A i \in DOMAIN old : i > KeepLines => old[i] \notin Entries(lines)
    PROVE  /\ Filled(lines, old) \in Seq(S) /\ NoRepeats(Filled(lines, old))
           /\ Entries(Filled(lines, old)) \subseteq Entries(lines) \cup Entries(old)
           /\ \A i \in DOMAIN Filled(lines, old) :
                 i > KeepLines => i \in DOMAIN old /\ Filled(lines, old)[i] = old[i]
           /\ old = <<>> => Filled(lines, old) = Kept(lines)
<1> USE LedgerAssumption
<1> DEFINE kept == Kept(lines)
           rest == SubSeq(old, KeepLines + 1, Len(old))
           new == kept \o rest
<1>1. /\ kept \in Seq(S) /\ Len(kept) = KeepLines /\ NoRepeats(kept)
      /\ Entries(kept) \subseteq Entries(lines)
  BY KeptFacts
<1>2. Filled(lines, old) = new
  BY <1>1 DEF Filled
<1>3. Len(old) \in Nat /\ DOMAIN old = 1..Len(old) /\ \A i \in 1..Len(old) : old[i] \in S
  BY LenProperties
<1> HIDE DEF kept
<1>4. CASE Len(old) <= KeepLines
  <2>1. rest = <<>>
    BY <1>3, <1>4
  <2>2. new = kept
    <3>1. kept \o <<>> = kept
      BY <1>1, ConcatEmptySeq
    <3> QED BY <2>1, <3>1
  <2>3. DOMAIN new = 1..KeepLines
    BY <1>1, <2>2, LenProperties
  <2> HIDE DEF new, rest
  <2> QED BY <1>1, <1>2, <2>2, <2>3 DEF kept
<1>5. CASE Len(old) > KeepLines
  <2>1. KeepLines \in 0..Len(old)
    BY <1>3, <1>5
  <2>2. /\ rest \in Seq(S) /\ Len(rest) = Len(old) - KeepLines
        /\ \A i \in 1..Len(old) - KeepLines : rest[i] = old[KeepLines + i]
    BY <2>1, DropFacts
  <2>3. NoRepeats(rest) /\ Entries(rest) \subseteq Entries(old)
    BY <2>1, DropEntries
  <2> HIDE DEF rest
  <2>4. /\ new \in Seq(S)
        /\ DOMAIN new = 1..KeepLines + Len(rest) /\ DOMAIN kept = 1..KeepLines
        /\ \A i \in 1..KeepLines : new[i] = kept[i]
        /\ \A i \in 1..Len(rest) : new[KeepLines + i] = rest[i]
        /\ Entries(new) = Entries(kept) \cup Entries(rest)
        /\ DOMAIN rest = 1..Len(rest) /\ Len(rest) \in Nat
    <3>1. Len(kept) = KeepLines /\ DOMAIN rest = 1..Len(rest) /\ Len(rest) \in Nat
      BY <1>1, <2>2, LenProperties
    <3>2. kept \in Seq(S) /\ rest \in Seq(S)
      BY <1>1, <2>2
    <3>3. /\ kept \o rest \in Seq(S)
          /\ DOMAIN kept = 1..Len(kept)
          /\ DOMAIN (kept \o rest) = 1..Len(kept) + Len(rest)
          /\ \A i \in 1..Len(kept) : (kept \o rest)[i] = kept[i]
          /\ \A i \in 1..Len(rest) : (kept \o rest)[Len(kept) + i] = rest[i]
          /\ Entries(kept \o rest) = Entries(kept) \cup Entries(rest)
      BY <3>2, ConcatFacts
    <3> QED BY <3>1, <3>3
  <2> HIDE DEF new
  <2>5. ASSUME NEW i \in DOMAIN new, i > KeepLines
        PROVE  i \in DOMAIN old /\ new[i] = old[i] /\ i - KeepLines \in 1..Len(rest)
               /\ new[i] = rest[i - KeepLines]
    <3>1. i - KeepLines \in 1..Len(rest) /\ KeepLines + (i - KeepLines) = i
      BY <2>4, <2>5
    <3>2. i \in DOMAIN old
      BY <1>3, <2>2, <2>4, <2>5
    <3>3. new[i] = rest[i - KeepLines] /\ rest[i - KeepLines] = old[i]
      BY <2>2, <2>4, <3>1
    <3> QED BY <3>1, <3>2, <3>3
  <2>6. NoRepeats(new)
    <3> SUFFICES ASSUME NEW i \in DOMAIN new, NEW j \in DOMAIN new, new[i] = new[j] PROVE i = j
      BY DEF NoRepeats
    <3>1. ASSUME NEW a \in DOMAIN new, NEW b \in DOMAIN new, a <= KeepLines, b > KeepLines,
                 new[a] = new[b]
          PROVE  FALSE
      <4>1. new[a] \in Entries(lines)
        <5>1. a \in DOMAIN kept /\ new[a] = kept[a]
          BY <2>4, <3>1
        <5> QED BY <1>1, <5>1 DEF Entries
      <4>2. b \in DOMAIN old /\ new[b] = old[b]
        BY <2>5, <3>1
      <4> QED BY <3>1, <4>1, <4>2
    <3>2. CASE i <= KeepLines /\ j <= KeepLines
      <4>1. i \in DOMAIN kept /\ j \in DOMAIN kept /\ kept[i] = kept[j]
        BY <2>4, <3>2
      <4> QED BY <1>1, <4>1 DEF NoRepeats
    <3>3. CASE i > KeepLines /\ j > KeepLines
      <4>1. rest[i - KeepLines] = rest[j - KeepLines] /\ i - KeepLines \in DOMAIN rest
            /\ j - KeepLines \in DOMAIN rest
        BY <2>4, <2>5, <3>3
      <4>2. i - KeepLines = j - KeepLines
        BY <2>3, <4>1 DEF NoRepeats
      <4> QED BY <2>4, <4>2
    <3>4. i \in Nat /\ j \in Nat
      BY <2>4
    <3> QED BY <3>1, <3>2, <3>3, <3>4
  <2>7. old # <<>>
    BY <1>5, EmptyFacts
  <2> QED BY <1>1, <1>2, <2>3, <2>4, <2>5, <2>6, <2>7
<1> QED BY <1>3, <1>4, <1>5

\* No files, no lines, everybody resting.
LEMMA LedgerInit_ == LedgerInit => LedgerIInv
<1> SUFFICES ASSUME LedgerInit PROVE LedgerIInv
  OBVIOUS
<1> USE LedgerAssumption
<1>1. /\ content = <<>> /\ ledger = 0 /\ trimmed = 0 /\ written = <<>> /\ recorded = 0
      /\ \A p \in Writer : writer[p] = Resting /\ appended[p] = 0
      /\ writer \in [Writer -> {Resting}] /\ appended \in [Writer -> {0}]
  BY DEF LedgerInit, NoFile
<1>2. DOMAIN content = {} /\ Len(content) = 0 /\ Len(written) = 0 /\ content \in Seq(Seq(1..recorded))
      /\ written \in Seq(1..recorded)
  BY <1>1
<1>3. \A p \in Writer : ~Opening(p) /\ ~Trimming(p) /\ writer[p].step = "resting"
  BY <1>1 DEF Opening, Trimming, Resting
<1>4. LedgerTypes
  BY <1>1, <1>2 DEF LedgerTypes, Steps
<1>5. TwoFiles
  BY <1>1 DEF TwoFiles, NoFile
<1>6. FreshLines /\ NoLineTwice
  BY <1>2, <1>3 DEF FreshLines, NoLineTwice
<1>7. IsTail(Lines, 0)
  <2>1. SubSeq(written, 0 + 1, Len(written)) = <<>> /\ Lines = <<>>
    BY <1>1, <1>2 DEF Lines, NoFile
  <2> QED BY <2>1 DEF IsTail
<1>8. Alone
  BY <1>1, <1>2, <1>3, <1>7 DEF Alone, AtWork
<1> QED BY <1>4, <1>5, <1>6, <1>8 DEF LedgerIInv

\* A step of one process: two have met after it unless all others rest, and if the ledger
\* is still a tail and the process at work on it, nothing else can have changed that.
LEMMA AloneStep ==
    ASSUME LedgerIInv, NEW p \in Writer,
           \A q \in Writer \ {p} : writer'[q] = writer[q],
           met' = (met \/ \E q \in Writer \ {p} : writer[q] # Resting),
           (~met /\ (\E n \in 0..Len(written) : IsTail(Lines, n)) /\ AtWork(p)) =>
              (\E n \in 0..Len(written) : IsTail(Lines, n))' /\ AtWork(p)'
    PROVE  Alone'
<1> SUFFICES ASSUME ~met'
             PROVE  /\ \A q, r \in Writer : writer'[q] # Resting /\ writer'[r] # Resting => q = r
                    /\ (\E n \in 0..Len(written) : IsTail(Lines, n))'
                    /\ \A q \in Writer : AtWork(q)'
  BY DEF Alone
<1>1. ~met /\ \A q \in Writer \ {p} : writer'[q] = Resting
  OBVIOUS
<1>2. (\E n \in 0..Len(written) : IsTail(Lines, n)) /\ AtWork(p)
  BY <1>1 DEF LedgerIInv, Alone
<1>3. ASSUME NEW q \in Writer \ {p} PROVE AtWork(q)'
  <2>1. writer'[q].step = "resting"
    BY <1>1 DEF Resting
  <2> QED BY <2>1 DEF AtWork, Opening, Trimming
<1> QED BY <1>1, <1>2, <1>3

\* A file that is created is behind the others and empty.
LEMMA Created ==
    ASSUME LedgerTypes, content' = Append(content, <<>>)
    PROVE  /\ content' \in Seq(Seq(1..recorded))
           /\ Len(content) \in Nat /\ Len(content') = Len(content) + 1
           /\ DOMAIN content = 1..Len(content) /\ DOMAIN content' = 1..Len(content) + 1
           /\ \A i \in DOMAIN content : content'[i] = content[i]
           /\ content'[Len(content')] = <<>>
           /\ Entries(<<>>) = {} /\ NoRepeats(<<>>)
<1>1. content \in Seq(Seq(1..recorded)) /\ <<>> \in Seq(1..recorded)
  BY DEF LedgerTypes
<1>2. Entries(<<>>) = {} /\ NoRepeats(<<>>)
  BY DEF Entries, NoRepeats
<1> QED BY <1>1, <1>2, AppendFacts

\* record: the line is a new one, and the file opened the one that has the name.
LEMMA OpenStep ==
    ASSUME LedgerIInv, NEW p \in Writer, OpenLedger(p),
           met' = (met \/ \E q \in Writer \ {p} : writer[q] # Resting)
    PROVE  LedgerIInv'
<1> USE LedgerAssumption
<1> DEFINE w == [step |-> "opened", file |-> ledger', line |-> recorded']
<1>1. /\ recorded \in Nat /\ recorded' \in 1..Records /\ recorded' = recorded + 1
      /\ written' = written /\ trimmed' = trimmed /\ appended' = appended
      /\ writer' = [writer EXCEPT ![p] = w] /\ writer[p] = Resting
  BY DEF OpenLedger, LedgerIInv, LedgerTypes
<1>2. /\ content' \in Seq(Seq(1..recorded)) /\ Len(content') \in Nat
      /\ Len(content) \in Nat /\ Len(content) <= Len(content')
      /\ DOMAIN content = 1..Len(content) /\ DOMAIN content' = 1..Len(content')
      /\ \A i \in DOMAIN content : content'[i] = content[i]
      /\ \A i \in DOMAIN content' \ DOMAIN content : content'[i] = <<>>
      /\ ledger' \in DOMAIN content' /\ ledger' # trimmed /\ Lines' = Lines
      /\ Entries(<<>>) = {} /\ NoRepeats(<<>>)
  <2>1. /\ Len(content) \in Nat /\ DOMAIN content = 1..Len(content)
        /\ content \in Seq(Seq(1..recorded))
        /\ ledger \in 0..Len(content) /\ trimmed \in 0..Len(content)
    BY LenProperties DEF LedgerIInv, LedgerTypes
  <2>2. CASE ledger = NoFile
    <3>1. content' = Append(content, <<>>) /\ ledger' = Len(content')
      BY <2>2 DEF OpenLedger
    <3>2. /\ content' \in Seq(Seq(1..recorded)) /\ Len(content') = Len(content) + 1
          /\ DOMAIN content' = 1..Len(content) + 1
          /\ \A i \in DOMAIN content : content'[i] = content[i]
          /\ content'[Len(content')] = <<>>
          /\ Entries(<<>>) = {} /\ NoRepeats(<<>>)
      BY <3>1, Created DEF LedgerIInv
    <3>3. Lines = <<>> /\ Lines' = <<>>
      BY <2>1, <2>2, <3>1, <3>2 DEF Lines, NoFile
    <3> QED BY <2>1, <3>1, <3>2, <3>3
  <2>3. CASE ledger # NoFile
    <3>1. content' = content /\ ledger' = ledger
      BY <2>3 DEF OpenLedger
    <3>2. Entries(<<>>) = {} /\ NoRepeats(<<>>)
      BY DEF Entries, NoRepeats
    <3> QED BY <2>1, <2>3, <3>1, <3>2 DEF Lines, NoFile, LedgerIInv, TwoFiles
  <2> QED BY <2>2, <2>3
<1>3. LedgerTypes'
  <2>1. /\ content' \in Seq(Seq(1..recorded')) /\ written \in Seq(1..recorded')
        /\ writer \in [Writer -> Steps(DOMAIN content', recorded')]
    <3>1. /\ Steps(DOMAIN content, recorded) \subseteq Steps(DOMAIN content', recorded')
          /\ Seq(1..recorded) \subseteq Seq(1..recorded')
          /\ Seq(Seq(1..recorded)) \subseteq Seq(Seq(1..recorded'))
      <4>1. DOMAIN content \subseteq DOMAIN content' /\ recorded' \in Nat
            /\ recorded <= recorded'
        BY <1>1, <1>2
      <4> QED BY <4>1, <1>1, StepsGrow
    <3>2. /\ written \in Seq(1..recorded)
          /\ writer \in [Writer -> Steps(DOMAIN content, recorded)]
      BY DEF LedgerIInv, LedgerTypes
    <3> QED BY <1>2, <3>1, <3>2
  <2>2. w \in Steps(DOMAIN content', recorded')
    BY <1>1, <1>2 DEF Steps
  <2>3. writer' \in [Writer -> Steps(DOMAIN content', recorded')]
    BY <1>1, <2>1, <2>2
  <2> QED BY <1>1, <1>2, <2>1, <2>3 DEF LedgerIInv, LedgerTypes
<1>4. /\ writer'[p] = w /\ \A q \in Writer \ {p} : writer'[q] = writer[q]
      /\ writer'[p].step = "opened" /\ writer'[p].line = recorded' /\ writer'[p].file = ledger'
  BY <1>1 DEF LedgerIInv, LedgerTypes
<1> HIDE DEF w
<1>5. /\ \A i \in DOMAIN content : Entries(content[i]) \subseteq 1..recorded
      /\ \A q \in Writer : Trimming(q) => Entries(writer[q].lines) \subseteq 1..recorded
      /\ \A q \in Writer : Opening(q) => writer[q].line \in 1..recorded
  <2>1. ASSUME NEW s \in Seq(1..recorded) PROVE Entries(s) \subseteq 1..recorded
    <3>1. s \in [1..Len(s) -> 1..recorded] /\ DOMAIN s = 1..Len(s)
      BY LenProperties
    <3>2. \A i \in DOMAIN s : s[i] \in 1..recorded
      BY <3>1
    <3> QED BY <3>2 DEF Entries
  <2>2. \A i \in DOMAIN content : content[i] \in Seq(1..recorded)
    BY LenProperties DEF LedgerIInv, LedgerTypes
  <2>3. \A q \in Writer : /\ Trimming(q) => writer[q].lines \in Seq(1..recorded)
                          /\ Opening(q) => writer[q].line \in 1..recorded
    BY AtHand DEF LedgerIInv
  <2> QED BY <2>1, <2>2, <2>3
<1>6. recorded' \notin 1..recorded
  BY <1>1
<1>7. \A q \in Writer \ {p} : (Opening(q)' <=> Opening(q)) /\ (Trimming(q)' <=> Trimming(q))
  BY <1>4 DEF Opening, Trimming
<1>8. Opening(p)' /\ ~Trimming(p)'
  BY <1>4 DEF Opening, Trimming
<1>9. TwoFiles'
  BY <1>1, <1>2 DEF TwoFiles
<1>10. FreshLines'
  <2>1. ASSUME NEW q \in Writer \ {p}, Opening(q)
        PROVE  /\ \A i \in DOMAIN content' : writer[q].line \notin Entries(content'[i])
               /\ \A r \in Writer : Trimming(r)' => writer[q].line \notin Entries(writer'[r].lines)
               /\ \A r \in Writer : Opening(r)' /\ writer'[r].line = writer[q].line => r = q
    BY <2>1, <1>2, <1>4, <1>5, <1>6, <1>7, <1>8 DEF LedgerIInv, FreshLines
  <2>2. /\ \A i \in DOMAIN content' : recorded' \notin Entries(content'[i])
        /\ \A r \in Writer : Trimming(r)' => recorded' \notin Entries(writer'[r].lines)
        /\ \A r \in Writer : Opening(r)' /\ writer'[r].line = recorded' => r = p
    BY <1>2, <1>4, <1>5, <1>6, <1>7, <1>8
  <2> QED BY <1>4, <1>7, <2>1, <2>2 DEF FreshLines
<1>11. NoLineTwice'
  <2>1. \A i \in DOMAIN content' : NoRepeats(content'[i])
    BY <1>2 DEF LedgerIInv, NoLineTwice
  <2>2. \A q \in Writer : Trimming(q)' =>
            NoRepeats(writer'[q].lines) /\ Len(writer'[q].lines) > MaxLines
    BY <1>4, <1>7, <1>8 DEF LedgerIInv, NoLineTwice
  <2>3. ASSUME NEW q \in Writer, writer'[q].step = "truncated", NEW i \in DOMAIN content'[writer'[q].file],
               i > KeepLines
        PROVE  content'[writer'[q].file][i] \notin Entries(writer'[q].lines)
    <3>1. q # p /\ writer'[q] = writer[q]
      BY <1>4, <2>3
    <3>2. content'[writer[q].file] = content[writer[q].file]
      BY <1>2, <2>3, <3>1, AtHand DEF LedgerIInv
    <3> QED BY <2>3, <3>1, <3>2 DEF LedgerIInv, NoLineTwice
  <2> QED BY <2>1, <2>2, <2>3 DEF NoLineTwice
<1>12. Alone'
  <2>1. AtWork(p)'
    BY <1>4, <1>8 DEF AtWork
  <2>2. \A n : IsTail(Lines, n) => IsTail(Lines, n)'
    BY <1>1, <1>2 DEF IsTail
  <2>3. (\E n \in 0..Len(written) : IsTail(Lines, n)) => (\E n \in 0..Len(written) : IsTail(Lines, n))'
    BY <1>1, <2>2
  <2> QED BY <1>4, <2>1, <2>3, AloneStep
<1> QED BY <1>3, <1>9, <1>10, <1>11, <1>12 DEF LedgerIInv

\* record: a line that was nowhere is at the end of a file, perhaps one a trim is filling.
LEMMA AppendStep ==
    ASSUME LedgerIInv, NEW p \in Writer, AppendLine(p),
           met' = (met \/ \E q \in Writer \ {p} : writer[q] # Resting)
    PROVE  LedgerIInv'
<1> USE LedgerAssumption
<1> DEFINE f == writer[p].file
           l == writer[p].line
           looks == appended[p] + 1 >= TrimEvery
           w == IF looks THEN [step |-> "looks"] ELSE Resting
<1>1. /\ Opening(p) /\ f \in DOMAIN content /\ l \in 1..recorded
      /\ content' = [content EXCEPT ![f] = Append(@, l)]
      /\ written' = Append(written, l)
      /\ appended' = [appended EXCEPT ![p] = IF looks THEN 0 ELSE @ + 1]
      /\ writer' = [writer EXCEPT ![p] = w]
      /\ ledger' = ledger /\ trimmed' = trimmed /\ recorded' = recorded
  BY AtHand DEF AppendLine, LedgerIInv, Opening
<1>2. /\ Len(content) \in Nat /\ DOMAIN content = 1..Len(content)
      /\ \A i \in DOMAIN content : content[i] \in Seq(1..recorded)
      /\ content[f] \in Seq(1..recorded) /\ written \in Seq(1..recorded)
      /\ Append(content[f], l) \in Seq(1..recorded) /\ Append(written, l) \in Seq(1..recorded)
  BY <1>1, LenProperties, AppendFacts DEF LedgerIInv, LedgerTypes
<1>3. /\ content' \in Seq(Seq(1..recorded)) /\ Len(content') = Len(content)
      /\ DOMAIN content' = DOMAIN content
      /\ content'[f] = Append(content[f], l)
      /\ \A i \in DOMAIN content \ {f} : content'[i] = content[i]
  BY <1>1, <1>2 DEF LedgerIInv, LedgerTypes
<1>4. /\ writer'[p] = w /\ \A q \in Writer \ {p} : writer'[q] = writer[q]
      /\ writer'[p].step \in {"looks", "resting"}
  BY <1>1 DEF LedgerIInv, LedgerTypes, Resting
<1>5. LedgerTypes'
  <2>1. w \in Steps(DOMAIN content, recorded)
    BY DEF Steps
  <2>2. writer' \in [Writer -> Steps(DOMAIN content', recorded')]
    BY <1>1, <1>3, <2>1 DEF LedgerIInv, LedgerTypes
  <2>3. appended' \in [Writer -> 0..TrimEvery - 1]
    BY <1>1 DEF LedgerIInv, LedgerTypes
  <2> QED BY <1>1, <1>2, <1>3, <2>2, <2>3 DEF LedgerIInv, LedgerTypes
<1> HIDE DEF w, looks
<1>6. /\ \A q \in Writer \ {p} : (Opening(q)' <=> Opening(q)) /\ (Trimming(q)' <=> Trimming(q))
      /\ ~Opening(p)' /\ ~Trimming(p)'
  BY <1>4 DEF Opening, Trimming
<1>7. /\ \A i \in DOMAIN content : l \notin Entries(content[i])
      /\ \A q \in Writer : Trimming(q) => l \notin Entries(writer[q].lines)
      /\ \A q \in Writer : Opening(q) /\ writer[q].line = l => q = p
  BY <1>1 DEF LedgerIInv, FreshLines
<1>8. /\ Entries(Append(content[f], l)) = Entries(content[f]) \cup {l}
      /\ NoRepeats(Append(content[f], l))
  <2>1. NoRepeats(content[f]) /\ content[f] \in Seq(1..recorded) /\ l \in (1..recorded) \ Entries(content[f])
    BY <1>1, <1>2, <1>7 DEF LedgerIInv, NoLineTwice
  <2> QED BY <2>1, AppendEntries
<1>9. /\ DOMAIN content'[f] = 1..Len(content[f]) + 1 /\ DOMAIN content[f] = 1..Len(content[f])
      /\ Len(content[f]) \in Nat /\ content'[f][Len(content[f]) + 1] = l
      /\ \A i \in 1..Len(content[f]) : content'[f][i] = content[f][i]
  BY <1>1, <1>2, <1>3, AppendFacts
<1>10. TwoFiles'
  BY <1>1 DEF LedgerIInv, TwoFiles
<1>11. FreshLines'
  <2>1. ASSUME NEW q \in Writer \ {p}, Opening(q), NEW i \in DOMAIN content
        PROVE  writer[q].line \notin Entries(content'[i])
    BY <2>1, <1>1, <1>3, <1>7, <1>8 DEF LedgerIInv, FreshLines
  <2> QED BY <1>3, <1>4, <1>6, <2>1 DEF LedgerIInv, FreshLines
<1>12. NoLineTwice'
  <2>1. \A i \in DOMAIN content' : NoRepeats(content'[i])
    BY <1>3, <1>8 DEF LedgerIInv, NoLineTwice
  <2>2. \A q \in Writer : Trimming(q)' =>
            NoRepeats(writer'[q].lines) /\ Len(writer'[q].lines) > MaxLines
    BY <1>4, <1>6 DEF LedgerIInv, NoLineTwice
  <2>3. ASSUME NEW q \in Writer, writer'[q].step = "truncated", NEW i \in DOMAIN content'[writer'[q].file],
               i > KeepLines
        PROVE  content'[writer'[q].file][i] \notin Entries(writer'[q].lines)
    <3>1. q # p /\ writer'[q] = writer[q] /\ Trimming(q) /\ writer[q].step = "truncated"
      BY <1>4, <2>3 DEF Trimming
    <3>2. writer[q].file \in DOMAIN content
      BY <3>1, AtHand DEF LedgerIInv
    <3>3. CASE writer[q].file # f
      BY <1>3, <2>3, <3>1, <3>2, <3>3 DEF LedgerIInv, NoLineTwice
    <3>4. CASE writer[q].file = f /\ i \in 1..Len(content[f])
      BY <1>9, <2>3, <3>1, <3>4 DEF LedgerIInv, NoLineTwice
    <3>5. CASE writer[q].file = f /\ i = Len(content[f]) + 1
      BY <1>7, <1>9, <3>1, <3>5
    <3>6. CASE writer[q].file = f
      <4>1. i \in 1..Len(content[f]) + 1
        BY <1>9, <2>3, <3>1, <3>6
      <4> QED BY <1>9, <3>4, <3>5, <3>6, <4>1
    <3> QED BY <3>3, <3>6
  <2> QED BY <2>1, <2>2, <2>3 DEF NoLineTwice
<1>13. Alone'
  <2>1. AtWork(p)'
    BY <1>4, <1>6 DEF AtWork
  <2>2. ASSUME AtWork(p), NEW n \in 0..Len(written), IsTail(Lines, n)
        PROVE  n \in 0..Len(written') /\ IsTail(Lines, n)'
    <3>1. f = ledger /\ Lines = content[f] /\ Lines' = Append(Lines, l)
      <4>1. f = ledger /\ ledger # 0
        BY <1>1, <1>2, <2>2 DEF AtWork
      <4> QED BY <1>1, <1>3, <4>1 DEF Lines, NoFile
    <3>2. Lines = SubSeq(written, n + 1, Len(written)) /\ (Len(Lines) >= KeepLines \/ n = 0)
      BY <2>2 DEF IsTail
    <3>3. SubSeq(written', n + 1, Len(written')) = Append(SubSeq(written, n + 1, Len(written)), l)
      BY <1>1, <1>2, AppendDrop
    <3>4. Len(written) \in Nat /\ Len(written') = Len(written) + 1
      BY <1>1, <1>2, AppendFacts
    <3>5. Len(Lines') = Len(Lines) + 1 /\ Len(Lines) \in Nat
      BY <1>3, <1>1, <1>2, <3>1, AppendFacts
    <3>6. Len(Lines') >= KeepLines \/ n = 0
      BY <3>2, <3>5
    <3>7. Lines' = SubSeq(written', n + 1, Len(written'))
      BY <3>1, <3>2, <3>3
    <3> QED BY <3>4, <3>6, <3>7 DEF IsTail
  <2>3. (~met /\ (\E n \in 0..Len(written) : IsTail(Lines, n)) /\ AtWork(p)) =>
              (\E n \in 0..Len(written) : IsTail(Lines, n))' /\ AtWork(p)'
    BY <2>1, <2>2
  <2> QED BY <1>4, <2>3, AloneStep
<1> QED BY <1>5, <1>10, <1>11, <1>12, <1>13 DEF LedgerIInv

\* What a step of one process leaves of the invariant when it creates no line and opens
\* nothing: files may lose lines, or have them replaced by those of a trim.
LEMMA QuietStep ==
    ASSUME LedgerIInv, NEW p \in Writer, ~Opening(p)', UNCHANGED <<recorded, appended>>,
           \A q \in Writer \ {p} : writer'[q] = writer[q],
           \A i \in DOMAIN content' :
              \A x \in Entries(content'[i]) :
                 \/ \E j \in DOMAIN content : x \in Entries(content[j])
                 \/ Trimming(p) /\ x \in Entries(writer[p].lines),
           Trimming(p)' => \/ Trimming(p) /\ writer'[p].lines = writer[p].lines
                           \/ writer'[p].lines = Lines
    PROVE  FreshLines'
<1>1. \A q \in Writer \ {p} : (Opening(q)' <=> Opening(q)) /\ (Trimming(q)' <=> Trimming(q))
  BY DEF Opening, Trimming
<1>2. ASSUME NEW q \in Writer \ {p}, Opening(q)
      PROVE  /\ \A i \in DOMAIN content' : writer[q].line \notin Entries(content'[i])
             /\ \A r \in Writer : Trimming(r)' => writer[q].line \notin Entries(writer'[r].lines)
             /\ \A r \in Writer : Opening(r)' /\ writer'[r].line = writer[q].line => r = q
  <2>1. /\ \A i \in DOMAIN content : writer[q].line \notin Entries(content[i])
        /\ \A r \in Writer : Trimming(r) => writer[q].line \notin Entries(writer[r].lines)
        /\ \A r \in Writer : Opening(r) /\ writer[r].line = writer[q].line => r = q
    BY <1>2 DEF LedgerIInv, FreshLines
  <2>2. writer[q].line \notin Entries(Lines)
    BY <1>2, LinesFacts DEF LedgerIInv
  <2> QED BY <1>1, <2>1, <2>2
<1> QED BY <1>1, <1>2 DEF FreshLines

\* _trim: what is read is the ledger, if it is long.
LEMMA LookStep ==
    ASSUME LedgerIInv, NEW p \in Writer, Look(p),
           met' = (met \/ \E q \in Writer \ {p} : writer[q] # Resting)
    PROVE  LedgerIInv'
<1> USE LedgerAssumption
<1> DEFINE w == IF Len(Lines) <= MaxLines THEN Resting ELSE [step |-> "read", lines |-> Lines]
<1>1. /\ writer' = [writer EXCEPT ![p] = w] /\ writer[p].step = "looks"
      /\ UNCHANGED <<written, content, ledger, trimmed, appended, recorded>>
      /\ Lines' = Lines
  BY DEF Look, Lines
<1>2. Lines \in Seq(1..recorded) /\ NoRepeats(Lines) /\ Len(Lines) \in Nat
  BY LinesFacts, LenProperties DEF LedgerIInv
<1>3. w \in Steps(DOMAIN content, recorded)
  BY <1>2 DEF Steps
<1>4. /\ writer'[p] = w /\ \A q \in Writer \ {p} : writer'[q] = writer[q]
      /\ writer' \in [Writer -> Steps(DOMAIN content, recorded)]
  BY <1>1, <1>3 DEF LedgerIInv, LedgerTypes
<1>5. /\ writer'[p].step \in {"read", "resting"}
      /\ writer'[p].step = "read" => writer'[p].lines = Lines /\ Len(Lines) > MaxLines
  BY <1>2, <1>4 DEF Resting
<1> HIDE DEF w
<1>6. LedgerTypes'
  BY <1>1, <1>4 DEF LedgerIInv, LedgerTypes
<1>7. TwoFiles'
  BY <1>1 DEF LedgerIInv, TwoFiles
<1>8. ~Opening(p)' /\ (Trimming(p)' => writer'[p].lines = Lines /\ Len(Lines) > MaxLines)
  BY <1>5 DEF Opening, Trimming
<1>9. FreshLines'
  BY <1>1, <1>4, <1>8, QuietStep
<1>10. NoLineTwice'
  <2>1. \A q \in Writer \ {p} : Trimming(q)' <=> Trimming(q)
    BY <1>4 DEF Trimming
  <2>2. \A q \in Writer : Trimming(q)' =>
            NoRepeats(writer'[q].lines) /\ Len(writer'[q].lines) > MaxLines
    BY <1>2, <1>4, <1>8, <2>1 DEF LedgerIInv, NoLineTwice
  <2>3. \A q \in Writer : writer'[q].step = "truncated" => q # p
    BY <1>5
  <2> QED BY <1>1, <1>4, <2>2, <2>3 DEF LedgerIInv, NoLineTwice
<1>11. Alone'
  <2>1. AtWork(p)'
    BY <1>1, <1>5, <1>8 DEF AtWork
  <2>2. (\E n \in 0..Len(written) : IsTail(Lines, n)) => (\E n \in 0..Len(written) : IsTail(Lines, n))'
    BY <1>1 DEF IsTail
  <2> QED BY <1>4, <2>1, <2>2, AloneStep
<1> QED BY <1>6, <1>7, <1>9, <1>10, <1>11 DEF LedgerIInv

\* _trim: the second file is not the first, and empty.
LEMMA TruncateStep ==
    ASSUME LedgerIInv, NEW p \in Writer, Truncate(p),
           met' = (met \/ \E q \in Writer \ {p} : writer[q] # Resting)
    PROVE  LedgerIInv'
<1> USE LedgerAssumption
<1> DEFINE w == [step |-> "truncated", file |-> trimmed', lines |-> writer[p].lines]
<1>1. /\ writer' = [writer EXCEPT ![p] = w] /\ writer[p].step = "read"
      /\ UNCHANGED <<written, ledger, appended, recorded>>
  BY DEF Truncate
<1>2. /\ content' \in Seq(Seq(1..recorded)) /\ Len(content') \in Nat
      /\ Len(content) \in Nat /\ Len(content) <= Len(content')
      /\ DOMAIN content = 1..Len(content) /\ DOMAIN content' = 1..Len(content')
      /\ \A i \in DOMAIN content \ {trimmed'} : content'[i] = content[i]
      /\ DOMAIN content' \subseteq DOMAIN content \cup {trimmed'}
      /\ trimmed' \in DOMAIN content' /\ content'[trimmed'] = <<>>
      /\ ledger # trimmed' /\ ledger \in 0..Len(content)
  <2>1. /\ Len(content) \in Nat /\ DOMAIN content = 1..Len(content)
        /\ content \in Seq(Seq(1..recorded)) /\ <<>> \in Seq(1..recorded)
        /\ ledger \in 0..Len(content) /\ trimmed \in 0..Len(content)
    BY LenProperties DEF LedgerIInv, LedgerTypes
  <2>2. CASE trimmed = NoFile
    <3>1. content' = Append(content, <<>>) /\ trimmed' = Len(content')
      BY <2>2 DEF Truncate
    <3>2. /\ content' \in Seq(Seq(1..recorded)) /\ Len(content') = Len(content) + 1
          /\ DOMAIN content' = 1..Len(content) + 1
          /\ \A i \in DOMAIN content : content'[i] = content[i]
          /\ content'[Len(content')] = <<>>
      BY <3>1, Created DEF LedgerIInv
    <3> QED BY <2>1, <3>1, <3>2
  <2>3. CASE trimmed # NoFile
    <3>1. content' = [content EXCEPT ![trimmed] = <<>>] /\ trimmed' = trimmed
      BY <2>3 DEF Truncate
    <3>2. trimmed \in DOMAIN content /\ ledger # trimmed
      BY <2>1, <2>3 DEF NoFile, LedgerIInv, TwoFiles
    <3>3. /\ content' \in Seq(Seq(1..recorded)) /\ Len(content') = Len(content)
          /\ DOMAIN content' = DOMAIN content
      BY <2>1, <3>1, <3>2
    <3> QED BY <2>1, <3>1, <3>2, <3>3
  <2> QED BY <2>2, <2>3
<1>3. /\ writer[p].lines \in Seq(1..recorded) /\ Trimming(p)
  BY <1>1, AtHand DEF LedgerIInv, Trimming
<1>4. LedgerTypes'
  <2>1. writer \in [Writer -> Steps(DOMAIN content', recorded)]
    <3>1. Steps(DOMAIN content, recorded) \subseteq Steps(DOMAIN content', recorded)
      <4>1. DOMAIN content \subseteq DOMAIN content' /\ recorded \in Nat /\ recorded <= recorded
        BY <1>2 DEF LedgerIInv, LedgerTypes
      <4> QED BY <4>1, StepsGrow
    <3> QED BY <3>1 DEF LedgerIInv, LedgerTypes
  <2>2. w \in Steps(DOMAIN content', recorded)
    BY <1>2, <1>3 DEF Steps
  <2>3. writer' \in [Writer -> Steps(DOMAIN content', recorded)]
    BY <1>1, <2>1, <2>2
  <2> QED BY <1>1, <1>2, <2>3 DEF LedgerIInv, LedgerTypes
<1>5. /\ \A q \in Writer \ {p} : writer'[q] = writer[q]
      /\ writer'[p].step = "truncated" /\ writer'[p].file = trimmed'
      /\ writer'[p].lines = writer[p].lines
  BY <1>1 DEF LedgerIInv, LedgerTypes
<1> HIDE DEF w
<1>6. Lines' = Lines
  BY <1>1, <1>2 DEF Lines, NoFile
<1>7. TwoFiles'
  BY <1>1, <1>2 DEF TwoFiles
<1>8. ~Opening(p)' /\ Trimming(p)' /\ Entries(<<>>) = {} /\ NoRepeats(<<>>) /\ DOMAIN <<>> = {}
  BY <1>5 DEF Opening, Trimming, Entries, NoRepeats
<1>9. FreshLines'
  <2>1. \A i \in DOMAIN content' : \A x \in Entries(content'[i]) :
            \E j \in DOMAIN content : x \in Entries(content[j])
    BY <1>2, <1>8
  <2> QED BY <1>1, <1>3, <1>5, <1>8, <2>1, QuietStep
<1>10. NoLineTwice'
  <2>1. \A q \in Writer \ {p} : Trimming(q)' <=> Trimming(q)
    BY <1>5 DEF Trimming
  <2>2. \A q \in Writer : Trimming(q)' =>
            NoRepeats(writer'[q].lines) /\ Len(writer'[q].lines) > MaxLines
    BY <1>3, <1>5, <2>1 DEF LedgerIInv, NoLineTwice
  <2>3. \A i \in DOMAIN content' : NoRepeats(content'[i])
    BY <1>2, <1>8 DEF LedgerIInv, NoLineTwice
  <2>4. ASSUME NEW q \in Writer, writer'[q].step = "truncated", NEW i \in DOMAIN content'[writer'[q].file],
               i > KeepLines
        PROVE  content'[writer'[q].file][i] \notin Entries(writer'[q].lines)
    <3>1. writer'[q].file # trimmed'
      BY <1>2, <1>8, <2>4
    <3>2. q # p /\ writer'[q] = writer[q] /\ writer[q].step = "truncated"
      BY <1>5, <2>4, <3>1
    <3>3. writer[q].file \in DOMAIN content
      BY <3>2, AtHand DEF LedgerIInv
    <3> QED BY <1>2, <2>4, <3>1, <3>2, <3>3 DEF LedgerIInv, NoLineTwice
  <2> QED BY <2>2, <2>3, <2>4 DEF NoLineTwice
<1>11. Alone'
  <2>1. AtWork(p) => AtWork(p)'
    BY <1>2, <1>3, <1>5, <1>6, <1>8 DEF AtWork
  <2>2. (\E n \in 0..Len(written) : IsTail(Lines, n)) => (\E n \in 0..Len(written) : IsTail(Lines, n))'
    BY <1>1, <1>6 DEF IsTail
  <2> QED BY <1>5, <2>1, <2>2, AloneStep
<1> QED BY <1>4, <1>7, <1>9, <1>10, <1>11 DEF LedgerIInv

\* _trim: the lines kept go over what others put in the file, which is not among them.
LEMMA FillStep ==
    ASSUME LedgerIInv, NEW p \in Writer, Fill(p),
           met' = (met \/ \E q \in Writer \ {p} : writer[q] # Resting)
    PROVE  LedgerIInv'
<1> USE LedgerAssumption
<1> DEFINE f == writer[p].file
           lines == writer[p].lines
           new == Filled(lines, content[f])
           w == [writer[p] EXCEPT !.step = "filled"]
<1>1. /\ writer' = [writer EXCEPT ![p] = w] /\ writer[p].step = "truncated"
      /\ content' = [content EXCEPT ![f] = new]
      /\ UNCHANGED <<written, ledger, trimmed, appended, recorded>>
  BY DEF Fill, Filled
<1>2. /\ Trimming(p) /\ lines \in Seq(1..recorded) /\ f \in DOMAIN content
      /\ NoRepeats(lines) /\ Len(lines) > MaxLines
      /\ \A i \in DOMAIN content[f] : i > KeepLines => content[f][i] \notin Entries(lines)
      /\ \A i \in DOMAIN content : NoRepeats(content[i])
  BY <1>1, AtHand DEF LedgerIInv, Trimming, NoLineTwice
<1>3. /\ Len(content) \in Nat /\ DOMAIN content = 1..Len(content)
      /\ \A i \in DOMAIN content : content[i] \in Seq(1..recorded)
  BY LenProperties DEF LedgerIInv, LedgerTypes
<1>4. /\ new \in Seq(1..recorded) /\ NoRepeats(new)
      /\ Entries(new) \subseteq Entries(lines) \cup Entries(content[f])
      /\ \A i \in DOMAIN new : i > KeepLines => i \in DOMAIN content[f] /\ new[i] = content[f][i]
      /\ content[f] = <<>> => new = Kept(lines)
  BY <1>2, <1>3, FilledFacts
<1> HIDE DEF new
<1>5. /\ content' \in Seq(Seq(1..recorded)) /\ Len(content') = Len(content)
      /\ DOMAIN content' = DOMAIN content /\ content'[f] = new
      /\ \A i \in DOMAIN content \ {f} : content'[i] = content[i]
  BY <1>1, <1>2, <1>3, <1>4 DEF LedgerIInv, LedgerTypes
<1>6. w \in Steps(DOMAIN content, recorded) /\ w.step = "filled" /\ w.file = f /\ w.lines = lines
  <2>1. writer[p] \in [step : {"truncated", "filled"}, file : DOMAIN content,
                       lines : Seq(1..recorded)]
    BY <1>1, StepFacts DEF LedgerIInv, LedgerTypes
  <2> QED BY <2>1 DEF Steps
<1>7. /\ writer'[p] = w /\ \A q \in Writer \ {p} : writer'[q] = writer[q]
      /\ writer' \in [Writer -> Steps(DOMAIN content, recorded)]
  BY <1>1, <1>6 DEF LedgerIInv, LedgerTypes
<1> HIDE DEF w
<1>8. LedgerTypes'
  BY <1>1, <1>5, <1>7 DEF LedgerIInv, LedgerTypes
<1>9. ~Opening(p)' /\ Trimming(p)'
  BY <1>6, <1>7 DEF Opening, Trimming
<1>10. TwoFiles'
  BY <1>1 DEF LedgerIInv, TwoFiles
<1>11. FreshLines'
  <2>1. \A i \in DOMAIN content' : \A x \in Entries(content'[i]) :
                 \/ \E j \in DOMAIN content : x \in Entries(content[j])
                 \/ Trimming(p) /\ x \in Entries(writer[p].lines)
    BY <1>2, <1>4, <1>5
  <2> QED BY <1>1, <1>2, <1>6, <1>7, <1>9, <2>1, QuietStep
<1>12. NoLineTwice'
  <2>1. \A q \in Writer \ {p} : Trimming(q)' <=> Trimming(q)
    BY <1>7 DEF Trimming
  <2>2. \A q \in Writer : Trimming(q)' =>
            NoRepeats(writer'[q].lines) /\ Len(writer'[q].lines) > MaxLines
    BY <1>2, <1>6, <1>7, <2>1 DEF LedgerIInv, NoLineTwice
  <2>3. \A i \in DOMAIN content' : NoRepeats(content'[i])
    BY <1>2, <1>4, <1>5
  <2>4. ASSUME NEW q \in Writer, writer'[q].step = "truncated", NEW i \in DOMAIN content'[writer'[q].file],
               i > KeepLines
        PROVE  content'[writer'[q].file][i] \notin Entries(writer'[q].lines)
    <3>1. q # p /\ writer'[q] = writer[q] /\ writer[q].step = "truncated"
      BY <1>6, <1>7, <2>4
    <3>2. writer[q].file \in DOMAIN content
      BY <3>1, AtHand DEF LedgerIInv
    <3>3. i \in DOMAIN content[writer[q].file]
          /\ content'[writer[q].file][i] = content[writer[q].file][i]
      <4>1. CASE writer[q].file = f
        BY <1>4, <1>5, <2>4, <3>1, <4>1
      <4>2. CASE writer[q].file # f
        BY <1>5, <2>4, <3>1, <3>2, <4>2
      <4> QED BY <4>1, <4>2
    <3> QED BY <2>4, <3>1, <3>3 DEF LedgerIInv, NoLineTwice
  <2> QED BY <2>2, <2>3, <2>4 DEF NoLineTwice
<1>13. Alone'
  <2>1. ASSUME AtWork(p) PROVE Lines' = Lines /\ AtWork(p)'
    <3>1. f = trimmed /\ lines = Lines /\ content[f] = <<>>
      BY <1>1, <1>2, <2>1 DEF AtWork
    <3>2. content'[trimmed] = Kept(lines)
      BY <1>4, <1>5, <3>1
    <3>3. Lines' = Lines
      <4>1. CASE ledger = 0
        BY <1>1, <4>1 DEF Lines, NoFile
      <4>2. CASE ledger # 0
        <5>1. ledger \in DOMAIN content /\ ledger # f
          BY <1>3, <3>1, <4>2 DEF LedgerIInv, LedgerTypes, TwoFiles, NoFile
        <5> QED BY <1>1, <1>5, <4>2, <5>1 DEF Lines, NoFile
      <4> QED BY <4>1, <4>2
    <3> QED BY <1>1, <1>6, <1>7, <1>9, <3>1, <3>2, <3>3 DEF AtWork
  <2>2. ASSUME AtWork(p), \E n \in 0..Len(written) : IsTail(Lines, n)
        PROVE  (\E n \in 0..Len(written) : IsTail(Lines, n))'
    BY <1>1, <2>1, <2>2 DEF IsTail
  <2> QED BY <1>7, <2>1, <2>2, AloneStep
<1> QED BY <1>8, <1>10, <1>11, <1>12, <1>13 DEF LedgerIInv

\* _trim: the second file becomes the first, with the tail of a tail in it.
LEMMA RenameStep ==
    ASSUME LedgerIInv, NEW p \in Writer, Rename(p),
           met' = (met \/ \E q \in Writer \ {p} : writer[q] # Resting)
    PROVE  LedgerIInv'
<1> USE LedgerAssumption
<1>1. /\ writer' = [writer EXCEPT ![p] = Resting] /\ writer[p].step = "filled" /\ Trimming(p)
      /\ UNCHANGED <<written, content, appended, recorded>>
      /\ IF trimmed = NoFile THEN UNCHANGED <<ledger, trimmed>>
         ELSE ledger' = trimmed /\ trimmed' = NoFile
  BY DEF Rename, Trimming
<1>2. /\ Len(content) \in Nat /\ DOMAIN content = 1..Len(content)
      /\ \A i \in DOMAIN content : content[i] \in Seq(1..recorded)
      /\ written \in Seq(1..recorded) /\ Len(written) \in Nat
  BY LenProperties DEF LedgerIInv, LedgerTypes
<1>3. /\ writer'[p].step = "resting" /\ \A q \in Writer \ {p} : writer'[q] = writer[q]
      /\ writer' \in [Writer -> Steps(DOMAIN content, recorded)]
  BY <1>1 DEF LedgerIInv, LedgerTypes, Steps, Resting
<1>4. LedgerTypes'
  BY <1>1, <1>3 DEF LedgerIInv, LedgerTypes, NoFile
<1>5. TwoFiles'
  BY <1>1 DEF LedgerIInv, TwoFiles
<1>6. ~Opening(p)' /\ ~Trimming(p)'
  BY <1>3 DEF Opening, Trimming
<1>7. FreshLines'
  BY <1>1, <1>3, <1>6, QuietStep
<1>8. NoLineTwice'
  <2>1. \A q \in Writer \ {p} : Trimming(q)' <=> Trimming(q)
    BY <1>3 DEF Trimming
  <2>2. \A q \in Writer : writer'[q].step = "truncated" => q # p
    BY <1>3
  <2> QED BY <1>1, <1>3, <1>6, <2>1, <2>2 DEF LedgerIInv, NoLineTwice
<1>9. Alone'
  <2>1. AtWork(p)'
    BY <1>3, <1>6 DEF AtWork
  <2>2. ASSUME AtWork(p), NEW n \in 0..Len(written), IsTail(Lines, n)
        PROVE  (\E k \in 0..Len(written) : IsTail(Lines, k))'
    <3> DEFINE lines == Lines
               m == Len(lines) - KeepLines
    <3>1. /\ writer[p].lines = lines /\ trimmed = writer[p].file /\ trimmed \in DOMAIN content
          /\ content[trimmed] = Kept(lines) /\ Len(lines) > MaxLines
      BY <1>1, <2>2, AtHand DEF AtWork, LedgerIInv, NoLineTwice
    <3>2. ledger' = trimmed /\ Lines' = Kept(lines)
      <4>1. trimmed # NoFile
        BY <1>2, <3>1 DEF NoFile
      <4>2. ledger' = trimmed /\ ledger' # NoFile
        BY <1>1, <4>1
      <4>3. Lines' = content'[ledger']
        BY <4>2 DEF Lines
      <4> QED BY <1>1, <3>1, <4>2, <4>3
    <3>3. lines = SubSeq(written, n + 1, Len(written)) /\ Len(lines) = Len(written) - n
      <4>1. lines = SubSeq(written, n + 1, Len(written))
        BY <2>2 DEF IsTail
      <4>2. Len(SubSeq(written, n + 1, Len(written))) = Len(written) - n
        BY <1>2, DropFacts
      <4> QED BY <4>1, <4>2
    <3>4. m \in 0..Len(written) - n /\ n + m \in 0..Len(written) /\ m + 1 = Len(lines) - KeepLines + 1
      <4>1. Len(written) \in Nat /\ n \in 0..Len(written) /\ Len(lines) > MaxLines
        BY <1>2, <3>1
      <4>2. Len(lines) = Len(written) - n
        BY <3>3
      <4> QED BY <4>1, <4>2
    <3>5. Kept(lines) = SubSeq(lines, m + 1, Len(lines))
      BY DEF Kept
    <3>6. lines \in Seq(1..recorded) /\ NoRepeats(lines)
      BY LinesFacts DEF LedgerIInv
    <3>7. Len(Kept(lines)) = KeepLines
      BY <3>1, <3>6, KeptFacts
    <3> HIDE DEF m, lines
    <3>8. SubSeq(SubSeq(written, n + 1, Len(written)), m + 1, Len(written) - n)
             = SubSeq(written, n + m + 1, Len(written))
      BY <1>2, <3>4, DropDrop
    <3>9. Kept(lines) = SubSeq(written, n + m + 1, Len(written))
      BY <3>3, <3>5, <3>8
    <3>10. Len(Lines') >= KeepLines /\ Lines' = SubSeq(written', (n + m) + 1, Len(written'))
      BY <1>1, <3>2, <3>7, <3>9
    <3> QED BY <1>1, <3>4, <3>10 DEF IsTail
  <2> QED BY <1>3, <2>1, <2>2, AloneStep
<1> QED BY <1>4, <1>5, <1>7, <1>8, <1>9 DEF LedgerIInv

\* clear: nothing is left of the history, nor of what it is compared with.
LEMMA ClearStep ==
    ASSUME LedgerIInv, NEW p \in Writer, ClearLedger(p),
           met' = (met \/ \E q \in Writer \ {p} : writer[q] # Resting)
    PROVE  LedgerIInv'
<1>1. /\ UNCHANGED <<content, trimmed, writer, appended, recorded>>
      /\ ledger' = 0 /\ written' = <<>> /\ writer[p] = Resting
  BY DEF ClearLedger, NoFile
<1>2. LedgerTypes' /\ TwoFiles' /\ FreshLines' /\ NoLineTwice'
  <2>1. Len(content) \in Nat /\ <<>> \in Seq(1..recorded)
    BY LenProperties DEF LedgerIInv, LedgerTypes
  <2> QED BY <1>1, <2>1 DEF LedgerIInv, LedgerTypes, TwoFiles, NoFile, FreshLines, NoLineTwice,
                              Opening, Trimming
<1>3. Alone'
  <2>1. writer'[p].step = "resting"
    BY <1>1 DEF Resting
  <2>2. AtWork(p)'
    BY <2>1 DEF AtWork, Opening, Trimming
  <2>3. Len(written') = 0 /\ Lines' = <<>> /\ SubSeq(written', 0 + 1, Len(written')) = <<>>
    BY <1>1 DEF Lines, NoFile
  <2>4. IsTail(Lines, 0)' /\ 0 \in 0..Len(written')
    BY <2>3 DEF IsTail
  <2> QED BY <1>1, <2>2, <2>4, AloneStep
<1> QED BY <1>2, <1>3 DEF LedgerIInv

\* A process that ends leaves the files as they are.
LEMMA RestartStep ==
    ASSUME LedgerIInv, NEW p \in Writer, WriterRestarts(p),
           met' = (met \/ \E q \in Writer \ {p} : writer[q] # Resting)
    PROVE  LedgerIInv'
<1> USE LedgerAssumption
<1>1. /\ UNCHANGED <<written, content, ledger, trimmed, recorded>>
      /\ writer' = [writer EXCEPT ![p] = Resting] /\ appended' = [appended EXCEPT ![p] = 0]
      /\ Lines' = Lines
  BY DEF WriterRestarts, Lines
<1>2. /\ writer'[p].step = "resting" /\ \A q \in Writer \ {p} : writer'[q] = writer[q]
      /\ writer' \in [Writer -> Steps(DOMAIN content, recorded)]
      /\ appended' \in [Writer -> 0..TrimEvery - 1]
  BY <1>1 DEF LedgerIInv, LedgerTypes, Steps, Resting
<1>3. LedgerTypes' /\ TwoFiles'
  BY <1>1, <1>2 DEF LedgerIInv, LedgerTypes, TwoFiles
<1>4. /\ ~Opening(p)' /\ ~Trimming(p)'
      /\ \A q \in Writer \ {p} : (Opening(q)' <=> Opening(q)) /\ (Trimming(q)' <=> Trimming(q))
  BY <1>2 DEF Opening, Trimming
<1>5. FreshLines'
  BY <1>1, <1>2, <1>4 DEF LedgerIInv, FreshLines
<1>6. NoLineTwice'
  <2>1. \A q \in Writer : writer'[q].step = "truncated" => q # p
    BY <1>2
  <2> QED BY <1>1, <1>2, <1>4, <2>1 DEF LedgerIInv, NoLineTwice
<1>7. Alone'
  <2>1. AtWork(p)'
    BY <1>2, <1>4 DEF AtWork
  <2>2. (\E n \in 0..Len(written) : IsTail(Lines, n)) => (\E n \in 0..Len(written) : IsTail(Lines, n))'
    BY <1>1 DEF IsTail
  <2> QED BY <1>2, <2>1, <2>2, AloneStep
<1> QED BY <1>3, <1>5, <1>6, <1>7 DEF LedgerIInv

\* The steps of the ledger together.
LEMMA LedgerStep == LedgerIInv /\ [LedgerNext]_ledgerVars => LedgerIInv'
<1> SUFFICES ASSUME LedgerIInv, [LedgerNext]_ledgerVars PROVE LedgerIInv'
  OBVIOUS
<1>1. CASE LedgerNext
  <2>1. PICK p \in Writer :
            /\ \/ OpenLedger(p) \/ AppendLine(p) \/ Look(p) \/ Truncate(p) \/ Fill(p)
               \/ Rename(p) \/ ClearLedger(p) \/ WriterRestarts(p)
            /\ met' = (met \/ \E q \in Writer \ {p} : writer[q] # Resting)
    BY <1>1 DEF LedgerNext
  <2> QED BY <2>1, OpenStep, AppendStep, LookStep, TruncateStep, FillStep, RenameStep,
             ClearStep, RestartStep
<1>2. CASE UNCHANGED ledgerVars
  <2>1. UNCHANGED <<content, ledger, trimmed, writer, appended, recorded, written, met>>
    BY <1>2 DEF ledgerVars
  <2>2. LedgerTypes' /\ TwoFiles'
    BY <2>1 DEF LedgerIInv, LedgerTypes, TwoFiles
  <2>3. FreshLines' /\ NoLineTwice'
    BY <2>1 DEF LedgerIInv, FreshLines, NoLineTwice, Opening, Trimming
  <2>4. Alone'
    BY <2>1 DEF LedgerIInv, Alone, AtWork, IsTail, Lines, Opening, Trimming
  <2> QED BY <2>2, <2>3, <2>4 DEF LedgerIInv
<1> QED BY <1>1, <1>2

\* What the invariant is for.
LEMMA LedgerSafe == LedgerIInv => TailSurvives
<1> SUFFICES ASSUME LedgerIInv PROVE TailSurvives
  OBVIOUS
<1>1. \A i \in DOMAIN content : content[i] \in Seq(1..Records)
  <2>1. \A i \in DOMAIN content : content[i] \in Seq(1..recorded)
    BY LenProperties DEF LedgerIInv, LedgerTypes
  <2>2. Seq(1..recorded) \subseteq Seq(1..Records)
    <3>1. 1..recorded \subseteq 1..Records
      BY LedgerAssumption DEF LedgerIInv, LedgerTypes
    <3> QED BY <3>1, SeqGrow
  <2> QED BY <2>1, <2>2
<1>2. \A i, j \in DOMAIN Lines : i # j => Lines[i] # Lines[j]
  BY LinesFacts DEF LedgerIInv, NoRepeats
<1>3. ~met => \E n \in 0..Len(written) : IsTail(Lines, n)
  BY DEF LedgerIInv, Alone
<1> QED BY <1>1, <1>2, <1>3 DEF LedgerIInv, LedgerTypes, TailSurvives, IsTail

--------------------------------------------------------------------------
(* The parts together. *)

\* A step of the server's stores is a step of each or leaves it alone.
LEMMA Apart ==
    [StoresNext]_storesVars =>
        /\ [SettingsNext]_settingsVars /\ [LedgerNext]_ledgerVars /\ [CacheNext]_cacheVars
        /\ [KioskNext]_kioskVars /\ [OpsNext]_opsVars
BY DEF StoresNext, storesVars

\* What is true of each part, in every reachable state.
THEOREM StoresInductive == StoresSpec => [](SettingsIInv /\ LedgerIInv /\ CacheIInv /\ KioskIInv /\ OpsIInv)
<1>1. StoresInit => SettingsIInv /\ LedgerIInv /\ CacheIInv /\ KioskIInv /\ OpsIInv
  BY SettingsInit_, LedgerInit_, CacheInit_, KioskInit_, OpsInit_ DEF StoresInit
<1>2. SettingsIInv /\ LedgerIInv /\ CacheIInv /\ KioskIInv /\ OpsIInv /\ [StoresNext]_storesVars
         => SettingsIInv' /\ LedgerIInv' /\ CacheIInv' /\ KioskIInv' /\ OpsIInv'
  BY Apart, SettingsStep, LedgerStep, CacheStep, KioskStep, OpsStep
<1> QED BY <1>1, <1>2, PTL DEF StoresSpec

\* What a process writes is read back as it was meant, no database is listed twice, whoever
\* was not overtaken is where the file says, and menu and pins name what they open.
THEOREM Sound == StoresSpec => []SettingsAreSound
BY SettingsSafe, StoresInductive, PTL

\* A connection leaves the file by its removal, by a hand, or by a save that was overtaken.
THEOREM OnlyStaleSaves == StoresSpec => OnlyStaleSavesLose
<1>1. SettingsIInv /\ [SettingsNext]_settingsVars =>
        [\A c \in Listed(Load.conns) \ Listed(Load'.conns) :
            \/ edits' # edits
            \/ \E p \in Server :
                  /\ pending[p].phase = "written" /\ pending'[p] = Idle
                  /\ \/ pending[p].stale
                     \/ pending[p].request.op = "remove"
                        /\ pending[p].request.id = c.id]_settingsVars
  BY SettingsLose
<1>2. [StoresNext]_storesVars => [SettingsNext]_settingsVars
  BY Apart
<1> QED BY <1>1, <1>2, StoresInductive, PTL DEF StoresSpec, OnlyStaleSavesLose

\* The ledger is a tail of what was spent as long as no two processes met over it, ended
\* in whatever step, and it never has a call twice even when their trims collide.
THEOREM TailKept == StoresSpec => []TailSurvives
BY LedgerSafe, StoresInductive, PTL

\* An answer is given for a table only if it is about the version the handle shows, whoever
\* else writes entries, sweeps them or drops the table meanwhile.
THEOREM AboutTheirVersion == StoresSpec => []AnswersAreAboutTheirVersion
BY CacheSafe, StoresInductive, PTL

\* The upstream is asked no more in any window than the shared burst and what came back,
\* and one caller alone takes no more of it than its own burst and what its own rate gave
\* it beyond the shared one.
THEOREM Allowances == StoresSpec => []AllowancesHold
BY KioskSafe, StoresInductive, PTL

\* A plan that ran did to the database what it said it would.
THEOREM Promises == StoresSpec => []PromisesHold
BY OpsSafe, StoresInductive, PTL

\* When the script of an index or of a compaction has run, the version its plan says to go
\* back to is stored.
THEOREM CanBeUndone == StoresSpec => UndoIsThere
<1>1. OpsIInv /\ [OpsNext]_opsVars =>
        [runs' # runs /\ ran' # ran /\ ran'.done /\ ran'.plan.kind \in {"index", "compact"} =>
            ran'.plan.at \notin pruned'[ran'.plan.db]]_opsVars
  BY OpsCanBeUndone
<1>2. [StoresNext]_storesVars => [OpsNext]_opsVars
  BY Apart
<1> QED BY <1>1, <1>2, StoresInductive, PTL DEF StoresSpec, UndoIsThere

--------------------------------------------------------------------------
(* The desktop shell. *)

\* From the moment the child is stored, a live one is in the hooks' reach, and the hooks
\* have run before the process has ended.
Reachable ==
    /\ boot = "start" => server = "none"
    /\ port => boot = "done"
    /\ (boot \in {"wait", "open", "explain"} \/ port) /\ server \in Alive => held
    /\ shell \in {"ending", "gone"} /\ ~crashed /\ port => server \notin Alive

\* Until the boot is over the splash is the only window, or the shell is leaving.
Windows ==
    /\ boot # "done" => windows \subseteq {"splash"}
    /\ shell = "up" => windows # {} /\ "failure" \notin windows
    /\ shell = "up" /\ boot # "done" => "splash" \in windows

\* Pending.busy is one press's, from the moment it is accepted.
Exclusive ==
    /\ \A p, q \in Press : install[p] \in Installing /\ install[q] \in Installing => p = q
    /\ \A p \in Press : install[p] \in Installing => busy
    /\ busy => \E p \in Press : install[p] \in Installing \cup {"restarted"}

\* ShellTypeOK, in two parts: what is TRUE or FALSE, and what is not.
Flags ==
    /\ crashed \in BOOLEAN /\ held \in BOOLEAN /\ port \in BOOLEAN
    /\ printed \in BOOLEAN /\ found \in BOOLEAN /\ busy \in BOOLEAN

ShellValues ==
    /\ shell \in {"up", "exiting", "leaving", "ending", "gone"}
    /\ windows \subseteq {"splash", "main", "failure"}
    /\ splash \in {"stages", "failure page"}
    /\ boot \in {"start", "poll", "store", "wait", "open", "explain", "done"}
    /\ server \in {"none", "dead"} \cup Alive
    /\ watcher \in {"off", "shell", "init"}
    /\ install \in [Press -> Installing \cup Done]
    /\ checking \subseteq {"quiet", "manual"}
    /\ stamp \in {"old", "fresh"}
    /\ toast \in {"none", "available", "current", "failed", "manual", "downloading",
                  "installed"}

ShellIInv == Flags /\ ShellValues /\ Reachable /\ Windows /\ Exclusive

LEMMA InitShellIInv == ShellInit => ShellIInv
<1> SUFFICES ASSUME ShellInit PROVE ShellIInv
  OBVIOUS
<1>1. Flags /\ ShellValues
  BY DEF ShellInit, Flags, ShellValues, Installing, Done
<1>2. Reachable /\ Windows
  BY DEF ShellInit, Reachable, Windows, Alive
<1>3. Exclusive
  BY DEF ShellInit, Exclusive, Installing
<1> QED BY <1>1, <1>2, <1>3 DEF ShellIInv

--------------------------------------------------------------------------
(* The steps. *)

\* A step that does not touch the presses.
LEMMA PressesStay == ASSUME Exclusive, UNCHANGED <<busy, install>> PROVE Exclusive'
BY DEF Exclusive

\* A step of nothing but the updates.
LEMMA OutsideStays ==
    ASSUME Reachable, Windows, UNCHANGED <<process, surface, boot, port, child>>
    PROVE  Reachable' /\ Windows'
BY DEF Reachable, Windows, process, surface, child

\* A step of nothing but the updates keeps the invariant when it keeps their part of it.
LEMMA UpdateKeeps ==
    ASSUME ShellIInv, UNCHANGED <<process, surface, boot, port, child>>, Flags', ShellValues', Exclusive'
    PROVE  ShellIInv'
BY OutsideStays DEF ShellIInv

Toasts == {"none", "available", "current", "failed", "manual", "downloading", "installed"}

\* Something said, or nothing, is one of the toasts.
LEMMA Spoken ==
    ASSUME ShellValues, NEW event \in {"available", "current", "failed", "manual", "downloading", "installed"}, Say(event)
    PROVE  toast' \in Toasts
BY DEF ShellValues, Say, Toasts

\* A check that starts, or is put off.
LEMMA CheckStarts ==
    ASSUME ShellValues, NEW kind \in {"quiet", "manual"}, StartCheck(kind)
    PROVE  checking' \subseteq {"quiet", "manual"} /\ stamp' \in {"old", "fresh"}
BY DEF ShellValues, StartCheck

LEMMA ServerKeeps ==
    ASSUME ShellIInv, ServerStep \/ ServerDies
    PROVE  ShellIInv'
<1> USE DEF ShellIInv, process, surface, child, updates
<1>1. CASE PrintsPort
  <2>1. Flags'
    BY <1>1, Zenon DEF PrintsPort, Running, Flags
  <2>2. ShellValues'
    BY <1>1 DEF PrintsPort, Running, ShellValues, Alive
  <2>3. Reachable'
    BY <1>1 DEF PrintsPort, Running, ShellValues, Reachable, Alive
  <2>4. Windows'
    BY <1>1 DEF PrintsPort, Running, ShellValues, Windows
  <2>5. Exclusive'
    BY <1>1, PressesStay DEF PrintsPort
  <2> QED BY <2>1, <2>2, <2>3, <2>4, <2>5
<1>2. CASE Watches
  <2>1. Flags'
    BY <1>2, Zenon DEF Watches, Flags
  <2>2. ShellValues'
    BY <1>2 DEF Watches, ShellValues, Alive
  <2>3. Reachable'
    BY <1>2 DEF Watches, ShellValues, Reachable, Alive
  <2>4. Windows'
    BY <1>2 DEF Watches, ShellValues, Windows
  <2>5. Exclusive'
    BY <1>2, PressesStay DEF Watches
  <2> QED BY <2>1, <2>2, <2>3, <2>4, <2>5
<1>3. CASE Binds
  <2>1. Flags'
    BY <1>3, Zenon DEF Binds, Flags
  <2>2. ShellValues'
    BY <1>3 DEF Binds, ShellValues, Alive
  <2>3. Reachable'
    BY <1>3 DEF Binds, ShellValues, Reachable, Alive
  <2>4. Windows'
    BY <1>3 DEF Binds, ShellValues, Windows
  <2>5. Exclusive'
    BY <1>3, PressesStay DEF Binds
  <2> QED BY <2>1, <2>2, <2>3, <2>4, <2>5
<1>4. CASE ParentGone
  <2>1. Flags'
    BY <1>4, Zenon DEF ParentGone, Flags
  <2>2. ShellValues'
    BY <1>4 DEF ParentGone, ShellValues, Alive
  <2>3. Reachable'
    BY <1>4 DEF ParentGone, ShellValues, Reachable, Alive
  <2>4. Windows'
    BY <1>4 DEF ParentGone, ShellValues, Windows
  <2>5. Exclusive'
    BY <1>4, PressesStay DEF ParentGone
  <2> QED BY <2>1, <2>2, <2>3, <2>4, <2>5
<1>5. CASE ServerDies
  <2>1. Flags'
    BY <1>5, Zenon DEF ServerDies, Flags
  <2>2. ShellValues'
    BY <1>5 DEF ServerDies, ShellValues, Alive
  <2>3. Reachable'
    BY <1>5 DEF ServerDies, ShellValues, Reachable, Alive
  <2>4. Windows'
    BY <1>5 DEF ServerDies, ShellValues, Windows
  <2>5. Exclusive'
    BY <1>5, PressesStay DEF ServerDies
  <2> QED BY <2>1, <2>2, <2>3, <2>4, <2>5
<1> QED BY <1>1, <1>2, <1>3, <1>4, <1>5 DEF ServerStep

LEMMA BootKeeps ==
    ASSUME ShellIInv, BootStep \/ CannotStart \/ NeverAnswers \/ CannotOpenMain
    PROVE  ShellIInv'
<1> USE DEF ShellIInv, process, surface, child, updates
<1>1. CASE StartServer
  <2>1. Flags'
    BY <1>1, Zenon DEF StartServer, Running, Flags
  <2>2. ShellValues'
    BY <1>1 DEF StartServer, Running, ShellValues, Alive
  <2>3. Reachable'
    BY <1>1 DEF StartServer, Running, ShellValues, Reachable, Alive
  <2>4. Windows'
    BY <1>1 DEF StartServer, Running, ShellValues, Windows
  <2>5. Exclusive'
    BY <1>1, PressesStay DEF StartServer
  <2> QED BY <2>1, <2>2, <2>3, <2>4, <2>5
<1>2. CASE PortArrives
  <2>1. Flags'
    BY <1>2, Zenon DEF PortArrives, Flags
  <2>2. ShellValues'
    BY <1>2 DEF PortArrives, ShellValues, Alive
  <2>3. Reachable'
    BY <1>2 DEF PortArrives, ShellValues, Reachable, Alive
  <2>4. Windows'
    BY <1>2 DEF PortArrives, ShellValues, Windows
  <2>5. Exclusive'
    BY <1>2, PressesStay DEF PortArrives
  <2> QED BY <2>1, <2>2, <2>3, <2>4, <2>5
<1>3. CASE StoppedEarly
  <2>1. Flags'
    BY <1>3, Zenon DEF StoppedEarly, Flags
  <2>2. ShellValues'
    BY <1>3 DEF StoppedEarly, ShellValues, Alive
  <2>3. Reachable'
    BY <1>3 DEF StoppedEarly, ShellValues, Reachable, Alive
  <2>4. Windows'
    BY <1>3 DEF StoppedEarly, ShellValues, Windows
  <2>5. Exclusive'
    BY <1>3, PressesStay DEF StoppedEarly
  <2> QED BY <2>1, <2>2, <2>3, <2>4, <2>5
<1>4. CASE PortTimeout
  <2>1. Flags'
    BY <1>4, Zenon DEF PortTimeout, Flags
  <2>2. ShellValues'
    BY <1>4 DEF PortTimeout, ShellValues, Alive
  <2>3. Reachable'
    BY <1>4 DEF PortTimeout, ShellValues, Reachable, Alive
  <2>4. Windows'
    BY <1>4 DEF PortTimeout, ShellValues, Windows
  <2>5. Exclusive'
    BY <1>4, PressesStay DEF PortTimeout
  <2> QED BY <2>1, <2>2, <2>3, <2>4, <2>5
<1>5. CASE StoreChild
  <2>1. Flags'
    BY <1>5, Zenon DEF StoreChild, Running, Flags
  <2>2. ShellValues'
    BY <1>5 DEF StoreChild, Running, ShellValues, Alive
  <2>3. Reachable'
    BY <1>5 DEF StoreChild, Running, ShellValues, Reachable, Alive
  <2>4. Windows'
    BY <1>5 DEF StoreChild, Running, ShellValues, Windows
  <2>5. Exclusive'
    BY <1>5, PressesStay DEF StoreChild
  <2> QED BY <2>1, <2>2, <2>3, <2>4, <2>5
<1>6. CASE Answers
  <2>1. Flags'
    BY <1>6, Zenon DEF Answers, Flags
  <2>2. ShellValues'
    BY <1>6 DEF Answers, ShellValues, Alive
  <2>3. Reachable'
    BY <1>6 DEF Answers, ShellValues, Reachable, Alive
  <2>4. Windows'
    BY <1>6 DEF Answers, ShellValues, Windows
  <2>5. Exclusive'
    BY <1>6, PressesStay DEF Answers
  <2> QED BY <2>1, <2>2, <2>3, <2>4, <2>5
<1>7. CASE OpenMain
  <2>1. Flags'
    BY <1>7, Zenon DEF OpenMain, Looping, StartCheck, Flags
  <2>2. ShellValues'
    <3>1. checking' \subseteq {"quiet", "manual"} /\ stamp' \in {"old", "fresh"}
      BY <1>7, CheckStarts DEF OpenMain
    <3>2. windows' \subseteq {"splash", "main", "failure"} /\ boot' = "done"
      BY <1>7 DEF OpenMain, ShellValues
    <3>3. UNCHANGED <<shell, splash, server, watcher, install, toast>>
      BY <1>7 DEF OpenMain
    <3> QED BY <3>1, <3>2, <3>3 DEF ShellValues, Alive
  <2>3. Reachable'
    BY <1>7 DEF OpenMain, Looping, StartCheck, ShellValues, Reachable, Alive
  <2>4. Windows'
    <3>1. boot = "open" /\ boot' = "done" /\ shell' = shell
      BY <1>7 DEF OpenMain
    <3>2. windows' = (windows \cup {"main"}) \ {"splash"}
      BY <1>7 DEF OpenMain
    <3> QED BY <3>1, <3>2 DEF Windows
  <2>5. Exclusive'
    BY <1>7, PressesStay DEF OpenMain
  <2> QED BY <2>1, <2>2, <2>3, <2>4, <2>5
<1>8. CASE Explain
  <2>1. Flags'
    BY <1>8, Zenon DEF Explain, Flags
  <2>2. ShellValues'
    BY <1>8 DEF Explain, ShellValues, Alive
  <2>3. Reachable'
    BY <1>8 DEF Explain, ShellValues, Reachable, Alive
  <2>4. Windows'
    BY <1>8 DEF Explain, ShellValues, Windows
  <2>5. Exclusive'
    BY <1>8, PressesStay DEF Explain
  <2> QED BY <2>1, <2>2, <2>3, <2>4, <2>5
<1>9. CASE CannotStart
  <2>1. Flags'
    BY <1>9, Zenon DEF CannotStart, Flags
  <2>2. ShellValues'
    BY <1>9 DEF CannotStart, ShellValues, Alive
  <2>3. Reachable'
    BY <1>9 DEF CannotStart, ShellValues, Reachable, Alive
  <2>4. Windows'
    BY <1>9 DEF CannotStart, ShellValues, Windows
  <2>5. Exclusive'
    BY <1>9, PressesStay DEF CannotStart
  <2> QED BY <2>1, <2>2, <2>3, <2>4, <2>5
<1>10. CASE NeverAnswers
  <2>1. Flags'
    BY <1>10, Zenon DEF NeverAnswers, Flags
  <2>2. ShellValues'
    BY <1>10 DEF NeverAnswers, ShellValues, Alive
  <2>3. Reachable'
    BY <1>10 DEF NeverAnswers, ShellValues, Reachable, Alive
  <2>4. Windows'
    BY <1>10 DEF NeverAnswers, ShellValues, Windows
  <2>5. Exclusive'
    BY <1>10, PressesStay DEF NeverAnswers
  <2> QED BY <2>1, <2>2, <2>3, <2>4, <2>5
<1>11. CASE CannotOpenMain
  <2>1. Flags'
    BY <1>11, Zenon DEF CannotOpenMain, Flags
  <2>2. ShellValues'
    BY <1>11 DEF CannotOpenMain, ShellValues, Alive
  <2>3. Reachable'
    BY <1>11 DEF CannotOpenMain, ShellValues, Reachable, Alive
  <2>4. Windows'
    BY <1>11 DEF CannotOpenMain, ShellValues, Windows
  <2>5. Exclusive'
    BY <1>11, PressesStay DEF CannotOpenMain
  <2> QED BY <2>1, <2>2, <2>3, <2>4, <2>5
<1> QED BY <1>1, <1>2, <1>3, <1>4, <1>5, <1>6, <1>7, <1>8, <1>9, <1>10, <1>11 DEF BootStep

LEMMA ExitKeeps == ASSUME ShellIInv, Quit \/ ExitStep \/ Crash PROVE ShellIInv'
<1> USE DEF ShellIInv, process, surface, child, updates
<1>1. CASE Quit
  <2>1. Flags'
    BY <1>1, Zenon DEF Quit, Flags
  <2>2. ShellValues'
    BY <1>1 DEF Quit, ShellValues, Alive
  <2>3. Reachable'
    BY <1>1 DEF Quit, ShellValues, Reachable, Alive
  <2>4. Windows'
    BY <1>1 DEF Quit, ShellValues, Windows
  <2>5. Exclusive'
    BY <1>1, PressesStay DEF Quit
  <2> QED BY <2>1, <2>2, <2>3, <2>4, <2>5
<1>2. CASE ExitHook
  <2>1. Flags'
    BY <1>2, Zenon DEF ExitHook, KillHeld, Flags
  <2>2. ShellValues'
    BY <1>2 DEF ExitHook, KillHeld, ShellValues, Alive
  <2>3. Reachable'
    BY <1>2 DEF ExitHook, KillHeld, ShellValues, Reachable, Alive
  <2>4. Windows'
    BY <1>2 DEF ExitHook, KillHeld, ShellValues, Windows
  <2>5. Exclusive'
    BY <1>2, PressesStay DEF ExitHook
  <2> QED BY <2>1, <2>2, <2>3, <2>4, <2>5
<1>3. CASE ProcessEnds
  <2>1. Flags'
    BY <1>3, Zenon DEF ProcessEnds, Flags
  <2>2. ShellValues'
    BY <1>3 DEF ProcessEnds, ShellValues, Alive
  <2>3. Reachable'
    BY <1>3 DEF ProcessEnds, ShellValues, Reachable, Alive
  <2>4. Windows'
    BY <1>3 DEF ProcessEnds, ShellValues, Windows
  <2>5. Exclusive'
    BY <1>3, PressesStay DEF ProcessEnds
  <2> QED BY <2>1, <2>2, <2>3, <2>4, <2>5
<1>4. CASE Crash
  <2>1. Flags'
    BY <1>4, Zenon DEF Crash, Running, Flags
  <2>2. ShellValues'
    BY <1>4 DEF Crash, Running, ShellValues, Alive
  <2>3. Reachable'
    BY <1>4 DEF Crash, Running, ShellValues, Reachable, Alive
  <2>4. Windows'
    BY <1>4 DEF Crash, Running, ShellValues, Windows
  <2>5. Exclusive'
    BY <1>4, PressesStay DEF Crash
  <2> QED BY <2>1, <2>2, <2>3, <2>4, <2>5
<1> QED BY <1>1, <1>2, <1>3, <1>4 DEF ExitStep

LEMMA CloseKeeps == ASSUME ShellIInv, NEW w \in {"splash", "main", "failure"}, Close(w) PROVE ShellIInv'
<1> USE DEF ShellIInv, Close, process, surface, child, updates
<1>0. Flags'
  BY Zenon DEF Flags
<1>1. ShellValues'
  BY DEF ShellValues
<1>2. Reachable'
  BY DEF ShellValues, Reachable, Looping
<1>3. Windows'
  BY DEF ShellValues, Windows, LastWindow
<1>4. Exclusive'
  BY PressesStay
<1> QED BY <1>0, <1>1, <1>2, <1>3, <1>4

LEMMA ChecksKeep ==
    ASSUME ShellIInv,
           CheckForUpdates \/ \E kind \in {"quiet", "manual"} : CheckFinds(kind) \/ CheckEnds(kind)
    PROVE  ShellIInv'
<1> USE DEF ShellIInv, process, surface, child, updates
<1>1. CASE CheckForUpdates
  <2>1. Flags'
    BY <1>1, Zenon DEF CheckForUpdates, Flags
  <2>2. ShellValues'
    BY <1>1 DEF CheckForUpdates, StartCheck, ShellValues
  <2> QED BY <1>1, <2>1, <2>2, OutsideStays, PressesStay DEF CheckForUpdates
<1>2. ASSUME NEW kind \in {"quiet", "manual"}, CheckFinds(kind) PROVE ShellIInv'
  <2>1. Flags'
    BY <1>2, Zenon DEF CheckFinds, Flags
  <2>2. ShellValues'
    BY <1>2 DEF CheckFinds, Say, ShellValues
  <2> QED BY <1>2, <2>1, <2>2, OutsideStays, PressesStay DEF CheckFinds
<1>3. ASSUME NEW kind \in {"quiet", "manual"}, CheckEnds(kind) PROVE ShellIInv'
  <2>1. Flags'
    BY <1>3, Zenon DEF CheckEnds, Flags
  <2>2. ShellValues'
    <3>1. toast' \in Toasts
      BY <1>3, Spoken DEF CheckEnds, ShellValues, Toasts
    <3>2. checking' \subseteq {"quiet", "manual"}
      BY <1>3 DEF CheckEnds, ShellValues
    <3> QED BY <1>3, <3>1, <3>2 DEF CheckEnds, ShellValues, Toasts
  <2> QED BY <1>3, <2>1, <2>2, OutsideStays, PressesStay DEF CheckEnds
<1> QED BY <1>1, <1>2, <1>3

\* A press goes from one phase to another.
LEMMA PressMoves ==
    ASSUME ShellValues, NEW p \in Press, NEW phase \in Installing \cup Done, Moves(p, phase)
    PROVE  /\ install' \in [Press -> Installing \cup Done]
           /\ install'[p] = phase
           /\ \A q \in Press \ {p} : install'[q] = install[q]
BY DEF ShellValues, Moves

\* What a press that moves does to Pending.busy: a new one takes it, one that fails
\* gives it back.
LEMMA BusyFollows ==
    ASSUME ShellIInv, NEW p \in Press, NEW phase \in Installing \cup Done, Moves(p, phase),
           \/ install[p] = "unpressed" /\ phase \in {"ignored", "refused"} /\ UNCHANGED busy
           \/ install[p] = "unpressed" /\ phase = "take" /\ ~busy /\ busy'
           \/ install[p] \in Installing /\ phase = "refused" /\ ~busy'
           \/ /\ install[p] \in Installing /\ phase \in Installing \cup {"restarted"}
              /\ UNCHANGED busy
    PROVE  Exclusive'
<1>1. /\ install'[p] = phase
      /\ \A q \in Press \ {p} : install'[q] = install[q]
  BY PressMoves DEF ShellIInv
<1>2. \A q \in Press \ {p} : install[p] \in Installing => install[q] \notin Installing
  BY DEF ShellIInv, Exclusive
<1>3. CASE install[p] = "unpressed" /\ phase \in {"ignored", "refused"} /\ UNCHANGED busy
  <2>1. \A q \in Press : install'[q] \in Installing <=> install[q] \in Installing
    BY <1>1, <1>3 DEF Installing
  <2>2. \A q \in Press : install[q] = "restarted" => install'[q] = "restarted"
    BY <1>1, <1>3
  <2> QED BY <1>3, <2>1, <2>2 DEF ShellIInv, Exclusive
<1>4. CASE install[p] = "unpressed" /\ phase = "take" /\ ~busy /\ busy'
  <2>1. \A q \in Press : install'[q] \in Installing <=> q = p
    BY <1>1, <1>4 DEF ShellIInv, Exclusive, Installing
  <2> QED BY <1>4, <2>1 DEF Exclusive
<1>5. CASE install[p] \in Installing /\ phase = "refused" /\ ~busy'
  <2>1. \A q \in Press : install'[q] \notin Installing
    BY <1>1, <1>2, <1>5 DEF Installing
  <2> QED BY <1>5, <2>1 DEF Exclusive
<1>6. CASE /\ install[p] \in Installing /\ phase \in Installing \cup {"restarted"}
           /\ UNCHANGED busy
  <2>1. \A q \in Press : install'[q] \in Installing => q = p
    BY <1>1, <1>2, <1>6
  <2>2. busy /\ install'[p] \in Installing \cup {"restarted"}
    BY <1>1, <1>6 DEF ShellIInv, Exclusive
  <2> QED BY <1>6, <2>1, <2>2 DEF Exclusive
<1> QED BY <1>3, <1>4, <1>5, <1>6

LEMMA PressKeeps == ASSUME ShellIInv, NEW p \in Press, BeginInstall(p) \/ CannotReplace(p) PROVE ShellIInv'
<1> USE DEF process, surface, child, updates
<1>1. CASE BeginInstall(p)
  <2>1. PICK phase \in {"ignored", "take"} :
           /\ install[p] = "unpressed" /\ Moves(p, phase)
           /\ \/ phase = "ignored" /\ UNCHANGED busy
              \/ phase = "take" /\ ~busy /\ busy' = TRUE
    BY <1>1, Zenon DEF BeginInstall, Pressed
  <2>2. Flags'
    <3>1. busy' \in BOOLEAN
      BY <2>1, Zenon DEF ShellIInv, Flags
    <3> QED BY <1>1, <3>1, Zenon DEF ShellIInv, Flags, BeginInstall
  <2>3. install' \in [Press -> Installing \cup Done]
    BY <2>1, PressMoves DEF ShellIInv, Installing, Done
  <2>4. ShellValues'
    BY <1>1, <2>3 DEF ShellIInv, ShellValues, BeginInstall
  <2>5. Exclusive'
    BY <2>1, BusyFollows DEF Installing, Done
  <2>9. UNCHANGED <<process, surface, boot, port, child>>
    BY <1>1 DEF BeginInstall
  <2> QED BY <2>2, <2>4, <2>5, <2>9, UpdateKeeps
<1>2. CASE CannotReplace(p)
  <2>1. install[p] = "unpressed" /\ Moves(p, "refused") /\ UNCHANGED busy
    BY <1>2 DEF CannotReplace, Pressed
  <2>2. Flags'
    BY <1>2, Zenon DEF ShellIInv, Flags, CannotReplace
  <2>3. install' \in [Press -> Installing \cup Done]
    BY <2>1, PressMoves DEF ShellIInv, Installing, Done
  <2>4. ShellValues'
    <3>1. toast' \in Toasts
      BY <1>2, Spoken DEF ShellIInv, CannotReplace
    <3> QED BY <1>2, <2>3, <3>1 DEF ShellIInv, ShellValues, CannotReplace, Toasts
  <2>5. Exclusive'
    BY <2>1, BusyFollows DEF Installing, Done
  <2>9. UNCHANGED <<process, surface, boot, port, child>>
    BY <1>2 DEF CannotReplace
  <2> QED BY <2>2, <2>4, <2>5, <2>9, UpdateKeeps
<1> QED BY <1>1, <1>2

\* A press that goes on, one step of an install.
LEMMA PressGoesOn ==
    ASSUME ShellIInv, NEW p \in Press, install[p] \in Installing,
           NEW phase \in Installing \cup {"restarted"}, Moves(p, phase), UNCHANGED busy
    PROVE  Exclusive' /\ install' \in [Press -> Installing \cup Done]
<1>1. phase \in Installing \cup Done
  BY DEF Done
<1> QED BY <1>1, PressMoves, BusyFollows DEF ShellIInv

LEMMA InstallKeeps ==
    ASSUME ShellIInv, NEW p \in Press,
           TakeFound(p) \/ AskAgain(p) \/ InstallFails(p) \/ Installed(p) \/ RestartApp(p)
    PROVE  ShellIInv'
<1> USE DEF process, surface, child, updates
<1>1. CASE TakeFound(p)
  <2>1. Flags'
    BY <1>1, Zenon DEF ShellIInv, Flags, TakeFound
  <2>2. PICK phase \in {"ask", "download"} : Moves(p, phase)
    BY <1>1 DEF TakeFound
  <2>3. Exclusive' /\ install' \in [Press -> Installing \cup Done]
    BY <1>1, <2>2, PressGoesOn DEF TakeFound, Installing
  <2>4. ShellValues'
    <3>1. toast' \in Toasts
      BY <1>1, Spoken DEF ShellIInv, TakeFound, ShellValues, Toasts
    <3> QED BY <1>1, <2>3, <3>1 DEF ShellIInv, ShellValues, TakeFound, Toasts
  <2>9. UNCHANGED <<process, surface, boot, port, child>>
    BY <1>1 DEF TakeFound
  <2> QED BY <2>1, <2>3, <2>4, <2>9, UpdateKeeps
<1>2. CASE AskAgain(p)
  <2>1. Flags'
    BY <1>2, Zenon DEF ShellIInv, Flags, AskAgain
  <2>2. Exclusive' /\ install' \in [Press -> Installing \cup Done]
    BY <1>2, PressGoesOn DEF AskAgain, Installing
  <2>3. ShellValues'
    <3>1. toast' \in Toasts
      BY <1>2, Spoken DEF ShellIInv, AskAgain
    <3> QED BY <1>2, <2>2, <3>1 DEF ShellIInv, ShellValues, AskAgain, Toasts
  <2>9. UNCHANGED <<process, surface, boot, port, child>>
    BY <1>2 DEF AskAgain
  <2> QED BY <2>1, <2>2, <2>3, <2>9, UpdateKeeps
<1>3. CASE Installed(p)
  <2>1. Flags'
    BY <1>3, Zenon DEF ShellIInv, Flags, Installed
  <2>2. Exclusive' /\ install' \in [Press -> Installing \cup Done]
    BY <1>3, PressGoesOn DEF Installed, Installing
  <2>3. ShellValues'
    <3>1. toast' \in Toasts
      BY <1>3, Spoken DEF ShellIInv, Installed
    <3> QED BY <1>3, <2>2, <3>1 DEF ShellIInv, ShellValues, Installed, Toasts
  <2>9. UNCHANGED <<process, surface, boot, port, child>>
    BY <1>3 DEF Installed
  <2> QED BY <2>1, <2>2, <2>3, <2>9, UpdateKeeps
<1>4. CASE InstallFails(p)
  <2>1. install[p] \in Installing /\ Moves(p, "refused") /\ ~busy'
    BY <1>4 DEF InstallFails, Installing
  <2>2. Flags'
    BY <1>4, Zenon DEF ShellIInv, Flags, InstallFails
  <2>3. Exclusive' /\ install' \in [Press -> Installing \cup Done]
    BY <2>1, PressMoves, BusyFollows DEF ShellIInv, Done
  <2>4. ShellValues'
    <3>1. toast' \in Toasts
      BY <1>4, Spoken DEF ShellIInv, InstallFails
    <3> QED BY <1>4, <2>3, <3>1 DEF ShellIInv, InstallFails, ShellValues, Toasts
  <2>9. UNCHANGED <<process, surface, boot, port, child>>
    BY <1>4 DEF InstallFails
  <2> QED BY <2>2, <2>3, <2>4, <2>9, UpdateKeeps
<1>5. CASE RestartApp(p)
  <2>1. Flags'
    BY <1>5, Zenon DEF ShellIInv, Flags, RestartApp, KillHeld
  <2>2. Exclusive' /\ install' \in [Press -> Installing \cup Done]
    BY <1>5, PressGoesOn DEF RestartApp, Installing
  <2>3. ShellValues'
    BY <1>5, <2>2 DEF ShellIInv, ShellValues, RestartApp, KillHeld
  <2>4. Reachable'
    BY <1>5 DEF ShellIInv, ShellValues, Reachable, RestartApp, KillHeld, Alive, Running
  <2>5. Windows'
    BY <1>5 DEF ShellIInv, Windows, RestartApp
  <2> QED BY <2>1, <2>2, <2>3, <2>4, <2>5 DEF ShellIInv
<1> QED BY <1>1, <1>2, <1>3, <1>4, <1>5

LEMMA NextShellIInv == ShellIInv /\ [ShellNext]_shellVars => ShellIInv'
<1> SUFFICES ASSUME ShellIInv, [ShellNext]_shellVars PROVE ShellIInv'
  OBVIOUS
<1>1. CASE UNCHANGED shellVars
  <2>1. Flags'
    BY <1>1, Zenon DEF ShellIInv, Flags, shellVars, process, surface, child, updates
  <2>2. ShellValues'
    BY <1>1 DEF ShellIInv, ShellValues, shellVars, process, surface, child, updates
  <2> QED BY <1>1, <2>1, <2>2, OutsideStays, PressesStay DEF ShellIInv, shellVars, updates
<1> QED BY <1>1, ServerKeeps, BootKeeps, ExitKeeps, CloseKeeps, ChecksKeep, PressKeeps, InstallKeeps
        DEF ShellNext, UpdateStep

LEMMA IInvAlways == ShellSpec => []ShellIInv
BY InitShellIInv, NextShellIInv, PTL DEF ShellSpec

--------------------------------------------------------------------------
(* What the shell promises. *)

\* A shell that showed the console and left by its hooks has killed its server, and a
\* failure is explained with no server behind it that the exit hook cannot reach.
THEOREM NoServerLeft == ShellSpec => []LeavesNoServer
<1>1. ShellIInv => LeavesNoServer
  <2>1. Flags => {crashed, held, port, printed, found, busy} \subseteq BOOLEAN
    BY Zenon DEF Flags
  <2>2. Flags /\ ShellValues => ShellTypeOK
    BY <2>1 DEF ShellValues, ShellTypeOK
  <2> QED BY <2>2 DEF ShellIInv, Reachable, LeavesNoServer
<1> QED BY <1>1, IInvAlways, PTL

\* However splash, console and failure page replace one another, a shell that is not on
\* its way out has a window (main.rs: the Destroyed handler).
THEOREM AlwaysAWindow == ShellSpec => []SomethingToLookAt
<1>1. ShellIInv => SomethingToLookAt
  BY DEF ShellIInv, Windows, SomethingToLookAt
<1> QED BY <1>1, IInvAlways, PTL

\* However often the button is pressed, one install at most is at work, and the button
\* is busy for a press that is at work or has restarted the shell (update.rs).
THEOREM OneInstall == ShellSpec => []OneInstallAtATime
<1>1. ShellIInv => OneInstallAtATime
  <2> SUFFICES ASSUME ShellIInv PROVE OneInstallAtATime
    OBVIOUS
  <2> DEFINE S == {p \in Press : install[p] \in Installing}
  <2>1. Cardinality(S) <= 1
    <3>1. CASE S = {}
      BY <3>1, FS_EmptySet
    <3>2. CASE S # {}
      <4>1. PICK p \in S : TRUE
        BY <3>2
      <4>2. S = {p}
        BY <4>1 DEF ShellIInv, Exclusive
      <4> QED BY <4>2, FS_Singleton
    <3> QED BY <3>1, <3>2
  <2> QED BY <2>1 DEF ShellIInv, Exclusive, OneInstallAtATime
<1> QED BY <1>1, IInvAlways, PTL

--------------------------------------------------------------------------
(* The agent: questions and tasks over one meter. *)

\* What the turns have used up, at each place of the loop.
Turns(i) ==
    /\ run[i].pc # "done" => run[i].turns <= run[i].budget.max_turns
    /\ run[i].pc = "call" => run[i].turns < run[i].budget.max_turns
    /\ run[i].turns <= run[i].budget.max_turns + 1
    /\ ~run[i].over => run[i].turns <= run[i].budget.max_turns

Money(i) ==
    run[i].budget.max_usd # NoLimit =>
        /\ run[i].pc = "call" => run[i].cost < run[i].budget.max_usd
        /\ run[i].pc # "done" \/ ~run[i].over => run[i].cost < run[i].budget.max_usd + Price
        /\ run[i].cost < run[i].budget.max_usd + Price + Price

\* The transcript and the inner loop over the calls of a turn go together.
Transcript(i) ==
    /\ run[i].open = run[i].left
    /\ run[i].pc # "tools" => run[i].left = 0
    /\ run[i].pc \in {"call", "final"} <=> call[i].pc # "none"
    /\ run[i].pc \in {"new", "head", "call"} => ~run[i].over
    /\ run[i].pc = "new" => run[i].turns = 0 /\ run[i].cost = 0
    /\ run[i].pc = "final" => run[i].over

Bytes(i) == run[i].bytes < MaxReadBytes + ToolBytes

Finished(i) ==
    run[i].stop = "answered" => run[i].pc = "done" /\ run[i].text /\ ~run[i].over

Fine(i) == Turns(i) /\ Money(i) /\ Transcript(i) /\ Bytes(i) /\ Finished(i)
Questions == \A i \in Question : Fine(i)

\* The calls that have passed the ceiling and are not on the meter yet.
Asked == {c \in Caller : call[c].pc = "asked"}

OneTask == \A t, u \in Task : Working(t) /\ Working(u) => t = u

\* The most that can be spent: each of the calls in flight may still cost its price.
Ahead ==
    ceiling # NoLimit =>
        \/ Asked = {} /\ meter = 0
        \/ meter + Price * Cardinality(Asked) < ceiling + Price * (Cardinality(Question) + 1)

AgentIInv == AgentTypeOK /\ Questions /\ OneTask /\ Ahead

--------------------------------------------------------------------------
(* Arithmetic and counting. *)

LEMMA BudgetNumbers ==
    /\ MaxTurns \in Nat /\ MaxTurns >= 1 /\ MaxReadBytes \in Nat /\ MaxReadBytes >= 1
    /\ Price \in Nat /\ ToolBytes \in Nat /\ ToolCalls \in Nat
BY AgentAssumption

LEMMA InBudget ==
    ASSUME NEW b \in Budgets
    PROVE  /\ b.max_turns \in Nat /\ 1 <= b.max_turns /\ b.max_turns <= MaxTurns
           /\ b.max_usd # NoLimit => b.max_usd \in Nat /\ b.max_usd >= 1
<1>1. b \in Budget
  BY AgentAssumption
<1> QED BY <1>1, BudgetNumbers DEF Budget

LEMMA Times ==
    ASSUME NEW p \in Nat, NEW a \in Nat, NEW b \in Nat
    PROVE  /\ p * a \in Nat
           /\ p * (a + 1) = p * a + p
           /\ a <= b => p * a <= p * b
<1>1. p * a \in Nat
  OBVIOUS
<1>2. p * (a + 1) = p * a + p
  OBVIOUS
<1>3. a <= b => p * a <= p * b
  OBVIOUS
<1> QED BY <1>1, <1>2, <1>3

\* Callers of whom at most one is a task are at most one more than the questions.
LEMMA FewCallers ==
    ASSUME NEW S \in SUBSET Caller, \A t, u \in S \cap Task : t = u
    PROVE  /\ IsFiniteSet(S)
           /\ Cardinality(S) \in Nat
           /\ Cardinality(Question) \in Nat
           /\ Cardinality(S) <= Cardinality(Question) + 1
<1>1. IsFiniteSet(Question) /\ Cardinality(Question) \in Nat
  BY AgentAssumption, FS_CardinalityType
<1>2. PICK t : S \subseteq Question \cup {t}
  <2>1. CASE S \cap Task = {}
    BY <2>1 DEF Caller
  <2>2. CASE S \cap Task # {}
    BY <2>2 DEF Caller
  <2> QED BY <2>1, <2>2
<1>3. /\ IsFiniteSet(Question \cup {t})
      /\ Cardinality(Question \cup {t}) <= Cardinality(Question) + 1
      /\ Cardinality(Question \cup {t}) \in Nat
  <2>1. /\ IsFiniteSet(Question \cup {t})
        /\ Cardinality(Question \cup {t}) = IF t \in Question THEN Cardinality(Question)
                                            ELSE Cardinality(Question) + 1
    BY <1>1, FS_AddElement
  <2> QED BY <1>1, <2>1
<1>4. IsFiniteSet(S) /\ Cardinality(S) <= Cardinality(Question \cup {t})
  BY <1>2, <1>3, FS_Subset
<1>5. Cardinality(S) \in Nat
  BY <1>4, FS_CardinalityType
<1> QED BY <1>1, <1>3, <1>4, <1>5

\* One call in flight for each question at most, and one for the loop.
LEMMA FewAreAsked ==
    ASSUME OneTask
    PROVE  /\ IsFiniteSet(Asked)
           /\ Cardinality(Asked) \in Nat
           /\ Cardinality(Question) \in Nat
           /\ Cardinality(Asked) <= Cardinality(Question) + 1
<1>1. Asked \in SUBSET Caller /\ \A t, u \in Asked \cap Task : t = u
  BY DEF Asked, OneTask, Working
<1> QED BY <1>1, FewCallers

\* The same of the state a step leads to.
LEMMA FewAreAskedNext ==
    ASSUME OneTask'
    PROVE  /\ IsFiniteSet(Asked')
           /\ Cardinality(Asked') \in Nat
           /\ Cardinality(Asked') <= Cardinality(Question) + 1
<1>1. Asked' \in SUBSET Caller /\ \A t, u \in Asked' \cap Task : t = u
  BY DEF Asked, OneTask, Working
<1> QED BY <1>1, FewCallers

--------------------------------------------------------------------------
(* The ceiling. *)

\* A step that asks nobody anything and leaves the meter alone.
LEMMA AheadStays ==
    ASSUME AgentTypeOK, OneTask, Ahead, OneTask', AgentTypeOK', Asked' \subseteq Asked,
           UNCHANGED <<ceiling, meter>>
    PROVE  Ahead'
<1>1. /\ IsFiniteSet(Asked) /\ Cardinality(Asked) \in Nat /\ Cardinality(Question) \in Nat
  BY FewAreAsked
<1>2. Cardinality(Asked') <= Cardinality(Asked) /\ Cardinality(Asked') \in Nat
  BY <1>1, FS_Subset, FS_CardinalityType
<1>3. Price \in Nat /\ meter \in Nat
  BY AgentAssumption DEF AgentTypeOK
<1>4. /\ Price * Cardinality(Asked') <= Price * Cardinality(Asked)
      /\ Price * Cardinality(Asked') \in Nat /\ Price * Cardinality(Asked) \in Nat
      /\ Price * (Cardinality(Question) + 1) \in Nat
  BY <1>1, <1>2, <1>3, Times
<1>5. ceiling # NoLimit => ceiling \in Nat
  BY AgentAssumption DEF AgentTypeOK
<1> QED BY <1>3, <1>4, <1>5 DEF Ahead

--------------------------------------------------------------------------
(* The steps. *)

USE DEF Caller

LEMMA AgentInitIInv == AgentInit => AgentIInv
<1> SUFFICES ASSUME AgentInit PROVE AgentIInv
  OBVIOUS
<1>1. NewQuestion.budget \in Budgets
  BY AgentAssumption DEF NewQuestion
<1>2. AgentTypeOK
  <2>1. NewQuestion \in QuestionType
    <3> DEFINE b == CHOOSE b \in Budgets : TRUE
    <3>1. NewQuestion = [pc |-> "new", budget |-> b, turns |-> 0, cost |-> 0, bytes |-> 0,
                         text |-> FALSE, left |-> 0, open |-> 0, over |-> FALSE, stop |-> "no"]
      BY DEF NewQuestion
    <3>2. b \in Budgets
      BY <1>1, <3>1
    <3> HIDE DEF b
    <3> QED BY <3>1, <3>2, BudgetNumbers DEF QuestionType, Stops
  <2>2. NoCall \in CallType
    BY AgentAssumption DEF NoCall, CallType
  <2> QED BY <2>1, <2>2 DEF AgentInit, AgentTypeOK
<1>3. Questions
  <2> SUFFICES ASSUME NEW i \in Question
               PROVE Fine(i)
    BY DEF Questions
  <2>1. /\ run[i].budget \in Budgets /\ run[i].pc = "new" /\ run[i].turns = 0 /\ run[i].cost = 0
        /\ run[i].bytes = 0 /\ run[i].left = 0 /\ run[i].open = 0 /\ run[i].over = FALSE
        /\ run[i].stop = "no" /\ call[i].pc = "none"
    BY <1>1 DEF AgentInit, NewQuestion, NoCall
  <2>2. /\ run[i].budget.max_turns \in Nat /\ 1 <= run[i].budget.max_turns
        /\ run[i].budget.max_usd # NoLimit => run[i].budget.max_usd \in Nat /\ run[i].budget.max_usd >= 1
    BY <2>1, InBudget
  <2>3. Turns(i) /\ Bytes(i)
    BY <2>1, <2>2, BudgetNumbers DEF Turns, Bytes
  <2>4. Money(i)
    BY <2>1, <2>2, BudgetNumbers DEF Money
  <2>5. Transcript(i) /\ Finished(i)
    BY <2>1 DEF Transcript, Finished
  <2> QED BY <2>3, <2>4, <2>5 DEF Fine
<1>4. OneTask
  BY DEF AgentInit, OneTask, Working, NoCall
<1>5. Ahead
  BY DEF AgentInit, Ahead, Asked, NoCall
<1> QED BY <1>2, <1>3, <1>4, <1>5 DEF AgentIInv

\* What is left to show of a step of one question's run.
LEMMA OneQuestionSteps ==
    ASSUME AgentIInv, AgentTypeOK', NEW i \in Question,
           UNCHANGED <<ceiling, meter>>,
           \A c \in Caller \ {i} : call'[c] = call[c],
           \A j \in Question \ {i} : run'[j] = run[j],
           call'[i].pc # "asked",
           Fine(i)'
    PROVE  AgentIInv'
<1>1. Questions'
  <2> SUFFICES ASSUME NEW j \in Question PROVE Fine(j)'
    BY DEF Questions
  <2>1. CASE j = i
    BY <2>1
  <2>2. CASE j # i
    <3>1. Fine(j) /\ run'[j] = run[j] /\ call'[j] = call[j]
      BY <2>2 DEF AgentIInv, Questions
    <3> QED BY <3>1 DEF Fine, Turns, Money, Transcript, Bytes, Finished
  <2> QED BY <2>1, <2>2
<1>2. OneTask'
  <2>1. \A t \in Task : call'[t] = call[t]
    BY AgentAssumption
  <2> QED BY <2>1 DEF AgentIInv, OneTask, Working
<1>3. Asked' \subseteq Asked
  BY DEF Asked
<1>4. Ahead'
  BY <1>2, <1>3, AheadStays DEF AgentIInv
<1> QED BY <1>1, <1>2, <1>4 DEF AgentIInv

\* What the type invariant says of one question.
LEMMA Typed ==
    ASSUME AgentTypeOK, NEW i \in Question
    PROVE  /\ run[i].budget \in Budgets
           /\ run[i].budget.max_turns \in Nat /\ 1 <= run[i].budget.max_turns
           /\ run[i].budget.max_turns <= MaxTurns
           /\ run[i].budget.max_usd # NoLimit =>
                 run[i].budget.max_usd \in Nat /\ run[i].budget.max_usd >= 1
           /\ run[i].turns \in Nat /\ run[i].cost \in Nat /\ run[i].bytes \in Nat
           /\ run[i].text \in BOOLEAN /\ run[i].over \in BOOLEAN
           /\ run[i].left \in 0 .. ToolCalls /\ run[i].open \in 0 .. ToolCalls
           /\ call[i].cost \in Nat /\ call[i].cost <= Price
<1>1. run[i] \in QuestionType /\ call[i] \in CallType
  BY DEF AgentTypeOK
<1>2. run[i].budget \in Budgets
  BY <1>1 DEF QuestionType
<1> QED BY <1>1, <1>2, InBudget, BudgetNumbers DEF QuestionType, CallType

LEMMA AskStep ==
    ASSUME AgentIInv, NEW i \in Question, Ask(i)
    PROVE  AgentIInv'
<1>1. PICK b \in Budgets : run' = [run EXCEPT ![i].pc = "head", ![i].budget = b]
  BY DEF Ask
<1>2. AgentTypeOK'
  <2>1. [run[i] EXCEPT !.pc = "head", !.budget = b] \in QuestionType
    BY DEF AgentIInv, AgentTypeOK, QuestionType
  <2> QED BY <1>1, <2>1 DEF AgentIInv, AgentTypeOK, Ask, Unmetered
<1>3. /\ run'[i].pc = "head" /\ run'[i].budget = b /\ run'[i].turns = run[i].turns
      /\ run'[i].cost = run[i].cost /\ run'[i].bytes = run[i].bytes /\ run'[i].text = run[i].text
      /\ run'[i].left = run[i].left /\ run'[i].open = run[i].open /\ run'[i].over = run[i].over
      /\ run'[i].stop = run[i].stop /\ call' = call
  BY <1>1 DEF AgentIInv, AgentTypeOK, QuestionType, Ask
<1>4. Fine(i) /\ run[i].pc = "new"
  BY DEF AgentIInv, Questions, Ask
<1>5. run[i].turns = 0 /\ run[i].cost = 0 /\ run[i].stop # "answered"
  BY <1>4 DEF Fine, Transcript, Finished
<1>6. Turns(i)' /\ Bytes(i)'
  BY <1>3, <1>4, <1>5, InBudget, BudgetNumbers, Typed DEF AgentIInv, Fine, Turns, Bytes
<1>7. Money(i)'
  BY <1>3, <1>4, <1>5, InBudget, BudgetNumbers DEF Money
<1>8. Transcript(i)' /\ Finished(i)'
  BY <1>3, <1>4, <1>5 DEF Fine, Transcript, Finished
<1>9. Fine(i)' /\ call'[i].pc # "asked"
  BY <1>3, <1>4, <1>6, <1>7, <1>8 DEF Fine, Transcript
<1> QED BY <1>1, <1>2, <1>3, <1>9, OneQuestionSteps DEF Ask, Unmetered, AgentIInv, AgentTypeOK

\* Every way a question is cut short.
LEMMA StopStep ==
    ASSUME AgentIInv, NEW i \in Question, NEW why \in Stops \ {"answered"},
           run[i].pc \in {"head", "call", "final"},
           Stop(i, why),
           \A c \in Caller \ {i} : call'[c] = call[c],
           call' \in [Caller -> CallType], call'[i].pc = "none", Unmetered
    PROVE  AgentIInv'
<1>1. AgentTypeOK'
  <2>1. [run[i] EXCEPT !.pc = "done", !.stop = why] \in QuestionType
    BY DEF AgentIInv, AgentTypeOK, QuestionType
  <2> QED BY <2>1 DEF AgentIInv, AgentTypeOK, Stop, Unmetered
<1>2. /\ run'[i].pc = "done" /\ run'[i].stop # "answered" /\ run'[i].budget = run[i].budget
      /\ run'[i].turns = run[i].turns /\ run'[i].cost = run[i].cost /\ run'[i].bytes = run[i].bytes
      /\ run'[i].left = run[i].left /\ run'[i].open = run[i].open /\ run'[i].over = run[i].over
  BY DEF AgentIInv, AgentTypeOK, QuestionType, Stop
<1>3. Fine(i)
  BY DEF AgentIInv, Questions
<1>4. Turns(i)' /\ Bytes(i)'
  BY <1>2, <1>3, Typed, BudgetNumbers DEF AgentIInv, Fine, Turns, Bytes
<1>5. Money(i)'
  BY <1>2, <1>3, Typed, BudgetNumbers DEF AgentIInv, Fine, Money
<1>6. Transcript(i)' /\ Finished(i)'
  BY <1>2, <1>3 DEF Fine, Transcript, Finished
<1>7. Fine(i)' /\ call'[i].pc # "asked"
  BY <1>2, <1>4, <1>5, <1>6 DEF Fine
<1> QED BY <1>1, <1>2, <1>7, OneQuestionSteps DEF Stop, Unmetered, AgentIInv, AgentTypeOK

LEMMA LoopHeadStep ==
    ASSUME AgentIInv, NEW i \in Question, LoopHead(i)
    PROVE  AgentIInv'
<1>1. Fine(i) /\ run[i].pc = "head" /\ Unmetered
  BY DEF AgentIInv, Questions, LoopHead
<1>2. CASE \E why \in {"turn-limit", "timeout", "spend-budget"} :
               Stop(i, why) /\ UNCHANGED call
  <2>1. PICK why \in Stops \ {"answered"} : Stop(i, why) /\ call' = call
    BY <1>2 DEF Stops
  <2>2. call[i].pc = "none"
    BY <1>1 DEF Fine, Transcript
  <2> QED BY <1>1, <2>1, <2>2, StopStep DEF AgentIInv, AgentTypeOK
<1>3. CASE /\ run[i].turns < run[i].budget.max_turns /\ ~Dear(i)
           /\ run' = [run EXCEPT ![i].pc = "call"]
           /\ call' = [call EXCEPT ![i].pc = "check"]
  <2>1. AgentTypeOK'
    <3>1. [run[i] EXCEPT !.pc = "call"] \in QuestionType
      BY DEF AgentIInv, AgentTypeOK, QuestionType
    <3>2. [call[i] EXCEPT !.pc = "check"] \in CallType
      BY DEF AgentIInv, AgentTypeOK, CallType
    <3> QED BY <1>1, <1>3, <3>1, <3>2 DEF AgentIInv, AgentTypeOK, Unmetered
  <2>2. /\ run'[i].pc = "call" /\ run'[i].stop = run[i].stop /\ run'[i].budget = run[i].budget
        /\ run'[i].turns = run[i].turns /\ run'[i].cost = run[i].cost /\ run'[i].bytes = run[i].bytes
        /\ run'[i].left = run[i].left /\ run'[i].open = run[i].open /\ run'[i].over = run[i].over
        /\ call'[i].pc = "check"
    BY <1>3 DEF AgentIInv, AgentTypeOK, QuestionType, CallType
  <2>3. Turns(i)' /\ Bytes(i)'
    BY <1>1, <1>3, <2>2, Typed, BudgetNumbers DEF AgentIInv, Fine, Turns, Bytes
  <2>4. Money(i)'
    BY <1>1, <1>3, <2>2, Typed, BudgetNumbers DEF AgentIInv, Fine, Money, Dear
  <2>5. Transcript(i)' /\ Finished(i)'
    BY <1>1, <2>2 DEF Fine, Transcript, Finished
  <2>6. Fine(i)' /\ call'[i].pc # "asked"
    BY <2>2, <2>3, <2>4, <2>5 DEF Fine
  <2> QED BY <1>1, <1>3, <2>1, <2>6, OneQuestionSteps DEF Unmetered, AgentIInv, AgentTypeOK
<1> QED BY <1>2, <1>3 DEF LoopHead

\* Calls end as they began, for the question whose call it was.
LEMMA CallEnds ==
    ASSUME AgentTypeOK, NEW i \in Question, call' = [call EXCEPT ![i] = NoCall]
    PROVE  /\ call' \in [Caller -> CallType]
           /\ call'[i].pc = "none"
           /\ \A c \in Caller \ {i} : call'[c] = call[c]
<1>1. NoCall \in CallType /\ NoCall.pc = "none"
  BY BudgetNumbers DEF NoCall, CallType
<1> QED BY <1>1 DEF AgentTypeOK

LEMMA NoTurnStep ==
    ASSUME AgentIInv, NEW i \in Question, NoTurn(i)
    PROVE  AgentIInv'
<1>1. PICK why \in {"byte-budget", "spend-budget", "provider-error", "no-provider"} : Stop(i, why)
  BY DEF NoTurn
<1>2. why \in Stops \ {"answered"}
  BY <1>1 DEF Stops
<1>3. run[i].pc \in {"call", "final"} /\ Unmetered /\ call' = [call EXCEPT ![i] = NoCall]
  BY DEF NoTurn
<1> QED BY <1>1, <1>2, <1>3, CallEnds, StopStep DEF AgentIInv

LEMMA TurnStep ==
    ASSUME AgentIInv, NEW i \in Question, Turn(i)
    PROVE  AgentIInv'
<1> DEFINE a(said) == Counted(i, said)
<1>1. PICK said \in BOOLEAN, n \in 0 .. ToolCalls :
        run' = [run EXCEPT ![i] =
                IF run[i].pc = "final"
                THEN [a(said) EXCEPT !.pc = "done", !.stop = "byte-budget"]
                ELSE IF n = 0
                THEN [a(said) EXCEPT !.pc = "done",
                        !.stop = IF a(said).text THEN "answered" ELSE "provider-error"]
                ELSE [a(said) EXCEPT !.pc = "tools", !.left = n, !.open = n]]
  BY DEF Turn
<1>2. Fine(i) /\ Unmetered /\ call[i].pc = "back" /\ call' = [call EXCEPT ![i] = NoCall]
  BY DEF AgentIInv, Questions, Turn
<1>3. run[i].pc \in {"call", "final"} /\ run[i].left = 0 /\ run[i].open = 0 /\ run[i].stop # "answered"
  BY <1>2 DEF Fine, Transcript, Finished
<1>4. /\ Counted(i, said) \in QuestionType
      /\ Counted(i, said).turns = run[i].turns + 1
      /\ Counted(i, said).cost = run[i].cost + call[i].cost
      /\ Counted(i, said).text = (run[i].text \/ said)
      /\ Counted(i, said).bytes = run[i].bytes /\ Counted(i, said).left = run[i].left
      /\ Counted(i, said).open = run[i].open /\ Counted(i, said).over = run[i].over
      /\ Counted(i, said).stop = run[i].stop /\ Counted(i, said).budget = run[i].budget
  <2>1. run[i] \in QuestionType /\ run[i].turns + 1 \in 0 .. MaxTurns + 1
        /\ run[i].cost + call[i].cost \in Nat
    BY <1>2, <1>3, Typed, BudgetNumbers DEF AgentIInv, AgentTypeOK, Fine, Turns
  <2>2. (run[i].text \/ said) \in BOOLEAN
    OBVIOUS
  <2> QED BY <2>1, <2>2 DEF Counted, QuestionType
<1> HIDE DEF a
<1>5. /\ run'[i] \in QuestionType
      /\ run'[i].turns = run[i].turns + 1 /\ run'[i].cost = run[i].cost + call[i].cost
      /\ run'[i].bytes = run[i].bytes /\ run'[i].over = run[i].over /\ run'[i].budget = run[i].budget
      /\ run'[i].open = run'[i].left
      /\ run'[i].pc \in {"tools", "done"} /\ (run'[i].pc # "tools" => run'[i].left = 0)
      /\ run[i].pc = "final" => run'[i].pc = "done"
      /\ run'[i].stop = "answered" => run[i].pc # "final" /\ run'[i].pc = "done" /\ run'[i].text
  <2>1. CASE run[i].pc = "final"
    <3>1. run'[i] = [Counted(i, said) EXCEPT !.pc = "done", !.stop = "byte-budget"]
      BY <1>1, <2>1 DEF AgentIInv, AgentTypeOK, a
    <3>2. run'[i] \in QuestionType
      BY <1>4, <3>1 DEF QuestionType, Stops
    <3> QED BY <1>3, <1>4, <2>1, <3>1, <3>2 DEF QuestionType
  <2>2. CASE run[i].pc # "final" /\ n = 0
    <3>1. run'[i] = [Counted(i, said) EXCEPT !.pc = "done",
                     !.stop = IF Counted(i, said).text THEN "answered" ELSE "provider-error"]
      BY <1>1, <2>2 DEF AgentIInv, AgentTypeOK, a
    <3>2. run'[i] \in QuestionType
      BY <1>4, <3>1 DEF QuestionType, Stops
    <3> QED BY <1>3, <1>4, <2>2, <3>1, <3>2 DEF QuestionType
  <2>3. CASE run[i].pc # "final" /\ n # 0
    <3>1. run'[i] = [Counted(i, said) EXCEPT !.pc = "tools", !.left = n, !.open = n]
      BY <1>1, <2>3 DEF AgentIInv, AgentTypeOK, a
    <3>2. run'[i] \in QuestionType
      BY <1>4, <3>1 DEF QuestionType, Stops
    <3> QED BY <1>3, <1>4, <2>3, <3>1, <3>2 DEF QuestionType
  <2> QED BY <2>1, <2>2, <2>3
<1>6. AgentTypeOK' /\ \A j \in Question \ {i} : run'[j] = run[j]
  BY <1>1, <1>2, <1>5, CallEnds DEF AgentIInv, AgentTypeOK, Unmetered
<1>7. call'[i].pc = "none" /\ \A c \in Caller \ {i} : call'[c] = call[c]
  BY <1>2, CallEnds DEF AgentIInv
<1>8. Turns(i)' /\ Bytes(i)'
  BY <1>2, <1>3, <1>5, Typed, BudgetNumbers DEF AgentIInv, Fine, Turns, Transcript, Bytes
<1>9. Money(i)'
  BY <1>2, <1>3, <1>5, Typed, BudgetNumbers DEF AgentIInv, Fine, Money, Transcript
<1>10. Transcript(i)' /\ Finished(i)'
  BY <1>2, <1>3, <1>5, <1>7 DEF Fine, Transcript, Finished
<1>11. Fine(i)' /\ call'[i].pc # "asked"
  BY <1>7, <1>8, <1>9, <1>10 DEF Fine
<1> QED BY <1>2, <1>5, <1>6, <1>7, <1>11, OneQuestionSteps DEF Unmetered, AgentIInv, AgentTypeOK

LEMMA ToolStep ==
    ASSUME AgentIInv, NEW i \in Question, Tool(i)
    PROVE  AgentIInv'
<1>1. Fine(i) /\ Unmetered /\ call' = call /\ run[i].pc = "tools" /\ run[i].left > 0
  BY DEF AgentIInv, Questions, Tool
<1>2. run[i].open = run[i].left /\ run[i].stop # "answered" /\ call[i].pc = "none"
  BY <1>1 DEF Fine, Transcript, Finished
<1>3. PICK bytes \in 0 .. ToolBytes, over \in BOOLEAN :
        /\ run' = [run EXCEPT ![i] = [run[i] EXCEPT !.bytes = run[i].bytes + bytes, !.over = over,
                                  !.left = run[i].left - 1, !.open = run[i].open - 1]]
        /\ run[i].over => over
        /\ run[i].bytes >= MaxReadBytes => bytes = 0
  <2>0. run[i] \in QuestionType /\ 0 \in 0 .. ToolBytes /\ run[i].bytes \in Nat
    BY BudgetNumbers, Typed DEF AgentIInv, AgentTypeOK
  <2>1. CASE run[i].bytes >= MaxReadBytes
    <3>1. run' = [run EXCEPT ![i].over = TRUE, ![i].left = @ - 1, ![i].open = @ - 1]
      BY <2>1 DEF Tool
    <3>2. run' = [run EXCEPT ![i] = [run[i] EXCEPT !.bytes = run[i].bytes + 0, !.over = TRUE,
                                  !.left = run[i].left - 1, !.open = run[i].open - 1]]
      BY <2>0, <3>1 DEF AgentIInv, AgentTypeOK, QuestionType
    <3> QED BY <2>0, <3>2
  <2>2. CASE ~(run[i].bytes >= MaxReadBytes)
    <3>1. PICK bytes \in 0 .. ToolBytes :
            run' = [run EXCEPT ![i].bytes = @ + bytes, ![i].left = @ - 1, ![i].open = @ - 1]
      BY <2>2 DEF Tool
    <3>2. run' = [run EXCEPT ![i] = [run[i] EXCEPT !.bytes = run[i].bytes + bytes, !.over = run[i].over,
                                  !.left = run[i].left - 1, !.open = run[i].open - 1]]
      BY <2>0, <3>1 DEF AgentIInv, AgentTypeOK, QuestionType
    <3>3. run[i].over \in BOOLEAN
      BY <2>0 DEF QuestionType
    <3> QED BY <2>2, <3>2, <3>3
  <2> QED BY <2>1, <2>2
<1>4. /\ run'[i].pc = "tools" /\ run'[i].budget = run[i].budget /\ run'[i].turns = run[i].turns
      /\ run'[i].cost = run[i].cost /\ run'[i].bytes = run[i].bytes + bytes /\ run'[i].over = over
      /\ run'[i].left = run[i].left - 1 /\ run'[i].open = run[i].open - 1 /\ run'[i].stop = run[i].stop
      /\ \A j \in Question \ {i} : run'[j] = run[j]
  <2>1. /\ run'[i] = [run[i] EXCEPT !.bytes = run[i].bytes + bytes, !.over = over,
                                    !.left = run[i].left - 1, !.open = run[i].open - 1]
        /\ \A j \in Question \ {i} : run'[j] = run[j]
    BY <1>3 DEF AgentIInv, AgentTypeOK
  <2>2. run[i] \in QuestionType
    BY DEF AgentIInv, AgentTypeOK
  <2> QED BY <1>1, <2>1, <2>2 DEF QuestionType
<1>5. AgentTypeOK'
  <2>1. /\ run[i].bytes + bytes \in Nat /\ run[i].left - 1 \in 0 .. ToolCalls
        /\ run[i].open - 1 \in 0 .. ToolCalls
    BY <1>1, <1>2, Typed, BudgetNumbers DEF AgentIInv
  <2>2. [run[i] EXCEPT !.bytes = run[i].bytes + bytes, !.over = over,
                       !.left = run[i].left - 1, !.open = run[i].open - 1] \in QuestionType
    BY <2>1 DEF AgentIInv, AgentTypeOK, QuestionType
  <2> QED BY <1>1, <1>3, <2>2 DEF AgentIInv, AgentTypeOK, Unmetered
<1>6. Turns(i)'
  BY <1>1, <1>3, <1>4, Typed DEF AgentIInv, Fine, Turns
<1>7. Bytes(i)'
  BY <1>1, <1>3, <1>4, Typed, BudgetNumbers DEF AgentIInv, Fine, Bytes
<1>8. Money(i)'
  BY <1>1, <1>3, <1>4, Typed, BudgetNumbers DEF AgentIInv, Fine, Money
<1>9. Transcript(i)' /\ Finished(i)'
  BY <1>1, <1>2, <1>4 DEF Fine, Transcript, Finished
<1>10. Fine(i)' /\ call'[i].pc # "asked"
  BY <1>1, <1>2, <1>6, <1>7, <1>8, <1>9 DEF Fine
<1> QED BY <1>1, <1>4, <1>5, <1>10, OneQuestionSteps DEF Unmetered

LEMMA ToolsDoneStep ==
    ASSUME AgentIInv, NEW i \in Question, ToolsDone(i)
    PROVE  AgentIInv'
<1>1. Fine(i) /\ Unmetered /\ run[i].pc = "tools" /\ run[i].left = 0
  BY DEF AgentIInv, Questions, ToolsDone
<1>2. run[i].open = 0 /\ run[i].stop # "answered" /\ call[i].pc = "none"
  BY <1>1 DEF Fine, Transcript, Finished
<1>3. /\ run' = [run EXCEPT ![i].pc = IF run[i].over THEN "final" ELSE "head"]
      /\ call' = [call EXCEPT ![i].pc = IF run[i].over THEN "check" ELSE @]
  BY DEF ToolsDone
<1>4. /\ run'[i].pc = (IF run[i].over THEN "final" ELSE "head")
      /\ run'[i].budget = run[i].budget /\ run'[i].turns = run[i].turns /\ run'[i].cost = run[i].cost
      /\ run'[i].bytes = run[i].bytes /\ run'[i].over = run[i].over /\ run'[i].left = run[i].left
      /\ run'[i].open = run[i].open /\ run'[i].stop = run[i].stop
      /\ call'[i].pc = (IF run[i].over THEN "check" ELSE "none")
      /\ \A j \in Question \ {i} : run'[j] = run[j]
      /\ \A c \in Caller \ {i} : call'[c] = call[c]
  BY <1>2, <1>3 DEF AgentIInv, AgentTypeOK, QuestionType, CallType
<1>5. AgentTypeOK'
  <2>1. [run[i] EXCEPT !.pc = IF run[i].over THEN "final" ELSE "head"] \in QuestionType
    BY DEF AgentIInv, AgentTypeOK, QuestionType
  <2>2. [call[i] EXCEPT !.pc = IF run[i].over THEN "check" ELSE call[i].pc] \in CallType
    BY DEF AgentIInv, AgentTypeOK, CallType
  <2> QED BY <1>1, <1>3, <2>1, <2>2 DEF AgentIInv, AgentTypeOK, Unmetered
<1>6. Turns(i)' /\ Bytes(i)'
  BY <1>1, <1>4, Typed, BudgetNumbers DEF AgentIInv, Fine, Turns, Bytes
<1>7. Money(i)'
  BY <1>1, <1>4, Typed, BudgetNumbers DEF AgentIInv, Fine, Money
<1>8. Transcript(i)' /\ Finished(i)'
  BY <1>1, <1>2, <1>4 DEF Fine, Transcript, Finished
<1>9. Fine(i)' /\ call'[i].pc # "asked"
  BY <1>4, <1>6, <1>7, <1>8 DEF Fine
<1> QED BY <1>1, <1>4, <1>5, <1>9, OneQuestionSteps DEF Unmetered

\* A step of spend leaves every question where it is.
LEMMA QuestionsStay ==
    ASSUME AgentIInv, NEW c \in Caller, run' = run, call[c].pc # "none", call'[c].pc # "none",
           \A d \in Caller \ {c} : call'[d] = call[d]
    PROVE  Questions'
<1> SUFFICES ASSUME NEW i \in Question PROVE Fine(i)'
  BY DEF Questions
<1>1. Fine(i) /\ run'[i] = run[i] /\ (call'[i].pc # "none" <=> call[i].pc # "none")
  BY DEF AgentIInv, Questions
<1> QED BY <1>1 DEF Fine, Turns, Money, Transcript, Bytes, Finished

\* A task that works goes on working or stops, and no other begins.
LEMMA OneTaskStays ==
    ASSUME AgentIInv, NEW c \in Caller, Working(c),
           \A d \in Caller \ {c} : call'[d] = call[d]
    PROVE  OneTask'
BY DEF AgentIInv, OneTask, Working

LEMMA CheckStep ==
    ASSUME AgentIInv, NEW c \in Caller, Check(c)
    PROVE  AgentIInv'
<1>1. /\ call[c].pc = "check" /\ UNCHANGED <<ceiling, meter, run, wiped>>
      /\ call' = [call EXCEPT ![c].pc = IF ceiling # NoLimit /\ meter >= ceiling
                                        THEN "refused" ELSE "asked"]
  BY DEF Check
<1>2. AgentTypeOK'
  <2>1. [call[c] EXCEPT !.pc = IF ceiling # NoLimit /\ meter >= ceiling
                               THEN "refused" ELSE "asked"] \in CallType
    BY DEF AgentIInv, AgentTypeOK, CallType
  <2> QED BY <1>1, <2>1 DEF AgentIInv, AgentTypeOK
<1>3. /\ call'[c].pc \in {"refused", "asked"}
      /\ call'[c].pc = "asked" => ceiling = NoLimit \/ ~(meter >= ceiling)
      /\ \A d \in Caller \ {c} : call'[d] = call[d]
  BY <1>1 DEF AgentIInv, AgentTypeOK, CallType
<1>4. Questions' /\ OneTask'
  BY <1>1, <1>3, QuestionsStay, OneTaskStays DEF Working
<1>5. Ahead'
  <2>1. CASE call'[c].pc = "refused"
    <3>1. Asked' \subseteq Asked
      BY <1>3, <2>1 DEF Asked
    <3> QED BY <1>1, <1>2, <1>4, <3>1, AheadStays DEF AgentIInv
  <2>2. CASE call'[c].pc = "asked"
    <3>1. /\ Cardinality(Asked') \in Nat /\ Cardinality(Question) \in Nat
          /\ Cardinality(Asked') <= Cardinality(Question) + 1
      BY <1>4, FewAreAsked, FewAreAskedNext DEF AgentIInv
    <3>2. Price * Cardinality(Asked') <= Price * (Cardinality(Question) + 1)
      BY <3>1, BudgetNumbers, Times
    <3>3. Price * Cardinality(Asked') \in Nat /\ Price * (Cardinality(Question) + 1) \in Nat
      BY <3>1, BudgetNumbers, Times
    <3>4. ceiling # NoLimit => ceiling \in Nat /\ meter \in Nat /\ meter < ceiling
      BY <1>3, <2>2, AgentAssumption DEF AgentIInv, AgentTypeOK
    <3> QED BY <1>1, <3>2, <3>3, <3>4 DEF Ahead
  <2> QED BY <1>3, <2>1, <2>2
<1> QED BY <1>2, <1>4, <1>5 DEF AgentIInv

LEMMA BillStep ==
    ASSUME AgentIInv, NEW c \in Caller, Bill(c)
    PROVE  AgentIInv'
<1>1. PICK cost \in 0 .. Price :
        /\ meter' = meter + cost
        /\ call' = [call EXCEPT ![c] = [pc |-> "back", cost |-> cost]]
  BY DEF Bill
<1>2. call[c].pc = "asked" /\ UNCHANGED <<ceiling, run, wiped>>
  BY DEF Bill
<1>3. AgentTypeOK'
  <2>1. [pc |-> "back", cost |-> cost] \in CallType /\ meter + cost \in Nat
    BY BudgetNumbers DEF AgentIInv, AgentTypeOK, CallType
  <2> QED BY <1>1, <1>2, <2>1 DEF AgentIInv, AgentTypeOK
<1>4. call'[c].pc = "back" /\ \A d \in Caller \ {c} : call'[d] = call[d]
  BY <1>1 DEF AgentIInv, AgentTypeOK
<1>5. Questions' /\ OneTask'
  BY <1>2, <1>4, QuestionsStay, OneTaskStays DEF Working
<1>6. Ahead'
  <2>1. /\ IsFiniteSet(Asked) /\ Cardinality(Asked) \in Nat
        /\ Cardinality(Question) \in Nat
    BY FewAreAsked DEF AgentIInv
  <2>2. Asked' = Asked \ {c} /\ c \in Asked
    BY <1>2, <1>4 DEF Asked
  <2>3. /\ Cardinality(Asked') \in Nat
        /\ Cardinality(Asked) = Cardinality(Asked') + 1
    <3>1. IsFiniteSet(Asked \ {c}) /\ Cardinality(Asked \ {c}) = Cardinality(Asked) - 1
      BY <2>1, <2>2, FS_RemoveElement
    <3>2. Cardinality(Asked \ {c}) \in Nat
      BY <3>1, FS_CardinalityType
    <3> QED BY <2>1, <2>2, <3>1, <3>2
  <2>4. /\ Price * Cardinality(Asked') \in Nat
        /\ Price * (Cardinality(Question) + 1) \in Nat
        /\ Price * Cardinality(Asked) = Price * Cardinality(Asked') + Price
    BY <2>1, <2>3, BudgetNumbers, Times
  <2>5. ceiling # NoLimit => ceiling \in Nat
    BY AgentAssumption DEF AgentIInv, AgentTypeOK
  <2>6. meter \in Nat /\ Price \in Nat /\ cost \in Nat /\ cost <= Price
    BY BudgetNumbers DEF AgentIInv, AgentTypeOK
  <2> QED BY <1>1, <1>2, <2>2, <2>4, <2>5, <2>6 DEF Ahead, AgentIInv
<1> QED BY <1>3, <1>5, <1>6 DEF AgentIInv

LEMMA ProviderFailsStep ==
    ASSUME AgentIInv, NEW c \in Caller, ProviderFails(c)
    PROVE  AgentIInv'
<1>1. /\ call[c].pc = "asked" /\ UNCHANGED <<ceiling, meter, run, wiped>>
      /\ call' = [call EXCEPT ![c].pc = "failed"]
  BY DEF ProviderFails
<1>2. AgentTypeOK'
  <2>1. [call[c] EXCEPT !.pc = "failed"] \in CallType
    BY DEF AgentIInv, AgentTypeOK, CallType
  <2> QED BY <1>1, <2>1 DEF AgentIInv, AgentTypeOK
<1>3. call'[c].pc = "failed" /\ \A d \in Caller \ {c} : call'[d] = call[d]
  BY <1>1 DEF AgentIInv, AgentTypeOK, CallType
<1>4. Questions' /\ OneTask'
  BY <1>1, <1>3, QuestionsStay, OneTaskStays DEF Working
<1>5. Asked' \subseteq Asked
  BY <1>3 DEF Asked
<1> QED BY <1>1, <1>2, <1>4, <1>5, AheadStays DEF AgentIInv

LEMMA BeginTaskStep ==
    ASSUME AgentIInv, NEW t \in Task, BeginTask(t)
    PROVE  AgentIInv'
<1>1. /\ LoopFree /\ UNCHANGED <<ceiling, meter, run, wiped>>
      /\ call' = [call EXCEPT ![t].pc = "check"]
  BY DEF BeginTask, Unmetered
<1>2. AgentTypeOK'
  <2>1. [call[t] EXCEPT !.pc = "check"] \in CallType
    BY DEF AgentIInv, AgentTypeOK, CallType
  <2> QED BY <1>1, <2>1 DEF AgentIInv, AgentTypeOK
<1>3. call'[t].pc = "check" /\ \A d \in Caller \ {t} : call'[d] = call[d]
  BY <1>1 DEF AgentIInv, AgentTypeOK, CallType
<1>4. Questions'
  <2> SUFFICES ASSUME NEW i \in Question PROVE Fine(i)'
    BY DEF Questions
  <2>1. Fine(i) /\ run'[i] = run[i] /\ call'[i] = call[i]
    BY <1>1, <1>3, AgentAssumption DEF AgentIInv, Questions
  <2> QED BY <2>1 DEF Fine, Turns, Money, Transcript, Bytes, Finished
<1>5. OneTask'
  BY <1>1, <1>3 DEF OneTask, LoopFree, Working
<1>6. Asked' \subseteq Asked
  BY <1>3 DEF Asked
<1> QED BY <1>1, <1>2, <1>4, <1>5, <1>6, AheadStays DEF AgentIInv

LEMMA ResetMeterStep ==
    ASSUME AgentIInv, ResetMeter
    PROVE  AgentIInv'
<1>1. meter' = 0 /\ wiped' = wiped + meter /\ UNCHANGED <<ceiling, call, run>>
  BY DEF ResetMeter
<1>2. AgentTypeOK'
  BY <1>1 DEF AgentIInv, AgentTypeOK
<1>3. Questions' /\ OneTask' /\ Asked' = Asked
  BY <1>1 DEF AgentIInv, Questions, OneTask, Asked, Working, Fine, Turns, Money, Transcript,
              Bytes, Finished
<1>4. Ahead'
  <2>1. /\ Price * Cardinality(Asked) \in Nat
        /\ Price * (Cardinality(Question) + 1) \in Nat
    BY FewAreAsked, BudgetNumbers, Times DEF AgentIInv
  <2>2. meter \in Nat /\ (ceiling # NoLimit => ceiling \in Nat)
    BY AgentAssumption DEF AgentIInv, AgentTypeOK
  <2> QED BY <1>1, <1>3, <2>1, <2>2 DEF Ahead, AgentIInv
<1> QED BY <1>2, <1>3, <1>4 DEF AgentIInv

LEMMA AgentNextIInv == AgentIInv /\ [AgentNext]_agentVars => AgentIInv'
<1> SUFFICES ASSUME AgentIInv, [AgentNext]_agentVars PROVE AgentIInv'
  OBVIOUS
<1>1. ASSUME NEW c \in Caller, Spend(c) PROVE AgentIInv'
  BY <1>1, CheckStep, BillStep, ProviderFailsStep DEF Spend
<1>2. ASSUME NEW i \in Question, Ask(i) \/ Run(i) PROVE AgentIInv'
  BY <1>2, AskStep, LoopHeadStep, NoTurnStep, TurnStep, ToolStep, ToolsDoneStep DEF Run
<1>3. ASSUME NEW t \in Task, BeginTask(t) PROVE AgentIInv'
  BY <1>3, BeginTaskStep
<1>4. CASE ResetMeter
  BY <1>4, ResetMeterStep
<1>5. CASE UNCHANGED agentVars
  BY <1>5 DEF agentVars, AgentIInv, AgentTypeOK, Questions, OneTask, Ahead, Asked, Working, Fine, Turns,
              Money, Transcript, Bytes, Finished
<1> QED BY <1>1, <1>2, <1>3, <1>4, <1>5 DEF AgentNext

--------------------------------------------------------------------------
(* Bills. *)

Billed == [c \in Caller |-> call[c].cost]
Spent == [i \in Question |-> run[i].cost]

\* A bill stays with the call until its turn is counted, and is on the meter all the while.
BillsIInv ==
    /\ \A c \in Caller : call[c].pc # "back" => call[c].cost = 0
    /\ BillsAddUp

\* What is summed up are naturals of finitely many.
LEMMA BillTypes ==
    ASSUME AgentIInv
    PROVE  /\ IsFiniteSet(Caller) /\ Billed \in [Caller -> Nat] /\ Spent \in [Question -> Nat]
           /\ SumFunction(Billed) \in Nat /\ SumFunction(Spent) \in Nat
           /\ meter \in Nat /\ wiped \in Nat
<1>1. IsFiniteSet(Caller) /\ IsFiniteSet(Question)
  BY AgentAssumption, FS_Union DEF Caller
<1>2. ASSUME NEW c \in Caller PROVE call[c].cost \in Nat
  <2>1. call[c].cost \in 0 .. Price
    BY DEF AgentIInv, AgentTypeOK, CallType
  <2> QED BY <2>1, BudgetNumbers
<1>3. ASSUME NEW i \in Question PROVE run[i].cost \in Nat
  BY DEF AgentIInv, AgentTypeOK, QuestionType
<1>4. Billed \in [Caller -> Nat] /\ Spent \in [Question -> Nat]
  BY <1>2, <1>3 DEF Billed, Spent
<1>5. meter \in Nat /\ wiped \in Nat
  BY DEF AgentIInv, AgentTypeOK
<1> QED BY <1>1, <1>4, <1>5, SumFacts

\* Nothing is billed at first.
LEMMA InitBills == AgentInit => BillsIInv
<1> SUFFICES ASSUME AgentInit PROVE BillsIInv
  OBVIOUS
<1>1. AgentIInv
  BY AgentInitIInv
<1>2. \A c \in Caller : call[c].cost = 0
  BY DEF AgentInit, NoCall
<1>3. \A i \in Question : run[i].cost = 0
  BY DEF AgentInit, NewQuestion
<1>4. SumFunction(Billed) = 0
  <2>1. \A c \in Caller : Billed[c] = 0
    BY <1>2 DEF Billed
  <2> QED BY <1>1, <2>1, BillTypes, SumFacts
<1>5. SumFunction(Spent) = 0
  <2>1. \A i \in Question : Spent[i] = 0
    BY <1>3 DEF Spent
  <2>2. IsFiniteSet(Question)
    BY AgentAssumption
  <2> QED BY <1>1, <2>1, <2>2, BillTypes, SumFacts
<1>6. meter = 0 /\ wiped = 0
  BY DEF AgentInit
<1> QED BY <1>2, <1>4, <1>5, <1>6 DEF BillsIInv, BillsAddUp, Billed, Spent

\* A step without a bill leaves both sides alone.
LEMMA NoBill ==
    ASSUME AgentIInv, BillsIInv,
           \A c \in Caller : call'[c].cost = call[c].cost /\ (call'[c].pc = "back" <=> call[c].pc = "back"),
           \A i \in Question : run'[i].cost = run[i].cost,
           meter' + wiped' = meter + wiped
    PROVE  BillsIInv'
<1>1. Billed' = Billed /\ Spent' = Spent
  BY DEF Billed, Spent
<1>2. BillsAddUp'
  BY <1>1 DEF BillsIInv, BillsAddUp, Billed, Spent
<1> QED BY <1>2 DEF BillsIInv

\* A step that calls nobody and counts no turn.
LEMMA RunBills ==
    ASSUME AgentIInv, BillsIInv, NEW i \in Question,
           LoopHead(i) \/ NoTurn(i) \/ Tool(i) \/ ToolsDone(i) \/ Ask(i)
    PROVE  BillsIInv'
<1>1. UNCHANGED <<meter, wiped>>
  BY DEF LoopHead, NoTurn, Tool, ToolsDone, Ask, Unmetered
<1>2. ASSUME NEW j \in Question PROVE run'[j].cost = run[j].cost
  <2>1. run[j] \in QuestionType /\ run[i] \in QuestionType
    BY DEF AgentIInv, AgentTypeOK
  <2>2. run \in [Question -> QuestionType]
    BY DEF AgentIInv, AgentTypeOK
  <2>3. ASSUME NEW pc, NEW stop, run' = [run EXCEPT ![i].pc = pc, ![i].stop = stop]
        PROVE  run'[j].cost = run[j].cost
    BY <2>1, <2>2, <2>3 DEF QuestionType
  <2>4. ASSUME NEW pc, run' = [run EXCEPT ![i].pc = pc] PROVE run'[j].cost = run[j].cost
    BY <2>1, <2>2, <2>4 DEF QuestionType
  <2>5. CASE LoopHead(i)
    BY <2>3, <2>4, <2>5 DEF LoopHead, Stop
  <2>6. CASE NoTurn(i)
    BY <2>3, <2>6 DEF NoTurn, Stop
  <2>7. CASE Tool(i)
    <3>1. CASE run' = [run EXCEPT ![i].over = TRUE, ![i].left = @ - 1, ![i].open = @ - 1]
      BY <2>1, <2>2, <3>1 DEF QuestionType
    <3>2. ASSUME NEW bytes \in 0 .. ToolBytes,
                 run' = [run EXCEPT ![i].bytes = @ + bytes, ![i].left = @ - 1, ![i].open = @ - 1]
          PROVE  run'[j].cost = run[j].cost
      BY <2>1, <2>2, <3>2 DEF QuestionType
    <3> QED BY <2>7, <3>1, <3>2 DEF Tool
  <2>8. CASE ToolsDone(i)
    BY <2>4, <2>8 DEF ToolsDone
  <2>9. CASE Ask(i)
    <3>1. PICK b \in Budgets : run' = [run EXCEPT ![i].pc = "head", ![i].budget = b]
      BY <2>9 DEF Ask
    <3> QED BY <2>1, <2>2, <3>1 DEF QuestionType
  <2> QED BY <2>5, <2>6, <2>7, <2>8, <2>9
<1>3. ASSUME NEW c \in Caller
      PROVE  call'[c].cost = call[c].cost /\ (call'[c].pc = "back" <=> call[c].pc = "back")
  <2>1. Fine(i) /\ i \in Caller
    BY DEF AgentIInv, Questions, Caller
  <2>2. CASE UNCHANGED call
    BY <2>2
  <2>3. CASE call' = [call EXCEPT ![i] = NoCall] /\ call[i].pc \in {"refused", "failed"}
    <3>1. call[i].cost = 0
      BY <2>1, <2>3 DEF BillsIInv
    <3>2. NoCall.cost = 0 /\ NoCall.pc = "none"
      BY DEF NoCall
    <3> QED BY <2>3, <3>1, <3>2 DEF AgentIInv, AgentTypeOK
  <2>4. CASE call' = [call EXCEPT ![i].pc = "check"] /\ call[i].pc = "none"
    BY <2>1, <2>4 DEF AgentIInv, AgentTypeOK, CallType
  <2>5. \/ UNCHANGED call
        \/ call' = [call EXCEPT ![i] = NoCall] /\ call[i].pc \in {"refused", "failed"}
        \/ call' = [call EXCEPT ![i].pc = "check"] /\ call[i].pc = "none"
    <3>1. run[i].pc \in {"head", "tools"} => call[i].pc = "none"
      BY <2>1 DEF Fine, Transcript
    <3>2. CASE ToolsDone(i)
      <4>1. CASE run[i].over
        <5>1. call' = [call EXCEPT ![i].pc = "check"]
          BY <3>2, <4>1 DEF ToolsDone
        <5> QED BY <3>1, <3>2, <5>1 DEF ToolsDone
      <4>2. CASE ~run[i].over
        <5>1. call' = [call EXCEPT ![i].pc = call[i].pc]
          BY <3>2, <4>2 DEF ToolsDone
        <5>2. call[i] \in CallType
          BY <2>1 DEF AgentIInv, AgentTypeOK
        <5>3. UNCHANGED call
          BY <5>1, <5>2 DEF AgentIInv, AgentTypeOK, CallType
        <5> QED BY <5>3
      <4> QED BY <4>1, <4>2
    <3> QED BY <3>1, <3>2 DEF LoopHead, NoTurn, Tool, Ask
  <2> QED BY <2>2, <2>3, <2>4, <2>5
<1> QED BY <1>1, <1>2, <1>3, NoBill

\* A turn takes its bill from the call to the question.
LEMMA TurnBills ==
    ASSUME AgentIInv, BillsIInv, NEW i \in Question, Turn(i)
    PROVE  BillsIInv'
<1>1. UNCHANGED <<meter, wiped>> /\ call' = [call EXCEPT ![i] = NoCall] /\ i \in Caller
  BY DEF Turn, Unmetered, Caller
<1>2. /\ run'[i].cost = run[i].cost + call[i].cost
      /\ \A j \in Question : j # i => run'[j] = run[j]
  <2>1. run[i] \in QuestionType
    BY DEF AgentIInv, AgentTypeOK
  <2>2. PICK said \in BOOLEAN, n \in 0 .. ToolCalls :
          run' = [run EXCEPT ![i] =
                IF run[i].pc = "final"
                THEN [Counted(i, said) EXCEPT !.pc = "done", !.stop = "byte-budget"]
                ELSE IF n = 0
                THEN [Counted(i, said) EXCEPT !.pc = "done",
                               !.stop = IF Counted(i, said).text THEN "answered" ELSE "provider-error"]
                ELSE [Counted(i, said) EXCEPT !.pc = "tools", !.left = n, !.open = n]]
    BY DEF Turn
  <2> DEFINE a == Counted(i, said)
  <2>3. /\ a \in [pc : {"new", "head", "call", "tools", "final", "done"},
                  budget : Budgets, turns : Nat, cost : Nat, bytes : Nat,
                  text : BOOLEAN, left : 0 .. ToolCalls, open : 0 .. ToolCalls,
                  over : BOOLEAN, stop : Stops]
        /\ a.cost = run[i].cost + call[i].cost
    <3>1. call[i].cost \in Nat /\ run[i].turns + 1 \in Nat
      <4>1. call[i].cost \in 0 .. Price
        BY <1>1 DEF AgentIInv, AgentTypeOK, CallType
      <4> QED BY <2>1, <4>1, BudgetNumbers DEF QuestionType
    <3> DEFINE turns == run[i].turns + 1
               cost == run[i].cost + call[i].cost
               text == run[i].text \/ said
    <3>2. turns \in Nat /\ cost \in Nat /\ text \in BOOLEAN
      BY <2>1, <3>1 DEF QuestionType
    <3> HIDE DEF turns, cost, text
    <3>3. a = [run[i] EXCEPT !.turns = turns, !.cost = cost, !.text = text]
      BY DEF Counted, turns, cost, text
    <3>4. a.cost = cost
      BY <2>1, <3>3 DEF QuestionType
    <3> QED BY <2>1, <3>2, <3>3, <3>4 DEF QuestionType, cost
  <2> HIDE DEF a
  <2>4. run'[i].cost = a.cost
    BY <2>2, <2>3 DEF AgentIInv, AgentTypeOK, a
  <2> QED BY <2>2, <2>3, <2>4 DEF AgentIInv, AgentTypeOK
<1> DEFINE bill == call[i].cost
           total == run[i].cost + bill
<1>3. bill \in Nat /\ run[i].cost \in Nat /\ total \in Nat
  <2>1. Billed[i] \in Nat /\ Spent[i] \in Nat
    BY <1>1, BillTypes
  <2> QED BY <1>1, <2>1 DEF Billed, Spent
<1>4. NoCall.cost = 0 /\ NoCall.pc = "none"
  BY DEF NoCall
<1>5. /\ call'[i] = NoCall
      /\ \A c \in Caller : c # i => call'[c] = call[c]
  BY <1>1 DEF AgentIInv, AgentTypeOK
<1> DEFINE v == Billed
           w == Billed'
           y == Spent
           z == Spent'
<1>6. /\ v \in [Caller -> Nat] /\ w \in [Caller -> Nat] /\ v[i] = bill /\ w[i] = 0
      /\ \A c \in Caller : c # i => w[c] = v[c]
  <2>1. v \in [Caller -> Nat] /\ v[i] = bill
    BY <1>1, BillTypes DEF Billed
  <2>2. call'[i].cost = 0 /\ \A c \in Caller : c # i => call'[c].cost = call[c].cost
    BY <1>4, <1>5
  <2>3. w[i] = 0 /\ \A c \in Caller : c # i => w[c] = v[c]
    BY <1>1, <2>2 DEF Billed
  <2>4. w = [c \in Caller |-> w[c]]
    BY DEF Billed
  <2> HIDE DEF v, w
  <2> QED BY <2>1, <2>3, <2>4
<1>7. /\ y \in [Question -> Nat] /\ z \in [Question -> Nat] /\ y[i] = run[i].cost /\ z[i] = total
      /\ \A j \in Question : j # i => z[j] = y[j]
  <2>1. y \in [Question -> Nat] /\ y[i] = run[i].cost
    BY BillTypes DEF Spent
  <2>2. z[i] = total /\ \A j \in Question : j # i => z[j] = y[j]
    BY <1>2 DEF Spent
  <2>3. z = [j \in Question |-> z[j]]
    BY DEF Spent
  <2> HIDE DEF y, z, total
  <2> QED BY <1>3, <2>1, <2>2, <2>3
<1>8. IsFiniteSet(Question) /\ IsFiniteSet(Caller)
  BY AgentAssumption, BillTypes
<1> HIDE DEF v, w, y, z, bill, total
<1>9. SumFunction(w) + v[i] = SumFunction(v) + w[i]
  BY ONLY <1>1, <1>6, <1>8, SumChange
<1>10. SumFunction(z) + y[i] = SumFunction(y) + z[i]
  BY ONLY i \in Question, <1>7, <1>8, SumChange
<1> USE DEF v, w, y, z, bill, total
<1> DEFINE billed == SumFunction(Billed)
           after == SumFunction(Billed')
           spent == SumFunction(Spent)
           later == SumFunction(Spent')
<1>11. after + bill = billed /\ later + run[i].cost = spent + total /\ billed \in Nat /\ spent \in Nat
  BY <1>6, <1>7, <1>9, <1>10, BillTypes
<1>12. after \in Nat /\ later \in Nat
  <2>1. Billed' \in [Caller -> Nat] /\ Spent' \in [Question -> Nat]
    BY <1>6, <1>7
  <2> QED BY <1>8, <2>1, SumFacts
<1>13. meter' + wiped' = billed + spent
  BY <1>1 DEF BillsIInv, BillsAddUp, Billed, Spent
<1>14. BillsAddUp'
  <2> HIDE DEF bill, billed, after, spent, later
  <2>1. after + later = billed + spent
    BY <1>3, <1>11, <1>12
  <2>2. meter' + wiped' = after + later
    BY <1>13, <2>1
  <2> QED BY <2>2 DEF BillsAddUp, Billed, Spent, after, later
<1>15. \A c \in Caller : call'[c].pc # "back" => call'[c].cost = 0
  BY <1>4, <1>5 DEF BillsIInv
<1> QED BY <1>14, <1>15 DEF BillsIInv

\* A bill is put on the meter and kept with its call.
LEMMA BillBills ==
    ASSUME AgentIInv, BillsIInv, NEW c \in Caller, Bill(c)
    PROVE  BillsIInv'
<1>1. PICK cost \in 0 .. Price :
        /\ meter' = meter + cost
        /\ call' = [call EXCEPT ![c] = [pc |-> "back", cost |-> cost]]
  BY DEF Bill
<1>2. call[c].pc = "asked" /\ run' = run /\ wiped' = wiped
  BY DEF Bill
<1>3. cost \in Nat /\ call[c].cost = 0
  BY <1>2, BudgetNumbers DEF BillsIInv
<1>4. /\ call'[c].cost = cost /\ call'[c].pc = "back"
      /\ \A d \in Caller : d # c => call'[d] = call[d]
  BY <1>1 DEF AgentIInv, AgentTypeOK
<1> DEFINE v == Billed
           w == Billed'
<1>5. /\ v \in [Caller -> Nat] /\ w \in [Caller -> Nat] /\ v[c] = 0 /\ w[c] = cost
      /\ \A d \in Caller : d # c => w[d] = v[d]
  <2>1. v \in [Caller -> Nat] /\ v[c] = 0
    BY <1>3, BillTypes DEF Billed
  <2>2. w[c] = cost /\ \A d \in Caller : d # c => w[d] = v[d]
    BY <1>4 DEF Billed
  <2>3. w = [d \in Caller |-> w[d]]
    BY DEF Billed
  <2> HIDE DEF v, w
  <2> QED BY <1>3, <2>1, <2>2, <2>3
<1>6. SumFunction(w) + v[c] = SumFunction(v) + w[c]
  <2>1. IsFiniteSet(Caller)
    BY BillTypes
  <2> HIDE DEF v, w
  <2> QED BY ONLY c \in Caller, <1>5, <2>1, SumChange
<1>0. Spent' = Spent
  BY <1>2 DEF Spent
<1> DEFINE billed == SumFunction(Billed)
           after == SumFunction(Billed')
           spent == SumFunction(Spent)
<1>7. billed \in Nat /\ spent \in Nat /\ meter \in Nat /\ wiped \in Nat
      /\ meter + wiped = billed + spent
  BY BillTypes DEF BillsIInv, BillsAddUp, Billed, Spent
<1>8. after \in Nat
  BY <1>5, BillTypes, SumFacts
<1>9. after + 0 = billed + cost
  BY <1>5, <1>6
<1>10. BillsAddUp'
  <2> HIDE DEF billed, after, spent
  <2>1. meter' + wiped' = after + spent
    BY <1>1, <1>2, <1>3, <1>7, <1>8, <1>9
  <2>2. spent = SumFunction(Spent')
    BY <1>0 DEF spent
  <2> QED BY <2>1, <2>2 DEF BillsAddUp, Billed, Spent, after
<1>11. \A d \in Caller : call'[d].pc # "back" => call'[d].cost = 0
  BY <1>4 DEF BillsIInv
<1> QED BY <1>10, <1>11 DEF BillsIInv

\* Every other step bills nothing.
LEMMA OtherBills ==
    ASSUME AgentIInv, BillsIInv,
           \/ \E c \in Caller : Check(c) \/ ProviderFails(c)
           \/ \E t \in Task : BeginTask(t)
           \/ ResetMeter
           \/ UNCHANGED agentVars
    PROVE  BillsIInv'
<1>1. meter' + wiped' = meter + wiped
  <2>1. CASE ResetMeter
    <3>1. meter' = 0 /\ wiped' = wiped + meter /\ meter \in Nat /\ wiped \in Nat
      BY <2>1 DEF ResetMeter, AgentIInv, AgentTypeOK
    <3> QED BY <3>1
  <2>2. CASE ~ResetMeter
    BY <2>2 DEF Check, ProviderFails, BeginTask, Unmetered, agentVars
  <2> QED BY <2>1, <2>2
<1>2. run' = run
  BY DEF Check, ProviderFails, BeginTask, Unmetered, ResetMeter, agentVars
<1>3. ASSUME NEW d \in Caller
      PROVE  call'[d].cost = call[d].cost /\ (call'[d].pc = "back" <=> call[d].pc = "back")
  <2>1. CASE UNCHANGED call
    BY <2>1
  <2>2. ASSUME NEW c \in Caller, NEW pc \in {"refused", "asked", "failed", "check"},
               call[c].pc # "back", call' = [call EXCEPT ![c].pc = pc]
        PROVE  call'[d].cost = call[d].cost /\ (call'[d].pc = "back" <=> call[d].pc = "back")
    BY <2>2 DEF AgentIInv, AgentTypeOK, CallType
  <2>3. ASSUME NEW c \in Caller, Check(c)
        PROVE  call'[d].cost = call[d].cost /\ (call'[d].pc = "back" <=> call[d].pc = "back")
    <3> DEFINE pc == IF ceiling # NoLimit /\ meter >= ceiling THEN "refused" ELSE "asked"
    <3>1. call' = [call EXCEPT ![c].pc = pc] /\ call[c].pc # "back"
      BY <2>3 DEF Check
    <3>2. pc \in {"refused", "asked", "failed", "check"}
      OBVIOUS
    <3> HIDE DEF pc
    <3> QED BY <2>2, <3>1, <3>2
  <2>4. ASSUME NEW c \in Caller, ProviderFails(c)
        PROVE  call'[d].cost = call[d].cost /\ (call'[d].pc = "back" <=> call[d].pc = "back")
    BY <2>2, <2>4 DEF ProviderFails
  <2>5. ASSUME NEW t \in Task, BeginTask(t)
        PROVE  call'[d].cost = call[d].cost /\ (call'[d].pc = "back" <=> call[d].pc = "back")
    BY <2>2, <2>5 DEF BeginTask, Caller
  <2> QED BY <2>1, <2>3, <2>4, <2>5 DEF ResetMeter, agentVars
<1> QED BY <1>1, <1>2, <1>3, NoBill

\* What was billed goes on adding up.
LEMMA NextBills == AgentIInv /\ BillsIInv /\ [AgentNext]_agentVars => BillsIInv'
<1> SUFFICES ASSUME AgentIInv, BillsIInv, [AgentNext]_agentVars PROVE BillsIInv'
  OBVIOUS
<1>1. ASSUME NEW c \in Caller, Bill(c) PROVE BillsIInv'
  BY <1>1, BillBills
<1>2. ASSUME NEW i \in Question, Turn(i) PROVE BillsIInv'
  BY <1>2, TurnBills
<1>3. ASSUME NEW i \in Question,
             LoopHead(i) \/ NoTurn(i) \/ Tool(i) \/ ToolsDone(i) \/ Ask(i)
      PROVE  BillsIInv'
  BY <1>3, RunBills
<1> QED BY <1>1, <1>2, <1>3, OtherBills DEF AgentNext, Spend, Run

--------------------------------------------------------------------------
(* The theorems. *)

\* Every reachable state satisfies the inductive invariant.
THEOREM AgentInductive == AgentSpec => []AgentIInv
BY AgentInitIInv, AgentNextIInv, PTL DEF AgentSpec

\* The loop, the calls and the meter stay in their types.
THEOREM AgentTypeCorrect == AgentSpec => []AgentTypeOK
<1>1. AgentIInv => AgentTypeOK
  BY DEF AgentIInv
<1> QED BY <1>1, AgentInductive, PTL

\* However questions and tasks interleave and the meter is reset, what passes the ceiling
\* is at most one call for each question and one for the event loop.
THEOREM Ceiling == AgentSpec => []SpentWithinCeiling
<1>1. AgentIInv => SpentWithinCeiling
  <2> SUFFICES ASSUME AgentIInv PROVE SpentWithinCeiling
    OBVIOUS
  <2>1. /\ Price * Cardinality(Asked) \in Nat
        /\ Price * (Cardinality(Question) + 1) \in Nat
    BY FewAreAsked, BudgetNumbers, Times DEF AgentIInv
  <2>2. meter \in Nat /\ (ceiling # NoLimit => ceiling \in Nat)
    BY AgentAssumption DEF AgentIInv, AgentTypeOK
  <2> QED BY <2>1, <2>2 DEF Ahead, AgentIInv, SpentWithinCeiling
<1> QED BY <1>1, AgentInductive, PTL

\* The model is never asked again while a call of its is without its one answer.
THEOREM Answered == AgentSpec => []EveryCallIsAnswered
<1>1. AgentIInv => EveryCallIsAnswered
  BY DEF AgentIInv, Questions, Fine, Transcript, EveryCallIsAnswered
<1> QED BY <1>1, AgentInductive, PTL

\* A question passes none of its caps by more than the step that reached it, and by one
\* turn more once the bytes are spent.
THEOREM Capped == AgentSpec => []WithinItsBudget
<1>1. AgentIInv => WithinItsBudget
  <2> SUFFICES ASSUME AgentIInv, NEW i \in Question, run[i].pc # "new",
                      NEW extra, extra = IF run[i].over THEN 1 ELSE 0
               PROVE  /\ run[i].turns <= run[i].budget.max_turns + extra
                      /\ run[i].bytes < MaxReadBytes + ToolBytes
                      /\ run[i].budget.max_usd # NoLimit =>
                            run[i].cost < run[i].budget.max_usd + Price * (1 + extra)
    BY DEF WithinItsBudget
  <2>1. Turns(i) /\ Money(i) /\ Bytes(i)
    BY DEF AgentIInv, Questions, Fine
  <2>2. Price * (1 + 0) = Price /\ Price * (1 + 1) = Price + Price
    BY BudgetNumbers
  <2>3. CASE run[i].over
    BY <2>1, <2>2, <2>3, Typed, BudgetNumbers DEF AgentIInv, Turns, Money, Bytes
  <2>4. CASE ~run[i].over
    BY <2>1, <2>2, <2>4, Typed, BudgetNumbers DEF AgentIInv, Turns, Money, Bytes
  <2> QED BY <2>3, <2>4
<1> QED BY <1>1, AgentInductive, PTL

\* Only a run that said something, with every call answered and no cap reached, is
\* reported as answered.
THEOREM Complete == AgentSpec => []OnlyAnsweredIsFinished
<1>1. AgentIInv => OnlyAnsweredIsFinished
  BY Typed DEF AgentIInv, Questions, Fine, Finished, Transcript, Turns, OnlyAnsweredIsFinished
<1> QED BY <1>1, AgentInductive, PTL

\* However calls, turns, failures and resets interleave, the meter and what was taken off
\* it are what the calls and the questions have been billed.
THEOREM Accounts == AgentSpec => []BillsAddUp
<1>1. AgentInit => AgentIInv /\ BillsIInv
  BY AgentInitIInv, InitBills
<1>2. AgentIInv /\ BillsIInv /\ [AgentNext]_agentVars => AgentIInv' /\ BillsIInv'
  BY AgentNextIInv, NextBills
<1>3. BillsIInv => BillsAddUp
  BY DEF BillsIInv
<1> QED BY <1>1, <1>2, <1>3, PTL DEF AgentSpec
====
