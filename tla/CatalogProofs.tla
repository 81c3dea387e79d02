---- MODULE CatalogProofs ----
(***************************************************************************)
(* For any databases, tables, threads and room for open datasets: the      *)
(* handles are sound, only cold ones are taken, the demo keeps playing and *)
(* its counter is its own.                                                 *)
(*                                                                         *)
(* The heart of it is what a thread knows of the least recently used order *)
(* (Warm): everything hotter than its own handle was opened since, so by   *)
(* the time its handle is the coldest and the cache is full, max_open      *)
(* others have been used.                                                  *)
(***************************************************************************)
EXTENDS Catalog, SequenceFacts

Who == SUBSET (Reader \cup {"loop", "demo"})
About == [key : Key, root : Root]

\* TypeOK without the count of the cache, which Cached has as NoRepeats.
Types ==
    /\ phase \in {"boot", "up", "down"}
    /\ root \in Root /\ home \in Homes
    /\ lru \in Seq(Handle) /\ pinned \subseteq Handle /\ opened \subseteq Handle
    /\ about \in [opened -> About]
    /\ counter \in [opened -> Who]
    /\ demo \in Seq(Handle)

\* The part of it that is about requests and threads.
Loops == [op : {"free", "browse", "pair", "demo", "load", "columns"},
          cat : {"main", "home"}, held : Seq(Handle)]
Threads == [pc : {"idle", "zero", "read", "collect"}, handle : Handle \cup {NoHandle},
            key : SUBSET Key, since : SUBSET Key, moved : BOOLEAN]

AtWork == loop \in Loops /\ reader \in [Reader -> Threads]

\* What is open is in one of the two caches: the demo's in one, the others in the other.
Cached ==
    /\ NoRepeats(lru) /\ Len(lru) <= MaxOpen
    /\ opened = Entries(lru) \cup pinned
    /\ \A g, h \in opened : about[g].key = about[h].key => g = h
    /\ \A h \in Entries(lru) : /\ about[h].root = root
                               /\ about[h].key.cat = "main" /\ about[h].key.scope # "demo"
    /\ \A h \in pinned : about[h].key.scope = "demo"

\* The demo's handles are pinned, and their counters are its own.
Armed ==
    /\ \A h \in pinned : counter[h] \subseteq {"demo"}
    /\ Entries(demo) \subseteq pinned \/ (phase = "down" /\ opened = {})
    /\ loop.op = "load" => demo = <<>> /\ Entries(loop.held) \subseteq pinned
    /\ phase = "down" => loop = Free

\* What the request on the loop holds; the left side of a comparison is the hottest.
Held ==
    /\ Entries(loop.held) \subseteq opened
    /\ loop.op = "pair" => lru # <<>> /\ loop.held = <<lru[Len(lru)]>>

\* A thread has one key; its handle, while open, has that key; what is hotter than the
\* handle was used since; and it was not closed while it was warm.
Owns(r) ==
    \E k \in Key : /\ k.scope = "console" /\ reader[r].key = {k}
                   /\ reader[r].handle \in opened => about[reader[r].handle].key = k

Others(r) == reader[r].since \ reader[r].key

Excused(r) ==
    reader[r].handle \notin opened =>
        \/ reader[r].moved \/ phase = "down"
        \/ Cardinality(Others(r)) >= MaxOpen

Hotter(r) ==
    \A p, q \in DOMAIN lru :
        p < q /\ lru[p] = reader[r].handle => about[lru[q]].key \in Others(r)

Warm ==
    \A r \in Reader :
        reader[r].pc # "idle" =>
            IsFiniteSet(reader[r].since) /\ Owns(r) /\ Excused(r) /\ Hotter(r)

IInv == Types /\ AtWork /\ Cached /\ Armed /\ Held /\ Warm

--------------------------------------------------------------------------
(* The least recently used order. *)

\* t is s after e was used: e is the hottest, and the others have kept their order.
Used(s, e, t) ==
    /\ t \in Seq(Handle) /\ NoRepeats(t)
    /\ t # <<>> /\ t[Len(t)] = e
    /\ \A p, q \in DOMAIN t :
          p < q => t[q] = e \/ \E a, b \in DOMAIN s : a < b /\ s[a] = t[p] /\ s[b] = t[q]

\* move_to_end.
LEMMA MovedFacts ==
    ASSUME NEW s \in Seq(Handle), NoRepeats(s), NEW n \in DOMAIN s
    PROVE  /\ Used(s, s[n], MovedToEnd(s, n))
           /\ Len(MovedToEnd(s, n)) = Len(s)
           /\ Entries(MovedToEnd(s, n)) = Entries(s)
<1> DEFINE t == MovedToEnd(s, n)
<1> DEFINE l == Len(s)
<1>1. l \in Nat /\ DOMAIN s = 1 .. l /\ n \in 1 .. l /\ (\A m \in 1 .. l : s[m] \in Handle)
  BY LenProperties
<1>2. /\ DOMAIN t = 1 .. l
      /\ \A m \in 1 .. l : t[m] = IF m < n THEN s[m] ELSE IF m < l THEN s[m + 1] ELSE s[n]
  BY <1>1 DEF MovedToEnd
<1> HIDE DEF t, l
<1>3. \A m \in 1 .. l : m < l => m + 1 \in 1 .. l
  BY <1>1
<1>4. t \in Seq(Handle) /\ Len(t) = l
  <2>1. \A m \in 1 .. l : t[m] \in Handle
    BY <1>1, <1>2, <1>3
  <2>2. t = [m \in 1 .. l |-> t[m]]
    BY <1>2 DEF t, MovedToEnd
  <2>3. t \in [1 .. l -> Handle]
    BY <2>1, <2>2
  <2> QED BY <1>1, <2>3, SeqDef, LenProperties, <1>2
<1>5. t # <<>> /\ t[Len(t)] = s[n]
  BY <1>1, <1>2, <1>4
<1>6. NoRepeats(t)
  BY <1>1, <1>2, <1>3 DEF NoRepeats
<1>7. ASSUME NEW p \in DOMAIN t, NEW q \in DOMAIN t, p < q
      PROVE  t[q] = s[n] \/ \E a, b \in DOMAIN s : a < b /\ s[a] = t[p] /\ s[b] = t[q]
  <2>1. CASE q = l
    BY <1>1, <1>2, <2>1
  <2>2. CASE q < n
    BY <1>1, <1>2, <1>7, <2>2
  <2>3. CASE p < n /\ ~(q < n) /\ q < l
    <3>1. p \in DOMAIN s /\ q + 1 \in DOMAIN s /\ p < q + 1 /\ s[p] = t[p] /\ s[q + 1] = t[q]
      BY <1>1, <1>2, <1>7, <2>3
    <3> QED BY <3>1
  <2>4. CASE ~(p < n) /\ q < l
    <3>1. /\ p + 1 \in DOMAIN s /\ q + 1 \in DOMAIN s /\ p + 1 < q + 1
          /\ s[p + 1] = t[p] /\ s[q + 1] = t[q]
      BY <1>1, <1>2, <1>7, <2>4
    <3> QED BY <3>1
  <2> QED BY <1>1, <1>2, <1>7, <2>1, <2>2, <2>3, <2>4
<1>8. Entries(t) = Entries(s)
  <2>1. ASSUME NEW m \in 1 .. l PROVE s[m] \in Entries(t)
    <3>1. CASE m < n
      BY <1>1, <1>2, <3>1 DEF Entries
    <3>2. CASE m = n
      BY <1>1, <1>2, <3>2 DEF Entries
    <3>3. CASE m > n
      <4>1. m - 1 \in 1 .. l /\ t[m - 1] = s[m]
        BY <1>1, <1>2, <3>3
      <4> QED BY <1>2, <4>1 DEF Entries
    <3> QED BY <1>1, <3>1, <3>2, <3>3
  <2>2. ASSUME NEW m \in 1 .. l PROVE t[m] \in Entries(s)
    BY <1>1, <1>2, <1>3 DEF Entries
  <2> QED BY <1>1, <1>2, <2>1, <2>2 DEF Entries
<1> QED BY <1>4, <1>5, <1>6, <1>7, <1>8 DEF t, l, Used

\* A newcomer, with room for it.
LEMMA AddedFacts ==
    ASSUME NEW s \in Seq(Handle), NoRepeats(s), NEW e \in Handle \ Entries(s)
    PROVE  /\ Used(s, e, Append(s, e))
           /\ Len(Append(s, e)) = Len(s) + 1
           /\ Entries(Append(s, e)) = Entries(s) \cup {e}
<1> DEFINE t == Append(s, e)
<1>1. /\ t \in Seq(Handle) /\ t # <<>> /\ Len(t) = Len(s) + 1 /\ Len(s) \in Nat
      /\ DOMAIN s = 1 .. Len(s) /\ DOMAIN t = 1 .. Len(s) + 1
      /\ \A n \in 1 .. Len(s) : t[n] = s[n]
      /\ t[Len(s) + 1] = e
      /\ Entries(t) = Entries(s) \cup {e}
  BY AppendFacts
<1>2. NoRepeats(t)
  BY AppendEntries
<1> HIDE DEF t
<1>3. ASSUME NEW p \in DOMAIN t, NEW q \in DOMAIN t, p < q
      PROVE  t[q] = e \/ \E a, b \in DOMAIN s : a < b /\ s[a] = t[p] /\ s[b] = t[q]
  BY <1>1, <1>3
<1> QED BY <1>1, <1>2, <1>3 DEF t, Used

\* A newcomer, with the coldest taken.
LEMMA EvictedFacts ==
    ASSUME NEW s \in Seq(Handle), NoRepeats(s), NEW e \in Handle \ Entries(s), s # <<>>
    PROVE  /\ Used(s, e, Tail(Append(s, e)))
           /\ Len(Tail(Append(s, e))) = Len(s)
           /\ Head(Append(s, e)) = s[1] /\ s[1] # e /\ s[1] \in Entries(s)
           /\ Entries(Tail(Append(s, e))) = (Entries(s) \cup {e}) \ {s[1]}
           /\ \A x \in Entries(Tail(Append(s, e))) :
                 x = e \/ \E q \in DOMAIN s : q > 1 /\ x = s[q]
<1> DEFINE a == Append(s, e)
<1> DEFINE t == Tail(a)
<1> DEFINE l == Len(s)
<1>1. /\ Used(s, e, a) /\ Len(a) = l + 1 /\ Entries(a) = Entries(s) \cup {e}
  BY AddedFacts
<1>2. /\ l \in Nat \ {0} /\ DOMAIN s = 1 .. l /\ DOMAIN a = 1 .. l + 1
      /\ a \in Seq(Handle) /\ a # <<>> /\ NoRepeats(a)
      /\ \A n \in 1 .. l : a[n] = s[n]
      /\ a[l + 1] = e
  BY <1>1, AppendFacts, EmptySeq, LenProperties DEF Used
<1>3. Head(a) = s[1] /\ s[1] # e /\ s[1] \in Entries(s)
  BY <1>2 DEF Entries
<1> HIDE DEF a, l
<1>4. /\ t \in Seq(Handle) /\ Len(t) = l /\ DOMAIN t = 1 .. l
      /\ \A n \in 1 .. l : t[n] = a[n + 1]
  BY <1>1, <1>2, HeadTailProperties, LenProperties
<1>5. Head(a) \in Entries(a) /\ Entries(t) = Entries(a) \ {Head(a)} /\ NoRepeats(t)
  BY <1>2, TailEntries
<1> HIDE DEF t
<1>6. t # <<>> /\ t[Len(t)] = e
  BY <1>2, <1>4
<1>7. ASSUME NEW p \in DOMAIN t, NEW q \in DOMAIN t, p < q
      PROVE  t[q] = e \/ \E c, b \in DOMAIN s : c < b /\ s[c] = t[p] /\ s[b] = t[q]
  <2>1. CASE q = l
    BY <1>2, <1>4, <2>1
  <2>2. CASE q < l
    <3>1. p + 1 \in DOMAIN s /\ q + 1 \in DOMAIN s /\ p + 1 < q + 1
          /\ s[p + 1] = t[p] /\ s[q + 1] = t[q]
      BY <1>2, <1>4, <1>7, <2>2
    <3> QED BY <3>1
  <2> QED BY <1>2, <1>4, <2>1, <2>2
<1>8. ASSUME NEW x \in Entries(t) PROVE x = e \/ \E q \in DOMAIN s : q > 1 /\ x = s[q]
  <2>1. PICK n \in 1 .. l : x = t[n]
    BY <1>4 DEF Entries
  <2>2. CASE n = l
    BY <1>2, <1>4, <2>1, <2>2
  <2>3. CASE n < l
    <3>1. n + 1 \in DOMAIN s /\ n + 1 > 1 /\ x = s[n + 1]
      BY <1>2, <1>4, <2>1, <2>3
    <3> QED BY <3>1
  <2> QED BY <1>2, <2>2, <2>3
<1> QED BY <1>1, <1>3, <1>4, <1>5, <1>6, <1>7, <1>8 DEF a, t, l, Used

--------------------------------------------------------------------------
(* Catalog.open. *)

\* What an open of k does, whichever way it goes, to the caches.
OpensCache(k, pin, h) ==
    /\ IF pin THEN lru' = lru ELSE Used(lru, h, lru')
    /\ pinned' = IF pin THEN pinned \cup {h} ELSE pinned
    /\ lru' \in Seq(Handle) /\ NoRepeats(lru') /\ Len(lru') <= MaxOpen
    /\ Entries(lru') \subseteq IF pin THEN Entries(lru) ELSE Entries(lru) \cup {h}

\* ... and to what is open.
OpensHandle(k, pin, h) ==
    /\ opened' = Entries(lru') \cup pinned'
    /\ h \in opened' /\ opened' \subseteq opened \cup {h}
    /\ h \in opened \/ h \notin InUse
    /\ about' \in [opened' -> About]
    /\ about'[h].key = k /\ (~pin => about'[h].root = root)
    /\ \A g \in opened' \ {h} : about'[g] = about[g] /\ about[g].key # k
    /\ h \in opened => about'[h] = about[h]

\* ... and what it closes: the coldest, with max_open others left.
OpensAndCloses(k, pin, h) ==
    \A g \in opened \ opened' :
        /\ ~pin /\ Len(lru) = MaxOpen /\ Len(lru') = MaxOpen /\ lru # <<>>
        /\ g = lru[1] /\ g # h /\ about[g].key # k
        /\ \A x \in Entries(lru') : x = h \/ \E q \in DOMAIN lru : q > 1 /\ x = lru[q]

Opens(k, pin, h) == OpensCache(k, pin, h) /\ OpensHandle(k, pin, h) /\ OpensAndCloses(k, pin, h)

\* The scope decides whether a handle is pinned.
RightScope(k, pin) ==
    IF pin THEN k.scope = "demo" ELSE k.scope # "demo" /\ k.cat = "main"

LEMMA MembersAreEntries == \A s : Members(s) = Entries(s)
BY DEF Members, Entries

LEMMA KnownFacts ==
    ASSUME Types, Cached, NEW k
    PROVE  Known(k) = {h \in opened : about[h].key = k}
BY MembersAreEntries DEF Known, Cached

LEMMA HitOpens ==
    ASSUME Types, Cached, NEW k \in Key, NEW pin \in BOOLEAN, RightScope(k, pin),
           NEW h \in Handle, Hit(k, h)
    PROVE  Opens(k, pin, h)
<1>1. h \in opened /\ about[h].key = k /\ opened = Entries(lru) \cup pinned
  BY KnownFacts DEF Hit, Cached
<1>2. pinned' = pinned /\ about' = about /\ opened' = opened
  BY DEF Hit, opened
<1>3. OpensAndCloses(k, pin, h)
  BY <1>2 DEF OpensAndCloses
<1>4. \A g \in opened \ {h} : about[g].key # k
  BY <1>1 DEF Cached
<1>5. h \in pinned => lru' = lru
  BY DEF Hit
<1>6. h \notin pinned => \E n \in DOMAIN lru : lru[n] = h /\ lru' = MovedToEnd(lru, n)
  BY DEF Hit
<1>7. CASE pin
  <2>1. h \in pinned
    BY <1>1, <1>7 DEF Cached, RightScope
  <2>2. OpensCache(k, pin, h)
    BY <1>2, <1>5, <1>7, <2>1 DEF OpensCache, Cached, Types
  <2>3. OpensHandle(k, pin, h)
    BY <1>1, <1>2, <1>4, <1>5, <1>7, <2>1 DEF OpensHandle, Types
  <2> QED BY <1>3, <2>2, <2>3 DEF Opens
<1>8. CASE ~pin
  <2>1. h \in Entries(lru) /\ h \notin pinned
    BY <1>1, <1>8 DEF Cached, RightScope
  <2>2. PICK n \in DOMAIN lru : lru[n] = h /\ lru' = MovedToEnd(lru, n)
    BY <1>6, <2>1
  <2>3. Used(lru, h, lru') /\ Len(lru') = Len(lru) /\ Entries(lru') = Entries(lru)
    BY <2>2, MovedFacts DEF Types, Cached
  <2>4. OpensCache(k, pin, h)
    BY <1>2, <1>8, <2>3 DEF OpensCache, Cached, Used
  <2>5. about[h].root = root
    BY <2>1 DEF Cached
  <2>6. OpensHandle(k, pin, h)
    BY <1>1, <1>2, <1>4, <2>3, <2>5 DEF OpensHandle, Types
  <2> QED BY <1>3, <2>4, <2>6 DEF Opens
<1> QED BY <1>7, <1>8

LEMMA NewOpens ==
    ASSUME Types, Cached, NEW k \in Key, NEW pin \in BOOLEAN, RightScope(k, pin),
           NEW h \in Handle, New(k, pin, h)
    PROVE  Opens(k, pin, h)
<1>1. /\ h \notin InUse /\ h \notin opened
      /\ \A g \in opened : about[g].key # k
      /\ opened = Entries(lru) \cup pinned
      /\ h \notin Entries(lru) /\ h \notin pinned
  BY KnownFacts DEF New, Fresh, InUse, Cached
<1>2. RootOf(k.cat) \in Root /\ (~pin => RootOf(k.cat) = root)
  BY ConstantsAssumption DEF RootOf, Types, RightScope
<1> DEFINE w == With(k, h)
<1>3. /\ DOMAIN w = opened \cup {h}
      /\ w[h].key = k /\ w[h].root = RootOf(k.cat)
      /\ \A g \in opened : w[g] = about[g]
      /\ w \in [opened \cup {h} -> About]
  <2>1. [key |-> k, root |-> RootOf(k.cat)] \in About
    BY <1>2 DEF About
  <2> QED BY <1>1, <2>1 DEF With, Types
<1> HIDE DEF w
<1>4. CASE pin
  <2>1. pinned' = pinned \cup {h} /\ about' = w /\ lru' = lru
    BY <1>4 DEF New, Pin, w
  <2>2. opened' = opened \cup {h}
    BY <1>3, <2>1 DEF opened
  <2>3. OpensCache(k, pin, h)
    BY <1>4, <2>1 DEF OpensCache, Cached, Types
  <2>4. OpensHandle(k, pin, h)
    BY <1>1, <1>3, <1>4, <2>1, <2>2 DEF OpensHandle
  <2>5. OpensAndCloses(k, pin, h)
    BY <2>2 DEF OpensAndCloses
  <2> QED BY <2>3, <2>4, <2>5 DEF Opens
<1>5. CASE ~pin /\ Len(lru) < MaxOpen
  <2>1. Used(lru, h, Append(lru, h)) /\ Len(Append(lru, h)) = Len(lru) + 1
        /\ Entries(Append(lru, h)) = Entries(lru) \cup {h}
    BY <1>1, AddedFacts DEF Types, Cached
  <2>2. Len(lru) \in Nat /\ ~(Len(lru) + 1 > MaxOpen) /\ Len(lru) + 1 <= MaxOpen
    BY <1>5, ConstantsAssumption, LenProperties DEF Types
  <2>3. pinned' = pinned /\ lru' = Append(lru, h) /\ about' = Without(w, {})
    BY <1>5, <2>1, <2>2 DEF New, Cache, w
  <2>4. about' = w
    BY <1>3, <2>3 DEF Without
  <2>5. opened' = opened \cup {h}
    BY <1>3, <2>4 DEF opened
  <2>6. OpensCache(k, pin, h)
    BY <1>5, <2>1, <2>2, <2>3 DEF OpensCache, Used
  <2>7. OpensHandle(k, pin, h)
    BY <1>1, <1>2, <1>3, <1>5, <2>1, <2>3, <2>4, <2>5 DEF OpensHandle
  <2>8. OpensAndCloses(k, pin, h)
    BY <2>5 DEF OpensAndCloses
  <2> QED BY <2>6, <2>7, <2>8 DEF Opens
<1>6. CASE ~pin /\ ~(Len(lru) < MaxOpen)
  <2>1. Len(lru) = MaxOpen /\ lru # <<>> /\ Len(lru) + 1 > MaxOpen
    BY <1>6, ConstantsAssumption, LenProperties, EmptySeq DEF Types, Cached
  <2> DEFINE s == Append(lru, h)
  <2> DEFINE t == Tail(s)
  <2>2. /\ Used(lru, h, t) /\ Len(t) = MaxOpen
        /\ Head(s) = lru[1] /\ lru[1] # h /\ lru[1] \in Entries(lru)
        /\ Entries(t) = (Entries(lru) \cup {h}) \ {lru[1]}
        /\ \A x \in Entries(t) : x = h \/ \E q \in DOMAIN lru : q > 1 /\ x = lru[q]
    <3>1. lru \in Seq(Handle) /\ NoRepeats(lru) /\ lru # <<>> /\ h \in Handle \ Entries(lru)
      BY <1>1, <2>1 DEF Types, Cached
    <3>2. /\ Used(lru, h, t) /\ Len(t) = Len(lru)
          /\ Head(s) = lru[1] /\ lru[1] # h /\ lru[1] \in Entries(lru)
          /\ Entries(t) = (Entries(lru) \cup {h}) \ {lru[1]}
          /\ \A x \in Entries(t) : x = h \/ \E q \in DOMAIN lru : q > 1 /\ x = lru[q]
      BY ONLY <3>1, EvictedFacts
    <3> HIDE DEF s, t
    <3> QED BY <2>1, <3>2
  <2>3. Len(s) = Len(lru) + 1
    BY <1>1, AppendFacts DEF Types
  <2>4. pinned' = pinned /\ lru' = t /\ about' = Without(w, {lru[1]})
    BY <1>6, <2>1, <2>2, <2>3 DEF New, Cache, w
  <2> HIDE DEF s, t
  <2>5. /\ opened' = (opened \cup {h}) \ {lru[1]}
        /\ about' \in [opened' -> About] /\ \A g \in opened' : about'[g] = w[g]
    BY <1>3, <2>4 DEF Without, opened
  <2>6. lru[1] \notin pinned
    BY <2>2 DEF Cached
  <2>7. opened' = Entries(lru') \cup pinned'
    BY <1>1, <2>2, <2>4, <2>5, <2>6
  <2>8. OpensCache(k, pin, h)
    BY <1>6, <2>2, <2>4, ConstantsAssumption DEF OpensCache, Used
  <2>9. OpensHandle(k, pin, h)
    BY <1>1, <1>2, <1>3, <1>6, <2>2, <2>5, <2>7 DEF OpensHandle
  <2>10. OpensAndCloses(k, pin, h)
    <3> SUFFICES ASSUME NEW g \in opened, g \notin opened'
                 PROVE  /\ ~pin /\ Len(lru) = MaxOpen /\ Len(lru') = MaxOpen /\ lru # <<>>
                        /\ g = lru[1] /\ g # h /\ about[g].key # k
                        /\ \A x \in Entries(lru') :
                              x = h \/ \E q \in DOMAIN lru : q > 1 /\ x = lru[q]
      BY DEF OpensAndCloses
    <3>1. g = lru[1]
      BY <2>5
    <3> QED BY <1>1, <1>6, <2>1, <2>2, <2>4, <3>1
  <2> QED BY <2>8, <2>9, <2>10 DEF Opens
<1> QED BY <1>4, <1>5, <1>6

LEMMA OpenOpens ==
    ASSUME Types, Cached, NEW k \in Key, NEW pin \in BOOLEAN, RightScope(k, pin),
           NEW h \in Handle, Open(k, pin, h)
    PROVE  Opens(k, pin, h)
BY HitOpens, NewOpens DEF Open

\* The caches stay sound.
LEMMA OpenCaches ==
    ASSUME Types, Cached, NEW k \in Key, NEW pin \in BOOLEAN, RightScope(k, pin),
           NEW h \in Handle, Opens(k, pin, h), root' = root
    PROVE  Cached'
<1>1. NoRepeats(lru') /\ Len(lru') <= MaxOpen /\ opened' = Entries(lru') \cup pinned'
  BY DEF Opens, OpensCache, OpensHandle
<1>2. \A f, g \in opened' : about'[f].key = about'[g].key => f = g
  <2> SUFFICES ASSUME NEW f \in opened', NEW g \in opened', about'[f].key = about'[g].key
               PROVE  f = g
    OBVIOUS
  <2>1. /\ about'[h].key = k /\ opened' \subseteq opened \cup {h}
        /\ \A x \in opened' \ {h} : about'[x] = about[x] /\ about[x].key # k
    BY DEF Opens, OpensHandle
  <2>2. CASE f # h /\ g # h
    BY <2>1, <2>2 DEF Cached
  <2> QED BY <2>1, <2>2
<1>3. ASSUME NEW g \in Entries(lru')
      PROVE  /\ about'[g].root = root
             /\ about'[g].key.cat = "main" /\ about'[g].key.scope # "demo"
  <2>1. g \in opened'
    BY <1>1
  <2>2. CASE g = h /\ ~pin
    BY <2>2 DEF Opens, OpensHandle, RightScope
  <2>3. CASE g # h
    <3>1. g \in Entries(lru) /\ about'[g] = about[g]
      BY <2>1, <2>3 DEF Opens, OpensCache, OpensHandle
    <3> QED BY <3>1 DEF Cached
  <2>4. CASE g = h /\ pin
    <3>1. g \in Entries(lru) /\ h \in opened
      BY <2>4 DEF Opens, OpensCache, Cached
    <3>2. about[g].key.scope # "demo"
      BY <3>1 DEF Cached
    <3>3. about'[h] = about[h] /\ about'[h].key = k /\ k.scope = "demo"
      BY <2>4, <3>1 DEF Opens, OpensHandle, RightScope
    <3> QED BY <2>4, <3>2, <3>3
  <2> QED BY <2>2, <2>3, <2>4
<1>4. ASSUME NEW g \in pinned' PROVE about'[g].key.scope = "demo"
  <2>1. g \in opened'
    BY <1>1
  <2>2. CASE g = h /\ pin
    BY <2>2 DEF Opens, OpensHandle, RightScope
  <2>3. CASE g # h
    <3>1. g \in pinned /\ about'[g] = about[g]
      BY <2>1, <2>3 DEF Opens, OpensCache, OpensHandle
    <3> QED BY <3>1 DEF Cached
  <2>4. CASE g = h /\ ~pin
    <3>1. h \in pinned
      BY <1>4, <2>4 DEF Opens, OpensCache
    <3>2. h \in opened /\ about[h].key.scope = "demo"
      BY <3>1 DEF Cached
    <3>3. about'[h] = about[h]
      BY <3>2 DEF Opens, OpensHandle
    <3> QED BY <2>4, <3>2, <3>3
  <2> QED BY <2>2, <2>3, <2>4
<1> QED BY <1>1, <1>2, <1>3, <1>4 DEF Cached

\* Counters go with their handles.
LEMMA CountFacts ==
    ASSUME Types, NEW hs, NEW who \in Who, Count(hs, who)
    PROVE  /\ counter' \in [opened' -> Who]
           /\ \A g \in opened' \cap hs : counter'[g] = who
           /\ \A g \in (opened' \cap opened) \ hs : counter'[g] = counter[g]
           /\ \A g \in (opened' \ opened) \ hs : counter'[g] = {}
<1>1. /\ DOMAIN counter' = opened'
      /\ \A g \in opened' : counter'[g] = IF g \in hs THEN who
                                          ELSE IF g \in opened THEN counter[g] ELSE {}
  BY DEF Count, opened
<1>2. \A g \in opened' : counter'[g] \in Who
  BY <1>1 DEF Types, Who
<1>3. counter' = [g \in opened' |-> counter'[g]]
  BY DEF Count, opened
<1> QED BY <1>1, <1>2, <1>3

\* What an open does, as facts of the types.
LEMMA OpenTypes ==
    ASSUME Types, NEW k \in Key, NEW pin \in BOOLEAN, NEW h \in Handle, Opens(k, pin, h)
    PROVE  /\ lru' \in Seq(Handle) /\ pinned' \subseteq Handle /\ opened' \subseteq Handle
           /\ about' \in [opened' -> About]
BY DEF Types, Opens, OpensCache, OpensHandle

--------------------------------------------------------------------------
(* What the threads know. *)

WarmIs(r) == IsFiniteSet(reader[r].since) /\ Owns(r) /\ Excused(r) /\ Hotter(r)

\* What a thread at work keeps of its own while the loop goes on, with the keys that
\* were used since it began.
Remembers(r, since) ==
    /\ reader'[r].handle = reader[r].handle /\ reader'[r].key = reader[r].key
    /\ reader'[r].since = since
    /\ reader[r].moved => reader'[r].moved

\* An open of the console's: one key more, and the coldest goes when the cache is full.
LEMMA OpenWarms ==
    ASSUME Types, Cached, NEW k \in Key, k.scope # "demo", k.cat = "main",
           NEW h \in Handle, Opens(k, FALSE, h), phase' = phase, root' = root,
           NEW r \in Reader, WarmIs(r), Remembers(r, reader[r].since \cup {k})
    PROVE  WarmIs(r)'
<1> DEFINE x == reader[r].handle
<1> DEFINE others == (reader[r].since \cup {k}) \ reader[r].key
<1>1. Others(r)' = others /\ Others(r) \subseteq others /\ IsFiniteSet(others)
      /\ IsFiniteSet(reader'[r].since)
  <2>1. IsFiniteSet(reader[r].since \cup {k})
    BY FS_AddElement DEF WarmIs
  <2>2. IsFiniteSet(others)
    BY <2>1, FS_Subset
  <2> QED BY <2>1, <2>2 DEF Others, Remembers
<1>2. x \in InUse /\ reader'[r].handle = x /\ reader'[r].key = reader[r].key
  BY DEF InUse, Remembers
<1>3. PICK own \in Key : /\ own.scope = "console" /\ reader[r].key = {own}
                         /\ x \in opened => about[x].key = own
  BY DEF WarmIs, Owns
<1> HIDE DEF x, others
<1>4. /\ h \in opened \/ x # h
      /\ opened' = Entries(lru') \cup pinned' /\ h \in opened' /\ opened' \subseteq opened \cup {h}
      /\ about'[h].key = k
      /\ \A g \in opened' \ {h} : about'[g] = about[g] /\ about[g].key # k
      /\ h \in opened => about'[h] = about[h]
  BY <1>2 DEF Opens, OpensHandle
<1>5. Owns(r)'
  <2>1. x \in opened' => about'[x].key = own
    BY <1>3, <1>4
  <2> QED BY <1>2, <1>3, <2>1 DEF Owns
<1>6. Excused(r)'
  <2> SUFFICES ASSUME x \notin opened', ~reader'[r].moved, phase' # "down"
               PROVE  Cardinality(others) >= MaxOpen
    BY <1>1, <1>2 DEF Excused
  <2>1. CASE x \notin opened
    <3>1. Cardinality(Others(r)) >= MaxOpen
      BY <1>2, <2>1 DEF WarmIs, Excused, Remembers, x
    <3>2. Cardinality(Others(r)) <= Cardinality(others)
          /\ Cardinality(others) \in Nat /\ Cardinality(Others(r)) \in Nat
      BY <1>1, FS_Subset, FS_CardinalityType
    <3> QED BY <3>1, <3>2, ConstantsAssumption
  <2>2. CASE x \in opened
    <3>1. /\ Len(lru') = MaxOpen /\ x = lru[1] /\ x # h /\ lru # <<>> /\ about[x].key # k
          /\ \A y \in Entries(lru') : y = h \/ \E q \in DOMAIN lru : q > 1 /\ y = lru[q]
      BY <2>2 DEF Opens, OpensAndCloses
    <3>2. 1 \in DOMAIN lru
      BY <3>1, LenProperties, EmptySeq DEF Types
    <3>3. k \in others
      BY <1>3, <2>2, <3>1 DEF others
    <3>4. ASSUME NEW y \in Entries(lru') PROVE about'[y].key \in others
      <4>1. CASE y = h
        BY <1>4, <3>3, <4>1
      <4>2. CASE y # h
        <5>1. PICK q \in DOMAIN lru : q > 1 /\ y = lru[q]
          BY <3>1, <4>2
        <5>2. about[y].key \in Others(r)
          BY <3>1, <3>2, <5>1 DEF WarmIs, Hotter, x
        <5> QED BY <1>1, <1>4, <4>2, <5>2
      <4> QED BY <4>1, <4>2
    <3> DEFINE f == [n \in 1 .. MaxOpen |-> about'[lru'[n]].key]
    <3>5. DOMAIN lru' = 1 .. MaxOpen /\ NoRepeats(lru')
      BY <3>1, LenProperties DEF Opens, OpensCache
    <3>6. \A n \in 1 .. MaxOpen : lru'[n] \in Entries(lru') /\ lru'[n] \in opened'
      BY <1>4, <3>5 DEF Entries
    <3>7. f \in [1 .. MaxOpen -> others]
      BY <3>4, <3>6
    <3>8. \A m, n \in 1 .. MaxOpen : f[m] = f[n] => m = n
      <4>1. Cached'
        BY OpenCaches DEF RightScope
      <4>2. \A m, n \in 1 .. MaxOpen : f[m] = f[n] => lru'[m] = lru'[n]
        BY <3>6, <4>1 DEF Cached
      <4> QED BY <3>5, <4>2 DEF NoRepeats
    <3> HIDE DEF f
    <3>9. f \in Injection(1 .. MaxOpen, others)
      BY <3>7, <3>8 DEF Injection, IsInjective
    <3>10. Cardinality(1 .. MaxOpen) <= Cardinality(others)
      BY <1>1, <3>9, FS_Injection
    <3>11. Cardinality(1 .. MaxOpen) = MaxOpen /\ Cardinality(others) \in Nat
      BY <1>1, ConstantsAssumption, FS_Interval, FS_CardinalityType
    <3> QED BY <3>10, <3>11, ConstantsAssumption
  <2> QED BY <2>1, <2>2
<1>7. Hotter(r)'
  <2> SUFFICES ASSUME NEW p \in DOMAIN lru', NEW q \in DOMAIN lru', p < q, lru'[p] = x
               PROVE  about'[lru'[q]].key \in others
    BY <1>1, <1>2 DEF Hotter
  <2>1. x \in opened' /\ lru'[q] \in opened'
    BY <1>4 DEF Entries
  <2>2. x # lru'[q] /\ Used(lru, h, lru')
    <3>1. Used(lru, h, lru') /\ NoRepeats(lru')
      BY DEF Opens, OpensCache
    <3>2. p # q
      BY <3>1, LenProperties DEF Used
    <3> QED BY <3>1, <3>2 DEF NoRepeats
  <2>3. CASE lru'[q] = h
    <3>1. x # h /\ x \in opened /\ about[x].key # k
      BY <1>4, <2>1, <2>2, <2>3
    <3>2. k # own
      BY <1>3, <3>1
    <3> QED BY <1>3, <1>4, <2>3, <3>2 DEF others
  <2>4. CASE lru'[q] # h
    <3>1. PICK a, b \in DOMAIN lru : a < b /\ lru[a] = x /\ lru[b] = lru'[q]
      BY <2>2, <2>4 DEF Used
    <3>2. about[lru'[q]].key \in Others(r)
      BY <3>1 DEF WarmIs, Hotter, x
    <3> QED BY <1>1, <1>4, <2>1, <2>4, <3>2
  <2> QED BY <2>3, <2>4
<1> QED BY <1>1, <1>5, <1>6, <1>7 DEF WarmIs

\* A pinned open closes nothing and is no part of the order.
LEMMA PinWarms ==
    ASSUME Types, Cached, NEW k \in Key, k.scope = "demo",
           NEW h \in Handle, Opens(k, TRUE, h), phase' = phase,
           NEW r \in Reader, WarmIs(r), Remembers(r, reader[r].since)
    PROVE  WarmIs(r)'
<1> DEFINE x == reader[r].handle
<1>1. Others(r)' = Others(r) /\ IsFiniteSet(reader'[r].since)
  BY DEF Others, Remembers, WarmIs
<1>2. x \in InUse /\ reader'[r].handle = x /\ reader'[r].key = reader[r].key
  BY DEF InUse, Remembers
<1>3. /\ lru' = lru /\ (h \in opened \/ h # x)
      /\ opened' = Entries(lru') \cup pinned' /\ opened' \subseteq opened \cup {h}
      /\ \A g \in opened \cap opened' : about'[g] = about[g]
      /\ opened \subseteq opened'
  BY <1>2 DEF Opens, OpensCache, OpensHandle, OpensAndCloses
<1> HIDE DEF x
<1>4. Owns(r)'
  <2>1. PICK own \in Key : /\ own.scope = "console" /\ reader[r].key = {own}
                           /\ x \in opened => about[x].key = own
    BY DEF WarmIs, Owns, x
  <2> QED BY <1>2, <1>3, <2>1 DEF Owns
<1>5. Excused(r)'
  BY <1>1, <1>2, <1>3 DEF Excused, WarmIs, Remembers, x
<1>6. Hotter(r)'
  <2>1. \A p \in DOMAIN lru : lru[p] \in opened /\ about'[lru[p]] = about[lru[p]]
    BY <1>3 DEF Entries, Cached
  <2> QED BY <1>1, <1>2, <1>3, <2>1 DEF Hotter, WarmIs, x
<1> QED BY <1>1, <1>4, <1>5, <1>6 DEF WarmIs

\* A step that opens and closes nothing.
LEMMA StayWarm ==
    ASSUME UNCHANGED <<lru, about>>, phase = "down" => phase' = "down",
           NEW r \in Reader, WarmIs(r), Remembers(r, reader[r].since)
    PROVE  WarmIs(r)'
<1>1. UNCHANGED Others(r) /\ UNCHANGED opened
  BY DEF Others, Remembers, opened
<1>2. Owns(r)'
  BY <1>1 DEF Owns, WarmIs, Remembers
<1>3. Excused(r)'
  BY <1>1 DEF Excused, WarmIs, Remembers
<1>4. Hotter(r)'
  BY <1>1 DEF Hotter, WarmIs, Remembers
<1> QED BY <1>2, <1>3, <1>4 DEF WarmIs, Remembers

--------------------------------------------------------------------------
(* The initial states, and the requests that open. *)

LEMMA InitIInv == Init => IInv
<1> SUFFICES ASSUME Init PROVE IInv
  OBVIOUS
<1>1. lru = <<>> /\ pinned = {} /\ about = <<>> /\ counter = <<>> /\ demo = <<>>
  BY DEF Init
<1>2. opened = {} /\ Entries(lru) = {} /\ Entries(demo) = {} /\ Len(lru) = 0
  BY <1>1, EmptyFacts DEF opened
<1>3. <<>> \in Seq(Handle) /\ about \in [opened -> About] /\ counter \in [opened -> Who]
  BY <1>1, <1>2
<1>4. Types
  BY <1>1, <1>2, <1>3, ConstantsAssumption DEF Init, Types
<1>5. loop = [op |-> "load", cat |-> "main", held |-> <<>>]
      /\ \A r \in Reader : reader[r] = Idle
  BY DEF Init, Free
<1>6. AtWork
  <2>1. Idle \in Threads
    BY DEF Idle, Threads, NoHandle
  <2>2. loop \in Loops
    BY <1>5, <1>3 DEF Loops
  <2> QED BY <2>1, <2>2 DEF Init, AtWork
<1>7. Cached
  BY <1>1, <1>2, ConstantsAssumption DEF Cached, NoRepeats
<1>8. Armed /\ Held
  BY <1>1, <1>2, <1>5, EmptyFacts DEF Armed, Held, Init
<1>9. Warm
  BY <1>5 DEF Warm, Idle
<1> QED BY <1>4, <1>6, <1>7, <1>8, <1>9 DEF IInv

LEMMA KeyFacts ==
    ASSUME NEW n \in Name
    PROVE  /\ ConsoleKey(n) \in Key /\ ConsoleKey(n).scope = "console" /\ ConsoleKey(n).cat = "main"
           /\ CompareKey(n) \in Key /\ CompareKey(n).scope = "compare" /\ CompareKey(n).cat = "main"
           /\ \A c \in {"main", "home"} : DemoKey(c, n) \in Key /\ DemoKey(c, n).scope = "demo"
BY DEF ConsoleKey, CompareKey, DemoKey, Key

LEMMA NotedFacts ==
    ASSUME AtWork, NEW k \in Key
    PROVE  /\ Noted(k) \in [Reader -> Threads]
           /\ \A r \in Reader : Noted(k)[r].pc = reader[r].pc
           /\ reader' = Noted(k) =>
                 \A r \in Reader :
                    reader[r].pc # "idle" => Remembers(r, reader[r].since \cup {k})
<1> DEFINE t(r) == [reader[r] EXCEPT !.since = @ \cup {k}]
<1>1. \A r \in Reader : reader[r] \in Threads
  BY DEF AtWork
<1>2. ASSUME NEW r \in Reader
      PROVE  /\ t(r) \in Threads /\ t(r).pc = reader[r].pc
             /\ t(r).handle = reader[r].handle /\ t(r).key = reader[r].key
             /\ t(r).since = reader[r].since \cup {k} /\ t(r).moved = reader[r].moved
  BY <1>1 DEF Threads
<1>3. \A r \in Reader : Noted(k)[r] = IF reader[r].pc = "idle" THEN reader[r] ELSE t(r)
  BY DEF Noted
<1> HIDE DEF t
<1>4. Noted(k) \in [Reader -> Threads]
  <2>1. \A r \in Reader : Noted(k)[r] \in Threads
    BY <1>1, <1>2, <1>3
  <2>2. Noted(k) = [r \in Reader |-> Noted(k)[r]]
    BY DEF Noted
  <2> QED BY <2>1, <2>2
<1>5. \A r \in Reader : Noted(k)[r].pc = reader[r].pc
  BY <1>2, <1>3
<1>6. ASSUME reader' = Noted(k), NEW r \in Reader, reader[r].pc # "idle"
      PROVE  Remembers(r, reader[r].since \cup {k})
  BY <1>2, <1>3, <1>6 DEF Remembers
<1> QED BY <1>4, <1>5, <1>6

\* What every open of the console's leaves as it should be.
LEMMA ConsoleOpen ==
    ASSUME IInv, NEW k \in Key, k.scope # "demo", k.cat = "main", NEW h \in Handle,
           Open(k, FALSE, h), UNCHANGED <<phase, root, home, demo>>, phase # "down"
    PROVE  /\ Opens(k, FALSE, h) /\ Cached'
           /\ h \notin pinned /\ h \in opened' /\ lru' # <<>> /\ lru'[Len(lru')] = h
           /\ pinned' = pinned /\ pinned \subseteq opened \cap opened'
           /\ Entries(demo') \subseteq pinned'
<1>1. Opens(k, FALSE, h)
  BY OpenOpens DEF IInv, RightScope
<1>2. Cached'
  BY <1>1, OpenCaches DEF IInv, RightScope
<1>3. /\ pinned' = pinned /\ Used(lru, h, lru')
      /\ opened' = Entries(lru') \cup pinned' /\ h \in opened' /\ about'[h].key = k
      /\ h \in opened => about'[h] = about[h]
  BY <1>1 DEF Opens, OpensCache, OpensHandle
<1>4. pinned \subseteq opened /\ \A g \in pinned : about[g].key.scope = "demo"
  BY DEF IInv, Cached
<1>5. h \notin pinned
  BY <1>3, <1>4
<1>6. Entries(demo) \subseteq pinned
  BY DEF IInv, Armed
<1> QED BY <1>1, <1>2, <1>3, <1>4, <1>5, <1>6 DEF Used

\* ... with the counters of what it reads, which are never the demo's.
LEMMA ConsoleTypes ==
    ASSUME IInv, NEW k \in Key, NEW h \in Handle, Opens(k, FALSE, h),
           UNCHANGED <<phase, root, home, demo>>,
           pinned' = pinned, pinned \subseteq opened \cap opened',
           NEW hs, hs \cap pinned = {}, NEW who \in Who, Count(hs, who)
    PROVE  Types' /\ \A g \in pinned' : counter'[g] \subseteq {"demo"}
<1>1. /\ counter' \in [opened' -> Who]
      /\ \A g \in (opened' \cap opened) \ hs : counter'[g] = counter[g]
  BY CountFacts DEF IInv
<1>2. /\ lru' \in Seq(Handle) /\ pinned' \subseteq Handle /\ opened' \subseteq Handle
      /\ about' \in [opened' -> About]
  BY OpenTypes DEF IInv
<1>3. Types'
  BY <1>1, <1>2 DEF Types, IInv
<1>4. \A g \in pinned' : counter'[g] \subseteq {"demo"}
  BY <1>1 DEF IInv, Armed
<1> QED BY <1>3, <1>4

\* ... and for the threads that were at work.
LEMMA ConsoleWarms ==
    ASSUME IInv, NEW k \in Key, k.scope # "demo", k.cat = "main", NEW h \in Handle,
           Opens(k, FALSE, h), UNCHANGED <<phase, root>>, reader' = Noted(k)
    PROVE  Warm' /\ reader' \in [Reader -> Threads]
<1>1. Noted(k) \in [Reader -> Threads] /\ \A r \in Reader : Noted(k)[r].pc = reader[r].pc
  BY NotedFacts DEF IInv
<1>2. ASSUME NEW r \in Reader, reader'[r].pc # "idle" PROVE WarmIs(r)'
  <2>1. reader[r].pc # "idle"
    BY <1>1, <1>2
  <2>2. WarmIs(r)
    BY <2>1 DEF IInv, Warm, WarmIs
  <2>3. Remembers(r, reader[r].since \cup {k})
    BY <2>1, NotedFacts DEF IInv
  <2> QED BY <2>2, <2>3, OpenWarms DEF IInv
<1> QED BY <1>1, <1>2 DEF Warm, WarmIs

\* A request that keeps only the handle it opened, or reads it.
LEMMA OneHandle ==
    ASSUME NEW h \in Handle
    PROVE  /\ <<h>> \in Seq(Handle) /\ Entries(<<h>>) = {h} /\ Members(<<h>>) = {h}
           /\ <<h>> # <<>>
BY DEF Entries, Members

LEMMA TwoHandles ==
    ASSUME NEW g \in Handle, NEW h \in Handle
    PROVE  /\ Append(<<g>>, h) \in Seq(Handle)
           /\ Entries(Append(<<g>>, h)) = {g, h} /\ Members(Append(<<g>>, h)) = {g, h}
<1> DEFINE s == <<g>>
<1>1. s \in Seq(Handle) /\ Entries(s) = {g}
  BY OneHandle
<1> HIDE DEF s
<1>2. Append(s, h) \in Seq(Handle) /\ Entries(Append(s, h)) = Entries(s) \cup {h}
  BY <1>1, AppendFacts
<1>3. Members(Append(s, h)) = Entries(Append(s, h))
  BY MembersAreEntries
<1> QED BY <1>1, <1>2, <1>3 DEF s

\* While the server is up and nothing is being loaded.
LEMMA LoopKeeps ==
    ASSUME reader' \in [Reader -> Threads], loop' \in Loops, loop'.op # "load", phase' # "down",
           \A g \in pinned' : counter'[g] \subseteq {"demo"}, Entries(demo') \subseteq pinned'
    PROVE  AtWork' /\ Armed'
BY DEF AtWork, Armed

LEMMA BrowseKeeps ==
    ASSUME IInv, NEW n \in Name, Browse(n)
    PROVE  IInv'
<1> DEFINE k == ConsoleKey(n)
<1>1. k \in Key /\ k.scope # "demo" /\ k.cat = "main"
  BY KeyFacts
<1> HIDE DEF k
<1>2. /\ phase # "down" /\ UNCHANGED <<phase, root, home, demo>> /\ reader' = Noted(k)
      /\ \E h \in Handle : Open(k, FALSE, h) /\ BeginRead("browse", <<h>>)
  BY DEF Browse, Serving, k
<1>3. PICK h \in Handle : Open(k, FALSE, h) /\ BeginRead("browse", <<h>>)
  BY <1>2
<1>4. /\ Opens(k, FALSE, h) /\ Cached'
      /\ h \notin pinned /\ h \in opened' /\ lru' # <<>> /\ lru'[Len(lru')] = h
      /\ pinned' = pinned /\ pinned \subseteq opened \cap opened'
      /\ Entries(demo') \subseteq pinned'
  BY <1>1, <1>2, <1>3, ConsoleOpen
<1>5. loop' = [op |-> "browse", cat |-> "main", held |-> <<h>>] /\ Count({h}, {"loop"})
  BY <1>3, OneHandle DEF BeginRead
<1>6. Types' /\ \A g \in pinned' : counter'[g] \subseteq {"demo"}
  <2>1. {"loop"} \in Who /\ {h} \cap pinned = {}
    BY <1>4 DEF Who
  <2> QED BY <1>1, <1>2, <1>4, <1>5, <2>1, ConsoleTypes
<1>7. Warm' /\ reader' \in [Reader -> Threads]
  BY <1>1, <1>2, <1>4, ConsoleWarms
<1>8. loop' \in Loops /\ loop'.op = "browse" /\ loop'.held = <<h>>
  BY <1>5, OneHandle DEF Loops
<1>9. AtWork' /\ Armed'
  BY <1>2, <1>4, <1>6, <1>7, <1>8, LoopKeeps
<1>10. Held'
  BY <1>4, <1>8, OneHandle DEF Held
<1> QED BY <1>4, <1>6, <1>7, <1>9, <1>10 DEF IInv

LEMMA CompareLeftKeeps ==
    ASSUME IInv, NEW n \in Name, CompareLeft(n)
    PROVE  IInv'
<1> DEFINE k == CompareKey(n)
<1>1. k \in Key /\ k.scope # "demo" /\ k.cat = "main"
  BY KeyFacts
<1> HIDE DEF k
<1>2. /\ phase # "down" /\ UNCHANGED <<phase, root, home, demo>> /\ reader' = Noted(k)
      /\ \E h \in Handle : /\ Open(k, FALSE, h)
                           /\ loop' = [op |-> "pair", cat |-> "main", held |-> <<h>>]
                           /\ Count({}, {})
  BY DEF CompareLeft, Serving, k
<1>3. PICK h \in Handle : /\ Open(k, FALSE, h)
                          /\ loop' = [op |-> "pair", cat |-> "main", held |-> <<h>>]
                          /\ Count({}, {})
  BY <1>2
<1>4. /\ Opens(k, FALSE, h) /\ Cached'
      /\ h \notin pinned /\ h \in opened' /\ lru' # <<>> /\ lru'[Len(lru')] = h
      /\ pinned' = pinned /\ pinned \subseteq opened \cap opened'
      /\ Entries(demo') \subseteq pinned'
  BY <1>1, <1>2, <1>3, ConsoleOpen
<1>6. Types' /\ \A g \in pinned' : counter'[g] \subseteq {"demo"}
  <2>1. {} \in Who /\ {} \cap pinned = {}
    BY DEF Who
  <2> QED BY <1>1, <1>2, <1>3, <1>4, <2>1, ConsoleTypes
<1>7. Warm' /\ reader' \in [Reader -> Threads]
  BY <1>1, <1>2, <1>4, ConsoleWarms
<1>8. loop' \in Loops /\ loop'.op = "pair" /\ loop'.held = <<h>>
  BY <1>3, OneHandle DEF Loops
<1>9. AtWork' /\ Armed'
  BY <1>2, <1>4, <1>6, <1>7, <1>8, LoopKeeps
<1>10. Held'
  BY <1>4, <1>8, OneHandle DEF Held
<1> QED BY <1>4, <1>6, <1>7, <1>9, <1>10 DEF IInv

\* The right side cannot take the left: it is the hottest of at least two.
LEMMA CompareRightKeeps ==
    ASSUME IInv, NEW n \in Name, CompareRight(n)
    PROVE  IInv'
<1> DEFINE k == CompareKey(n)
<1>1. k \in Key /\ k.scope # "demo" /\ k.cat = "main"
  BY KeyFacts
<1> HIDE DEF k
<1>2. /\ loop.op = "pair" /\ UNCHANGED <<phase, root, home, demo>>
      /\ phase # "down" /\ lru # <<>> /\ loop.held = <<lru[Len(lru)]>>
  BY DEF CompareRight, IInv, Armed, Held, Free
<1> DEFINE g == lru[Len(lru)]
<1>3. Len(lru) \in DOMAIN lru /\ g \in Handle /\ g \in Entries(lru) /\ g \in opened
  BY <1>2, EmptySeq, LenProperties DEF IInv, Types, Cached, Entries
<1>4. g \notin pinned
  BY <1>3 DEF IInv, Cached
<1>5. \/ /\ reader' = Noted(k)
         /\ \E h \in Handle : Open(k, FALSE, h) /\ BeginRead("browse", Append(loop.held, h))
      \/ loop' = Free /\ UNCHANGED <<handles, counter, reader>>
  BY DEF CompareRight, k
<1>6. CASE reader' = Noted(k)
           /\ \E h \in Handle : Open(k, FALSE, h) /\ BeginRead("browse", Append(loop.held, h))
  <2>1. PICK h \in Handle : Open(k, FALSE, h) /\ BeginRead("browse", Append(loop.held, h))
    BY <1>6
  <2>2. /\ Opens(k, FALSE, h) /\ Cached'
        /\ h \notin pinned /\ h \in opened' /\ lru' # <<>> /\ lru'[Len(lru')] = h
        /\ pinned' = pinned /\ pinned \subseteq opened \cap opened'
        /\ Entries(demo') \subseteq pinned'
    BY <1>1, <1>2, <2>1, ConsoleOpen
  <2>3. /\ loop' = [op |-> "browse", cat |-> "main", held |-> Append(<<g>>, h)]
        /\ Count({g, h}, {"loop"})
    BY <1>2, <1>3, <2>1, TwoHandles DEF BeginRead
  <2> HIDE DEF g
  <2>4. g \in opened'
    <3> SUFFICES ASSUME g \notin opened' PROVE FALSE
      OBVIOUS
    <3>1. g = lru[1] /\ Len(lru) = MaxOpen
      BY <1>3, <2>2 DEF Opens, OpensAndCloses
    <3>2. 1 \in DOMAIN lru /\ Len(lru) # 1
      BY <1>3, <3>1, ConstantsAssumption, LenProperties DEF IInv, Types
    <3> QED BY <1>3, <3>1, <3>2 DEF IInv, Cached, NoRepeats, g
  <2>5. Types' /\ \A x \in pinned' : counter'[x] \subseteq {"demo"}
    <3>1. {"loop"} \in Who /\ {g, h} \cap pinned = {}
      BY <1>4, <2>2 DEF Who
    <3> QED BY <1>1, <1>2, <2>2, <2>3, <3>1, ConsoleTypes
  <2>6. Warm' /\ reader' \in [Reader -> Threads]
    BY <1>1, <1>2, <1>6, <2>2, ConsoleWarms
  <2>7. loop' \in Loops /\ loop'.op = "browse" /\ loop'.held = Append(<<g>>, h)
    BY <1>3, <2>3, TwoHandles DEF Loops
  <2>8. AtWork' /\ Armed'
    BY <1>2, <2>2, <2>5, <2>6, <2>7, LoopKeeps
  <2>9. Held'
    BY <1>3, <2>2, <2>4, <2>7, TwoHandles DEF Held
  <2> QED BY <2>2, <2>5, <2>6, <2>8, <2>9 DEF IInv
<1>7. CASE loop' = Free /\ UNCHANGED <<handles, counter, reader>>
  <2> HIDE DEF g
  <2>1. UNCHANGED <<lru, pinned, about, opened>>
    BY <1>7 DEF handles, opened
  <2>2. Types' /\ Cached'
    BY <1>2, <1>7, <2>1 DEF IInv, Types, Cached
  <2>3. AtWork' /\ Armed' /\ Held'
    BY <1>2, <1>7, <2>1, EmptyFacts DEF IInv, AtWork, Armed, Held, Free, Loops
  <2>4. Warm'
    BY <1>2, <1>7, <2>1 DEF IInv, Warm, Owns, Excused, Hotter, Others
  <2> QED BY <2>2, <2>3, <2>4 DEF IInv
<1> QED BY <1>5, <1>6, <1>7

\* A thread begins with the hottest handle.
LEMMA ThreadBeginKeeps ==
    ASSUME IInv, NEW r \in Reader, NEW n \in Name, ThreadBegin(r, n)
    PROVE  IInv'
<1> DEFINE k == ConsoleKey(n)
<1>1. k \in Key /\ k.scope = "console" /\ k.cat = "main"
  BY KeyFacts
<1> HIDE DEF k
<1> DEFINE new(h) == [Idle EXCEPT !.pc = "zero", !.handle = h, !.key = {k}]
<1>2. /\ phase # "down" /\ loop = Free /\ UNCHANGED <<phase, root, home, loop, demo>>
      /\ \E h \in Handle : Open(k, FALSE, h) /\ Count({}, {})
                           /\ reader' = [Noted(k) EXCEPT ![r] = new(h)]
  BY DEF ThreadBegin, Serving, k
<1>3. PICK h \in Handle : Open(k, FALSE, h) /\ Count({}, {})
                          /\ reader' = [Noted(k) EXCEPT ![r] = new(h)]
  BY <1>2
<1>4. /\ new(h) \in Threads /\ new(h).handle = h /\ new(h).key = {k} /\ new(h).since = {}
  BY <1>1 DEF Idle, Threads, NoHandle
<1> HIDE DEF new
<1>5. /\ Opens(k, FALSE, h) /\ Cached'
      /\ h \notin pinned /\ h \in opened' /\ lru' # <<>> /\ lru'[Len(lru')] = h
      /\ pinned' = pinned /\ pinned \subseteq opened \cap opened'
      /\ Entries(demo') \subseteq pinned'
  BY <1>1, <1>2, <1>3, ConsoleOpen
<1>6. Types' /\ \A g \in pinned' : counter'[g] \subseteq {"demo"}
  <2>1. {} \in Who /\ {} \cap pinned = {}
    BY DEF Who
  <2> QED BY <1>1, <1>2, <1>3, <1>5, <2>1, ConsoleTypes
<1>7. Noted(k) \in [Reader -> Threads] /\ \A x \in Reader : Noted(k)[x].pc = reader[x].pc
  BY <1>1, NotedFacts DEF IInv
<1>8. /\ reader' \in [Reader -> Threads] /\ reader'[r] = new(h)
      /\ \A x \in Reader \ {r} : reader'[x] = Noted(k)[x]
  BY <1>3, <1>4, <1>7
<1>9. AtWork' /\ Armed' /\ Held'
  <2>1. UNCHANGED <<loop, phase>> /\ loop.op = "free" /\ loop.held = <<>>
    BY <1>2 DEF Free
  <2>2. AtWork' /\ Armed'
    BY <1>2, <1>5, <1>6, <1>8, <2>1, LoopKeeps DEF IInv, AtWork
  <2> QED BY <2>1, <2>2, EmptyFacts DEF Held
<1>10. WarmIs(r)'
  <2>1. reader'[r].handle = h /\ reader'[r].key = {k} /\ reader'[r].since = {}
    BY <1>4, <1>8
  <2>2. Owns(r)'
    BY <1>1, <1>5, <2>1 DEF Owns, Opens, OpensHandle
  <2>3. Excused(r)'
    BY <1>5, <2>1 DEF Excused
  <2>4. Hotter(r)'
    <3> SUFFICES ASSUME NEW p \in DOMAIN lru', NEW q \in DOMAIN lru', p < q, lru'[p] = h
                 PROVE  FALSE
      BY <2>1 DEF Hotter
    <3>1. lru' \in Seq(Handle) /\ NoRepeats(lru')
      BY <1>5, <1>6 DEF Types, Cached
    <3>2. DOMAIN lru' = 1 .. Len(lru') /\ Len(lru') \in Nat
      BY <3>1, LenProperties
    <3>3. Len(lru') \in DOMAIN lru'
      BY <1>5, <3>1, <3>2
    <3>4. p = Len(lru')
      BY <1>5, <3>1, <3>3 DEF NoRepeats
    <3> QED BY <3>2, <3>4
  <2> QED BY <2>1, <2>2, <2>3, <2>4, FS_EmptySet DEF WarmIs
<1>11. ASSUME NEW x \in Reader, x # r, reader'[x].pc # "idle" PROVE WarmIs(x)'
  <2>1. reader[x].pc # "idle" /\ reader'[x] = Noted(k)[x]
    BY <1>7, <1>8, <1>11
  <2>2. WarmIs(x)
    BY <2>1 DEF IInv, Warm, WarmIs
  <2>3. /\ Noted(k)[x].handle = reader[x].handle /\ Noted(k)[x].key = reader[x].key
        /\ Noted(k)[x].since = reader[x].since \cup {k}
        /\ Noted(k)[x].moved = reader[x].moved
    BY <2>1 DEF Noted, IInv, AtWork, Threads
  <2>4. Remembers(x, reader[x].since \cup {k})
    BY <2>1, <2>3 DEF Remembers
  <2> QED BY <1>1, <1>2, <1>5, <2>2, <2>4, OpenWarms DEF IInv
<1>12. Warm'
  BY <1>10, <1>11 DEF Warm, WarmIs
<1> QED BY <1>5, <1>6, <1>9, <1>12 DEF IInv

--------------------------------------------------------------------------
(* demo.load. *)

\* An open that pins: the newcomer has counted nothing, and nothing is closed.
LEMMA PinnedOpen ==
    ASSUME IInv, loop.op = "load", NEW k \in Key, k.scope = "demo", NEW h \in Handle,
           Open(k, TRUE, h), UNCHANGED <<phase, root, home, reader>>, Count({}, {}),
           demo' \in Seq(Handle)
    PROVE  /\ Types' /\ Cached' /\ Warm' /\ phase # "down"
           /\ h \in pinned' /\ pinned \subseteq pinned' /\ pinned' \subseteq opened'
           /\ \A g \in pinned' : counter'[g] \subseteq {"demo"}
<1>1. phase # "down"
  BY DEF IInv, Armed, Free
<1>2. Opens(k, TRUE, h)
  BY OpenOpens DEF IInv, RightScope
<1>3. Cached'
  BY <1>2, OpenCaches DEF IInv, RightScope
<1>4. /\ pinned' = pinned \cup {h} /\ opened' = Entries(lru') \cup pinned'
      /\ about'[h].key = k /\ (h \in opened => about'[h] = about[h])
  BY <1>2 DEF Opens, OpensCache, OpensHandle
<1>5. h \in opened => h \in pinned
  BY <1>4 DEF IInv, Cached
<1>6. {} \in Who
  BY DEF Who
<1>7. /\ counter' \in [opened' -> Who]
      /\ \A g \in opened' \cap opened : counter'[g] = counter[g]
      /\ \A g \in opened' \ opened : counter'[g] = {}
  BY <1>6, CountFacts DEF IInv
<1>8. Types'
  BY <1>2, <1>7, OpenTypes DEF IInv, Types
<1>9. \A g \in pinned' : counter'[g] \subseteq {"demo"}
  <2>1. \A g \in pinned : g \in opened /\ g \in opened' /\ counter[g] \subseteq {"demo"}
    BY <1>4 DEF IInv, Cached, Armed
  <2> QED BY <1>4, <1>5, <1>7, <2>1
<1>10. Warm'
  <2> SUFFICES ASSUME NEW r \in Reader, reader'[r].pc # "idle" PROVE WarmIs(r)'
    BY DEF Warm, WarmIs
  <2>1. WarmIs(r) /\ Remembers(r, reader[r].since)
    BY DEF IInv, Warm, WarmIs, Remembers
  <2> QED BY <1>2, <2>1, PinWarms DEF IInv
<1> QED BY <1>1, <1>3, <1>4, <1>8, <1>9, <1>10

LEMMA LoadMomentsKeeps ==
    ASSUME IInv, LoadMoments
    PROVE  IInv'
<1> DEFINE k == DemoKey(loop.cat, "moments")
<1>1. k \in Key /\ k.scope = "demo"
  BY KeyFacts, ConstantsAssumption DEF IInv, AtWork, Loops, DemoTables
<1> HIDE DEF k
<1>2. PICK h \in Handle : /\ Open(k, TRUE, h) /\ loop' = [loop EXCEPT !.held = <<h>>]
                          /\ Count({}, {})
  BY DEF LoadMoments, k
<1>3. /\ loop.op = "load" /\ UNCHANGED <<phase, root, home, reader, demo>>
      /\ demo = <<>> /\ demo' \in Seq(Handle)
  BY DEF LoadMoments, IInv, Armed, Types
<1>4. /\ Types' /\ Cached' /\ Warm' /\ phase # "down"
      /\ h \in pinned' /\ pinned' \subseteq opened'
      /\ \A g \in pinned' : counter'[g] \subseteq {"demo"}
  BY <1>1, <1>2, <1>3, PinnedOpen
<1>5. loop' \in Loops /\ loop'.op = "load" /\ loop'.held = <<h>>
  BY <1>2, <1>3, OneHandle DEF IInv, AtWork, Loops
<1>6. AtWork' /\ Armed' /\ Held'
  BY <1>3, <1>4, <1>5, OneHandle, EmptyFacts DEF IInv, AtWork, Armed, Held
<1> QED BY <1>4, <1>6 DEF IInv

LEMMA LoadSegmentsKeeps ==
    ASSUME IInv, LoadSegments
    PROVE  IInv'
<1> DEFINE k == DemoKey(loop.cat, "segments")
<1>1. k \in Key /\ k.scope = "demo"
  BY KeyFacts, ConstantsAssumption DEF IInv, AtWork, Loops, DemoTables
<1> HIDE DEF k
<1>2. PICK h \in Handle :
         /\ Open(k, TRUE, h)
         /\ loop' = [loop EXCEPT !.op = "columns", !.held = Append(@, h)]
         /\ demo' = loop'.held /\ Count({}, {})
  BY DEF LoadSegments, k
<1>3. /\ loop.op = "load" /\ UNCHANGED <<phase, root, home, reader>>
      /\ Entries(loop.held) \subseteq pinned /\ loop.held \in Seq(Handle)
  BY DEF LoadSegments, IInv, Armed, AtWork, Loops
<1>4. /\ Append(loop.held, h) \in Seq(Handle)
      /\ Entries(Append(loop.held, h)) = Entries(loop.held) \cup {h}
  BY <1>3, AppendFacts
<1>5. loop' \in Loops /\ loop'.op = "columns" /\ loop'.held = Append(loop.held, h)
  BY <1>2, <1>4 DEF IInv, AtWork, Loops
<1>6. /\ Types' /\ Cached' /\ Warm' /\ phase # "down"
      /\ h \in pinned' /\ pinned \subseteq pinned' /\ pinned' \subseteq opened'
      /\ \A g \in pinned' : counter'[g] \subseteq {"demo"}
  BY <1>1, <1>2, <1>3, <1>4, <1>5, PinnedOpen
<1>7. Entries(demo') \subseteq pinned'
  BY <1>2, <1>3, <1>4, <1>5, <1>6
<1>8. AtWork' /\ Armed'
  BY <1>3, <1>5, <1>6, <1>7, LoopKeeps DEF IInv, AtWork
<1>9. Held'
  BY <1>2, <1>5, <1>6, <1>7 DEF Held
<1> QED BY <1>6, <1>8, <1>9 DEF IInv

\* Whatever is closed of the pinned, no thread had it and the order is without it.
LEMMA UnpinWarms ==
    ASSUME IInv, NEW gone \in SUBSET pinned, about' = Without(about, gone),
           UNCHANGED <<lru, reader>>, phase # "down"
    PROVE  Warm'
<1>1. opened' = opened \ gone /\ \A g \in opened' : about'[g] = about[g]
  BY DEF Without, opened
<1> SUFFICES ASSUME NEW r \in Reader, reader'[r].pc # "idle" PROVE WarmIs(r)'
  BY DEF Warm, WarmIs
<1>2. WarmIs(r) /\ reader'[r] = reader[r] /\ UNCHANGED Others(r)
  BY DEF IInv, Warm, WarmIs, Others
<1>3. Owns(r)'
  BY <1>1, <1>2 DEF Owns, WarmIs
<1>4. reader[r].handle \notin gone
  <2>1. reader[r].handle \in opened => about[reader[r].handle].key.scope = "console"
    BY <1>2 DEF WarmIs, Owns
  <2>2. \A g \in gone : g \in opened /\ about[g].key.scope = "demo"
    BY DEF IInv, Cached
  <2> QED BY <2>1, <2>2
<1>5. Excused(r)'
  BY <1>1, <1>2, <1>4 DEF Excused, WarmIs
<1>6. Hotter(r)'
  <2>1. \A p \in DOMAIN lru : lru[p] \in opened' /\ about'[lru[p]] = about[lru[p]]
    <3>1. \A p \in DOMAIN lru : lru[p] \in Entries(lru)
      BY DEF Entries
    <3>2. \A g \in Entries(lru) : g \in opened /\ g \notin gone
      BY DEF IInv, Cached
    <3> QED BY <1>1, <3>1, <3>2
  <2> QED BY <1>2, <2>1 DEF Hotter, WarmIs
<1> QED BY <1>2, <1>3, <1>5, <1>6 DEF WarmIs

LEMMA LoadFailsKeeps ==
    ASSUME IInv, LoadFails
    PROVE  IInv'
<1>1. /\ loop.op = "load" /\ UNCHANGED <<root, home, lru, reader, demo>> /\ Count({}, {})
      /\ demo = <<>> /\ phase # "down" /\ Entries(demo) = {}
  BY EmptyFacts DEF LoadFails, IInv, Armed, Free
<1>2. /\ counter' \in [opened' -> Who]
      /\ \A g \in opened' \cap opened : counter'[g] = counter[g]
  <2>1. {} \in Who
    BY DEF Who
  <2> QED BY <1>1, <2>1, CountFacts DEF IInv
<1>3. CASE /\ loop' = [op |-> "load", cat |-> "home", held |-> <<>>]
           /\ UNCHANGED <<phase, pinned, about>>
  <2>1. opened' = opened
    BY <1>3 DEF opened
  <2>2. Types' /\ Cached'
    BY <1>1, <1>2, <1>3, <2>1 DEF IInv, Types, Cached
  <2>3. loop' \in Loops /\ loop'.op = "load" /\ loop'.held = <<>>
    BY <1>3 DEF Loops
  <2>4. AtWork' /\ Held'
    BY <1>1, <2>3, EmptyFacts DEF IInv, AtWork, Held
  <2>5. Armed'
    BY <1>1, <1>2, <1>3, <2>1, <2>3, EmptyFacts DEF IInv, Armed, Cached
  <2>6. about' = Without(about, {})
    BY <1>3 DEF Without, IInv, Types
  <2>7. Warm'
    BY <1>1, <2>6, UnpinWarms
  <2> QED BY <2>2, <2>4, <2>5, <2>7 DEF IInv
<1> DEFINE own == {h \in pinned : about[h].key.cat = "home"}
<1>4. CASE /\ loop' = Free /\ phase' = "up"
           /\ about' = Without(about, own) /\ pinned' = pinned \ own
  <2> HIDE DEF own
  <2>1. own \subseteq pinned
    BY DEF own
  <2>2. /\ opened' = opened \ own /\ \A g \in opened' : about'[g] = about[g]
        /\ about' = [g \in opened' |-> about[g]]
    BY <1>4 DEF Without, opened
  <2>3. Types'
    <3>1. about' \in [opened' -> About]
      BY <2>2 DEF IInv, Types
    <3> QED BY <1>1, <1>2, <1>4, <2>2, <3>1 DEF IInv, Types
  <2>4. Cached'
    <3>1. Entries(lru) \cap own = {}
      BY <2>1 DEF IInv, Cached
    <3> QED BY <1>1, <1>4, <2>1, <2>2, <3>1 DEF IInv, Cached
  <2>5. loop' \in Loops /\ loop'.op = "free" /\ loop'.held = <<>>
    BY <1>4 DEF Free, Loops
  <2>6. \A g \in pinned' : counter'[g] \subseteq {"demo"}
    BY <1>2, <1>4, <2>2 DEF IInv, Armed, Cached
  <2>7. AtWork' /\ Armed' /\ Held'
    <3>1. AtWork' /\ Armed'
      BY <1>1, <1>4, <2>5, <2>6, LoopKeeps DEF IInv, AtWork
    <3> QED BY <2>5, <3>1, EmptyFacts DEF Held
  <2>8. Warm'
    BY <1>1, <1>4, <2>1, UnpinWarms
  <2> QED BY <2>3, <2>4, <2>7, <2>8 DEF IInv
<1> QED BY <1>3, <1>4 DEF LoadFails

LEMMA LoadColumnsKeeps ==
    ASSUME IInv, LoadColumns
    PROVE  IInv'
<1>1. /\ loop.op = "columns" /\ loop' = Free
      /\ UNCHANGED <<root, home, lru, pinned, about, opened, reader, demo>>
  BY DEF LoadColumns, handles, opened
<1>2. phase # "down" /\ phase' \in {"boot", "up", "down"}
  BY <1>1 DEF LoadColumns, IInv, Armed, Free, Types
<1>3. /\ counter' = [h \in opened |-> IF h \in Members(demo) THEN counter[h] \cup {"demo"}
                                                             ELSE counter[h]]
  BY DEF LoadColumns
<1>4. /\ counter' \in [opened' -> Who]
      /\ \A g \in opened : counter[g] \subseteq {"demo"} => counter'[g] \subseteq {"demo"}
  BY <1>1, <1>3 DEF IInv, Types, Who
<1>5. Types' /\ Cached'
  BY <1>1, <1>2, <1>4 DEF IInv, Types, Cached
<1>6. loop' \in Loops /\ loop'.op = "free" /\ loop'.held = <<>>
  BY <1>1 DEF Free, Loops
<1>7. \A g \in pinned' : counter'[g] \subseteq {"demo"}
  BY <1>1, <1>4 DEF IInv, Armed, Cached
<1>8. Entries(demo') \subseteq pinned'
  BY <1>1, <1>2 DEF IInv, Armed
<1>9. AtWork' /\ Armed' /\ Held'
  BY <1>1, <1>6, <1>7, <1>8, EmptyFacts DEF IInv, AtWork, Armed, Held
<1>10. Warm'
  <2> SUFFICES ASSUME NEW r \in Reader, reader'[r].pc # "idle" PROVE WarmIs(r)'
    BY DEF Warm, WarmIs
  <2>1. WarmIs(r) /\ Remembers(r, reader[r].since)
    BY <1>1 DEF IInv, Warm, WarmIs, Remembers
  <2> QED BY <1>1, <1>2, <2>1, StayWarm
<1> QED BY <1>5, <1>9, <1>10 DEF IInv

--------------------------------------------------------------------------
(* Reads on the loop, the switch of databases and the shutdown. *)

\* A read of the loop's: it opens and closes nothing, and the threads go on.
LEMMA ReadKeeps ==
    ASSUME IInv, UNCHANGED <<phase, root, home, handles, reader, demo>>,
           phase # "down", loop' \in Loops, loop'.op \notin {"load", "pair"},
           Entries(loop'.held) \subseteq opened,
           NEW hs, NEW who \in Who, who \subseteq {"demo"} \/ hs \cap pinned = {},
           Count(hs, who)
    PROVE  IInv'
<1>1. UNCHANGED <<lru, pinned, about, opened>>
  BY DEF handles, opened
<1>2. /\ counter' \in [opened' -> Who]
      /\ \A g \in opened' \cap hs : counter'[g] = who
      /\ \A g \in (opened' \cap opened) \ hs : counter'[g] = counter[g]
  BY CountFacts DEF IInv
<1>3. Types' /\ Cached'
  BY <1>1, <1>2 DEF IInv, Types, Cached
<1>4. \A g \in pinned' : counter'[g] \subseteq {"demo"}
  BY <1>1, <1>2 DEF IInv, Armed, Cached
<1>5. Entries(demo') \subseteq pinned'
  BY <1>1 DEF IInv, Armed
<1>6. AtWork' /\ Armed'
  BY <1>4, <1>5, LoopKeeps DEF IInv, AtWork
<1>7. Held'
  BY <1>1 DEF Held
<1>8. Warm'
  <2> SUFFICES ASSUME NEW r \in Reader, reader'[r].pc # "idle" PROVE WarmIs(r)'
    BY DEF Warm, WarmIs
  <2>1. WarmIs(r) /\ Remembers(r, reader[r].since)
    BY DEF IInv, Warm, WarmIs, Remembers
  <2> QED BY <1>1, <2>1, StayWarm
<1> QED BY <1>3, <1>6, <1>7, <1>8 DEF IInv

LEMMA DemoReadKeeps ==
    ASSUME IInv, DemoRead
    PROVE  IInv'
<1>1. /\ phase # "down" /\ UNCHANGED <<phase, root, home, handles, reader, demo>>
      /\ loop' = [op |-> "demo", cat |-> "main", held |-> demo]
      /\ Count(Members(demo), {"demo"})
  BY DEF DemoRead, BeginRead, Serving
<1>2. Entries(demo) \subseteq opened
  BY <1>1 DEF IInv, Armed, Cached
<1>3. loop' \in Loops /\ loop'.op = "demo" /\ loop'.held = demo
  BY <1>1 DEF Loops, IInv, Types
<1>4. {"demo"} \in Who
  BY DEF Who
<1> QED BY <1>1, <1>2, <1>3, <1>4, ReadKeeps

LEMMA EndReadKeeps ==
    ASSUME IInv, EndRead
    PROVE  IInv'
<1>1. /\ UNCHANGED <<phase, root, home, handles, reader, demo>> /\ loop' = Free
      /\ Count(Members(loop.held), {})
  BY DEF EndRead
<1>2. phase # "down"
  BY DEF EndRead, IInv, Armed, Free
<1>3. loop' \in Loops /\ loop'.op = "free" /\ loop'.held = <<>>
  BY <1>1 DEF Free, Loops
<1>4. {} \in Who
  BY DEF Who
<1> QED BY <1>1, <1>2, <1>3, <1>4, ReadKeeps, EmptyFacts

\* What is closed with the caches a thread has lost for a reason that is written down.
LEMMA ClosedWarm ==
    ASSUME IInv, NEW gone, about' = Without(about, gone), lru' = <<>>,
           NEW r \in Reader, reader[r].pc # "idle", Remembers(r, reader[r].since),
           reader'[r].moved \/ phase' = "down"
    PROVE  WarmIs(r)'
<1>1. opened' \subseteq opened /\ \A g \in opened' : about'[g] = about[g]
  BY DEF Without, opened
<1>2. WarmIs(r)
  BY DEF IInv, Warm, WarmIs
<1>3. Owns(r)'
  BY <1>1, <1>2 DEF Owns, WarmIs, Remembers
<1>4. Excused(r)'
  BY DEF Excused
<1>5. Hotter(r)'
  <2>1. DOMAIN lru' = {}
    OBVIOUS
  <2> QED BY <2>1 DEF Hotter
<1> QED BY <1>2, <1>3, <1>4, <1>5 DEF WarmIs, Remembers

LEMMA ApplyRootKeeps ==
    ASSUME IInv, NEW to \in Root, ApplyRoot(to)
    PROVE  IInv'
<1>1. /\ phase # "down" /\ loop = Free /\ UNCHANGED <<phase, home, demo, pinned>>
      /\ root' = to /\ lru' = <<>> /\ about' = Without(about, Entries(lru))
      /\ loop' = IF demo = <<>> THEN [Free EXCEPT !.op = "load"] ELSE Free
      /\ reader' = [x \in Reader |-> [reader[x] EXCEPT !.moved = @ \/ reader[x].pc # "idle"]]
      /\ Count({}, {})
  BY MembersAreEntries DEF ApplyRoot, Serving, Rebind
<1>2. /\ opened' = pinned /\ \A g \in opened' : about'[g] = about[g]
      /\ about' = [g \in opened' |-> about[g]]
  <2>1. /\ opened' = opened \ Entries(lru)
        /\ about' = [g \in opened' |-> about[g]]
    BY <1>1 DEF Without, opened
  <2>2. pinned \cap Entries(lru) = {} /\ opened = Entries(lru) \cup pinned
    BY DEF IInv, Cached
  <2> QED BY <2>1, <2>2
<1>3. pinned \subseteq opened
  BY DEF IInv, Cached
<1>4. /\ counter' \in [opened' -> Who]
      /\ \A g \in opened' : counter'[g] = counter[g]
  <2>1. {} \in Who
    BY DEF Who
  <2> QED BY <1>1, <1>2, <1>3, <2>1, CountFacts DEF IInv
<1>5. Types'
  <2>1. about' \in [opened' -> About]
    BY <1>2, <1>3 DEF IInv, Types
  <2>2. lru' \in Seq(Handle)
    BY <1>1
  <2> QED BY <1>1, <1>2, <1>4, <2>1, <2>2 DEF IInv, Types
<1>6. Cached'
  <2>1. Entries(lru') = {} /\ Len(lru') = 0 /\ NoRepeats(lru')
    BY <1>1, EmptyFacts DEF NoRepeats
  <2>2. opened' = Entries(lru') \cup pinned' /\ Len(lru') <= MaxOpen
    BY <1>1, <1>2, <2>1, ConstantsAssumption
  <2>3. \A g, h \in opened' : about'[g].key = about'[h].key => g = h
    BY <1>2, <1>3 DEF IInv, Cached
  <2>4. \A h \in pinned' : about'[h].key.scope = "demo"
    BY <1>1, <1>2 DEF IInv, Cached
  <2> QED BY <2>1, <2>2, <2>3, <2>4 DEF Cached
<1>7. /\ loop' \in Loops /\ loop'.op \in {"free", "load"} /\ loop'.held = <<>>
      /\ loop'.op = "load" => demo = <<>>
  <2>1. CASE demo = <<>>
    <3>1. loop' = [op |-> "load", cat |-> "main", held |-> <<>>]
      BY <1>1, <2>1 DEF Free
    <3> QED BY <2>1, <3>1 DEF Loops
  <2>2. CASE demo # <<>>
    <3>1. loop' = [op |-> "free", cat |-> "main", held |-> <<>>]
      BY <1>1, <2>2 DEF Free
    <3> QED BY <3>1 DEF Loops
  <2> QED BY <2>1, <2>2
<1>8. ASSUME NEW r \in Reader
      PROVE  /\ reader'[r] \in Threads /\ reader'[r].pc = reader[r].pc
             /\ Remembers(r, reader[r].since) /\ (reader[r].pc # "idle" => reader'[r].moved)
  <2> DEFINE t == [reader[r] EXCEPT !.moved = @ \/ reader[r].pc # "idle"]
  <2>1. reader[r] \in Threads
    BY DEF IInv, AtWork
  <2>2. /\ t \in Threads /\ t.pc = reader[r].pc /\ t.handle = reader[r].handle
        /\ t.key = reader[r].key /\ t.since = reader[r].since
    BY <2>1 DEF Threads
  <2>3. t.moved = (reader[r].moved \/ reader[r].pc # "idle")
    BY <2>1 DEF Threads
  <2>4. reader'[r] = t
    BY <1>1
  <2> HIDE DEF t
  <2> QED BY <2>2, <2>3, <2>4 DEF Remembers
<1>9. reader' \in [Reader -> Threads]
  <2>1. reader' = [r \in Reader |-> reader'[r]]
    BY <1>1
  <2> QED BY <1>8, <2>1
<1>10. AtWork' /\ Armed' /\ Held'
  <2>1. \A g \in pinned' : counter'[g] \subseteq {"demo"}
    BY <1>1, <1>2, <1>4 DEF IInv, Armed
  <2>2. Entries(demo') \subseteq pinned'
    BY <1>1 DEF IInv, Armed
  <2>3. AtWork'
    BY <1>7, <1>9 DEF AtWork
  <2>4. Armed'
    BY <1>1, <1>7, <2>1, <2>2, EmptyFacts DEF Armed
  <2> QED BY <1>7, <2>3, <2>4, EmptyFacts DEF Held
<1>11. Warm'
  <2> SUFFICES ASSUME NEW r \in Reader, reader'[r].pc # "idle" PROVE WarmIs(r)'
    BY DEF Warm, WarmIs
  <2> QED BY <1>1, <1>8, ClosedWarm
<1> QED BY <1>5, <1>6, <1>10, <1>11 DEF IInv

LEMMA ShutdownKeeps ==
    ASSUME IInv, Shutdown
    PROVE  IInv'
<1>1. /\ loop = Free /\ UNCHANGED <<root, home, loop, reader, demo>> /\ phase' = "down"
      /\ about' = Without(about, Entries(lru) \cup pinned) /\ lru' = <<>> /\ pinned' = {}
      /\ Count({}, {})
  BY MembersAreEntries DEF Shutdown, Serving, CloseAll
<1>2. opened' = {} /\ about' \in [opened' -> About]
  BY <1>1 DEF Without, opened, IInv, Cached
<1>3. counter' \in [opened' -> Who]
  <2>1. {} \in Who
    BY DEF Who
  <2> QED BY <1>1, <2>1, CountFacts DEF IInv
<1>4. Types'
  <2>1. lru' \in Seq(Handle)
    BY <1>1
  <2> QED BY <1>1, <1>2, <1>3, <2>1 DEF IInv, Types
<1>5. Cached'
  <2>1. Entries(lru') = {} /\ Len(lru') = 0 /\ NoRepeats(lru')
    BY <1>1, EmptyFacts DEF NoRepeats
  <2> QED BY <1>1, <1>2, <2>1, ConstantsAssumption DEF Cached
<1>6. AtWork' /\ Armed' /\ Held'
  <2>1. loop.op = "free" /\ loop.held = <<>>
    BY <1>1 DEF Free
  <2> QED BY <1>1, <1>2, <2>1, EmptyFacts DEF IInv, AtWork, Armed, Held
<1>7. Warm'
  <2> SUFFICES ASSUME NEW r \in Reader, reader'[r].pc # "idle" PROVE WarmIs(r)'
    BY DEF Warm, WarmIs
  <2>1. reader[r].pc # "idle" /\ Remembers(r, reader[r].since)
    BY <1>1 DEF Remembers
  <2> QED BY <1>1, <2>1, ClosedWarm
<1> QED BY <1>4, <1>5, <1>6, <1>7 DEF IInv

--------------------------------------------------------------------------
(* The threads' own steps. *)

\* A thread's step: its counter, and its own record, which goes on or is put away.
LEMMA ThreadKeeps ==
    ASSUME IInv, UNCHANGED <<phase, root, home, handles, loop, demo>>,
           counter' \in [opened -> Who], \A g \in pinned : counter'[g] \subseteq {"demo"},
           NEW r \in Reader, NEW t \in Threads, reader' = [reader EXCEPT ![r] = t],
           t.pc = "idle" \/ (reader[r].pc # "idle" /\ Remembers(r, reader[r].since))
    PROVE  IInv'
<1>1. UNCHANGED <<lru, pinned, about, opened>>
  BY DEF handles, opened
<1>2. Types' /\ Cached'
  BY <1>1 DEF IInv, Types, Cached
<1>3. reader' \in [Reader -> Threads] /\ reader'[r] = t
      /\ \A x \in Reader \ {r} : reader'[x] = reader[x]
  BY DEF IInv, AtWork
<1>4. AtWork' /\ Armed' /\ Held'
  BY <1>1, <1>3 DEF IInv, AtWork, Armed, Held
<1>5. Warm'
  <2> SUFFICES ASSUME NEW x \in Reader, reader'[x].pc # "idle" PROVE WarmIs(x)'
    BY DEF Warm, WarmIs
  <2>1. reader[x].pc # "idle" /\ Remembers(x, reader[x].since)
    BY <1>3 DEF Remembers
  <2>2. WarmIs(x)
    BY <2>1 DEF IInv, Warm, WarmIs
  <2> QED BY <1>1, <2>1, <2>2, StayWarm
<1> QED BY <1>2, <1>4, <1>5 DEF IInv

\* While a thread is at work, its handle is none of the demo's.
LEMMA ThreadsHandle ==
    ASSUME IInv, NEW r \in Reader, reader[r].pc # "idle"
    PROVE  reader[r].handle \notin pinned
<1>1. reader[r].handle \in opened => about[reader[r].handle].key.scope = "console"
  BY DEF IInv, Warm, Owns
<1> QED BY <1>1 DEF IInv, Cached

LEMMA ThreadStepKeeps ==
    ASSUME IInv, NEW r \in Reader, Thread(r)
    PROVE  IInv'
<1>1. reader[r] \in Threads /\ reader \in [Reader -> Threads] /\ Idle \in Threads
      /\ Idle.pc = "idle" /\ counter \in [opened -> Who]
      /\ \A g \in pinned : counter[g] \subseteq {"demo"} /\ g \in opened
  BY DEF IInv, AtWork, Types, Armed, Cached, Idle, Threads, NoHandle
<1> DEFINE to(pc) == [reader[r] EXCEPT !.pc = pc]
<1>2. \A pc \in {"read", "collect"} :
         /\ to(pc) \in Threads
         /\ to(pc).handle = reader[r].handle /\ to(pc).key = reader[r].key
         /\ to(pc).since = reader[r].since /\ to(pc).moved = reader[r].moved
  BY <1>1 DEF Threads
<1>3. \A pc : [reader EXCEPT ![r].pc = pc] = [reader EXCEPT ![r] = to(pc)]
  BY <1>1
<1>4. \A t : [reader EXCEPT ![r] = t][r] = t
  BY <1>1
<1> HIDE DEF to
<1>5. CASE ThreadZero(r)
  <2>1. /\ reader[r].pc # "idle" /\ UNCHANGED <<phase, root, home, handles, loop, demo>>
        /\ counter' = [counter EXCEPT ![reader[r].handle] = {}]
        /\ reader' = [reader EXCEPT ![r] = to("read")]
    BY <1>3, <1>5 DEF ThreadZero
  <2>2. counter' \in [opened -> Who] /\ \A g \in pinned : counter'[g] \subseteq {"demo"}
    BY <1>1, <2>1 DEF Who
  <2>3. Remembers(r, reader[r].since)
    BY <1>2, <1>4, <2>1 DEF Remembers
  <2> QED BY <1>2, <2>1, <2>2, <2>3, ThreadKeeps
<1>6. CASE ThreadRead(r)
  <2>1. /\ reader[r].pc # "idle" /\ UNCHANGED <<phase, root, home, handles, loop, demo>>
        /\ counter' = [h \in opened |-> IF h = reader[r].handle THEN counter[h] \cup {r}
                                                                ELSE counter[h]]
        /\ reader' = [reader EXCEPT ![r] = to("collect")]
    BY <1>3, <1>6 DEF ThreadRead
  <2>2. reader[r].handle \notin pinned
    BY <2>1, ThreadsHandle
  <2>3. counter' \in [opened -> Who] /\ \A g \in pinned : counter'[g] \subseteq {"demo"}
    BY <1>1, <2>1, <2>2 DEF Who
  <2>4. Remembers(r, reader[r].since)
    BY <1>2, <1>4, <2>1 DEF Remembers
  <2> QED BY <1>2, <2>1, <2>3, <2>4, ThreadKeeps
<1>7. CASE ThreadCollect(r)
  <2>1. /\ UNCHANGED <<phase, root, home, handles, loop, demo>>
        /\ counter' = [counter EXCEPT ![reader[r].handle] = {}]
        /\ reader' = [reader EXCEPT ![r] = Idle]
    BY <1>7 DEF ThreadCollect
  <2>2. counter' \in [opened -> Who] /\ \A g \in pinned : counter'[g] \subseteq {"demo"}
    BY <1>1, <2>1 DEF Who
  <2> QED BY <1>1, <2>1, <2>2, ThreadKeeps
<1>8. CASE ThreadRaises(r)
  <2>1. /\ UNCHANGED <<phase, root, home, handles, counter, loop, demo>>
        /\ reader' = [reader EXCEPT ![r] = Idle]
    BY <1>8 DEF ThreadRaises
  <2> QED BY <1>1, <2>1, ThreadKeeps
<1> QED BY <1>5, <1>6, <1>7, <1>8 DEF Thread

--------------------------------------------------------------------------
(* The invariant, and what follows from it. *)

LEMMA NextIInv == IInv /\ [Next]_vars => IInv'
<1> SUFFICES ASSUME IInv, [Next]_vars PROVE IInv'
  OBVIOUS
<1>1. CASE LoopStep
  BY <1>1, EndReadKeeps, LoadMomentsKeeps, LoadSegmentsKeeps, LoadFailsKeeps,
     LoadColumnsKeeps, CompareRightKeeps DEF LoopStep
<1>2. CASE Request
  BY <1>2, DemoReadKeeps, ShutdownKeeps, BrowseKeeps, CompareLeftKeeps, ApplyRootKeeps,
     ThreadBeginKeeps DEF Request
<1>3. CASE \E r \in Reader : Thread(r)
  BY <1>3, ThreadStepKeeps
<1>4. CASE UNCHANGED vars
  <2>1. /\ UNCHANGED <<phase, root, home, lru, pinned, about, counter, loop, reader, demo>>
        /\ UNCHANGED opened
    BY <1>4 DEF vars, opened
  <2>2. Types' /\ Cached' /\ AtWork' /\ Armed' /\ Held'
    BY <2>1 DEF IInv, Types, Cached, AtWork, Armed, Held
  <2>3. Warm'
    <3> SUFFICES ASSUME NEW r \in Reader, reader'[r].pc # "idle" PROVE WarmIs(r)'
      BY DEF Warm, WarmIs
    <3>1. WarmIs(r) /\ Remembers(r, reader[r].since)
      BY <2>1 DEF IInv, Warm, WarmIs, Remembers
    <3> QED BY <2>1, <3>1, StayWarm
  <2> QED BY <2>2, <2>3 DEF IInv
<1> QED BY <1>1, <1>2, <1>3, <1>4 DEF Next

\* The inductive invariant holds of every behaviour.
THEOREM Inductive == Spec => []IInv
<1>1. Init => IInv
  BY InitIInv
<1>2. IInv /\ [Next]_vars => IInv'
  BY NextIInv
<1> QED BY <1>1, <1>2, PTL DEF Spec

\* Every open dataset is one the catalog will close, at most max_open of them unpinned, no
\* key has two, and the console reads nothing of the database before (Catalog.open,
\* rebind, close_all).
THEOREM Sound == Spec => []HandlesAreSound
<1>1. IInv => HandlesAreSound
  <2> SUFFICES ASSUME IInv PROVE HandlesAreSound
    OBVIOUS
  <2>1. Len(lru) = Cardinality(Members(lru))
    BY EntriesCount, MembersAreEntries DEF IInv, Types, Cached
  <2>2. TypeOK
    BY <2>1 DEF IInv, Types, AtWork, TypeOK, About, Who, Loops, Threads
  <2> QED BY <2>2, MembersAreEntries DEF IInv, Cached, HandlesAreSound
<1> QED BY <1>1, Inductive, PTL

\* A thread loses its handle only to a switch of databases, the shutdown, or after
\* max_open other tables were used, and nothing takes what a request on the loop holds
\* (the popitem at the end of Catalog.open, and open_pair).
THEOREM ColdOnly == Spec => []OnlyColdHandlesAreTaken
<1>1. IInv => OnlyColdHandlesAreTaken
  BY MembersAreEntries
     DEF IInv, Warm, Excused, Others, Held, OnlyColdHandlesAreTaken
<1> QED BY <1>1, Inductive, PTL

\* What the demo's instrument drains are the demo's own reads: the scope is part of the
\* key, and no thread and no panel has a pinned handle.
THEOREM OwnCounter == Spec => []DemoCounterIsItsOwn
<1>1. IInv => DemoCounterIsItsOwn
  BY MembersAreEntries DEF IInv, Armed, DemoCounterIsItsOwn
<1> QED BY <1>1, Inductive, PTL

\* Once armed, the demo's handles are the same and open until the server goes down: no
\* open evicts a pinned one, and rebind leaves them alone.
THEOREM KeepsPlaying == Spec => DemoKeepsPlaying
<1>1. IInv /\ IInv' /\ [Next]_vars =>
        [demo # <<>> /\ phase' # "down" => demo' = demo /\ Members(demo) \subseteq opened']_vars
  <2> SUFFICES ASSUME IInv, IInv', [Next]_vars, demo # <<>>, phase' # "down"
               PROVE  demo' = demo /\ Members(demo) \subseteq opened'
    OBVIOUS
  <2>1. demo' = demo
    <3>1. ~LoadSegments
      BY DEF LoadSegments, IInv, Armed
    <3> QED BY <3>1 DEF Next, LoopStep, Request, Thread, vars, CompareRight, EndRead,
          LoadMoments, LoadFails, LoadColumns, DemoRead, Shutdown, Browse, CompareLeft,
          ApplyRoot, ThreadBegin, ThreadZero, ThreadRead, ThreadCollect, ThreadRaises
  <2>2. Entries(demo') \subseteq pinned' /\ pinned' \subseteq opened'
    BY DEF IInv, Armed, Cached
  <2> QED BY <2>1, <2>2, MembersAreEntries
<1> QED BY <1>1, Inductive, PTL DEF Spec, DemoKeepsPlaying
====
