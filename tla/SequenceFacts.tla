---- MODULE SequenceFacts ----
(***************************************************************************)
(* What the proofs of this project keep needing of sequences, of sums over *)
(* finite sets, and of the natural numbers.                                *)
(***************************************************************************)
EXTENDS Naturals, Sequences, FiniteSets, SequenceTheorems, FiniteSetTheorems, TLAPS

Entries(s) == {s[n] : n \in DOMAIN s}

NoRepeats(s) == \A m, n \in DOMAIN s : s[m] = s[n] => m = n

--------------------------------------------------------------------------
(* Numbers. *)

\* A set of naturals that has an element has a least one: there is no descending chain
\* of the intervals below them.
LEMMA Least ==
    ASSUME NEW T \in SUBSET Nat, T # {}
    PROVE  \E x \in T : \A y \in T : x <= y
<1> DEFINE U == {1 .. x : x \in T}
<1>1. U \subseteq FiniteSubsetsOf(Nat) /\ U # {}
  <2>1. ASSUME NEW x \in T PROVE 1 .. x \in FiniteSubsetsOf(Nat)
    <3>1. IsFiniteSet(1 .. x)
      BY FS_Interval
    <3> QED BY <3>1 DEF FiniteSubsetsOf
  <2> QED BY <2>1
<1>2. PICK u \in U : \A v \in U : ~(<<v, u>> \in StrictSubsetOrdering(Nat))
  BY <1>1, FS_StrictSubsetOrderingWellFounded, WFMin
<1>3. PICK x \in T : u = 1 .. x
  OBVIOUS
<1>4. ASSUME NEW y \in T, y < x PROVE FALSE
  <2>1. 1 .. y \in U /\ (1 .. y) \subseteq Nat /\ (1 .. x) \subseteq Nat
    OBVIOUS
  <2>2. 1 .. y \subseteq 1 .. x /\ 1 .. y # 1 .. x
    <3>1. x \in 1 .. x /\ x \notin 1 .. y
      BY <1>4
    <3> QED BY <1>4, <3>1
  <2> QED BY <1>2, <1>3, <2>1, <2>2 DEF StrictSubsetOrdering
<1> QED BY <1>4

--------------------------------------------------------------------------
(* Sequences. *)

\* What appending an element does to a sequence and to its entries.
LEMMA AppendFacts ==
    ASSUME NEW S, NEW s \in Seq(S), NEW e \in S
    PROVE  /\ Append(s, e) \in Seq(S) /\ Append(s, e) # <<>>
           /\ Len(Append(s, e)) = Len(s) + 1 /\ Len(s) \in Nat
           /\ DOMAIN s = 1 .. Len(s) /\ DOMAIN Append(s, e) = 1 .. Len(s) + 1
           /\ \A n \in 1 .. Len(s) : Append(s, e)[n] = s[n]
           /\ Append(s, e)[Len(s) + 1] = e
           /\ Entries(Append(s, e)) = Entries(s) \cup {e}
<1> DEFINE t == Append(s, e)
<1>1. /\ t \in Seq(S) /\ t # <<>>
      /\ Len(t) = Len(s) + 1 /\ Len(s) \in Nat
      /\ DOMAIN s = 1 .. Len(s) /\ DOMAIN t = 1 .. Len(s) + 1
      /\ \A n \in 1 .. Len(s) : t[n] = s[n]
      /\ t[Len(s) + 1] = e
  BY AppendProperties, LenProperties
<1> HIDE DEF t
<1>2. Entries(t) = Entries(s) \cup {e}
  BY <1>1 DEF Entries
<1> QED BY <1>1, <1>2 DEF t

\* What joining two sequences does to their entries.
LEMMA ConcatFacts ==
    ASSUME NEW S, NEW s \in Seq(S), NEW t \in Seq(S)
    PROVE  /\ s \o t \in Seq(S)
           /\ Len(s \o t) = Len(s) + Len(t) /\ Len(s) \in Nat /\ Len(t) \in Nat
           /\ DOMAIN s = 1 .. Len(s) /\ DOMAIN t = 1 .. Len(t)
           /\ DOMAIN (s \o t) = 1 .. Len(s) + Len(t)
           /\ \A n \in 1 .. Len(s) : (s \o t)[n] = s[n]
           /\ \A n \in 1 .. Len(t) : (s \o t)[Len(s) + n] = t[n]
           /\ Entries(s \o t) = Entries(s) \cup Entries(t)
<1> DEFINE u == s \o t
<1>1. /\ u \in Seq(S)
      /\ Len(u) = Len(s) + Len(t) /\ Len(s) \in Nat /\ Len(t) \in Nat
      /\ DOMAIN s = 1 .. Len(s) /\ DOMAIN t = 1 .. Len(t)
      /\ DOMAIN u = 1 .. Len(s) + Len(t)
      /\ \A i \in 1 .. Len(s) + Len(t) : u[i] = IF i <= Len(s) THEN s[i] ELSE t[i - Len(s)]
  BY ConcatProperties, LenProperties
<1> HIDE DEF u
<1>2. \A n \in 1 .. Len(s) : u[n] = s[n]
  BY <1>1
<1>3. \A n \in 1 .. Len(t) : u[Len(s) + n] = t[n]
  BY <1>1
<1>4. Entries(u) = Entries(s) \cup Entries(t)
  <2>1. ASSUME NEW x \in Entries(u) PROVE x \in Entries(s) \cup Entries(t)
    <3>1. PICK n \in 1 .. Len(s) + Len(t) : x = u[n]
      BY <1>1, <2>1 DEF Entries
    <3>2. CASE n <= Len(s)
      BY <1>1, <3>1, <3>2 DEF Entries
    <3>3. CASE n > Len(s)
      <4>1. n - Len(s) \in 1 .. Len(t) /\ u[n] = t[n - Len(s)]
        BY <1>1, <3>1, <3>3
      <4> QED BY <1>1, <3>1, <4>1 DEF Entries
    <3> QED BY <1>1, <3>1, <3>2, <3>3
  <2>2. \A n \in 1 .. Len(s) : n \in DOMAIN u
    BY <1>1
  <2>3. \A n \in 1 .. Len(t) : Len(s) + n \in DOMAIN u
    BY <1>1
  <2>4. ASSUME NEW x \in Entries(s) PROVE x \in Entries(u)
    <3>1. PICK n \in 1 .. Len(s) : x = s[n]
      BY <1>1 DEF Entries
    <3>2. n \in DOMAIN u /\ x = u[n]
      BY <1>2, <2>2, <3>1
    <3> QED BY <3>2 DEF Entries
  <2>5. ASSUME NEW x \in Entries(t) PROVE x \in Entries(u)
    <3>1. PICK n \in 1 .. Len(t) : x = t[n]
      BY <1>1 DEF Entries
    <3>2. Len(s) + n \in DOMAIN u /\ x = u[Len(s) + n]
      BY <1>3, <2>3, <3>1
    <3> QED BY <3>2 DEF Entries
  <2> QED BY <2>1, <2>4, <2>5
<1> QED BY <1>1, <1>2, <1>3, <1>4 DEF u

\* What is behind the head of a sequence was in it.
LEMMA TailFacts ==
    ASSUME NEW S, NEW s \in Seq(S), s # <<>>
    PROVE  Tail(s) \in Seq(S) /\ Entries(Tail(s)) \subseteq Entries(s)
<1> DEFINE t == Tail(s)
<1>1. /\ t \in Seq(S)
      /\ DOMAIN s = 1 .. Len(s) /\ Len(s) \in Nat \ {0}
      /\ DOMAIN t = 1 .. (Len(s) - 1)
      /\ \A n \in 1 .. (Len(s) - 1) : t[n] = s[n + 1]
  OBVIOUS
<1> HIDE DEF t
<1>2. \A n \in 1 .. (Len(s) - 1) : n + 1 \in 1 .. Len(s)
  BY <1>1
<1> QED BY <1>1, <1>2 DEF Entries, t

\* What is left of a sequence without its first n.
LEMMA DropFacts ==
    ASSUME NEW S, NEW s \in Seq(S), NEW n \in 0 .. Len(s)
    PROVE  /\ SubSeq(s, n + 1, Len(s)) \in Seq(S)
           /\ Len(SubSeq(s, n + 1, Len(s))) = Len(s) - n
           /\ DOMAIN SubSeq(s, n + 1, Len(s)) = 1 .. Len(s) - n
           /\ \A i \in 1 .. Len(s) - n : SubSeq(s, n + 1, Len(s))[i] = s[n + i]
<1> DEFINE t == SubSeq(s, n + 1, Len(s))
<1>1. Len(s) \in Nat /\ DOMAIN s = 1 .. Len(s) /\ (\A i \in 1 .. Len(s) : s[i] \in S)
  BY LenProperties
<1>2. n + 1 \in Int /\ Len(s) \in Int /\ \A i \in n + 1 .. Len(s) : s[i] \in S
  BY <1>1
<1>3. t \in Seq(S) /\ Len(t) = (IF n + 1 <= Len(s) THEN Len(s) - (n + 1) + 1 ELSE 0)
      /\ \A i \in 1 .. Len(s) - (n + 1) + 1 : t[i] = s[(n + 1) + i - 1]
  BY <1>2, SubSeqProperties
<1> HIDE DEF t
<1>4. Len(t) = Len(s) - n
  <2> DEFINE l == Len(s)
  <2>1. l \in Nat /\ n \in Nat /\ n <= l
    BY <1>1
  <2>2. Len(t) = IF n + 1 <= l THEN l - (n + 1) + 1 ELSE 0
    BY <1>3
  <2> HIDE DEF l
  <2>3. Len(t) = l - n
    BY <2>1, <2>2
  <2> QED BY <2>3 DEF l
<1>5. DOMAIN t = 1 .. Len(s) - n
  BY <1>3, <1>4, LenProperties
<1>6. ASSUME NEW i \in 1 .. Len(s) - n PROVE t[i] = s[n + i]
  <2>1. i \in 1 .. Len(s) - (n + 1) + 1 /\ (n + 1) + i - 1 = n + i
    BY <1>1
  <2> QED BY <1>3, <2>1
<1> QED BY <1>3, <1>4, <1>5, <1>6 DEF t

\* Dropping first and appending afterwards is the same as the other way round.
LEMMA AppendDrop ==
    ASSUME NEW S, NEW s \in Seq(S), NEW e \in S, NEW n \in 0 .. Len(s)
    PROVE  SubSeq(Append(s, e), n + 1, Len(Append(s, e))) = Append(SubSeq(s, n + 1, Len(s)), e)
<1> DEFINE t == SubSeq(s, n + 1, Len(s))
           u == Append(s, e)
           v == SubSeq(u, n + 1, Len(u))
           w == Append(t, e)
<1>1. /\ t \in Seq(S) /\ Len(t) = Len(s) - n
      /\ \A i \in 1 .. Len(s) - n : t[i] = s[n + i]
  BY DropFacts
<1>2. /\ u \in Seq(S) /\ Len(u) = Len(s) + 1 /\ Len(s) \in Nat
      /\ (\A i \in 1 .. Len(s) : u[i] = s[i]) /\ u[Len(s) + 1] = e
  BY AppendFacts
<1> HIDE DEF t, u
<1>3. n \in Nat /\ n <= Len(s) /\ n \in 0 .. Len(u)
  BY <1>2
<1>4. /\ v \in Seq(S) /\ Len(v) = Len(u) - n
      /\ \A i \in 1 .. Len(u) - n : v[i] = u[n + i]
  BY <1>2, <1>3, DropFacts
<1>5. /\ w \in Seq(S) /\ Len(w) = Len(t) + 1
      /\ (\A i \in 1 .. Len(t) : w[i] = t[i]) /\ w[Len(t) + 1] = e
  BY <1>1, AppendFacts
<1> HIDE DEF v, w
<1>6. Len(v) = Len(w) /\ Len(v) = Len(s) - n + 1
  BY <1>1, <1>2, <1>3, <1>4, <1>5
<1>7. ASSUME NEW i \in 1 .. Len(v) PROVE v[i] = w[i]
  <2>1. i \in 1 .. Len(u) - n /\ v[i] = u[n + i]
    BY <1>2, <1>3, <1>4, <1>6
  <2>2. CASE i = Len(s) - n + 1
    <3>1. n + i = Len(s) + 1 /\ i = Len(t) + 1
      BY <1>1, <1>2, <1>3, <2>2
    <3> QED BY <1>2, <1>5, <2>1, <3>1
  <2>3. CASE i # Len(s) - n + 1
    <3>1. i \in 1 .. Len(s) - n /\ n + i \in 1 .. Len(s) /\ i \in 1 .. Len(t)
      BY <1>1, <1>2, <1>3, <1>6, <2>3
    <3>2. u[n + i] = s[n + i] /\ w[i] = t[i] /\ t[i] = s[n + i]
      BY <1>1, <1>2, <1>5, <3>1
    <3> QED BY <2>1, <3>2
  <2> QED BY <2>2, <2>3
<1>8. v = w
  BY <1>4, <1>5, <1>6, <1>7, SeqEqual
<1> QED BY <1>8 DEF t, u, v, w

\* Dropping twice is dropping once.
LEMMA DropDrop ==
    ASSUME NEW S, NEW s \in Seq(S), NEW n \in 0 .. Len(s), NEW m \in 0 .. Len(s) - n
    PROVE  SubSeq(SubSeq(s, n + 1, Len(s)), m + 1, Len(s) - n) = SubSeq(s, n + m + 1, Len(s))
<1> DEFINE t == SubSeq(s, n + 1, Len(s))
           v == SubSeq(t, m + 1, Len(s) - n)
           w == SubSeq(s, n + m + 1, Len(s))
<1>1. Len(s) \in Nat /\ n \in Nat /\ m \in Nat /\ n + m \in 0 .. Len(s)
  BY LenProperties
<1>2. /\ t \in Seq(S) /\ Len(t) = Len(s) - n
      /\ \A i \in 1 .. Len(s) - n : t[i] = s[n + i]
  BY DropFacts
<1> HIDE DEF t
<1>3. v = SubSeq(t, m + 1, Len(t)) /\ m \in 0 .. Len(t)
  BY <1>1, <1>2
<1>4. /\ v \in Seq(S) /\ Len(v) = Len(t) - m
      /\ \A i \in 1 .. Len(t) - m : v[i] = t[m + i]
  BY <1>2, <1>3, DropFacts
<1>5. /\ w \in Seq(S) /\ Len(w) = Len(s) - (n + m)
      /\ \A i \in 1 .. Len(s) - (n + m) : w[i] = s[n + m + i]
  <2> DEFINE k == n + m
  <2>1. k \in 0 .. Len(s)
    BY <1>1
  <2> HIDE DEF k
  <2>2. /\ SubSeq(s, k + 1, Len(s)) \in Seq(S) /\ Len(SubSeq(s, k + 1, Len(s))) = Len(s) - k
        /\ \A i \in 1 .. Len(s) - k : SubSeq(s, k + 1, Len(s))[i] = s[k + i]
    BY <2>1, DropFacts
  <2> QED BY <2>2 DEF k
<1> HIDE DEF v, w
<1>6. Len(v) = Len(w) /\ Len(v) = Len(s) - n - m
  BY <1>1, <1>2, <1>4, <1>5
<1>7. ASSUME NEW i \in 1 .. Len(v) PROVE v[i] = w[i]
  <2>1. /\ i \in 1 .. Len(t) - m /\ m + i \in 1 .. Len(s) - n
        /\ i \in 1 .. Len(s) - (n + m) /\ n + (m + i) = n + m + i
    BY <1>1, <1>2, <1>6
  <2>2. v[i] = t[m + i] /\ t[m + i] = s[n + (m + i)] /\ w[i] = s[n + m + i]
    BY <1>2, <1>4, <1>5, <2>1
  <2> QED BY <2>1, <2>2
<1>8. v = w
  BY <1>4, <1>5, <1>6, <1>7, SeqEqual
<1> QED BY <1>8 DEF t, v, w

\* The empty sequence.
LEMMA EmptyFacts == Entries(<<>>) = {} /\ Len(<<>>) = 0
BY DEF Entries

--------------------------------------------------------------------------
(* Queues. *)

\* Appending a newcomer adds it to a queue, once.
LEMMA AppendEntries ==
    ASSUME NEW S, NEW s \in Seq(S), NEW e \in S \ Entries(s), NoRepeats(s)
    PROVE  /\ Entries(Append(s, e)) = Entries(s) \cup {e}
           /\ NoRepeats(Append(s, e))
<1> DEFINE t == Append(s, e)
<1>1. /\ t \in Seq(S)
      /\ DOMAIN s = 1 .. Len(s) /\ Len(s) \in Nat
      /\ DOMAIN t = 1 .. (Len(s) + 1)
      /\ \A n \in 1 .. Len(s) : t[n] = s[n]
      /\ t[Len(s) + 1] = e
  OBVIOUS
<1> HIDE DEF t
<1>2. Entries(t) = Entries(s) \cup {e}
  BY <1>1 DEF Entries
<1>3. NoRepeats(t)
  BY <1>1 DEF Entries, NoRepeats
<1> QED BY <1>2, <1>3 DEF t

\* Taking the head of a queue without repeats leaves the others, and not the head.
LEMMA TailEntries ==
    ASSUME NEW S, NEW s \in Seq(S), s # <<>>, NoRepeats(s)
    PROVE  /\ Head(s) \in Entries(s)
           /\ Entries(Tail(s)) = Entries(s) \ {Head(s)}
           /\ NoRepeats(Tail(s))
<1> DEFINE t == Tail(s)
<1>1. /\ t \in Seq(S)
      /\ DOMAIN s = 1 .. Len(s) /\ Len(s) \in Nat \ {0}
      /\ DOMAIN t = 1 .. (Len(s) - 1)
      /\ \A n \in 1 .. (Len(s) - 1) : t[n] = s[n + 1]
      /\ Head(s) = s[1]
  OBVIOUS
<1> HIDE DEF t
<1>2. Head(s) \in Entries(s)
  BY <1>1 DEF Entries
<1>3. Entries(t) = Entries(s) \ {Head(s)}
  <2>1. \A x \in Entries(t) : x \in Entries(s) \ {Head(s)}
    BY <1>1 DEF Entries, NoRepeats
  <2>2. ASSUME NEW x \in Entries(s), x # Head(s) PROVE x \in Entries(t)
    <3>1. PICK n \in 1 .. Len(s) : x = s[n]
      BY <1>1 DEF Entries
    <3>2. n - 1 \in 1 .. (Len(s) - 1) /\ t[n - 1] = s[n]
      BY <1>1, <2>2, <3>1
    <3> QED BY <1>1, <3>1, <3>2 DEF Entries
  <2> QED BY <2>1, <2>2
<1>4. NoRepeats(t)
  <2> SUFFICES ASSUME NEW m \in 1 .. (Len(s) - 1), NEW n \in 1 .. (Len(s) - 1), t[m] = t[n]
               PROVE  m = n
    BY <1>1 DEF NoRepeats
  <2>1. m + 1 \in DOMAIN s /\ n + 1 \in DOMAIN s /\ s[m + 1] = s[n + 1]
    BY <1>1
  <2> QED BY <2>1 DEF NoRepeats
<1> QED BY <1>2, <1>3, <1>4 DEF t

\* Dropping the first n of a queue without repeats leaves the others, once each.
LEMMA DropEntries ==
    ASSUME NEW S, NEW s \in Seq(S), NoRepeats(s), NEW n \in 0 .. Len(s)
    PROVE  /\ SubSeq(s, n + 1, Len(s)) \in Seq(S)
           /\ NoRepeats(SubSeq(s, n + 1, Len(s)))
           /\ Len(SubSeq(s, n + 1, Len(s))) = Len(s) - n
           /\ Entries(SubSeq(s, n + 1, Len(s))) \subseteq Entries(s)
           /\ \A x \in Entries(s) \ Entries(SubSeq(s, n + 1, Len(s))) :
                 \E i \in 1 .. n : x = s[i]
<1> DEFINE t == SubSeq(s, n + 1, Len(s))
<1>1. Len(s) \in Nat /\ DOMAIN s = 1 .. Len(s) /\ (\A i \in 1 .. Len(s) : s[i] \in S)
  BY LenProperties
<1>2. /\ t \in Seq(S)
      /\ Len(t) = Len(s) - n
      /\ DOMAIN t = 1 .. Len(s) - n
      /\ \A i \in 1 .. Len(s) - n : t[i] = s[n + i]
  BY DropFacts
<1> HIDE DEF t
<1>3. \A i \in 1 .. Len(s) - n : n + i \in 1 .. Len(s)
  BY <1>1
<1>4. Entries(t) \subseteq Entries(s)
  BY <1>1, <1>2, <1>3 DEF Entries
<1>5. NoRepeats(t)
  <2> SUFFICES ASSUME NEW i \in 1 .. Len(s) - n, NEW k \in 1 .. Len(s) - n, t[i] = t[k]
               PROVE  i = k
    BY <1>2 DEF NoRepeats
  <2>1. n + i \in DOMAIN s /\ n + k \in DOMAIN s /\ s[n + i] = s[n + k]
    BY <1>1, <1>2, <1>3
  <2>2. n + i = n + k
    BY <2>1 DEF NoRepeats
  <2> QED BY <1>1, <2>2
<1>6. ASSUME NEW x \in Entries(s), x \notin Entries(t)
      PROVE  \E i \in 1 .. n : x = s[i]
  <2>1. PICK i \in 1 .. Len(s) : x = s[i]
    BY <1>1 DEF Entries
  <2>2. CASE i > n
    <3>1. i - n \in 1 .. Len(s) - n /\ n + (i - n) = i
      BY <1>1, <2>2
    <3>2. t[i - n] = x /\ i - n \in DOMAIN t
      BY <1>2, <2>1, <3>1
    <3> QED BY <1>6, <3>2 DEF Entries
  <2> QED BY <1>1, <2>1, <2>2
<1> QED BY <1>2, <1>4, <1>5, <1>6 DEF t

\* Sending the head of a queue without repeats to its tail changes nobody's presence.
LEMMA RotateEntries ==
    ASSUME NEW S, NEW s \in Seq(S), s # <<>>, NoRepeats(s)
    PROVE  /\ Append(Tail(s), Head(s)) \in Seq(S)
           /\ NoRepeats(Append(Tail(s), Head(s)))
           /\ Entries(Append(Tail(s), Head(s))) = Entries(s)
<1>1. Tail(s) \in Seq(S) /\ Head(s) \in S
  BY HeadTailProperties
<1>2. /\ Head(s) \in Entries(s) /\ Entries(Tail(s)) = Entries(s) \ {Head(s)}
      /\ NoRepeats(Tail(s))
  BY TailEntries
<1>3. Head(s) \in S \ Entries(Tail(s))
  BY <1>1, <1>2
<1>4. /\ Entries(Append(Tail(s), Head(s))) = Entries(Tail(s)) \cup {Head(s)}
      /\ NoRepeats(Append(Tail(s), Head(s)))
  BY <1>1, <1>2, <1>3, AppendEntries
<1> QED BY <1>1, <1>2, <1>4, AppendProperties

\* A sequence without repeats has as many entries as it is long.
LEMMA EntriesCount ==
    ASSUME NEW S, NEW s \in Seq(S), NoRepeats(s)
    PROVE  IsFiniteSet(Entries(s)) /\ Cardinality(Entries(s)) = Len(s)
<1>1. Len(s) \in Nat /\ DOMAIN s = 1 .. Len(s) /\ s \in [1 .. Len(s) -> S]
  BY LenProperties
<1>2. s \in Bijection(1 .. Len(s), Entries(s))
  <2>1. s \in [1 .. Len(s) -> Entries(s)]
    BY <1>1 DEF Entries
  <2>2. \A m, n \in 1 .. Len(s) : s[m] = s[n] => m = n
    BY <1>1 DEF NoRepeats
  <2>3. \A e \in Entries(s) : \E n \in 1 .. Len(s) : s[n] = e
    BY <1>1 DEF Entries
  <2>4. s \in Injection(1 .. Len(s), Entries(s))
    BY <2>1, <2>2 DEF Injection, IsInjective
  <2>5. s \in Surjection(1 .. Len(s), Entries(s))
    BY <2>1, <2>3 DEF Surjection
  <2> QED BY <2>4, <2>5 DEF Bijection
<1>3. IsFiniteSet(1 .. Len(s)) /\ Cardinality(1 .. Len(s)) = Len(s)
  BY <1>1, FS_Interval
<1>4. ExistsBijection(1 .. Len(s), Entries(s))
  BY <1>2 DEF ExistsBijection
<1> QED BY <1>3, <1>4, FS_Bijection

\* The n-th of a finite set of numbers is one of them, and each is the n-th for one n.
LEMMA Ranks ==
    ASSUME NEW T \in SUBSET Nat, IsFiniteSet(T)
    PROVE  /\ Cardinality(T) \in Nat
           /\ \A n \in 1 .. Cardinality(T) : \E i \in T : Cardinality({j \in T : j <= i}) = n
           /\ \A i, k \in T :
                 Cardinality({j \in T : j <= i}) = Cardinality({j \in T : j <= k}) => i = k
           /\ \A i \in T : Cardinality({j \in T : j <= i}) \in 1 .. Cardinality(T)
<1> DEFINE Upto(i) == {j \in T : j <= i}
           rank == [i \in T |-> Cardinality(Upto(i))]
           count == Cardinality(T)
<1>1. count \in Nat
  BY FS_CardinalityType
<1>2. ASSUME NEW i \in T
      PROVE  IsFiniteSet(Upto(i)) /\ Cardinality(Upto(i)) \in 1 .. count
  <2>1. Upto(i) \in SUBSET T /\ Upto(i) # {}
    <3>1. i \in Upto(i)
      OBVIOUS
    <3> QED BY <3>1
  <2>2. IsFiniteSet(Upto(i)) /\ Cardinality(Upto(i)) <= count
    BY <2>1, FS_Subset
  <2>3. Cardinality(Upto(i)) \in Nat /\ Cardinality(Upto(i)) # 0
    BY <2>1, <2>2, FS_CardinalityType, FS_EmptySet
  <2> QED BY <1>1, <2>2, <2>3
<1>3. ASSUME NEW i \in T, NEW k \in T, i < k
      PROVE  Cardinality(Upto(i)) # Cardinality(Upto(k))
  <2>1. Upto(i) \in SUBSET Upto(k) /\ k \in Upto(k) /\ k \notin Upto(i)
    <3>1. i \in Nat /\ k \in Nat /\ k <= k /\ ~(k <= i)
      BY <1>3
    <3>2. ASSUME NEW j \in T, j <= i PROVE j <= k
      BY <1>3, <3>2
    <3> QED BY <3>1, <3>2
  <2>2. Upto(i) # Upto(k)
    BY <2>1
  <2>3. IsFiniteSet(Upto(k))
    BY <1>2
  <2> HIDE DEF Upto
  <2> QED BY <2>1, <2>2, <2>3, FS_Subset
<1>4. \A i, k \in T : Cardinality(Upto(i)) = Cardinality(Upto(k)) => i = k
  <2> SUFFICES ASSUME NEW i \in T, NEW k \in T, i # k
               PROVE  Cardinality(Upto(i)) # Cardinality(Upto(k))
    OBVIOUS
  <2>1. i \in Nat /\ k \in Nat /\ (i < k \/ k < i)
    OBVIOUS
  <2> HIDE DEF Upto
  <2> QED BY <1>3, <2>1
<1> HIDE DEF Upto
<1>5. rank \in Injection(T, 1 .. count)
  BY <1>2, <1>4 DEF Injection, IsInjective
<1>6. IsFiniteSet(1 .. count) /\ Cardinality(1 .. count) = count
  BY <1>1, FS_Interval
<1>7. rank \in Surjection(T, 1 .. count)
  <2> HIDE DEF rank, count
  <2>1. Cardinality(T) = Cardinality(1 .. count)
    BY <1>6 DEF count
  <2> QED BY <1>5, <1>6, <2>1, FS_Injection
<1>8. \A n \in 1 .. count : \E i \in T : Cardinality(Upto(i)) = n
  BY <1>7 DEF Surjection
<1> QED BY <1>1, <1>2, <1>4, <1>8 DEF Upto

--------------------------------------------------------------------------
(* Sums over finite sets. *)

\* What a sum takes first, and what it says of each part of S.
Pick(s) == CHOOSE x \in s : TRUE
IsSum(f, S, v) ==
    f = [s \in SUBSET S |-> IF s = {} THEN 0 ELSE v[Pick(s)] + f[s \ {Pick(s)}]]

\* The sum of a function is what a function that sums up every part gives for the whole.
LEMMA SumIs ==
    ASSUME NEW v, \E f : IsSum(f, DOMAIN v, v)
    PROVE  \E f : IsSum(f, DOMAIN v, v) /\ SumFunction(v) = f[DOMAIN v]
<1> DEFINE S == DOMAIN v
           g == CHOOSE f : IsSum(f, S, v)
<1>1. IsSum(g, S, v)
  OBVIOUS
<1>2. SumFunction(v) = g[S]
  BY DEF SumFunction, SumFunctionOnSet, FoldFunctionOnSet, MapThenFoldSet, IsSum, Pick
<1> QED BY <1>1, <1>2

\* A part that is not empty is one element and a smaller part.
LEMMA PickFacts ==
    ASSUME NEW S, IsFiniteSet(S), NEW s \in SUBSET S, s # {}
    PROVE  /\ Pick(s) \in s /\ s \ {Pick(s)} \in SUBSET S
           /\ Cardinality(s) \in Nat
           /\ Cardinality(s \ {Pick(s)}) \in Nat
           /\ Cardinality(s \ {Pick(s)}) = Cardinality(s) - 1
<1>1. Pick(s) \in s
  BY DEF Pick
<1>2. IsFiniteSet(s)
  BY FS_Subset
<1>3. IsFiniteSet(s \ {Pick(s)}) /\ Cardinality(s \ {Pick(s)}) = Cardinality(s) - 1
  BY <1>1, <1>2, FS_RemoveElement
<1> QED BY <1>1, <1>2, <1>3, FS_CardinalityType

\* What holds of every part whose smaller part it holds of, holds of all of them.
LEMMA Parts ==
    ASSUME NEW S, IsFiniteSet(S), NEW Good,
           {} \in Good,
           \A s \in SUBSET S : s # {} /\ s \ {Pick(s)} \in Good => s \in Good
    PROVE  SUBSET S \subseteq Good
<1> DEFINE Bad == (SUBSET S) \ Good
           sizes == {Cardinality(s) : s \in Bad}
<1> SUFFICES ASSUME Bad # {} PROVE FALSE
  OBVIOUS
<1>1. \A s \in Bad : s # {} /\ s \in SUBSET S
  OBVIOUS
<1>2. sizes \in SUBSET Nat /\ sizes # {}
  <2>1. ASSUME NEW s \in Bad PROVE Cardinality(s) \in Nat
    BY FS_Subset, FS_CardinalityType
  <2> QED BY <2>1
<1>3. PICK n \in sizes : \A m \in sizes : n <= m
  BY <1>2, Least
<1>4. PICK s \in Bad : n = Cardinality(s)
  OBVIOUS
<1> DEFINE t == s \ {Pick(s)}
<1>5. t \in SUBSET S /\ Cardinality(t) \in Nat /\ n \in Nat /\ Cardinality(t) = n - 1
  BY <1>1, <1>4, PickFacts
<1>6. t \in Bad
  BY <1>1, <1>4, <1>5
<1> QED BY <1>3, <1>5, <1>6

\* Every function over a finite set can be summed up.
LEMMA SumExists ==
    ASSUME NEW S, IsFiniteSet(S), NEW v
    PROVE  \E f : IsSum(f, S, v)
<1> DEFINE Upto(n) == {s \in SUBSET S : Cardinality(s) <= n}
           After(f, s) == IF s = {} THEN 0 ELSE v[Pick(s)] + f[s \ {Pick(s)}]
           Summed(f, n) == \A s \in Upto(n) : f[s] = After(f, s)
           Bad == {n \in Nat : ~(\E f : Summed(f, n))}
<1>1. Bad = {}
  <2> SUFFICES ASSUME Bad # {} PROVE FALSE
    OBVIOUS
  <2>1. PICK n \in Bad : \A m \in Bad : n <= m
    BY Least
  <2>2. n # 0
    <3>1. \A s \in Upto(0) : s = {}
      <4> SUFFICES ASSUME NEW s \in SUBSET S, s # {} PROVE ~(Cardinality(s) <= 0)
        OBVIOUS
      <4> DEFINE t == s \ {Pick(s)}
      <4>1. Cardinality(s) \in Nat /\ Cardinality(t) \in Nat /\ Cardinality(t) = Cardinality(s) - 1
        BY PickFacts
      <4> HIDE DEF t
      <4> QED BY <4>1
    <3> DEFINE f == [s \in SUBSET S |-> 0]
    <3>2. Summed(f, 0)
      BY <3>1
    <3> QED BY <3>2
  <2>3. n \in Nat /\ n - 1 \in Nat /\ n - 1 \notin Bad
    <3> DEFINE B == Bad
    <3>1. B \in SUBSET Nat /\ n \in B /\ \A m \in B : n <= m
      BY <2>1
    <3> HIDE DEF B
    <3>2. n \in Nat /\ n - 1 \in Nat
      BY <2>2, <3>1
    <3>3. n - 1 \notin B
      BY <3>1, <3>2
    <3> QED BY <3>2, <3>3 DEF B
  <2>4. PICK f : Summed(f, n - 1)
    BY <2>3
  <2> DEFINE g == [s \in SUBSET S |-> After(f, s)]
  <2>5. Summed(g, n)
    <3> SUFFICES ASSUME NEW s \in Upto(n) PROVE g[s] = After(g, s)
      OBVIOUS
    <3>1. CASE s = {}
      BY <3>1
    <3>2. CASE s # {}
      <4> DEFINE t == s \ {Pick(s)}
      <4>1. t \in SUBSET S /\ Cardinality(t) \in Nat /\ Cardinality(t) = Cardinality(s) - 1
            /\ Cardinality(s) \in Nat
        BY <3>2, PickFacts
      <4>2. t \in Upto(n - 1)
        BY <2>3, <4>1
      <4>3. f[t] = After(f, t)
        BY <2>4, <4>2
      <4>4. g[t] = f[t]
        BY <4>1, <4>3
      <4> QED BY <3>2, <4>4
    <3> QED BY <3>1, <3>2
  <2> QED BY <2>1, <2>5
<1>2. Cardinality(S) \in Nat /\ \A s \in SUBSET S : Cardinality(s) <= Cardinality(S)
  BY FS_CardinalityType, FS_Subset
<1>3. PICK f : Summed(f, Cardinality(S))
  BY <1>1, <1>2
<1> DEFINE g == [s \in SUBSET S |-> f[s]]
<1>4. ASSUME NEW s \in SUBSET S PROVE g[s] = After(g, s)
  <2>1. f[s] = After(f, s)
    BY <1>2, <1>3
  <2>2. s # {} => s \ {Pick(s)} \in SUBSET S
    OBVIOUS
  <2> QED BY <2>1, <2>2
<1>5. g = [s \in SUBSET S |-> After(g, s)]
  BY <1>4
<1>6. IsSum(g, S, v)
  BY <1>5 DEF IsSum
<1> QED BY <1>6

\* What is summed up is natural, nothing if there is nothing to sum.
LEMMA SumFacts ==
    ASSUME NEW S, IsFiniteSet(S), NEW v \in [S -> Nat]
    PROVE  /\ SumFunction(v) \in Nat
           /\ (\A x \in S : v[x] = 0) => SumFunction(v) = 0
<1>1. PICK f : IsSum(f, S, v) /\ SumFunction(v) = f[S]
  <2>1. DOMAIN v = S /\ \E f : IsSum(f, S, v)
    BY SumExists
  <2> QED BY <2>1, SumIs
<1>2. /\ f[{}] = 0
      /\ \A s \in SUBSET S : s # {} => f[s] = v[Pick(s)] + f[s \ {Pick(s)}]
  BY <1>1 DEF IsSum
<1> DEFINE Good == {s \in SUBSET S : f[s] \in Nat}
           Empty == {s \in SUBSET S : (\A x \in S : v[x] = 0) => f[s] = 0}
<1>3. {} \in Good /\ {} \in Empty
  <2>1. {} \in SUBSET S
    OBVIOUS
  <2>2. f[{}] = 0
    BY <1>2
  <2> HIDE DEF IsSum
  <2> QED BY ONLY <2>1, <2>2
<1>4. ASSUME NEW s \in SUBSET S, s # {}, s \ {Pick(s)} \in Good PROVE s \in Good
  <2> DEFINE y == Pick(s)
             t == s \ {y}
  <2>1. y \in S
    BY <1>4, PickFacts
  <2>2. v[y] \in Nat /\ f[t] \in Nat /\ f[s] = v[y] + f[t]
    BY <1>2, <1>4, <2>1
  <2> HIDE DEF y, t
  <2>3. f[s] \in Nat
    BY <2>2
  <2> QED BY <2>3
<1>5. ASSUME NEW s \in SUBSET S, s # {}, s \ {Pick(s)} \in Empty PROVE s \in Empty
  <2> DEFINE y == Pick(s)
             t == s \ {y}
  <2>1. y \in S
    BY <1>5, PickFacts
  <2>2. ((\A x \in S : v[x] = 0) => f[t] = 0) /\ f[s] = v[y] + f[t]
    BY <1>2, <1>5
  <2> HIDE DEF y, t
  <2>3. (\A x \in S : v[x] = 0) => f[s] = 0
    BY <2>1, <2>2
  <2> QED BY <2>3
<1> HIDE DEF Good, Empty
<1>6. SUBSET S \subseteq Good /\ SUBSET S \subseteq Empty
  BY <1>3, <1>4, <1>5, Parts
<1>7. S \in Good /\ S \in Empty
  BY <1>6
<1> QED BY <1>1, <1>7 DEF Good, Empty

\* When one of the values changes, the sum changes by as much.
LEMMA SumChange ==
    ASSUME NEW S, IsFiniteSet(S), NEW v \in [S -> Nat], NEW w \in [S -> Nat],
           NEW x \in S, \A y \in S : y # x => w[y] = v[y]
    PROVE  SumFunction(w) + v[x] = SumFunction(v) + w[x]
<1> DEFINE n == w[x]
<1>1. w \in [S -> Nat] /\ w[x] = n /\ n \in Nat /\ \A y \in S : y # x => w[y] = v[y]
  OBVIOUS
<1> HIDE DEF n
<1>2. PICK f : IsSum(f, S, v) /\ SumFunction(v) = f[S]
  <2>1. DOMAIN v = S /\ \E f : IsSum(f, S, v)
    BY SumExists
  <2> QED BY <2>1, SumIs
<1>3. PICK g : IsSum(g, S, w) /\ SumFunction(w) = g[S]
  <2>1. DOMAIN w = S /\ \E g : IsSum(g, S, w)
    BY <1>1, SumExists
  <2> QED BY <2>1, SumIs
<1>4. /\ f[{}] = 0 /\ g[{}] = 0
      /\ \A s \in SUBSET S : s # {} => /\ f[s] = v[Pick(s)] + f[s \ {Pick(s)}]
                                       /\ g[s] = w[Pick(s)] + g[s \ {Pick(s)}]
  BY <1>2, <1>3 DEF IsSum
<1> DEFINE Good == {s \in SUBSET S : /\ f[s] \in Nat /\ g[s] \in Nat
                                     /\ x \notin s => g[s] = f[s]
                                     /\ x \in s => g[s] + v[x] = f[s] + n}
<1>5. {} \in Good
  <2>1. {} \in SUBSET S /\ x \notin {}
    OBVIOUS
  <2>2. f[{}] = 0 /\ g[{}] = 0
    BY <1>4
  <2> QED BY ONLY <2>1, <2>2
<1>6. ASSUME NEW s \in SUBSET S, s # {}, s \ {Pick(s)} \in Good PROVE s \in Good
  <2> DEFINE y == Pick(s)
             t == s \ {y}
  <2>0. y \in s /\ y \in S
    BY <1>6, PickFacts
  <2>1. y \in s /\ y \in S /\ v[y] \in Nat /\ w[y] \in Nat
    BY <1>1, <2>0
  <2>2. f[s] = v[y] + f[t] /\ g[s] = w[y] + g[t]
    BY <1>4, <1>6
  <2>3. /\ f[t] \in Nat /\ g[t] \in Nat
        /\ x \notin t => g[t] = f[t]
        /\ x \in t => g[t] + v[x] = f[t] + n
    BY <1>6
  <2>4. x \in t <=> x \in s /\ x # y
    OBVIOUS
  <2> HIDE DEF y, t
  <2>5. f[s] \in Nat /\ g[s] \in Nat
    BY <2>1, <2>2, <2>3
  <2>6. v[x] \in Nat /\ n \in Nat
    BY <1>1
  <2>7. ASSUME x \notin s PROVE g[s] = f[s]
    <3>1. x # y /\ x \notin t
      BY <2>1, <2>4, <2>7
    <3>2. w[y] = v[y]
      BY <1>1, <2>1, <3>1
    <3> QED BY <2>1, <2>2, <2>3, <3>1, <3>2
  <2>8. ASSUME x \in s PROVE g[s] + v[x] = f[s] + n
    <3>1. CASE x = y
      <4>1. w[y] = n /\ x \notin t
        BY <1>1, <2>4, <3>1
      <4> QED BY <2>1, <2>2, <2>3, <2>6, <3>1, <4>1
    <3>2. CASE x # y
      <4>1. w[y] = v[y] /\ x \in t
        BY <1>1, <2>1, <2>4, <2>8, <3>2
      <4> QED BY <2>1, <2>2, <2>3, <2>6, <4>1
    <3> QED BY <3>1, <3>2
  <2> QED BY <2>5, <2>7, <2>8
<1> HIDE DEF Good
<1>7. SUBSET S \subseteq Good
  BY <1>5, <1>6, Parts
<1>8. S \in Good
  BY <1>7
<1>9. g[S] + v[x] = f[S] + n
  BY <1>8 DEF Good
<1> QED BY <1>2, <1>3, <1>9 DEF n

\* Counted by what they are, the members of a finite set are counted once each.
LEMMA SumOfCounts ==
    ASSUME NEW S, IsFiniteSet(S), NEW T, IsFiniteSet(T), NEW key \in [T -> S]
    PROVE  SumFunction([k \in S |-> Cardinality({t \in T : key[t] = k})]) = Cardinality(T)
<1> DEFINE Held(U, k) == {t \in U : key[t] = k}
           counts(U) == [k \in S |-> Cardinality(Held(U, k))]
           Good == {U \in SUBSET T : SumFunction(counts(U)) = Cardinality(U)}
<1>1. \A U \in SUBSET T : counts(U) \in [S -> Nat]
  <2> SUFFICES ASSUME NEW U \in SUBSET T, NEW k \in S PROVE Cardinality(Held(U, k)) \in Nat
    OBVIOUS
  <2>1. IsFiniteSet(Held(U, k))
    BY FS_Subset
  <2> QED BY <2>1, FS_CardinalityType
<1>2. {} \in Good
  <2>1. \A k \in S : Held({}, k) = {}
    OBVIOUS
  <2>2. \A k \in S : counts({})[k] = 0
    BY <2>1, FS_EmptySet
  <2> DEFINE none == counts({})
  <2>3. none \in [S -> Nat] /\ \A k \in S : none[k] = 0
    BY <1>1, <2>2
  <2> HIDE DEF none
  <2>4. SumFunction(none) = 0
    BY <2>3, SumFacts
  <2> QED BY <2>4, FS_EmptySet DEF none
<1>3. ASSUME NEW U \in SUBSET T, U # {}, U \ {Pick(U)} \in Good PROVE U \in Good
  <2> DEFINE y == Pick(U)
             V == U \ {y}
             x == key[y]
             v == counts(V)
             w == counts(U)
  <2>1. y \in U /\ V \in SUBSET T /\ Cardinality(U) \in Nat /\ Cardinality(V) = Cardinality(U) - 1
    BY <1>3, PickFacts
  <2>2. v \in [S -> Nat] /\ w \in [S -> Nat]
    BY <1>1, <2>1
  <2>3. x \in S
    BY <2>1
  <2>4. \A k \in S : k # x => Held(U, k) = Held(V, k)
    OBVIOUS
  <2>5. \A k \in S : k # x => w[k] = v[k]
    BY <2>4
  <2>6. Held(V, x) = Held(U, x) \ {y} /\ y \in Held(U, x) /\ IsFiniteSet(Held(U, x))
    <3>1. Held(U, x) \in SUBSET T
      OBVIOUS
    <3> QED BY <2>1, <3>1, FS_Subset
  <2>7. v[x] = Cardinality(Held(V, x)) /\ w[x] = Cardinality(Held(U, x))
    BY <2>3
  <2>8. v[x] = w[x] - 1
    <3> DEFINE A == Held(U, x)
               B == Held(V, x)
    <3>1. B = A \ {y} /\ y \in A /\ IsFiniteSet(A)
      BY <2>6
    <3>2. v[x] = Cardinality(B) /\ w[x] = Cardinality(A)
      BY <2>7
    <3> HIDE DEF A, B, v, w, x, y
    <3>3. Cardinality(A) \in Nat /\ Cardinality(B) = Cardinality(A) - 1
      BY ONLY <3>1, FS_RemoveElement, FS_CardinalityType
    <3> QED BY <3>2, <3>3
  <2>9. SumFunction(v) = Cardinality(V)
    BY <1>3
  <2> HIDE DEF counts, v, w, x, y
  <2>10. SumFunction(w) + v[x] = SumFunction(v) + w[x]
    BY ONLY <2>2, <2>3, <2>5, IsFiniteSet(S), SumChange
  <2>11. SumFunction(w) \in Nat /\ SumFunction(v) \in Nat /\ v[x] \in Nat /\ w[x] \in Nat
    <3>1. SumFunction(w) \in Nat /\ SumFunction(v) \in Nat
      BY ONLY <2>2, IsFiniteSet(S), SumFacts
    <3> QED BY <2>2, <2>3, <3>1
  <2>12. SumFunction(w) = Cardinality(U)
    BY <2>1, <2>8, <2>9, <2>10, <2>11
  <2> QED BY <2>12 DEF w
<1> HIDE DEF Good
<1>4. SUBSET T \subseteq Good
  BY <1>2, <1>3, Parts
<1>5. T \in Good
  BY <1>4
<1> QED BY <1>5 DEF Good

\* What is no more anywhere is no more in sum.
LEMMA SumMonotonic ==
    ASSUME NEW S, IsFiniteSet(S), NEW v \in [S -> Nat], NEW w \in [S -> Nat],
           \A x \in S : v[x] <= w[x]
    PROVE  SumFunction(v) <= SumFunction(w)
<1>1. PICK f : IsSum(f, S, v) /\ SumFunction(v) = f[S]
  <2>1. DOMAIN v = S /\ \E f : IsSum(f, S, v)
    BY SumExists
  <2> QED BY <2>1, SumIs
<1>2. PICK g : IsSum(g, S, w) /\ SumFunction(w) = g[S]
  <2>1. DOMAIN w = S /\ \E g : IsSum(g, S, w)
    BY SumExists
  <2> QED BY <2>1, SumIs
<1>3. /\ f[{}] = 0 /\ g[{}] = 0
      /\ \A s \in SUBSET S : s # {} => /\ f[s] = v[Pick(s)] + f[s \ {Pick(s)}]
                                       /\ g[s] = w[Pick(s)] + g[s \ {Pick(s)}]
  BY <1>1, <1>2 DEF IsSum
<1> DEFINE Good == {s \in SUBSET S : f[s] \in Nat /\ g[s] \in Nat /\ f[s] <= g[s]}
<1>4. {} \in Good
  <2>1. {} \in SUBSET S
    OBVIOUS
  <2>2. f[{}] = 0 /\ g[{}] = 0
    BY <1>3
  <2> QED BY ONLY <2>1, <2>2
<1>5. ASSUME NEW s \in SUBSET S, s # {}, s \ {Pick(s)} \in Good PROVE s \in Good
  <2> DEFINE y == Pick(s)
             t == s \ {y}
  <2>1. y \in S
    BY <1>5, PickFacts
  <2>2. v[y] \in Nat /\ w[y] \in Nat /\ v[y] <= w[y]
    BY <2>1
  <2>3. f[t] \in Nat /\ g[t] \in Nat /\ f[t] <= g[t]
    BY <1>5
  <2>4. f[s] = v[y] + f[t] /\ g[s] = w[y] + g[t]
    BY <1>3, <1>5
  <2> HIDE DEF y, t
  <2>5. f[s] \in Nat /\ g[s] \in Nat /\ f[s] <= g[s]
    BY <2>2, <2>3, <2>4
  <2> QED BY <2>5
<1> HIDE DEF Good
<1>6. SUBSET S \subseteq Good
  BY <1>4, <1>5, Parts
<1>7. S \in Good
  BY <1>6
<1> QED BY <1>1, <1>2, <1>7 DEF Good

\* The same number everywhere is that number times over.
LEMMA SumConstant ==
    ASSUME NEW S, IsFiniteSet(S), NEW c \in Nat
    PROVE  SumFunction([x \in S |-> c]) = c * Cardinality(S)
<1> DEFINE v == [x \in S |-> c]
<1>1. v \in [S -> Nat] /\ \A x \in S : v[x] = c
  OBVIOUS
<1> HIDE DEF v
<1>2. PICK f : IsSum(f, S, v) /\ SumFunction(v) = f[S]
  <2>1. DOMAIN v = S /\ \E f : IsSum(f, S, v)
    BY <1>1, SumExists
  <2> QED BY <2>1, SumIs
<1>3. f[{}] = 0 /\ \A s \in SUBSET S : s # {} => f[s] = v[Pick(s)] + f[s \ {Pick(s)}]
  BY <1>2 DEF IsSum
<1> DEFINE Good == {s \in SUBSET S : f[s] = c * Cardinality(s)}
<1>4. {} \in Good
  <2>1. {} \in SUBSET S
    OBVIOUS
  <2>2. f[{}] = 0 /\ Cardinality({}) = 0
    BY <1>3, FS_EmptySet
  <2>3. c * 0 = 0
    OBVIOUS
  <2> QED BY <2>1, <2>2, <2>3
<1>5. ASSUME NEW s \in SUBSET S, s # {}, s \ {Pick(s)} \in Good PROVE s \in Good
  <2> DEFINE y == Pick(s)
             t == s \ {y}
             n == Cardinality(t)
  <2>1. y \in S /\ n \in Nat /\ Cardinality(s) \in Nat /\ n = Cardinality(s) - 1
    BY <1>5, PickFacts
  <2>2. v[y] = c /\ f[t] = c * n /\ f[s] = v[y] + f[t]
    BY <1>1, <1>3, <1>5, <2>1
  <2> HIDE DEF y, t, n
  <2>3. Cardinality(s) = n + 1
    BY <2>1
  <2>4. c * (n + 1) = c + c * n
    BY <2>1
  <2> QED BY <2>2, <2>3, <2>4
<1> HIDE DEF Good
<1>6. SUBSET S \subseteq Good
  BY <1>4, <1>5, Parts
<1>7. S \in Good
  BY <1>6
<1> QED BY <1>2, <1>7 DEF Good, v

\* A sum lies between what each is at least and what each is at most, times how many they are.
LEMMA SumBetween ==
    ASSUME NEW S, IsFiniteSet(S), NEW v \in [S -> Nat], NEW lo \in Nat, NEW hi \in Nat,
           \A x \in S : lo <= v[x] /\ v[x] <= hi
    PROVE  lo * Cardinality(S) <= SumFunction(v) /\ SumFunction(v) <= hi * Cardinality(S)
<1> DEFINE low == [x \in S |-> lo]
           high == [x \in S |-> hi]
<1>1. /\ low \in [S -> Nat] /\ high \in [S -> Nat]
      /\ \A x \in S : low[x] <= v[x] /\ v[x] <= high[x]
  OBVIOUS
<1>2. SumFunction(low) = lo * Cardinality(S) /\ SumFunction(high) = hi * Cardinality(S)
  BY SumConstant
<1> HIDE DEF low, high
<1>3. SumFunction(low) <= SumFunction(v) /\ SumFunction(v) <= SumFunction(high)
  BY <1>1, SumMonotonic
<1> QED BY <1>2, <1>3

\* The sum of the values of a part.
PartSum(v, U) == SumFunction([x \in U |-> v[x]])

\* A part is summed up as one element and what it leaves.
LEMMA PartSums ==
    ASSUME NEW S, IsFiniteSet(S), NEW v \in [S -> Nat]
    PROVE  /\ PartSum(v, {}) = 0
           /\ \A U \in SUBSET S : PartSum(v, U) \in Nat
           /\ \A U \in SUBSET S : U # {} => PartSum(v, U) = v[Pick(U)] + PartSum(v, U \ {Pick(U)})
<1>1. ASSUME NEW U \in SUBSET S
      PROVE  /\ PartSum(v, U) \in Nat
             /\ \E f : IsSum(f, U, [x \in U |-> v[x]]) /\ PartSum(v, U) = f[U]
  <2> DEFINE u == [x \in U |-> v[x]]
  <2>1. u \in [U -> Nat] /\ IsFiniteSet(U) /\ DOMAIN u = U
    BY FS_Subset
  <2> HIDE DEF u
  <2>2. SumFunction(u) \in Nat /\ \E f : IsSum(f, U, u)
    BY ONLY <2>1, SumFacts, SumExists
  <2>3. \E f : IsSum(f, DOMAIN u, u) /\ SumFunction(u) = f[DOMAIN u]
    BY <2>1, <2>2, SumIs
  <2> QED BY <2>1, <2>2, <2>3 DEF u, PartSum
<1>2. PartSum(v, {}) = 0
  <2>1. {} \in SUBSET S
    OBVIOUS
  <2>2. PICK f : IsSum(f, {}, [x \in {} |-> v[x]]) /\ PartSum(v, {}) = f[{}]
    BY <1>1, <2>1
  <2> QED BY <2>2 DEF IsSum
<1>3. ASSUME NEW U \in SUBSET S, U # {}
      PROVE  PartSum(v, U) = v[Pick(U)] + PartSum(v, U \ {Pick(U)})
  <2> DEFINE V == U \ {Pick(U)}
  <2>1. Pick(U) \in U /\ V \in SUBSET U /\ V \in SUBSET S /\ IsFiniteSet(V)
    BY <1>3, FS_Subset DEF Pick
  <2>2. PICK f : IsSum(f, U, [x \in U |-> v[x]]) /\ PartSum(v, U) = f[U]
    BY <1>1
  <2>3. PICK g : IsSum(g, V, [x \in V |-> v[x]]) /\ PartSum(v, V) = g[V]
    BY <1>1, <2>1
  <2>4. /\ f[{}] = 0
        /\ \A s \in SUBSET U : s # {} => f[s] = v[Pick(s)] + f[s \ {Pick(s)}]
    <3>1. \A s \in SUBSET U : s # {} => Pick(s) \in U
      BY DEF Pick
    <3> QED BY <2>2, <3>1 DEF IsSum
  <2>5. /\ g[{}] = 0
        /\ \A s \in SUBSET V : s # {} => g[s] = v[Pick(s)] + g[s \ {Pick(s)}]
    <3>1. \A s \in SUBSET V : s # {} => Pick(s) \in V
      BY DEF Pick
    <3> QED BY <2>3, <3>1 DEF IsSum
  <2> DEFINE Good == {s \in SUBSET V : f[s] = g[s]}
  <2> HIDE DEF V
  <2>6. {} \in Good
    BY <2>4, <2>5
  <2>7. ASSUME NEW s \in SUBSET V, s # {}, s \ {Pick(s)} \in Good PROVE s \in Good
    <3>1. s \in SUBSET U /\ f[s \ {Pick(s)}] = g[s \ {Pick(s)}]
      BY <2>1, <2>7
    <3> QED BY <2>4, <2>5, <2>7, <3>1
  <2> HIDE DEF Good
  <2>8. V \in Good
    BY <2>1, <2>6, <2>7, Parts
  <2>9. f[V] = g[V]
    BY <2>8 DEF Good
  <2> QED BY <1>3, <2>2, <2>3, <2>4, <2>9 DEF V
<1> QED BY <1>1, <1>2, <1>3

\* ... whichever element is taken.
LEMMA PartSumRemove ==
    ASSUME NEW S, IsFiniteSet(S), NEW v \in [S -> Nat], NEW U \in SUBSET S, NEW x \in U
    PROVE  PartSum(v, U) = v[x] + PartSum(v, U \ {x})
<1> DEFINE F(s) == PartSum(v, s)
           Fails(s) == s \in SUBSET S /\ \E z \in s : F(s) # v[z] + F(s \ {z})
           failing == {s \in SUBSET S : Fails(s)}
           sizes == {Cardinality(s) : s \in failing}
<1>1. /\ \A s \in SUBSET S : F(s) \in Nat
      /\ \A s \in SUBSET S : s # {} => F(s) = v[Pick(s)] + F(s \ {Pick(s)})
  BY PartSums
<1> HIDE DEF F
<1> SUFFICES ASSUME sizes # {} PROVE FALSE
  BY DEF F
<1>2. sizes \in SUBSET Nat
  <2>1. \A s \in SUBSET S : Cardinality(s) \in Nat
    BY FS_Subset, FS_CardinalityType
  <2> QED BY <2>1
<1>3. PICK n \in sizes : \A m \in sizes : n <= m
  BY <1>2, Least
<1>4. PICK s \in SUBSET S : Fails(s) /\ n = Cardinality(s)
  OBVIOUS
<1>5. PICK z \in s : F(s) # v[z] + F(s \ {z})
  BY <1>4
<1> DEFINE y == Pick(s)
<1>6. y \in s /\ Cardinality(s) \in Nat /\ IsFiniteSet(s)
  BY PickFacts, FS_Subset
<1>7. \A w \in s : Cardinality(s \ {w}) \in Nat /\ Cardinality(s \ {w}) < n
  <2> TAKE w \in s
  <2>1. IsFiniteSet(s \ {w}) /\ Cardinality(s \ {w}) = Cardinality(s) - 1
    BY ONLY <1>6, w \in s, FS_RemoveElement
  <2>2. Cardinality(s \ {w}) \in Nat
    BY ONLY <2>1, FS_CardinalityType
  <2> QED BY <1>4, <1>6, <2>1, <2>2
<1>8. F(s) = v[y] + F(s \ {y})
  BY <1>1
<1> HIDE DEF y
<1>9. y # z
  BY <1>5, <1>8
<1>10. ~Fails(s \ {y}) /\ ~Fails(s \ {z})
  <2>1. ASSUME NEW w \in s PROVE ~Fails(s \ {w})
    <3> DEFINE r == s \ {w}
               m == Cardinality(r)
    <3>1. r \in SUBSET S
      OBVIOUS
    <3>2. m \in Nat /\ n \in Nat /\ m < n
      BY <1>2, <1>3, <1>7
    <3> HIDE DEF sizes, m
    <3>3. m \notin sizes
      BY <1>3, <3>2
    <3> HIDE DEF Fails, r
    <3>4. ASSUME Fails(r) PROVE FALSE
      <4>1. r \in failing
        BY <3>1, <3>4
      <4> HIDE DEF failing
      <4>2. Cardinality(r) \in sizes
        BY <4>1 DEF sizes
      <4> QED BY <3>3, <4>2 DEF m
    <3> QED BY <3>4 DEF r
  <2> QED BY <1>6, <2>1
<1>11. F(s \ {y}) = v[z] + F((s \ {y}) \ {z}) /\ F(s \ {z}) = v[y] + F((s \ {z}) \ {y})
  BY <1>6, <1>9, <1>10
<1>12. (s \ {y}) \ {z} = (s \ {z}) \ {y}
  OBVIOUS
<1>13. v[y] \in Nat /\ v[z] \in Nat /\ F((s \ {z}) \ {y}) \in Nat
  BY <1>1, <1>6
<1>14. F(s \ {y}) = v[z] + F((s \ {z}) \ {y})
  BY ONLY <1>11, <1>12
<1>15. F(s) = v[y] + (v[z] + F((s \ {z}) \ {y})) /\ F(s \ {z}) = v[y] + F((s \ {z}) \ {y})
  BY ONLY <1>8, <1>11, <1>14
<1>16. F(s) = v[z] + F(s \ {z})
  BY ONLY <1>13, <1>15
<1> QED BY ONLY <1>5, <1>16

\* Summed up by what they are, the members of a finite set are summed up once each.
LEMMA SumOfSums ==
    ASSUME NEW S, IsFiniteSet(S), NEW T, IsFiniteSet(T), NEW key \in [T -> S], NEW v \in [T -> Nat]
    PROVE  SumFunction([k \in S |-> PartSum(v, {t \in T : key[t] = k})]) = SumFunction(v)
<1> DEFINE Held(U, k) == {t \in U : key[t] = k}
           sums(U) == [k \in S |-> PartSum(v, Held(U, k))]
           Good == {U \in SUBSET T : SumFunction(sums(U)) = PartSum(v, U)}
<1>0. /\ PartSum(v, {}) = 0
      /\ \A U \in SUBSET T : PartSum(v, U) \in Nat
  BY PartSums
<1>1. \A U \in SUBSET T : sums(U) \in [S -> Nat]
  BY <1>0
<1>2. {} \in Good
  <2>1. \A k \in S : Held({}, k) = {}
    OBVIOUS
  <2>2. \A k \in S : sums({})[k] = 0
    BY <1>0, <2>1
  <2> DEFINE none == sums({})
  <2>3. none \in [S -> Nat] /\ \A k \in S : none[k] = 0
    BY <1>1, <2>2
  <2> HIDE DEF none
  <2>4. SumFunction(none) = 0
    BY <2>3, SumFacts
  <2> QED BY <1>0, <2>4 DEF none
<1>3. ASSUME NEW U \in SUBSET T, U # {}, U \ {Pick(U)} \in Good PROVE U \in Good
  <2> DEFINE y == Pick(U)
             V == U \ {y}
             x == key[y]
             v1 == sums(V)
             v2 == sums(U)
  <2>1. y \in U /\ V \in SUBSET T
    BY <1>3, PickFacts
  <2>2. v1 \in [S -> Nat] /\ v2 \in [S -> Nat]
    BY <1>1, <2>1
  <2>3. x \in S /\ v[y] \in Nat
    BY <2>1
  <2>4. \A k \in S : k # x => Held(U, k) = Held(V, k)
    OBVIOUS
  <2>5. \A k \in S : k # x => v2[k] = v1[k]
    BY <2>4
  <2>6. Held(V, x) = Held(U, x) \ {y} /\ y \in Held(U, x) /\ Held(U, x) \in SUBSET T
    BY <2>1
  <2>7. v1[x] = PartSum(v, Held(V, x)) /\ v2[x] = PartSum(v, Held(U, x))
    BY <2>3
  <2>8. v2[x] = v[y] + v1[x]
    <3> DEFINE A == Held(U, x)
               B == Held(V, x)
    <3>1. B = A \ {y} /\ y \in A /\ A \in SUBSET T
      BY <2>6
    <3>2. v1[x] = PartSum(v, B) /\ v2[x] = PartSum(v, A)
      BY <2>7
    <3> HIDE DEF A, B, v1, v2, x, y
    <3>3. PartSum(v, A) = v[y] + PartSum(v, A \ {y})
      BY ONLY <3>1, IsFiniteSet(T), v \in [T -> Nat], PartSumRemove
    <3> QED BY <3>1, <3>2, <3>3
  <2>9. SumFunction(v1) = PartSum(v, V)
    BY <1>3
  <2>10. PartSum(v, U) = v[y] + PartSum(v, V)
    BY <1>3, PartSums
  <2> HIDE DEF sums, v1, v2, x, y
  <2>11. SumFunction(v2) + v1[x] = SumFunction(v1) + v2[x]
    BY ONLY <2>2, <2>3, <2>5, IsFiniteSet(S), SumChange
  <2>12. SumFunction(v2) \in Nat /\ SumFunction(v1) \in Nat /\ v1[x] \in Nat /\ v2[x] \in Nat
    <3>1. SumFunction(v2) \in Nat /\ SumFunction(v1) \in Nat
      BY ONLY <2>2, IsFiniteSet(S), SumFacts
    <3> QED BY <2>2, <2>3, <3>1
  <2>13. SumFunction(v2) = PartSum(v, U)
    BY <2>3, <2>8, <2>9, <2>10, <2>11, <2>12
  <2> QED BY <2>13 DEF v2
<1> HIDE DEF Good
<1>4. T \in Good
  BY <1>2, <1>3, Parts
<1>5. v = [x \in T |-> v[x]]
  OBVIOUS
<1> QED BY <1>4, <1>5 DEF Good, PartSum

\* A sum is the same whatever its terms are called.
LEMMA SumRenamed ==
    ASSUME NEW S, IsFiniteSet(S), NEW T, NEW name \in Bijection(T, S), IsFiniteSet(T),
           NEW v \in [T -> Nat], NEW w \in [S -> Nat], \A t \in T : w[name[t]] = v[t]
    PROVE  SumFunction(w) = SumFunction(v)
<1>1. /\ name \in [T -> S]
      /\ \A s \in S : \E t \in T : name[t] = s
      /\ \A t, u \in T : name[t] = name[u] => t = u
  BY DEF Bijection, Injection, IsInjective, Surjection
<1>2. SumFunction([k \in S |-> PartSum(v, {t \in T : name[t] = k})]) = SumFunction(v)
  BY ONLY <1>1, IsFiniteSet(S), IsFiniteSet(T), v \in [T -> Nat], SumOfSums
<1>3. ASSUME NEW k \in S PROVE PartSum(v, {t \in T : name[t] = k}) = w[k]
  <2>1. PICK t \in T : name[t] = k
    BY <1>1
  <2>2. {u \in T : name[u] = k} = {t}
    BY <1>1, <2>1
  <2>3. PartSum(v, {t}) = v[t] + PartSum(v, {t} \ {t}) /\ {t} \ {t} = {}
    BY PartSumRemove
  <2>4. PartSum(v, {}) = 0 /\ v[t] \in Nat
    BY PartSums
  <2> QED BY <2>1, <2>2, <2>3, <2>4
<1>4. w = [k \in S |-> PartSum(v, {t \in T : name[t] = k})]
  BY <1>3
<1> QED BY <1>2, <1>4

--------------------------------------------------------------------------
(* Recursion. *)

\* f starts at base and goes on from each number to the next as F says.
Unrolls(f, L, base, F) == f[0] = base /\ \A n \in 1..L : f[n] = F[n][f[n - 1]]

\* There is such a function.
LEMMA Unrolled ==
    ASSUME NEW S, NEW L \in Nat, NEW base \in S, NEW F \in [1..L -> [S -> S]]
    PROVE  \E f \in [0..L -> S] : Unrolls(f, L, base, F)
<1> DEFINE Goes(f, n) == f[0] = base /\ \A k \in 1..n : f[k] = F[k][f[k - 1]]
           Bad == {n \in 0..L : ~(\E f \in [0..n -> S] : Goes(f, n))}
<1>1. Bad = {}
  <2> SUFFICES ASSUME Bad # {} PROVE FALSE
    OBVIOUS
  <2>1. Bad \in SUBSET Nat
    OBVIOUS
  <2>2. PICK n \in Bad : \A m \in Bad : n <= m
    <3> HIDE DEF Bad
    <3> QED BY <2>1, Least
  <2>3. n # 0
    <3> DEFINE f == [k \in 0..0 |-> base]
    <3>1. f \in [0..0 -> S] /\ Goes(f, 0)
      OBVIOUS
    <3> QED BY <3>1
  <2>4. n \in 1..L /\ n - 1 \in 0..L /\ n - 1 < n
    BY <2>3
  <2>5. PICK f \in [0..n - 1 -> S] : Goes(f, n - 1)
    <3>1. n - 1 \notin Bad
      <4> HIDE DEF Bad
      <4> QED BY <2>1, <2>2, <2>4
    <3> QED BY <2>4, <3>1
  <2> DEFINE g == [k \in 0..n |-> IF k < n THEN f[k] ELSE F[n][f[n - 1]]]
  <2>6. g \in [0..n -> S]
    <3> SUFFICES ASSUME NEW k \in 0..n PROVE g[k] \in S
      OBVIOUS
    <3>1. CASE k < n
      BY <2>4, <3>1
    <3>2. CASE k = n
      <4>1. f[n - 1] \in S /\ F[n] \in [S -> S]
        BY <2>4
      <4> QED BY <3>2, <4>1
    <3> QED BY <2>4, <3>1, <3>2
  <2>7. Goes(g, n)
    <3>1. g[0] = base
      BY <2>4, <2>5
    <3> SUFFICES ASSUME NEW k \in 1..n PROVE g[k] = F[k][g[k - 1]]
      BY <3>1
    <3>2. g[k - 1] = f[k - 1]
      BY <2>4
    <3>3. CASE k < n
      BY <2>4, <2>5, <3>2, <3>3
    <3>4. CASE k = n
      BY <2>4, <3>2, <3>4
    <3> QED BY <2>4, <3>3, <3>4
  <2> QED BY <2>2, <2>6, <2>7
<1>2. L \in 0..L /\ L \notin Bad
  <2> HIDE DEF Bad
  <2> QED BY <1>1
<1>3. PICK f \in [0..L -> S] : Goes(f, L)
  BY <1>2
<1> QED BY <1>3 DEF Unrolls

\* The places of T, weighed by v, shared out among those of S by key.
Shares(S, T, key, v, group, share) ==
    /\ IsFiniteSet(S) /\ IsFiniteSet(T) /\ key \in [T -> S] /\ v \in [T -> Nat]
    /\ group \in [S -> SUBSET T] /\ \A k \in S : \A t \in T : (t \in group[k]) = (key[t] = k)
    /\ share \in [S -> Nat] /\ \A k \in S : share[k] = PartSum(v, group[k])

\* The shares together are the whole.
LEMMA SumOfShares ==
    ASSUME NEW S, NEW T, NEW key, NEW v, NEW group, NEW share, Shares(S, T, key, v, group, share)
    PROVE  SumFunction(share) = SumFunction(v)
<1>0. /\ IsFiniteSet(S) /\ IsFiniteSet(T) /\ key \in [T -> S] /\ v \in [T -> Nat]
      /\ group \in [S -> SUBSET T] /\ \A k \in S : \A t \in T : (t \in group[k]) = (key[t] = k)
      /\ share \in [S -> Nat] /\ \A k \in S : share[k] = PartSum(v, group[k])
  BY DEF Shares
<1>1. share = [k \in S |-> PartSum(v, {t \in T : key[t] = k})]
  <2>1. ASSUME NEW k \in S PROVE share[k] = PartSum(v, {t \in T : key[t] = k})
    <3>1. group[k] = {t \in T : key[t] = k}
      BY <1>0
    <3> QED BY <1>0, <3>1
  <2> QED BY <1>0, <2>1
<1>2. SumFunction([k \in S |-> PartSum(v, {t \in T : key[t] = k})]) = SumFunction(v)
  BY ONLY <1>0, SumOfSums
<1> QED BY <1>1, <1>2

\* A sum of sums may be taken the other way round.
LEMMA SumSwapped ==
    ASSUME NEW S, IsFiniteSet(S), NEW T, IsFiniteSet(T), NEW v \in [S -> [T -> Nat]]
    PROVE  SumFunction([x \in S |-> SumFunction(v[x])])
               = SumFunction([y \in T |-> SumFunction([x \in S |-> v[x][y]])])
<1> DEFINE P == S \X T
           w == [p \in P |-> v[p[1]][p[2]]]
           one == [p \in P |-> p[1]]
           two == [p \in P |-> p[2]]
           Row(x) == {p \in P : one[p] = x}
           Column(y) == {p \in P : two[p] = y}
           across == [x \in S |-> v[x]]
           down == [y \in T |-> [x \in S |-> v[x][y]]]
<1>1. IsFiniteSet(P)
  BY FS_Product
<1>2. w \in [P -> Nat] /\ one \in [P -> S] /\ two \in [P -> T]
  OBVIOUS
<1>3. /\ SumFunction([x \in S |-> PartSum(w, Row(x))]) = SumFunction(w)
      /\ SumFunction([y \in T |-> PartSum(w, Column(y))]) = SumFunction(w)
  <2> DEFINE rows == [x \in S |-> PartSum(w, Row(x))]
             columns == [y \in T |-> PartSum(w, Column(y))]
             inrow == [x \in S |-> Row(x)]
             incolumn == [y \in T |-> Column(y)]
  <2>0. \A U \in SUBSET P : PartSum(w, U) \in Nat
    BY <1>1, <1>2, PartSums
  <2>1. /\ inrow \in [S -> SUBSET P] /\ \A x \in S : \A p \in P : (p \in inrow[x]) = (one[p] = x)
        /\ rows \in [S -> Nat] /\ \A x \in S : rows[x] = PartSum(w, inrow[x])
    <3> HIDE DEF P, w, one
    <3> QED BY <2>0
  <2>2. /\ incolumn \in [T -> SUBSET P]
        /\ \A y \in T : \A p \in P : (p \in incolumn[y]) = (two[p] = y)
        /\ columns \in [T -> Nat] /\ \A y \in T : columns[y] = PartSum(w, incolumn[y])
    <3> HIDE DEF P, w, two
    <3> QED BY <2>0
  <2> HIDE DEF P, w, one, two, rows, columns, inrow, incolumn
  <2>3. Shares(S, P, one, w, inrow, rows) /\ Shares(T, P, two, w, incolumn, columns)
    BY <1>1, <1>2, <2>1, <2>2 DEF Shares
  <2>4. SumFunction(rows) = SumFunction(w) /\ SumFunction(columns) = SumFunction(w)
    BY <2>3, SumOfShares
  <2> QED BY <2>4 DEF rows, columns
<1>4. ASSUME NEW x \in S PROVE PartSum(w, Row(x)) = SumFunction(v[x])
  <2> DEFINE R == {p \in P : p[1] = x}
             name == [y \in T |-> <<x, y>>]
             u == [p \in R |-> w[p]]
             z == v[x]
  <2>1. Row(x) = R
    OBVIOUS
  <2>2. name \in Bijection(T, R)
    <3>1. name \in [T -> R]
      OBVIOUS
    <3>2. \A y, o \in T : name[y] = name[o] => y = o
      OBVIOUS
    <3>3. \A p \in R : \E y \in T : name[y] = p
      OBVIOUS
    <3> HIDE DEF name, R
    <3> QED BY <3>1, <3>2, <3>3 DEF Bijection, Injection, Surjection, IsInjective
  <2>3. IsFiniteSet(R)
    BY <1>1, FS_Subset
  <2>4. u \in [R -> Nat] /\ z \in [T -> Nat] /\ \A y \in T : u[name[y]] = z[y]
    OBVIOUS
  <2>5. PartSum(w, Row(x)) = SumFunction(u)
    BY <2>1 DEF PartSum
  <2> HIDE DEF R, name, u, z, w, P
  <2>6. SumFunction(u) = SumFunction(z)
    BY <2>2, <2>3, <2>4, SumRenamed
  <2> QED BY <2>5, <2>6 DEF z
<1>5. ASSUME NEW y \in T PROVE PartSum(w, Column(y)) = SumFunction([x \in S |-> v[x][y]])
  <2> DEFINE R == {p \in P : p[2] = y}
             name == [x \in S |-> <<x, y>>]
             u == [p \in R |-> w[p]]
             z == [x \in S |-> v[x][y]]
  <2>1. Column(y) = R
    OBVIOUS
  <2>2. name \in Bijection(S, R)
    <3>1. name \in [S -> R]
      OBVIOUS
    <3>2. \A x, o \in S : name[x] = name[o] => x = o
      OBVIOUS
    <3>3. \A p \in R : \E x \in S : name[x] = p
      OBVIOUS
    <3> HIDE DEF name, R
    <3> QED BY <3>1, <3>2, <3>3 DEF Bijection, Injection, Surjection, IsInjective
  <2>3. IsFiniteSet(R)
    BY <1>1, FS_Subset
  <2>4. u \in [R -> Nat] /\ z \in [S -> Nat] /\ \A x \in S : u[name[x]] = z[x]
    OBVIOUS
  <2>5. PartSum(w, Column(y)) = SumFunction(u)
    BY <2>1 DEF PartSum
  <2> HIDE DEF R, name, u, z, w, P
  <2>6. SumFunction(u) = SumFunction(z)
    BY <2>2, <2>3, <2>4, SumRenamed
  <2> QED BY <2>5, <2>6 DEF z
<1> HIDE DEF w, P, Row, Column
<1>6. [x \in S |-> PartSum(w, Row(x))] = [x \in S |-> SumFunction(v[x])]
  BY <1>4
<1>7. [y \in T |-> PartSum(w, Column(y))] = [y \in T |-> SumFunction([x \in S |-> v[x][y]])]
  BY <1>5
<1> QED BY <1>3, <1>6, <1>7

\* A factor may be taken out of a sum.
LEMMA SumScaled ==
    ASSUME NEW S, IsFiniteSet(S), NEW v \in [S -> Nat], NEW k \in Nat
    PROVE  SumFunction([x \in S |-> k * v[x]]) = k * SumFunction(v)
<1> DEFINE K == 1..k
           w == [x \in S |-> [i \in K |-> v[x]]]
<1>1. IsFiniteSet(K) /\ Cardinality(K) = k
  BY FS_Interval
<1>2. w \in [S -> [K -> Nat]]
  OBVIOUS
<1>3. ASSUME NEW x \in S PROVE SumFunction(w[x]) = k * v[x]
  <2> DEFINE c == v[x]
  <2>1. c \in Nat /\ w[x] = [i \in K |-> c]
    OBVIOUS
  <2> HIDE DEF c, K, w
  <2>2. SumFunction([i \in K |-> c]) = c * Cardinality(K)
    BY <1>1, <2>1, SumConstant
  <2>3. c * k = k * c
    BY <2>1
  <2> QED BY <1>1, <2>1, <2>2, <2>3 DEF c
<1>4. \A i \in K : [x \in S |-> w[x][i]] = v
  OBVIOUS
<1> DEFINE total == SumFunction(v)
<1> HIDE DEF K, w
<1>5. total \in Nat
  BY SumFacts DEF total
<1> HIDE DEF total
<1>6. SumFunction([x \in S |-> SumFunction(w[x])])
          = SumFunction([i \in K |-> SumFunction([x \in S |-> w[x][i]])])
  BY <1>1, <1>2, SumSwapped
<1>7. [x \in S |-> SumFunction(w[x])] = [x \in S |-> k * v[x]]
  BY <1>3
<1>8. [i \in K |-> SumFunction([x \in S |-> w[x][i]])] = [i \in K |-> total]
  BY <1>4 DEF total
<1>9. SumFunction([i \in K |-> total]) = total * Cardinality(K)
  BY <1>1, <1>5, SumConstant
<1>10. total * k = k * total
  BY <1>5
<1> QED BY <1>1, <1>6, <1>7, <1>8, <1>9, <1>10 DEF total

\* A part is no more than the whole.
LEMMA PartWithin ==
    ASSUME NEW S, IsFiniteSet(S), NEW v \in [S -> Nat], NEW U \in SUBSET S
    PROVE  PartSum(v, U) \in Nat /\ PartSum(v, U) <= SumFunction(v)
<1> DEFINE all == PartSum(v, S)
           Good == {W \in SUBSET S : PartSum(v, S \ W) <= all}
<1>1. \A W \in SUBSET S : PartSum(v, W) \in Nat
  BY PartSums
<1>2. {} \in Good
  <2>1. S \ {} = S /\ all \in Nat
    BY <1>1
  <2> QED BY <2>1
<1>3. ASSUME NEW W \in SUBSET S, W # {}, W \ {Pick(W)} \in Good PROVE W \in Good
  <2> DEFINE x == Pick(W)
             more == S \ (W \ {x})
             less == S \ W
  <2>1. x \in W /\ x \in more /\ more \in SUBSET S /\ less = more \ {x} /\ less \in SUBSET S
    <3>1. x \in W
      BY <1>3, PickFacts
    <3> HIDE DEF x
    <3> QED BY <3>1
  <2>2. PartSum(v, more) <= all
    BY <1>3
  <2> HIDE DEF x, more, less
  <2>3. PartSum(v, more) = v[x] + PartSum(v, more \ {x})
    BY <2>1, PartSumRemove
  <2>4. v[x] \in Nat /\ PartSum(v, less) \in Nat /\ PartSum(v, more) \in Nat /\ all \in Nat
    BY <1>1, <2>1
  <2>5. PartSum(v, less) <= all
    BY <2>1, <2>2, <2>3, <2>4
  <2> QED BY <2>5 DEF less
<1> HIDE DEF Good
<1>4. SUBSET S \subseteq Good
  BY <1>2, <1>3, Parts
<1>5. S \ U \in Good
  BY <1>4
<1>6. S \ (S \ U) = U
  OBVIOUS
<1>7. v = [x \in S |-> v[x]]
  OBVIOUS
<1>8. all = SumFunction(v)
  BY <1>7 DEF PartSum
<1> QED BY <1>1, <1>5, <1>6, <1>8 DEF Good

--------------------------------------------------------------------------
(* Orders on finite sets. *)

\* prec gives for each member those before it, in a strict order of all of them.
IsOrder(S, prec) ==
    /\ prec \in [S -> SUBSET S]
    /\ \A i \in S : i \notin prec[i]
    /\ \A i \in S : \A j \in prec[i] : prec[j] \subseteq prec[i]
    /\ \A i, j \in S : i # j => i \in prec[j] \/ j \in prec[i]

\* Counted by those before it, each member has a place of its own, and each place a member.
LEMMA OrderFacts ==
    ASSUME NEW S, IsFiniteSet(S), NEW prec, IsOrder(S, prec)
    PROVE  /\ Cardinality(S) \in Nat
           /\ \A i \in S : Cardinality(prec[i]) \in 0..Cardinality(S) - 1
           /\ \A i \in S : \A j \in prec[i] : Cardinality(prec[j]) < Cardinality(prec[i])
           /\ \A i, j \in S : Cardinality(prec[i]) = Cardinality(prec[j]) => i = j
           /\ \A n \in 1..Cardinality(S) : \E i \in S : Cardinality(prec[i]) = n - 1
<1> DEFINE count == Cardinality(S)
           place == [i \in S |-> Cardinality(prec[i]) + 1]
<1>1. /\ prec \in [S -> SUBSET S]
      /\ \A i \in S : i \notin prec[i]
      /\ \A i \in S : \A j \in prec[i] : prec[j] \subseteq prec[i]
      /\ \A i, j \in S : i # j => i \in prec[j] \/ j \in prec[i]
  BY DEF IsOrder
<1>2. count \in Nat
  BY FS_CardinalityType
<1>3. ASSUME NEW U, IsFiniteSet(U), NEW T \in SUBSET U, NEW x \in U, x \notin T
      PROVE  IsFiniteSet(T) /\ Cardinality(T) \in Nat /\ Cardinality(U) \in Nat
             /\ Cardinality(T) < Cardinality(U)
  <2>1. IsFiniteSet(T) /\ Cardinality(T) <= Cardinality(U) /\ (Cardinality(U) = Cardinality(T) => U = T)
    BY <1>3, FS_Subset
  <2>2. Cardinality(T) \in Nat /\ Cardinality(U) \in Nat
    BY <1>3, <2>1, FS_CardinalityType
  <2>3. U # T
    BY <1>3
  <2> QED BY <2>1, <2>2, <2>3
<1>4. ASSUME NEW i \in S
      PROVE  IsFiniteSet(prec[i]) /\ Cardinality(prec[i]) \in 0..count - 1
  <2> DEFINE T == prec[i]
  <2>1. T \in SUBSET S /\ i \notin T
    BY <1>1
  <2> HIDE DEF T
  <2>2. IsFiniteSet(T) /\ Cardinality(T) \in Nat /\ Cardinality(T) < count
    BY <1>3, <2>1
  <2> QED BY <1>2, <2>2 DEF T
<1>5. ASSUME NEW i \in S, NEW j \in prec[i] PROVE Cardinality(prec[j]) < Cardinality(prec[i])
  <2> DEFINE T == prec[j]
             U == prec[i]
  <2>1. j \in S /\ j \in U /\ j \notin T /\ T \in SUBSET U /\ IsFiniteSet(U)
    BY <1>1, <1>4
  <2> HIDE DEF T, U
  <2>2. Cardinality(T) < Cardinality(U)
    BY <1>3, <2>1
  <2> QED BY <2>2 DEF T, U
<1>6. ASSUME NEW i \in S, NEW j \in S, Cardinality(prec[i]) = Cardinality(prec[j]) PROVE i = j
  <2> SUFFICES ASSUME i # j PROVE FALSE
    OBVIOUS
  <2>1. Cardinality(prec[i]) \in Int /\ Cardinality(prec[j]) \in Int
    BY <1>4
  <2>2. i \in prec[j] \/ j \in prec[i]
    BY <1>1
  <2>3. Cardinality(prec[i]) < Cardinality(prec[j]) \/ Cardinality(prec[j]) < Cardinality(prec[i])
    BY <1>5, <2>2
  <2> QED BY <1>6, <2>1, <2>3
<1>7. \A i \in S : place[i] \in 1..count /\ place[i] - 1 = Cardinality(prec[i])
  BY <1>2, <1>4
<1>8. \A i, j \in S : place[i] = place[j] => i = j
  <2> SUFFICES ASSUME NEW i \in S, NEW j \in S, place[i] = place[j] PROVE i = j
    OBVIOUS
  <2> HIDE DEF place
  <2>1. Cardinality(prec[i]) = Cardinality(prec[j])
    BY <1>7
  <2> QED BY <1>6, <2>1
<1>9. place \in Injection(S, 1..count)
  <2>1. place = [i \in S |-> place[i]]
    OBVIOUS
  <2> HIDE DEF place
  <2> QED BY <1>7, <1>8, <2>1 DEF Injection, IsInjective
<1>10. IsFiniteSet(1..count) /\ Cardinality(1..count) = count
  BY <1>2, FS_Interval
<1>11. place \in Surjection(S, 1..count)
  <2> HIDE DEF place, count
  <2>1. Cardinality(S) = Cardinality(1..count)
    BY <1>10 DEF count
  <2> QED BY <1>9, <1>10, <2>1, FS_Injection
<1>12. \A n \in 1..count : \E i \in S : Cardinality(prec[i]) = n - 1
  <2> SUFFICES ASSUME NEW n \in 1..count PROVE \E i \in S : Cardinality(prec[i]) = n - 1
    OBVIOUS
  <2> HIDE DEF place
  <2>1. PICK i \in S : place[i] = n
    BY <1>11 DEF Surjection
  <2> QED BY <1>7, <2>1
<1> QED BY <1>2, <1>4, <1>5, <1>6, <1>12

\* What is above, and of what is level the earlier: a stable sort's order.
LEMMA StableOrder ==
    ASSUME NEW S \in SUBSET Nat, NEW over \in [S -> SUBSET S],
           \A i \in S : \A j \in over[i] : i \notin over[j],
           \A i, j, l \in S : i \notin over[j] /\ j \notin over[l] => i \notin over[l],
           NEW prec, prec = [i \in S |-> {j \in S : j \in over[i] \/ (i \notin over[j] /\ j < i)}]
    PROVE  IsOrder(S, prec)
<1>1. \A i, j \in S : (j \in prec[i]) <=> (j \in over[i] \/ (i \notin over[j] /\ j < i))
  OBVIOUS
<1>2. prec \in [S -> SUBSET S]
  OBVIOUS
<1>3. ASSUME NEW i \in S PROVE i \notin prec[i]
  <2>1. ~(i < i) /\ i \notin over[i]
    OBVIOUS
  <2> QED BY <1>1, <2>1
<1>4. ASSUME NEW i \in S, NEW j \in prec[i], NEW l \in prec[j] PROVE l \in prec[i]
  <2>1. j \in S /\ l \in S /\ i \in Nat /\ j \in Nat /\ l \in Nat
    BY <1>2
  <2>2. /\ j \in over[i] \/ (i \notin over[j] /\ j < i)
        /\ l \in over[j] \/ (j \notin over[l] /\ l < j)
    BY <1>1, <1>4, <2>1
  <2>3. i \notin over[j] /\ j \notin over[l]
    BY <2>1, <2>2
  <2>4. i \notin over[l]
    BY <2>1, <2>3
  <2>5. CASE l \in over[i]
    BY <1>1, <2>1, <2>5
  <2>6. CASE l \notin over[i]
    <3>1. j \notin over[i]
      BY <2>1, <2>3, <2>6
    <3>2. l \notin over[j]
      BY <2>1, <2>3, <2>6
    <3>3. l < i
      BY <2>1, <2>2, <3>1, <3>2
    <3> QED BY <1>1, <2>1, <2>4, <3>3
  <2> QED BY <2>5, <2>6
<1>5. ASSUME NEW i \in S, NEW j \in S, i # j PROVE i \in prec[j] \/ j \in prec[i]
  <2>1. i < j \/ j < i
    BY <1>5
  <2> QED BY <1>1, <2>1
<1> QED BY <1>2, <1>3, <1>4, <1>5 DEF IsOrder

--------------------------------------------------------------------------
(* Differences. *)

\* A sum of differences is the difference of the sums.
DiffersIn(S, a, b, v) ==
    /\ IsFiniteSet(S) /\ a \in [S -> Nat] /\ b \in [S -> Nat] /\ v \in [S -> Int]
    /\ \A x \in S : v[x] = a[x] - b[x]

LEMMA SumDifference ==
    ASSUME NEW S, NEW a, NEW b, NEW v, DiffersIn(S, a, b, v)
    PROVE  SumFunction(v) = SumFunction(a) - SumFunction(b)
<1>0. /\ IsFiniteSet(S) /\ a \in [S -> Nat] /\ b \in [S -> Nat] /\ v \in [S -> Int]
      /\ \A x \in S : v[x] = a[x] - b[x]
  BY DEF DiffersIn
<1>1. PICK f : IsSum(f, S, v) /\ SumFunction(v) = f[S]
  <2>1. DOMAIN v = S /\ \E f : IsSum(f, S, v)
    BY <1>0, SumExists
  <2> QED BY <2>1, SumIs
<1>2. PICK g : IsSum(g, S, a) /\ SumFunction(a) = g[S]
  <2>1. DOMAIN a = S /\ \E g : IsSum(g, S, a)
    BY <1>0, SumExists
  <2> QED BY <2>1, SumIs
<1>3. PICK h : IsSum(h, S, b) /\ SumFunction(b) = h[S]
  <2>1. DOMAIN b = S /\ \E h : IsSum(h, S, b)
    BY <1>0, SumExists
  <2> QED BY <2>1, SumIs
<1>4. /\ f[{}] = 0 /\ \A s \in SUBSET S : s # {} => f[s] = v[Pick(s)] + f[s \ {Pick(s)}]
      /\ g[{}] = 0 /\ \A s \in SUBSET S : s # {} => g[s] = a[Pick(s)] + g[s \ {Pick(s)}]
      /\ h[{}] = 0 /\ \A s \in SUBSET S : s # {} => h[s] = b[Pick(s)] + h[s \ {Pick(s)}]
  BY <1>1, <1>2, <1>3 DEF IsSum
<1> DEFINE Good == {s \in SUBSET S : g[s] \in Int /\ h[s] \in Int /\ f[s] = g[s] - h[s]}
<1>5. {} \in Good
  <2>1. {} \in SUBSET S
    OBVIOUS
  <2> QED BY ONLY <1>4, <2>1
<1>6. ASSUME NEW s \in SUBSET S, s # {}, s \ {Pick(s)} \in Good PROVE s \in Good
  <2> DEFINE y == Pick(s)
             t == s \ {y}
  <2>1. y \in S
    BY <1>0, <1>6, PickFacts
  <2>2. /\ f[s] = v[y] + f[t] /\ g[s] = a[y] + g[t] /\ h[s] = b[y] + h[t]
        /\ g[t] \in Int /\ h[t] \in Int /\ f[t] = g[t] - h[t]
        /\ v[y] = a[y] - b[y] /\ a[y] \in Nat /\ b[y] \in Nat
    BY <1>0, <1>4, <1>6, <2>1
  <2> HIDE DEF y, t
  <2> QED BY <2>2
<1> HIDE DEF Good
<1>7. SUBSET S \subseteq Good
  BY <1>0, <1>5, <1>6, Parts
<1>8. S \in Good
  BY <1>7
<1> QED BY <1>1, <1>2, <1>3, <1>8 DEF Good

\* What is left between neighbours adds up to what is left between the ends.
StepsOf(n, r, i, v) ==
    /\ n \in Nat /\ r \in [1..n -> Nat] /\ i \in 1..n /\ v \in [i..n - 1 -> Int]
    /\ \A j \in i..n - 1 : v[j] = r[j] - r[j + 1]

LEMMA Telescope ==
    ASSUME NEW n, NEW r, NEW i, NEW v, StepsOf(n, r, i, v)
    PROVE  r[i] = r[n] + SumFunction(v)
<1>0. /\ n \in Nat /\ r \in [1..n -> Nat] /\ i \in 1..n /\ v \in [i..n - 1 -> Int]
      /\ \A j \in i..n - 1 : v[j] = r[j] - r[j + 1]
  BY DEF StepsOf
<1> DEFINE S == 1..n
           T == i..n - 1
           a == [j \in T |-> r[j]]
           b == [j \in T |-> r[j + 1]]
           rest == [j \in i + 1..n |-> r[j]]
           name == [j \in T |-> j + 1]
<1>1. /\ IsFiniteSet(S) /\ IsFiniteSet(T) /\ IsFiniteSet(i + 1..n)
      /\ i..n \in SUBSET S /\ i \in i..n /\ n \in i..n
      /\ i..n \ {i} = i + 1..n /\ i..n \ {n} = T
  <2>0. i \in Int /\ n \in Int /\ 1 <= i /\ i <= n
    BY <1>0
  <2>1. i \in Int /\ n \in Int /\ n - 1 \in Int /\ i + 1 \in Int
    BY <2>0
  <2>2. IsFiniteSet(1..n) /\ IsFiniteSet(i..n - 1) /\ IsFiniteSet(i + 1..n)
    BY <2>1, FS_Interval
  <2>3. i..n \in SUBSET S /\ i \in i..n /\ n \in i..n
    BY ONLY <2>0
  <2>4. \A x : x \in i..n \ {i} <=> x \in i + 1..n
    BY ONLY <2>0
  <2>5. \A x : x \in i..n \ {n} <=> x \in T
    BY ONLY <2>0
  <2>6. i..n \ {i} = i + 1..n
    BY ONLY <2>4
  <2>7. i..n \ {n} = T
    <3> HIDE DEF T
    <3> QED BY ONLY <2>5
  <2> QED BY <2>2, <2>3, <2>6, <2>7
<1>2. a \in [T -> Nat] /\ b \in [T -> Nat] /\ \A j \in T : v[j] = a[j] - b[j]
  BY <1>0
<1>3. SumFunction(v) = SumFunction(a) - SumFunction(b)
  <2> HIDE DEF a, b, T
  <2>1. v \in [T -> Int]
    BY <1>0 DEF T
  <2>2. DiffersIn(T, a, b, v)
    BY <1>1, <1>2, <2>1 DEF DiffersIn
  <2> QED BY ONLY <2>2, SumDifference
<1>4. PartSum(r, i..n) = r[i] + SumFunction(rest) /\ PartSum(r, i..n) = r[n] + SumFunction(a)
  <2>1. /\ PartSum(r, i..n) = r[i] + PartSum(r, i..n \ {i})
        /\ PartSum(r, i..n) = r[n] + PartSum(r, i..n \ {n})
    <3> DEFINE U == i..n
    <3>1. U \in SUBSET S /\ i \in U /\ n \in U /\ IsFiniteSet(S) /\ r \in [S -> Nat]
      BY <1>0, <1>1
    <3> HIDE DEF U, S
    <3>2. PartSum(r, U) = r[i] + PartSum(r, U \ {i}) /\ PartSum(r, U) = r[n] + PartSum(r, U \ {n})
      BY ONLY <3>1, PartSumRemove
    <3> QED BY <3>2 DEF U
  <2>2. PartSum(r, i + 1..n) = SumFunction(rest) /\ PartSum(r, T) = SumFunction(a)
    BY DEF PartSum
  <2> QED BY <1>1, <2>1, <2>2
<1>5. SumFunction(b) = SumFunction(rest)
  <2>1. name \in Bijection(T, i + 1..n)
    <3>1. name \in [T -> i + 1..n]
      BY <1>0
    <3>2. \A s \in i + 1..n : \E t \in T : name[t] = s
      <4> SUFFICES ASSUME NEW s \in i + 1..n PROVE \E t \in T : name[t] = s
        OBVIOUS
      <4>1. s - 1 \in T /\ name[s - 1] = s
        BY <1>0
      <4> QED BY <4>1
    <3>3. \A t, u \in T : name[t] = name[u] => t = u
      BY <1>0
    <3> HIDE DEF name, T
    <3> QED BY <3>1, <3>2, <3>3 DEF Bijection, Injection, IsInjective, Surjection
  <2>2. rest \in [i + 1..n -> Nat] /\ \A t \in T : rest[name[t]] = b[t]
    BY <1>0
  <2> DEFINE R == i + 1..n
  <2> HIDE DEF rest, name, b, T, R
  <2>3. SumFunction(rest) = SumFunction(b)
    <3>1. /\ IsFiniteSet(R) /\ IsFiniteSet(T) /\ name \in Bijection(T, R) /\ b \in [T -> Nat]
          /\ rest \in [R -> Nat] /\ \A t \in T : rest[name[t]] = b[t]
      BY <1>1, <1>2, <2>1, <2>2 DEF R
    <3> QED BY ONLY <3>1, SumRenamed
  <2> QED BY <2>3
<1>6. SumFunction(rest) \in Nat /\ SumFunction(a) \in Nat
  <2>1. rest \in [i + 1..n -> Nat]
    BY <1>0
  <2> DEFINE R == i + 1..n
  <2>2. IsFiniteSet(R) /\ rest \in [R -> Nat] /\ IsFiniteSet(T) /\ a \in [T -> Nat]
    BY <1>1, <1>2, <2>1
  <2> HIDE DEF rest, R, a, T
  <2> QED BY ONLY <2>2, SumFacts
<1>7. r[i] \in Nat /\ r[n] \in Nat
  BY <1>0, <1>1
<1> HIDE DEF a, rest, b
<1> QED BY <1>3, <1>4, <1>5, <1>6, <1>7

\* The sums of one and of two.
LEMMA SumOne ==
    ASSUME NEW x, NEW v, v \in [{x} -> Nat]
    PROVE  SumFunction(v) = v[x] /\ v[x] \in Nat
<1> DEFINE S == {x}
<1>1. IsFiniteSet(S) /\ v \in [S -> Nat] /\ S \in SUBSET S /\ x \in S /\ S \ {x} = {}
  BY FS_Singleton
<1> HIDE DEF S
<1>2. PartSum(v, S) = v[x] + PartSum(v, S \ {x}) /\ PartSum(v, {}) = 0
  BY ONLY <1>1, PartSumRemove, PartSums
<1>3. PartSum(v, S) = SumFunction(v)
  <2>1. [z \in S |-> v[z]] = v
    BY <1>1
  <2> QED BY <2>1 DEF PartSum
<1>4. v[x] \in Nat
  BY <1>1
<1> QED BY <1>1, <1>2, <1>3, <1>4

LEMMA SumTwo ==
    ASSUME NEW x, NEW y, x # y, NEW v, v \in [{x, y} -> Nat]
    PROVE  SumFunction(v) = v[x] + v[y] /\ v[x] \in Nat /\ v[y] \in Nat
<1> DEFINE S == {x, y}
           T == {y}
<1>1. IsFiniteSet(S) /\ v \in [S -> Nat] /\ S \in SUBSET S /\ x \in S /\ S \ {x} = T /\ T \in SUBSET S
      /\ y \in T /\ T \ {y} = {}
  <2>1. IsFiniteSet({y} \cup {x}) /\ {y} \cup {x} = S
    BY FS_Singleton, FS_AddElement
  <2> QED BY <2>1
<1> HIDE DEF S, T
<1>2. PartSum(v, S) = v[x] + PartSum(v, S \ {x}) /\ PartSum(v, T) = v[y] + PartSum(v, T \ {y})
      /\ PartSum(v, {}) = 0
  BY ONLY <1>1, PartSumRemove, PartSums
<1>3. PartSum(v, S) = SumFunction(v)
  <2>1. [z \in S |-> v[z]] = v
    BY <1>1
  <2> QED BY <2>1 DEF PartSum
<1>4. v[x] \in Nat /\ v[y] \in Nat
  BY <1>1
<1>5. PartSum(v, T) = v[y] + 0 /\ SumFunction(v) = v[x] + PartSum(v, T)
  BY ONLY <1>1, <1>2, <1>3
<1> QED BY ONLY <1>4, <1>5

\* One that may be in a part, and what it leaves.
LEMMA TakeOut ==
    ASSUME NEW S, IsFiniteSet(S), NEW v \in [S -> Nat], NEW U \in SUBSET S, NEW x
    PROVE  /\ PartSum(v, U) = (IF x \in U THEN v[x] ELSE 0) + PartSum(v, U \ {x})
           /\ PartSum(v, U) \in Nat /\ PartSum(v, U \ {x}) \in Nat
<1>1. PartSum(v, U) \in Nat /\ PartSum(v, U \ {x}) \in Nat
  BY PartSums
<1>2. CASE x \in U
  BY <1>1, <1>2, PartSumRemove
<1>3. CASE x \notin U
  <2>1. U \ {x} = U
    BY <1>3
  <2> QED BY <1>1, <1>3, <2>1
<1> QED BY <1>1, <1>2, <1>3

\* One more term, at the end.
Longer(v, w, m) ==
    /\ m \in Nat /\ v \in [1..m + 1 -> Nat] /\ w \in [1..m -> Nat] /\ \A i \in 1..m : v[i] = w[i]

LEMMA SumNext ==
    ASSUME NEW v, NEW w, NEW m, Longer(v, w, m)
    PROVE  SumFunction(v) = SumFunction(w) + v[m + 1] /\ SumFunction(w) \in Nat
<1> DEFINE S == 1..m + 1
           U == S \ {m + 1}
<1>1. m \in Nat /\ v \in [S -> Nat] /\ w \in [1..m -> Nat] /\ \A i \in 1..m : v[i] = w[i]
  BY DEF Longer
<1>2. IsFiniteSet(S) /\ IsFiniteSet(1..m)
  <2>1. 1 \in Int /\ m \in Int /\ m + 1 \in Int
    BY <1>1
  <2> QED BY <2>1, FS_Interval
<1>3. S \in SUBSET S /\ m + 1 \in S /\ U = 1..m
  BY <1>1
<1> HIDE DEF S
<1>4. PartSum(v, S) = v[m + 1] + PartSum(v, U)
  BY <1>1, <1>2, <1>3, PartSumRemove
<1> HIDE DEF U
<1>5. PartSum(v, S) = SumFunction(v)
  <2>1. v = [x \in S |-> v[x]]
    BY <1>1
  <2> QED BY <2>1 DEF PartSum
<1>6. PartSum(v, U) = SumFunction(w)
  <2>1. w = [x \in U |-> v[x]]
    BY <1>1, <1>3
  <2> QED BY <2>1 DEF PartSum
<1>7. SumFunction(w) \in Nat
  BY <1>1, <1>2, SumFacts
<1> QED BY <1>1, <1>3, <1>4, <1>5, <1>6, <1>7

\* What is worked out step by step is where each step leaves it.
LEMMA Inductively ==
    ASSUME NEW L \in Nat, NEW f, NEW G, f[0] \in G[0],
           \A n \in 1..L : f[n - 1] \in G[n - 1] => f[n] \in G[n]
    PROVE  \A n \in 0..L : f[n] \in G[n]
<1> DEFINE bad == {n \in 0..L : f[n] \notin G[n]}
<1> SUFFICES ASSUME bad # {} PROVE FALSE
  OBVIOUS
<1>1. bad \in SUBSET Nat
  OBVIOUS
<1>2. PICK n \in bad : \A m \in bad : n <= m
  <2> HIDE DEF bad
  <2> QED BY <1>1, Least
<1>3. n # 0
  BY <1>2
<1>4. n \in 1..L /\ n - 1 \in 0..L /\ ~(n <= n - 1)
  BY <1>3
<1> QED BY <1>2, <1>4
====
