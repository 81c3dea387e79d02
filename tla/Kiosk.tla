---- MODULE Kiosk ----
(***************************************************************************)
(* The limits of a public demo (server/kiosk.py): a bucket of tokens per   *)
(* address and one for everybody, both asked before a request that reads   *)
(* over the network is served.  A token is Cost units; in a tick a         *)
(* visitor's bucket regains Rate of them and the shared one GlobalRate:    *)
(* two settings, which need not be alike.  take() works out what has come  *)
(* back since the last call; here it comes back at each tick, which is the *)
(* same because both stop at a full bucket.                                *)
(***************************************************************************)
EXTENDS Naturals, FiniteSets

CONSTANTS Address,
          Cost,             \* units of a token
          Burst, Rate,      \* BURST in tokens, PER_MINUTE in units a tick
          GlobalBurst, GlobalRate,      \* GLOBAL_BURST, GLOBAL_PER_MINUTE
          MaxTracked,       \* MAX_TRACKED
          Window,           \* ticks of the upstream's window
          Ticks             \* bound

ASSUME KioskAssumption ==
    /\ Cost \in Nat \ {0} /\ Burst \in Nat \ {0} /\ GlobalBurst \in Nat \ {0}
    /\ Rate \in Nat \ {0} /\ GlobalRate \in Nat \ {0}
    /\ MaxTracked \in Nat \ {0} /\ Window \in Nat \ {0} /\ Ticks \in Nat

VARIABLES
    heavy,      \* HEAVY, by address: units
    shared,     \* SHARED: units
    tracked,    \* the addresses HEAVY has an entry for
    served,     \* history: requests served in the last n ticks, for n up to Window
    askers,     \* history: the addresses that have asked
    ticks

kioskVars == <<heavy, shared, tracked, served, askers, ticks>>

Full == Burst * Cost
GlobalFull == GlobalBurst * Cost
NoMore(bound, n) == IF bound < n THEN bound ELSE n

KioskInit ==
    /\ heavy = [a \in Address |-> Full] /\ shared = GlobalFull
    /\ tracked = {} /\ served = [n \in 1..Window |-> 0] /\ askers = {} /\ ticks = 0

\* Time passes: something comes back to every bucket that is not full.
Tick ==
    /\ ticks < Ticks /\ ticks' = ticks + 1
    /\ heavy' = [a \in Address |-> NoMore(Full, heavy[a] + Rate)]
    /\ shared' = NoMore(GlobalFull, shared + GlobalRate)
    /\ served' = [n \in 1..Window |-> IF n = 1 THEN 0 ELSE served[n - 1]]
    /\ UNCHANGED <<tracked, askers>>

\* HEAVY.take's view of the buckets: past MaxTracked addresses all are forgotten, and
\* one that is forgotten is full.
Swept == IF Cardinality(tracked) > MaxTracked
         THEN [at |-> [a \in Address |-> Full], of |-> {}]
         ELSE [at |-> heavy, of |-> tracked]

\* One more in every span of ticks that ends now.
OneMore == [n \in 1..Window |-> served[n] + 1]

\* Mutant: what everybody shares is spent first.
LimitHeavySharedFirst(a) ==
    LET now == Swept
        busy == shared < Cost
        own == now.at[a] < Cost
    IN  /\ shared' = IF busy THEN shared ELSE shared - Cost
        /\ heavy' = IF busy \/ own THEN now.at ELSE [now.at EXCEPT ![a] = @ - Cost]
        /\ tracked' = now.of \cup {a} /\ askers' = askers \cup {a}
        /\ served' = IF busy \/ own THEN served ELSE OneMore
        /\ UNCHANGED ticks

\* limit_heavy: the caller's own token first, and it is not given back when the shared
\* bucket then refuses.
LimitHeavy(a) ==
    LET now == Swept
        own == now.at[a] < Cost
        busy == shared < Cost
    IN  /\ heavy' = IF own THEN now.at ELSE [now.at EXCEPT ![a] = @ - Cost]
        /\ shared' = IF own \/ busy THEN shared ELSE shared - Cost
        /\ tracked' = now.of \cup {a} /\ askers' = askers \cup {a}
        /\ served' = IF own \/ busy THEN served ELSE OneMore
        /\ UNCHANGED ticks

KioskNext == Tick \/ \E a \in Address : LimitHeavy(a)

--------------------------------------------------------------------------

\* What a visitor regains in a tick over what everybody does.
Gain == IF Rate > GlobalRate THEN Rate - GlobalRate ELSE 0

\* However many callers there are and however often their buckets are forgotten, the
\* upstream is asked for no more in a window than the shared burst and what comes back
\* while it lasts.  And while one address is all that has asked, it has taken no more of
\* what is shared than its own burst, and what its rate has brought it over the shared
\* one's: where its rate is no higher, "a single caller cannot drain the shared
\* allowance" (limit_heavy); under GLOBAL_QPM=3 beside 6, which kiosk.py advises, it
\* can, as slowly as this says.
AllowancesHold ==
    /\ heavy \in [Address -> 0..Full] /\ shared \in 0..GlobalFull
    /\ served[Window] * Cost <= GlobalFull + Window * GlobalRate
    /\ Cardinality(askers) = 1 => GlobalFull - shared <= Full + ticks * Gain
====
