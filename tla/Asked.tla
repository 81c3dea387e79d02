---- MODULE Asked ----
(***************************************************************************)
(* One call of a function that keeps no state: what it is asked, chosen at *)
(* the start from what its callers can ask, and its answer.  The modules   *)
(* that extend this one each add a family of calls and the step that       *)
(* answers them; Answers puts them side by side.                           *)
(***************************************************************************)
EXTENDS Integers, Sequences, FiniteSets, Functions

VARIABLES call, answer

Unanswered == [unanswered |-> TRUE]

\* op is answered with a.
Reply(op, a) ==
    /\ answer = Unanswered
    /\ call.op = op
    /\ answer' = a
    /\ UNCHANGED call

\* This call has been answered.
Answered(op) == call.op = op /\ answer # Unanswered

SumOf(S, f(_)) == SumFunction([x \in S |-> f(x)])

\* The entries of s at some of its places, in their order.
At(s, places) ==
    [n \in 1..Cardinality(places) |->
        s[CHOOSE i \in places : Cardinality({j \in places : j <= i}) = n]]

\* A record, and of another the fields it lacks.
Joined(f, g) == [x \in DOMAIN f \cup DOMAIN g |-> IF x \in DOMAIN f THEN f[x] ELSE g[x]]

Lesser(a, b) == IF a < b THEN a ELSE b
Greater(a, b) == IF a > b THEN a ELSE b
====
