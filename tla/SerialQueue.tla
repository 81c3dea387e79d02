---- MODULE SerialQueue ----
(***************************************************************************)
(* What the two background-job registries of the server promise their      *)
(* callers (ingest/core/jobs.py and server/scanjobs.py): work that is      *)
(* accepted is served one item at a time, in the order it was accepted, at *)
(* most once, and is never picked up again after the process that accepted *)
(* it has exited ("The journal never resumes anything, and that is the     *)
(* design").                                                               *)
(***************************************************************************)
EXTENDS Sequences

CONSTANTS Item,     \* the ids a registry may ever hand out
          NoItem    \* the worker's value while it serves nothing: not an Item

VARIABLES waiting,  \* accepted and not yet taken, oldest first
          serving,  \* the item the single worker has in hand
          over,     \* served to the end
          lost      \* known to a process that has exited

vars == <<waiting, serving, over, lost>>

Fresh == Item \ (over \cup lost \cup {serving} \cup {waiting[n] : n \in DOMAIN waiting})

Init == /\ waiting = <<>>
        /\ serving = NoItem
        /\ over = {}
        /\ lost = {}

Accept(i) == /\ i \in Fresh
             /\ waiting' = Append(waiting, i)
             /\ UNCHANGED <<serving, over, lost>>

Take == /\ serving = NoItem
        /\ waiting # <<>>
        /\ serving' = Head(waiting)
        /\ waiting' = Tail(waiting)
        /\ UNCHANGED <<over, lost>>

Finish == /\ serving # NoItem
          /\ serving' = NoItem
          /\ over' = over \cup {serving}
          /\ UNCHANGED <<waiting, lost>>

\* The process exits: whatever was accepted, finished or about to be accepted is
\* beyond its reach from now on.
Exit == /\ waiting' = <<>>
        /\ serving' = NoItem
        /\ over' = {}
        /\ \E S \in SUBSET Fresh : lost' = (Item \ Fresh) \cup S

Next == Take \/ Finish \/ Exit \/ \E i \in Item : Accept(i)

Fairness == WF_vars(Take) /\ WF_vars(Finish)

Spec == Init /\ [][Next]_vars /\ Fairness
====
