---- MODULE Agent ----
(***************************************************************************)
(* The language layer's loop and its money: server/intel/agent.py (one     *)
(* question, its tools and its budgets), the meter every call goes through *)
(* (server/intel/meter.py) and the requests that reach them                *)
(* (server/routes/intel.py).                                               *)
(*                                                                         *)
(* A question's calls to the model run on worker threads beside the event  *)
(* loop and beside one another.  A task (self-test, filter, summary) makes *)
(* its one call on the event loop itself, which does nothing else until it *)
(* is over.                                                                *)
(*                                                                         *)
(* Money is counted in whole units and a model without a price costs 0.    *)
(* The ceiling is the one in force throughout; the settings page may       *)
(* change it between two runs of the model, not within one.                *)
(***************************************************************************)
EXTENDS Integers, FiniteSets, Functions

CONSTANTS Question, Task,       \* bound: the questions and the tasks of one behaviour
          MaxTurns,             \* MAX_TURNS
          Budgets,              \* the turns and the money a question may ask for
          MaxReadBytes,         \* MAX_READ_BYTES
          Ceilings,             \* what the process may be allowed to spend
          NoLimit,              \* None, of either
          Price,                \* bound: what one call may cost
          ToolBytes,            \* bound: what one tool may read
          ToolCalls             \* bound: the tools one turn may call for

Budget == [max_turns : 1 .. MaxTurns, max_usd : (Nat \ {0}) \cup {NoLimit}]

ASSUME AgentAssumption ==
    /\ Question \cap Task = {} /\ IsFiniteSet(Question) /\ IsFiniteSet(Task)
    /\ MaxTurns \in Nat \ {0} /\ MaxReadBytes \in Nat \ {0}
    /\ Price \in Nat /\ ToolBytes \in Nat /\ ToolCalls \in Nat \ {0}
    /\ Budgets \subseteq Budget /\ Budgets # {}
    /\ Ceilings \ {NoLimit} \subseteq Nat
    /\ NoLimit \notin Nat

Caller == Question \cup Task

VARIABLES
    ceiling,    \* spend_ceiling()
    meter,      \* METER.cost_usd
    call,       \* each caller's spend(): where it is, and what the provider billed
    run,        \* each question's run()
    wiped       \* what resets have taken off the meter

agentVars == <<ceiling, meter, call, run, wiped>>

NoCall == [pc |-> "none", cost |-> 0]
NewQuestion == [pc |-> "new", budget |-> CHOOSE b \in Budgets : TRUE,
                turns |-> 0, cost |-> 0, bytes |-> 0, text |-> FALSE,
                left |-> 0, open |-> 0, over |-> FALSE, stop |-> "no"]
Stops == {"no", "answered", "turn-limit", "byte-budget", "spend-budget", "timeout",
          "provider-error", "no-provider"}

CallType == [pc : {"none", "check", "asked", "back", "refused", "failed"},
             cost : 0 .. Price]
QuestionType == [pc : {"new", "head", "call", "tools", "final", "done"},
                 budget : Budgets, turns : 0 .. MaxTurns + 1, cost : Nat, bytes : Nat,
                 text : BOOLEAN, left : 0 .. ToolCalls, open : 0 .. ToolCalls,
                 over : BOOLEAN, stop : Stops]

AgentTypeOK ==
    /\ ceiling \in Ceilings
    /\ meter \in Nat /\ wiped \in Nat
    /\ call \in [Caller -> CallType]
    /\ run \in [Question -> QuestionType]

AgentInit ==
    /\ ceiling \in Ceilings
    /\ meter = 0 /\ wiped = 0
    /\ call = [c \in Caller |-> NoCall]
    /\ run = [i \in Question |-> NewQuestion]

--------------------------------------------------------------------------
(* spend: the ceiling, the provider, the meter. *)

Working(c) == call[c].pc \notin {"none", "back", "refused", "failed"}
LoopFree == \A t \in Task : ~Working(t)

\* Mutant: the ceiling is one that may be reached, not one at which to stop.
CheckLate(c) ==
    /\ call[c].pc = "check"
    /\ call' = [call EXCEPT ![c].pc = IF ceiling # NoLimit /\ meter > ceiling
                                      THEN "refused" ELSE "asked"]
    /\ UNCHANGED <<ceiling, meter, run, wiped>>

\* check_ceiling reads the meter without its lock.
Check(c) ==
    /\ call[c].pc = "check"
    /\ call' = [call EXCEPT ![c].pc = IF ceiling # NoLimit /\ meter >= ceiling
                                      THEN "refused" ELSE "asked"]
    /\ UNCHANGED <<ceiling, meter, run, wiped>>

\* The provider answers, and record puts its price on the meter.
Bill(c) ==
    /\ call[c].pc = "asked"
    /\ \E cost \in 0 .. Price :
          /\ meter' = meter + cost
          /\ call' = [call EXCEPT ![c] = [pc |-> "back", cost |-> cost]]
    /\ UNCHANGED <<ceiling, run, wiped>>

\* ProviderError, or NoProvider.
ProviderFails(c) ==
    /\ call[c].pc = "asked"
    /\ call' = [call EXCEPT ![c].pc = "failed"]
    /\ UNCHANGED <<ceiling, meter, run, wiped>>

Spend(c) == Check(c) \/ Bill(c) \/ ProviderFails(c)

--------------------------------------------------------------------------
(* run: one question.  Its own steps are the event loop's. *)

\* What a step of a run leaves alone.
Unmetered == UNCHANGED <<ceiling, meter, wiped>>

Ask(i) ==
    /\ LoopFree
    /\ run[i].pc = "new"
    /\ \E b \in Budgets : run' = [run EXCEPT ![i].pc = "head", ![i].budget = b]
    /\ UNCHANGED call /\ Unmetered

Stop(i, why) == run' = [run EXCEPT ![i].pc = "done", ![i].stop = why]

Dear(i) == run[i].budget.max_usd # NoLimit /\ run[i].cost >= run[i].budget.max_usd

\* Mutant: the money is looked at when the turn is over and never again.
LoopHeadUnpriced(i) ==
    /\ LoopFree
    /\ run[i].pc = "head"
    /\ \/ run[i].turns = run[i].budget.max_turns /\ Stop(i, "turn-limit") /\ UNCHANGED call
       \/ run[i].turns < run[i].budget.max_turns /\ Stop(i, "timeout") /\ UNCHANGED call
       \/ /\ run[i].turns < run[i].budget.max_turns
          /\ run' = [run EXCEPT ![i].pc = "call"]
          /\ call' = [call EXCEPT ![i].pc = "check"]
    /\ Unmetered

\* The top of the loop: turns, the clock (at any moment), money, and then a thread.
LoopHead(i) ==
    /\ LoopFree
    /\ run[i].pc = "head"
    /\ \/ run[i].turns = run[i].budget.max_turns /\ Stop(i, "turn-limit") /\ UNCHANGED call
       \/ run[i].turns < run[i].budget.max_turns /\ Stop(i, "timeout") /\ UNCHANGED call
       \/ run[i].turns < run[i].budget.max_turns /\ Dear(i) /\ Stop(i, "spend-budget") /\ UNCHANGED call
       \/ /\ run[i].turns < run[i].budget.max_turns /\ ~Dear(i)
          /\ run' = [run EXCEPT ![i].pc = "call"]
          /\ call' = [call EXCEPT ![i].pc = "check"]
    /\ Unmetered

\* Mutant: a provider that fails is asked again.
NoTurnRetrying(i) ==
    /\ LoopFree
    /\ run[i].pc \in {"call", "final"}
    /\ call[i].pc \in {"refused", "failed"}
    /\ IF call[i].pc = "failed" THEN run' = [run EXCEPT ![i].pc = "head"]
                                ELSE Stop(i, "spend-budget")
    /\ call' = [call EXCEPT ![i] = NoCall]
    /\ Unmetered

\* The call was refused or failed.  No provider at all shows at the first call.
NoTurn(i) ==
    /\ LoopFree
    /\ run[i].pc \in {"call", "final"}
    /\ call[i].pc \in {"refused", "failed"}
    /\ \/ run[i].pc = "final" /\ Stop(i, "byte-budget")
       \/ run[i].pc = "call" /\ call[i].pc = "refused" /\ Stop(i, "spend-budget")
       \/ run[i].pc = "call" /\ call[i].pc = "failed" /\ Stop(i, "provider-error")
       \/ run[i].turns = 0 /\ call[i].pc = "failed" /\ Stop(i, "no-provider")
    /\ call' = [call EXCEPT ![i] = NoCall]
    /\ Unmetered

\* What every turn adds to the answer; said: the turn had text.
Counted(i, said) == [run[i] EXCEPT !.turns = @ + 1, !.cost = @ + call[i].cost,
                                   !.text = @ \/ said]

\* Mutant: what the last turn cost is not added to the answer.
TurnUncharged(i) ==
    /\ LoopFree
    /\ call[i].pc = "back"
    /\ \E said \in BOOLEAN, n \in 0 .. ToolCalls :
          LET a == [Counted(i, said) EXCEPT !.cost = IF run[i].pc = "final" THEN run[i].cost ELSE @]
          IN  run' = [run EXCEPT ![i] =
                IF run[i].pc = "final"
                THEN [a EXCEPT !.pc = "done", !.stop = "byte-budget"]
                ELSE IF n = 0
                THEN [a EXCEPT !.pc = "done",
                               !.stop = IF a.text THEN "answered" ELSE "provider-error"]
                ELSE [a EXCEPT !.pc = "tools", !.left = n, !.open = n]]
    /\ call' = [call EXCEPT ![i] = NoCall]
    /\ Unmetered

\* Mutant: the last turn is taken for an answer.
TurnAnsweringLast(i) ==
    /\ LoopFree
    /\ call[i].pc = "back"
    /\ \E said \in BOOLEAN, n \in 0 .. ToolCalls :
          LET a == Counted(i, said)
          IN  run' = [run EXCEPT ![i] =
                IF n = 0 \/ run[i].pc = "final"
                THEN [a EXCEPT !.pc = "done",
                               !.stop = IF a.text THEN "answered" ELSE "provider-error"]
                ELSE [a EXCEPT !.pc = "tools", !.left = n, !.open = n]]
    /\ call' = [call EXCEPT ![i] = NoCall]
    /\ Unmetered

\* A turn comes back: an answer, or n tools to call; n of the last turn are ignored.
Turn(i) ==
    /\ LoopFree
    /\ call[i].pc = "back"
    /\ \E said \in BOOLEAN, n \in 0 .. ToolCalls :
          LET a == Counted(i, said)
          IN  run' = [run EXCEPT ![i] =
                IF run[i].pc = "final"
                THEN [a EXCEPT !.pc = "done", !.stop = "byte-budget"]
                ELSE IF n = 0
                THEN [a EXCEPT !.pc = "done",
                               !.stop = IF a.text THEN "answered" ELSE "provider-error"]
                ELSE [a EXCEPT !.pc = "tools", !.left = n, !.open = n]]
    /\ call' = [call EXCEPT ![i] = NoCall]
    /\ Unmetered

\* Mutant: a call past the budget is skipped.
ToolSkipping(i) ==
    /\ LoopFree
    /\ run[i].pc = "tools" /\ run[i].left > 0
    /\ IF run[i].bytes >= MaxReadBytes
       THEN run' = [run EXCEPT ![i].over = TRUE, ![i].left = @ - 1]
       ELSE \E bytes \in 0 .. ToolBytes :
               run' = [run EXCEPT ![i].bytes = @ + bytes, ![i].left = @ - 1, ![i].open = @ - 1]
    /\ UNCHANGED call /\ Unmetered

\* One call of the turn is answered: with what the tool read (nothing, when it raised or
\* there is no such tool), or with the news that the bytes are spent.
Tool(i) ==
    /\ LoopFree
    /\ run[i].pc = "tools" /\ run[i].left > 0
    /\ IF run[i].bytes >= MaxReadBytes
       THEN run' = [run EXCEPT ![i].over = TRUE, ![i].left = @ - 1, ![i].open = @ - 1]
       ELSE \E bytes \in 0 .. ToolBytes :
               run' = [run EXCEPT ![i].bytes = @ + bytes, ![i].left = @ - 1, ![i].open = @ - 1]
    /\ UNCHANGED call /\ Unmetered

\* Back to the top, or the one turn more that neither clock nor money is asked about.
ToolsDone(i) ==
    /\ LoopFree
    /\ run[i].pc = "tools" /\ run[i].left = 0
    /\ run' = [run EXCEPT ![i].pc = IF run[i].over THEN "final" ELSE "head"]
    /\ call' = [call EXCEPT ![i].pc = IF run[i].over THEN "check" ELSE @]
    /\ Unmetered

Run(i) == LoopHead(i) \/ NoTurn(i) \/ Turn(i) \/ Tool(i) \/ ToolsDone(i)

--------------------------------------------------------------------------
(* The other requests. *)

\* selftest, nl_filter and summarise each make one call, and keep what it cost.
BeginTask(t) ==
    /\ LoopFree
    /\ call[t].pc = "none"
    /\ call' = [call EXCEPT ![t].pc = "check"]
    /\ UNCHANGED run /\ Unmetered

ResetMeter ==
    /\ LoopFree
    /\ meter' = 0
    /\ wiped' = wiped + meter
    /\ UNCHANGED <<ceiling, call, run>>

AgentNext ==
    \/ \E c \in Caller : Spend(c)
    \/ \E i \in Question : Ask(i) \/ Run(i)
    \/ \E t \in Task : BeginTask(t)
    \/ ResetMeter

\* The event loop goes on while it is free, and so do its threads; a provider's client
\* has a timeout, so that its call fails if it does not answer.
AgentFairness ==
    /\ \A c \in Caller : WF_agentVars(Spend(c))
    /\ \A i \in Question : WF_agentVars(Run(i))

AgentSpec == AgentInit /\ [][AgentNext]_agentVars /\ AgentFairness

--------------------------------------------------------------------------
(* What makes the loop and its money correct. *)

\* "A tool call that vanishes from the transcript is a call the model believes is still
\* outstanding": whenever the model is asked, each call it made has exactly one answer.
EveryCallIsAnswered ==
    \A i \in Question : call[i].pc # "none" => run[i].open = 0

\* "A ceiling is enforced before the call": the calls in flight may pass it together, one
\* for each question and one for the loop, and nothing else passes it.
SpentWithinCeiling ==
    ceiling # NoLimit =>
        meter = 0 \/ meter < ceiling + Price * (Cardinality(Question) + 1)

\* The four caps of one question.  Each is looked at before a step, so that the step
\* itself is what can be over; the turn after the byte budget is one more of everything.
WithinItsBudget ==
    \A i \in Question :
        LET extra == IF run[i].over THEN 1 ELSE 0
        IN  run[i].pc # "new" =>
            /\ run[i].turns <= run[i].budget.max_turns + extra
            /\ run[i].bytes < MaxReadBytes + ToolBytes
            /\ run[i].budget.max_usd # NoLimit => run[i].cost < run[i].budget.max_usd + Price * (1 + extra)

\* "Every call to a model in this repository goes through here": what the callers have
\* been billed and what the meter has counted is the same money, resets included.
BillsAddUp ==
    meter + wiped = SumFunction([c \in Caller |-> call[c].cost])
                   + SumFunction([i \in Question |-> run[i].cost])

\* "only `answered` means the model was finished": it said something, no call of its
\* is left open, and no cap cut it short.
OnlyAnsweredIsFinished ==
    \A i \in Question :
        run[i].stop = "answered" => /\ run[i].text /\ run[i].left = 0 /\ run[i].open = 0
                                    /\ ~run[i].over /\ run[i].turns <= run[i].budget.max_turns

\* "a hard stop on all four axes": a question that is asked ends.
QuestionsEnd == \A i \in Question : run[i].pc # "new" ~> run[i].pc = "done"
====
