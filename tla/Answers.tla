---- MODULE Answers ----
(***************************************************************************)
(* The parts of the program that keep no state, side by side: each is      *)
(* asked one call, out of all that its callers can ask within the bounds   *)
(* of its own module, and answers it.  What they do to handles, jobs and   *)
(* files is in the modules of those.                                       *)
(***************************************************************************)
EXTENDS Sources, ScanChecks, LanguageLayer, Media, CommandLine

Init ==
    /\ call \in QueryCalls \cup CheckCalls \cup LanguageCalls \cup PanelCalls \cup SourceCalls
                \cup MediaCalls \cup CommandCalls
    /\ answer = Unanswered

Next ==
    \/ AnswerQuery \/ AnswerCheck \/ AnswerLanguage \/ AnswerPanel \/ AnswerSource \/ AnswerMedia
    \/ AnswerCommand

Spec == Init /\ [][Next]_<<call, answer>>

\* Where the program meets the rest of the machine: roots, adapters, files and commands say
\* what they are and what they left.
EdgesAreHonest == SourcesAreHonest /\ MediaIsHonest /\ CommandsAreHonest
====
