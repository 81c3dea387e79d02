---- MODULE DesktopShell ----
(***************************************************************************)
(* The desktop application: the shell's process (main.rs, update.rs) and   *)
(* the server it starts (server/standalone.py), one launch.                *)
(*                                                                         *)
(* The shell has a main thread, which runs the handlers of windows, of the *)
(* menu and of the end; a boot thread; and a task for each check and each  *)
(* accepted press of the update button.  The server has its own process:   *)
(* it ends when it is killed, when it crashes, when it writes the port     *)
(* to a pipe nobody holds, or when its watcher sees another parent.        *)
(***************************************************************************)
EXTENDS Naturals, FiniteSets

CONSTANTS Presses   \* bound: presses of the update button

ASSUME PressesAssumption == Presses \in Nat

Press == 1 .. Presses

VARIABLES
    shell,      \* the process: up, exiting (asked), leaving and ending (after each hook), gone
    crashed,    \* the process ended without its hooks
    windows,    \* what get_webview_window finds
    splash,     \* what the splash shows: the stages, or why there is no server
    boot,       \* the boot thread
    held,       \* Server holds the child
    port,       \* Port is set
    server,     \* the child process
    printed,    \* it has written its port
    watcher,    \* the parent watch_parent compares with: "off" before it has asked
    found,      \* Pending.found
    busy,       \* Pending.busy
    install,    \* the task of each press
    checking,   \* the checks in flight: at most one of each kind
    stamp,      \* whether the update-check file is a day old
    toast       \* the last event the page was sent

process == <<shell, crashed>>
surface == <<windows, splash>>
child == <<held, server, printed, watcher>>
updates == <<found, busy, install, checking, stamp, toast>>
shellVars == <<process, surface, boot, port, child, updates>>

Alive == {"loading", "serving"}
Running == shell # "gone"
Looping == shell \in {"up", "exiting", "leaving"}     \* the main thread takes events

\* Phases of a press that hold Pending.busy.
Installing == {"take", "ask", "download", "last word"}
Done == {"unpressed", "ignored", "refused", "restarted"}

ShellTypeOK ==
    /\ shell \in {"up", "exiting", "leaving", "ending", "gone"}
    /\ windows \subseteq {"splash", "main", "failure"}
    /\ splash \in {"stages", "failure page"}
    /\ boot \in {"start", "poll", "store", "wait", "open", "explain", "done"}
    /\ {crashed, held, port, printed, found, busy} \subseteq BOOLEAN
    /\ server \in {"none", "dead"} \cup Alive
    /\ watcher \in {"off", "shell", "init"}
    /\ install \in [Press -> Installing \cup Done]
    /\ checking \subseteq {"quiet", "manual"}
    /\ stamp \in {"old", "fresh"}
    /\ toast \in {"none", "available", "current", "failed", "manual", "downloading",
                  "installed"}

\* setup() has built the splash and started the boot thread.
ShellInit ==
    /\ shell = "up" /\ crashed = FALSE
    /\ windows = {"splash"} /\ splash = "stages"
    /\ boot = "start" /\ port = FALSE
    /\ held = FALSE /\ server = "none" /\ printed = FALSE /\ watcher = "off"
    /\ found = FALSE /\ busy = FALSE
    /\ install = [p \in Press |-> "unpressed"]
    /\ checking = {} /\ stamp \in {"old", "fresh"} /\ toast = "none"

--------------------------------------------------------------------------
(* The server's process. *)

\* Mutant: the port is said as the stages are, whether or not anybody hears.
PrintsAnyway ==
    /\ server = "loading" /\ ~printed
    /\ printed' = TRUE
    /\ UNCHANGED <<process, surface, boot, port, held, server, watcher, updates>>

\* A port is written for whoever holds the other end of the pipe.
PrintsPort ==
    /\ server = "loading" /\ ~printed
    /\ IF Running THEN printed' = TRUE /\ UNCHANGED server
                  ELSE server' = "dead" /\ UNCHANGED printed
    /\ UNCHANGED <<process, surface, boot, port, held, watcher, updates>>

\* The first thing the thread does is to ask who its parent is now.
Watches ==
    /\ server \in Alive /\ printed /\ watcher = "off"
    /\ watcher' = IF Running THEN "shell" ELSE "init"
    /\ UNCHANGED <<process, surface, boot, port, held, server, printed, updates>>

Binds ==
    /\ server = "loading" /\ printed
    /\ server' = "serving"
    /\ UNCHANGED <<process, surface, boot, port, held, printed, watcher, updates>>

\* A failed import, a port taken in the meantime, or any other end of its own.
ServerDies ==
    /\ server \in Alive
    /\ server' = "dead"
    /\ UNCHANGED <<process, surface, boot, port, held, printed, watcher, updates>>

ParentGone ==
    /\ server \in Alive /\ watcher = "shell" /\ ~Running
    /\ server' = "dead"
    /\ UNCHANGED <<process, surface, boot, port, held, printed, watcher, updates>>

ServerStep == PrintsPort \/ Watches \/ Binds \/ ParentGone

--------------------------------------------------------------------------
(* The boot thread. *)

StartServer ==
    /\ Running /\ boot = "start"
    /\ boot' = "poll" /\ server' = "loading"
    /\ UNCHANGED <<process, surface, port, held, printed, watcher, updates>>

\* The sidecar is missing, or does not start.
CannotStart ==
    /\ Running /\ boot = "start"
    /\ boot' = "explain"
    /\ UNCHANGED <<process, surface, port, child, updates>>

PortArrives ==
    /\ Running /\ boot = "poll" /\ printed
    /\ boot' = "store"
    /\ UNCHANGED <<process, surface, port, child, updates>>

\* Its output closed, or try_wait saw it: even a port already written may go unread.
StoppedEarly ==
    /\ Running /\ boot = "poll" /\ server = "dead"
    /\ boot' = "explain"
    /\ UNCHANGED <<process, surface, port, child, updates>>

PortTimeout ==
    /\ Running /\ boot = "poll" /\ server = "loading"
    /\ boot' = "explain" /\ server' = "dead"
    /\ UNCHANGED <<process, surface, port, held, printed, watcher, updates>>

\* Until here the child is a local of this thread, which no hook can reach.
StoreChild ==
    /\ Running /\ boot = "store"
    /\ boot' = "wait" /\ held' = TRUE
    /\ UNCHANGED <<process, surface, port, server, printed, watcher, updates>>

Answers ==
    /\ Running /\ boot = "wait" /\ server = "serving"
    /\ boot' = "open"
    /\ UNCHANGED <<process, surface, port, child, updates>>

NeverAnswers ==
    /\ Running /\ boot = "wait"
    /\ boot' = "explain"
    /\ UNCHANGED <<process, surface, port, child, updates>>

\* update::check: quiet and not due does nothing.
StartCheck(kind) ==
    IF kind = "quiet" /\ stamp = "fresh"
    THEN UNCHANGED <<checking, stamp>>
    ELSE checking' = checking \cup {kind} /\ stamp' = "fresh"

\* On the main thread: the window, then the splash, the port, the menu and the check.
OpenMain ==
    /\ Looping /\ boot = "open"
    /\ boot' = "done"
    /\ windows' = (windows \cup {"main"}) \ {"splash"}
    /\ port' = TRUE
    /\ StartCheck("quiet")
    /\ UNCHANGED <<process, splash, child, found, busy, install, toast>>

\* Only a window that was built closes the splash; one that was not is passed over.
CannotOpenMain ==
    /\ Looping /\ boot = "open"
    /\ boot' = "done"
    /\ UNCHANGED <<process, surface, port, child, updates>>

\* The splash becomes the failure page; with no splash left there is a window of its own.
Explain ==
    /\ Looping /\ boot = "explain"
    /\ boot' = "done"
    /\ IF "splash" \in windows
       THEN splash' = "failure page" /\ UNCHANGED windows
       ELSE windows' = windows \cup {"failure"} /\ UNCHANGED splash
    /\ UNCHANGED <<process, port, child, updates>>

BootStep ==
    \/ StartServer \/ PortArrives \/ StoppedEarly \/ PortTimeout
    \/ StoreChild \/ Answers \/ OpenMain \/ Explain

--------------------------------------------------------------------------
(* The windows and the way out. *)

\* Mutant: by label, as before there was a splash.
LastWindowByLabel(w) == w = "main"

\* Destroyed: is there anything left?
LastWindow(w) ==
    /\ "main" \notin windows \ {w}
    /\ w # "failure" /\ "failure" \notin windows \ {w}

Close(w) ==
    /\ Looping /\ w \in windows
    /\ windows' = windows \ {w}
    /\ shell' = IF LastWindow(w) /\ shell = "up" THEN "exiting" ELSE shell
    /\ UNCHANGED <<crashed, splash, boot, port, child, updates>>

Quit ==
    /\ shell = "up"
    /\ shell' = "exiting"
    /\ UNCHANGED <<crashed, surface, boot, port, child, updates>>

\* take, kill, wait.
KillHeld ==
    IF held THEN held' = FALSE /\ server' = IF server \in Alive THEN "dead" ELSE server
            ELSE UNCHANGED <<held, server>>

\* Mutant: the child is left to its watcher.
ExitHookLeavesIt ==
    /\ shell \in {"exiting", "leaving"}
    /\ shell' = IF shell = "exiting" THEN "leaving" ELSE "ending"
    /\ UNCHANGED <<crashed, surface, boot, port, child, updates>>

\* ExitRequested, then Exit: the same handler.
ExitHook ==
    /\ shell \in {"exiting", "leaving"}
    /\ shell' = IF shell = "exiting" THEN "leaving" ELSE "ending"
    /\ KillHeld
    /\ UNCHANGED <<crashed, surface, boot, port, printed, watcher, updates>>

ProcessEnds ==
    /\ shell = "ending"
    /\ shell' = "gone"
    /\ UNCHANGED <<crashed, surface, boot, port, child, updates>>

Crash ==
    /\ Running
    /\ shell' = "gone" /\ crashed' = TRUE
    /\ UNCHANGED <<surface, boot, port, child, updates>>

ExitStep == ExitHook \/ ProcessEnds

--------------------------------------------------------------------------
(* The update: checks and presses. *)

\* An event reaches the page only while there is a main window.
Say(event) == toast' = IF "main" \in windows THEN event ELSE toast

CheckForUpdates ==      \* the menu item, which needs the port
    /\ Looping /\ port
    /\ StartCheck("manual")
    /\ UNCHANGED <<process, surface, boot, port, child, found, busy, install, toast>>

CheckFinds(kind) ==
    /\ Running /\ kind \in checking
    /\ checking' = checking \ {kind}
    /\ found' = TRUE
    /\ Say("available")
    /\ UNCHANGED <<process, surface, boot, port, child, busy, install, stamp>>

\* Nothing newer, or no answer: said only to somebody who asked.
CheckEnds(kind) ==
    /\ Running /\ kind \in checking
    /\ checking' = checking \ {kind}
    /\ \/ kind = "manual" /\ \E event \in {"current", "failed"} : Say(event)
       \/ kind = "quiet" /\ UNCHANGED toast
    /\ UNCHANGED <<process, surface, boot, port, child, found, busy, install, stamp>>

\* The button is a navigation of the main window.
Pressed(p) == Looping /\ "main" \in windows /\ install[p] = "unpressed"

Moves(p, phase) == install' = [install EXCEPT ![p] = phase]

\* Mutant: a second press is a second install.
BeginInstallAgain(p) ==
    /\ Pressed(p)
    /\ busy' = TRUE /\ Moves(p, "take")
    /\ UNCHANGED <<process, surface, boot, port, child, found, checking, stamp, toast>>

BeginInstall(p) ==
    /\ Pressed(p)
    /\ IF busy THEN Moves(p, "ignored") /\ UNCHANGED busy
               ELSE Moves(p, "take") /\ busy' = TRUE
    /\ UNCHANGED <<process, surface, boot, port, child, found, checking, stamp, toast>>

\* No bundle, or a folder this account cannot write: refused before a byte is fetched.
CannotReplace(p) ==
    /\ Pressed(p) /\ ~busy
    /\ Moves(p, "refused")
    /\ Say("manual")
    /\ UNCHANGED <<process, surface, boot, port, child, found, busy, checking, stamp>>

TakeFound(p) ==
    /\ Running /\ install[p] = "take"
    /\ found' = FALSE
    /\ IF found THEN Moves(p, "download") /\ Say("downloading")
                ELSE Moves(p, "ask") /\ UNCHANGED toast
    /\ UNCHANGED <<process, surface, boot, port, child, busy, checking, stamp>>

AskAgain(p) ==
    /\ Running /\ install[p] = "ask"
    /\ Moves(p, "download") /\ Say("downloading")
    /\ UNCHANGED <<process, surface, boot, port, child, found, busy, checking, stamp>>

\* Nothing to install any more, no answer, or a download that failed; then free.
InstallFails(p) ==
    /\ Running /\ install[p] \in {"ask", "download"}
    /\ \E event \in {"current", "failed"} :
          (event = "current" => install[p] = "ask") /\ Say(event)
    /\ Moves(p, "refused")
    /\ busy' = FALSE
    /\ UNCHANGED <<process, surface, boot, port, child, found, checking, stamp>>

Installed(p) ==
    /\ Running /\ install[p] = "download"
    /\ Moves(p, "last word") /\ Say("installed")
    /\ UNCHANGED <<process, surface, boot, port, child, found, busy, checking, stamp>>

\* The server first, then the runtime is asked to exit and to come back as the new copy.
RestartApp(p) ==
    /\ Running /\ install[p] = "last word"
    /\ Moves(p, "restarted")
    /\ KillHeld
    /\ shell' = IF shell = "up" THEN "exiting" ELSE shell
    /\ UNCHANGED <<crashed, surface, boot, port, printed, watcher, found, busy,
                   checking, stamp, toast>>

UpdateStep ==
    \/ \E p \in Press : TakeFound(p) \/ AskAgain(p) \/ InstallFails(p) \/ Installed(p)
                        \/ RestartApp(p)
    \/ \E kind \in {"quiet", "manual"} : CheckFinds(kind) \/ CheckEnds(kind)

--------------------------------------------------------------------------

ShellNext ==
    \/ ServerStep \/ ServerDies
    \/ BootStep \/ CannotStart \/ NeverAnswers \/ CannotOpenMain
    \/ \E w \in {"splash", "main", "failure"} : Close(w)
    \/ Quit \/ ExitStep \/ Crash
    \/ CheckForUpdates
    \/ \E p \in Press : BeginInstall(p) \/ CannotReplace(p)
    \/ UpdateStep

\* Processes run, timeouts pass and requests are answered or fail.  Nobody need close,
\* quit, press or crash.
ShellFairness ==
    /\ WF_shellVars(PrintsPort) /\ WF_shellVars(Watches) /\ WF_shellVars(Binds) /\ WF_shellVars(ParentGone)
    /\ WF_shellVars(BootStep)
    /\ WF_shellVars(ExitStep)
    /\ \A p \in Press : WF_shellVars(TakeFound(p) \/ AskAgain(p) \/ InstallFails(p)
                                \/ Installed(p) \/ RestartApp(p))

ShellSpec == ShellInit /\ [][ShellNext]_shellVars /\ ShellFairness

--------------------------------------------------------------------------
(* Properties. *)

\* A shell that showed the console and left by its hooks leaves no server behind:
\* not after a quit, not after the last window, not after an update's restart.  A boot
\* whose deadline passed has taken its child down with it: a failure explained while the
\* server still runs is one the exit hook can reach.
LeavesNoServer ==
    /\ ShellTypeOK
    /\ (shell = "gone" /\ ~crashed /\ port) => server \notin Alive
    /\ (boot = "explain" /\ server \in Alive /\ shell = "up") => held

\* No window, no process: however the splash, the console and the failure surface
\* replace one another, a shell that is not on its way out has something to look at, and
\* a window of its own for a failure is only built by a shell that is leaving for it.
SomethingToLookAt ==
    /\ shell = "up" => windows # {}
    /\ "failure" \in windows => shell # "up"

\* Two installs never unpack over one bundle, however the button is pressed and
\* whatever a failure has freed in between; and no refusal or failure leaves the button
\* dead: busy belongs to a press that is still at work or has restarted the shell.
OneInstallAtATime ==
    /\ Cardinality({p \in Press : install[p] \in Installing}) <= 1
    /\ busy => \E p \in Press : install[p] \in Installing \cup {"restarted"}

\* A child whose watcher began while its shell lived, or that has yet to write its
\* port, ends once the shell is gone, by a crash as well as by an exit that found
\* nothing to kill.  An accepted press ends too: in a refusal that frees the button, or in
\* the new copy.
WhatBeginsEnds ==
    /\ (~Running /\ server \in Alive /\ (watcher = "shell" \/ ~printed)) ~> server \notin Alive
    /\ \A p \in Press : install[p] = "take" ~> (install[p] \in Done \/ ~Running)

\* standalone.py: "Exit when whoever started us is gone."
EveryServerEndsWithItsShell == (~Running /\ server \in Alive) ~> server \notin Alive
====
