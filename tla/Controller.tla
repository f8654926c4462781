----------------------------- MODULE Controller -----------------------------
(***************************************************************************)
(* The controller of the old Shashlik runtime: each invocation finds the   *)
(* Android services that already run by a look through /proc, carries out  *)
(* the command it was given, and then sits in its event loop, where it     *)
(* hears of the processes it started.  Invocations run side by side (that  *)
(* is how --stop reaches what --start began) and know of each other only   *)
(* by the processes they find.                                             *)
(*                                                                         *)
(* Process numbers are handed out in ascending order and never reused: a   *)
(* bound.  A process ends by itself, or some time after a SIGTERM.         *)
(***************************************************************************)
EXTENDS Naturals, Sequences, FiniteSetsExt

CONSTANTS Ctl,      \* invocations of shashlik-controller
          Command,  \* what each of them may be told to do
          Service,  \* the daemons of this instance
          MaxPid,   \* processes started; a bound, and the size of the process table
          MaxClicks,\* buttons pressed; a bound
          Mortal,   \* processes of these kinds end by themselves
          Broken,   \* processes of these kinds may fail to start
          Faults,   \* of "socket" and "crash": what else goes wrong
          None      \* no tracker, no process

Daemon == {"servicemanager", "installd", "surfaceflinger", "bootanimation", "zygote", "adbd"}
Pid == 1..MaxPid

ASSUME ControllerAssumption ==
  /\ Service \subseteq Daemon
  /\ \A c \in Ctl : Command[c] \subseteq (Service \ {"bootanimation"})
       \cup {"start", "stop", "restart", "status", "apk", "am", "ui"}
  /\ MaxPid \in Nat /\ MaxClicks \in Nat
  /\ None \notin Nat /\ None \notin Ctl
  /\ None \notin Daemon \cup {"app", "am"}

VARIABLES
  (* an invocation *)
  phase,     \* "idle", "setup" before the trackers exist, "live", "leaving", "over"
  command,   \* its command
  todo,      \* what is left of the statements it is in, the innermost handler first
  quitting,  \* a timer will end its event loop
  clicks,    \* buttons pressed in its window
  tracker,   \* what d->...Tracker points to, by service: a process, 0 for one
             \* that did not start, or None
  child,     \* the process of d->zygote and its like
  apps,      \* the processes of applicationTrackers, a list in the order of its numbers
  ticking,   \* those of them whose end it will hear of
  (* a process *)
  kind,      \* the service it is, "app" or "am"
  parent,    \* who started it
  state,     \* "free", "up", "term" when it was told to end, "zombie", "gone"
  (* the files in ANDROID_SOCKET_DIR *)
  bound      \* whose socket a name leads to

invocation == <<phase, command, todo, quitting, clicks>>
known == <<tracker, child, apps, ticking>>
process == <<kind, parent, state>>
vars == <<invocation, known, process, bound>>

\* The statements of a command are the names of the services to be started
\* and these; "box" is a message box that waits for the user.
Op == Daemon \cup {"stop", "quit", "ensure", "verify", "apk", "am", "box"}

\* Controller::start, for the services there are.
Only(s) == IF s \in Service THEN <<s>> ELSE << >>
StartAll ==
  Only("servicemanager") \o Only("installd") \o Only("surfaceflinger") \o Only("zygote") \o Only("adbd")

\* The order in which stop comes to them.
StopPlace ==
  [surfaceflinger |-> 1, installd |-> 2, bootanimation |-> 3, servicemanager |-> 4, adbd |-> 5, zygote |-> 6]
Needed == Service \cap {"servicemanager", "surfaceflinger", "zygote"}

\* main: the statements a command stands for.
Plan(cmd) ==
  CASE cmd \in Daemon  -> <<cmd>>
    [] cmd = "start"   -> StartAll
    [] cmd = "restart" -> <<"stop">> \o StartAll
    [] cmd = "stop"    -> <<"stop", "quit">>
    [] cmd = "apk"     -> <<"ensure", "verify", "apk">>
    [] cmd = "am"      -> <<"am">>
    [] OTHER           -> << >>

Socket == {"installd", "zygote", "adbd"} \cap Service
Sockets == Only("installd") \o Only("zygote") \o Only("adbd")

Alive == {p \in Pid : state[p] \in {"up", "term"}}

\* A tracker looks for /proc/<pid>, which a zombie still has.
Vanished(p) == IF p = 0 THEN TRUE ELSE state[p] = "gone"

\* The process number to be handed out next, if there is one.
Fresh == {p \in Pid : state[p] = "free" /\ \A q \in Pid : q < p => state[q] # "free"}

\* main: these have a QApplication and message boxes.
HasGui(c) == command[c] \in {"ui", "adbd"}

\* emit error: what waits for the user.
Error(c) == IF HasGui(c) /\ phase[c] = "live" THEN <<"box">> ELSE << >>

\* A mutant never quits, as if for the window.
MutQuitOnError(c) == << >>

\* if(d->quitOnError): the one-second timer.
QuitOnError(c) == IF command[c] = "ui" THEN << >> ELSE <<"quit">>

Init ==
  /\ phase = [c \in Ctl |-> "idle"]
  /\ command = [c \in Ctl |-> None]
  /\ todo = [c \in Ctl |-> << >>]
  /\ quitting = [c \in Ctl |-> FALSE]
  /\ clicks = [c \in Ctl |-> 0]
  /\ tracker = [c \in Ctl |-> [s \in Service |-> None]]
  /\ child = [c \in Ctl |-> [s \in Service |-> None]]
  /\ apps = [c \in Ctl |-> {}]
  /\ ticking = [c \in Ctl |-> {}]
  /\ kind = [p \in Pid |-> None]
  /\ parent = [p \in Pid |-> None]
  /\ state = [p \in Pid |-> "free"]
  /\ bound = [s \in Socket |-> None]

-----------------------------------------------------------------------------
(* main, up to the event loop.                                             *)

\* create_socket for the first k names: what was bound there is unlinked.
Rebound(c, k) ==
  [s \in Socket |-> IF \E i \in 1..k : Sockets[i] = s THEN c ELSE bound[s]]

\* The guard of the sockets looks for a file nobody creates, so everything
\* but --stop takes them over.
Begin(c, cmd) ==
  /\ phase[c] = "idle"
  /\ phase' = [phase EXCEPT ![c] = "setup"]
  /\ command' = [command EXCEPT ![c] = cmd]
  /\ bound' = IF cmd = "stop" THEN bound ELSE Rebound(c, Len(Sockets))
  /\ UNCHANGED <<todo, quitting, clicks, known, process>>

\* socket, unlink or bind fails: main returns, with the sockets before it
\* taken over and, if bind failed, this one removed.
BeginFails(c, cmd, k, removed) ==
  /\ "socket" \in Faults
  /\ phase[c] = "idle"
  /\ cmd # "stop"
  /\ k < Len(Sockets)
  /\ phase' = [phase EXCEPT ![c] = "over"]
  /\ command' = [command EXCEPT ![c] = cmd]
  /\ bound' = IF removed THEN [Rebound(c, k) EXCEPT ![Sockets[k + 1]] = None]
              ELSE Rebound(c, k)
  /\ UNCHANGED <<todo, quitting, clicks, known, process>>

Running(s) == {p \in Alive : kind[p] = s}
Launchers == {p \in Alive : kind[p] \in {"zygote", "app", "am"}}

\* Controller::Controller: the first process of each executable.  The
\* launchers are taken for zygotes in taken: isZygote is not initialised, so
\* it is true of each that has the argument and may be true of any other.
\* The last one stays; of those before it nothing is kept.  No tracker found
\* here is connected to processExited.
Scan(c, taken) ==
  /\ phase[c] = "setup"
  /\ Running("zygote") \subseteq taken
  /\ phase' = [phase EXCEPT ![c] = "live"]
  /\ tracker' = [tracker EXCEPT ![c] = [s \in Service |->
       IF s = "zygote" THEN (IF taken = {} THEN None ELSE Max(taken))
       ELSE IF Running(s) = {} THEN None ELSE Min(Running(s))]]
  /\ apps' = [apps EXCEPT ![c] = Launchers \ taken]
  /\ todo' = [todo EXCEPT ![c] = Plan(command[c])]
  /\ UNCHANGED <<command, quitting, clicks, child, ticking, process, bound>>

-----------------------------------------------------------------------------
(* The statements of a command or a handler, one at a time.                *)

Doing(c, op) ==
  phase[c] \in {"live", "leaving"} /\ todo[c] # << >> /\ Head(todo[c]) = op
Then(c, next) == todo' = [todo EXCEPT ![c] = next \o Tail(@)]

Fork(c, k, p, st) ==
  /\ p \in Fresh
  /\ kind' = [kind EXCEPT ![p] = k]
  /\ parent' = [parent EXCEPT ![p] = c]
  /\ state' = [state EXCEPT ![p] = st]

\* startZygote, startSurfaceflinger, ...
Start(c, s, p) ==
  /\ Doing(c, s)
  /\ tracker[c][s] = None
  /\ Fork(c, s, p, "up")
  /\ child' = [child EXCEPT ![c][s] = p]
  /\ tracker' = [tracker EXCEPT ![c][s] = p]
  /\ Then(c, << >>)
  /\ UNCHANGED <<phase, command, quitting, clicks, apps, ticking, bound>>

\* The process does not start: its tracker gets the number 0.
StartFails(c, s) ==
  /\ Doing(c, s)
  /\ tracker[c][s] = None
  /\ Fresh = {} \/ s \in Broken
  /\ child' = [child EXCEPT ![c][s] = None]
  /\ tracker' = [tracker EXCEPT ![c][s] = 0]
  /\ Then(c, << >>)
  /\ UNCHANGED <<phase, command, quitting, clicks, apps, ticking, process, bound>>

\* It runs already, as far as this invocation knows: only the service
\* manager makes an error of it.
AlreadyRuns(c, s) ==
  /\ Doing(c, s)
  /\ tracker[c][s] # None
  /\ Then(c, IF s = "servicemanager" THEN Error(c) \o QuitOnError(c) ELSE << >>)
  /\ UNCHANGED <<phase, command, quitting, clicks, known, process, bound>>

\* SIGTERM for the processes in targets.
Told(targets) == [p \in Pid |-> IF p \in targets /\ state[p] = "up" THEN "term" ELSE state[p]]

\* The trackers stop comes to before one with number 0.
Reached(c) ==
  {tracker[c][s] : s \in
     {t \in Service : \A u \in Service : StopPlace[u] <= StopPlace[t] => tracker[c][u] # 0}} \ {None}

HasFailed(c) == \E s \in Service : tracker[c][s] = 0
Children(c) == {p \in Pid : parent[p] = c}

\* A mutant clears the trackers of the services as well.
MutStop(c) ==
  /\ Doing(c, "stop")
  /\ ~HasFailed(c)
  /\ state' = Told(Reached(c) \cup apps[c])
  /\ tracker' = [tracker EXCEPT ![c] = [s \in Service |-> None]]
  /\ apps' = [apps EXCEPT ![c] = {}]
  /\ ticking' = [ticking EXCEPT ![c] = {}]
  /\ Then(c, << >>)
  /\ UNCHANGED <<phase, command, quitting, clicks, child, kind, parent, bound>>

\* A mutant clears the list of applications and deletes no tracker.
MutStopApps(c) ==
  /\ Doing(c, "stop")
  /\ ~HasFailed(c)
  /\ state' = Told(Reached(c) \cup apps[c])
  /\ apps' = [apps EXCEPT ![c] = {}]
  /\ Then(c, << >>)
  /\ UNCHANGED <<phase, command, quitting, clicks, tracker, child, ticking, kind, parent, bound>>

\* Controller::stop.  It waits for nothing, and the trackers stay.
Stop(c) ==
  /\ Doing(c, "stop")
  /\ ~HasFailed(c)
  /\ state' = Told(Reached(c) \cup apps[c])
  /\ apps' = [apps EXCEPT ![c] = {}]
  /\ ticking' = [ticking EXCEPT ![c] = {}]
  /\ Then(c, << >>)
  /\ UNCHANGED <<phase, command, quitting, clicks, tracker, child, kind, parent, bound>>

\* What is left of an invocation when it ends: its children live on, and
\* those it has not waited for are waited for by init.
Over(c, st) ==
  /\ phase' = [phase EXCEPT ![c] = "over"]
  /\ todo' = [todo EXCEPT ![c] = << >>]
  /\ quitting' = [quitting EXCEPT ![c] = FALSE]
  /\ tracker' = [tracker EXCEPT ![c] = [s \in Service |-> None]]
  /\ child' = [child EXCEPT ![c] = [s \in Service |-> None]]
  /\ apps' = [apps EXCEPT ![c] = {}]
  /\ ticking' = [ticking EXCEPT ![c] = {}]
  /\ state' = [p \in Pid |-> IF st[p] = "zombie" /\ parent[p] = c THEN "gone" ELSE st[p]]
  /\ UNCHANGED <<command, clicks, kind, parent, bound>>

\* kill(0, SIGTERM) reaches the process group: the children it started and
\* the controller itself, in the middle of stop.
StopsItself(c) ==
  /\ Doing(c, "stop")
  /\ HasFailed(c)
  /\ Over(c, Told(Reached(c) \cup Children(c)))

\* main, apkfile: if one of the three is missing, restart everything.
Ensure(c) ==
  /\ Doing(c, "ensure")
  /\ Then(c, IF \E s \in Needed : tracker[c][s] = None THEN <<"stop">> \o StartAll ELSE << >>)
  /\ UNCHANGED <<phase, command, quitting, clicks, known, process, bound>>

\* ... and give up if one is still missing.
Verify(c) ==
  /\ Doing(c, "verify")
  /\ Then(c, IF \E s \in Needed : tracker[c][s] = None THEN <<"quit">> ELSE << >>)
  /\ UNCHANGED <<phase, command, quitting, clicks, known, process, bound>>

\* runApk: st is "gone" if the launcher cannot be executed.  A fork that
\* fails leaves nothing here (in the code, a tracker with number 0).
RunApk(c, p, st) ==
  /\ Doing(c, "apk")
  /\ st = "up" \/ "app" \in Broken
  /\ Fork(c, "app", p, st)
  /\ apps' = [apps EXCEPT ![c] = @ \cup {p}]
  /\ ticking' = [ticking EXCEPT ![c] = @ \cup {p}]
  /\ Then(c, << >>)
  /\ UNCHANGED <<phase, command, quitting, clicks, tracker, child, bound>>

\* runAM: no tracker.
RunAM(c, p, st) ==
  /\ Doing(c, "am")
  /\ st = "up" \/ "am" \in Broken
  /\ Fork(c, "am", p, st)
  /\ Then(c, << >>)
  /\ UNCHANGED <<phase, command, quitting, clicks, known, bound>>

\* There is no such file, or no process could be forked.
RunsNothing(c) ==
  /\ Doing(c, "apk") \/ (Doing(c, "am") /\ Fresh = {})
  /\ Then(c, << >>)
  /\ UNCHANGED <<phase, command, quitting, clicks, known, process, bound>>

SetTimer(c) ==
  /\ Doing(c, "quit")
  /\ quitting' = [quitting EXCEPT ![c] = TRUE]
  /\ Then(c, << >>)
  /\ UNCHANGED <<phase, command, clicks, known, process, bound>>

\* A box is closed by the user, or does not open any more.
CloseBox(c) ==
  /\ Doing(c, "box")
  /\ Then(c, << >>)
  /\ UNCHANGED <<phase, command, quitting, clicks, known, process, bound>>

-----------------------------------------------------------------------------
(* The event loop, which a message box runs as well.                       *)

Loop(c) == phase[c] = "live" /\ (todo[c] # << >> => Head(todo[c]) = "box")

\* The buttons of Main.qml; they are out of reach while a box is open.
Click(c, what) ==
  /\ phase[c] = "live"
  /\ command[c] = "ui"
  /\ todo[c] = << >>
  /\ what = "stop" => \E s \in Service : tracker[c][s] # None
  /\ what = "apk" => "zygote" \in Service /\ tracker[c]["zygote"] # None
  /\ clicks[c] < MaxClicks
  /\ clicks' = [clicks EXCEPT ![c] = @ + 1]
  /\ todo' = [todo EXCEPT ![c] = IF what = "restart" THEN <<"stop">> \o StartAll ELSE <<what>>]
  /\ UNCHANGED <<phase, command, quitting, known, process, bound>>

CloseWindow(c) ==
  /\ phase[c] = "live"
  /\ command[c] = "ui"
  /\ todo[c] = << >>
  /\ phase' = [phase EXCEPT ![c] = "leaving"]
  /\ UNCHANGED <<command, todo, quitting, clicks, known, process, bound>>

\* A mutant leaves the rest alone when the service manager is lost.
MutExited(c, p, failed) ==
  IF kind[p] \in Service /\ child[c][kind[p]] # p THEN Error(c)
  ELSE CASE kind[p] = "zygote"                           -> Error(c) \o <<"stop">> \o QuitOnError(c)
         [] kind[p] \in {"servicemanager", "surfaceflinger"} -> Error(c) \o QuitOnError(c)
         [] kind[p] \in {"app", "am"}                    -> (IF failed THEN Error(c) ELSE << >>) \o QuitOnError(c)
         [] OTHER                                        -> Error(c)

\* processExited(int, ExitStatus), for the process p.
Exited(c, p, failed) ==
  IF kind[p] \in Service /\ child[c][kind[p]] # p THEN Error(c)
  ELSE CASE kind[p] \in {"zygote", "servicemanager"} -> Error(c) \o <<"stop">> \o QuitOnError(c)
         [] kind[p] = "surfaceflinger"               -> Error(c) \o QuitOnError(c)
         [] kind[p] \in {"app", "am"}                -> (IF failed THEN Error(c) ELSE << >>) \o QuitOnError(c)
         [] OTHER                                    -> Error(c)

\* QProcess waits for a child that ended and emits finished.
Finished(c, p, failed) ==
  /\ Loop(c)
  /\ state[p] = "zombie"
  /\ parent[p] = c
  /\ state' = [state EXCEPT ![p] = "gone"]
  /\ todo' = [todo EXCEPT ![c] = Exited(c, p, failed) \o @]
  /\ UNCHANGED <<phase, command, quitting, clicks, known, kind, parent, bound>>

\* fileWatch of the tracker of a service this invocation started.
Watch(c, s) ==
  /\ Loop(c)
  /\ tracker[c][s] # None
  /\ tracker[c][s] # 0 => parent[tracker[c][s]] = c
  /\ Vanished(tracker[c][s])
  /\ tracker' = [tracker EXCEPT ![c][s] = None]
  /\ UNCHANGED <<invocation, child, apps, ticking, process, bound>>

\* fileWatch of the tracker of an application: processExited drops the
\* first of the list, whichever ended.
WatchApp(c, p) ==
  /\ Loop(c)
  /\ Vanished(p)
  /\ apps' = [apps EXCEPT ![c] = @ \ {Min(@)}]
  /\ ticking' = [ticking EXCEPT ![c] = @ \ {p, Min(apps[c])}]
  /\ UNCHANGED <<invocation, tracker, child, process, bound>>

\* The timer fires: every loop ends, what follows them is still carried out.
Quit(c) ==
  /\ Loop(c)
  /\ quitting[c]
  /\ phase' = [phase EXCEPT ![c] = "leaving"]
  /\ UNCHANGED <<command, todo, quitting, clicks, known, process, bound>>

\* exec returns and so does main, which deletes nothing.
End(c) ==
  /\ phase[c] = "leaving"
  /\ todo[c] = << >>
  /\ Over(c, state)

-----------------------------------------------------------------------------
(* The world around.                                                       *)

\* A process ends: by itself, or because it was told to.
Die(p) ==
  /\ state[p] = "term" \/ (state[p] = "up" /\ kind[p] \in Mortal)
  /\ state' = [state EXCEPT ![p] = IF phase[parent[p]] = "over" THEN "gone" ELSE "zombie"]
  /\ UNCHANGED <<invocation, known, kind, parent, bound>>

\* An invocation is killed.
Crash(c) ==
  /\ "crash" \in Faults
  /\ phase[c] \in {"setup", "live", "leaving"}
  /\ Over(c, state)

-----------------------------------------------------------------------------
\* What an invocation does without its user.
Proceeds(c) ==
  \/ \E taken \in SUBSET Launchers : Scan(c, taken)
  \/ \E s \in Service :
       \/ \E p \in Fresh : Start(c, s, p)
       \/ StartFails(c, s) \/ AlreadyRuns(c, s) \/ Watch(c, s)
  \/ Stop(c) \/ StopsItself(c) \/ Ensure(c) \/ Verify(c) \/ SetTimer(c)
  \/ \E p \in Fresh, st \in {"up", "gone"} : RunApk(c, p, st) \/ RunAM(c, p, st)
  \/ RunsNothing(c)
  \/ \E p \in Children(c), failed \in BOOLEAN : Finished(c, p, failed)
  \/ \E p \in ticking[c] : WatchApp(c, p)
  \/ Quit(c) \/ End(c)

Next ==
  \/ \E c \in Ctl :
       \/ \E cmd \in Command[c] : Begin(c, cmd)
       \/ \E cmd \in Command[c], k \in 0..2, removed \in BOOLEAN : BeginFails(c, cmd, k, removed)
       \/ Proceeds(c)
       \/ CloseBox(c)
       \/ \E what \in Service \cup {"restart", "stop", "apk"} : Click(c, what)
       \/ CloseWindow(c)
       \/ Crash(c)
  \/ \E p \in Pid : Die(p)

Spec == Init /\ [][Next]_vars

\* An event loop runs and a SIGTERM is obeyed; the user need not do anything.
FairSpec ==
  /\ Spec
  /\ \A c \in Ctl : WF_vars(Proceeds(c))
  /\ WF_vars(\E p \in Pid : state[p] = "term" /\ Die(p))
-----------------------------------------------------------------------------
(* Properties.                                                             *)

TypeOK ==
  /\ phase \in [Ctl -> {"idle", "setup", "live", "leaving", "over"}]
  /\ command \in [Ctl -> (UNION {Command[c] : c \in Ctl}) \cup {None}]
  /\ todo \in [Ctl -> Seq(Op)]
  /\ quitting \in [Ctl -> BOOLEAN]
  /\ clicks \in [Ctl -> 0..MaxClicks]
  /\ tracker \in [Ctl -> [Service -> 0..MaxPid \cup {None}]]
  /\ child \in [Ctl -> [Service -> Pid \cup {None}]]
  /\ apps \in [Ctl -> SUBSET Pid]
  /\ ticking \in [Ctl -> SUBSET Pid]
  /\ \A c \in Ctl : ticking[c] \subseteq apps[c]
  /\ kind \in [Pid -> Service \cup {"app", "am", None}]
  /\ parent \in [Pid -> Ctl \cup {None}]
  /\ state \in [Pid -> {"free", "up", "term", "zombie", "gone"}]
  /\ \A p \in Pid : state[p] = "free" <=> parent[p] = None
  /\ bound \in [Socket -> Ctl \cup {None}]

\* A service an invocation started and has not waited for is the one its
\* tracker names, so stop reaches it and its end is recognised; so there are
\* never two of them (Controller.cpp: the start functions, stop and the two
\* processExited, which forget a tracker and a process at different times).
OwnServiceTracked ==
  \A p \in Pid : LET c == parent[p] IN
    (state[p] \in {"up", "term", "zombie"} /\ kind[p] \in Service /\ phase[c] # "over") =>
      child[c][kind[p]] = p /\ tracker[c][kind[p]] = p

\* Once the end of its zygote or service manager was dealt with, an
\* invocation without a window has told every service it started to end
\* ("we should just cut our losses and quit everything else").  Behind a
\* window the user may start services again after that.
LossStopsRest ==
  \A c \in Ctl : \A p, q \in Children(c) :
    (/\ ~HasGui(c) /\ phase[c] \in {"live", "leaving"} /\ todo[c] = << >>
     /\ kind[p] \in {"zygote", "servicemanager"} /\ state[p] = "gone"
     /\ kind[q] \in Service)
    => state[q] # "up"

\* The loss of a service nothing works without ends an invocation without a
\* window: processExited quits when zygote, the service manager or
\* SurfaceFlinger has exited.
LossEndsSession ==
  \A c \in Ctl :
    (~HasGui(c) /\ \E p \in Children(c) : kind[p] \in Needed /\ state[p] = "zombie")
      ~> phase[c] = "over"

=============================================================================
