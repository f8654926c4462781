-------------------------- MODULE ControllerProofs --------------------------
(***************************************************************************)
(* Theorems about Controller for any number of invocations, processes and  *)
(* failures, and any commands.                                             *)
(***************************************************************************)
EXTENDS Controller, TLAPS, WellFoundedInduction, SequenceTheorems

\* An invocation has nothing before its trackers exist.
Early ==
  \A c \in Ctl : phase[c] \in {"idle", "setup"} => todo[c] = << >> /\ Children(c) = {} /\ ticking[c] = {}

\* Message boxes are for a window.
NoBoxes ==
  \A c \in Ctl : ~HasGui(c) => todo[c] \in Seq(Op \ {"box"})

Lost(c) == \E p \in Children(c) : kind[p] \in {"zygote", "servicemanager"} /\ state[p] = "gone"
Quiet(c) == \A q \in Children(c) : kind[q] \in Service => state[q] # "up"

\* From the moment the loss is noticed the handler has the invocation to
\* itself, until it has told every service.
Reacts ==
  \A c \in Ctl : ~HasGui(c) /\ phase[c] \in {"live", "leaving"} /\ Lost(c) =>
    \/ todo[c] = <<"stop", "quit">>
    \/ Quiet(c) /\ todo[c] \in {<<"quit">>, << >>}

IInv == TypeOK /\ Early /\ OwnServiceTracked /\ NoBoxes /\ Reacts

-----------------------------------------------------------------------------
(* Least and greatest numbers.                                             *)

LEMMA MinIsLeast ==
  ASSUME NEW T \in SUBSET Nat, T # {}
  PROVE  Min(T) \in T /\ \A x \in T : Min(T) <= x
<1> DEFINE R == OpToRel(<, Nat)
<1>1. \A x, y : <<x, y>> \in R <=> x \in Nat /\ y \in Nat /\ x < y
  BY Zenon DEF OpToRel
<1>2. IsWellFoundedOn(R, Nat)
  BY Zenon, NatLessThanWellFounded
<1> HIDE DEF R
<1>3. PICK m \in T : \A y \in T : ~(<<y, m>> \in R)
  BY <1>2, WFMin
<1>4. ASSUME NEW y \in T PROVE ~(y < m)
  <2>1. ~(<<y, m>> \in R)
    BY <1>3
  <2>2. <<y, m>> \in R <=> y \in Nat /\ m \in Nat /\ y < m
    BY ONLY <1>1, Zenon
  <2> QED BY <2>1, <2>2
<1>5. \A y \in T : m <= y
  BY <1>4
<1> QED BY <1>5 DEF Min

LEMMA MaxOfPids ==
  ASSUME NEW T \in SUBSET Pid, T # {}
  PROVE  Max(T) \in T
<1> DEFINE D == {MaxPid - x : x \in T}
<1>0. MaxPid \in Nat /\ \A x \in T : x \in Nat /\ x <= MaxPid
  BY ControllerAssumption DEF Pid
<1>1. D \in SUBSET Nat /\ D # {}
  BY <1>0
<1>2. Min(D) \in D /\ \A d \in D : Min(D) <= d
  BY <1>1, MinIsLeast
<1>3. PICK m \in T : Min(D) = MaxPid - m
  BY <1>2
<1>4. \A x \in T : m >= x
  <2> SUFFICES ASSUME NEW x \in T PROVE m >= x
    OBVIOUS
  <2>1. MaxPid - x \in D
    OBVIOUS
  <2> HIDE DEF D
  <2>2. Min(D) <= MaxPid - x
    BY <1>2, <2>1
  <2> QED BY <1>0, <1>3, <2>2
<1> QED BY <1>4 DEF Max

-----------------------------------------------------------------------------
(* The statements of a command and of a handler.                           *)

LEMMA OpTypes ==
  /\ Op \ {"box"} \subseteq Op
  /\ Service \subseteq Op \ {"box"}
  /\ StartAll \in Seq(Op \ {"box"})
  /\ Sockets \in Seq(Socket)
<1>1. ASSUME NEW S, NEW s, s \in Service => s \in S PROVE Only(s) \in Seq(S)
  BY <1>1 DEF Only
<1>2. \A s \in {"installd", "zygote", "adbd"} : Only(s) \in Seq(Socket)
  BY <1>1 DEF Socket
<1>3. StartAll \in Seq(Op \ {"box"})
  <2> \A s \in Daemon : Only(s) \in Seq(Op \ {"box"})
    <3> \A s \in Daemon : s \in Op \ {"box"}
      BY DEF Op, Daemon
    <3> QED BY <1>1
  <2> QED BY DEF StartAll, Daemon
<1>4. Sockets \in Seq(Socket)
  BY <1>2 DEF Sockets
<1> QED BY <1>3, <1>4, ControllerAssumption DEF Op, Daemon

LEMMA PlanType ==
  ASSUME NEW cmd
  PROVE  Plan(cmd) \in Seq(Op \ {"box"})
<1>1. \A s \in Daemon \cup {"stop", "quit", "ensure", "verify", "apk", "am"} : s \in Op \ {"box"}
  BY DEF Op, Daemon
<1>2. \A s \in Op \ {"box"} : <<s>> \in Seq(Op \ {"box"})
  OBVIOUS
<1>3. /\ <<"stop">> \o StartAll \in Seq(Op \ {"box"})
      /\ <<"stop", "quit">> \in Seq(Op \ {"box"})
      /\ <<"ensure", "verify", "apk">> \in Seq(Op \ {"box"})
      /\ << >> \in Seq(Op \ {"box"})
  BY <1>1, <1>2, OpTypes
<1> QED BY <1>1, <1>2, <1>3, OpTypes DEF Plan

LEMMA ErrorType ==
  ASSUME NEW c \in Ctl
  PROVE  /\ Error(c) \in Seq(Op)
         /\ QuitOnError(c) \in Seq(Op \ {"box"})
         /\ ~HasGui(c) => Error(c) = << >> /\ QuitOnError(c) = <<"quit">>
<1>1. "box" \in Op /\ "quit" \in Op \ {"box"}
  BY DEF Op
<1>2. /\ << >> \in Seq(Op) /\ <<"box">> \in Seq(Op)
      /\ << >> \in Seq(Op \ {"box"}) /\ <<"quit">> \in Seq(Op \ {"box"})
  BY <1>1
<1> QED BY <1>2 DEF Error, QuitOnError, HasGui

LEMMA ExitedType ==
  ASSUME NEW c \in Ctl, NEW p \in Pid, NEW failed \in BOOLEAN
  PROVE  /\ Exited(c, p, failed) \in Seq(Op)
         /\ ~HasGui(c) => Exited(c, p, failed) \in {<<"stop", "quit">>, <<"quit">>, << >>}
         /\ ~HasGui(c) /\ kind[p] \in {"zygote", "servicemanager"} /\ kind[p] \in Service
              /\ child[c][kind[p]] = p => Exited(c, p, failed) = <<"stop", "quit">>
<1>1. /\ Error(c) \in Seq(Op) /\ QuitOnError(c) \in Seq(Op)
      /\ <<"stop">> \in Seq(Op) /\ << >> \in Seq(Op)
  BY ErrorType, OpTypes DEF Op
<1>2. Exited(c, p, failed) \in Seq(Op)
  BY <1>1 DEF Exited
<1>3. ASSUME ~HasGui(c)
      PROVE  /\ Error(c) = << >> /\ QuitOnError(c) = <<"quit">>
             /\ << >> \o <<"stop">> \o <<"quit">> = <<"stop", "quit">>
             /\ << >> \o <<"quit">> = <<"quit">>
  <2>1. Error(c) = << >> /\ QuitOnError(c) = <<"quit">>
    BY <1>3, ErrorType
  <2>2. << >> \o <<"quit">> = <<"quit">>
    OBVIOUS
  <2>3. << >> \o <<"stop">> \o <<"quit">> = <<"stop", "quit">>
    <3>1. << >> \o <<"stop">> = <<"stop">>
      OBVIOUS
    <3>2. <<"stop">> \o <<"quit">> = <<"stop", "quit">>
      <4> DEFINE s == <<"stop">> \o <<"quit">>
                 t == <<"stop", "quit">>
      <4>1. s \in Seq({"stop", "quit"}) /\ Len(s) = 2 /\ s[1] = "stop" /\ s[2] = "quit"
        OBVIOUS
      <4>2. t \in Seq({"stop", "quit"}) /\ Len(t) = 2 /\ t[1] = "stop" /\ t[2] = "quit"
        OBVIOUS
      <4> HIDE DEF s, t
      <4>3. \A i \in 1..Len(s) : s[i] = t[i]
        BY <4>1, <4>2
      <4>4. s = t
        BY <4>1, <4>2, <4>3, SeqEqual
      <4> QED BY <4>4 DEF s, t
    <3> QED BY <3>1, <3>2
  <2> QED BY <2>1, <2>2, <2>3
<1> QED BY <1>2, <1>3 DEF Exited

-----------------------------------------------------------------------------
(* What the steps share.                                                   *)

LEMMA ThenType ==
  ASSUME TypeOK, NEW c \in Ctl, NEW op, Doing(c, op), NEW next \in Seq(Op), Then(c, next)
  PROVE  /\ todo' \in [Ctl -> Seq(Op)]
         /\ \A d \in Ctl : d # c => todo'[d] = todo[d]
         /\ todo'[c] = next \o Tail(todo[c])
<1>1. todo[c] \in Seq(Op) /\ todo[c] # << >>
  BY DEF TypeOK, Doing
<1>2. next \o Tail(todo[c]) \in Seq(Op)
  BY <1>1
<1> QED BY <1>2 DEF Then, TypeOK

\* A handler that reacts to a loss is not at a statement other than its two.
LEMMA ThenReacts ==
  ASSUME TypeOK, NEW c \in Ctl, NEW op, Doing(c, op), op \notin {"stop", "quit"}
  PROVE  todo[c] \notin {<<"stop", "quit">>, <<"quit">>, << >>}
BY DEF Doing

\* A statement that changes the list only by plain statements keeps boxes out.
LEMMA ThenNoBoxes ==
  ASSUME TypeOK, NoBoxes, NEW c \in Ctl, NEW op, Doing(c, op),
         NEW next \in Seq(Op), ~HasGui(c) => next \in Seq(Op \ {"box"}),
         Then(c, next), command' = command
  PROVE  NoBoxes'
<1>1. todo'[c] = next \o Tail(todo[c]) /\ \A d \in Ctl : d # c => todo'[d] = todo[d]
  BY ThenType
<1>2. ~HasGui(c) => todo[c] \in Seq(Op \ {"box"}) /\ todo[c] # << >>
  BY DEF NoBoxes, Doing
<1>3. ~HasGui(c) => Tail(todo[c]) \in Seq(Op \ {"box"})
  BY <1>2
<1>4. ~HasGui(c) => todo'[c] \in Seq(Op \ {"box"})
  BY <1>1, <1>3
<1> QED BY <1>1, <1>4 DEF NoBoxes, HasGui

\* What forking does.
LEMMA ForkType ==
  ASSUME TypeOK, NEW c \in Ctl, NEW k \in Service \cup {"app", "am"}, NEW p \in Pid,
         NEW st \in {"up", "gone"}, Fork(c, k, p, st)
  PROVE  /\ kind' \in [Pid -> Service \cup {"app", "am", None}]
         /\ parent' \in [Pid -> Ctl \cup {None}]
         /\ state' \in [Pid -> {"free", "up", "term", "zombie", "gone"}]
         /\ \A q \in Pid : state'[q] = "free" <=> parent'[q] = None
         /\ state[p] = "free" /\ parent[p] = None
         /\ kind'[p] = k /\ parent'[p] = c /\ state'[p] = st
         /\ \A q \in Pid : q # p => kind'[q] = kind[q] /\ parent'[q] = parent[q] /\ state'[q] = state[q]
<1>1. state[p] = "free" /\ p \in Pid
  BY DEF Fork, Fresh
<1> QED BY <1>1, ControllerAssumption DEF Fork, TypeOK

\* The end of an invocation that leaves its processes in the states st.
LEMMA OverKeeps ==
  ASSUME TypeOK, Early, OwnServiceTracked, NoBoxes, Reacts,
         NEW c \in Ctl, NEW st \in [Pid -> {"free", "up", "term", "zombie", "gone"}],
         \A p \in Pid : /\ st[p] = "free" <=> state[p] = "free"
                        /\ st[p] = "up" => state[p] = "up"
                        /\ st[p] \in {"up", "term", "zombie"} => state[p] \in {"up", "term", "zombie"}
                        /\ st[p] = "gone" => state[p] = "gone",
         Over(c, st)
  PROVE  IInv'
<1>1. /\ phase' = [phase EXCEPT ![c] = "over"] /\ todo' = [todo EXCEPT ![c] = << >>]
      /\ command' = command /\ kind' = kind /\ parent' = parent
      /\ \A d \in Ctl : d # c =>
           tracker'[d] = tracker[d] /\ child'[d] = child[d] /\ ticking'[d] = ticking[d]
  BY DEF Over, TypeOK
<1>2. state' \in [Pid -> {"free", "up", "term", "zombie", "gone"}]
  BY DEF Over
<1>a. \A p \in Pid : /\ state'[p] = "free" <=> state[p] = "free"
                     /\ state'[p] = "up" => state[p] = "up"
                     /\ state'[p] \in {"up", "term", "zombie"} => state[p] \in {"up", "term", "zombie"}
                     /\ parent[p] # c /\ state'[p] = "gone" => state[p] = "gone"
  <2>1. \A p \in Pid : state'[p] = IF st[p] = "zombie" /\ parent[p] = c THEN "gone" ELSE st[p]
    BY DEF Over
  <2> SUFFICES ASSUME NEW p \in Pid
               PROVE  /\ state'[p] = "free" <=> state[p] = "free"
                      /\ state'[p] = "up" => state[p] = "up"
                      /\ state'[p] \in {"up", "term", "zombie"} => state[p] \in {"up", "term", "zombie"}
                      /\ parent[p] # c /\ state'[p] = "gone" => state[p] = "gone"
    OBVIOUS
  <2>2. CASE st[p] = "zombie" /\ parent[p] = c
    <3>1. state'[p] = "gone" /\ state[p] # "free"
      BY <2>1, <2>2
    <3> QED BY <2>2, <3>1
  <2>3. CASE ~(st[p] = "zombie" /\ parent[p] = c)
    <3>1. state'[p] = st[p]
      BY <2>1, <2>3
    <3> QED BY <3>1
  <2> QED BY <2>2, <2>3
<1>3. TypeOK'
  <2>1. << >> \in Seq(Op)
    OBVIOUS
  <2>2. todo' \in [Ctl -> Seq(Op)]
    BY <1>1, <2>1 DEF TypeOK
  <2>3. [s \in Service |-> None] \in [Service -> 0..MaxPid \cup {None}]
        /\ [s \in Service |-> None] \in [Service -> Pid \cup {None}]
    OBVIOUS
  <2>4. tracker' \in [Ctl -> [Service -> 0..MaxPid \cup {None}]] /\ child' \in [Ctl -> [Service -> Pid \cup {None}]]
    BY <2>3 DEF TypeOK, Over
  <2> QED BY <1>1, <1>2, <1>a, <2>2, <2>4 DEF TypeOK, Over
<1>4. Early'
  BY <1>1 DEF Early, Children, TypeOK
<1>5. OwnServiceTracked'
  <2> SUFFICES ASSUME NEW p \in Pid, state'[p] \in {"up", "term", "zombie"},
                      kind'[p] \in Service, phase'[parent'[p]] # "over"
               PROVE  child'[parent'[p]][kind'[p]] = p /\ tracker'[parent'[p]][kind'[p]] = p
    BY DEF OwnServiceTracked
  <2>1. parent[p] \in Ctl /\ parent[p] # c /\ phase[parent[p]] # "over"
    BY <1>1, <1>2, <1>a DEF TypeOK
  <2> QED BY <1>1, <1>2, <1>a, <2>1 DEF OwnServiceTracked
<1>6. NoBoxes'
  <2>1. << >> \in Seq(Op \ {"box"})
    OBVIOUS
  <2> QED BY <1>1, <2>1 DEF NoBoxes, HasGui, TypeOK
<1>7. Reacts'
  <2> SUFFICES ASSUME NEW d \in Ctl, ~HasGui(d)', phase'[d] \in {"live", "leaving"}, Lost(d)'
               PROVE  \/ todo'[d] = <<"stop", "quit">>
                      \/ Quiet(d)' /\ todo'[d] \in {<<"quit">>, << >>}
    BY DEF Reacts
  <2>1. d # c /\ phase[d] = phase'[d] /\ todo'[d] = todo[d]
    BY <1>1 DEF TypeOK
  <2>2. ~HasGui(d) /\ Lost(d)
    BY <1>1, <1>2, <1>a, <2>1 DEF HasGui, Lost, Children
  <2>3. Quiet(d) => Quiet(d)'
    BY <1>1, <1>a DEF Quiet, Children
  <2> QED BY <2>1, <2>2, <2>3 DEF Reacts
<1> QED BY <1>3, <1>4, <1>5, <1>6, <1>7 DEF IInv
\* A statement that does nothing but to put others in its place.
LEMMA ThenKeeps ==
  ASSUME TypeOK, Early, OwnServiceTracked, NoBoxes, Reacts,
         NEW c \in Ctl, NEW op, Doing(c, op), op \notin {"stop", "quit"},
         NEW next \in Seq(Op), ~HasGui(c) => next \in Seq(Op \ {"box"}), Then(c, next),
         UNCHANGED <<phase, command, quitting, clicks, known, process, bound>>
  PROVE  IInv'
<1> USE DEF known, process
<1>1. todo' \in [Ctl -> Seq(Op)] /\ \A d \in Ctl : d # c => todo'[d] = todo[d]
  BY ThenType
<1>2. TypeOK'
  BY <1>1 DEF TypeOK
<1>3. Early'
  BY <1>1 DEF Early, Children, Doing
<1>4. OwnServiceTracked'
  BY DEF OwnServiceTracked
<1>5. NoBoxes'
  BY ThenNoBoxes
<1>6. Reacts'
  <2>1. ~HasGui(c) /\ phase[c] \in {"live", "leaving"} => ~Lost(c)
    BY ThenReacts DEF Reacts
  <2>2. \A d \in Ctl : (HasGui(d)' <=> HasGui(d)) /\ (Lost(d)' <=> Lost(d)) /\ (Quiet(d)' <=> Quiet(d))
    BY DEF HasGui, Lost, Quiet, Children
  <2> QED BY <1>1, <2>1, <2>2 DEF Reacts
<1> QED BY <1>2, <1>3, <1>4, <1>5, <1>6 DEF IInv

-----------------------------------------------------------------------------
(* The start of an invocation.                                             *)

LEMMA BeginKeeps ==
  ASSUME TypeOK, Early, OwnServiceTracked, NoBoxes, Reacts,
         NEW c \in Ctl, NEW cmd \in Command[c], phase[c] = "idle",
         NEW ph \in {"setup", "over"}, phase' = [phase EXCEPT ![c] = ph],
         command' = [command EXCEPT ![c] = cmd],
         bound' \in [Socket -> Ctl \cup {None}],
         UNCHANGED <<todo, quitting, clicks, known, process>>
  PROVE  IInv'
<1> USE DEF known, process
<1>1. todo[c] = << >> /\ Children(c) = {} /\ << >> \in Seq(Op \ {"box"})
  BY DEF Early
<1>2. TypeOK'
  BY DEF TypeOK
<1>3. Early'
  BY <1>1 DEF Early, Children, TypeOK
<1>4. OwnServiceTracked'
  BY <1>1 DEF OwnServiceTracked, Children, TypeOK
<1>5. NoBoxes'
  BY <1>1 DEF NoBoxes, HasGui, TypeOK
<1>6. Reacts'
  BY DEF Reacts, HasGui, Lost, Quiet, Children, TypeOK
<1> QED BY <1>2, <1>3, <1>4, <1>5, <1>6 DEF IInv

LEMMA SocketStep ==
  ASSUME TypeOK, NEW c \in Ctl, NEW k
  PROVE  Rebound(c, k) \in [Socket -> Ctl \cup {None}]
BY DEF Rebound, TypeOK

LEMMA BeginStep ==
  ASSUME TypeOK, Early, OwnServiceTracked, NoBoxes, Reacts,
         NEW c \in Ctl, NEW cmd \in Command[c], Begin(c, cmd)
  PROVE  IInv'
<1>1. bound' \in [Socket -> Ctl \cup {None}]
  BY SocketStep DEF Begin, TypeOK
<1> QED BY <1>1, BeginKeeps DEF Begin

LEMMA BeginFailsStep ==
  ASSUME TypeOK, Early, OwnServiceTracked, NoBoxes, Reacts,
         NEW c \in Ctl, NEW cmd \in Command[c], NEW k \in 0..2, NEW removed \in BOOLEAN,
         BeginFails(c, cmd, k, removed)
  PROVE  IInv'
<1>1. [Rebound(c, k) EXCEPT ![Sockets[k + 1]] = None] \in [Socket -> Ctl \cup {None}]
  BY SocketStep
<1>2. bound' \in [Socket -> Ctl \cup {None}]
  BY <1>1, SocketStep DEF BeginFails
<1> QED BY <1>2, BeginKeeps DEF BeginFails

LEMMA ScanStep ==
  ASSUME TypeOK, Early, OwnServiceTracked, NoBoxes, Reacts,
         NEW c \in Ctl, NEW taken \in SUBSET Launchers, Scan(c, taken)
  PROVE  IInv'
<1>1. /\ todo[c] = << >> /\ Children(c) = {} /\ ticking[c] = {}
      /\ phase[c] = "setup" /\ phase' = [phase EXCEPT ![c] = "live"]
      /\ todo' = [todo EXCEPT ![c] = Plan(command[c])]
      /\ command' = command /\ kind' = kind /\ parent' = parent /\ state' = state
      /\ child' = child /\ ticking' = ticking
      /\ \A d \in Ctl : d # c => tracker'[d] = tracker[d]
  BY DEF Scan, Early, process, TypeOK
<1>2. Plan(command[c]) \in Seq(Op) /\ Plan(command[c]) \in Seq(Op \ {"box"})
  BY PlanType, OpTypes
<1>3. TypeOK'
  <2>1. ASSUME NEW s \in Service
        PROVE  (IF s = "zygote" THEN (IF taken = {} THEN None ELSE Max(taken))
                ELSE IF Running(s) = {} THEN None ELSE Min(Running(s))) \in 0..MaxPid \cup {None}
    <3>1. taken \in SUBSET Pid /\ Running(s) \in SUBSET Pid
      BY DEF Launchers, Running, Alive
    <3>2. Pid \subseteq 0..MaxPid /\ Pid \subseteq Nat
      BY ControllerAssumption DEF Pid
    <3>3. taken # {} => Max(taken) \in Pid
      BY <3>1, MaxOfPids
    <3>4. Running(s) # {} => Min(Running(s)) \in Pid
      <4>1. Running(s) \in SUBSET Nat
        BY <3>1, <3>2
      <4>2. Running(s) # {} => Min(Running(s)) \in Running(s)
        BY <4>1, MinIsLeast
      <4> QED BY <3>1, <4>2
    <3> QED BY <3>2, <3>3, <3>4
  <2>2. tracker' \in [Ctl -> [Service -> 0..MaxPid \cup {None}]]
    BY <2>1 DEF Scan, TypeOK
  <2>3. /\ phase' \in [Ctl -> {"idle", "setup", "live", "leaving", "over"}]
        /\ todo' \in [Ctl -> Seq(Op)]
    BY <1>1, <1>2 DEF TypeOK
  <2>4. apps' \in [Ctl -> SUBSET Pid] /\ \A d \in Ctl : ticking[d] \subseteq apps'[d]
    BY <1>1 DEF Scan, Launchers, Alive, TypeOK
  <2> QED BY <1>1, <2>2, <2>3, <2>4 DEF Scan, process, TypeOK
<1>4. Early'
  BY <1>1 DEF Early, Children, TypeOK
<1>5. OwnServiceTracked'
  <2> SUFFICES ASSUME NEW p \in Pid, state[p] \in {"up", "term", "zombie"},
                      kind[p] \in Service, phase'[parent[p]] # "over"
               PROVE  child[parent[p]][kind[p]] = p /\ tracker'[parent[p]][kind[p]] = p
    BY <1>1 DEF OwnServiceTracked
  <2>1. parent[p] \in Ctl /\ parent[p] # c
    BY <1>1 DEF TypeOK, Children
  <2> QED BY <1>1, <2>1 DEF OwnServiceTracked, TypeOK
<1>6. NoBoxes'
  BY <1>1, <1>2 DEF NoBoxes, HasGui, TypeOK
<1>7. Reacts'
  BY <1>1 DEF Reacts, HasGui, Lost, Quiet, Children, TypeOK
<1> QED BY <1>3, <1>4, <1>5, <1>6, <1>7 DEF IInv

-----------------------------------------------------------------------------
(* The statements.                                                         *)

LEMMA StartStep ==
  ASSUME TypeOK, Early, OwnServiceTracked, NoBoxes, Reacts,
         NEW c \in Ctl, NEW s \in Service, NEW p \in Fresh, Start(c, s, p)
  PROVE  IInv'
<1>1. /\ Doing(c, s) /\ Then(c, << >>) /\ tracker[c][s] = None
      /\ phase' = phase /\ command' = command /\ ticking' = ticking
      /\ Fork(c, s, p, "up") /\ p \in Pid
      /\ \A d \in Ctl : d # c => tracker'[d] = tracker[d] /\ child'[d] = child[d]
      /\ \A t \in Service : t # s => tracker'[c][t] = tracker[c][t] /\ child'[c][t] = child[c][t]
      /\ tracker'[c][s] = p /\ child'[c][s] = p
  BY DEF Start, Fresh, TypeOK
<1>2. /\ todo' \in [Ctl -> Seq(Op)] /\ \A d \in Ctl : d # c => todo'[d] = todo[d]
      /\ << >> \in Seq(Op) /\ << >> \in Seq(Op \ {"box"}) /\ s \notin {"stop", "quit"}
  <2>1. << >> \in Seq(Op) /\ << >> \in Seq(Op \ {"box"})
    OBVIOUS
  <2>2. s \notin {"stop", "quit"}
    BY ControllerAssumption DEF Daemon
  <2> QED BY <1>1, <2>1, <2>2, ThenType
<1>3. /\ kind' \in [Pid -> Service \cup {"app", "am", None}]
      /\ parent' \in [Pid -> Ctl \cup {None}]
      /\ state' \in [Pid -> {"free", "up", "term", "zombie", "gone"}]
      /\ \A q \in Pid : state'[q] = "free" <=> parent'[q] = None
      /\ state[p] = "free" /\ parent[p] = None
      /\ kind'[p] = s /\ parent'[p] = c /\ state'[p] = "up"
      /\ \A q \in Pid : q # p => kind'[q] = kind[q] /\ parent'[q] = parent[q] /\ state'[q] = state[q]
  BY <1>1, ForkType
<1>4. TypeOK'
  <2>1. p \in 0..MaxPid
    BY <1>1, ControllerAssumption DEF Pid
  <2>2. tracker' \in [Ctl -> [Service -> 0..MaxPid \cup {None}]] /\ child' \in [Ctl -> [Service -> Pid \cup {None}]]
    BY <1>1, <2>1 DEF Start, TypeOK
  <2> QED BY <1>1, <1>2, <1>3, <2>2 DEF Start, TypeOK
<1>5. Early'
  <2> SUFFICES ASSUME NEW d \in Ctl, phase[d] \in {"idle", "setup"}
               PROVE  todo'[d] = << >> /\ Children(d)' = {} /\ ticking[d] = {}
    BY <1>1 DEF Early
  <2>1. d # c
    BY <1>1 DEF Doing
  <2>2. todo[d] = << >> /\ Children(d) = {} /\ ticking[d] = {}
    BY DEF Early
  <2> QED BY <1>2, <1>3, <2>1, <2>2 DEF Children
<1>6. OwnServiceTracked'
  <2> SUFFICES ASSUME NEW q \in Pid, state'[q] \in {"up", "term", "zombie"},
                      kind'[q] \in Service, phase'[parent'[q]] # "over"
               PROVE  child'[parent'[q]][kind'[q]] = q /\ tracker'[parent'[q]][kind'[q]] = q
    BY DEF OwnServiceTracked
  <2>1. CASE q = p
    BY <1>1, <1>3, <2>1
  <2>2. CASE q # p
    <3>1. child[parent[q]][kind[q]] = q /\ tracker[parent[q]][kind[q]] = q /\ parent[q] \in Ctl
      BY <1>1, <1>3, <2>2 DEF OwnServiceTracked, TypeOK
    <3>2. q # None
      BY ControllerAssumption DEF Pid
    <3> QED BY <1>1, <1>3, <2>2, <3>1, <3>2
  <2> QED BY <2>1, <2>2
<1>7. NoBoxes'
  BY <1>1, <1>2, ThenNoBoxes
<1>8. Reacts'
  <2>1. ~HasGui(c) /\ phase[c] \in {"live", "leaving"} => ~Lost(c)
    BY <1>1, <1>2, ThenReacts DEF Reacts
  <2>2. \A d \in Ctl : (HasGui(d)' <=> HasGui(d)) /\ (Lost(d)' => Lost(d)) /\ (d # c /\ Quiet(d) => Quiet(d)')
    BY <1>1, <1>3 DEF HasGui, Lost, Quiet, Children
  <2> QED BY <1>1, <1>2, <2>1, <2>2 DEF Reacts
<1> QED BY <1>4, <1>5, <1>6, <1>7, <1>8 DEF IInv
LEMMA StartFailsStep ==
  ASSUME TypeOK, Early, OwnServiceTracked, NoBoxes, Reacts,
         NEW c \in Ctl, NEW s \in Service, StartFails(c, s)
  PROVE  IInv'
<1> USE DEF process
<1>1. /\ Doing(c, s) /\ Then(c, << >>) /\ tracker[c][s] = None
      /\ phase' = phase /\ command' = command /\ ticking' = ticking
      /\ kind' = kind /\ parent' = parent /\ state' = state
      /\ \A d \in Ctl : d # c => tracker'[d] = tracker[d] /\ child'[d] = child[d]
      /\ \A t \in Service : t # s => tracker'[c][t] = tracker[c][t] /\ child'[c][t] = child[c][t]
  BY DEF StartFails, TypeOK
<1>2. /\ todo' \in [Ctl -> Seq(Op)] /\ \A d \in Ctl : d # c => todo'[d] = todo[d]
      /\ << >> \in Seq(Op) /\ << >> \in Seq(Op \ {"box"}) /\ s \notin {"stop", "quit"}
  <2>1. << >> \in Seq(Op) /\ << >> \in Seq(Op \ {"box"})
    OBVIOUS
  <2>2. s \notin {"stop", "quit"}
    BY ControllerAssumption DEF Daemon
  <2> QED BY <1>1, <2>1, <2>2, ThenType
<1>3. TypeOK'
  <2>1. 0 \in 0..MaxPid
    BY ControllerAssumption
  <2>2. tracker' \in [Ctl -> [Service -> 0..MaxPid \cup {None}]] /\ child' \in [Ctl -> [Service -> Pid \cup {None}]]
    BY <1>1, <2>1 DEF StartFails, TypeOK
  <2> QED BY <1>1, <1>2, <2>2 DEF StartFails, TypeOK
<1>4. Early'
  BY <1>1, <1>2 DEF Early, Children, Doing
<1>5. OwnServiceTracked'
  <2> SUFFICES ASSUME NEW q \in Pid, state[q] \in {"up", "term", "zombie"},
                      kind[q] \in Service, phase[parent[q]] # "over"
               PROVE  child'[parent[q]][kind[q]] = q /\ tracker'[parent[q]][kind[q]] = q
    BY <1>1 DEF OwnServiceTracked
  <2>1. child[parent[q]][kind[q]] = q /\ tracker[parent[q]][kind[q]] = q /\ parent[q] \in Ctl
    BY DEF OwnServiceTracked, TypeOK
  <2>2. q # None
    BY ControllerAssumption DEF Pid
  <2> QED BY <1>1, <2>1, <2>2
<1>6. NoBoxes'
  BY <1>1, <1>2, ThenNoBoxes
<1>7. Reacts'
  <2>1. ~HasGui(c) /\ phase[c] \in {"live", "leaving"} => ~Lost(c)
    BY <1>1, <1>2, ThenReacts DEF Reacts
  <2>2. \A d \in Ctl : (HasGui(d)' <=> HasGui(d)) /\ (Lost(d)' <=> Lost(d)) /\ (Quiet(d)' <=> Quiet(d))
    BY <1>1 DEF HasGui, Lost, Quiet, Children
  <2> QED BY <1>1, <1>2, <2>1, <2>2 DEF Reacts
<1> QED BY <1>3, <1>4, <1>5, <1>6, <1>7 DEF IInv

\* An application or the activity manager.
LEMMA AppKeeps ==
  ASSUME TypeOK, Early, OwnServiceTracked, NoBoxes, Reacts,
         NEW c \in Ctl, NEW k \in {"app", "am"}, NEW p \in Fresh, NEW st \in {"up", "gone"},
         Doing(c, k) \/ Doing(c, "apk"), Then(c, << >>), Fork(c, k, p, st),
         apps' \in [Ctl -> SUBSET Pid], ticking' \in [Ctl -> SUBSET Pid],
         \A d \in Ctl : ticking'[d] \subseteq apps'[d], \A d \in Ctl : d # c => ticking'[d] = ticking[d],
         UNCHANGED <<phase, command, quitting, clicks, tracker, child, bound>>,
         k \in {"app", "am"} => k \notin Service
  PROVE  IInv'
<1>1. PICK op \in {k, "apk"} : Doing(c, op) /\ op \notin {"stop", "quit"}
  OBVIOUS
<1>2. /\ todo' \in [Ctl -> Seq(Op)] /\ \A d \in Ctl : d # c => todo'[d] = todo[d]
      /\ << >> \in Seq(Op) /\ << >> \in Seq(Op \ {"box"})
  <2>1. << >> \in Seq(Op) /\ << >> \in Seq(Op \ {"box"})
    OBVIOUS
  <2> QED BY <1>1, <2>1, ThenType
<1>3. /\ kind' \in [Pid -> Service \cup {"app", "am", None}]
      /\ parent' \in [Pid -> Ctl \cup {None}]
      /\ state' \in [Pid -> {"free", "up", "term", "zombie", "gone"}]
      /\ \A q \in Pid : state'[q] = "free" <=> parent'[q] = None
      /\ kind'[p] = k /\ parent'[p] = c
      /\ \A q \in Pid : q # p => kind'[q] = kind[q] /\ parent'[q] = parent[q] /\ state'[q] = state[q]
  <2>1. p \in Pid
    BY DEF Fresh
  <2> QED BY <2>1, ForkType
<1>4. TypeOK'
  BY <1>2, <1>3 DEF TypeOK
<1>5. Early'
  <2> SUFFICES ASSUME NEW d \in Ctl, phase[d] \in {"idle", "setup"}
               PROVE  todo'[d] = << >> /\ Children(d)' = {} /\ ticking'[d] = {}
    BY DEF Early
  <2>1. d # c
    BY <1>1 DEF Doing
  <2>2. todo[d] = << >> /\ Children(d) = {} /\ ticking[d] = {}
    BY DEF Early
  <2>3. Children(d)' = {}
    BY <1>3, <2>1, <2>2 DEF Children
  <2>4. todo'[d] = todo[d] /\ ticking'[d] = ticking[d]
    BY <1>2, <2>1
  <2> QED BY <2>2, <2>3, <2>4
<1>6. OwnServiceTracked'
  <2> SUFFICES ASSUME NEW q \in Pid, state'[q] \in {"up", "term", "zombie"},
                      kind'[q] \in Service, phase'[parent'[q]] # "over"
               PROVE  child'[parent'[q]][kind'[q]] = q /\ tracker'[parent'[q]][kind'[q]] = q
    BY DEF OwnServiceTracked
  <2>1. q # p
    BY <1>3
  <2> QED BY <1>3, <2>1 DEF OwnServiceTracked
<1>7. NoBoxes'
  BY <1>1, <1>2, ThenNoBoxes
<1>8. Reacts'
  <2>1. ~HasGui(c) /\ phase[c] \in {"live", "leaving"} => ~Lost(c)
    BY <1>1, ThenReacts DEF Reacts
  <2>2. \A d \in Ctl : (HasGui(d)' <=> HasGui(d)) /\ (Lost(d)' => Lost(d)) /\ (d # c /\ Quiet(d) => Quiet(d)')
    BY <1>3 DEF HasGui, Lost, Quiet, Children
  <2> QED BY <1>2, <2>1, <2>2 DEF Reacts
<1> QED BY <1>4, <1>5, <1>6, <1>7, <1>8 DEF IInv

LEMMA NotAService == "app" \notin Service /\ "am" \notin Service
BY ControllerAssumption DEF Daemon

LEMMA RunApkStep ==
  ASSUME TypeOK, Early, OwnServiceTracked, NoBoxes, Reacts,
         NEW c \in Ctl, NEW p \in Fresh, NEW st \in {"up", "gone"}, RunApk(c, p, st)
  PROVE  IInv'
<1>1. /\ apps' \in [Ctl -> SUBSET Pid] /\ ticking' \in [Ctl -> SUBSET Pid]
      /\ \A d \in Ctl : ticking'[d] \subseteq apps'[d]
      /\ \A d \in Ctl : d # c => ticking'[d] = ticking[d]
  BY DEF RunApk, Fresh, TypeOK
<1> QED BY <1>1, NotAService, AppKeeps DEF RunApk

LEMMA RunAMStep ==
  ASSUME TypeOK, Early, OwnServiceTracked, NoBoxes, Reacts,
         NEW c \in Ctl, NEW p \in Fresh, NEW st \in {"up", "gone"}, RunAM(c, p, st)
  PROVE  IInv'
<1>1. /\ apps' \in [Ctl -> SUBSET Pid] /\ ticking' \in [Ctl -> SUBSET Pid]
      /\ \A d \in Ctl : ticking'[d] \subseteq apps'[d]
      /\ \A d \in Ctl : d # c => ticking'[d] = ticking[d]
  BY DEF RunAM, known, TypeOK
<1> QED BY <1>1, NotAService, AppKeeps DEF RunAM, known

\* Statements that only put others in their place.
LEMMA PlainSteps ==
  ASSUME TypeOK, Early, OwnServiceTracked, NoBoxes, Reacts, NEW c \in Ctl,
         \/ \E s \in Service : AlreadyRuns(c, s)
         \/ Ensure(c) \/ Verify(c) \/ RunsNothing(c) \/ CloseBox(c)
  PROVE  IInv'
<1> DEFINE Plain(next) == next \in Seq(Op) /\ (~HasGui(c) => next \in Seq(Op \ {"box"}))
<1>1. << >> \in Seq(Op) /\ << >> \in Seq(Op \ {"box"})
  OBVIOUS
<1>2. "stop" \in Op \ {"box"} /\ "quit" \in Op \ {"box"}
  BY DEF Op
<1>3. StartAll \in Seq(Op \ {"box"}) /\ StartAll \in Seq(Op)
  BY OpTypes
<1>4. CASE \E s \in Service : AlreadyRuns(c, s)
  <2>1. PICK s \in Service : AlreadyRuns(c, s)
    BY <1>4
  <2> DEFINE next == IF s = "servicemanager" THEN Error(c) \o QuitOnError(c) ELSE << >>
  <2>2. s \notin {"stop", "quit"}
    BY ControllerAssumption DEF Daemon
  <2>3. QuitOnError(c) \in Seq(Op) /\ Error(c) \in Seq(Op)
    BY ErrorType
  <2>4. ~HasGui(c) => Error(c) \in Seq(Op \ {"box"}) /\ QuitOnError(c) \in Seq(Op \ {"box"})
    BY ErrorType, <1>1
  <2>5. next \in Seq(Op) /\ (~HasGui(c) => next \in Seq(Op \ {"box"}))
    BY <1>1, <2>3, <2>4
  <2>6. Then(c, next) /\ Doing(c, s)
        /\ UNCHANGED <<phase, command, quitting, clicks, known, process, bound>>
    BY <2>1 DEF AlreadyRuns
  <2> HIDE DEF next
  <2> QED BY <2>2, <2>5, <2>6, ThenKeeps
<1>5. CASE Ensure(c)
  <2> DEFINE next == IF \E s \in Needed : tracker[c][s] = None THEN <<"stop">> \o StartAll ELSE << >>
  <2>0. <<"stop">> \in Seq(Op) /\ <<"stop">> \in Seq(Op \ {"box"})
    BY <1>2
  <2>1. next \in Seq(Op) /\ next \in Seq(Op \ {"box"})
    <3>1. <<"stop">> \o StartAll \in Seq(Op)
      BY <1>3, <2>0
    <3>2. <<"stop">> \o StartAll \in Seq(Op \ {"box"})
      BY <1>3, <2>0
    <3> QED BY <1>1, <3>1, <3>2
  <2>2. Then(c, next) /\ Doing(c, "ensure")
        /\ UNCHANGED <<phase, command, quitting, clicks, known, process, bound>>
    BY <1>5 DEF Ensure
  <2> HIDE DEF next
  <2> QED BY <2>1, <2>2, ThenKeeps
<1>6. CASE Verify(c)
  <2> DEFINE next == IF \E s \in Needed : tracker[c][s] = None THEN <<"quit">> ELSE << >>
  <2>1. next \in Seq(Op) /\ next \in Seq(Op \ {"box"})
    BY <1>1, <1>2
  <2>2. Then(c, next) /\ Doing(c, "verify")
        /\ UNCHANGED <<phase, command, quitting, clicks, known, process, bound>>
    BY <1>6 DEF Verify
  <2> HIDE DEF next
  <2> QED BY <2>1, <2>2, ThenKeeps
<1>7. CASE RunsNothing(c)
  <2>1. PICK op \in {"apk", "am"} : Doing(c, op)
    BY <1>7 DEF RunsNothing
  <2> QED BY <1>1, <1>7, <2>1, ThenKeeps DEF RunsNothing
<1>8. CASE CloseBox(c)
  BY <1>1, <1>8, ThenKeeps DEF CloseBox
<1> QED BY <1>4, <1>5, <1>6, <1>7, <1>8
LEMMA StopStep ==
  ASSUME TypeOK, Early, OwnServiceTracked, NoBoxes, Reacts, NEW c \in Ctl, Stop(c)
  PROVE  IInv'
<1>1. /\ Doing(c, "stop") /\ Then(c, << >>) /\ ~HasFailed(c)
      /\ phase' = phase /\ command' = command /\ tracker' = tracker /\ child' = child
      /\ kind' = kind /\ parent' = parent /\ state' = Told(Reached(c) \cup apps[c])
      /\ ticking' = [ticking EXCEPT ![c] = {}]
  BY DEF Stop
<1>2. /\ todo' \in [Ctl -> Seq(Op)] /\ \A d \in Ctl : d # c => todo'[d] = todo[d]
      /\ todo'[c] = << >> \o Tail(todo[c])
      /\ << >> \in Seq(Op) /\ << >> \in Seq(Op \ {"box"})
  <2>1. << >> \in Seq(Op) /\ << >> \in Seq(Op \ {"box"})
    OBVIOUS
  <2> QED BY <1>1, <2>1, ThenType
<1>3. /\ state' \in [Pid -> {"free", "up", "term", "zombie", "gone"}]
      /\ \A p \in Pid : /\ state'[p] = "free" <=> state[p] = "free"
                        /\ state'[p] = "gone" <=> state[p] = "gone"
                        /\ state'[p] = "up" => state[p] = "up"
                        /\ state'[p] \in {"up", "term", "zombie"} => state[p] \in {"up", "term", "zombie"}
      /\ \A p \in Reached(c) : p \in Pid => state'[p] # "up"
  BY <1>1 DEF Told, TypeOK
<1>4. TypeOK'
  <2>1. apps' \in [Ctl -> SUBSET Pid] /\ ticking' \in [Ctl -> SUBSET Pid]
        /\ \A d \in Ctl : ticking'[d] \subseteq apps'[d]
    BY DEF Stop, TypeOK
  <2>2. \A p \in Pid : state'[p] = "free" <=> parent'[p] = None
    BY <1>1, <1>3 DEF TypeOK
  <2>3. quitting' = quitting /\ clicks' = clicks /\ bound' = bound
    BY DEF Stop
  <2> QED BY <1>1, <1>2, <1>3, <2>1, <2>2, <2>3 DEF TypeOK
<1>5. Early'
  BY <1>1, <1>2 DEF Early, Children, Doing, TypeOK
<1>6. OwnServiceTracked'
  BY <1>1, <1>3 DEF OwnServiceTracked
<1>7. NoBoxes'
  BY <1>1, <1>2, ThenNoBoxes
<1>8. Quiet(c)'
  <2> SUFFICES ASSUME NEW q \in Pid, parent[q] = c, kind[q] \in Service, state[q] = "up"
               PROVE  state'[q] # "up"
    BY <1>1, <1>3 DEF Quiet, Children
  <2>1. tracker[c][kind[q]] = q /\ q # None
    BY <1>1, ControllerAssumption DEF OwnServiceTracked, Doing, Pid
  <2>2. \A u \in Service : tracker[c][u] # 0
    BY <1>1 DEF HasFailed
  <2>3. q \in Reached(c)
    BY <2>1, <2>2 DEF Reached
  <2> QED BY <1>3, <2>3
<1>9. Reacts'
  <2> SUFFICES ASSUME NEW d \in Ctl, ~HasGui(d)', phase'[d] \in {"live", "leaving"}, Lost(d)'
               PROVE  \/ todo'[d] = <<"stop", "quit">>
                      \/ Quiet(d)' /\ todo'[d] \in {<<"quit">>, << >>}
    BY DEF Reacts
  <2>1. ~HasGui(d) /\ Lost(d) /\ phase[d] \in {"live", "leaving"} /\ (Quiet(d) => Quiet(d)')
    BY <1>1, <1>3 DEF HasGui, Lost, Quiet, Children
  <2>2. CASE d # c
    BY <1>2, <2>1, <2>2 DEF Reacts
  <2>3. CASE d = c
    <3>1. todo[c] = <<"stop", "quit">>
      BY <1>1, <2>1, <2>3 DEF Reacts, Doing
    <3>2. << >> \o Tail(<<"stop", "quit">>) = <<"quit">>
      OBVIOUS
    <3> QED BY <1>2, <1>8, <2>3, <3>1, <3>2
  <2> QED BY <2>2, <2>3
<1> QED BY <1>4, <1>5, <1>6, <1>7, <1>9 DEF IInv

LEMMA StopsItselfStep ==
  ASSUME TypeOK, Early, OwnServiceTracked, NoBoxes, Reacts, NEW c \in Ctl, StopsItself(c)
  PROVE  IInv'
<1> DEFINE st == Told(Reached(c) \cup Children(c))
<1>1. /\ st \in [Pid -> {"free", "up", "term", "zombie", "gone"}]
      /\ \A p \in Pid : /\ st[p] = "free" <=> state[p] = "free"
                        /\ st[p] = "up" => state[p] = "up"
                        /\ st[p] \in {"up", "term", "zombie"} => state[p] \in {"up", "term", "zombie"}
                        /\ st[p] = "gone" => state[p] = "gone"
  BY DEF Told, TypeOK
<1>2. Over(c, st)
  BY DEF StopsItself
<1> HIDE DEF st
<1> QED BY <1>1, <1>2, OverKeeps

LEMMA EndStep ==
  ASSUME TypeOK, Early, OwnServiceTracked, NoBoxes, Reacts, NEW c \in Ctl, Over(c, state)
  PROVE  IInv'
<1>1. state \in [Pid -> {"free", "up", "term", "zombie", "gone"}]
  BY DEF TypeOK
<1> QED BY <1>1, OverKeeps

LEMMA SetTimerStep ==
  ASSUME TypeOK, Early, OwnServiceTracked, NoBoxes, Reacts, NEW c \in Ctl, SetTimer(c)
  PROVE  IInv'
<1> USE DEF known, process
<1>1. /\ todo' \in [Ctl -> Seq(Op)] /\ \A d \in Ctl : d # c => todo'[d] = todo[d]
      /\ todo'[c] = << >> \o Tail(todo[c])
      /\ << >> \in Seq(Op) /\ << >> \in Seq(Op \ {"box"})
  <2>1. << >> \in Seq(Op) /\ << >> \in Seq(Op \ {"box"})
    OBVIOUS
  <2> QED BY <2>1, ThenType DEF SetTimer
<1>2. TypeOK'
  BY <1>1 DEF SetTimer, TypeOK
<1>3. Early'
  BY <1>1 DEF SetTimer, Early, Children, Doing
<1>4. OwnServiceTracked'
  BY DEF SetTimer, OwnServiceTracked
<1>5. NoBoxes'
  BY <1>1, ThenNoBoxes DEF SetTimer
<1>6. Reacts'
  <2> SUFFICES ASSUME NEW d \in Ctl, ~HasGui(d), phase[d] \in {"live", "leaving"}, Lost(d)
               PROVE  \/ todo'[d] = <<"stop", "quit">>
                      \/ Quiet(d) /\ todo'[d] \in {<<"quit">>, << >>}
    BY DEF SetTimer, Reacts, HasGui, Lost, Quiet, Children
  <2>1. CASE d # c
    BY <1>1, <2>1 DEF Reacts
  <2>2. CASE d = c
    <3>1. Quiet(c) /\ todo[c] = <<"quit">>
      BY <2>2 DEF SetTimer, Reacts, Doing
    <3>2. << >> \o Tail(<<"quit">>) = << >>
      OBVIOUS
    <3> QED BY <1>1, <2>2, <3>1, <3>2
  <2> QED BY <2>1, <2>2
<1> QED BY <1>2, <1>3, <1>4, <1>5, <1>6 DEF IInv
-----------------------------------------------------------------------------
(* The event loop and the world around it.                                 *)

LEMMA ClickStep ==
  ASSUME TypeOK, Early, OwnServiceTracked, NoBoxes, Reacts,
         NEW c \in Ctl, NEW what \in Service \cup {"restart", "stop", "apk"}, Click(c, what)
  PROVE  IInv'
<1> USE DEF known, process
<1>1. /\ HasGui(c) /\ phase[c] = "live" /\ \A d \in Ctl : d # c => todo'[d] = todo[d]
      /\ phase' = phase /\ command' = command /\ tracker' = tracker /\ child' = child
      /\ kind' = kind /\ parent' = parent /\ state' = state /\ ticking' = ticking /\ apps' = apps
  BY DEF Click, HasGui, TypeOK
<1>2. todo' \in [Ctl -> Seq(Op)]
  <2>1. <<"stop">> \o StartAll \in Seq(Op)
    <3>1. <<"stop">> \in Seq(Op)
      BY DEF Op
    <3>2. StartAll \in Seq(Op)
      BY OpTypes
    <3> QED BY <3>1, <3>2
  <2>2. <<what>> \in Seq(Op) \/ what = "restart"
    BY OpTypes DEF Op
  <2> QED BY <2>1, <2>2 DEF Click, TypeOK
<1>3. TypeOK'
  <2>1. clicks' \in [Ctl -> 0..MaxClicks]
    BY ControllerAssumption DEF Click, TypeOK
  <2> QED BY <1>1, <1>2, <2>1 DEF Click, TypeOK
<1>4. Early' /\ OwnServiceTracked' /\ NoBoxes'
  BY <1>1 DEF Early, Children, OwnServiceTracked, NoBoxes, HasGui
<1>5. Reacts'
  BY <1>1 DEF Reacts, HasGui, Lost, Quiet, Children
<1> QED BY <1>3, <1>4, <1>5 DEF IInv

LEMMA LeaveStep ==
  ASSUME TypeOK, Early, OwnServiceTracked, NoBoxes, Reacts,
         NEW c \in Ctl, CloseWindow(c) \/ Quit(c)
  PROVE  IInv'
<1> USE DEF known, process
<1>1. /\ phase[c] = "live" /\ phase' = [phase EXCEPT ![c] = "leaving"]
      /\ UNCHANGED <<command, todo, quitting, clicks, known, process, bound>>
  BY DEF CloseWindow, Quit, Loop
<1>2. TypeOK'
  BY <1>1 DEF TypeOK
<1>3. Early' /\ NoBoxes'
  BY <1>1 DEF Early, Children, NoBoxes, HasGui, TypeOK
<1>4. OwnServiceTracked'
  BY <1>1 DEF OwnServiceTracked, TypeOK
<1>5. Reacts'
  BY <1>1 DEF Reacts, HasGui, Lost, Quiet, Children, TypeOK
<1> QED BY <1>2, <1>3, <1>4, <1>5 DEF IInv

LEMMA FinishedStep ==
  ASSUME TypeOK, Early, OwnServiceTracked, NoBoxes, Reacts,
         NEW c \in Ctl, NEW p \in Children(c), NEW failed \in BOOLEAN, Finished(c, p, failed)
  PROVE  IInv'
<1> USE DEF known
<1>1. /\ phase[c] = "live" /\ (todo[c] # << >> => Head(todo[c]) = "box")
      /\ p \in Pid /\ parent[p] = c /\ state[p] = "zombie" /\ state' = [state EXCEPT ![p] = "gone"]
      /\ todo' = [todo EXCEPT ![c] = Exited(c, p, failed) \o @]
      /\ phase' = phase /\ command' = command /\ tracker' = tracker /\ child' = child
      /\ kind' = kind /\ parent' = parent /\ ticking' = ticking /\ apps' = apps
  BY DEF Finished, Loop, Children
<1>2. todo[c] \in Seq(Op) /\ Exited(c, p, failed) \in Seq(Op)
  BY <1>1, ExitedType DEF TypeOK
<1>3. /\ todo' \in [Ctl -> Seq(Op)] /\ todo'[c] = Exited(c, p, failed) \o todo[c]
      /\ \A d \in Ctl : d # c => todo'[d] = todo[d]
  BY <1>1, <1>2 DEF TypeOK
<1>4. TypeOK'
  <2>1. state' \in [Pid -> {"free", "up", "term", "zombie", "gone"}]
        /\ \A q \in Pid : state'[q] = "free" <=> state[q] = "free"
    BY <1>1 DEF TypeOK
  <2>2. quitting' = quitting /\ clicks' = clicks /\ bound' = bound
    BY DEF Finished
  <2> QED BY <1>1, <1>3, <2>1, <2>2 DEF TypeOK
<1>5. Early' /\ OwnServiceTracked'
  BY <1>1, <1>3 DEF Early, Children, OwnServiceTracked, TypeOK
<1>6. ~HasGui(c) => todo[c] = << >> /\ todo'[c] = Exited(c, p, failed)
  <2> SUFFICES ASSUME ~HasGui(c) PROVE todo[c] = << >> /\ todo'[c] = Exited(c, p, failed)
    OBVIOUS
  <2>1. todo[c] \in Seq(Op \ {"box"})
    BY DEF NoBoxes
  <2>2. todo[c] = << >>
    <3> SUFFICES ASSUME todo[c] # << >> PROVE FALSE
      OBVIOUS
    <3>1. Head(todo[c]) \in Op \ {"box"}
      BY <2>1
    <3> QED BY <1>1, <3>1
  <2> QED BY <1>2, <1>3, <2>2
<1>7. NoBoxes'
  <2>1. <<"stop", "quit">> \in Seq(Op \ {"box"}) /\ <<"quit">> \in Seq(Op \ {"box"})
        /\ << >> \in Seq(Op \ {"box"})
    BY DEF Op
  <2>2. ~HasGui(c) => todo'[c] \in Seq(Op \ {"box"})
    BY <1>1, <1>6, <2>1, ExitedType
  <2> QED BY <1>1, <1>3, <2>2 DEF NoBoxes, HasGui
<1>8. Reacts'
  <2> SUFFICES ASSUME NEW d \in Ctl, ~HasGui(d), phase[d] \in {"live", "leaving"}, Lost(d)'
               PROVE  \/ todo'[d] = <<"stop", "quit">>
                      \/ Quiet(d)' /\ todo'[d] \in {<<"quit">>, << >>}
    BY <1>1 DEF Reacts, HasGui
  <2>1. CASE d # c
    <3>1. Lost(d) /\ (Quiet(d) => Quiet(d)')
      BY <1>1, <2>1 DEF Lost, Quiet, Children, TypeOK
    <3> QED BY <1>3, <2>1, <3>1 DEF Reacts
  <2>2. CASE d = c /\ kind[p] \in {"zygote", "servicemanager"} /\ kind[p] \in Service
    <3>1. child[c][kind[p]] = p
      BY <1>1, <2>2 DEF OwnServiceTracked
    <3> QED BY <1>1, <1>6, <2>2, <3>1, ExitedType
  <2>3. CASE d = c /\ ~(kind[p] \in {"zygote", "servicemanager"} /\ kind[p] \in Service)
    <3>1. kind[p] \notin {"zygote", "servicemanager"}
      <4>1. kind[p] \in Service \cup {"app", "am", None}
        BY <1>1 DEF TypeOK
      <4> QED BY <2>3, <4>1, ControllerAssumption DEF Daemon
    <3>2. Lost(c) /\ (Quiet(c) => Quiet(c)')
      BY <1>1, <2>3, <3>1 DEF Lost, Quiet, Children, TypeOK
    <3>3. Quiet(c)
      BY <1>6, <2>3, <3>2 DEF Reacts
    <3>4. todo'[c] \in {<<"stop", "quit">>, <<"quit">>, << >>}
      BY <1>1, <1>6, <2>3, ExitedType
    <3> QED BY <2>3, <3>2, <3>3, <3>4
  <2> QED BY <2>1, <2>2, <2>3
<1> QED BY <1>4, <1>5, <1>7, <1>8 DEF IInv

LEMMA WatchStep ==
  ASSUME TypeOK, Early, OwnServiceTracked, NoBoxes, Reacts,
         NEW c \in Ctl, NEW s \in Service, Watch(c, s)
  PROVE  IInv'
<1> USE DEF invocation, process
<1>1. TypeOK'
  BY DEF Watch, TypeOK
<1>2. Early' /\ NoBoxes'
  BY DEF Watch, Early, Children, NoBoxes, HasGui
<1>3. OwnServiceTracked'
  <2> SUFFICES ASSUME NEW q \in Pid, state[q] \in {"up", "term", "zombie"},
                      kind[q] \in Service, phase[parent[q]] # "over"
               PROVE  child[parent[q]][kind[q]] = q /\ tracker'[parent[q]][kind[q]] = q
    BY DEF Watch, OwnServiceTracked
  <2>1. child[parent[q]][kind[q]] = q /\ tracker[parent[q]][kind[q]] = q /\ parent[q] \in Ctl
    BY DEF OwnServiceTracked, TypeOK
  <2>2. q # 0 /\ state[q] # "gone"
    BY ControllerAssumption DEF Pid
  <2>3. tracker[c][s] # q
    BY <2>2 DEF Watch, Vanished
  <2> QED BY <2>1, <2>3 DEF Watch, TypeOK
<1>4. Reacts'
  BY DEF Watch, Reacts, HasGui, Lost, Quiet, Children
<1> QED BY <1>1, <1>2, <1>3, <1>4 DEF IInv

LEMMA WatchAppStep ==
  ASSUME TypeOK, Early, OwnServiceTracked, NoBoxes, Reacts,
         NEW c \in Ctl, NEW p \in ticking[c], WatchApp(c, p)
  PROVE  IInv'
<1> USE DEF invocation, process
<1>1. TypeOK'
  BY DEF WatchApp, TypeOK
<1>2. Early' /\ NoBoxes'
  BY DEF WatchApp, Early, Children, NoBoxes, HasGui, Loop, TypeOK
<1>3. OwnServiceTracked'
  BY DEF WatchApp, OwnServiceTracked
<1>4. Reacts'
  BY DEF WatchApp, Reacts, HasGui, Lost, Quiet, Children
<1> QED BY <1>1, <1>2, <1>3, <1>4 DEF IInv

LEMMA DieStep ==
  ASSUME TypeOK, Early, OwnServiceTracked, NoBoxes, Reacts, NEW p \in Pid, Die(p)
  PROVE  IInv'
<1> USE DEF invocation, known
<1>1. /\ state[p] \in {"up", "term"}
      /\ state' = [state EXCEPT ![p] = IF phase[parent[p]] = "over" THEN "gone" ELSE "zombie"]
      /\ phase' = phase /\ command' = command /\ tracker' = tracker /\ child' = child
      /\ kind' = kind /\ parent' = parent /\ ticking' = ticking /\ apps' = apps /\ todo' = todo
  BY DEF Die
<1>2. TypeOK'
  BY <1>1 DEF Die, TypeOK
<1>3. Early' /\ NoBoxes'
  BY <1>1 DEF Early, Children, NoBoxes, HasGui
<1>4. OwnServiceTracked'
  BY <1>1 DEF OwnServiceTracked, TypeOK
<1>5. Reacts'
  <2>1. \A d \in Ctl : /\ HasGui(d)' <=> HasGui(d)
                       /\ Quiet(d) => Quiet(d)'
                       /\ phase[d] # "over" /\ Lost(d)' => Lost(d)
    BY <1>1 DEF HasGui, Lost, Quiet, Children, TypeOK
  <2> QED BY <1>1, <2>1 DEF Reacts
<1> QED BY <1>2, <1>3, <1>4, <1>5 DEF IInv
-----------------------------------------------------------------------------
(* The theorems.                                                           *)

LEMMA InitHolds == Init => IInv
<1> SUFFICES ASSUME Init PROVE IInv
  OBVIOUS
<1> USE DEF Init
<1>1. << >> \in Seq(Op) /\ << >> \in Seq(Op \ {"box"})
  OBVIOUS
<1>2. 0 \in 0..MaxClicks
  BY ControllerAssumption
<1>3. TypeOK
  <2>1. \A c \in Ctl : ticking[c] \subseteq apps[c]
    OBVIOUS
  <2>2. \A p \in Pid : state[p] = "free" <=> parent[p] = None
    OBVIOUS
  <2>3. todo \in [Ctl -> Seq(Op)] /\ clicks \in [Ctl -> 0..MaxClicks]
    BY <1>1, <1>2
  <2>4. tracker \in [Ctl -> [Service -> 0..MaxPid \cup {None}]] /\ child \in [Ctl -> [Service -> Pid \cup {None}]]
    OBVIOUS
  <2>5. command \in [Ctl -> (UNION {Command[c] : c \in Ctl}) \cup {None}]
    OBVIOUS
  <2> QED BY <2>1, <2>2, <2>3, <2>4, <2>5 DEF TypeOK
<1>4. Early /\ NoBoxes
  BY <1>1, ControllerAssumption DEF Early, NoBoxes, Children
<1>5. OwnServiceTracked
  BY DEF OwnServiceTracked
<1>6. Reacts
  BY DEF Reacts
<1> QED BY <1>3, <1>4, <1>5, <1>6 DEF IInv

LEMMA StepHolds == IInv /\ [Next]_vars => IInv'
<1> SUFFICES ASSUME TypeOK, Early, OwnServiceTracked, NoBoxes, Reacts, [Next]_vars
             PROVE  IInv'
  BY DEF IInv
<1>1. CASE UNCHANGED vars
  BY <1>1 DEF vars, invocation, known, process, IInv, TypeOK, Early, OwnServiceTracked, NoBoxes,
       Reacts, HasGui, Lost, Quiet, Children
<1>2. ASSUME NEW c \in Ctl, Proceeds(c) PROVE IInv'
  <2>1. CASE \E taken \in SUBSET Launchers : Scan(c, taken)
    BY <2>1, ScanStep
  <2>2. CASE \E s \in Service, p \in Fresh : Start(c, s, p)
    BY <2>2, StartStep
  <2>3. CASE \E s \in Service : StartFails(c, s)
    BY <2>3, StartFailsStep
  <2>4. CASE \E s \in Service : Watch(c, s)
    BY <2>4, WatchStep
  <2>5. CASE Stop(c)
    BY <2>5, StopStep
  <2>6. CASE StopsItself(c)
    BY <2>6, StopsItselfStep
  <2>7. CASE SetTimer(c)
    BY <2>7, SetTimerStep
  <2>8. CASE \E p \in Fresh, st \in {"up", "gone"} : RunApk(c, p, st)
    BY <2>8, RunApkStep
  <2>9. CASE \E p \in Fresh, st \in {"up", "gone"} : RunAM(c, p, st)
    BY <2>9, RunAMStep
  <2>10. CASE \E p \in Children(c), failed \in BOOLEAN : Finished(c, p, failed)
    BY <2>10, FinishedStep
  <2>11. CASE \E p \in ticking[c] : WatchApp(c, p)
    BY <2>11, WatchAppStep
  <2>12. CASE Quit(c)
    BY <2>12, LeaveStep
  <2>13. CASE End(c)
    BY <2>13, EndStep DEF End
  <2>14. CASE (\E s \in Service : AlreadyRuns(c, s)) \/ Ensure(c) \/ Verify(c) \/ RunsNothing(c) \/ CloseBox(c)
    BY <2>14, PlainSteps
  <2> QED BY <1>2, <2>1, <2>2, <2>3, <2>4, <2>5, <2>6, <2>7, <2>8, <2>9, <2>10, <2>11, <2>12, <2>13, <2>14
             DEF Proceeds
<1>3. ASSUME NEW c \in Ctl, NEW cmd \in Command[c], Begin(c, cmd) PROVE IInv'
  BY <1>3, BeginStep
<1>4. ASSUME NEW c \in Ctl, NEW cmd \in Command[c], NEW k \in 0..2, NEW removed \in BOOLEAN,
             BeginFails(c, cmd, k, removed)
      PROVE  IInv'
  BY <1>4, BeginFailsStep
<1>5. ASSUME NEW c \in Ctl, CloseBox(c) PROVE IInv'
  BY <1>5, PlainSteps
<1>6. ASSUME NEW c \in Ctl, NEW what \in Service \cup {"restart", "stop", "apk"}, Click(c, what) PROVE IInv'
  BY <1>6, ClickStep
<1>7. ASSUME NEW c \in Ctl, CloseWindow(c) PROVE IInv'
  BY <1>7, LeaveStep
<1>8. ASSUME NEW c \in Ctl, Crash(c) PROVE IInv'
  BY <1>8, EndStep DEF Crash
<1>9. ASSUME NEW p \in Pid, Die(p) PROVE IInv'
  BY <1>9, DieStep
<1> QED BY <1>1, <1>2, <1>3, <1>4, <1>5, <1>6, <1>7, <1>8, <1>9 DEF Next

\* What every theorem below rests on.
THEOREM ControllerInvariant == Spec => []IInv
BY InitHolds, StepHolds, PTL DEF Spec

\* Every state has the declared type, for any commands, processes and faults.
THEOREM ControllerTypeCorrect == Spec => []TypeOK
<1>1. IInv => TypeOK
  BY DEF IInv
<1> QED BY <1>1, ControllerInvariant, PTL

\* An invocation never loses sight of a service it started, whatever is
\* started, stopped, lost or restarted around it.
THEOREM ServicesStayTracked == Spec => []OwnServiceTracked
<1>1. IInv => OwnServiceTracked
  BY DEF IInv
<1> QED BY <1>1, ControllerInvariant, PTL

\* The loss of zygote or of the service manager stops the services an
\* invocation without a window started, all of them.
THEOREM LossAlwaysStopsRest == Spec => []LossStopsRest
<1>1. ASSUME IInv PROVE LossStopsRest
  <2> SUFFICES ASSUME NEW c \in Ctl, NEW p \in Children(c), NEW q \in Children(c),
                      ~HasGui(c), phase[c] \in {"live", "leaving"}, todo[c] = << >>,
                      kind[p] \in {"zygote", "servicemanager"}, state[p] = "gone", kind[q] \in Service
               PROVE  state[q] # "up"
    BY DEF LossStopsRest
  <2>1. Lost(c) /\ todo[c] # <<"stop", "quit">>
    BY DEF Lost
  <2>2. Quiet(c)
    BY <1>1, <2>1 DEF IInv, Reacts
  <2> QED BY <2>2 DEF Quiet
<1>2. IInv => LossStopsRest
  BY <1>1
<1> QED BY <1>2, ControllerInvariant, PTL
=============================================================================
