----------------------------- MODULE GuiSession -----------------------------
(***************************************************************************)
(* One session of xylitol-gui after the versions page of an app has        *)
(* loaded: the rows of its files, the downloads they start, and the        *)
(* library page.  A download runs on the tokio runtime; its progress and   *)
(* its outcome come to the main loop by two channels, each awaited by a    *)
(* task of its own, in whatever order the main loop polls them.            *)
(*                                                                         *)
(* What a call of Client::download does to the disk is module Download,    *)
(* what Library::add and remove do to the index is module Library; here a  *)
(* call is the blocks it has received and its outcome, and the library the *)
(* entries the session holds, one for each variant.                        *)
(***************************************************************************)
EXTENDS Naturals, Sequences

CONSTANTS Variant,    \* the files of the app
          Arch, Kind, \* functions of a variant: its ABI; "Apk" or "Xapk"
          Host,       \* the ABI of this machine
          Unfiltered, \* the choice that filters nothing
          None,       \* no bar, no call
          Size,       \* blocks of a file, whose length the server announced
          Capacity,   \* of the progress channel
          MinStep,    \* blocks that move the bar: 0.005 of the file
          MaxBuilds,  \* how often the list is built; a bound
          MaxClicks   \* downloads started; a bound

ASSUME GuiAssumption ==
  /\ Size \in Nat \ {0} /\ Capacity \in Nat \ {0} /\ MinStep \in Nat
  /\ MaxBuilds \in Nat \ {0} /\ MaxClicks \in Nat
  /\ None \notin Nat /\ None \notin {"running", "Ok", "Cancelled", "Failed"}

VARIABLES
  filter,    \* the architecture and the format selected
  built,     \* how often the list was built
  (* a row of the list, by variant and build; it outlives its place there *)
  button,    \* the label of its download button, or "hidden"
  bar,       \* the blocks its progress bar shows, or None
  stopper,   \* its Cancel button can be pressed
  mark,      \* it says that the file was downloaded
  (* the call it started last *)
  call,      \* "running", or the outcome until it is delivered, or None
  got,       \* blocks received, those of the part included
  queue,     \* the progress channel
  token,     \* the CancelToken
  clicks,    \* downloads started
  (* the library *)
  entries,   \* in memory
  listed,    \* on the library page
  unsaved    \* an addition failed to be saved, and nothing followed it

Row == Variant \X (1..MaxBuilds)
Filter == ({Arch[v] : v \in Variant} \cup {Unfiltered}) \X {Unfiltered, "Apk", "Xapk"}
Outcome == {"Ok", "Cancelled", "Failed"}

widgets == <<button, bar, stopper, mark>>
calls == <<call, got, queue, token, clicks>>
library == <<entries, listed, unsaved>>
vars == <<filter, built, widgets, calls, library>>

\* rebuild: a row for each variant that matches both filters.
Matching(f) ==
  {v \in Variant : (f[1] = Unfiltered \/ Arch[v] = f[1]) /\ (f[2] = Unfiltered \/ Kind[v] = f[2])}

\* The rows the user sees.  Those of earlier builds are gone from the list,
\* but the closures of their calls hold them.
Visible == Matching(filter) \X {built}

Init ==
  /\ filter = <<IF \E v \in Variant : Arch[v] = Host THEN Host ELSE Unfiltered, Unfiltered>>
  /\ built = 1
  /\ button = [r \in Row |-> "Download"]
  /\ bar = [r \in Row |-> None]
  /\ stopper = [r \in Row |-> FALSE]
  /\ mark = [r \in Row |-> FALSE]
  /\ call = [r \in Row |-> None]
  /\ got = [r \in Row |-> 0]
  /\ queue = [r \in Row |-> << >>]
  /\ token = [r \in Row |-> FALSE]
  /\ clicks = 0
  /\ entries \in SUBSET Variant
  /\ listed = entries
  /\ unsaved = FALSE

-----------------------------------------------------------------------------
(* Handlers of the main loop.                                              *)

\* The user changes a filter: the list is built anew.
Refilter(f) ==
  /\ f # filter
  /\ built < MaxBuilds
  /\ filter' = f
  /\ built' = built + 1
  /\ UNCHANGED <<widgets, calls, library>>

\* A mutant reuses the channel of the call before.
MutClick(r, already) ==
  /\ r \in Visible
  /\ button[r] # "hidden"
  /\ clicks < MaxClicks
  /\ button' = [button EXCEPT ![r] = "hidden"]
  /\ bar' = [bar EXCEPT ![r] = 0]
  /\ stopper' = [stopper EXCEPT ![r] = TRUE]
  /\ token' = [token EXCEPT ![r] = FALSE]
  /\ call' = [call EXCEPT ![r] = "running"]
  /\ got' = [got EXCEPT ![r] = already]
  /\ clicks' = clicks + 1
  /\ UNCHANGED <<filter, built, mark, queue, library>>

\* The download button: start_download, with a bar, a token and channels of
\* its own.  already is the length of the part on disk.
Click(r, already) ==
  /\ r \in Visible
  /\ button[r] # "hidden"
  /\ clicks < MaxClicks
  /\ button' = [button EXCEPT ![r] = "hidden"]
  /\ bar' = [bar EXCEPT ![r] = 0]
  /\ stopper' = [stopper EXCEPT ![r] = TRUE]
  /\ token' = [token EXCEPT ![r] = FALSE]
  /\ call' = [call EXCEPT ![r] = "running"]
  /\ got' = [got EXCEPT ![r] = already]
  /\ queue' = [queue EXCEPT ![r] = << >>]
  /\ clicks' = clicks + 1
  /\ UNCHANGED <<filter, built, mark, library>>

\* A mutant offers to resume as soon as Cancel is pressed.
MutCancel(r) ==
  /\ r \in Visible
  /\ stopper[r]
  /\ stopper' = [stopper EXCEPT ![r] = FALSE]
  /\ button' = [button EXCEPT ![r] = "Resume"]
  /\ token' = [token EXCEPT ![r] = TRUE]
  /\ UNCHANGED <<filter, built, bar, mark, call, got, queue, clicks, library>>

\* The Cancel button.
Cancel(r) ==
  /\ r \in Visible
  /\ stopper[r]
  /\ stopper' = [stopper EXCEPT ![r] = FALSE]
  /\ token' = [token EXCEPT ![r] = TRUE]
  /\ UNCHANGED <<filter, built, button, bar, mark, call, got, queue, clicks, library>>

\* A mutant takes an update for what was received since the last one.
MutShow(shown, p) == shown + p

\* The bar after an update, throttled in both directions.
Show(shown, p) ==
  IF p < shown + MinStep /\ shown < p + MinStep /\ p < Size THEN shown ELSE p

\* on_update, for the bar of the call it belongs to.
Deliver(r) ==
  /\ queue[r] # << >>
  /\ queue' = [queue EXCEPT ![r] = Tail(@)]
  /\ bar' = [bar EXCEPT ![r] = IF @ = None THEN None ELSE Show(@, Head(queue[r]))]
  /\ UNCHANGED <<filter, built, button, stopper, mark, call, got, token, clicks, library>>

\* library_changed.
Notify ==
  /\ listed' = entries'
  /\ unsaved' = FALSE

\* A mutant notifies before it adds.
MutFinish(r) ==
  /\ entries' = entries \cup {r[1]}
  /\ listed' = entries
  /\ unsaved' = FALSE
  /\ mark' = [mark EXCEPT ![r] = TRUE]

\* finish: the file is added to the library, which fails when it cannot be
\* inspected or the index not be saved, after the entry was inserted.
Finish(r) ==
  \/ /\ entries' = entries \cup {r[1]}
     /\ Notify
     /\ mark' = [mark EXCEPT ![r] = TRUE]
  \/ UNCHANGED <<library, mark>>
  \/ /\ entries' = entries \cup {r[1]}
     /\ unsaved' = TRUE
     /\ UNCHANGED <<listed, mark>>

\* on_done: the bar and the Cancel button go; the button comes back unless
\* the call succeeded.
Done(r) ==
  /\ call[r] \in Outcome
  /\ call' = [call EXCEPT ![r] = None]
  /\ bar' = [bar EXCEPT ![r] = None]
  /\ stopper' = [stopper EXCEPT ![r] = FALSE]
  /\ \/ /\ call[r] = "Ok"
        /\ Finish(r)
        /\ UNCHANGED button
     \/ /\ call[r] = "Cancelled"
        /\ button' = [button EXCEPT ![r] = "Resume"]
        /\ UNCHANGED <<mark, library>>
     \/ /\ call[r] = "Failed"
        /\ button' = [button EXCEPT ![r] = "Retry"]
        /\ UNCHANGED <<mark, library>>
  /\ UNCHANGED <<filter, built, got, queue, token, clicks>>

\* The trash button of an entry on the library page, which may be one the
\* library no longer has; observers are told even when saving failed.
Remove(v) ==
  /\ v \in listed
  /\ entries' = entries \ {v}
  /\ Notify
  /\ UNCHANGED <<filter, built, widgets, calls>>

-----------------------------------------------------------------------------
(* The runtime.                                                            *)

\* A mutant sends whether there is room or not.
MutSend(q, p) == Append(q, p)

\* try_send: an update for which there is no room is dropped.
Send(q, p) == IF Len(q) < Capacity THEN Append(q, p) ELSE q

\* A block arrives and is reported.
Receive(r) ==
  /\ call[r] = "running"
  /\ got[r] < Size
  /\ got' = [got EXCEPT ![r] = @ + 1]
  /\ queue' = [queue EXCEPT ![r] = Send(@, got[r] + 1)]
  /\ UNCHANGED <<filter, built, widgets, call, token, clicks, library>>

\* A mutant loses the outcome of a call that was cancelled.
MutReturn(r) ==
  /\ call[r] = "running"
  /\ \/ got[r] = Size /\ call' = [call EXCEPT ![r] = "Ok"]
     \/ token[r] /\ call' = [call EXCEPT ![r] = None]
     \/ call' = [call EXCEPT ![r] = "Failed"]
  /\ UNCHANGED <<filter, built, widgets, got, queue, token, clicks, library>>

\* The call returns, and its outcome is sent.  A call looks at its token only
\* between blocks, so it may also succeed or fail when it was cancelled.
Return(r) ==
  /\ call[r] = "running"
  /\ \/ got[r] = Size /\ call' = [call EXCEPT ![r] = "Ok"]
     \/ token[r] /\ call' = [call EXCEPT ![r] = "Cancelled"]
     \/ call' = [call EXCEPT ![r] = "Failed"]
  /\ UNCHANGED <<filter, built, widgets, got, queue, token, clicks, library>>

Next ==
  \/ \E f \in Filter : Refilter(f)
  \/ \E r \in Row :
       \/ \E already \in 0..(Size - 1) : Click(r, already)
       \/ Cancel(r)
       \/ Deliver(r)
       \/ Done(r)
       \/ Receive(r)
       \/ Return(r)
  \/ \E v \in Variant : Remove(v)

Spec == Init /\ [][Next]_vars

\* Every call returns (EveryCallEnds of Download), and the main loop polls the
\* task that awaits its outcome.
FairSpec ==
  Spec /\ \A r \in Row : WF_vars(Return(r)) /\ WF_vars(Done(r))

-----------------------------------------------------------------------------
(* Properties.                                                             *)

\* Type invariant; the progress channel is never over its capacity.
TypeOK ==
  /\ filter \in Filter
  /\ built \in 1..MaxBuilds
  /\ button \in [Row -> {"Download", "Resume", "Retry", "hidden"}]
  /\ bar \in [Row -> 0..Size \cup {None}]
  /\ stopper \in [Row -> BOOLEAN]
  /\ mark \in [Row -> BOOLEAN]
  /\ call \in [Row -> {"running", None} \cup Outcome]
  /\ got \in [Row -> 0..Size]
  /\ queue \in [Row -> Seq(1..Size)]
  /\ \A r \in Row : Len(queue[r]) <= Capacity
  /\ token \in [Row -> BOOLEAN]
  /\ clicks \in 0..MaxClicks
  /\ entries \subseteq Variant
  /\ listed \subseteq Variant
  /\ unsaved \in BOOLEAN

\* A bar never shows more than its call has received, whatever updates an
\* earlier call of the row left behind.
BarIsHonest == \A r \in Row : bar[r] # None => bar[r] <= got[r]

\* Although updates are dropped and throttled, the bar of a call never moves
\* back.
BarNeverGoesBack ==
  [][\A r \in Row : None \notin {bar[r], bar'[r]} => bar'[r] >= bar[r]]_vars

\* A row offers a download only when the one it started has been settled, so
\* that it never runs two at once, and Cancel only while there is one; and its
\* bar is there exactly as long as the call or its outcome is, so that no row is
\* left busy with nothing to come.
OneCallPerRow ==
  \A r \in Row :
    /\ button[r] # "hidden" => call[r] = None
    /\ stopper[r] => call[r] # None
    /\ bar[r] # None <=> call[r] # None

\* Every download that was started is settled, whatever became of its row.
EveryClickSettles == \A r \in Row : bar[r] # None ~> bar[r] = None

\* "Called after anything changes the library, so open pages can refresh":
\* the library page differs from the library only after an addition that could
\* not be saved.
PageFollowsLibrary == listed # entries => unsaved
=============================================================================
