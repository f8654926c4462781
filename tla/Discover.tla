------------------------------ MODULE Discover ------------------------------
(***************************************************************************)
(* The Discover page of xylitol-gui.  Every change of the search text      *)
(* starts a timer; when it fires, and no newer change has come, a search   *)
(* is started on the tokio runtime, and its outcome comes back to the main *)
(* loop at any time later.  A generation counter tells what is outdated.   *)
(*                                                                         *)
(* A query is a trimmed text.  GTK emits search-changed some time after    *)
(* the keystroke, and the handler reads the text the entry holds by then.  *)
(* title names the query it is of, which "Search failed" does not print.  *)
(***************************************************************************)
EXTENDS Naturals, Sequences, FiniteSets

CONSTANTS Query,    \* texts that are not blank
          Blank,    \* a text that is
          MaxKeys   \* changes of the text; bounds the generation

ASSUME DiscoverAssumption == Blank \notin Query /\ MaxKeys \in Nat

VARIABLES
  text,        \* what the entry holds
  pending,     \* search-changed has not been emitted for it yet
  keys,        \* changes so far
  generation,  \* the counter
  timers,      \* timeouts to fire, oldest first
  flights,     \* searches under way
  spinner,     \* the spinner is visible
  results,     \* the list is visible
  rows,        \* the query whose hits are its rows
  status,      \* the status page is visible
  title        \* what it says, and of which query

entry == <<text, pending, keys>>
page == <<spinner, results, rows, status, title>>
vars == <<entry, generation, timers, flights, page>>

Text == Query \cup {Blank}
Search == [generation : 1..MaxKeys, query : Query]
Title == [says : {"Find an app", "No results", "Search failed"}, of : Text]
FindAnApp == [says |-> "Find an app", of |-> Blank]
Outcome == {"hits", "nothing", "error"}

Init ==
  /\ text = Blank
  /\ pending = FALSE
  /\ keys = 0
  /\ generation = 0
  /\ timers = << >>
  /\ flights = {}
  /\ spinner = FALSE
  /\ results = FALSE
  /\ rows = Blank
  /\ status = TRUE
  /\ title = FindAnApp

-----------------------------------------------------------------------------
(* What the page can be made to show.                                      *)

ShowStatus(what) ==
  /\ results' = FALSE
  /\ status' = TRUE
  /\ title' = what

\* show: the rows are replaced.
Show(q) ==
  /\ results' = TRUE
  /\ rows' = q
  /\ status' = FALSE
  /\ UNCHANGED title

-----------------------------------------------------------------------------
(* The handlers, each run to its end by the main loop.                     *)

\* The user changes the text, to the same query when only spaces differ.
Type(t) ==
  /\ keys < MaxKeys
  /\ text' = t
  /\ pending' = TRUE
  /\ keys' = keys + 1
  /\ UNCHANGED <<generation, timers, flights, page>>

\* A mutant takes the number again that the counter had.
MutSearchCounts ==
  LET current == generation IN
  /\ pending
  /\ pending' = FALSE
  /\ generation' = current
  /\ IF text = Blank
     THEN /\ ShowStatus(FindAnApp)
          /\ spinner' = FALSE
          /\ UNCHANGED <<timers, rows>>
     ELSE /\ timers' = Append(timers, [generation |-> current, query |-> text])
          /\ UNCHANGED page
  /\ UNCHANGED <<text, keys, flights>>

\* A mutant leaves the counter alone when the text is blank.
MutSearchChanged ==
  LET current == generation + 1 IN
  /\ pending
  /\ pending' = FALSE
  /\ IF text = Blank
     THEN /\ ShowStatus(FindAnApp)
          /\ spinner' = FALSE
          /\ UNCHANGED <<generation, timers, rows>>
     ELSE /\ generation' = current
          /\ timers' = Append(timers, [generation |-> current, query |-> text])
          /\ UNCHANGED page
  /\ UNCHANGED <<text, keys, flights>>

\* The handler of search-changed.
SearchChanged ==
  LET current == generation + 1 IN
  /\ pending
  /\ pending' = FALSE
  /\ generation' = current
  /\ IF text = Blank
     THEN /\ ShowStatus(FindAnApp)
          /\ spinner' = FALSE
          /\ UNCHANGED <<timers, rows>>
     ELSE /\ timers' = Append(timers, [generation |-> current, query |-> text])
          /\ UNCHANGED page
  /\ UNCHANGED <<text, keys, flights>>

\* A mutant starts a search for every change.
MutFire ==
  LET search == Head(timers) IN
  /\ timers # << >>
  /\ timers' = Tail(timers)
  /\ spinner' = TRUE
  /\ flights' = flights \cup {search}
  /\ UNCHANGED <<entry, generation, results, rows, status, title>>

\* The timeout of the oldest change: a search, unless a newer change came.
Fire ==
  LET search == Head(timers) IN
  /\ timers # << >>
  /\ timers' = Tail(timers)
  /\ IF search.generation = generation
     THEN /\ spinner' = TRUE
          /\ flights' = flights \cup {search}
     ELSE UNCHANGED <<spinner, flights>>
  /\ UNCHANGED <<entry, generation, results, rows, status, title>>

\* What an outcome puts on the page.
Present(q, outcome) ==
  \/ /\ outcome = "hits"
     /\ Show(q)
  \/ /\ outcome = "nothing"
     /\ ShowStatus([says |-> "No results", of |-> q])
     /\ rows' = Blank
  \/ /\ outcome = "error"
     /\ ShowStatus([says |-> "Search failed", of |-> q])
     /\ UNCHANGED rows

\* A mutant shows whatever comes back.
MutReply(search, outcome) ==
  /\ search \in flights
  /\ flights' = flights \ {search}
  /\ spinner' = FALSE
  /\ Present(search.query, outcome)
  /\ UNCHANGED <<entry, generation, timers>>

\* The outcome of a search reaches the main loop.
Reply(search, outcome) ==
  /\ search \in flights
  /\ flights' = flights \ {search}
  /\ IF search.generation = generation
     THEN /\ spinner' = FALSE
          /\ Present(search.query, outcome)
     ELSE UNCHANGED page
  /\ UNCHANGED <<entry, generation, timers>>

Answer(search) == \E outcome \in Outcome : Reply(search, outcome)

Next ==
  \/ \E t \in Text : Type(t)
  \/ SearchChanged
  \/ Fire
  \/ \E search \in flights : Answer(search)

Spec == Init /\ [][Next]_vars

\* The main loop handles every signal, timeout and outcome that is ready, and
\* every search returns (see EveryGetEnds of Requests).
FairSpec ==
  /\ Spec
  /\ WF_vars(SearchChanged)
  /\ WF_vars(Fire)
  /\ \A search \in Search : WF_vars(Answer(search))

-----------------------------------------------------------------------------
(* Properties.                                                             *)

\* Type invariant.
TypeOK ==
  /\ text \in Text
  /\ pending \in BOOLEAN
  /\ keys \in 0..MaxKeys
  /\ generation \in 0..keys
  /\ timers \in Seq(Search)
  /\ flights \subseteq Search
  /\ spinner \in BOOLEAN
  /\ results \in BOOLEAN
  /\ rows \in Text
  /\ status \in BOOLEAN
  /\ title \in Title

\* The list and the status page share the place: one of them is there, and
\* a visible list has rows.
OnePane == (results <=> ~status) /\ (results => rows # Blank)

\* What the page is about.
About == IF results THEN rows ELSE title.of

\* The latest change has its timeout or its search still ahead.
Owed ==
  \/ \E i \in 1..Len(timers) : timers[i].generation = generation
  \/ \E search \in flights : search.generation = generation

\* Nobody is forgotten: the spinner turns, or the page is about another text
\* than the entry, only while something is ahead that will put it right.
PageIsOwned == ~Owed => ~spinner /\ (pending \/ About = text)

\* "A slow reply cannot overwrite a newer one": the page changes only to
\* what was last searched for, and never back.
NoStaleAnswer ==
  [][\A search \in flights :
       search \notin flights' /\ page' # page =>
         /\ About' = search.query
         /\ pending \/ search.query = text]_vars

\* When the user stops typing, the page ends up about the text that was typed
\* last, and the spinner is gone.
PageCatchesUp ==
  \A t \in Text :
    <>[](text = t) => <>[](About = t /\ ~spinner)
=============================================================================
