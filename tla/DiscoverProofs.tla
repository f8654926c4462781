---------------------------- MODULE DiscoverProofs ----------------------------
(***************************************************************************)
(* Theorems about Discover for any set of queries and any number of        *)
(* changes of the text.                                                    *)
(***************************************************************************)
EXTENDS Discover, TLAPS

\* A change that has not been handled has not been counted.
Uncounted == pending => generation < keys

\* Nothing ahead is newer than the counter.
NotAhead ==
  /\ \A i \in 1..Len(timers) : timers[i].generation <= generation
  /\ \A search \in flights : search.generation <= generation

\* What bears the latest number is about the text in the entry.
Latest ==
  ~pending =>
    /\ \A i \in 1..Len(timers) :
         timers[i].generation = generation => timers[i].query = text
    /\ \A search \in flights :
         search.generation = generation => search.query = text

IInv == TypeOK /\ Uncounted /\ NotAhead /\ Latest /\ PageIsOwned /\ OnePane

-----------------------------------------------------------------------------
(* The queue of timers.                                                    *)

LEMMA AppendTimer ==
  ASSUME NEW s \in Seq(Search), NEW x \in Search
  PROVE  /\ Append(s, x) \in Seq(Search)
         /\ Len(Append(s, x)) = Len(s) + 1
         /\ Append(s, x)[Len(s) + 1] = x
         /\ \A i \in 1..Len(s) : Append(s, x)[i] = s[i]
OBVIOUS

LEMMA TailTimer ==
  ASSUME NEW s \in Seq(Search), s # << >>
  PROVE  /\ Head(s) \in Search
         /\ Head(s) = s[1]
         /\ Tail(s) \in Seq(Search)
         /\ Len(Tail(s)) = Len(s) - 1
         /\ Len(s) \in Nat \ {0}
         /\ \A i \in 1..Len(Tail(s)) : Tail(s)[i] = s[i + 1]
OBVIOUS

-----------------------------------------------------------------------------
(* Each handler preserves the invariant.                                   *)

LEMMA InitInv == Init => IInv
<1> SUFFICES ASSUME Init PROVE IInv
  OBVIOUS
<1>1. title \in Title
  BY DEF Init, Title, FindAnApp, Text
<1>2. timers \in Seq(Search) /\ Len(timers) = 0
  BY DEF Init
<1>3. keys \in 0..MaxKeys /\ generation \in 0..keys
  BY DiscoverAssumption DEF Init
<1>4. spinner \in BOOLEAN /\ results \in BOOLEAN /\ status \in BOOLEAN /\ pending \in BOOLEAN
  BY DEF Init
<1>5. TypeOK
  BY <1>1, <1>2, <1>3, <1>4 DEF Init, TypeOK, Text
<1>6. Uncounted /\ PageIsOwned /\ OnePane
  BY DEF Init, Uncounted, PageIsOwned, About, FindAnApp, OnePane
<1>7. NotAhead /\ Latest
  BY <1>2 DEF Init, NotAhead, Latest
<1> QED BY <1>5, <1>6, <1>7 DEF IInv

LEMMA TypeInv ==
  ASSUME IInv, NEW t \in Text, Type(t) PROVE IInv'
<1>1. TypeOK' /\ Uncounted'
  BY DiscoverAssumption DEF IInv, TypeOK, Uncounted, Type, page
<1>2. NotAhead' /\ Latest' /\ PageIsOwned' /\ OnePane'
  BY DEF IInv, NotAhead, Latest, PageIsOwned, Owed, About, OnePane, Type, page
<1> QED BY <1>1, <1>2 DEF IInv

LEMMA SearchChangedInv ==
  ASSUME IInv, SearchChanged PROVE IInv'
<1> DEFINE current == generation + 1
           search == [generation |-> current, query |-> text]
<1>1. /\ pending /\ ~pending'
      /\ generation' = current
      /\ text' = text /\ keys' = keys /\ flights' = flights
  BY DEF SearchChanged
<1>2. generation \in Nat /\ keys \in 0..MaxKeys /\ generation < keys /\ current \in 1..MaxKeys
  BY <1>1, DiscoverAssumption DEF IInv, TypeOK, Uncounted
<1>3. generation' \in 0..keys'
  BY <1>1, <1>2
<1>4. CASE text = Blank
  <2>1. timers' = timers /\ ~spinner' /\ rows' = rows /\ ShowStatus(FindAnApp)
    BY <1>4 DEF SearchChanged
  <2>2. title' \in Title /\ ~results' /\ status' /\ results' \in BOOLEAN /\ status' \in BOOLEAN
    BY <2>1 DEF ShowStatus, Title, FindAnApp, Text
  <2>3. TypeOK'
    <3>1. pending' \in BOOLEAN /\ spinner' \in BOOLEAN
      BY <1>4 DEF SearchChanged
    <3> QED BY <1>1, <1>3, <2>1, <2>2, <3>1 DEF IInv, TypeOK
  <2>4. NotAhead' /\ Latest'
    <3>1. \A i \in 1..Len(timers) : timers[i] \in Search
      BY DEF IInv, TypeOK
    <3>2. /\ \A i \in 1..Len(timers) : timers[i].generation \in Nat
          /\ \A s \in flights : s.generation \in Nat
      BY <3>1 DEF IInv, TypeOK, Search
    <3> QED BY <1>1, <1>2, <2>1, <3>2 DEF IInv, NotAhead, Latest
  <2>5. ~spinner' /\ About' = text'
    BY <1>1, <1>4, <2>1, <2>2 DEF ShowStatus, FindAnApp, About
  <2> QED BY <1>1, <2>1, <2>2, <2>3, <2>4, <2>5 DEF IInv, Uncounted, PageIsOwned, OnePane
<1>5. CASE text # Blank
  <2>1. /\ timers' = Append(timers, search)
        /\ spinner' = spinner /\ results' = results /\ rows' = rows
        /\ status' = status /\ title' = title
    BY <1>5 DEF SearchChanged, page
  <2>2. search \in Search
    BY <1>2, <1>5 DEF IInv, TypeOK, Text, Search
  <2>3. timers \in Seq(Search)
    BY DEF IInv, TypeOK
  <2>4. /\ timers' \in Seq(Search)
        /\ Len(timers') = Len(timers) + 1
        /\ timers'[Len(timers) + 1] = search
        /\ \A i \in 1..Len(timers) : timers'[i] = timers[i]
    BY <2>1, <2>2, <2>3, AppendTimer
  <2>5. TypeOK'
    <3>1. pending' \in BOOLEAN
      BY DEF SearchChanged
    <3> QED BY <1>1, <1>3, <2>1, <2>4, <3>1 DEF IInv, TypeOK
  <2>6. Len(timers) \in Nat
    BY <2>3
  <2>7. \A i \in 1..Len(timers') : i \in 1..Len(timers) \/ i = Len(timers) + 1
    BY <2>4, <2>6
  <2>8. \A i \in 1..Len(timers) : timers[i] \in Search
    BY <2>3
  <2>9. search.generation = current /\ search.query = text
    OBVIOUS
  <2> HIDE DEF search
  <2>10. /\ \A i \in 1..Len(timers) : timers[i].generation <= generation
         /\ \A i \in 1..Len(timers) : timers[i].generation \in Nat
         /\ \A s \in flights : s.generation <= generation
         /\ \A s \in flights : s.generation \in Nat
    BY <2>8 DEF IInv, NotAhead, TypeOK, Search
  <2>11. NotAhead' /\ Latest'
    BY <1>1, <1>2, <2>4, <2>7, <2>9, <2>10 DEF NotAhead, Latest
  <2>12. PageIsOwned'
    BY <1>1, <2>4, <2>6, <2>9 DEF PageIsOwned, Owed
  <2> QED BY <1>1, <2>1, <2>5, <2>11, <2>12 DEF IInv, Uncounted, OnePane
<1> QED BY <1>4, <1>5

LEMMA FireInv ==
  ASSUME IInv, Fire PROVE IInv'
<1> DEFINE search == Head(timers)
<1>1. /\ timers # << >> /\ timers' = Tail(timers)
      /\ text' = text /\ pending' = pending /\ keys' = keys /\ generation' = generation
      /\ results' = results /\ rows' = rows /\ status' = status /\ title' = title
  BY DEF Fire, entry
<1>2. timers \in Seq(Search)
  BY DEF IInv, TypeOK
<1>3. /\ search \in Search
      /\ search = timers[1]
      /\ timers' \in Seq(Search)
      /\ Len(timers') = Len(timers) - 1
      /\ Len(timers) \in Nat \ {0}
      /\ \A i \in 1..Len(timers') : timers'[i] = timers[i + 1]
  BY <1>1, <1>2, TailTimer
<1>4. /\ \A i \in 1..Len(timers') : i + 1 \in 1..Len(timers)
      /\ \A i \in 1..Len(timers) : i = 1 \/ i - 1 \in 1..Len(timers')
      /\ 1 \in 1..Len(timers)
  BY <1>3
<1>5. flights' \subseteq flights \cup {search}
  BY DEF Fire
<1>6. TypeOK' /\ Uncounted' /\ OnePane'
  <2>1. spinner' \in BOOLEAN
    BY DEF IInv, TypeOK, Fire
  <2>2. flights' \subseteq Search
    BY <1>3, <1>5 DEF IInv, TypeOK
  <2> QED BY <1>1, <1>3, <2>1, <2>2 DEF IInv, TypeOK, Uncounted, OnePane
<1>7. NotAhead' /\ Latest'
  BY <1>1, <1>3, <1>4, <1>5 DEF IInv, NotAhead, Latest
<1>8. PageIsOwned'
  <2>1. CASE search.generation = generation
    BY <1>1, <2>1 DEF Fire, PageIsOwned, Owed
  <2>2. CASE search.generation # generation
    <3>1. spinner' = spinner /\ flights' = flights
      BY <2>2 DEF Fire
    <3>2. ASSUME NEW i \in 1..Len(timers), timers[i].generation = generation
          PROVE  \E j \in 1..Len(timers') : timers'[j].generation = generation'
      <4>1. i - 1 \in 1..Len(timers')
        BY <1>3, <1>4, <2>2, <3>2
      <4>2. timers'[i - 1] = timers[i]
        <5>1. timers'[i - 1] = timers[(i - 1) + 1] /\ (i - 1) + 1 = i
          BY <1>3, <4>1
        <5> QED BY <5>1
      <4> QED BY <1>1, <3>2, <4>1, <4>2
    <3> QED BY <1>1, <3>1, <3>2 DEF IInv, PageIsOwned, Owed, About
  <2> QED BY <2>1, <2>2
<1> QED BY <1>6, <1>7, <1>8 DEF IInv

LEMMA PresentType ==
  ASSUME NEW q \in Query, NEW outcome \in Outcome, Present(q, outcome), TypeOK
  PROVE  /\ results' \in BOOLEAN /\ status' \in BOOLEAN
         /\ rows' \in Text /\ title' \in Title
         /\ OnePane' /\ About' = q
<1>1. q \in Text /\ Blank \in Text /\ q # Blank
  BY DiscoverAssumption DEF Text
<1>2. CASE Show(q)
  BY <1>1, <1>2 DEF Show, OnePane, About, TypeOK
<1>3. ASSUME NEW says \in {"No results", "Search failed"},
             ShowStatus([says |-> says, of |-> q]), rows' \in Text
      PROVE  /\ results' \in BOOLEAN /\ status' \in BOOLEAN
             /\ title' \in Title /\ OnePane' /\ About' = q
  <2>1. title' \in Title
    BY <1>1, <1>3 DEF ShowStatus, Title
  <2> QED BY <1>3, <2>1 DEF ShowStatus, OnePane, About
<1> QED BY <1>1, <1>2, <1>3 DEF Present, TypeOK

LEMMA ReplyInv ==
  ASSUME IInv, NEW search \in flights, NEW outcome \in Outcome, Reply(search, outcome)
  PROVE  IInv'
<1>1. /\ flights' = flights \ {search}
      /\ text' = text /\ pending' = pending /\ keys' = keys
      /\ generation' = generation /\ timers' = timers
  BY DEF Reply, entry
<1>2. search.query \in Query
  BY DEF IInv, TypeOK, Search
<1>3. NotAhead' /\ Latest' /\ Uncounted'
  BY <1>1 DEF IInv, NotAhead, Latest, Uncounted
<1>4. CASE search.generation = generation
  <2>1. ~spinner' /\ spinner' \in BOOLEAN /\ Present(search.query, outcome)
    BY <1>4 DEF Reply
  <2>2. /\ results' \in BOOLEAN /\ status' \in BOOLEAN
        /\ rows' \in Text /\ title' \in Title /\ OnePane'
        /\ About' = search.query
    BY <1>2, <2>1, PresentType DEF IInv
  <2>3. pending \/ search.query = text
    BY <1>4 DEF IInv, Latest
  <2> QED BY <1>1, <1>3, <2>1, <2>2, <2>3 DEF IInv, TypeOK, PageIsOwned
<1>5. CASE search.generation # generation
  BY <1>1, <1>3, <1>5 DEF IInv, TypeOK, PageIsOwned, Owed, About, OnePane, Reply, page
<1> QED BY <1>4, <1>5

LEMMA StepInv == IInv /\ [Next]_vars => IInv'
<1> SUFFICES ASSUME IInv, [Next]_vars PROVE IInv'
  OBVIOUS
<1>1. ASSUME NEW t \in Text, Type(t) PROVE IInv'
  BY <1>1, TypeInv
<1>2. CASE SearchChanged
  BY <1>2, SearchChangedInv
<1>3. CASE Fire
  BY <1>3, FireInv
<1>4. ASSUME NEW search \in flights, Answer(search) PROVE IInv'
  BY <1>4, ReplyInv DEF Answer
<1>5. CASE UNCHANGED vars
  BY <1>5 DEF vars, entry, page, IInv, TypeOK, Uncounted, NotAhead, Latest,
    PageIsOwned, Owed, About, OnePane
<1> QED BY <1>1, <1>2, <1>3, <1>4, <1>5 DEF Next

LEMMA Inductive == Spec => []IInv
BY InitInv, StepInv, PTL DEF Spec

-----------------------------------------------------------------------------
(* The theorems.                                                           *)

\* Every state has the declared type; the counter never runs past the changes.
THEOREM DiscoverTypeCorrect == Spec => []TypeOK
<1>1. IInv => TypeOK
  BY DEF IInv
<1> QED BY <1>1, Inductive, PTL

\* The list and the status page never show together nor are both hidden, and
\* a list that shows has rows.
THEOREM OnePaneAlways == Spec => []OnePane
<1>1. IInv => OnePane
  BY DEF IInv
<1> QED BY <1>1, Inductive, PTL

\* However changes, timeouts and late answers interleave, a page that spins or
\* is about another text has a timeout or an answer ahead that the counter has
\* not outdated: what PageCatchesUp needs beside fairness.
THEOREM PageAlwaysOwned == Spec => []PageIsOwned
<1>1. IInv => PageIsOwned
  BY DEF IInv
<1> QED BY <1>1, Inductive, PTL

\* An outdated answer changes nothing on the page, and any other puts the text
\* in the entry there.
THEOREM NeverStale == Spec => NoStaleAnswer
<1> DEFINE A ==
      \A search \in flights :
        search \notin flights' /\ page' # page =>
          /\ About' = search.query
          /\ pending \/ search.query = text
<1>1. ASSUME IInv, [Next]_vars PROVE [A]_vars
  <2> SUFFICES ASSUME NEW search \in flights, search \notin flights', page' # page
               PROVE  About' = search.query /\ (pending \/ search.query = text)
    BY DEF A
  <2>1. PICK s \in flights : Answer(s)
    <3>1. ASSUME NEW t \in Text, Type(t) PROVE FALSE
      BY <3>1 DEF Type
    <3>2. ASSUME SearchChanged \/ Fire \/ UNCHANGED vars PROVE FALSE
      BY <3>2 DEF SearchChanged, Fire, vars
    <3> QED BY <1>1, <3>1, <3>2 DEF Next
  <2>2. PICK outcome \in Outcome : Reply(s, outcome)
    BY <2>1 DEF Answer
  <2>3. s = search /\ s.generation = generation /\ Present(s.query, outcome)
    BY <2>2 DEF Reply
  <2>4. About' = s.query
    <3>1. s.query \in Query
      BY <1>1 DEF IInv, TypeOK, Search
    <3> QED BY <1>1, <2>3, <3>1, PresentType DEF IInv
  <2>5. pending \/ s.query = text
    BY <1>1, <2>3 DEF IInv, Latest
  <2> QED BY <2>3, <2>4, <2>5
<1> QED BY <1>1, Inductive, PTL DEF Spec, NoStaleAnswer
=============================================================================
