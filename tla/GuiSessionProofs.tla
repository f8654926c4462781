-------------------------- MODULE GuiSessionProofs --------------------------
(***************************************************************************)
(* Theorems about GuiSession for any files, filters, sizes and capacities. *)
(***************************************************************************)
EXTENDS GuiSession, TLAPS

\* Updates come in the order of the blocks, none ahead of what was received.
Ordered(q, n) ==
  /\ q \in Seq(1..Size)
  /\ Len(q) <= Capacity
  /\ \A i \in 1..Len(q) : q[i] <= n
  /\ \A i, j \in 1..Len(q) : i <= j => q[i] <= q[j]

\* A bar is not ahead of any update of its call, nor of what was received.
Behind(b, q, n) == b <= n /\ \A i \in 1..Len(q) : b <= q[i]

\* What holds of a row and its call.
RowOK(r) ==
  /\ bar[r] # None <=> call[r] # None
  /\ call[r] # None => button[r] = "hidden"
  /\ stopper[r] => call[r] # None
  /\ Ordered(queue[r], got[r])
  /\ bar[r] # None => Behind(bar[r], queue[r], got[r])

IInv == TypeOK /\ (\A r \in Row : RowOK(r)) /\ PageFollowsLibrary

-----------------------------------------------------------------------------
(* The progress channel.                                                   *)

LEMMA SendKeeps ==
  ASSUME NEW n \in 0..(Size - 1), NEW q, Ordered(q, n)
  PROVE  /\ Ordered(Send(q, n + 1), n + 1)
         /\ \A b \in Nat : Behind(b, q, n) => Behind(b, Send(q, n + 1), n + 1)
<1> USE GuiAssumption
<1>1. q \in Seq(1..Size) /\ Len(q) \in Nat /\ n \in Nat /\ n + 1 \in 1..Size
  BY DEF Ordered
<1>2. \A i \in 1..Len(q) : q[i] \in 1..Size
  BY <1>1
<1>3. CASE Len(q) < Capacity
  <2> DEFINE s == Append(q, n + 1)
  <2>1. /\ s \in Seq(1..Size) /\ Len(s) = Len(q) + 1
        /\ s[Len(q) + 1] = n + 1
        /\ \A i \in 1..Len(q) : s[i] = q[i]
    BY <1>1
  <2>2. Send(q, n + 1) = s
    BY <1>3 DEF Send
  <2> HIDE DEF s
  <2>3. \A i \in 1..Len(s) : i \in 1..Len(q) \/ i = Len(q) + 1
    BY <1>1, <2>1
  <2>4. \A i \in 1..Len(s) : s[i] <= n + 1
    <3> SUFFICES ASSUME NEW i \in 1..Len(s)
                 PROVE  s[i] <= n + 1
      OBVIOUS
    <3>1. CASE i \in 1..Len(q)
      <4>1. s[i] = q[i] /\ q[i] \in 1..Size /\ q[i] <= n
        BY <3>1, <1>2, <2>1 DEF Ordered
      <4> QED BY <4>1, <1>1
    <3>2. CASE i = Len(q) + 1
      BY <3>2, <1>1, <2>1
    <3> QED BY <2>3, <3>1, <3>2
  <2>5. \A i, j \in 1..Len(s) : i <= j => s[i] <= s[j]
    <3> SUFFICES ASSUME NEW i \in 1..Len(s), NEW j \in 1..Len(s), i <= j
                 PROVE  s[i] <= s[j]
      OBVIOUS
    <3>1. CASE j \in 1..Len(q)
      <4>1. i \in 1..Len(q)
        BY <1>1, <2>3, <3>1
      <4> QED BY <2>1, <3>1, <4>1 DEF Ordered
    <3>2. CASE j = Len(q) + 1
      BY <2>1, <2>4, <3>2
    <3> QED BY <2>3, <3>1, <3>2
  <2>6. \A b \in Nat : Behind(b, q, n) => Behind(b, s, n + 1)
    <3> SUFFICES ASSUME NEW b \in Nat, Behind(b, q, n), NEW i \in 1..Len(s)
                 PROVE  b <= n + 1 /\ b <= s[i]
      BY DEF Behind
    <3>1. b <= n /\ b <= n + 1
      BY <1>1 DEF Behind
    <3> QED BY <2>1, <2>3, <3>1 DEF Behind
  <2>7. Len(s) <= Capacity
    BY <1>1, <1>3, <2>1
  <2> QED BY <2>1, <2>2, <2>4, <2>5, <2>6, <2>7 DEF Ordered
<1>4. CASE ~(Len(q) < Capacity)
  <2>1. Send(q, n + 1) = q
    BY <1>4 DEF Send
  <2> QED BY <1>1, <1>2, <2>1 DEF Ordered, Behind
<1> QED BY <1>3, <1>4

LEMMA TailKeeps ==
  ASSUME NEW n \in 0..Size, NEW q, Ordered(q, n), q # << >>
  PROVE  /\ Head(q) \in 1..Size
         /\ Ordered(Tail(q), n)
         /\ Behind(Head(q), Tail(q), n)
         /\ \A b \in Nat : Behind(b, q, n) => b <= Head(q) /\ Behind(b, Tail(q), n)
<1> USE GuiAssumption
<1>1. q \in Seq(1..Size) /\ Len(q) \in Nat \ {0} /\ Head(q) = q[1]
  BY DEF Ordered
<1>2. \A i \in 1..Len(q) : q[i] \in 1..Size
  BY <1>1
<1>3. /\ Tail(q) \in Seq(1..Size) /\ Len(Tail(q)) = Len(q) - 1
      /\ \A i \in 1..Len(Tail(q)) : Tail(q)[i] = q[i + 1] /\ i + 1 \in 1..Len(q)
  BY <1>1
<1>4. \A i \in 1..Len(Tail(q)) : Tail(q)[i] <= n /\ q[1] <= Tail(q)[i]
  BY <1>1, <1>2, <1>3 DEF Ordered
<1>5. \A i, j \in 1..Len(Tail(q)) : i <= j => Tail(q)[i] <= Tail(q)[j]
  BY <1>1, <1>2, <1>3 DEF Ordered
<1>6. q[1] <= n /\ 1 \in 1..Len(q) /\ q[1] \in 1..Size
  BY <1>1, <1>2 DEF Ordered
<1>7. Len(Tail(q)) <= Capacity
  BY <1>1, <1>3 DEF Ordered
<1>8. \A b \in Nat : Behind(b, q, n) => b <= q[1] /\ Behind(b, Tail(q), n)
  BY <1>3, <1>6 DEF Behind
<1> QED BY <1>1, <1>3, <1>4, <1>5, <1>6, <1>7, <1>8 DEF Ordered, Behind

LEMMA ShowKeeps ==
  ASSUME NEW b \in 0..Size, NEW p \in 1..Size, b <= p
  PROVE  Show(b, p) \in 0..Size /\ b <= Show(b, p) /\ Show(b, p) <= p
BY GuiAssumption DEF Show

-----------------------------------------------------------------------------
(* Each action preserves the invariant.                                    *)

LEMMA InitInv == Init => IInv
<1> SUFFICES ASSUME Init PROVE IInv
  OBVIOUS
<1> USE GuiAssumption
<1>1. filter \in Filter
  BY DEF Init, Filter
<1>2. /\ button \in [Row -> {"Download", "Resume", "Retry", "hidden"}]
      /\ stopper \in [Row -> BOOLEAN] /\ mark \in [Row -> BOOLEAN]
      /\ token \in [Row -> BOOLEAN]
      /\ call \in [Row -> {"running", None} \cup Outcome]
      /\ got \in [Row -> 0..Size]
  BY DEF Init
<1>3. bar \in [Row -> 0..Size \cup {None}] /\ queue \in [Row -> Seq(1..Size)]
  BY DEF Init
<1>4. \A r \in Row : bar[r] = None /\ call[r] = None /\ ~stopper[r] /\ queue[r] = << >>
  BY DEF Init
<1>5. \A r \in Row : queue[r] \in Seq(1..Size) /\ Len(queue[r]) = 0
  <2>1. << >> \in Seq(1..Size) /\ Len(<< >>) = 0
    OBVIOUS
  <2> QED BY <1>4, <2>1
<1>6. \A r \in Row : RowOK(r)
  BY <1>4, <1>5 DEF RowOK, Ordered
<1>7. built \in 1..MaxBuilds /\ clicks \in 0..MaxClicks
  BY DEF Init
<1>8. entries \subseteq Variant /\ listed = entries /\ unsaved \in BOOLEAN
  BY DEF Init
<1>9. TypeOK
  BY <1>1, <1>2, <1>3, <1>5, <1>7, <1>8 DEF TypeOK
<1> QED BY <1>6, <1>8, <1>9 DEF IInv, PageFollowsLibrary

\* A row an action leaves alone stays as it should be.
LEMMA OtherRow ==
  ASSUME NEW s \in Row, RowOK(s),
         bar'[s] = bar[s], call'[s] = call[s], button'[s] = button[s],
         (stopper'[s] <=> stopper[s]), queue'[s] = queue[s], got'[s] = got[s]
  PROVE  RowOK(s)'
BY DEF RowOK

LEMMA RefilterInv ==
  ASSUME IInv, NEW f \in Filter, Refilter(f) PROVE IInv'
<1>1. built' \in 1..MaxBuilds
  BY GuiAssumption DEF IInv, TypeOK, Refilter
<1> QED BY <1>1 DEF IInv, TypeOK, RowOK, PageFollowsLibrary, Refilter, widgets, calls, library

LEMMA ClickInv ==
  ASSUME IInv, NEW r \in Row, NEW already \in 0..(Size - 1), Click(r, already)
  PROVE  IInv'
<1> USE GuiAssumption
<1>1. already \in 0..Size /\ 0 \in 0..Size /\ << >> \in Seq(1..Size) /\ Len(<< >>) = 0
  OBVIOUS
<1>2. clicks' \in 0..MaxClicks
  BY DEF IInv, TypeOK, Click
<1>3. /\ button' = [button EXCEPT ![r] = "hidden"]
      /\ bar' = [bar EXCEPT ![r] = 0]
      /\ stopper' = [stopper EXCEPT ![r] = TRUE]
      /\ token' = [token EXCEPT ![r] = FALSE]
      /\ call' = [call EXCEPT ![r] = "running"]
      /\ got' = [got EXCEPT ![r] = already]
      /\ queue' = [queue EXCEPT ![r] = << >>]
      /\ filter' = filter /\ built' = built /\ mark' = mark
      /\ entries' = entries /\ listed' = listed /\ unsaved' = unsaved
  BY DEF Click, library
<1>4. /\ button \in [Row -> {"Download", "Resume", "Retry", "hidden"}]
      /\ bar \in [Row -> 0..Size \cup {None}]
      /\ stopper \in [Row -> BOOLEAN] /\ token \in [Row -> BOOLEAN]
      /\ call \in [Row -> {"running", None} \cup Outcome]
      /\ got \in [Row -> 0..Size]
      /\ queue \in [Row -> Seq(1..Size)]
  BY DEF IInv, TypeOK
<1>5. /\ bar'[r] = 0 /\ call'[r] = "running" /\ button'[r] = "hidden"
      /\ queue'[r] = << >> /\ got'[r] = already
  BY <1>3, <1>4
<1>6. RowOK(r)'
  BY <1>1, <1>5 DEF RowOK, Ordered, Behind
<1>7. \A s \in Row \ {r} : RowOK(s)'
  BY <1>3, <1>4, OtherRow DEF IInv
<1>8. button' \in [Row -> {"Download", "Resume", "Retry", "hidden"}] /\ stopper' \in [Row -> BOOLEAN]
  BY <1>3, <1>4
<1>9. bar' \in [Row -> 0..Size \cup {None}] /\ got' \in [Row -> 0..Size] /\ token' \in [Row -> BOOLEAN]
  BY <1>1, <1>3, <1>4
<1>10. call' \in [Row -> {"running", None} \cup Outcome]
  BY <1>3, <1>4
<1>11. queue' \in [Row -> Seq(1..Size)]
  BY <1>1, <1>3, <1>4
<1>12. \A s \in Row : Len(queue'[s]) <= Capacity
  BY <1>6, <1>7 DEF RowOK, Ordered
<1>13. TypeOK'
  BY <1>2, <1>3, <1>8, <1>9, <1>10, <1>11, <1>12 DEF IInv, TypeOK
<1> QED BY <1>3, <1>6, <1>7, <1>13 DEF IInv, PageFollowsLibrary

LEMMA CancelInv ==
  ASSUME IInv, NEW r \in Row, Cancel(r) PROVE IInv'
<1>1. /\ stopper[r] /\ stopper' = [stopper EXCEPT ![r] = FALSE]
      /\ token' = [token EXCEPT ![r] = TRUE]
      /\ UNCHANGED <<filter, built, button, bar, mark, call, got, queue, clicks, library>>
  BY DEF Cancel
<1>2. TypeOK'
  BY <1>1 DEF IInv, TypeOK, library
<1>3. \A s \in Row : RowOK(s)'
  BY <1>1 DEF IInv, TypeOK, RowOK
<1> QED BY <1>1, <1>2, <1>3 DEF IInv, PageFollowsLibrary, library

LEMMA DeliverInv ==
  ASSUME IInv, NEW r \in Row, Deliver(r) PROVE IInv'
<1> USE GuiAssumption
<1> DEFINE p == Head(queue[r])
<1>1. /\ queue[r] # << >>
      /\ queue' = [queue EXCEPT ![r] = Tail(queue[r])]
      /\ bar' = [bar EXCEPT ![r] = IF bar[r] = None THEN None ELSE Show(bar[r], p)]
      /\ UNCHANGED <<filter, built, button, stopper, mark, call, got, token, clicks, library>>
  BY DEF Deliver
<1>2. /\ bar \in [Row -> 0..Size \cup {None}] /\ queue \in [Row -> Seq(1..Size)]
      /\ got[r] \in 0..Size
      /\ Ordered(queue[r], got[r])
  BY DEF IInv, TypeOK, RowOK
<1>3. /\ p \in 1..Size
      /\ Ordered(Tail(queue[r]), got[r])
      /\ Behind(p, Tail(queue[r]), got[r])
      /\ \A b \in Nat : Behind(b, queue[r], got[r]) =>
            b <= p /\ Behind(b, Tail(queue[r]), got[r])
  BY <1>1, <1>2, TailKeeps
<1>4. queue'[r] = Tail(queue[r]) /\ Tail(queue[r]) \in Seq(1..Size)
  BY <1>1, <1>2
<1> HIDE DEF p
<1>5. CASE bar[r] = None
  <2>1. bar' = bar
    BY <1>1, <1>2, <1>5
  <2>2. RowOK(r)'
    BY <1>1, <1>3, <1>4, <1>5, <2>1 DEF IInv, RowOK
  <2>3. \A s \in Row \ {r} : RowOK(s)'
    BY <1>1, <1>2, <2>1 DEF IInv, RowOK
  <2>4. queue' \in [Row -> Seq(1..Size)]
    BY <1>1, <1>2, <1>4
  <2>5. \A s \in Row : Len(queue'[s]) <= Capacity
    BY <2>2, <2>3 DEF RowOK, Ordered
  <2>6. TypeOK'
    BY <1>1, <2>1, <2>4, <2>5 DEF IInv, TypeOK, library
  <2> QED BY <1>1, <2>2, <2>3, <2>6 DEF IInv, PageFollowsLibrary, library
<1>6. CASE bar[r] # None
  <2> DEFINE n == Show(bar[r], p)
  <2>1. bar[r] \in 0..Size /\ Behind(bar[r], queue[r], got[r])
    BY <1>2, <1>6 DEF IInv, RowOK
  <2>2. bar[r] <= p /\ Behind(bar[r], Tail(queue[r]), got[r])
    BY <1>3, <2>1
  <2>3. n \in 0..Size /\ bar[r] <= n /\ n <= p
    BY <1>3, <2>1, <2>2, ShowKeeps
  <2>4. n = bar[r] \/ n = p
    BY DEF Show
  <2>5. bar' = [bar EXCEPT ![r] = n]
    BY <1>1, <1>6
  <2>6. Behind(n, Tail(queue[r]), got[r])
    BY <1>3, <2>2, <2>4
  <2> HIDE DEF n
  <2>7. bar'[r] = n /\ n # None /\ bar' \in [Row -> 0..Size \cup {None}]
    BY <1>2, <2>3, <2>5
  <2>8. RowOK(r)'
    BY <1>1, <1>3, <1>4, <1>6, <2>6, <2>7 DEF IInv, RowOK
  <2>9. \A s \in Row \ {r} : RowOK(s)'
    BY <1>1, <1>2, <2>5 DEF IInv, RowOK
  <2>10. queue' \in [Row -> Seq(1..Size)]
    BY <1>1, <1>2, <1>4
  <2>11. \A s \in Row : Len(queue'[s]) <= Capacity
    BY <2>8, <2>9 DEF RowOK, Ordered
  <2>12. TypeOK'
    BY <1>1, <2>7, <2>10, <2>11 DEF IInv, TypeOK, library
  <2> QED BY <1>1, <2>8, <2>9, <2>12 DEF IInv, PageFollowsLibrary, library
<1> QED BY <1>5, <1>6

LEMMA DoneInv ==
  ASSUME IInv, NEW r \in Row, Done(r) PROVE IInv'
<1>1. /\ call[r] \in Outcome
      /\ call' = [call EXCEPT ![r] = None]
      /\ bar' = [bar EXCEPT ![r] = None]
      /\ stopper' = [stopper EXCEPT ![r] = FALSE]
      /\ UNCHANGED <<filter, built, got, queue, token, clicks>>
  BY DEF Done
<1>2. /\ button' \in [Row -> {"Download", "Resume", "Retry", "hidden"}]
      /\ \A s \in Row \ {r} : button'[s] = button[s]
  BY DEF IInv, TypeOK, Done
<1>3. /\ entries' \subseteq Variant /\ listed' \subseteq Variant /\ unsaved' \in BOOLEAN
      /\ mark' \in [Row -> BOOLEAN]
      /\ PageFollowsLibrary'
  <2>1. r[1] \in Variant
    BY DEF Row
  <2>2. mark' \in [Row -> BOOLEAN]
    BY DEF IInv, TypeOK, Done, Finish
  <2>3. CASE Finish(r)
    BY <2>1, <2>2, <2>3 DEF IInv, TypeOK, PageFollowsLibrary, Finish, Notify, library
  <2>4. CASE UNCHANGED <<mark, library>>
    BY <2>2, <2>4 DEF IInv, TypeOK, PageFollowsLibrary, library
  <2> QED BY <2>3, <2>4 DEF Done
<1>4. /\ bar' \in [Row -> 0..Size \cup {None}] /\ stopper' \in [Row -> BOOLEAN]
      /\ call' \in [Row -> {"running", None} \cup Outcome]
  BY <1>1 DEF IInv, TypeOK
<1>5. TypeOK'
  BY <1>1, <1>2, <1>3, <1>4 DEF IInv, TypeOK
<1>6. bar'[r] = None /\ call'[r] = None /\ ~stopper'[r]
  BY <1>1 DEF IInv, TypeOK
<1>7. RowOK(r)'
  BY <1>1, <1>6 DEF IInv, RowOK
<1>8. \A s \in Row \ {r} : RowOK(s)'
  BY <1>1, <1>2 DEF IInv, TypeOK, RowOK
<1> QED BY <1>3, <1>5, <1>7, <1>8 DEF IInv

LEMMA RemoveInv ==
  ASSUME IInv, NEW v \in Variant, Remove(v) PROVE IInv'
BY DEF IInv, TypeOK, RowOK, PageFollowsLibrary, Remove, Notify, widgets, calls

LEMMA ReceiveInv ==
  ASSUME IInv, NEW r \in Row, Receive(r) PROVE IInv'
<1> USE GuiAssumption
<1> DEFINE n == got[r]
           q == queue[r]
<1>1. /\ n < Size /\ got' = [got EXCEPT ![r] = n + 1]
      /\ queue' = [queue EXCEPT ![r] = Send(q, n + 1)]
      /\ UNCHANGED <<filter, built, widgets, call, token, clicks, library>>
  BY DEF Receive
<1>2. n \in 0..(Size - 1) /\ n + 1 \in 0..Size /\ Ordered(q, n)
  BY <1>1 DEF IInv, TypeOK, RowOK
<1>3. /\ Ordered(Send(q, n + 1), n + 1)
      /\ \A b \in Nat : Behind(b, q, n) => Behind(b, Send(q, n + 1), n + 1)
  BY <1>2, SendKeeps
<1>4. Send(q, n + 1) \in Seq(1..Size)
  BY <1>3 DEF Ordered
<1>5. queue' \in [Row -> Seq(1..Size)] /\ queue'[r] = Send(q, n + 1)
  BY <1>1, <1>4 DEF IInv, TypeOK
<1>6. got' \in [Row -> 0..Size] /\ got'[r] = n + 1
  BY <1>1, <1>2 DEF IInv, TypeOK
<1>7. bar[r] # None => bar[r] \in Nat /\ Behind(bar[r], q, n)
  BY DEF IInv, TypeOK, RowOK
<1> HIDE DEF n, q
<1>8. RowOK(r)'
  BY <1>1, <1>3, <1>5, <1>6, <1>7 DEF IInv, RowOK, widgets
<1>9. \A s \in Row \ {r} : RowOK(s)'
  BY <1>1 DEF IInv, TypeOK, RowOK, widgets
<1>10. \A s \in Row : Len(queue'[s]) <= Capacity
  BY <1>8, <1>9 DEF RowOK, Ordered
<1>11. TypeOK'
  BY <1>1, <1>5, <1>6, <1>10 DEF IInv, TypeOK, widgets, library
<1> QED BY <1>1, <1>8, <1>9, <1>11 DEF IInv, PageFollowsLibrary, library

LEMMA ReturnInv ==
  ASSUME IInv, NEW r \in Row, Return(r) PROVE IInv'
<1>1. /\ call[r] = "running"
      /\ UNCHANGED <<filter, built, widgets, got, queue, token, clicks, library>>
  BY DEF Return
<1>2. PICK o \in Outcome : call' = [call EXCEPT ![r] = o]
  BY DEF Return, Outcome
<1>3. o # None
  BY GuiAssumption DEF Outcome
<1>4. call' \in [Row -> {"running", None} \cup Outcome] /\ call'[r] = o
  BY <1>2 DEF IInv, TypeOK
<1>5. TypeOK'
  BY <1>1, <1>4 DEF IInv, TypeOK, widgets, library
<1>6. \A s \in Row : call'[s] # None <=> call[s] # None
  BY <1>1, <1>2, <1>3, <1>4, GuiAssumption DEF IInv, TypeOK
<1>7. \A s \in Row : RowOK(s)'
  BY <1>1, <1>6 DEF IInv, RowOK, widgets
<1> QED BY <1>1, <1>5, <1>7 DEF IInv, PageFollowsLibrary, library

LEMMA StepInv == IInv /\ [Next]_vars => IInv'
<1> SUFFICES ASSUME IInv, [Next]_vars PROVE IInv'
  OBVIOUS
<1>1. CASE UNCHANGED vars
  BY <1>1 DEF vars, widgets, calls, library, IInv, TypeOK, RowOK, PageFollowsLibrary
<1>2. CASE Next
  BY <1>2, RefilterInv, ClickInv, CancelInv, DeliverInv, DoneInv, ReceiveInv, ReturnInv,
    RemoveInv DEF Next
<1> QED BY <1>1, <1>2

LEMMA Inductive == Spec => []IInv
BY InitInv, StepInv, PTL DEF Spec

-----------------------------------------------------------------------------
(* The theorems.                                                           *)

\* Every state has the declared type; the progress channel is never over its
\* capacity.
THEOREM GuiTypeCorrect == Spec => []TypeOK
<1>1. IInv => TypeOK
  BY DEF IInv
<1> QED BY <1>1, Inductive, PTL

\* No bar is ahead of its call, whatever is dropped, late or left behind.
THEOREM BarAlwaysHonest == Spec => []BarIsHonest
<1>1. IInv => BarIsHonest
  BY DEF IInv, RowOK, Behind, BarIsHonest
<1> QED BY <1>1, Inductive, PTL

\* The updates of a call reach its bar in order, so it never moves back.
THEOREM BarOnlyAdvances == Spec => BarNeverGoesBack
<1> DEFINE A == \A r \in Row : None \notin {bar[r], bar'[r]} => bar'[r] >= bar[r]
<1>1. ASSUME IInv, [Next]_vars PROVE [A]_vars
  <2> SUFFICES ASSUME NEW r \in Row, bar[r] # None, bar'[r] # None PROVE bar'[r] >= bar[r]
    BY DEF A
  <2>1. bar \in [Row -> 0..Size \cup {None}] /\ bar[r] \in Nat
    BY <1>1 DEF IInv, TypeOK
  <2>2. ASSUME bar' = bar PROVE bar'[r] >= bar[r]
    BY <2>1, <2>2
  <2>3. ASSUME NEW s \in Row, NEW already \in 0..(Size - 1), Click(s, already)
        PROVE  bar'[r] >= bar[r]
    <3>1. bar'[r] = bar[r]
      BY <1>1, <2>1, <2>3 DEF IInv, RowOK, Click
    <3> QED BY <2>1, <3>1
  <2>4. ASSUME NEW s \in Row, Done(s) PROVE bar'[r] >= bar[r]
    <3>1. bar'[r] = bar[r]
      BY <2>1, <2>4 DEF Done
    <3> QED BY <2>1, <3>1
  <2>5. ASSUME NEW s \in Row, Deliver(s) PROVE bar'[r] >= bar[r]
    <3>1. CASE s # r
      BY <2>1, <2>5, <3>1 DEF Deliver
    <3>2. CASE s = r
      <4>1. /\ queue[r] # << >>
            /\ bar' = [bar EXCEPT ![r] = Show(bar[r], Head(queue[r]))]
        BY <2>5, <3>2 DEF Deliver
      <4>2. /\ Ordered(queue[r], got[r]) /\ got[r] \in 0..Size
            /\ Behind(bar[r], queue[r], got[r])
        BY <1>1 DEF IInv, RowOK, TypeOK
      <4>3. Head(queue[r]) \in 1..Size /\ bar[r] <= Head(queue[r]) /\ bar[r] \in 0..Size
        BY <2>1, <4>1, <4>2, TailKeeps
      <4>4. Show(bar[r], Head(queue[r])) \in 0..Size /\ bar[r] <= Show(bar[r], Head(queue[r]))
        BY <4>3, ShowKeeps
      <4>5. bar'[r] = Show(bar[r], Head(queue[r]))
        BY <2>1, <4>1
      <4> QED BY <4>3, <4>4, <4>5, GuiAssumption
    <3> QED BY <3>1, <3>2
  <2>6. CASE UNCHANGED vars
    BY <2>2, <2>6 DEF vars, widgets
  <2>7. CASE Next
    <3>1. ASSUME NEW f \in Filter, Refilter(f) PROVE bar' = bar
      BY <3>1 DEF Refilter, widgets
    <3>2. ASSUME NEW s \in Row, Cancel(s) \/ Receive(s) \/ Return(s) PROVE bar' = bar
      BY <3>2 DEF Cancel, Receive, Return, widgets
    <3>3. ASSUME NEW v \in Variant, Remove(v) PROVE bar' = bar
      BY <3>3 DEF Remove, widgets
    <3> QED BY <2>2, <2>3, <2>4, <2>5, <2>7, <3>1, <3>2, <3>3 DEF Next
  <2> QED BY <1>1, <2>6, <2>7
<1> QED BY <1>1, Inductive, PTL DEF Spec, BarNeverGoesBack

\* A row has one call at a time, and Cancel only while there is one.
THEOREM OneCallAtATime == Spec => []OneCallPerRow
<1>1. IInv => OneCallPerRow
  BY DEF IInv, RowOK, OneCallPerRow
<1> QED BY <1>1, Inductive, PTL

\* The library page is stale only after an addition that could not be saved.
THEOREM PageAlwaysFollows == Spec => []PageFollowsLibrary
<1>1. IInv => PageFollowsLibrary
  BY DEF IInv
<1> QED BY <1>1, Inductive, PTL
=============================================================================
