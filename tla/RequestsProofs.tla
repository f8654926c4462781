---------------------------- MODULE RequestsProofs ----------------------------
(***************************************************************************)
(* Theorems about Requests for every value of its constants.               *)
(***************************************************************************)
EXTENDS Requests, WellFoundedInduction, TLAPS

LEMMA LimitInNat == \A n \in (closed + 1)..MaxLimit : closed \in Nat => n \in Nat
BY RequestsAssumption

\* No sleep before the last retry is longer than the cap.
LEMMA SleepType ==
  ASSUME NEW after \in Nat \cup {Unknown}, NEW n \in 0..MaxRetries
  PROVE  /\ Sleep(after, n) \in Nat
         /\ n < MaxRetries => Sleep(after, n) <= Cap
BY RequestsAssumption DEF Sleep, Less

LEMMA HeaderType == closed \in Nat => Header \subseteq Nat \cup {Unknown}
BY DEF Header

LEMMA TypeStep == TypeOK /\ [Next]_vars => TypeOK'
<1> SUFFICES ASSUME TypeOK, [Next]_vars PROVE TypeOK'
  OBVIOUS
<1> USE DEF TypeOK
<1>1. ASSUME NEW r \in Request, Begin(r) \/ Succeed(r) \/ Fail(r) \/ Wake(r) PROVE TypeOK'
  BY <1>1 DEF Begin, Succeed, Fail, Wake, Phase, Ended
<1>2. ASSUME NEW r \in Request, Retry(r) PROVE TypeOK'
  <2>1. PICK after \in Header :
          /\ wait' = [wait EXCEPT ![r] = Sleep(after, attempt[r])]
          /\ asked' = [asked EXCEPT ![r] = IF after = Unknown THEN @ ELSE after]
    BY <1>2 DEF Retry
  <2>2. after \in Nat \cup {Unknown} /\ Sleep(after, attempt[r]) \in Nat
    BY HeaderType, SleepType
  <2>3. wait' \in [Request -> Nat] /\ asked' \in [Request -> Nat]
    BY <2>1, <2>2
  <2>4. attempt' \in [Request -> 0..MaxRetries]
    BY <1>2, RequestsAssumption DEF Retry
  <2> QED BY <1>2, <2>3, <2>4 DEF Retry, Phase
<1>3. ASSUME NEW r \in Request, GiveUp(r) PROVE TypeOK'
  <2>1. PICK after \in Header :
          /\ told' = [told EXCEPT ![r] = Sleep(after, attempt[r])]
          /\ asked' = [asked EXCEPT ![r] = IF after = Unknown THEN @ ELSE after]
    BY <1>3 DEF GiveUp
  <2>2. after \in Nat \cup {Unknown} /\ Sleep(after, attempt[r]) \in Nat
    BY HeaderType, SleepType
  <2>3. told' \in [Request -> Nat] /\ asked' \in [Request -> Nat]
    BY <2>1, <2>2
  <2> QED BY <1>3, <2>3 DEF GiveUp, Phase, Ended
<1>4. CASE Tick
  BY <1>4 DEF Tick, Down
<1>5. CASE Impose
  BY <1>5, LimitInNat, RequestsAssumption DEF Impose, call, Many
<1>6. CASE UNCHANGED vars
  BY <1>6 DEF vars, call
<1> QED BY <1>1, <1>2, <1>3, <1>4, <1>5, <1>6 DEF Next, Step

\* Every state has the declared type: no call repeats its request more than
\* MAX_RETRIES times.
THEOREM RequestsTypeCorrect == Spec => []TypeOK
<1>1. Init => TypeOK
  BY RequestsAssumption DEF Init, TypeOK, Phase
<1> QED BY <1>1, TypeStep, PTL DEF Spec

-----------------------------------------------------------------------------
(* A site cannot make a call sleep for long.                               *)

\* A sleep is counted in the attempt that began it, and the next one begins
\* when it is over.
IInv ==
  /\ SleepBounded
  /\ \A r \in Request : phase[r] # "sleeping" => wait[r] = 0

LEMMA OneMore ==
  ASSUME NEW n \in Nat, NEW c \in Nat PROVE (n + 1) * c = n * c + c /\ n * c \in Nat
OBVIOUS

LEMMA InvStep ==
  ASSUME TypeOK, IInv, [Next]_vars PROVE IInv'
<1> USE DEF TypeOK
<1>1. ASSUME UNCHANGED <<attempt, wait, slept>>,
             \A r \in Request : phase'[r] # "sleeping" => wait[r] = 0
      PROVE  IInv'
  BY <1>1 DEF IInv, SleepBounded
<1>2. ASSUME NEW r \in Request, Begin(r) \/ Succeed(r) \/ Fail(r) \/ Wake(r) \/ GiveUp(r)
      PROVE  IInv'
  BY <1>1, <1>2 DEF IInv, Begin, Succeed, Fail, Wake, GiveUp
<1>3. ASSUME NEW r \in Request, Retry(r) PROVE IInv'
  <2>1. PICK after \in Header : wait' = [wait EXCEPT ![r] = Sleep(after, attempt[r])]
    BY <1>3 DEF Retry
  <2>2. /\ Sleep(after, attempt[r]) \in Nat
        /\ Sleep(after, attempt[r]) <= Cap
    BY <1>3, HeaderType, SleepType DEF Retry
  <2>3. /\ attempt' = [attempt EXCEPT ![r] = attempt[r] + 1]
        /\ slept' = slept
        /\ phase' = [phase EXCEPT ![r] = "sleeping"]
        /\ wait[r] = 0
    BY <1>3 DEF Retry, IInv
  <2>4. (attempt[r] + 1) * Cap = attempt[r] * Cap + Cap /\ attempt[r] * Cap \in Nat
    BY OneMore, RequestsAssumption
  <2>5. slept[r] + wait[r] <= attempt[r] * Cap
    BY DEF IInv, SleepBounded
  <2>6. slept'[r] + wait'[r] <= attempt'[r] * Cap
    <3>1. slept[r] <= attempt[r] * Cap
      BY <2>3, <2>5
    <3>2. attempt'[r] = attempt[r] + 1 /\ wait'[r] = Sleep(after, attempt[r])
      BY <2>1, <2>3
    <3>3. slept[r] + Sleep(after, attempt[r]) <= (attempt[r] + 1) * Cap
      <4> DEFINE s == slept[r]
                 w == Sleep(after, attempt[r])
                 m == attempt[r] * Cap
      <4>1. s \in Nat /\ w \in Nat /\ m \in Nat /\ Cap \in Nat /\ s <= m /\ w <= Cap
        BY <2>2, <2>4, <3>1, RequestsAssumption
      <4> HIDE DEF s, w, m
      <4>2. s + w <= m + Cap
        BY <4>1
      <4> QED BY <2>4, <4>2 DEF s, w, m
    <3> QED BY <2>3, <3>2, <3>3
  <2>7. ASSUME NEW q \in Request \ {r} PROVE slept'[q] + wait'[q] <= attempt'[q] * Cap
    BY <2>1, <2>3, <2>7 DEF IInv, SleepBounded
  <2>8. \A q \in Request : phase'[q] # "sleeping" => wait'[q] = 0
    BY <2>1, <2>3 DEF IInv
  <2> QED BY <2>6, <2>7, <2>8 DEF IInv, SleepBounded
<1>4. CASE Tick
  <2>1. attempt' = attempt /\ phase' = phase
    BY <1>4 DEF Tick
  <2>2. ASSUME NEW r \in Request
        PROVE  slept'[r] + wait'[r] = slept[r] + wait[r] /\ (wait[r] = 0 => wait'[r] = 0)
    BY <1>4 DEF Tick, Down
  <2> QED BY <2>1, <2>2 DEF IInv, SleepBounded
<1>5. CASE Impose \/ UNCHANGED vars
  BY <1>1, <1>5 DEF Impose, vars, call, IInv
<1> QED BY <1>2, <1>3, <1>4, <1>5 DEF Next, Step

\* "A hostile or buggy value should not hang the UI": the sleeps of a call
\* add up to at most Cap for each of its retries, whatever the site answers.
THEOREM SleepIsBounded == Spec => []SleepBounded
<1>1. Init => TypeOK /\ IInv
  BY RequestsAssumption DEF Init, TypeOK, Phase, IInv, SleepBounded
<1>2. TypeOK /\ IInv /\ [Next]_vars => (TypeOK /\ IInv)'
  BY TypeStep, InvStep
<1>3. IInv => SleepBounded
  BY DEF IInv
<1> QED BY <1>1, <1>2, <1>3, PTL DEF Spec

-----------------------------------------------------------------------------
(* The sum of the backoffs.                                                *)

\* A set of naturals has a least member.
LEMMA Least ==
  ASSUME NEW S, S \subseteq Nat, S # {}
  PROVE  \E m \in S : \A k \in S : m <= k
<1> DEFINE R == OpToRel(<, Nat)
<1>1. IsWellFoundedOn(R, Nat)
  BY NatLessThanWellFounded
<1>2. \A m, k \in Nat : k < m => <<k, m>> \in R
  BY DEF OpToRel
<1> HIDE DEF R
<1>3. \E m \in S : \A k \in S : ~(<<k, m>> \in R)
  BY <1>1, WFMin, Zenon
<1>4. PICK m \in S : \A k \in S : ~(<<k, m>> \in R)
  BY <1>3, Zenon
<1>5. ASSUME NEW k \in S PROVE m <= k
  <2>1. ~(k < m)
    BY <1>2, <1>4
  <2> QED BY <2>1
<1> QED BY <1>5

\* Induction, stated about the set of the numbers a fact holds for.
LEMMA Induction ==
  ASSUME NEW S, 0 \in S, \A n \in Nat : n \in S => n + 1 \in S
  PROVE  Nat \subseteq S
<1> SUFFICES ASSUME Nat \ S # {} PROVE FALSE
  OBVIOUS
<1>1. PICK m \in Nat \ S : \A k \in Nat \ S : m <= k
  BY Least
<1>2. m # 0 /\ m - 1 \in Nat
  BY <1>1
<1>3. m - 1 \in S
  BY <1>1, <1>2
<1> QED BY <1>1, <1>2, <1>3

\* What SleptBy is required to be, up to n.
IsSum(f, n) ==
  /\ f \in [0..n -> Nat]
  /\ f[0] = 0
  /\ \A i \in 1..n : f[i] = f[i - 1] + Backoff(i - 1)

LEMMA SumExists == \E f : IsSum(f, MaxRetries)
<1> DEFINE S == {n \in Nat : n <= MaxRetries => \E f : IsSum(f, n)}
<1>1. 0 \in S
  <2> DEFINE f == [i \in 0..0 |-> 0]
  <2>1. f \in [0..0 -> Nat] /\ f[0] = 0
    OBVIOUS
  <2> HIDE DEF f
  <2>2. IsSum(f, 0)
    BY <2>1 DEF IsSum
  <2> QED BY <2>2
<1>2. ASSUME NEW n \in Nat, n \in S PROVE n + 1 \in S
  <2> SUFFICES ASSUME n + 1 <= MaxRetries PROVE \E g : IsSum(g, n + 1)
    OBVIOUS
  <2>1. n <= MaxRetries /\ Backoff(n) \in Nat
    BY RequestsAssumption
  <2>2. PICK f : IsSum(f, n)
    BY <1>2, <2>1
  <2> DEFINE g == [i \in 0..n + 1 |-> IF i = n + 1 THEN f[n] + Backoff(n) ELSE f[i]]
  <2>3. g \in [0..n + 1 -> Nat]
    BY <2>1, <2>2 DEF IsSum
  <2>4. g[0] = 0
    BY <2>2 DEF IsSum
  <2>5. ASSUME NEW i \in 1..n + 1 PROVE g[i] = g[i - 1] + Backoff(i - 1)
    <3>1. CASE i = n + 1
      BY <3>1
    <3>2. CASE i \in 1..n
      BY <2>2, <3>2 DEF IsSum
    <3> QED BY <3>1, <3>2
  <2> QED BY <2>3, <2>4, <2>5 DEF IsSum
<1> HIDE DEF S
<1>3. Nat \subseteq S
  BY <1>1, <1>2, Induction
<1> QED BY <1>3, RequestsAssumption DEF S

\* SleptBy adds the backoffs up.
LEMMA SleptByFacts ==
  /\ \A n \in 0..MaxRetries : SleptBy[n] \in Nat
  /\ SleptBy[0] = 0
  /\ \A n \in 0..MaxRetries : n < MaxRetries => SleptBy[n + 1] = SleptBy[n] + Backoff(n)
<1> DEFINE Sum(f) == [n \in 0..MaxRetries |-> IF n = 0 THEN 0 ELSE f[n - 1] + Backoff(n - 1)]
<1>1. PICK f : IsSum(f, MaxRetries)
  BY SumExists
<1>2. f = Sum(f)
  <2>1. \A n \in 0..MaxRetries : f[n] = IF n = 0 THEN 0 ELSE f[n - 1] + Backoff(n - 1)
    BY <1>1 DEF IsSum
  <2> QED BY <1>1, <2>1 DEF IsSum
<1>3. SleptBy = CHOOSE g : g = Sum(g)
  BY DEF SleptBy
<1>4. SleptBy = Sum(SleptBy)
  BY <1>2, <1>3
<1>5. SleptBy[0] = 0
  BY <1>4, RequestsAssumption
<1>6. ASSUME NEW n \in 0..MaxRetries, n < MaxRetries
      PROVE  SleptBy[n + 1] = SleptBy[n] + Backoff(n)
  <2>1. n + 1 \in 0..MaxRetries /\ n + 1 # 0 /\ (n + 1) - 1 = n
    BY <1>6, RequestsAssumption
  <2>2. Sum(SleptBy)[n + 1] = SleptBy[n] + Backoff(n)
    BY <2>1
  <2> QED BY <1>4, <2>2
<1> HIDE DEF Sum
<1> DEFINE S == {n \in Nat : n <= MaxRetries => SleptBy[n] \in Nat}
<1>7. ASSUME NEW n \in Nat, n \in S PROVE n + 1 \in S
  BY <1>6, <1>7, RequestsAssumption
<1>8. 0 \in S
  BY <1>5
<1> HIDE DEF S
<1>9. Nat \subseteq S
  BY <1>7, <1>8, Induction
<1>10. \A n \in 0..MaxRetries : SleptBy[n] \in Nat
  BY <1>9, RequestsAssumption DEF S
<1> QED BY <1>5, <1>6, <1>10

-----------------------------------------------------------------------------
(* One limit.                                                              *)

\* A limit lasts no longer than it was imposed for.
Limited == closed <= imposed /\ imposed <= Many

\* Under one limit a sleep lasts as long as what was asked for, and after it
\* nothing of that is left.
Honoured(r) ==
  imposed <= Cap =>
    /\ phase[r] = "sleeping" => asked[r] <= wait[r]
    /\ phase[r] \in {"idle", "sending"} => asked[r] = 0

\* A call sleeps in a limit only, and each sleep either covers what remains of
\* it or lasts for its backoff.
Fresh(r) == imposed = 0 => attempt[r] = 0 /\ slept[r] = 0 /\ wait[r] = 0
Short == imposed <= Less(Cap, SleptBy[MaxRetries])
Covered(r) ==
  Short =>
    /\ phase[r] # "RateLimited"
    /\ closed = 0 \/ closed + slept[r] <= imposed
    /\ closed = 0 \/ closed <= wait[r] \/ SleptBy[attempt[r]] <= slept[r] + wait[r]

OneLimit == Limited /\ \A r \in Request : Honoured(r) /\ Fresh(r) /\ Covered(r)

LEMMA ShortFacts ==
  /\ Less(Cap, SleptBy[MaxRetries]) \in Nat
  /\ Less(Cap, SleptBy[MaxRetries]) <= Cap
  /\ Less(Cap, SleptBy[MaxRetries]) <= SleptBy[MaxRetries]
BY SleptByFacts, RequestsAssumption DEF Less

\* A step that leaves the limit and the times of the calls alone.
LEMMA NoTime ==
  ASSUME TypeOK, OneLimit, UNCHANGED <<closed, imposed, attempt, wait, slept, asked>>,
         \A r \in Request :
           \/ phase'[r] = phase[r]
           \/ /\ phase'[r] # "RateLimited"
              /\ phase'[r] # "sleeping"
              /\ phase[r] \in {"idle", "sending"} \/ wait[r] = 0
              /\ phase[r] \in {"idle", "sending", "sleeping"}
  PROVE  OneLimit'
<1>1. Limited'
  BY DEF OneLimit, Limited, Many
<1>2. ASSUME NEW r \in Request PROVE Honoured(r)' /\ Fresh(r)' /\ Covered(r)'
  <2>1. Honoured(r)'
    BY DEF OneLimit, Honoured, TypeOK
  <2>2. Fresh(r)' /\ Covered(r)'
    BY DEF OneLimit, Fresh, Covered, Short
  <2> QED BY <2>1, <2>2
<1> QED BY <1>1, <1>2 DEF OneLimit

\* A 429 while the limit lasts and no retry is left: it was not short.
LEMMA NotShort ==
  ASSUME TypeOK, IInv, OneLimit, NEW r \in Request, phase[r] = "sending", closed > 0, Short
  PROVE  attempt[r] < MaxRetries /\ SleptBy[attempt[r]] <= slept[r]
<1>1. wait[r] = 0 /\ closed \in Nat /\ slept[r] \in Nat /\ imposed \in Nat
  BY DEF IInv, TypeOK
<1>2. Covered(r)
  BY DEF OneLimit
<1>3. SleptBy[attempt[r]] <= slept[r] + wait[r]
  BY <1>1, <1>2 DEF Covered
<1>4. SleptBy[attempt[r]] <= slept[r]
  BY <1>1, <1>3
<1>5. closed + slept[r] <= imposed /\ imposed <= SleptBy[MaxRetries]
  <2>1. imposed <= Less(Cap, SleptBy[MaxRetries])
    BY DEF Short
  <2>2. SleptBy[MaxRetries] \in Nat
    BY SleptByFacts, RequestsAssumption
  <2>3. imposed <= SleptBy[MaxRetries]
    BY <1>1, <2>1, <2>2, ShortFacts
  <2> QED BY <1>1, <1>2, <2>3 DEF Covered
<1>6. attempt[r] # MaxRetries
  <2> SUFFICES ASSUME attempt[r] = MaxRetries PROVE FALSE
    OBVIOUS
  <2> DEFINE m == SleptBy[MaxRetries]
  <2>1. m \in Nat
    BY SleptByFacts, RequestsAssumption
  <2>2. m <= slept[r] /\ imposed <= m
    BY <1>4, <1>5
  <2> HIDE DEF m
  <2> QED BY <1>1, <1>5, <2>1, <2>2
<1> QED BY <1>4, <1>6, RequestsAssumption DEF TypeOK

LEMMA OneLimitStep ==
  ASSUME TypeOK, IInv, OneLimit, [Next]_vars PROVE OneLimit'
<1>0. /\ closed \in Nat /\ imposed \in Nat /\ Cap \in Nat /\ MaxLimit \in Nat /\ MaxRetries \in Nat
      /\ closed <= imposed /\ imposed <= Many
  BY RequestsAssumption DEF TypeOK, OneLimit, Limited
<1>1. ASSUME NEW r \in Request, Begin(r) \/ Succeed(r) \/ Fail(r) \/ Wake(r) PROVE OneLimit'
  <2>1. /\ UNCHANGED <<closed, imposed, attempt, wait, slept, asked>>
        /\ phase'[r] \in {"sending", "Ok", "Failed"}
        /\ phase[r] \in {"idle", "sending"} \/ (phase[r] = "sleeping" /\ wait[r] = 0)
        /\ \A q \in Request \ {r} : phase'[q] = phase[q]
    <3>1. CASE Begin(r)
      BY <3>1 DEF Begin, TypeOK
    <3>2. CASE Succeed(r) \/ Fail(r)
      BY <3>2 DEF Succeed, Fail, TypeOK
    <3>3. CASE Wake(r)
      BY <3>3 DEF Wake, TypeOK
    <3> QED BY <1>1, <3>1, <3>2, <3>3
  <2> QED BY <2>1, NoTime
<1>2. ASSUME NEW r \in Request, Retry(r) PROVE OneLimit'
  <2>1. PICK after \in Header :
          /\ wait' = [wait EXCEPT ![r] = Sleep(after, attempt[r])]
          /\ asked' = [asked EXCEPT ![r] = IF after = Unknown THEN @ ELSE after]
    BY <1>2 DEF Retry
  <2>2. /\ phase[r] = "sending" /\ phase' = [phase EXCEPT ![r] = "sleeping"]
        /\ closed > 0 /\ attempt[r] < MaxRetries
        /\ attempt' = [attempt EXCEPT ![r] = attempt[r] + 1]
        /\ UNCHANGED <<closed, imposed, slept>>
    BY <1>2 DEF Retry
  <2>3. /\ phase'[r] = "sleeping" /\ attempt'[r] = attempt[r] + 1
        /\ wait'[r] = Sleep(after, attempt[r])
        /\ asked'[r] = IF after = Unknown THEN asked[r] ELSE after
        /\ \A q \in Request \ {r} :
             /\ phase'[q] = phase[q] /\ attempt'[q] = attempt[q]
             /\ wait'[q] = wait[q] /\ asked'[q] = asked[q]
    BY <2>1, <2>2 DEF TypeOK
  <2>4. after = closed \/ after = Unknown
    BY DEF Header
  <2>5. closed # Unknown
    BY <1>0, RequestsAssumption
  <2>6. Honoured(r)'
    <3> SUFFICES ASSUME imposed <= Cap PROVE asked'[r] <= wait'[r]
      BY <2>2, <2>3 DEF Honoured
    <3>1. CASE after = closed
      BY <1>0, <2>3, <2>5, <3>1 DEF Sleep, Less
    <3>2. CASE after = Unknown
      <4>1. asked[r] = 0
        BY <2>2 DEF OneLimit, Honoured
      <4>2. wait'[r] \in Nat
        <5>1. after \in Nat \cup {Unknown} /\ attempt[r] \in 0..MaxRetries
          BY <3>2 DEF TypeOK
        <5>2. Sleep(after, attempt[r]) \in Nat
          BY <5>1, SleepType
        <5> QED BY <2>3, <5>2
      <4> QED BY <2>3, <3>2, <4>1, <4>2
    <3> QED BY <2>4, <3>1, <3>2
  <2>7. Fresh(r)'
    BY <1>0, <2>2 DEF Fresh
  <2>8. Covered(r)'
    <3> SUFFICES ASSUME Short PROVE Covered(r)'
      BY <2>2 DEF Covered, Short
    <3>1. closed + slept[r] <= imposed
      BY <2>2 DEF OneLimit, Covered
    <3>2. closed <= wait'[r] \/ SleptBy[attempt'[r]] <= slept[r] + wait'[r]
      <4>1. CASE after = closed
        <5>1. closed <= Cap
          BY <1>0, ShortFacts DEF Short
        <5> QED BY <1>0, <2>3, <2>5, <4>1, <5>1 DEF Sleep, Less
      <4>2. CASE after = Unknown
        <5>1. SleptBy[attempt[r]] <= slept[r]
          BY <2>2, NotShort
        <5> DEFINE b == Backoff(attempt[r])
                   m == SleptBy[attempt[r]]
        <5>2. wait'[r] = b /\ b \in Nat
          BY <2>3, <4>2, RequestsAssumption DEF Sleep, TypeOK
        <5>3. SleptBy[attempt'[r]] = m + b /\ m \in Nat
          BY <2>2, <2>3, SleptByFacts DEF TypeOK
        <5> HIDE DEF b, m
        <5>4. slept[r] \in Nat
          BY DEF TypeOK
        <5>5. m <= slept[r]
          BY <5>1 DEF m
        <5>6. m + b <= slept[r] + b
          BY <5>2, <5>3, <5>4, <5>5
        <5> QED BY <5>2, <5>3, <5>6
      <4> QED BY <2>4, <4>1, <4>2
    <3> QED BY <2>2, <2>3, <3>1, <3>2 DEF Covered
  <2>9. ASSUME NEW q \in Request \ {r} PROVE Honoured(q)' /\ Fresh(q)' /\ Covered(q)'
    BY <2>2, <2>3, <2>9 DEF OneLimit, Honoured, Fresh, Covered, Short
  <2>10. Limited'
    BY <2>2 DEF OneLimit, Limited, Many
  <2> QED BY <2>6, <2>7, <2>8, <2>9, <2>10 DEF OneLimit
<1>3. ASSUME NEW r \in Request, GiveUp(r) PROVE OneLimit'
  <2>1. /\ phase[r] = "sending" /\ phase'[r] = "RateLimited"
        /\ closed > 0 /\ ~(attempt[r] < MaxRetries)
        /\ UNCHANGED <<closed, imposed, attempt, wait, slept>>
        /\ \A q \in Request \ {r} : phase'[q] = phase[q] /\ asked'[q] = asked[q]
    <3>1. PICK after \in Header : asked' = [asked EXCEPT ![r] = IF after = Unknown THEN @ ELSE after]
      BY <1>3 DEF GiveUp
    <3>2. \A q \in Request \ {r} : asked'[q] = asked[q]
      BY <3>1 DEF TypeOK
    <3>3. /\ phase[r] = "sending" /\ phase' = [phase EXCEPT ![r] = "RateLimited"]
          /\ closed > 0 /\ attempt[r] >= MaxRetries
          /\ UNCHANGED <<closed, imposed, attempt, wait, slept>>
      BY <1>3 DEF GiveUp
    <3>4. ~(attempt[r] < MaxRetries)
      BY <1>0, <3>3 DEF TypeOK
    <3> QED BY <3>2, <3>3, <3>4 DEF TypeOK
  <2>2. ~Short
    BY <2>1, NotShort
  <2>3. Honoured(r)' /\ Fresh(r)' /\ Covered(r)'
    BY <2>1, <2>2 DEF OneLimit, Honoured, Fresh, Covered, Short
  <2>4. ASSUME NEW q \in Request \ {r} PROVE Honoured(q)' /\ Fresh(q)' /\ Covered(q)'
    BY <2>1, <2>4 DEF OneLimit, Honoured, Fresh, Covered, Short
  <2>5. Limited'
    BY <2>1 DEF OneLimit, Limited, Many
  <2> QED BY <2>3, <2>4, <2>5 DEF OneLimit
<1>4. CASE Tick
  <2>1. closed' = Down(closed) /\ UNCHANGED <<imposed, phase, attempt>>
    BY <1>4 DEF Tick
  <2>2. Limited'
    BY <1>0, <2>1 DEF Limited, Down, Many
  <2>3. ASSUME NEW r \in Request PROVE Honoured(r)' /\ Fresh(r)' /\ Covered(r)'
    <3>1. /\ wait'[r] = Down(wait[r]) /\ asked'[r] = Down(asked[r])
          /\ slept'[r] = IF wait[r] > 0 THEN slept[r] + 1 ELSE slept[r]
          /\ wait[r] \in Nat /\ asked[r] \in Nat /\ slept[r] \in Nat
      BY <1>4 DEF Tick, TypeOK
    <3>2. Honoured(r) /\ Fresh(r) /\ Covered(r)
      BY DEF OneLimit
    <3>3. Honoured(r)'
      BY <2>1, <3>1, <3>2 DEF Honoured, Down
    <3>4. Fresh(r)'
      BY <2>1, <3>1, <3>2 DEF Fresh, Down
    <3>5. Covered(r)'
      <4> SUFFICES ASSUME Short, closed > 0, closed' > 0 PROVE Covered(r)'
        BY <1>0, <2>1, <3>2 DEF Covered, Short, Down
      <4>1. slept'[r] + wait'[r] = slept[r] + wait[r]
        BY <3>1 DEF Down
      <4>2. closed' + slept'[r] <= imposed
        <5>1. closed + slept[r] <= imposed
          BY <1>0, <3>2 DEF Covered
        <5> QED BY <1>0, <2>1, <3>1, <5>1 DEF Down
      <4>3. closed <= wait[r] => closed' <= wait'[r]
        BY <1>0, <2>1, <3>1 DEF Down
      <4> QED BY <1>0, <2>1, <3>2, <4>1, <4>2, <4>3 DEF Covered, Short
    <3> QED BY <3>3, <3>4, <3>5
  <2> QED BY <2>2, <2>3 DEF OneLimit
<1>5. CASE Impose
  <2>1. /\ closed' \in (closed + 1)..MaxLimit
        /\ imposed' = IF imposed = 0 THEN closed' ELSE Many
        /\ UNCHANGED <<phase, attempt, wait, slept, asked>>
    BY <1>5 DEF Impose, call
  <2>2. closed' \in Nat /\ closed' <= MaxLimit /\ closed' > 0
    BY <1>0, <2>1
  <2>3. Limited' /\ imposed' > 0
    BY <1>0, <2>1, <2>2 DEF Limited, Many
  <2>4. ASSUME NEW r \in Request PROVE Honoured(r)' /\ Fresh(r)' /\ Covered(r)'
    <3>1. Honoured(r) /\ Fresh(r) /\ Covered(r)
      BY DEF OneLimit
    <3>2. CASE imposed = 0
      <4>1. Short /\ imposed <= Cap
        BY <1>0, <3>2, ShortFacts DEF Short
      <4>2. Honoured(r)' /\ Fresh(r)'
        BY <2>1, <2>3, <3>1, <4>1 DEF Honoured, Fresh
      <4>3. attempt[r] = 0 /\ slept[r] = 0 /\ wait[r] = 0
        BY <3>1, <3>2 DEF Fresh
      <4>4. Covered(r)'
        <5>1. phase'[r] # "RateLimited"
          BY <2>1, <3>1, <4>1 DEF Covered
        <5>2. slept'[r] = 0 /\ wait'[r] = 0 /\ attempt'[r] = 0 /\ imposed' = closed'
          BY <2>1, <3>2, <4>3
        <5>3. closed' + slept'[r] <= imposed'
          BY <2>2, <5>2
        <5>4. SleptBy[attempt'[r]] <= slept'[r] + wait'[r]
          BY <5>2, SleptByFacts
        <5> QED BY <5>1, <5>3, <5>4 DEF Covered
      <4> QED BY <4>2, <4>4
    <3>3. CASE imposed # 0
      <4>1. imposed' > Cap
        BY <1>0, <2>1, <3>3 DEF Many
      <4>2. ~Short'
        <5> DEFINE m == Less(Cap, SleptBy[MaxRetries])
        <5>1. m \in Nat /\ m <= Cap
          BY ShortFacts
        <5> HIDE DEF m
        <5>2. imposed' \in Nat
          BY <1>0, <2>1, <2>2 DEF Many
        <5>3. ~(imposed' <= m)
          BY <1>0, <4>1, <5>1, <5>2
        <5> QED BY <5>3 DEF Short, m
      <4>3. ~(imposed' <= Cap)
        BY <1>0, <2>1, <3>3 DEF Many
      <4> QED BY <2>3, <4>2, <4>3 DEF Honoured, Fresh, Covered
    <3> QED BY <3>2, <3>3
  <2> QED BY <2>3, <2>4 DEF OneLimit
<1>6. CASE UNCHANGED vars
  BY <1>6, NoTime DEF vars, call
<1> QED BY <1>1, <1>2, <1>3, <1>4, <1>5, <1>6 DEF Next, Step

LEMMA OneLimitInvariance == Spec => [](TypeOK /\ IInv /\ OneLimit)
<1>1. Init => TypeOK /\ IInv
  BY RequestsAssumption DEF Init, TypeOK, Phase, IInv, SleepBounded
<1>2. Init => OneLimit
  BY RequestsAssumption, SleptByFacts
     DEF Init, OneLimit, Limited, Many, Honoured, Fresh, Covered
<1>3. TypeOK /\ IInv /\ OneLimit /\ [Next]_vars => (TypeOK /\ IInv /\ OneLimit)'
  BY TypeStep, InvStep, OneLimitStep
<1> QED BY <1>1, <1>2, <1>3, PTL DEF Spec

\* "Backing off politely is the difference between working and not": a single
\* limit that is no longer than the cap, nor than the backoffs of one call
\* together, never reaches the user as an error, with or without Retry-After.
THEOREM ShortLimitIsRiddenOut == Spec => []LimitIsRiddenOut
<1>1. OneLimit => LimitIsRiddenOut
  BY DEF OneLimit, Covered, Short, LimitIsRiddenOut
<1> QED BY <1>1, OneLimitInvariance, PTL

\* "The client honours Retry-After": under one limit no longer than the cap no
\* request is repeated before the time the last Retry-After named.
THEOREM RetryAfterIsHonoured == Spec => WaitsAsAsked
<1>1. TypeOK /\ OneLimit =>
        [\A r \in Request : Wake(r) /\ imposed <= Cap => asked[r] = 0]_vars
  <2> SUFFICES ASSUME TypeOK, OneLimit, NEW r \in Request, Wake(r), imposed <= Cap
               PROVE  asked[r] = 0
    OBVIOUS
  <2>1. phase[r] = "sleeping" /\ wait[r] = 0
    BY DEF Wake
  <2>2. asked[r] <= wait[r] /\ asked[r] \in Nat
    BY <2>1 DEF OneLimit, Honoured, TypeOK
  <2> QED BY <2>1, <2>2
<1> QED BY <1>1, OneLimitInvariance, PTL DEF Spec, WaitsAsAsked
=============================================================================
