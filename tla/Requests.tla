------------------------------ MODULE Requests ------------------------------
(***************************************************************************)
(* Client::get of xylitol-apkpure: a page is requested, and a 429 is met   *)
(* with a sleep and another request, a bounded number of times.  APKPure   *)
(* limits the address, so one limit is met by every request that is under  *)
(* way, whether it comes from a search, a page or another program.         *)
(*                                                                         *)
(* Time passes in seconds, by Tick, which lowers what remains of the limit *)
(* and of every sleep; nothing keeps the absolute time.                    *)
(***************************************************************************)
EXTENDS Naturals

CONSTANTS
  Request,     \* calls of get, each run once
  MaxRetries,  \* MAX_RETRIES
  Cap,         \* the longest sleep a Retry-After may cause, in seconds
  MaxLimit,    \* the longest limit the site imposes, in seconds
  Announce,    \* what 429s may carry: "after", a Retry-After, or "none"
  Unknown      \* no Retry-After that could be read

\* 2u64.pow(attempt.min(4)).
Backoff(n) == 2 ^ (IF n < 4 THEN n ELSE 4)

ASSUME RequestsAssumption ==
  /\ MaxRetries \in Nat
  /\ Cap \in Nat
  /\ MaxLimit \in Nat \ {0}
  /\ Announce \subseteq {"after", "none"}
  /\ Unknown \notin Nat
  /\ \A n \in 0..MaxRetries : Backoff(n) \in Nat
  /\ \A n \in 0..MaxRetries : n < MaxRetries => Backoff(n) <= Cap

VARIABLES
  closed,   \* seconds the limit on this address still lasts
  imposed,  \* the length of the only limit so far; Many, which is more, after another
  phase,    \* where each call is, or how it ended
  attempt,  \* requests answered with a 429 and repeated
  wait,     \* seconds each call still sleeps
  slept,    \* seconds each call has slept in all
  asked,    \* seconds the last Retry-After it got still runs
  told      \* what the error of a call says to wait

call == <<phase, attempt, wait, slept, asked, told>>
vars == <<closed, imposed, call>>

Many == MaxLimit + Cap + 1

Ended == {"Ok", "RateLimited", "Failed"}
Phase == {"idle", "sending", "sleeping"} \cup Ended

Init ==
  /\ closed = 0
  /\ imposed = 0
  /\ phase = [r \in Request |-> "idle"]
  /\ attempt = [r \in Request |-> 0]
  /\ wait = [r \in Request |-> 0]
  /\ slept = [r \in Request |-> 0]
  /\ asked = [r \in Request |-> 0]
  /\ told = [r \in Request |-> 0]

-----------------------------------------------------------------------------
(* A call of get.                                                          *)

Less(m, n) == IF m < n THEN m ELSE n

\* The Retry-After of a 429 sent now.
Header == (IF "after" \in Announce THEN {closed} ELSE {})
            \cup (IF "none" \in Announce THEN {Unknown} ELSE {})

\* A mutant forgets the exponent.
MutSleepFlat(after, n) == IF after = Unknown THEN 1 ELSE Less(after, Cap)

\* A mutant always backs off and never reads the header.
MutSleep(after, n) == Backoff(n)

\* A mutant sleeps as long as it is told to.
MutSleepUncapped(after, n) == IF after = Unknown THEN Backoff(n) ELSE after

\* retry_after(..).unwrap_or_else(|| backoff(attempt)).
Sleep(after, n) == IF after = Unknown THEN Backoff(n) ELSE Less(after, Cap)

Begin(r) ==
  /\ phase[r] = "idle"
  /\ phase' = [phase EXCEPT ![r] = "sending"]
  /\ UNCHANGED <<closed, imposed, attempt, wait, slept, asked, told>>

\* A success is returned.
Succeed(r) ==
  /\ phase[r] = "sending"
  /\ closed = 0
  /\ phase' = [phase EXCEPT ![r] = "Ok"]
  /\ UNCHANGED <<closed, imposed, attempt, wait, slept, asked, told>>

\* No response within the read timeout, or another status: returned at once.
Fail(r) ==
  /\ phase[r] = "sending"
  /\ phase' = [phase EXCEPT ![r] = "Failed"]
  /\ UNCHANGED <<closed, imposed, attempt, wait, slept, asked, told>>

\* A mutant retries once more.
MutRetryMore(r) ==
  /\ phase[r] = "sending"
  /\ closed > 0
  /\ attempt[r] <= MaxRetries
  /\ \E after \in Header :
       /\ wait' = [wait EXCEPT ![r] = Sleep(after, attempt[r])]
       /\ asked' = [asked EXCEPT ![r] = IF after = Unknown THEN @ ELSE after]
  /\ phase' = [phase EXCEPT ![r] = "sleeping"]
  /\ attempt' = [attempt EXCEPT ![r] = @ + 1]
  /\ UNCHANGED <<closed, imposed, slept, told>>

\* A 429, and retries left: sleep.  The attempt is counted here, before the
\* sleep, as nothing reads the number before the next answer.
Retry(r) ==
  /\ phase[r] = "sending"
  /\ closed > 0
  /\ attempt[r] < MaxRetries
  /\ \E after \in Header :
       /\ wait' = [wait EXCEPT ![r] = Sleep(after, attempt[r])]
       /\ asked' = [asked EXCEPT ![r] = IF after = Unknown THEN @ ELSE after]
  /\ phase' = [phase EXCEPT ![r] = "sleeping"]
  /\ attempt' = [attempt EXCEPT ![r] = @ + 1]
  /\ UNCHANGED <<closed, imposed, slept, told>>

\* A 429, and no retry left: Err(RateLimited) with the sleep it would have
\* been.
GiveUp(r) ==
  /\ phase[r] = "sending"
  /\ closed > 0
  /\ attempt[r] >= MaxRetries
  /\ \E after \in Header :
       /\ told' = [told EXCEPT ![r] = Sleep(after, attempt[r])]
       /\ asked' = [asked EXCEPT ![r] = IF after = Unknown THEN @ ELSE after]
  /\ phase' = [phase EXCEPT ![r] = "RateLimited"]
  /\ UNCHANGED <<closed, imposed, attempt, wait, slept>>

\* A mutant sleeps on while the site limits the address.
MutWake(r) ==
  /\ phase[r] = "sleeping"
  /\ wait[r] = 0
  /\ closed = 0
  /\ phase' = [phase EXCEPT ![r] = "sending"]
  /\ UNCHANGED <<closed, imposed, attempt, wait, slept, asked, told>>

\* The sleep is over and the request is sent again.
Wake(r) ==
  /\ phase[r] = "sleeping"
  /\ wait[r] = 0
  /\ phase' = [phase EXCEPT ![r] = "sending"]
  /\ UNCHANGED <<closed, imposed, attempt, wait, slept, asked, told>>

-----------------------------------------------------------------------------
(* The surroundings.                                                       *)

Down(n) == IF n > 0 THEN n - 1 ELSE 0

\* A second passes.
Tick ==
  /\ closed' = Down(closed)
  /\ wait' = [r \in Request |-> Down(wait[r])]
  /\ slept' = [r \in Request |-> IF wait[r] > 0 THEN slept[r] + 1 ELSE slept[r]]
  /\ asked' = [r \in Request |-> Down(asked[r])]
  /\ told' = [r \in Request |-> Down(told[r])]
  /\ UNCHANGED <<imposed, phase, attempt>>

\* The site limits the address, or lengthens the limit it is under.
Impose ==
  /\ closed' \in (closed + 1)..MaxLimit
  /\ imposed' = IF imposed = 0 THEN closed' ELSE Many
  /\ UNCHANGED call

Step(r) == Succeed(r) \/ Fail(r) \/ Retry(r) \/ GiveUp(r) \/ Wake(r)

Next == (\E r \in Request : Begin(r) \/ Step(r)) \/ Tick \/ Impose

Spec == Init /\ [][Next]_vars

\* tokio wakes a sleeper whose time has come, the read timeout ends a request
\* that is not answered, and time passes.
FairSpec == Spec /\ (\A r \in Request : WF_vars(Step(r))) /\ WF_vars(Tick)

-----------------------------------------------------------------------------
(* Properties.                                                             *)

\* Type invariant.
TypeOK ==
  /\ closed \in Nat
  /\ imposed \in Nat
  /\ phase \in [Request -> Phase]
  /\ attempt \in [Request -> 0..MaxRetries]
  /\ wait \in [Request -> Nat]
  /\ slept \in [Request -> Nat]
  /\ asked \in [Request -> Nat]
  /\ told \in [Request -> Nat]

\* "A hostile or buggy value should not hang the UI for an hour": all the
\* sleeps of one call together are bounded, whatever the site answers.
SleepBounded == \A r \in Request : slept[r] + wait[r] <= attempt[r] * Cap

\* The seconds n sleeps last when no 429 says how long to wait.
SleptBy[n \in 0..MaxRetries] ==
  IF n = 0 THEN 0 ELSE SleptBy[n - 1] + Backoff(n - 1)

\* "Backing off politely is the difference between working and not": one limit
\* no longer than the sleeps of one call is never shown to the user.
LimitIsRiddenOut ==
  imposed <= Less(Cap, SleptBy[MaxRetries]) =>
    \A r \in Request : phase[r] # "RateLimited"

\* "The client honours Retry-After", up to the cap: no request is sent before
\* the time the site asked this call to wait has passed.
WaitsAsAsked ==
  [][\A r \in Request : Wake(r) /\ imposed <= Cap => asked[r] = 0]_vars

\* Every call returns, even from a site that never stops limiting.
EveryGetEnds == \A r \in Request : phase[r] = "sending" ~> phase[r] \in Ended
=============================================================================
