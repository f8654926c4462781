----------------------------- MODULE Hwcomposer -----------------------------
(***************************************************************************)
(* The hardware composer of the old Shashlik (hwcmodule.cpp,               *)
(* hwcomposer.cpp): one object for the process, made by the first open and *)
(* deleted by the next close, whoever closes.  The device that open gives  *)
(* out is the object, so a device may outlive it.                          *)
(***************************************************************************)
EXTENDS HalProcess

CONSTANTS User,    \* who opens a device in this process
          MaxNew   \* objects made; a bound

ASSUME HwcomposerAssumption == MaxNew \in Nat /\ None \notin Nat

VARIABLES
  sInstance,  \* the object that getInstance returns
  object,     \* the objects that were made
  held,       \* the device each user has
  cut         \* history: who has a device while somebody closed one

hwcVars == <<sInstance, object, held, cut>>

New == 1..MaxNew

Object == [state : {"none", "live", "deleted"}, mInitialized : BOOLEAN, mWindow : BOOLEAN,
           mProcs : BOOLEAN]

HwcInit ==
  /\ sInstance = None
  /\ object = [o \in New |-> [state |-> "none", mInitialized |-> FALSE, mWindow |-> FALSE, mProcs |-> FALSE]]
  /\ held = [u \in User |-> None]
  /\ cut = {}

-----------------------------------------------------------------------------
\* The constructor makes the window; initialize does nothing else that it
\* could fail of.
Constructed == [state |-> "live", mInitialized |-> FALSE, mWindow |-> TRUE, mProcs |-> FALSE]
Initialized(b) == [b EXCEPT !.mInitialized = TRUE]

\* delete: the window goes with deinitialize.
Deleted(b) == [b EXCEPT !.state = "deleted", !.mWindow = FALSE, !.mInitialized = FALSE,
                        !.mProcs = FALSE]

\* getInstance: the object to be returned, and the objects afterwards.
Unmade(o) == object[o].state = "none" /\ \A p \in New : p < o => object[p].state # "none"

GetInstance(o) == IF sInstance = None THEN Unmade(o) ELSE o = sInstance

\* hwc_device_open, for the name of the composer; any other changes nothing.
Open(u) ==
  /\ \E o \in New :
       /\ GetInstance(o)
       /\ sInstance' = o
       /\ object' = [object EXCEPT ![o] = Initialized(IF sInstance = None THEN Constructed ELSE @)]
       /\ held' = [held EXCEPT ![u] = o]
  /\ cut' = cut \ {u}
  /\ UNCHANGED up

Opens(u) == held[u] = None /\ Open(u)

Others(u) == {v \in User \ {u} : held[v] # None}

\* A mutant of releaseInstance keeps the pointer.
MutCloses(u) ==
  /\ held[u] # None
  /\ object' = IF sInstance = None THEN object ELSE [object EXCEPT ![sInstance] = Deleted(@)]
  /\ held' = [held EXCEPT ![u] = None]
  /\ cut' = (cut \ {u}) \cup Others(u)
  /\ UNCHANGED <<sInstance, up>>

\* hwc_device_close and releaseInstance: the device is not looked at.
Closes(u) ==
  /\ held[u] # None
  /\ object' = IF sInstance = None THEN object ELSE [object EXCEPT ![sInstance] = Deleted(@)]
  /\ sInstance' = None
  /\ held' = [held EXCEPT ![u] = None]
  /\ cut' = (cut \ {u}) \cup Others(u)
  /\ UNCHANGED up

\* What a function of the object leaves of the process: RETURN_X_IF_NOT_INIT
\* ends it, on an object that was deleted perhaps.  What the functions return
\* does not depend on the object.
Outcomes(b) ==
  (IF b.mInitialized \/ b.state = "deleted" THEN {TRUE} ELSE {}) \cup
  (IF b.mInitialized THEN {} ELSE {FALSE})

\* A function of the device: prepare, set, dump, eventControl and the others
\* but query, which does not look at the object.
Call(u) ==
  /\ held[u] # None
  /\ up' \in Outcomes(object[held[u]])
  /\ UNCHANGED hwcVars

\* hwc_registerProcs: the last callbacks stay, and go with the object.
RegisterProcs(u, procs) ==
  /\ held[u] # None
  /\ object' = IF object[held[u]].state = "deleted" THEN object
               ELSE [object EXCEPT ![held[u]].mProcs = procs]
  /\ UNCHANGED <<sInstance, held, cut, up>>

HwcNext ==
  /\ up
  /\ \E u \in User :
       \/ Opens(u) \/ Closes(u)
       \/ Call(u)
       \/ \E procs \in BOOLEAN : RegisterProcs(u, procs)
-----------------------------------------------------------------------------
(* Properties.                                                             *)

HwcTypeOK ==
  /\ sInstance \in New \cup {None}
  /\ object \in [New -> Object]
  /\ held \in [User -> New \cup {None}]
  /\ cut \subseteq User

\* The object there is was initialised and has its window, and the windows
\* of all others are gone (the three rules of HwcTrace.h: create, initialise
\* immediately, delete).
HwcReady ==
  /\ \A o \in New : object[o].mWindow <=> o = sInstance
  /\ sInstance # None => object[sInstance].state = "live" /\ object[sInstance].mInitialized

\* A device is good until somebody, who need not be its holder, closes one
\* (hwc_device_close): only then can a call through it end the process.
HeldIsLive ==
  \A u \in User : held[u] # None /\ u \notin cut =>
    held[u] = sInstance /\ object[held[u]].state = "live" /\ object[held[u]].mInitialized
=============================================================================
