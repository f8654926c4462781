-------------------------- MODULE PropertiesdProofs -------------------------
(***************************************************************************)
(* What is proved of the properties daemon, for every set of clients, keys *)
(* and values.  DefaultsPresent and SavedStays rest on two facts: a plain  *)
(* setting is only saved by a daemon that had written the defaults, and    *)
(* what was saved is among the settings of a daemon that runs.             *)
(***************************************************************************)
EXTENDS Propertiesd, TLAPS

\* What a file with a plain setting in it also has.
PlainAfterDefaults ==
  (\E s \in Plain : file[s] # None) => \A d \in Default : file[d] # None

\* What was saved is still set.
SavedIsSet == running => \A s \in Setting : file[s] # None => settings[s] # None

IInv == TypeOK /\ DefaultsPresent /\ PlainAfterDefaults /\ SavedIsSet

-----------------------------------------------------------------------------
\* writeProperty writes a value, and takes none away.
LEMMA WrittenKeeps ==
  ASSUME NEW st \in Stored, NEW p \in Setting \cup {"empty"}, NEW v \in Value
  PROVE  /\ Written(st, p, v) \in Stored
         /\ \A s \in Setting : st[s] # None => Written(st, p, v)[s] # None
  BY PropertiesdAssumption DEF Written, Stored

\* initProperties keeps what is there, and leaves every default set when the
\* file has the defaults as soon as it has a plain setting.
LEMMA InitPropertiesSets ==
  ASSUME NEW st \in Stored,
         (\E s \in Plain : st[s] # None) => \A d \in Default : st[d] # None
  PROVE  /\ InitProperties(st) \in Stored
         /\ \A s \in Setting : st[s] # None => InitProperties(st)[s] # None
         /\ \A d \in Default : InitProperties(st)[d] # None
<1>1. CASE ChildKeys(st) # {}
  <2>1. InitProperties(st) = st
    BY <1>1 DEF InitProperties
  <2>2. \E s \in Plain : st[s] # None
    BY <1>1 DEF ChildKeys
  <2> QED
    BY <2>1, <2>2
<1>2. CASE ChildKeys(st) = {}
  <2>1. InitProperties(st) = [s \in Setting |-> IF s \in Default THEN Initial[s] ELSE st[s]]
    BY <1>2 DEF InitProperties
  <2>2. \A d \in Default : d \in Setting /\ Initial[d] \in Value /\ Initial[d] # None
    BY PropertiesdAssumption
  <2> QED
    BY <2>1, <2>2 DEF Stored
<1> QED
  BY <1>1, <1>2

\* A value read is one stored, or that there is none.
LEMMA ReadInType ==
  ASSUME NEW st \in Stored, NEW p \in Setting \cup {"empty"}
  PROVE  Read(st, p) \in Value \cup {Unset}
  BY PropertiesdAssumption DEF Read, Stored

\* The path of a key that has one.
LEMMA PathOfKey ==
  ASSUME NEW k \in Key, Path[k] # "nothing"
  PROVE  Path[k] \in Setting \cup {"empty"}
  BY PropertiesdAssumption

\* A get or a set names a key, a set a value too.
LEMMA RequestFields ==
  ASSUME TypeOK, NEW c \in Client
  PROVE  /\ Asks(c, "get") => request[c].key \in Key
         /\ Asks(c, "set") => request[c].key \in Key /\ request[c].value \in Value
<1>1. request[c] \in Request \cup {None}
  BY DEF TypeOK
<1> QED
  BY <1>1 DEF Asks, Request, Ignored

-----------------------------------------------------------------------------
LEMMA InitIInv == Init => IInv
<1> SUFFICES ASSUME Init
             PROVE  IInv
  OBVIOUS
<1>1. TypeOK
  BY DEF Init, TypeOK, Stored, Nothing
<1>2. DefaultsPresent /\ SavedIsSet
  BY DEF Init, DefaultsPresent, SavedIsSet
<1>3. PlainAfterDefaults
  BY PropertiesdAssumption DEF Init, PlainAfterDefaults, Nothing
<1> QED
  BY <1>1, <1>2, <1>3 DEF IInv

\* The end of the daemon, over a file that is the one before or the settings.
LEMMA EndsIInv ==
  ASSUME IInv, running, Ends, file' = file \/ file' = settings
  PROVE  IInv'
<1>1. TypeOK'
  BY DEF IInv, TypeOK, Ends, Stored, Nothing
<1>2. DefaultsPresent' /\ SavedIsSet'
  BY DEF Ends, DefaultsPresent, SavedIsSet
<1>3. PlainAfterDefaults'
  BY DEF IInv, PlainAfterDefaults, DefaultsPresent
<1> QED
  BY <1>1, <1>2, <1>3 DEF IInv

\* A request that is read.
LEMMA AnswersIInv ==
  ASSUME IInv, running, NEW c \in Client,
         Ignores(c) \/ \E a \in Value \cup {"done", "00", Unset} : Answers(c, a), UNCHANGED <<running, file>>, settings' \in Stored,
         \A s \in Setting : settings[s] # None => settings'[s] # None
  PROVE  IInv'
<1>1. TypeOK'
  BY DEF IInv, TypeOK, Answers, Ignores
<1>2. DefaultsPresent' /\ SavedIsSet' /\ PlainAfterDefaults'
  BY PropertiesdAssumption DEF IInv, DefaultsPresent, SavedIsSet, PlainAfterDefaults
<1> QED
  BY <1>1, <1>2 DEF IInv

LEMMA NextIInv == IInv /\ [Next]_vars => IInv'
<1> SUFFICES ASSUME IInv, [Next]_vars
             PROVE  IInv'
  OBVIOUS
<1>0. TypeOK
  BY DEF IInv
<1>1. CASE Start
  <2>1. /\ InitProperties(file) \in Stored
        /\ \A s \in Setting : file[s] # None => InitProperties(file)[s] # None
        /\ \A d \in Default : InitProperties(file)[d] # None
    BY InitPropertiesSets DEF IInv, TypeOK, PlainAfterDefaults
  <2>2. TypeOK'
    BY <1>1, <1>0, <2>1 DEF Start, TypeOK
  <2>3. DefaultsPresent' /\ SavedIsSet' /\ PlainAfterDefaults'
    BY <1>1, <2>1 DEF Start, IInv, DefaultsPresent, SavedIsSet, PlainAfterDefaults
  <2> QED
    BY <2>2, <2>3 DEF IInv
<1>2. CASE Sync
  <2>1. TypeOK'
    BY <1>2, <1>0 DEF Sync, TypeOK
  <2>2. DefaultsPresent' /\ SavedIsSet' /\ PlainAfterDefaults'
    BY <1>2 DEF Sync, IInv, DefaultsPresent, SavedIsSet, PlainAfterDefaults
  <2> QED
    BY <2>1, <2>2 DEF IInv
<1>3. CASE Stop
  BY <1>3, EndsIInv DEF Stop
<1>4. CASE Crash
  BY <1>4, EndsIInv DEF Crash
<1>5. ASSUME NEW c \in Client, ReadRequest(c)
      PROVE  IInv'
  <2>1. CASE Get(c)
    <3>1. Path[request[c].key] \in Setting \cup {"empty"}
      BY <2>1, <1>0, RequestFields, PathOfKey DEF Get
    <3>2. Read(settings, Path[request[c].key]) \in Value \cup {Unset}
      BY <3>1, <1>0, ReadInType DEF TypeOK
    <3> QED
      BY <2>1, <3>2, <1>0, AnswersIInv DEF Get, Asks, TypeOK
  <2>2. CASE Set(c)
    <3>1. Path[request[c].key] \in Setting \cup {"empty"} /\ request[c].value \in Value
      BY <2>2, <1>0, RequestFields, PathOfKey DEF Set
    <3>2. settings' \in Stored /\ \A s \in Setting : settings[s] # None => settings'[s] # None
      BY <2>2, <3>1, <1>0, WrittenKeeps DEF Set, TypeOK
    <3> QED
      BY <2>2, <3>2, AnswersIInv DEF Set, Asks
  <2>3. CASE Other(c)
    <3>1. running /\ UNCHANGED <<running, file>> /\ settings' \in Stored /\ settings' = settings
      BY <2>3, <1>0 DEF Other, Asks, TypeOK
    <3>2. Ignores(c) \/ Answers(c, "00")
      BY <2>3 DEF Other
    <3> QED
      BY <3>1, <3>2, AnswersIInv
  <2>4. CASE Aborts(c)
    BY <2>4, EndsIInv DEF Aborts, Asks
  <2> QED
    BY <1>5, <2>1, <2>2, <2>3, <2>4 DEF ReadRequest
<1>6. ASSUME NEW c \in Client, NEW r \in Request, Send(c, r)
      PROVE  IInv'
  <2>1. TypeOK'
    BY <1>6, <1>0 DEF Send, TypeOK
  <2>2. DefaultsPresent' /\ SavedIsSet' /\ PlainAfterDefaults'
    BY <1>6 DEF Send, IInv, DefaultsPresent, SavedIsSet, PlainAfterDefaults
  <2> QED
    BY <2>1, <2>2 DEF IInv
<1>7. CASE UNCHANGED vars
  BY <1>7 DEF vars, IInv, TypeOK, DefaultsPresent, SavedIsSet, PlainAfterDefaults
<1> QED
  BY <1>1, <1>2, <1>3, <1>4, <1>5, <1>6, <1>7 DEF Next

-----------------------------------------------------------------------------
\* The strengthening holds over every run of the daemon (Propertiesd.cpp).
THEOREM PropertiesdInvariant == Spec => []IInv
  BY InitIInv, NextIInv, PTL DEF Spec

\* Settings, requests and answers keep their types: nothing is stored for an
\* empty key (writeProperty, readProperty).
THEOREM PropertiesdTypeCorrect == Spec => []TypeOK
<1>1. IInv => TypeOK
  BY DEF IInv
<1> QED
  BY <1>1, PropertiesdInvariant, PTL

\* Every property initProperties has a default for has a value while the daemon
\* runs, whatever file an earlier one left behind.
THEOREM DefaultsAlwaysPresent == Spec => []DefaultsPresent
<1>1. IInv => DefaultsPresent
  BY DEF IInv
<1> QED
  BY <1>1, PropertiesdInvariant, PTL

\* No step takes a saved setting out of the file, not one after a crash either:
\* the daemon starts from the file it finds (Propertiesd::Propertiesd).
THEOREM SavedAlwaysStays == Spec => SavedStays
<1>1. IInv /\ [Next]_vars => [\A s \in Setting : file[s] # None => file'[s] # None]_vars
  <2> SUFFICES ASSUME IInv, [Next]_vars
               PROVE  file' = file \/ (file' = settings /\ running)
    BY DEF IInv, SavedIsSet
  <2>1. CASE Start \/ Sync \/ Stop \/ Crash
    BY <2>1 DEF Start, Sync, Stop, Crash
  <2>2. ASSUME NEW c \in Client, ReadRequest(c) \/ \E r \in Request : Send(c, r)
        PROVE  file' = file
    BY <2>2 DEF ReadRequest, Get, Set, Other, Aborts, Send
  <2>3. CASE UNCHANGED vars
    BY <2>3 DEF vars
  <2> QED
    BY <2>1, <2>2, <2>3 DEF Next
<1> QED
  BY <1>1, PropertiesdInvariant, PTL DEF Spec, SavedStays
=============================================================================
