---------------------------- MODULE LibraryProofs ----------------------------
(***************************************************************************)
(* Theorems about Library for every value of its constants.                *)
(***************************************************************************)
EXTENDS Library, TLAPS

LEMMA Tokens == None \notin Entries /\ Torn \notin Entries /\ None # Torn
BY LibraryAssumption DEF Entries

LEMMA EntriesFacts ==
  /\ {} \in Entries
  /\ \A S \in Entries : \A T \in SUBSET S : T \in Entries
  /\ \A S \in Entries, f \in File : Insert(S, f) \in Entries /\ S \ {f} \in Entries
<1>1. {} \in Entries /\ \A S \in Entries : \A T \in SUBSET S : T \in Entries
  BY DEF Entries
<1>2. ASSUME NEW S \in Entries, NEW f \in File
      PROVE  Insert(S, f) \in Entries /\ S \ {f} \in Entries
  BY DEF Entries, Insert, SameKey
<1> QED BY <1>1, <1>2

\* A text reads as entries.
LEMMA ParsedType ==
  ASSUME NEW text \in Entries \cup {None, Torn} PROVE Parsed(text) \in Entries
BY EntriesFacts DEF Parsed

-----------------------------------------------------------------------------
(* Type correctness.                                                       *)

LEMMA TypeStep == TypeOK /\ [Next]_vars => TypeOK'
<1> SUFFICES ASSUME TypeOK, [Next]_vars PROVE TypeOK'
  OBVIOUS
<1> USE DEF TypeOK
<1>1. ASSUME NEW p \in Process, Open(p) PROVE TypeOK'
  <2>1. Loaded \in Entries
    <3>1. Parsed(index) \in Entries
      BY ParsedType
    <3> QED BY <3>1, EntriesFacts DEF Loaded
  <2> QED BY <1>1, <2>1 DEF Open, disk, Step
<1>2. ASSUME NEW p \in Process, Close(p) PROVE TypeOK'
  BY <1>2, EntriesFacts DEF Close, disk, Step
<1>3. ASSUME NEW p \in Process, NEW f \in File, Add(p, f) PROVE TypeOK'
  <2>1. Insert(mem[p], f) \in Entries
    BY EntriesFacts
  <2>2. owed' \in Entries
    BY <1>3, EntriesFacts DEF Add
  <2> QED BY <1>3, <2>1, <2>2 DEF Add, disk, Step, Saving
<1>4. ASSUME NEW p \in Process, NEW f \in File, Remove(p, f) PROVE TypeOK'
  <2>1. mem[p] \ {f} \in Entries /\ owed \ {f} \in Entries
    BY EntriesFacts
  <2>2. step' \in [Process -> Step]
    BY <1>4 DEF Remove, Step, Saving
  <2>3. job' \in [Process -> File \cup {None}]
    BY <1>4 DEF Remove
  <2> QED BY <1>4, <2>1, <2>2, <2>3 DEF Remove, disk
<1>5. ASSUME NEW p \in Process, DeleteFile(p) PROVE TypeOK'
  <2>1. present' \in SUBSET File
    BY <1>5 DEF DeleteFile
  <2>2. owed' \in Entries
    BY <1>5, EntriesFacts DEF DeleteFile
  <2> QED BY <1>5, <2>1, <2>2 DEF DeleteFile, Step, Saving
<1>6. ASSUME NEW p \in Process, OpenTmp(p) PROVE TypeOK'
  BY <1>6 DEF OpenTmp, Step, Saving
<1>7. ASSUME NEW p \in Process, WriteTmp(p) PROVE TypeOK'
  <2>1. \A text : Written(text, mem[p]) \subseteq Entries \cup {None, Torn}
    BY DEF Written
  <2>2. tmp' \in Entries \cup {None, Torn} /\ index' \in Entries \cup {None, Torn}
    BY <1>7, <2>1 DEF WriteTmp
  <2> QED BY <1>7, <2>2 DEF WriteTmp, Step, Saving
<1>8. ASSUME NEW p \in Process, RenameTmp(p) PROVE TypeOK'
  <2>1. owed' \in Entries
    BY <1>8, EntriesFacts DEF RenameTmp
  <2>2. handle' \in [Process -> {"none", "tmp", "index", "gone"}]
    BY <1>8 DEF RenameTmp, Renamed
  <2> QED BY <1>8, <2>1, <2>2 DEF RenameTmp, Step
<1>9. ASSUME NEW p \in Process, SaveFails(p) PROVE TypeOK'
  BY <1>9 DEF SaveFails, Step
<1>10. ASSUME NEW p \in Process, Crash(p) PROVE TypeOK'
  BY <1>10, EntriesFacts DEF Crash, Step, disk
<1>11. ASSUME NEW f \in File, Fetch(f) \/ Vanish(f) PROVE TypeOK'
  <2>1. owed' \in Entries
    BY <1>11, EntriesFacts DEF Fetch, Vanish
  <2> QED BY <1>11, <2>1 DEF Fetch, Vanish, proc
<1>12. CASE UNCHANGED vars
  BY <1>12 DEF vars, disk, proc
<1> QED BY <1>1, <1>2, <1>3, <1>4, <1>5, <1>6, <1>7, <1>8, <1>9, <1>10, <1>11, <1>12 DEF Next

\* Every state has the declared type: no index and no session holds two
\* entries under one key.
THEOREM LibraryTypeCorrect == Spec => []TypeOK
<1>1. Init => TypeOK
  BY EntriesFacts DEF Init, TypeOK, Step
<1> QED BY <1>1, TypeStep, PTL DEF Spec

-----------------------------------------------------------------------------
(* The index stays whole as long as saves do not overlap.                  *)

\* One process at a time is in the middle of an operation.
OneBusy ==
  \A p, q \in Process :
    p # q /\ step[p] \notin {"closed", "ready"} => step[q] \in {"closed", "ready"}

\* What a process in the middle of save has done.
SaveOK(p) ==
  /\ step[p] # "write" => handle[p] = "none"
  /\ step[p] = "write" => handle[p] = "tmp" /\ tmp = Torn
  /\ step[p] = "rename" => tmp = mem[p]

IInv == OneBusy /\ IndexWhole /\ \A p \in Process : SaveOK(p)

\* A step of process p leaves the others as they are.
Others(p) ==
  \A q \in Process \ {p} :
    step'[q] = step[q] /\ mem'[q] = mem[q] /\ handle'[q] = handle[q]

LEMMA StepKeeps ==
  ASSUME IInv, NEW p \in Process, Others(p), IndexWhole', SaveOK(p)',
         \/ /\ step[p] \notin {"closed", "ready"}
         \/ /\ step'[p] \in {"closed", "ready"}
            /\ tmp' = tmp
         \/ /\ \A q \in Process : step[q] \in {"closed", "ready"}
            /\ tmp' = tmp
  PROVE  IInv'
<1>1. OneBusy'
  BY DEF IInv, OneBusy, Others
<1>2. ASSUME NEW q \in Process \ {p} PROVE SaveOK(q)'
  BY <1>2 DEF IInv, OneBusy, Others, SaveOK
<1> QED BY <1>1, <1>2 DEF IInv

LEMMA InvStep ==
  ASSUME Discipline # "free", TypeOK, IInv, [Next]_vars PROVE IInv'
<1>0. ASSUME NEW p \in Process PROVE SaveOK(p)
  BY DEF IInv
<1>1. ASSUME NEW p \in Process, Open(p) PROVE IInv'
  <2>1. Others(p) /\ step'[p] = "ready" /\ UNCHANGED <<tmp, index>> /\ handle'[p] = handle[p]
    BY <1>1 DEF Open, Others, TypeOK, disk
  <2>2. SaveOK(p)' /\ IndexWhole'
    BY <1>0, <1>1, <2>1 DEF Open, SaveOK, IInv, IndexWhole
  <2> QED BY <2>1, <2>2, StepKeeps
<1>2. ASSUME NEW p \in Process, Close(p) PROVE IInv'
  <2>1. Others(p) /\ step'[p] = "closed" /\ UNCHANGED <<tmp, index>> /\ handle'[p] = handle[p]
    BY <1>2 DEF Close, Others, TypeOK, disk
  <2>2. SaveOK(p)' /\ IndexWhole'
    BY <1>0, <1>2, <2>1 DEF Close, SaveOK, IInv, IndexWhole
  <2> QED BY <2>1, <2>2, StepKeeps
<1>3. ASSUME NEW p \in Process, NEW f \in File, Add(p, f) \/ Remove(p, f) PROVE IInv'
  <2>1. /\ Others(p) /\ step[p] = "ready" /\ step'[p] \in {"delete", "tmp"}
        /\ UNCHANGED <<tmp, index>> /\ handle'[p] = handle[p]
    BY <1>3 DEF Add, Remove, Others, TypeOK, disk
  <2>2. SaveOK(p)' /\ IndexWhole'
    BY <1>0, <2>1 DEF SaveOK, IInv, IndexWhole
  <2>3. \A q \in Process : step[q] \in {"closed", "ready"}
    BY <1>3 DEF Add, Remove, MaySave
  <2> QED BY <2>1, <2>2, <2>3, StepKeeps
<1>4. ASSUME NEW p \in Process, DeleteFile(p) PROVE IInv'
  <2>1. /\ Others(p) /\ step[p] = "delete" /\ step'[p] = "tmp"
        /\ UNCHANGED <<tmp, index>> /\ handle'[p] = handle[p]
    BY <1>4 DEF DeleteFile, Others, TypeOK
  <2>2. SaveOK(p)' /\ IndexWhole'
    BY <1>0, <2>1 DEF SaveOK, IInv, IndexWhole
  <2> QED BY <2>1, <2>2, StepKeeps
<1>5. ASSUME NEW p \in Process, OpenTmp(p) PROVE IInv'
  <2>1. /\ Others(p) /\ step[p] = "tmp" /\ step'[p] = "write" /\ handle'[p] = "tmp"
        /\ tmp' = Torn /\ index' = index
    BY <1>5 DEF OpenTmp, Others, TypeOK
  <2>2. SaveOK(p)' /\ IndexWhole'
    BY <2>1 DEF SaveOK, IInv, IndexWhole
  <2> QED BY <2>1, <2>2, StepKeeps
<1>6. ASSUME NEW p \in Process, WriteTmp(p) PROVE IInv'
  <2>1. step[p] = "write" /\ handle[p] = "tmp" /\ tmp = Torn
    BY <1>0, <1>6 DEF WriteTmp, SaveOK
  <2>2. /\ Others(p) /\ step'[p] = "rename" /\ handle'[p] = "none"
        /\ tmp' = mem[p] /\ mem' = mem /\ index' = index
    BY <1>6, <2>1 DEF WriteTmp, Written, Others, TypeOK
  <2>3. SaveOK(p)' /\ IndexWhole'
    BY <2>2 DEF SaveOK, IInv, IndexWhole
  <2> QED BY <2>1, <2>2, <2>3, StepKeeps
<1>7. ASSUME NEW p \in Process, RenameTmp(p) PROVE IInv'
  <2>1. step[p] = "rename" /\ tmp = mem[p] /\ tmp # Torn
    BY <1>0, <1>7, Tokens DEF RenameTmp, SaveOK, TypeOK
  <2>2. \A q \in Process : handle[q] = "none"
    BY <1>0, <2>1 DEF IInv, OneBusy, SaveOK
  <2>3. Others(p) /\ step'[p] = "ready" /\ handle'[p] = "none" /\ index' = tmp
    BY <1>7, <2>2 DEF RenameTmp, Renamed, Others, TypeOK
  <2>4. SaveOK(p)' /\ IndexWhole'
    BY <2>1, <2>3 DEF SaveOK, IndexWhole
  <2> QED BY <2>1, <2>3, <2>4, StepKeeps
<1>8. ASSUME NEW p \in Process, SaveFails(p) PROVE IInv'
  <2>1. step[p] \in Saving /\ handle[p] # "index"
    BY <1>0, <1>8 DEF SaveFails, SaveOK
  <2>2. Others(p) /\ step'[p] = "ready" /\ handle'[p] = "none" /\ index' = index
    BY <1>8, <2>1 DEF SaveFails, Others, TypeOK
  <2>3. SaveOK(p)' /\ IndexWhole'
    BY <2>2 DEF SaveOK, IInv, IndexWhole
  <2> QED BY <2>1, <2>2, <2>3, StepKeeps DEF Saving
<1>9. ASSUME NEW p \in Process, Crash(p) PROVE IInv'
  <2>1. /\ Others(p) /\ step'[p] = "closed" /\ handle'[p] = "none"
        /\ UNCHANGED <<tmp, index>>
    BY <1>9 DEF Crash, Others, TypeOK, disk
  <2>2. SaveOK(p)' /\ IndexWhole'
    BY <2>1 DEF SaveOK, IInv, IndexWhole
  <2> QED BY <2>1, <2>2, StepKeeps
<1>10. ASSUME UNCHANGED <<index, tmp, proc>> PROVE IInv'
  BY <1>10 DEF IInv, OneBusy, IndexWhole, SaveOK, proc
<1>11. ASSUME NEW f \in File, Fetch(f) \/ Vanish(f) PROVE IInv'
  BY <1>10, <1>11 DEF Fetch, Vanish
<1>12. CASE UNCHANGED vars
  BY <1>10, <1>12 DEF vars, disk
<1> QED BY <1>1, <1>2, <1>3, <1>4, <1>5, <1>6, <1>7, <1>8, <1>9, <1>11, <1>12 DEF Next

LEMMA InvInit == Init => IInv
BY LibraryAssumption DEF Init, IInv, OneBusy, IndexWhole, SaveOK

\* "Write-then-rename so a crash cannot truncate the index": true as long as
\* two processes do not save at the same moment, however their sessions
\* overlap and wherever they crash or fail.
THEOREM IndexStaysWhole ==
  ASSUME Discipline # "free"
  PROVE  Spec => []IndexWhole
<1>1. Spec => [](TypeOK /\ IInv)
  <2>1. Init => TypeOK /\ IInv
    BY InvInit, EntriesFacts DEF Init, TypeOK, Step
  <2>2. TypeOK /\ IInv /\ [Next]_vars => (TypeOK /\ IInv)'
    BY InvStep, TypeStep
  <2> QED BY <2>1, <2>2, PTL DEF Spec
<1>2. IInv => IndexWhole
  BY DEF IInv
<1> QED BY <1>1, <1>2, PTL

-----------------------------------------------------------------------------
(* One session at a time implements the abstract store.                    *)

\* One process has the library open, and the closed ones hold nothing.
Alone ==
  /\ \A p, q \in Process : p # q /\ step[p] # "closed" => step[q] = "closed"
  /\ \A p \in Process : step[p] = "closed" => mem[p] = {}

LEMMA AloneStep ==
  ASSUME Discipline = "exclusive", TypeOK, Alone, [Next]_vars PROVE Alone'
<1> USE DEF Alone, TypeOK
<1>1. ASSUME NEW p \in Process, Open(p) PROVE Alone'
  BY <1>1 DEF Open, MayOpen
<1>2. ASSUME NEW p \in Process, Close(p) \/ Crash(p) PROVE Alone'
  BY <1>2 DEF Close, Crash
<1>3. ASSUME NEW p \in Process, NEW f \in File, Add(p, f) PROVE Alone'
  BY <1>3 DEF Add
<1>4. ASSUME NEW p \in Process, NEW f \in File, Remove(p, f) PROVE Alone'
  BY <1>4 DEF Remove
<1>5. ASSUME NEW p \in Process, step[p] # "closed", NEW s \in Step, s # "closed",
             step' = [step EXCEPT ![p] = s], mem' = mem
      PROVE Alone'
  BY <1>5
<1>6. ASSUME NEW p \in Process,
             DeleteFile(p) \/ OpenTmp(p) \/ WriteTmp(p) \/ RenameTmp(p) \/ SaveFails(p)
      PROVE Alone'
  BY <1>5, <1>6 DEF DeleteFile, OpenTmp, WriteTmp, RenameTmp, SaveFails, Step, Saving
<1>7. ASSUME UNCHANGED proc PROVE Alone'
  BY <1>7 DEF proc
<1>8. CASE (\E f \in File : Fetch(f) \/ Vanish(f)) \/ UNCHANGED vars
  BY <1>7, <1>8 DEF Fetch, Vanish, vars
<1> QED BY <1>1, <1>2, <1>3, <1>4, <1>6, <1>8 DEF Next

\* The entries of the abstract view.
LEMMA UnionOfOne ==
  ASSUME NEW m, NEW p \in Process, \A q \in Process \ {p} : m[q] = {}
  PROVE  UNION {m[q] : q \in Process} = m[p]
OBVIOUS

LEMMA UnionOfNone ==
  ASSUME NEW m, \A q \in Process : m[q] = {}
  PROVE  UNION {m[q] : q \in Process} = {}
OBVIOUS

LEMMA StoreInit == Init => Store!SInit
BY UnionOfNone DEF Init, Store!SInit, Parsed

\* Every step of the library is a step of the store or changes nothing of it.
LEMMA StoreStep ==
  ASSUME Discipline = "exclusive", TypeOK, TypeOK', Alone, Alone', IInv, [Next]_vars
  PROVE  [Store!SNext]_(Store!svars)
<1> DEFINE Stored == Parsed(index)
           IsOpen == \E p \in Process : step[p] # "closed"
           View == UNION {mem[p] : p \in Process}
<1>a. ASSUME NEW p \in Process, step[p] # "closed" PROVE IsOpen /\ View = mem[p]
  BY <1>a, UnionOfOne DEF Alone
<1>b. ASSUME NEW p \in Process, step'[p] # "closed" PROVE IsOpen' /\ View' = mem'[p]
  <2>1. \A q \in Process \ {p} : mem'[q] = {}
    BY <1>b DEF Alone
  <2>2. UNION {mem'[q] : q \in Process} = mem'[p]
    BY <2>1, UnionOfOne
  <2> QED BY <1>b, <2>2
<1>c. ASSUME \A p \in Process : step[p] = "closed" PROVE ~IsOpen /\ View = {}
  BY <1>c, UnionOfNone DEF Alone
<1>d. ASSUME \A p \in Process : step'[p] = "closed" PROVE ~IsOpen' /\ View' = {}
  <2>1. \A q \in Process : mem'[q] = {}
    BY <1>d DEF Alone
  <2>2. UNION {mem'[q] : q \in Process} = {}
    BY <2>1, UnionOfNone
  <2> QED BY <1>d, <2>2
<1> HIDE DEF IsOpen, View
<1>1. ASSUME NEW p \in Process, Open(p) PROVE Store!Begin
  <2>1. \A q \in Process : step[q] = "closed"
    BY <1>1 DEF Open, MayOpen
  <2>2. step'[p] # "closed" /\ mem'[p] = Loaded /\ index' = index
    BY <1>1 DEF Open, TypeOK, disk
  <2>3. ~IsOpen /\ IsOpen' /\ View' = Loaded
    BY <1>b, <1>c, <2>1, <2>2
  <2>4. Loaded \in SUBSET Stored /\ Stored' = Stored
    BY <2>2 DEF Loaded
  <2> QED BY <2>3, <2>4 DEF Store!Begin, IsOpen, View
<1>2. ASSUME NEW p \in Process, Close(p) \/ Crash(p) PROVE Store!Finish
  <2>1. step[p] # "closed" /\ index' = index /\ step' = [step EXCEPT ![p] = "closed"]
    BY <1>2 DEF Close, Crash, disk
  <2>2. \A q \in Process : step'[q] = "closed"
    BY <2>1 DEF Alone, TypeOK
  <2>3. IsOpen /\ ~IsOpen' /\ View' = {}
    BY <1>a, <1>d, <2>1, <2>2
  <2> QED BY <2>1, <2>3 DEF Store!Finish, IsOpen, View
<1>3. ASSUME NEW p \in Process, step[p] # "closed", step'[p] # "closed"
      PROVE  IsOpen /\ IsOpen' /\ View = mem[p] /\ View' = mem'[p]
  BY <1>a, <1>b, <1>3
<1>4. ASSUME NEW p \in Process, NEW f \in File, Add(p, f) PROVE Store!Put(f)
  <2>1. /\ step[p] # "closed" /\ step'[p] # "closed" /\ index' = index
        /\ mem'[p] = Insert(mem[p], f)
    BY <1>4 DEF Add, TypeOK, disk
  <2>2. mem[p] \subseteq File
    BY DEF TypeOK, Entries
  <2>3. Insert(mem[p], f) =
          {g \in mem[p] : <<f, g>> \notin {pair \in File \X File : SameKey(pair[1], pair[2])}}
            \cup {f}
    BY <2>2 DEF Insert
  <2>4. IsOpen /\ IsOpen' /\ View = mem[p] /\ View' = mem'[p]
    BY <1>3, <2>1
  <2> QED BY <2>1, <2>3, <2>4 DEF Store!Put, IsOpen, View
<1>5. ASSUME NEW p \in Process, NEW f \in File, Remove(p, f) PROVE Store!Drop(f)
  <2>1. /\ step[p] # "closed" /\ step'[p] # "closed" /\ index' = index
        /\ mem'[p] = mem[p] \ {f}
    BY <1>5 DEF Remove, TypeOK, disk
  <2>2. IsOpen /\ IsOpen' /\ View = mem[p] /\ View' = mem'[p]
    BY <1>3, <2>1
  <2> QED BY <2>1, <2>2 DEF Store!Drop, IsOpen, View
<1>6. ASSUME NEW p \in Process, RenameTmp(p) PROVE Store!Commit
  <2>1. /\ step[p] = "rename" /\ step'[p] = "ready" /\ mem' = mem
        /\ index' = tmp
    BY <1>6 DEF RenameTmp, TypeOK
  <2>2. tmp = mem[p]
    BY <2>1 DEF IInv, SaveOK
  <2>3. Stored' = mem[p]
    BY <2>1, <2>2, Tokens DEF Parsed, TypeOK
  <2>4. IsOpen /\ IsOpen' /\ View = mem[p] /\ View' = mem'[p]
    BY <1>3, <2>1
  <2> QED BY <2>1, <2>3, <2>4 DEF Store!Commit, IsOpen, View
<1>7. ASSUME NEW p \in Process, step[p] # "closed", step'[p] # "closed", mem' = mem,
             index' = index
      PROVE  UNCHANGED Store!svars
  <2>1. IsOpen /\ IsOpen' /\ View = mem[p] /\ View' = mem'[p]
    BY <1>3, <1>7
  <2>2. IsOpen' = IsOpen
    BY <2>1 DEF IsOpen
  <2> QED BY <1>7, <2>1, <2>2 DEF Store!svars, IsOpen, View
<1>8. ASSUME NEW p \in Process, DeleteFile(p) \/ OpenTmp(p) \/ WriteTmp(p) \/ SaveFails(p)
      PROVE  UNCHANGED Store!svars
  <2>1. handle[p] # "index"
    BY DEF IInv, SaveOK
  <2>2. step[p] # "closed" /\ step'[p] # "closed" /\ mem' = mem /\ index' = index
    BY <1>8, <2>1 DEF DeleteFile, OpenTmp, WriteTmp, SaveFails, Saving, TypeOK
  <2> QED BY <1>7, <2>2
<1>9. ASSUME UNCHANGED <<index, proc>> PROVE UNCHANGED Store!svars
  BY <1>9 DEF Store!svars, proc
<1>10. CASE (\E f \in File : Fetch(f) \/ Vanish(f)) \/ UNCHANGED vars
  BY <1>9, <1>10 DEF Fetch, Vanish, vars, disk
<1> QED
  BY <1>1, <1>2, <1>4, <1>5, <1>6, <1>8, <1>10 DEF Next, Store!SNext

\* One session at a time sees a store whose commits are atomic: what
\* LibraryStore promises is what the temporary file and the rename deliver.
THEOREM LibraryImplementsStore ==
  ASSUME Discipline = "exclusive"
  PROVE  Spec => StoreSpec
<1> DEFINE Inv == TypeOK /\ IInv /\ Alone
<1>1. Init => Inv
  BY InvInit, EntriesFacts DEF Init, TypeOK, Step, Alone
<1>2. Inv /\ [Next]_vars => Inv'
  BY InvStep, TypeStep, AloneStep
<1>3. Inv /\ Inv' /\ [Next]_vars => [Store!SNext]_(Store!svars)
  BY StoreStep
<1> QED BY <1>1, <1>2, <1>3, StoreInit, PTL DEF Spec, StoreSpec, Store!SSpec

-----------------------------------------------------------------------------
(* What was reported stays.                                                *)

\* An owed entry is in the index and has its file, so every session loads it;
\* it stays in the entries of the session, which are what a save writes, and
\* the file that is being added is among them.
Kept ==
  /\ ReportedIsKept
  /\ \A f \in owed : Exists(f)
  /\ \A p \in Process : step[p] # "closed" => owed \subseteq mem[p]
  /\ \A p \in Process : step[p] \in Saving /\ job[p] # None => job[p] \in mem[p]

\* A step that owes no more than before and takes nothing owed away.
LEMMA KeptStep ==
  ASSUME Kept, index' = index, owed' \subseteq owed,
         \A f \in owed' : Exists(f)',
         \A p \in Process : step'[p] # "closed" => owed' \subseteq mem'[p],
         \A p \in Process : step'[p] \in Saving /\ job'[p] # None => job'[p] \in mem'[p]
  PROVE  Kept'
BY DEF Kept, ReportedIsKept, Parsed

LEMMA NextKept ==
  ASSUME TypeOK, IInv, Alone, Kept, [Next]_vars
  PROVE  Kept'
<1>0. /\ owed \subseteq File
      /\ \A f \in owed : Exists(f)
      /\ \A p \in Process : step[p] # "closed" => owed \subseteq mem[p]
      /\ \A p \in Process : step[p] \in Saving /\ job[p] # None => job[p] \in mem[p]
  BY DEF Kept, TypeOK, Entries
<1>1. ASSUME NEW p \in Process, Open(p) PROVE Kept'
  <2>1. owed \subseteq Loaded
    BY <1>0 DEF Kept, ReportedIsKept, Loaded
  <2>2. /\ UNCHANGED <<present, index, owed, job>>
        /\ step'[p] = "ready" /\ mem'[p] = Loaded
        /\ \A q \in Process \ {p} : step'[q] = step[q] /\ mem'[q] = mem[q]
    BY <1>1 DEF Open, disk, TypeOK
  <2>3. \A f \in owed' : Exists(f)'
    BY <1>0, <2>2 DEF Exists
  <2>4. \A q \in Process : step'[q] # "closed" => owed' \subseteq mem'[q]
    BY <1>0, <2>1, <2>2
  <2>5. \A q \in Process : step'[q] \in Saving /\ job'[q] # None => job'[q] \in mem'[q]
    BY <1>0, <2>2 DEF Saving
  <2> QED BY <2>2, <2>3, <2>4, <2>5, KeptStep
<1>2. ASSUME NEW p \in Process, Close(p) \/ Crash(p) PROVE Kept'
  <2>1. /\ UNCHANGED <<present, index, owed>>
        /\ step'[p] = "closed"
        /\ \A q \in Process \ {p} : step'[q] = step[q] /\ mem'[q] = mem[q] /\ job'[q] = job[q]
    BY <1>2 DEF Close, Crash, disk, TypeOK
  <2>2. \A f \in owed' : Exists(f)'
    BY <1>0, <2>1 DEF Exists
  <2> QED BY <1>0, <2>1, <2>2, KeptStep DEF Saving
<1>3. ASSUME NEW p \in Process, NEW f \in File, Add(p, f) PROVE Kept'
  <2>1. /\ UNCHANGED <<present, index>>
        /\ owed' = {g \in owed : SameKey(f, g) => g = f}
        /\ step[p] = "ready" /\ mem'[p] = Insert(mem[p], f) /\ job'[p] = f
        /\ \A q \in Process \ {p} : step'[q] = step[q] /\ mem'[q] = mem[q] /\ job'[q] = job[q]
    BY <1>3 DEF Add, disk, TypeOK
  <2>2. \A g \in owed' : Exists(g)'
    BY <1>0, <2>1 DEF Exists
  <2>3. owed' \subseteq mem'[p] /\ job'[p] \in mem'[p]
    BY <1>0, <2>1 DEF Insert
  <2>4. owed' \subseteq owed
    BY <2>1
  <2> QED BY <1>0, <2>1, <2>2, <2>3, <2>4, KeptStep
<1>4. ASSUME NEW p \in Process, NEW f \in File, Remove(p, f) PROVE Kept'
  <2>1. /\ UNCHANGED <<present, index>>
        /\ owed' = owed \ {f}
        /\ step[p] = "ready" /\ mem'[p] = mem[p] \ {f}
        /\ step'[p] = "delete" \/ (step'[p] = "tmp" /\ job'[p] = None)
        /\ \A q \in Process \ {p} : step'[q] = step[q] /\ mem'[q] = mem[q] /\ job'[q] = job[q]
    BY <1>4 DEF Remove, disk, TypeOK
  <2>2. \A g \in owed' : Exists(g)'
    BY <1>0, <2>1 DEF Exists
  <2>3. \A q \in Process : step'[q] # "closed" => owed' \subseteq mem'[q]
    BY <1>0, <2>1
  <2>4. \A q \in Process : step'[q] \in Saving /\ job'[q] # None => job'[q] \in mem'[q]
    BY <1>0, <2>1 DEF Saving
  <2> QED BY <2>1, <2>2, <2>3, <2>4, KeptStep
<1>5. ASSUME NEW p \in Process, DeleteFile(p) PROVE Kept'
  <2>1. /\ index' = index /\ mem' = mem
        /\ owed' = {f \in owed : Exists(f)'}
        /\ step[p] = "delete" /\ job'[p] = None
        /\ \A q \in Process \ {p} : step'[q] = step[q] /\ job'[q] = job[q]
    BY <1>5 DEF DeleteFile, TypeOK
  <2>2. /\ owed' \subseteq owed
        /\ \A f \in owed' : Exists(f)'
    BY <2>1
  <2> QED BY <1>0, <2>1, <2>2, KeptStep
<1>6. ASSUME NEW p \in Process, OpenTmp(p) \/ WriteTmp(p) \/ SaveFails(p) PROVE Kept'
  <2>1. handle[p] # "index"
    BY DEF IInv, SaveOK
  <2>2. /\ UNCHANGED <<present, index, mem, owed>>
        /\ step[p] \in Saving
        /\ job'[p] \in {job[p], None}
        /\ \A q \in Process \ {p} : step'[q] = step[q] /\ job'[q] = job[q]
    BY <1>6, <2>1 DEF OpenTmp, WriteTmp, SaveFails, Saving, TypeOK
  <2>3. \A f \in owed' : Exists(f)'
    BY <1>0, <2>2 DEF Exists
  <2> QED BY <1>0, <2>2, <2>3, KeptStep DEF Saving
<1>7. ASSUME NEW p \in Process, RenameTmp(p) PROVE Kept'
  <2>1. /\ step[p] = "rename" /\ step'[p] = "ready" /\ job'[p] = None
        /\ UNCHANGED <<present, mem>>
        /\ index' = tmp
        /\ owed' = IF job[p] = None THEN owed ELSE {f \in Insert(owed, job[p]) : Exists(f)}
        /\ \A q \in Process \ {p} : step'[q] = step[q] /\ job'[q] = job[q]
    BY <1>7 DEF RenameTmp, TypeOK
  <2>2. index' = mem[p] /\ mem[p] \in Entries
    BY <2>1 DEF IInv, SaveOK, TypeOK
  <2>3. owed' \subseteq mem[p]
    BY <1>0, <2>1 DEF Insert, Saving
  <2>4. ReportedIsKept'
    BY <2>2, <2>3, Tokens DEF ReportedIsKept, Parsed
  <2>5. \A f \in owed' : Exists(f)'
    BY <1>0, <2>1 DEF Exists
  <2>6. ASSUME NEW q \in Process, q # p PROVE step'[q] = "closed"
    BY <2>1, <2>6 DEF Alone
  <2> QED BY <2>1, <2>3, <2>4, <2>5, <2>6 DEF Kept, Saving
<1>8. ASSUME UNCHANGED <<index, proc>>, owed' \subseteq owed, \A f \in owed' : Exists(f)'
      PROVE  Kept'
  BY <1>0, <1>8, KeptStep DEF proc
<1>9. ASSUME NEW f \in File, Fetch(f) PROVE Kept'
  <2>1. ASSUME NEW g \in owed PROVE Exists(g)'
    <3>1. PICK h \in At(g) : h \in present
      BY <1>0 DEF Exists
    <3>2. CASE Path[g] = Path[f]
      BY <1>9, <3>2 DEF Fetch, Exists, At
    <3>3. CASE Path[g] # Path[f]
      BY <1>9, <3>1, <3>3 DEF Fetch, Exists, At
    <3> QED BY <3>2, <3>3
  <2> QED BY <1>8, <1>9, <2>1 DEF Fetch
<1>10. ASSUME NEW f \in File, Vanish(f) PROVE Kept'
  <2>1. ASSUME NEW g \in owed \ At(f) PROVE Exists(g)'
    <3>1. PICK h \in At(g) : h \in present
      BY <1>0 DEF Exists
    <3>2. Path[g] # Path[f]
      BY <1>0 DEF At
    <3> QED BY <1>10, <3>1, <3>2 DEF Vanish, Exists, At
  <2> QED BY <1>8, <1>10, <2>1 DEF Vanish
<1>11. CASE UNCHANGED vars
  BY <1>0, <1>8, <1>11 DEF vars, disk, Exists
<1> QED BY <1>1, <1>2, <1>3, <1>4, <1>5, <1>6, <1>7, <1>9, <1>10, <1>11 DEF Next

\* "The local library: what has been downloaded": while one program at a time
\* has the library open, an addition that was reported to the user outlives
\* failed saves, crashes and further sessions.
THEOREM AdditionsAreKept ==
  ASSUME Discipline = "exclusive"
  PROVE  Spec => []ReportedIsKept
<1> DEFINE Inv == TypeOK /\ IInv /\ Alone /\ Kept
<1>1. Init => Inv
  BY InvInit, EntriesFacts
     DEF Init, TypeOK, Step, Alone, Kept, ReportedIsKept, Parsed, Saving
<1>2. Inv /\ [Next]_vars => Inv'
  BY InvStep, TypeStep, AloneStep, NextKept
<1>3. Inv => ReportedIsKept
  BY DEF Kept
<1> QED BY <1>1, <1>2, <1>3, PTL DEF Spec
=============================================================================
