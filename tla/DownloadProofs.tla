--------------------------- MODULE DownloadProofs ---------------------------
(***************************************************************************)
(* Theorems about Download for every value of its constants.               *)
(***************************************************************************)
EXTENDS Download, SequenceTheorems, TLAPS

LEMMA BlockFacts ==
  /\ None \notin Block /\ Failed \notin Block /\ None # Failed /\ None \notin Attempt
  /\ \A v \in Version, i \in Nat : <<v, i>> \in Block
  /\ Hole \in Block
BY DownloadAssumption DEF Block

LEMMA WriteAtType ==
  ASSUME NEW s \in Seq(Block), NEW o \in Nat, NEW b \in Block
  PROVE  WriteAt(s, o, b) \in Seq(Block)
<1> DEFINE n == IF o < Len(s) THEN Len(s) ELSE o + 1
<1>1. n \in Nat OBVIOUS
<1>2. \A i \in 1..n : (IF i = o + 1 THEN b ELSE IF i <= Len(s) THEN s[i] ELSE Hole) \in Block
  BY BlockFacts
<1> HIDE DEF n
<1>3. [i \in 1..n |-> IF i = o + 1 THEN b ELSE IF i <= Len(s) THEN s[i] ELSE Hole] \in Seq(Block)
  BY <1>1, <1>2
<1> QED BY <1>3 DEF WriteAt, n

-----------------------------------------------------------------------------
(* Type correctness.                                                       *)

\* A call that reads its part or has a write in flight holds a handle.
HandleOK ==
  \A a \in Attempt : pc[a] = "rehash" \/ pending[a] \in Block => ino[a] \in Attempt

\* ... which it has had since it began to stream.
StreamOK ==
  \A a \in Attempt : pc[a] = "stream" => ino[a] \in Attempt

TypeInv == TypeOK /\ HandleOK /\ StreamOK

Pc == {"idle"} \cup Running \cup Ended

LEMMA ReleaseType ==
  ASSUME TypeInv, NEW a \in Attempt, Release(a)
  PROVE  /\ ino' \in [Attempt -> Attempt \cup {None}]
         /\ append' \in [Attempt -> BOOLEAN]
         /\ off' \in [Attempt -> Nat]
         /\ pending' \in [Attempt -> Block \cup {None, Failed}]
         /\ pending'[a] = None
         /\ \A b \in Attempt \ {a} : pending'[b] = pending[b] /\ ino'[b] = ino[b]
BY DEF TypeInv, TypeOK, Release

LEMMA ReturnType ==
  ASSUME TypeInv, NEW a \in Attempt, NEW why \in Pc, why \notin {"rehash", "stream"},
         Return(a, why), served' \in Version, disk' \in [Attempt -> Seq(Block)],
         part' \in Attempt \cup {None}, final' \in Attempt \cup {None}
  PROVE  TypeInv'
<1>1. /\ pc' \in [Attempt -> Pc]
      /\ already' \in [Attempt -> Nat]
      /\ version' \in [Attempt -> Version]
      /\ sent' \in [Attempt -> Nat]
      /\ downloaded' \in [Attempt -> Nat]
      /\ hash' \in [Attempt -> Seq(Block)]
      /\ cancelled' \in [Attempt -> BOOLEAN]
  BY DownloadAssumption DEF Return, TypeInv, TypeOK, Pc
<1>2. /\ ino' \in [Attempt -> Attempt \cup {None}]
      /\ append' \in [Attempt -> BOOLEAN]
      /\ off' \in [Attempt -> Nat]
      /\ pending' \in [Attempt -> Block \cup {None, Failed}]
  BY ReleaseType DEF Return, TypeInv, TypeOK, handle
<1>3. \A b \in Attempt : pending'[b] \in Block => ino'[b] = ino[b] /\ pending[b] \in Block
  BY ReleaseType, BlockFacts DEF Return, handle
<1>4. HandleOK' /\ StreamOK'
  <2>1. pc'[a] = why /\ \A b \in Attempt \ {a} : pc'[b] = pc[b]
    BY DEF Return, TypeInv, TypeOK
  <2>2. \A b \in Attempt \ {a} : ino'[b] = ino[b]
    BY ReleaseType DEF Return, handle
  <2> QED BY <1>3, <2>1, <2>2 DEF TypeInv, HandleOK, StreamOK
<1> QED BY <1>1, <1>2, <1>4 DEF TypeInv, TypeOK, Pc

THEOREM TypeInvariant == Spec => []TypeInv
<1>1. Init => TypeInv
  BY DownloadAssumption, BlockFacts DEF Init, TypeInv, TypeOK, HandleOK, StreamOK
<1>2. TypeInv /\ [Next]_vars => TypeInv'
  <2> SUFFICES ASSUME TypeInv, [Next]_vars PROVE TypeInv'
    OBVIOUS
  <2> USE DEF TypeInv, TypeOK
  <2>1. ASSUME NEW a \in Attempt, Start(a) PROVE TypeInv'
    <3>1. PartLen \in Nat
      BY DEF PartLen
    <3>2. pc' \in [Attempt -> Pc] /\ already' \in [Attempt -> Nat]
      <4>1. PICK n \in Nat : already' = [already EXCEPT ![a] = n]
        BY <2>1, <3>1 DEF Start
      <4> QED BY <2>1, <4>1 DEF Start, Pc, Running
    <3> QED BY <2>1, <3>2 DEF Start, Pc, HandleOK, StreamOK, files, handle
  <2>2. ASSUME NEW a \in Attempt, Refused(a) PROVE TypeInv'
    BY <2>2, ReturnType DEF Refused, files, Pc, Ended
  <2>3. ASSUME NEW a \in Attempt, RangeRefused(a) PROVE TypeInv'
    BY <2>3, ReturnType DEF RangeRefused, files, Pc, Ended
  <2>3a. ASSUME NEW a \in Attempt, ReadFails(a) PROVE TypeInv'
    BY <2>3a, ReturnType DEF ReadFails, files, Pc, Ended
  <2>4. ASSUME NEW a \in Attempt, NEW status \in {200, 206}, Answered(a, status) PROVE TypeInv'
    <3>1. /\ pc' \in [Attempt -> Pc]
          /\ version' \in [Attempt -> Version]
          /\ sent' \in [Attempt -> Nat]
          /\ downloaded' \in [Attempt -> Nat]
      BY <2>4 DEF Answered, Pc, Running
    <3>2. HandleOK' /\ StreamOK'
      BY <2>4 DEF Answered, HandleOK, StreamOK, handle
    <3> QED BY <2>4, <3>1, <3>2 DEF Answered, Pc, files, handle
  <2>5. ASSUME NEW a \in Attempt, OpenPart(a) PROVE TypeInv'
    <3>1. CASE part = None
      BY <2>5, <3>1, ReturnType DEF OpenPart, files, Pc, Ended
    <3>2. CASE part # None
      <4>1. pc' \in [Attempt -> Pc] /\ ino' \in [Attempt -> Attempt \cup {None}]
        BY <2>5, <3>2 DEF OpenPart, Pc, Running
      <4>2. /\ part \in Attempt /\ ino' = [ino EXCEPT ![a] = part]
            /\ pc' = [pc EXCEPT ![a] = "rehash"]
            /\ UNCHANGED pending
        BY <2>5, <3>2 DEF OpenPart, stream
      <4>3. HandleOK'
        BY <4>2 DEF HandleOK
      <4>4. StreamOK'
        BY <4>2 DEF StreamOK
      <4> QED BY <2>5, <3>2, <4>1, <4>3, <4>4 DEF OpenPart, Pc, files, stream
    <3> QED BY <3>1, <3>2
  <2>6. ASSUME NEW a \in Attempt, Rehash(a) PROVE TypeInv'
    <3>1. disk[ino[a]] \in Seq(Block) /\ hash[a] \in Seq(Block)
      BY <2>6 DEF Rehash, HandleOK
    <3>2. CASE Goto(a, "append")
      BY <3>2 DEF Goto, HandleOK, StreamOK, files, stream, handle, Running
    <3>3. CASE Len(hash[a]) + 1 <= Len(disk[ino[a]]) /\ ~Goto(a, "append")
      <4>1. disk[ino[a]][Len(hash[a]) + 1] \in Block
        <5> DEFINE s == disk[ino[a]]
                   i == Len(hash[a]) + 1
        <5>1. s \in Seq(Block) /\ i \in 1..Len(s)
          BY <3>1, <3>3
        <5> HIDE DEF s, i
        <5>2. s[i] \in Block
          BY <5>1
        <5> QED BY <5>2 DEF s, i
      <4>2. Append(hash[a], disk[ino[a]][Len(hash[a]) + 1]) \in Seq(Block)
        BY <3>1, <4>1
      <4>3. hash' \in [Attempt -> Seq(Block)]
        BY <2>6, <3>3, <4>2 DEF Rehash
      <4>4. UNCHANGED <<served, files, pc, already, version, sent, downloaded, handle, cancelled>>
        BY <2>6, <3>3 DEF Rehash
      <4> QED BY <4>3, <4>4 DEF HandleOK, StreamOK, files, handle
    <3> QED BY <2>6, <3>2, <3>3 DEF Rehash
  <2>7. ASSUME NEW a \in Attempt, OpenAppend(a) PROVE TypeInv'
    <3>1. CASE part = None
      BY <2>7, <3>1, ReturnType DEF OpenAppend, files, Pc, Ended
    <3>2. CASE part # None
      <4>1. /\ pc' \in [Attempt -> Pc]
            /\ ino' \in [Attempt -> Attempt \cup {None}]
            /\ append' \in [Attempt -> BOOLEAN]
        BY <2>7, <3>2 DEF OpenAppend, Pc, Running
      <4>2. HandleOK' /\ StreamOK'
        <5>1. /\ pc' = [pc EXCEPT ![a] = "stream"]
              /\ ino' = [ino EXCEPT ![a] = part]
              /\ pending' = pending
              /\ part \in Attempt
          BY <2>7, <3>2 DEF OpenAppend
        <5> QED BY <5>1 DEF HandleOK, StreamOK
      <4> QED BY <2>7, <3>2, <4>1, <4>2 DEF OpenAppend, Pc, files, stream
    <3> QED BY <3>1, <3>2
  <2>8. ASSUME NEW a \in Attempt, Create(a) PROVE TypeInv'
    <3>1. CASE Return(a, "Io") /\ UNCHANGED files
      BY <2>8, <3>1, ReturnType DEF Create, files, Pc, Ended
    <3>2. CASE ~(Return(a, "Io") /\ UNCHANGED files)
      <4> DEFINE i == IF part = None THEN a ELSE part
      <4>1. i \in Attempt
        OBVIOUS
      <4>2. /\ disk' = [disk EXCEPT ![i] = << >>]
            /\ part' = i
            /\ pc' = [pc EXCEPT ![a] = "stream"]
            /\ ino' = [ino EXCEPT ![a] = i]
            /\ UNCHANGED <<served, final, stream, append, off, pending, cancelled>>
        BY <2>8, <3>2 DEF Create
      <4> HIDE DEF i
      <4>3. disk' \in [Attempt -> Seq(Block)] /\ part' \in Attempt \cup {None}
        BY <4>1, <4>2
      <4>4. pc' \in [Attempt -> Pc] /\ ino' \in [Attempt -> Attempt \cup {None}]
        BY <4>1, <4>2 DEF Pc, Running
      <4>5. HandleOK' /\ StreamOK'
        BY <4>1, <4>2 DEF HandleOK, StreamOK
      <4> QED BY <4>2, <4>3, <4>4, <4>5 DEF Pc, stream
    <3> QED BY <3>1, <3>2
  <2>9. ASSUME NEW a \in Attempt, Receive(a) PROVE TypeInv'
    <3>1. <<version[a], sent[a] + 1>> \in Block
      <4>1. version[a] \in Version /\ sent[a] + 1 \in Nat
        OBVIOUS
      <4> QED BY <4>1, BlockFacts
    <3>2. Append(hash[a], <<version[a], sent[a] + 1>>) \in Seq(Block)
      BY <3>1
    <3>3. /\ hash' \in [Attempt -> Seq(Block)]
          /\ pending' \in [Attempt -> Block \cup {None, Failed}]
          /\ sent' \in [Attempt -> Nat]
          /\ downloaded' \in [Attempt -> Nat]
      BY <2>9, <3>1, <3>2 DEF Receive
    <3>4. HandleOK' /\ StreamOK'
      BY <2>9 DEF Receive, HandleOK, StreamOK
    <3> QED BY <2>9, <3>3, <3>4 DEF Receive, files
  <2>10. ASSUME NEW a \in Attempt, StreamFails(a) PROVE TypeInv'
    BY <2>10, ReturnType DEF StreamFails, files, Pc, Ended
  <2>11. ASSUME NEW a \in Attempt, ObserveCancel(a) PROVE TypeInv'
    BY <2>11 DEF ObserveCancel, Goto, HandleOK, StreamOK, files, stream, handle, Running
  <2>12. ASSUME NEW a \in Attempt, Stop(a) PROVE TypeInv'
    BY <2>12, ReturnType DEF Stop, files, Pc, Ended
  <2>13. ASSUME NEW a \in Attempt, EndOfStream(a) PROVE TypeInv'
    BY <2>13 DEF EndOfStream, Goto, HandleOK, StreamOK, files, stream, handle, Running
  <2>14. ASSUME NEW a \in Attempt, WriteFailed(a) PROVE TypeInv'
    BY <2>14, ReturnType DEF WriteFailed, files, Pc, Ended
  <2>15. ASSUME NEW a \in Attempt, Check(a) PROVE TypeInv'
    BY <2>15 DEF Check, Goto, HandleOK, StreamOK, files, stream, handle, Running
  <2>16. ASSUME NEW a \in Attempt, Discard(a) PROVE TypeInv'
    BY <2>16, ReturnType DEF Discard, Pc, Ended
  <2>17. ASSUME NEW a \in Attempt, Rename(a) PROVE TypeInv'
    BY <2>17, ReturnType DEF Rename, Pc, Ended
  <2>18. ASSUME NEW a \in Attempt, Land(a) PROVE TypeInv'
    <3>1. Landed(a) \in Seq(Block)
      <4>1. ino[a] \in Attempt /\ disk[ino[a]] \in Seq(Block) /\ pending[a] \in Block /\ off[a] \in Nat
        BY <2>18 DEF Land, HandleOK
      <4> QED BY <4>1, WriteAtType DEF Landed
    <3>2. disk' \in [Attempt -> Seq(Block)]
      BY <2>18, <3>1 DEF Land
    <3>3. CASE pc[a] \in Ended
      <4>1. Release(a) /\ UNCHANGED <<served, part, final, pc, stream, cancelled>>
        BY <2>18, <3>3 DEF Land
      <4>2. /\ ino' \in [Attempt -> Attempt \cup {None}]
            /\ append' \in [Attempt -> BOOLEAN]
            /\ off' \in [Attempt -> Nat]
            /\ pending' \in [Attempt -> Block \cup {None, Failed}]
            /\ pending'[a] = None
            /\ \A b \in Attempt \ {a} : pending'[b] = pending[b] /\ ino'[b] = ino[b]
        BY <4>1, ReleaseType
      <4>3. pc[a] \notin {"rehash", "stream"} /\ None \notin Block
        BY <3>3, BlockFacts DEF Ended
      <4>4. HandleOK'
        BY <4>1, <4>2, <4>3 DEF HandleOK
      <4>5. StreamOK'
        BY <4>1, <4>2, <4>3 DEF StreamOK
      <4> QED BY <3>2, <4>1, <4>2, <4>4, <4>5 DEF stream
    <3>4. CASE pc[a] \notin Ended
      <4>1. off' \in [Attempt -> Nat] /\ pending' \in [Attempt -> Block \cup {None, Failed}]
        <5>1. off[a] + 1 \in Nat
          OBVIOUS
        <5> QED BY <2>18, <3>4, <5>1 DEF Land
      <4>2. HandleOK' /\ StreamOK'
        BY <2>18, <3>4, BlockFacts DEF Land, HandleOK, StreamOK
      <4> QED BY <2>18, <3>2, <3>4, <4>1, <4>2 DEF Land, stream
    <3> QED BY <3>3, <3>4
  <2>19. ASSUME NEW a \in Attempt, LandFails(a) PROVE TypeInv'
    <3>1. CASE pc[a] \in Ended
      BY <2>19, <3>1, ReleaseType, BlockFacts DEF LandFails, HandleOK, StreamOK, stream, files, Ended
    <3>2. CASE pc[a] \notin Ended
      BY <2>19, <3>2, BlockFacts DEF LandFails, HandleOK, StreamOK, stream, files
    <3> QED BY <3>1, <3>2
  <2>20. ASSUME NEW a \in Attempt, Cancel(a) PROVE TypeInv'
    BY <2>20 DEF Cancel, HandleOK, StreamOK, stream, files, handle
  <2>21. ASSUME NEW p \in Process, Crash(p) PROVE TypeInv'
    <3>1. pc' \in [Attempt -> Pc]
      BY <2>21 DEF Crash, Pc, Ended
    <3>2. /\ already' \in [Attempt -> Nat]
          /\ version' \in [Attempt -> Version]
          /\ sent' \in [Attempt -> Nat]
          /\ downloaded' \in [Attempt -> Nat]
          /\ cancelled' \in [Attempt -> BOOLEAN]
      BY <2>21, DownloadAssumption DEF Crash, Lost
    <3>5. hash' \in [Attempt -> Seq(Block)]
      BY <2>21 DEF Crash, Lost
    <3>3. /\ ino' \in [Attempt -> Attempt \cup {None}]
          /\ append' \in [Attempt -> BOOLEAN]
          /\ off' \in [Attempt -> Nat]
          /\ pending' \in [Attempt -> Block \cup {None, Failed}]
      BY <2>21 DEF Crash, Lost
    <3>4. HandleOK' /\ StreamOK'
      BY <2>21, BlockFacts DEF Crash, Lost, HandleOK, StreamOK, Running
    <3> QED BY <2>21, <3>1, <3>2, <3>3, <3>4, <3>5 DEF Crash, files, Pc
  <2>22. CASE Republish
    BY <2>22 DEF Republish, HandleOK, StreamOK, stream, files, handle
  <2>23. CASE UNCHANGED vars
    BY <2>23 DEF vars, HandleOK, StreamOK, stream, files, handle
  <2> HIDE DEF TypeInv, TypeOK
  <2>24. ASSUME NEW a \in Attempt, Work(a) PROVE TypeInv'
    BY <2>24, <2>2, <2>3, <2>3a, <2>4, <2>5, <2>6, <2>7, <2>8, <2>9, <2>10, <2>11, <2>12, <2>13,
       <2>14, <2>15, <2>16, <2>17 DEF Work
  <2>25. ASSUME NEW a \in Attempt, Pool(a) PROVE TypeInv'
    BY <2>25, <2>18, <2>19 DEF Pool
  <2> QED
    BY <2>1, <2>20, <2>21, <2>22, <2>23, <2>24, <2>25 DEF Next
<1> QED BY <1>1, <1>2, PTL DEF Spec

\* Every state has the declared type.
THEOREM TypeCorrect == Spec => []TypeOK
<1>1. TypeInv => TypeOK
  BY DEF TypeInv
<1> QED BY <1>1, TypeInvariant, PTL

-----------------------------------------------------------------------------
(* The file that is kept is the published one.                             *)

Writing == {"stream", "stopping", "flush"}

\* Calls do not overlap, and no write of an earlier one is still to come.
Solo ==
  \A a, b \in Attempt :
    a # b /\ pc[a] \in Running => pc[b] \notin Running /\ pending[b] \notin Block

\* The part is not the file.
Apart == part # None => part # final

\* A call that may still create the part has not created an inode yet.
Unborn(a) == pc[a] \in {"idle", "send", "create"} => part # a /\ final # a

\* Nothing is hashed and no handle positioned before the response is known.
Pristine(a) ==
  pc[a] \in {"idle", "send", "open", "create"} =>
    hash[a] = << >> /\ append[a] = FALSE /\ off[a] = 0

\* Only a call that streams, or one that streamed and returned, has a write
\* in flight, and the write goes to the part.
Settled(a) == pc[a] \notin Writing \cup Ended => pending[a] = None
ToPart(a) == pending[a] \in Block => part # None /\ ino[a] = part

\* Re-hashing has read a prefix of the part, and in the end all of it.
Rehashing(a) ==
  /\ pc[a] = "rehash" =>
       /\ part # None
       /\ ino[a] = part
       /\ Len(hash[a]) <= Len(disk[part])
       /\ \A i \in 1..Len(hash[a]) : hash[a][i] = disk[part][i]
  /\ pc[a] = "append" => part # None /\ hash[a] = disk[part]

\* What was hashed is what is on disk, plus the write in flight.
Streaming(a) ==
  pc[a] \in Writing =>
    /\ part # None
    /\ ino[a] = part
    /\ pending[a] = None => hash[a] = disk[part]
    /\ pending[a] \in Block => hash[a] = Append(disk[part], pending[a])
    /\ append[a] = FALSE => off[a] = Len(disk[part])

\* A part is accepted for what it holds, and so is the file it becomes.
Accepted(a) == pc[a] = "rename" => part # None /\ Matches(disk[part])
FinalMatches == final # None => Matches(disk[final])

CallOK(a) ==
  /\ Unborn(a) /\ Pristine(a) /\ Settled(a) /\ ToPart(a)
  /\ Rehashing(a) /\ Streaming(a) /\ Accepted(a)

IInv == Solo /\ Apart /\ FinalMatches /\ \A a \in Attempt : CallOK(a)

LEMMA WriteAtEnd ==
  ASSUME NEW s \in Seq(Block), NEW b \in Block
  PROVE  WriteAt(s, Len(s), b) = Append(s, b)
<1> DEFINE w == WriteAt(s, Len(s), b)
           t == Append(s, b)
<1>0. Len(s) \in Nat
  OBVIOUS
<1>1. w \in Seq(Block) /\ t \in Seq(Block)
  BY <1>0, WriteAtType
<1>2. Len(w) = Len(s) + 1 /\ Len(t) = Len(s) + 1
  BY <1>0, <1>1, AppendProperties DEF WriteAt
<1>3. \A i \in 1..Len(s) + 1 : w[i] = t[i]
  BY <1>0, <1>1, AppendProperties DEF WriteAt
<1> HIDE DEF w, t
<1>4. w = t
  BY <1>1, <1>2, <1>3, SeqEqual
<1> QED BY <1>4 DEF w, t

\* What a step of call a leaves alone of the others.
Others(a) ==
  \A b \in Attempt \ {a} :
    /\ pc'[b] = pc[b] /\ hash'[b] = hash[b] /\ ino'[b] = ino[b]
    /\ append'[b] = append[b] /\ off'[b] = off[b] /\ pending'[b] = pending[b]

\* A step of the one running call preserves the invariant when it preserves
\* the parts about the two names and about the call itself.
LEMMA StepKeeps ==
  ASSUME TypeInv, IInv, NEW a \in Attempt, pc[a] \in Running, Others(a),
         \A b \in Attempt \ {a} : (part' = b => part = b) /\ (final' = b => final = b \/ part = b),
         Apart', FinalMatches', CallOK(a)'
  PROVE  IInv'
<1>1. \A b \in Attempt \ {a} : pc[b] \notin Running /\ pending[b] \notin Block
  BY DEF IInv, Solo
<1>2. Solo'
  BY <1>1 DEF Solo, Others
<1>3. ASSUME NEW b \in Attempt \ {a} PROVE CallOK(b)'
  <2>1. pc[b] \in {"idle"} \cup Ended
    BY <1>1, <1>3 DEF TypeInv, TypeOK
  <2>2. CallOK(b)
    BY <1>3 DEF IInv
  <2>3. Unborn(b)'
    BY <2>1, <2>2, <1>3 DEF Others, CallOK, Unborn, Ended
  <2>4. Pristine(b)' /\ Settled(b)' /\ ToPart(b)'
    BY <1>1, <2>1, <2>2, <1>3 DEF Others, CallOK, Pristine, Settled, ToPart
  <2>5. Rehashing(b)' /\ Streaming(b)' /\ Accepted(b)'
    BY <2>1, <1>3 DEF Others, Rehashing, Streaming, Accepted, Ended, Writing
  <2> QED BY <2>3, <2>4, <2>5 DEF CallOK
<1> QED BY <1>2, <1>3 DEF IInv

\* A call returns.
LEMMA ReturnKeeps ==
  ASSUME TypeInv, IInv, NEW a \in Attempt, pc[a] \in Running, NEW why \in Ended,
         Return(a, why), part' = part \/ (part' = None /\ pending[a] = None),
         final' = final \/ final' = part, Apart', FinalMatches'
  PROVE  IInv'
<1>1. Others(a)
  <2>1. UNCHANGED handle \/ Release(a)
    BY DEF Return
  <2> QED BY <2>1 DEF Return, Release, handle, Others, TypeInv, TypeOK
<1>2. pc'[a] = why
  BY DEF Return, TypeInv, TypeOK
<1>3. pending'[a] \in Block => pending[a] \in Block /\ ino'[a] = ino[a]
  BY BlockFacts DEF Return, Release, handle, TypeInv, TypeOK
<1>4. ToPart(a)'
  BY <1>3, BlockFacts DEF ToPart, IInv, CallOK
<1>5. CallOK(a)'
  BY <1>2, <1>4 DEF CallOK, Unborn, Pristine, Settled, Rehashing, Streaming, Accepted,
                    Writing, Ended
<1>6. None \notin Attempt
  BY DownloadAssumption
<1> QED BY <1>1, <1>5, <1>6, StepKeeps

LEMMA InitIInv == Init => IInv
BY DownloadAssumption, BlockFacts
   DEF Init, IInv, Solo, Apart, FinalMatches, CallOK, Unborn, Pristine, Settled, ToPart,
       Rehashing, Streaming, Accepted, Running, Writing, Ended

\* Every step preserves it.
LEMMA NextIInv ==
  ASSUME Discipline = "quiescent", TypeInv, IInv, [Next]_vars
  PROVE  IInv'
<1>0. ASSUME NEW a \in Attempt PROVE CallOK(a)
  BY DEF IInv
<1>1. ASSUME NEW a \in Attempt, Start(a) PROVE IInv'
  <2>1. \A b \in Attempt : pc[b] \notin Running /\ pending[b] \notin Block
    BY <1>1 DEF Start, Admitted
  <2>2. pc'[a] = "send" /\ \A b \in Attempt \ {a} : pc'[b] = pc[b]
    BY <1>1 DEF Start, TypeInv, TypeOK
  <2>3. UNCHANGED <<disk, part, final, hash, ino, append, off, pending>>
    BY <1>1 DEF Start, files, handle
  <2>4. Solo'
    BY <2>1, <2>2, <2>3 DEF Solo
  <2>5. ASSUME NEW b \in Attempt PROVE CallOK(b)'
    <3>1. CASE b = a
      <4>1. CallOK(a) /\ pc[a] = "idle"
        BY <1>1, <1>0 DEF Start
      <4> QED BY <3>1, <4>1, <2>2, <2>3 DEF CallOK, Unborn, Pristine, Settled, ToPart,
                 Rehashing, Streaming, Accepted, Writing, Ended
    <3>2. CASE b # a
      BY <1>0, <3>2, <2>2, <2>3 DEF CallOK, Unborn, Pristine, Settled, ToPart,
                 Rehashing, Streaming, Accepted
    <3> QED BY <3>1, <3>2
  <2> QED BY <2>3, <2>4, <2>5 DEF IInv, Apart, FinalMatches
<1>2. ASSUME NEW a \in Attempt, NEW why \in Ended, pc[a] \in Running,
             Return(a, why), UNCHANGED <<disk, part, final>>
      PROVE  IInv'
  <2>1. Apart' /\ FinalMatches'
    BY <1>2 DEF IInv, Apart, FinalMatches
  <2> QED BY <1>2, <2>1, ReturnKeeps
<1>3. ASSUME NEW a \in Attempt,
             \/ Refused(a) \/ RangeRefused(a) \/ ReadFails(a) \/ StreamFails(a)
             \/ Stop(a) \/ WriteFailed(a)
      PROVE  IInv'
  BY <1>2, <1>3 DEF Refused, RangeRefused, ReadFails, StreamFails, Stop, WriteFailed, files,
                    Running, Ended
<1>4. ASSUME NEW a \in Attempt, pc[a] \in Running, Others(a),
             UNCHANGED <<disk, part, final>>, CallOK(a)'
      PROVE  IInv'
  BY <1>4, StepKeeps DEF IInv, Apart, FinalMatches
<1>5. ASSUME NEW a \in Attempt, NEW status \in {200, 206}, Answered(a, status) PROVE IInv'
  <2>1. /\ pc[a] \in Running
        /\ Others(a)
        /\ pc'[a] \in {"open", "create"}
        /\ UNCHANGED <<disk, part, final, hash, ino, append, off, pending>>
    BY <1>5 DEF Answered, Running, Others, TypeInv, TypeOK, files, handle
  <2>2. pc[a] = "send" /\ CallOK(a)
    BY <1>5, <1>0 DEF Answered
  <2>3. CallOK(a)'
    BY <2>1, <2>2 DEF CallOK, Unborn, Pristine, Settled, ToPart, Rehashing, Streaming,
                      Accepted, Writing, Ended
  <2> QED BY <1>4, <2>1, <2>3
<1>6. ASSUME NEW a \in Attempt, OpenPart(a) PROVE IInv'
  <2>1. CASE part = None
    BY <1>2, <1>6, <2>1 DEF OpenPart, files, Running, Ended
  <2>2. CASE part # None
    <3>1. /\ pc[a] \in Running
          /\ Others(a)
          /\ pc'[a] = "rehash"
          /\ ino'[a] = part
          /\ UNCHANGED <<disk, part, final, hash, append, off, pending>>
      BY <1>6, <2>2 DEF OpenPart, Running, Others, TypeInv, TypeOK, files, stream
    <3>2. pc[a] = "open" /\ CallOK(a) /\ part \in Attempt
      BY <1>6, <1>0, <2>2 DEF OpenPart, TypeInv, TypeOK
    <3>3. hash[a] = << >> /\ pending[a] = None /\ Len(disk[part]) \in Nat
      BY <3>2 DEF CallOK, Pristine, Settled, Writing, Ended, TypeInv, TypeOK
    <3>4. Rehashing(a)'
      BY <2>2, <3>1, <3>3 DEF Rehashing
    <3>5. CallOK(a)'
      BY <3>1, <3>3, <3>4, BlockFacts DEF CallOK, Unborn, Pristine, Settled, ToPart,
                           Streaming, Accepted, Writing
    <3> QED BY <1>4, <3>1, <3>5
  <2> QED BY <2>1, <2>2
<1>7. ASSUME NEW a \in Attempt, Rehash(a) PROVE IInv'
  <2>1. /\ part # None /\ part \in Attempt
        /\ ino[a] = part
        /\ Len(hash[a]) <= Len(disk[part])
        /\ \A i \in 1..Len(hash[a]) : hash[a][i] = disk[part][i]
        /\ pc[a] = "rehash"
        /\ pending[a] = None
    BY <1>7, <1>0 DEF Rehash, CallOK, Rehashing, Settled, Writing, Ended, TypeInv, TypeOK
  <2>2. hash[a] \in Seq(Block) /\ disk[part] \in Seq(Block)
    BY <2>1 DEF TypeInv, TypeOK
  <2>3. /\ pc[a] \in Running
        /\ Others(a)
        /\ UNCHANGED <<disk, part, final, ino, append, off, pending>>
    BY <1>7 DEF Rehash, Goto, Running, Others, TypeInv, TypeOK, files, handle, stream
  <2>4. CASE Len(hash[a]) + 1 <= Len(disk[part])
    <3> DEFINE n == Len(hash[a]) + 1
               b == disk[part][n]
    <3>1. n \in 1..Len(disk[part]) /\ b \in Block
      BY <2>2, <2>4, ElementOfSeq
    <3>2. pc'[a] = "rehash" /\ hash'[a] = Append(hash[a], b)
      <4>1. /\ hash' = [hash EXCEPT ![a] = Append(hash[a], disk[ino[a]][Len(hash[a]) + 1])]
            /\ pc' = pc
        BY <1>7, <2>1, <2>2, <2>4 DEF Rehash, Goto
      <4> QED BY <2>1, <4>1 DEF TypeInv, TypeOK
    <3> HIDE DEF b
    <3>3. /\ Len(hash'[a]) = n
          /\ \A i \in 1..Len(hash[a]) : hash'[a][i] = hash[a][i]
          /\ hash'[a][n] = b
      BY <2>2, <3>1, <3>2, AppendProperties
    <3>4. \A i \in 1..n : hash'[a][i] = disk[part][i]
      BY <2>1, <2>2, <3>3 DEF b
    <3>5. Rehashing(a)'
      BY <2>1, <2>3, <2>4, <3>2, <3>3, <3>4 DEF Rehashing
    <3>6. CallOK(a)'
      BY <2>1, <2>3, <3>2, <3>5, BlockFacts DEF CallOK, Unborn, Pristine, Settled, ToPart,
                           Streaming, Accepted, Writing
    <3> QED BY <1>4, <2>3, <3>6
  <2>5. CASE ~(Len(hash[a]) + 1 <= Len(disk[part]))
    <3>1. pc'[a] = "append" /\ hash' = hash
      BY <1>7, <2>1, <2>5 DEF Rehash, Goto, stream, TypeInv, TypeOK
    <3>2. Len(hash[a]) = Len(disk[part])
      BY <2>1, <2>2, <2>5
    <3>3. hash[a] = disk[part]
      BY <2>1, <2>2, <3>2, SeqEqual
    <3>4. Rehashing(a)'
      BY <2>1, <2>3, <3>1, <3>3 DEF Rehashing
    <3>5. CallOK(a)'
      BY <2>1, <2>3, <3>1, <3>4, BlockFacts DEF CallOK, Unborn, Pristine, Settled, ToPart,
                           Streaming, Accepted, Writing
    <3> QED BY <1>4, <2>3, <3>5
  <2> QED BY <2>4, <2>5
<1>8. ASSUME NEW a \in Attempt, OpenAppend(a) PROVE IInv'
  <2>1. CASE part = None
    BY <1>2, <1>8, <2>1 DEF OpenAppend, files, Running, Ended
  <2>2. CASE part # None
    <3>1. /\ pc[a] \in Running
          /\ Others(a)
          /\ pc'[a] = "stream"
          /\ ino'[a] = part
          /\ append'[a] = TRUE
          /\ UNCHANGED <<disk, part, final, hash, off, pending>>
      BY <1>8, <2>2 DEF OpenAppend, Running, Others, TypeInv, TypeOK, files, stream
    <3>2. pc[a] = "append" /\ CallOK(a)
      BY <1>8, <1>0 DEF OpenAppend
    <3>3. hash[a] = disk[part] /\ pending[a] = None
      BY <3>2 DEF CallOK, Rehashing, Settled, Writing, Ended
    <3>4. Streaming(a)'
      BY <2>2, <3>1, <3>3, BlockFacts DEF Streaming
    <3>5. CallOK(a)'
      BY <3>1, <3>3, <3>4, BlockFacts DEF CallOK, Unborn, Pristine, Settled, ToPart,
                           Rehashing, Accepted, Writing
    <3> QED BY <1>4, <3>1, <3>5
  <2> QED BY <2>1, <2>2
<1>9. ASSUME NEW a \in Attempt, Create(a) PROVE IInv'
  <2>1. CASE Return(a, "Io") /\ UNCHANGED files
    BY <1>2, <1>9, <2>1 DEF Create, files, Running, Ended
  <2>2. CASE ~(Return(a, "Io") /\ UNCHANGED files)
    <3> DEFINE i == IF part = None THEN a ELSE part
    <3>1. i \in Attempt /\ i # None
      BY BlockFacts DEF TypeInv, TypeOK
    <3>2. /\ disk' = [disk EXCEPT ![i] = << >>]
          /\ part' = i
          /\ pc' = [pc EXCEPT ![a] = "stream"]
          /\ ino' = [ino EXCEPT ![a] = i]
          /\ UNCHANGED <<final, hash, append, off, pending>>
      BY <1>9, <2>2 DEF Create, stream
    <3>3. pc[a] = "create" /\ CallOK(a)
      BY <1>9, <1>0 DEF Create
    <3>4. part # a /\ final # a /\ hash[a] = << >> /\ off[a] = 0 /\ pending[a] = None
      BY <3>3 DEF CallOK, Unborn, Pristine, Settled, Writing, Ended
    <3>5. i # final
      BY <3>4 DEF IInv, Apart
    <3>6. part = None => i = a
      OBVIOUS
    <3>7. part # None => i = part
      OBVIOUS
    <3> HIDE DEF i
    <3>8. disk'[i] = << >> /\ pc'[a] = "stream" /\ ino'[a] = i
      BY <3>1, <3>2 DEF TypeInv, TypeOK
    <3>9. Streaming(a)'
      BY <3>1, <3>2, <3>4, <3>8, BlockFacts DEF Streaming
    <3>10. CallOK(a)'
      BY <3>2, <3>4, <3>8, <3>9, BlockFacts DEF CallOK, Unborn, Pristine, Settled, ToPart,
                           Rehashing, Accepted, Writing
    <3>11. pc[a] \in Running /\ Others(a)
      BY <3>2, <3>3 DEF Others, Running, TypeInv, TypeOK
    <3>12. Apart' /\ FinalMatches'
      BY <3>1, <3>2, <3>5 DEF IInv, Apart, FinalMatches, TypeInv, TypeOK
    <3>13. \A b \in Attempt \ {a} : (part' = b => part = b) /\ final' = final
      BY <3>2, <3>6, <3>7
    <3> QED BY <3>10, <3>11, <3>12, <3>13, StepKeeps
  <2> QED BY <2>1, <2>2
<1>10. ASSUME NEW a \in Attempt, Receive(a) PROVE IInv'
  <2> DEFINE b == <<version[a], sent[a] + 1>>
  <2>1. b \in Block
    <3>1. version[a] \in Version /\ sent[a] + 1 \in Nat
      BY DEF TypeInv, TypeOK
    <3> QED BY <3>1, BlockFacts
  <2>2. /\ hash' = [hash EXCEPT ![a] = Append(hash[a], b)]
        /\ pending' = [pending EXCEPT ![a] = b]
        /\ UNCHANGED <<disk, part, final, pc, ino, append, off>>
    BY <1>10 DEF Receive, files
  <2> HIDE DEF b
  <2>3. hash'[a] = Append(hash[a], b) /\ pending'[a] = b
    BY <2>2 DEF TypeInv, TypeOK
  <2>4. pc[a] = "stream" /\ pending[a] = None /\ CallOK(a)
    BY <1>10, <1>0 DEF Receive
  <2>5. /\ part # None /\ ino[a] = part /\ hash[a] = disk[part]
        /\ append[a] = FALSE => off[a] = Len(disk[part])
    BY <2>4 DEF CallOK, Streaming, Writing
  <2>6. Streaming(a)'
    BY <2>1, <2>2, <2>3, <2>5, BlockFacts DEF Streaming
  <2>7. CallOK(a)'
    BY <2>2, <2>4, <2>5, <2>6 DEF CallOK, Unborn, Pristine, Settled, ToPart, Rehashing,
                                  Accepted, Writing
  <2>8. pc[a] \in Running /\ Others(a)
    BY <2>2, <2>4 DEF Others, Running, TypeInv, TypeOK
  <2> QED BY <1>4, <2>2, <2>7, <2>8
<1>11. ASSUME NEW a \in Attempt, NEW step \in {"stopping", "flush"},
              pc[a] = "stream", Goto(a, step)
       PROVE  IInv'
  <2>1. /\ pc[a] \in Running
        /\ Others(a)
        /\ pc'[a] = step
        /\ UNCHANGED <<disk, part, final, hash, ino, append, off, pending>>
    BY <1>11 DEF Goto, Running, Others, TypeInv, TypeOK, files, handle, stream
  <2>2. CallOK(a)
    BY <1>0
  <2>3. CallOK(a)'
    BY <1>11, <2>1, <2>2 DEF CallOK, Unborn, Pristine, Settled, ToPart, Rehashing, Streaming,
                             Accepted, Writing
  <2> QED BY <1>4, <2>1, <2>3
<1>12. ASSUME NEW a \in Attempt, ObserveCancel(a) \/ EndOfStream(a) PROVE IInv'
  BY <1>11, <1>12 DEF ObserveCancel, EndOfStream
<1>13. ASSUME NEW a \in Attempt, Check(a) PROVE IInv'
  <2>1. /\ pc[a] = "flush" /\ pc[a] \in Running
        /\ pending[a] = None
        /\ CallOK(a)
        /\ Others(a)
        /\ pc'[a] = IF Matches(hash[a]) THEN "rename" ELSE "discard"
        /\ UNCHANGED <<disk, part, final, hash, ino, append, off, pending>>
    BY <1>0, <1>13 DEF Check, Goto, Running, Others, TypeInv, TypeOK, files, handle, stream
  <2>2. part # None /\ hash[a] = disk[part]
    BY <2>1 DEF CallOK, Streaming, Writing
  <2>3. Accepted(a)'
    BY <2>1, <2>2 DEF Accepted, Matches
  <2>4. CallOK(a)'
    BY <2>1, <2>3, BlockFacts DEF CallOK, Unborn, Pristine, Settled, ToPart, Rehashing,
                                  Streaming, Writing
  <2> QED BY <1>4, <2>1, <2>4
<1>14. ASSUME NEW a \in Attempt, Discard(a) PROVE IInv'
  <2>1. /\ pc[a] = "discard" /\ pc[a] \in Running /\ "ChecksumMismatch" \in Ended
        /\ Return(a, "ChecksumMismatch")
        /\ part' = part \/ part' = None
        /\ UNCHANGED <<disk, final>>
    BY <1>14 DEF Discard, Running, Ended
  <2>2. pending[a] = None
    BY <1>0, <2>1 DEF CallOK, Settled, Writing, Ended
  <2>3. Apart' /\ FinalMatches'
    BY <2>1 DEF IInv, Apart, FinalMatches
  <2> QED BY <2>1, <2>2, <2>3, ReturnKeeps
<1>15. ASSUME NEW a \in Attempt, Rename(a) PROVE IInv'
  <2>1. pc[a] = "rename" /\ pc[a] \in Running /\ UNCHANGED disk /\ CallOK(a)
    BY <1>0, <1>15 DEF Rename, Running
  <2>2. CASE Return(a, "Io") /\ UNCHANGED <<part, final>>
    BY <1>2, <2>1, <2>2 DEF Ended
  <2>3. CASE Return(a, "Ok") /\ part # None /\ final' = part /\ part' = None
    <3>1. pending[a] = None
      BY <2>1 DEF CallOK, Settled, Writing, Ended
    <3>2. Matches(disk[part])
      BY <2>1 DEF CallOK, Accepted
    <3>3. Apart' /\ FinalMatches'
      BY <2>1, <2>3, <3>2 DEF Apart, FinalMatches, Matches
    <3>4. "Ok" \in Ended
      BY DEF Ended
    <3> QED BY <2>1, <2>3, <3>1, <3>3, <3>4, ReturnKeeps
  <2> QED BY <1>15, <2>2, <2>3 DEF Rename
<1>16. ASSUME NEW a \in Attempt, Land(a) PROVE IInv'
  <2>1. /\ pending[a] \in Block /\ CallOK(a)
        /\ part # None /\ part \in Attempt /\ ino[a] = part
        /\ disk' = [disk EXCEPT ![part] = Landed(a)]
        /\ UNCHANGED <<part, final, pc, hash>>
    BY <1>0, <1>16 DEF Land, CallOK, ToPart, TypeInv, TypeOK, stream
  <2>2. Others(a)
    BY <1>16 DEF Land, Release, Others, stream, TypeInv, TypeOK
  <2>3. Apart' /\ FinalMatches'
    BY <2>1 DEF IInv, Apart, FinalMatches, TypeInv, TypeOK
  <2>4. pending'[a] = None
    BY <1>16 DEF Land, Release, TypeInv, TypeOK
  <2>5. CASE pc[a] \in Ended
    <3>1. pc[a] \notin Running
      BY <2>5 DEF Ended, Running
    <3>2. \A b \in Attempt : pc[b] \notin Running
      BY <2>1, <3>1 DEF IInv, Solo
    <3>3. Solo'
      BY <2>1, <3>2 DEF Solo
    <3>4. ASSUME NEW b \in Attempt PROVE CallOK(b)'
      <4>1. CallOK(b) /\ pc[b] \notin Running
        BY <1>0, <3>2
      <4>2. CASE b = a
        BY <4>1, <4>2, <2>1, <2>4, <2>5, BlockFacts
           DEF CallOK, Unborn, Pristine, Settled, ToPart, Rehashing, Streaming, Accepted,
               Writing, Ended, Running
      <4>3. CASE b # a
        BY <4>1, <4>3, <2>1, <2>2
           DEF Others, CallOK, Unborn, Pristine, Settled, ToPart, Rehashing, Streaming,
               Accepted, Writing, Running
      <4> QED BY <4>2, <4>3
    <3> QED BY <2>3, <3>3, <3>4 DEF IInv
  <2>6. CASE pc[a] \notin Ended
    <3>1. pc[a] \in Writing /\ pc[a] \in Running
      BY <2>1, <2>6, BlockFacts DEF CallOK, Settled, Writing, Running
    <3>2. /\ hash[a] = Append(disk[part], pending[a])
          /\ append[a] = FALSE => off[a] = Len(disk[part])
          /\ disk[part] \in Seq(Block)
      BY <2>1, <3>1 DEF CallOK, Streaming, TypeInv, TypeOK
    <3>3. Landed(a) = Append(disk[part], pending[a])
      BY <2>1, <3>2, WriteAtEnd DEF Landed, TypeInv, TypeOK
    <3>4. disk'[part] = hash'[a]
      BY <2>1, <3>2, <3>3 DEF TypeInv, TypeOK
    <3>5. Len(disk'[part]) = Len(disk[part]) + 1
      BY <2>1, <3>2, <3>4, AppendProperties
    <3>6. ino' = ino /\ append' = append /\ off'[a] = off[a] + 1
      BY <1>16, <2>6 DEF Land, TypeInv, TypeOK
    <3>7. Streaming(a)'
      BY <2>1, <2>4, <3>2, <3>4, <3>5, <3>6, BlockFacts DEF Streaming
    <3>8. CallOK(a)'
      BY <2>1, <2>4, <3>1, <3>6, <3>7, BlockFacts
         DEF CallOK, Unborn, Pristine, Settled, ToPart, Rehashing, Accepted, Writing
    <3> QED BY <2>1, <2>2, <2>3, <3>1, <3>8, StepKeeps
  <2> QED BY <2>5, <2>6
<1>17. ASSUME NEW a \in Attempt, NEW value \in {None, Failed}, pending[a] \in Block,
              pending' = [pending EXCEPT ![a] = value],
              value = Failed => pc[a] \notin Ended,
              value = None => pc[a] \in Ended,
              \A b \in Attempt \ {a} : ino'[b] = ino[b] /\ append'[b] = append[b] /\ off'[b] = off[b],
              value = Failed => UNCHANGED <<ino, append, off>>,
              UNCHANGED <<disk, part, final, pc, hash>>
       PROVE  IInv'
  <2>1. \A b \in Attempt : pending'[b] = IF b = a THEN value ELSE pending[b]
    BY <1>17 DEF TypeInv, TypeOK
  <2>2. Solo'
    BY <1>17, <2>1, BlockFacts DEF IInv, Solo
  <2>3. ASSUME NEW b \in Attempt PROVE CallOK(b)'
    <3>1. CallOK(b) /\ value \notin Block
      BY <1>0, <1>17, BlockFacts
    <3>2. CASE b # a
      BY <1>17, <2>1, <3>1, <3>2
         DEF CallOK, Unborn, Pristine, Settled, ToPart, Rehashing, Streaming, Accepted
    <3>3. CASE b = a /\ value = None
      BY <1>17, <2>1, <3>1, <3>3
         DEF CallOK, Unborn, Pristine, Settled, ToPart, Rehashing, Streaming, Accepted,
             Writing, Ended
    <3>4. CASE b = a /\ value = Failed
      BY <1>17, <2>1, <3>1, <3>4, BlockFacts
         DEF CallOK, Unborn, Pristine, Settled, ToPart, Rehashing, Streaming, Accepted,
             Writing, Ended
    <3> QED BY <1>17, <3>2, <3>3, <3>4
  <2> QED BY <1>17, <2>2, <2>3 DEF IInv, Apart, FinalMatches
<1>18. ASSUME NEW a \in Attempt, LandFails(a) PROVE IInv'
  <2>1. CASE pc[a] \in Ended
    BY <1>17, <1>18, <2>1, BlockFacts DEF LandFails, Release, files, stream, TypeInv, TypeOK
  <2>2. CASE pc[a] \notin Ended
    BY <1>17, <1>18, <2>2, BlockFacts DEF LandFails, files, stream
  <2> QED BY <2>1, <2>2
<1>19. ASSUME UNCHANGED <<files, pc, hash, handle>> PROVE IInv'
  <2>1. ASSUME NEW b \in Attempt PROVE CallOK(b)'
    BY <1>0, <1>19 DEF CallOK, Unborn, Pristine, Settled, ToPart, Rehashing, Streaming,
                       Accepted, files, handle
  <2> QED BY <1>19, <2>1 DEF IInv, Solo, Apart, FinalMatches, files, handle
<1>20. ASSUME NEW p \in Process, Crash(p) PROVE IInv'
  <2>1. UNCHANGED <<disk, part, final>>
    BY <1>20 DEF Crash, files
  <2>2. ASSUME NEW b \in Attempt, Owner[b] # p
        PROVE  /\ pc'[b] = pc[b] /\ hash'[b] = hash[b] /\ ino'[b] = ino[b]
               /\ append'[b] = append[b] /\ off'[b] = off[b] /\ pending'[b] = pending[b]
    BY <1>20, <2>2 DEF Crash, Lost
  <2>3. ASSUME NEW b \in Attempt, Owner[b] = p
        PROVE  /\ pc'[b] = IF pc[b] \in Running THEN "crashed" ELSE pc[b]
               /\ hash'[b] = << >> /\ append'[b] = FALSE /\ off'[b] = 0
               /\ pending'[b] = None
    BY <1>20, <2>3 DEF Crash, Lost
  <2>4. Solo'
    BY <2>2, <2>3, BlockFacts DEF IInv, Solo, Running
  <2>5. ASSUME NEW b \in Attempt PROVE CallOK(b)'
    <3>1. CASE Owner[b] # p
      <4>1. /\ pc'[b] = pc[b] /\ hash'[b] = hash[b] /\ ino'[b] = ino[b]
            /\ append'[b] = append[b] /\ off'[b] = off[b] /\ pending'[b] = pending[b]
        BY <2>2, <3>1
      <4>2. CallOK(b)
        BY <1>0
      <4>3. Unborn(b)' /\ Pristine(b)' /\ Settled(b)' /\ ToPart(b)'
        BY <2>1, <4>1, <4>2 DEF CallOK, Unborn, Pristine, Settled, ToPart
      <4>4. Rehashing(b)' /\ Streaming(b)' /\ Accepted(b)'
        BY <2>1, <4>1, <4>2 DEF CallOK, Rehashing, Streaming, Accepted
      <4> QED BY <4>3, <4>4 DEF CallOK
    <3>2. CASE Owner[b] = p
      <4>1. pc'[b] \in {"idle"} \cup Ended /\ (pc'[b] = "idle" => pc[b] = "idle")
        BY <2>3, <3>2 DEF Ended, TypeInv, TypeOK
      <4> QED BY <1>0, <2>1, <2>3, <3>2, <4>1, BlockFacts
              DEF CallOK, Unborn, Pristine, Settled, ToPart, Rehashing, Streaming, Accepted,
                  Writing, Ended
    <3> QED BY <3>1, <3>2
  <2> QED BY <2>1, <2>4, <2>5 DEF IInv, Apart, FinalMatches
<1>21. ASSUME NEW a \in Attempt, Cancel(a) PROVE IInv'
  BY <1>19, <1>21 DEF Cancel, stream
<1>22. CASE Republish \/ UNCHANGED vars
  BY <1>19, <1>22 DEF Republish, stream, vars
<1> QED
  BY <1>1, <1>3, <1>5, <1>6, <1>7, <1>8, <1>9, <1>10, <1>12, <1>13, <1>14, <1>15, <1>16,
     <1>18, <1>20, <1>21, <1>22
     DEF Next, Work, Pool

THEOREM Invariance ==
  ASSUME Discipline = "quiescent"
  PROVE  Spec => []IInv
<1>1. TypeInv /\ IInv /\ [Next]_vars => IInv'
  BY NextIInv
<1> QED BY <1>1, InitIInv, TypeInvariant, PTL DEF Spec

\* "An interrupted run can never leave a truncated APK": when calls do not
\* overlap and a checksum is published, what has the final name is the
\* published file, whatever fails, crashes or changes on the way.
THEOREM FinalIsWhole ==
  ASSUME Discipline = "quiescent", Checksum
  PROVE  Spec => []FinalWhole
<1>1. IInv => FinalWhole
  BY DEF IInv, FinalMatches, FinalWhole, Matches
<1> QED BY <1>1, Invariance, PTL

-----------------------------------------------------------------------------
(* What a part holds, and how much of it.                                  *)

\* The i-th block of s is the i-th block of some version.
Aligned(s) == \A i \in 1..Len(s) : \E v \in Version : s[i] = <<v, i>>

\* One write is in flight, whatever calls were left behind.
Lone ==
  \A a, b \in Attempt : pending[a] \in Block /\ pending[b] \in Block => a = b

\* The write in flight continues the part, also when its call has returned.
Aimed(a) ==
  pending[a] \in Block =>
    /\ \E v \in Version : pending[a] = <<v, Len(disk[part]) + 1>>
    /\ append[a] = FALSE => off[a] = Len(disk[part])

\* A call that resumes does so where the part ends, and while it streams its
\* counters are the length of the part and the write that is not through.
Counted(a) ==
  /\ pc[a] = "send" /\ already[a] > 0 => part # None /\ already[a] = Len(disk[part])
  /\ pc[a] \in {"open", "rehash", "append"} =>
       part # None /\ sent[a] = Len(disk[part]) /\ downloaded[a] = Len(disk[part])
  /\ pc[a] = "create" => sent[a] = 0 /\ downloaded[a] = 0
  /\ pc[a] \in Writing =>
       /\ part # None
       /\ downloaded[a] = sent[a]
       /\ pending[a] = None => sent[a] = Len(disk[part])
       /\ pending[a] # None => sent[a] = Len(disk[part]) + 1

Progress == PartAligned /\ Lone /\ \A a \in Attempt : Aimed(a) /\ Counted(a)

LEMMA AlignedAppend ==
  ASSUME NEW s \in Seq(Block), Aligned(s), NEW v \in Version, NEW b \in Block,
         b = <<v, Len(s) + 1>>
  PROVE  Aligned(Append(s, b))
<1>1. /\ Len(Append(s, b)) = Len(s) + 1
      /\ \A i \in 1..Len(s) : Append(s, b)[i] = s[i]
      /\ Append(s, b)[Len(s) + 1] = b
  BY AppendProperties
<1>2. ASSUME NEW i \in 1..Len(s) + 1
      PROVE  \E w \in Version : Append(s, b)[i] = <<w, i>>
  <2>1. CASE i \in 1..Len(s)
    BY <1>1, <2>1 DEF Aligned
  <2>2. CASE i = Len(s) + 1
    BY <1>1, <2>2
  <2> QED BY <1>2, <2>1, <2>2
<1> QED BY <1>1, <1>2 DEF Aligned

\* A step of the one running call.
LEMMA StepKeepsProgress ==
  ASSUME TypeInv, IInv, NEW a \in Attempt, pc[a] \in Running,
         \A b \in Attempt \ {a} : pc'[b] = pc[b] /\ pending'[b] = pending[b],
         PartAligned', Aimed(a)', Counted(a)'
  PROVE  Progress'
<1>1. \A b \in Attempt \ {a} : pc'[b] \notin Running /\ pending'[b] \notin Block
  BY DEF IInv, Solo
<1>2. Lone'
  BY <1>1 DEF Lone
<1>3. ASSUME NEW b \in Attempt \ {a} PROVE Aimed(b)' /\ Counted(b)'
  BY <1>1, <1>3 DEF Aimed, Counted, Running, Writing
<1> QED BY <1>2, <1>3 DEF Progress

\* A call returns: its counters are gone, the write it leaves still fits.
LEMMA ReturnKeepsProgress ==
  ASSUME TypeInv, IInv, Progress, NEW a \in Attempt, pc[a] \in Running, NEW why \in Ended,
         Return(a, why), UNCHANGED disk,
         part' = part \/ (part' = None /\ pending[a] = None)
  PROVE  Progress'
<1>1. pc'[a] = why /\ \A b \in Attempt \ {a} : pc'[b] = pc[b]
  BY DEF Return, TypeInv, TypeOK
<1>2. \A b \in Attempt \ {a} : pending'[b] = pending[b]
  BY ReleaseType DEF Return, handle
<1>3. pending'[a] \in Block => part' = part /\ UNCHANGED handle
  BY BlockFacts, ReleaseType DEF Return, handle
<1>4. Aimed(a)'
  BY <1>3 DEF Progress, Aimed, handle
<1>5. Counted(a)'
  BY <1>1 DEF Counted, Writing, Ended
<1>6. PartAligned'
  BY DEF Progress, PartAligned
<1> QED BY <1>1, <1>2, <1>4, <1>5, <1>6, StepKeepsProgress

LEMMA NextProgress ==
  ASSUME Discipline = "quiescent", TypeInv, IInv, Progress, [Next]_vars
  PROVE  Progress'
<1>0. ASSUME NEW a \in Attempt PROVE CallOK(a) /\ Aimed(a) /\ Counted(a)
  BY DEF IInv, Progress
<1>1. ASSUME NEW a \in Attempt, Start(a) PROVE Progress'
  <2>1. \A b \in Attempt : pc[b] \notin Running /\ pending[b] \notin Block
    BY <1>1 DEF Start, Admitted
  <2>2. pc'[a] = "send" /\ \A b \in Attempt \ {a} : pc'[b] = pc[b]
    BY <1>1 DEF Start, TypeInv, TypeOK
  <2>3. UNCHANGED <<disk, part, pending>>
    BY <1>1 DEF Start, files, handle
  <2>4. already'[a] \in {PartLen, 0}
    BY <1>1 DEF Start, TypeInv, TypeOK
  <2>5. Counted(a)'
    BY <2>2, <2>3, <2>4 DEF Counted, PartLen, Writing
  <2>6. ASSUME NEW b \in Attempt PROVE Aimed(b)' /\ Counted(b)'
    <3>1. CASE b = a
      BY <2>1, <2>3, <2>5, <3>1 DEF Aimed
    <3>2. CASE b # a
      BY <2>1, <2>2, <2>3, <3>2 DEF Aimed, Counted, Running, Writing
    <3> QED BY <3>1, <3>2
  <2> QED BY <2>1, <2>3, <2>6 DEF Progress, PartAligned, Lone
<1>2. ASSUME NEW a \in Attempt,
             \/ Refused(a) \/ RangeRefused(a) \/ ReadFails(a) \/ StreamFails(a)
             \/ Stop(a) \/ WriteFailed(a)
      PROVE  Progress'
  <2>1. /\ pc[a] \in Running /\ UNCHANGED <<disk, part>>
        /\ \E why \in Ended : Return(a, why)
    BY <1>2 DEF Refused, RangeRefused, ReadFails, StreamFails, Stop, WriteFailed, files,
                Running, Ended
  <2> QED BY <2>1, ReturnKeepsProgress
<1>3. ASSUME NEW a \in Attempt, pc[a] \in Running,
             \A b \in Attempt \ {a} : pc'[b] = pc[b],
             UNCHANGED <<disk, part, append, off, pending>>, Counted(a)'
      PROVE  Progress'
  <2>1. PartAligned' /\ Aimed(a)'
    BY <1>0, <1>3 DEF Progress, PartAligned, Aimed
  <2> QED BY <1>3, <2>1, StepKeepsProgress
<1>4. ASSUME NEW a \in Attempt, NEW status \in {200, 206}, Answered(a, status) PROVE Progress'
  <2>1. /\ pc[a] = "send" /\ pc[a] \in Running
        /\ status = 206 => already[a] > 0
        /\ \A b \in Attempt \ {a} : pc'[b] = pc[b]
        /\ UNCHANGED <<disk, part, append, off, pending>>
    BY <1>4 DEF Answered, Running, TypeInv, TypeOK, files, handle
  <2>2. /\ pc'[a] = IF Resuming(already[a], status) THEN "open" ELSE "create"
        /\ sent'[a] = IF status = 206 THEN already[a] ELSE 0
        /\ downloaded'[a] = IF Resuming(already[a], status) THEN already[a] ELSE 0
    BY <1>4 DEF Answered, TypeInv, TypeOK
  <2>3. already[a] > 0 => part # None /\ already[a] = Len(disk[part])
    BY <1>0, <2>1 DEF Counted
  <2>4. CASE status = 206
    <3>1. Counted(a)'
      BY <2>1, <2>2, <2>3, <2>4 DEF Counted, Resuming, Writing
    <3> QED BY <1>3, <2>1, <3>1
  <2>5. CASE status = 200
    <3>1. Counted(a)'
      BY <2>1, <2>2, <2>5 DEF Counted, Resuming, Writing
    <3> QED BY <1>3, <2>1, <3>1
  <2> QED BY <2>4, <2>5
<1>5. ASSUME NEW a \in Attempt, OpenPart(a) \/ OpenAppend(a), part = None PROVE Progress'
  <2>1. pc[a] \in Running /\ Return(a, "Io") /\ "Io" \in Ended /\ UNCHANGED <<disk, part>>
    BY <1>5 DEF OpenPart, OpenAppend, files, Running, Ended
  <2> QED BY <2>1, ReturnKeepsProgress
<1>6. ASSUME NEW a \in Attempt, OpenPart(a), part # None PROVE Progress'
  <2>1. /\ pc[a] = "open" /\ pc[a] \in Running
        /\ pc'[a] = "rehash" /\ \A b \in Attempt \ {a} : pc'[b] = pc[b]
        /\ UNCHANGED <<disk, part, append, off, pending, stream>>
    BY <1>6 DEF OpenPart, Running, TypeInv, TypeOK, files
  <2>2. Counted(a)'
    BY <1>0, <2>1 DEF Counted, Writing, stream
  <2> QED BY <1>3, <2>1, <2>2
<1>7. ASSUME NEW a \in Attempt, Rehash(a) PROVE Progress'
  <2>1. /\ pc[a] = "rehash" /\ pc[a] \in Running
        /\ pc'[a] \in {"rehash", "append"} /\ \A b \in Attempt \ {a} : pc'[b] = pc[b]
        /\ UNCHANGED <<disk, part, append, off, pending, sent, downloaded>>
    BY <1>7 DEF Rehash, Goto, Running, TypeInv, TypeOK, files, handle, stream
  <2>2. Counted(a)'
    BY <1>0, <2>1 DEF Counted, Writing
  <2> QED BY <1>3, <2>1, <2>2
<1>8. ASSUME NEW a \in Attempt, OpenAppend(a), part # None PROVE Progress'
  <2>1. /\ pc[a] = "append" /\ pc[a] \in Running
        /\ pc'[a] = "stream" /\ \A b \in Attempt \ {a} : pc'[b] = pc[b] /\ pending'[b] = pending[b]
        /\ UNCHANGED <<disk, part, pending, sent, downloaded>>
    BY <1>8 DEF OpenAppend, Running, TypeInv, TypeOK, files, stream
  <2>2. pending[a] = None
    BY <1>0, <2>1 DEF CallOK, Settled, Writing, Ended
  <2>3. Len(disk[part]) \in Nat
    BY <1>8 DEF TypeInv, TypeOK
  <2>4. Counted(a)'
    BY <1>0, <2>1, <2>2, <2>3 DEF Counted, Writing
  <2>5. PartAligned' /\ Aimed(a)'
    BY <2>1, <2>2, BlockFacts DEF Progress, PartAligned, Aimed
  <2> QED BY <2>1, <2>4, <2>5, StepKeepsProgress
<1>9. ASSUME NEW a \in Attempt, Create(a) PROVE Progress'
  <2>1. pc[a] = "create" /\ pc[a] \in Running
    BY <1>9 DEF Create, Running
  <2>2. CASE Return(a, "Io") /\ UNCHANGED files
    BY <2>1, <2>2, ReturnKeepsProgress DEF files, Ended
  <2>3. CASE ~(Return(a, "Io") /\ UNCHANGED files)
    <3> DEFINE i == IF part = None THEN a ELSE part
    <3>1. i \in Attempt /\ i # None
      BY BlockFacts DEF TypeInv, TypeOK
    <3>2. /\ disk' = [disk EXCEPT ![i] = << >>]
          /\ part' = i
          /\ pc' = [pc EXCEPT ![a] = "stream"]
          /\ UNCHANGED <<sent, downloaded, pending>>
      BY <1>9, <2>3 DEF Create, stream
    <3> HIDE DEF i
    <3>3. disk'[part'] = << >> /\ Len(disk'[part']) = 0 /\ part' # None
      BY <3>1, <3>2 DEF TypeInv, TypeOK
    <3>4. sent[a] = 0 /\ downloaded[a] = 0 /\ pending[a] = None
      BY <1>0, <2>1 DEF Counted, CallOK, Settled, Writing, Ended
    <3>5. pc'[a] = "stream" /\ \A b \in Attempt \ {a} : pc'[b] = pc[b]
      BY <3>2 DEF TypeInv, TypeOK
    <3>6. Counted(a)'
      BY <3>2, <3>3, <3>4, <3>5 DEF Counted, Writing
    <3>7. PartAligned' /\ Aimed(a)'
      BY <3>2, <3>3, <3>4, BlockFacts DEF PartAligned, Aimed
    <3> QED BY <2>1, <3>2, <3>5, <3>6, <3>7, StepKeepsProgress
  <2> QED BY <2>2, <2>3
<1>10. ASSUME NEW a \in Attempt, Receive(a) PROVE Progress'
  <2> DEFINE b == <<version[a], sent[a] + 1>>
  <2>1. /\ version[a] \in Version /\ sent[a] \in Nat /\ downloaded[a] \in Nat
    BY DEF TypeInv, TypeOK
  <2>2. b \in Block
    BY <2>1, BlockFacts
  <2>3. /\ pc[a] = "stream" /\ pending[a] = None
        /\ pending' = [pending EXCEPT ![a] = b]
        /\ sent' = [sent EXCEPT ![a] = sent[a] + 1]
        /\ downloaded' = [downloaded EXCEPT ![a] = downloaded[a] + 1]
        /\ UNCHANGED <<disk, part, pc, append, off>>
    BY <1>10 DEF Receive, files
  <2>4. /\ part # None /\ sent[a] = Len(disk[part]) /\ downloaded[a] = sent[a]
        /\ append[a] = FALSE => off[a] = Len(disk[part])
    <3>1. part # None /\ Counted(a) /\ Streaming(a)
      BY <1>0, <2>3 DEF Counted, CallOK, Writing
    <3>2. Len(disk[part]) \in Nat
      BY <3>1 DEF TypeInv, TypeOK
    <3> QED BY <2>3, <3>1, <3>2 DEF Counted, Streaming, Writing
  <2>5. /\ pending'[a] = b /\ sent'[a] = sent[a] + 1 /\ downloaded'[a] = downloaded[a] + 1
        /\ \A c \in Attempt \ {a} : pending'[c] = pending[c]
    BY <2>3 DEF TypeInv, TypeOK
  <2>6. b = <<version[a], Len(disk[part]) + 1>>
    BY <2>4
  <2> HIDE DEF b
  <2>7. Aimed(a)'
    BY <2>1, <2>3, <2>4, <2>5, <2>6 DEF Aimed
  <2>8. Counted(a)'
    BY <2>1, <2>2, <2>3, <2>4, <2>5, BlockFacts DEF Counted, Writing
  <2>9. PartAligned' /\ pc[a] \in Running
    BY <2>3 DEF Progress, PartAligned, Running
  <2> QED BY <2>3, <2>5, <2>7, <2>8, <2>9, StepKeepsProgress
<1>11. ASSUME NEW a \in Attempt, ObserveCancel(a) \/ EndOfStream(a) \/ Check(a) PROVE Progress'
  <2>1. /\ pc[a] \in Writing /\ pc[a] \in Running
        /\ pc'[a] \in {"stopping", "flush", "rename", "discard"}
        /\ \A b \in Attempt \ {a} : pc'[b] = pc[b]
        /\ UNCHANGED <<disk, part, append, off, pending, sent, downloaded>>
    BY <1>11 DEF ObserveCancel, EndOfStream, Check, Goto, Writing, Running, TypeInv, TypeOK,
                 files, handle, stream
  <2>2. Counted(a)'
    BY <1>0, <2>1 DEF Counted, Writing
  <2> QED BY <1>3, <2>1, <2>2
<1>12. ASSUME NEW a \in Attempt, Discard(a) PROVE Progress'
  <2>1. /\ pc[a] = "discard" /\ pc[a] \in Running /\ "ChecksumMismatch" \in Ended
        /\ Return(a, "ChecksumMismatch")
        /\ part' = part \/ part' = None
        /\ UNCHANGED disk
    BY <1>12 DEF Discard, Running, Ended
  <2>2. pending[a] = None
    BY <1>0, <2>1 DEF CallOK, Settled, Writing, Ended
  <2> QED BY <2>1, <2>2, ReturnKeepsProgress
<1>13. ASSUME NEW a \in Attempt, Rename(a) PROVE Progress'
  <2>1. /\ pc[a] = "rename" /\ pc[a] \in Running
        /\ \E why \in Ended : Return(a, why)
        /\ part' = part \/ part' = None
        /\ UNCHANGED disk
    BY <1>13 DEF Rename, Running, Ended
  <2>2. pending[a] = None
    BY <1>0, <2>1 DEF CallOK, Settled, Writing, Ended
  <2> QED BY <2>1, <2>2, ReturnKeepsProgress
<1>14. ASSUME NEW a \in Attempt, Land(a) PROVE Progress'
  <2>1. /\ pending[a] \in Block /\ CallOK(a)
        /\ part # None /\ part \in Attempt /\ ino[a] = part
        /\ disk[part] \in Seq(Block)
        /\ disk' = [disk EXCEPT ![part] = Landed(a)]
        /\ UNCHANGED <<part, pc, sent, downloaded>>
    BY <1>0, <1>14 DEF Land, CallOK, ToPart, TypeInv, TypeOK, stream
  <2>2. PICK v \in Version : pending[a] = <<v, Len(disk[part]) + 1>>
    BY <1>0, <2>1 DEF Aimed
  <2>3. Landed(a) = Append(disk[part], pending[a])
    BY <1>0, <2>1, WriteAtEnd DEF Landed, Aimed, TypeInv, TypeOK
  <2>4. disk'[part] = Append(disk[part], pending[a])
    BY <2>1, <2>3 DEF TypeInv, TypeOK
  <2>5. Aligned(disk[part])
    BY <2>1 DEF Progress, PartAligned, Aligned
  <2>6. Aligned(disk'[part])
    BY <2>1, <2>2, <2>4, <2>5, AlignedAppend
  <2>7. PartAligned'
    BY <2>1, <2>6 DEF PartAligned, Aligned
  <2>8. pending'[a] = None /\ \A b \in Attempt \ {a} : pending'[b] = pending[b]
    BY <1>14 DEF Land, Release, TypeInv, TypeOK
  <2>9. \A b \in Attempt : pending'[b] \notin Block
    BY <2>1, <2>8, BlockFacts DEF Progress, Lone
  <2>10. ASSUME NEW b \in Attempt PROVE Counted(b)'
    <3>1. CASE b # a
      <4>1. pc[b] \notin Running
        BY <2>1, <3>1 DEF IInv, Solo
      <4> QED BY <2>1, <4>1 DEF Counted, Running, Writing
    <3>2. CASE b = a
      <4>1. pc[a] \in Writing \cup Ended
        BY <2>1, BlockFacts DEF CallOK, Settled
      <4>2. CASE pc[a] \in Ended
        BY <2>1, <3>2, <4>2 DEF Counted, Writing, Ended
      <4>3. CASE pc[a] \in Writing
        <5>1. sent[a] = Len(disk[part]) + 1 /\ downloaded[a] = sent[a]
          BY <1>0, <2>1, <4>3, BlockFacts DEF Counted
        <5>2. Len(disk'[part]) = Len(disk[part]) + 1 /\ Len(disk[part]) \in Nat
          BY <2>1, <2>4, AppendProperties
        <5> QED BY <2>1, <2>8, <3>2, <4>3, <5>1, <5>2 DEF Counted, Writing
      <4> QED BY <4>1, <4>2, <4>3
    <3> QED BY <3>1, <3>2
  <2> QED BY <2>7, <2>9, <2>10 DEF Progress, Lone, Aimed
<1>15. ASSUME NEW a \in Attempt, LandFails(a) PROVE Progress'
  <2>1. /\ pending[a] \in Block
        /\ UNCHANGED <<disk, part, pc, already, sent, downloaded>>
    BY <1>15 DEF LandFails, files, stream
  <2>2. /\ \A b \in Attempt \ {a} : pending'[b] = pending[b]
        /\ pending'[a] = IF pc[a] \in Ended THEN None ELSE Failed
    BY <1>15 DEF LandFails, Release, TypeInv, TypeOK
  <2>3. \A b \in Attempt : pending'[b] \notin Block
    BY <2>1, <2>2, BlockFacts DEF Progress, Lone
  <2>4. ASSUME NEW b \in Attempt PROVE Counted(b)'
    <3>1. CASE b # a \/ pc[b] \in Ended
      BY <1>0, <2>1, <2>2, <3>1 DEF Counted, Writing, Ended
    <3>2. CASE b = a /\ pc[b] \notin Ended
      BY <1>0, <2>1, <2>2, <3>2, BlockFacts DEF Counted
    <3> QED BY <3>1, <3>2
  <2> QED BY <2>1, <2>3, <2>4 DEF Progress, PartAligned, Lone, Aimed
<1>16. ASSUME UNCHANGED <<files, pc, stream, handle>> PROVE Progress'
  <2>1. ASSUME NEW b \in Attempt PROVE Aimed(b)' /\ Counted(b)'
    BY <1>0, <1>16 DEF Aimed, Counted, files, stream, handle
  <2> QED BY <1>16, <2>1 DEF Progress, PartAligned, Lone, files, handle
<1>17. ASSUME NEW p \in Process, Crash(p) PROVE Progress'
  <2>1. UNCHANGED <<disk, part>>
    BY <1>17 DEF Crash, files
  <2>2. ASSUME NEW b \in Attempt, Owner[b] # p
        PROVE  /\ pc'[b] = pc[b] /\ already'[b] = already[b] /\ sent'[b] = sent[b]
               /\ downloaded'[b] = downloaded[b] /\ append'[b] = append[b]
               /\ off'[b] = off[b] /\ pending'[b] = pending[b]
    BY <1>17, <2>2 DEF Crash, Lost
  <2>3. ASSUME NEW b \in Attempt, Owner[b] = p
        PROVE  pc'[b] \notin Running /\ pending'[b] = None
    BY <1>17, <2>3 DEF Crash, Lost, Running
  <2>4. ASSUME NEW b \in Attempt PROVE Aimed(b)' /\ Counted(b)'
    <3>1. CASE Owner[b] # p
      BY <1>0, <2>1, <2>2, <3>1 DEF Aimed, Counted
    <3>2. CASE Owner[b] = p
      BY <2>3, <3>2, BlockFacts DEF Aimed, Counted, Running, Writing
    <3> QED BY <3>1, <3>2
  <2>5. Lone'
    BY <2>2, <2>3, BlockFacts DEF Progress, Lone
  <2> QED BY <2>1, <2>4, <2>5 DEF Progress, PartAligned
<1>18. ASSUME NEW a \in Attempt, Cancel(a) PROVE Progress'
  BY <1>16, <1>18 DEF Cancel
<1>19. CASE Republish \/ UNCHANGED vars
  BY <1>16, <1>19 DEF Republish, vars
<1> QED
  BY <1>1, <1>2, <1>4, <1>5, <1>6, <1>7, <1>8, <1>9, <1>10, <1>11, <1>12, <1>13, <1>14,
     <1>15, <1>17, <1>18, <1>19
     DEF Next, Work, Pool

\* What a part holds lies where it belongs, and the counters of a call say how
\* much that is.
THEOREM ProgressInvariance ==
  ASSUME Discipline = "quiescent"
  PROVE  Spec => []Progress
<1>1. Init => Progress
  BY DownloadAssumption, BlockFacts
     DEF Init, Progress, PartAligned, Lone, Aimed, Counted, Writing
<1>2. TypeInv /\ IInv /\ Progress /\ [Next]_vars => Progress'
  BY NextProgress
<1> QED BY <1>1, <1>2, Invariance, TypeInvariant, PTL DEF Spec

\* Resuming never misplaces a byte: the i-th block of a part is the i-th block
\* of some version, also when a late write or a restart came in between.
THEOREM PartIsAligned ==
  ASSUME Discipline = "quiescent"
  PROVE  Spec => []PartAligned
<1>1. Progress => PartAligned
  BY DEF Progress
<1> QED BY <1>1, ProgressInvariance, PTL

\* What was reported as downloaded is in the part, but for one write.
THEOREM OneWriteBehind ==
  ASSUME Discipline = "quiescent"
  PROVE  Spec => []AtMostOneWriteBehind
<1>1. TypeInv /\ Progress => AtMostOneWriteBehind
  <2> SUFFICES ASSUME TypeInv, Progress, NEW a \in Attempt, pc[a] \in Writing
               PROVE  part # None /\ downloaded[a] <= Len(disk[part]) + 1
    BY DEF AtMostOneWriteBehind, Writing
  <2>1. part # None /\ Counted(a)
    BY DEF Progress, Counted
  <2>2. Len(disk[part]) \in Nat
    BY <2>1 DEF TypeInv, TypeOK
  <2> QED BY <2>1, <2>2 DEF Counted
<1> QED BY <1>1, ProgressInvariance, TypeInvariant, PTL

\* Err(Cancelled) follows the flush: the part that is left is as long as the
\* progress the user saw.
THEOREM CancelLosesNothing ==
  ASSUME Discipline = "quiescent"
  PROVE  Spec => CancelKeepsProgress
<1>1. ASSUME TypeInv, Progress, [Next]_vars, NEW a \in Attempt,
             pc'[a] = "Cancelled", pc[a] # "Cancelled"
      PROVE  part' # None /\ Len(disk'[part']) = downloaded[a]
  <2>1. Stop(a)
    <3>1. ASSUME NEW b \in Attempt, NEW why, pc' = [pc EXCEPT ![b] = why], why # "Cancelled"
          PROVE  FALSE
      BY <1>1, <3>1 DEF TypeInv, TypeOK
    <3>2. ASSUME NEW b \in Attempt, NEW why, Return(b, why), why # "Cancelled" PROVE FALSE
      BY <3>1, <3>2 DEF Return
    <3>3. ASSUME NEW b \in Attempt, NEW why, Goto(b, why), why # "Cancelled" PROVE FALSE
      BY <3>1, <3>3 DEF Goto
    <3>4. pc' # pc
      BY <1>1
    <3>5. ASSUME NEW b \in Attempt, Work(b) PROVE Stop(b)
      <4>1. ~Refused(b) /\ ~RangeRefused(b) /\ ~ReadFails(b) /\ ~StreamFails(b)
            /\ ~WriteFailed(b) /\ ~Discard(b) /\ ~Rename(b)
        BY <3>2 DEF Refused, RangeRefused, ReadFails, StreamFails, WriteFailed, Discard, Rename
      <4>2. ~Check(b) /\ ~EndOfStream(b) /\ ~ObserveCancel(b)
        BY <3>3 DEF Check, EndOfStream, ObserveCancel
      <4>3. \A status \in {200, 206} : ~Answered(b, status)
        BY <3>1 DEF Answered
      <4>4. ~OpenPart(b) /\ ~OpenAppend(b) /\ ~Create(b)
        BY <3>1, <3>2 DEF OpenPart, OpenAppend, Create
      <4>5. ~Rehash(b) /\ ~Receive(b)
        BY <3>3, <3>4 DEF Rehash, Receive
      <4> QED BY <3>5, <4>1, <4>2, <4>3, <4>4, <4>5 DEF Work
    <3>6. ASSUME NEW b \in Attempt, Stop(b) PROVE b = a
      BY <1>1, <3>6 DEF Stop, Return, TypeInv, TypeOK
    <3>7. ASSUME NEW b \in Attempt, Start(b) PROVE FALSE
      BY <3>1, <3>7 DEF Start
    <3>8. ASSUME NEW b \in Attempt, Pool(b) \/ Cancel(b) PROVE FALSE
      BY <3>4, <3>8 DEF Pool, Land, LandFails, Cancel
    <3>9. ASSUME NEW p \in Process, Crash(p) PROVE FALSE
      BY <1>1, <3>9 DEF Crash
    <3>10. ~Republish /\ ~UNCHANGED vars
      BY <3>4 DEF Republish, vars
    <3> QED BY <1>1, <3>5, <3>6, <3>7, <3>8, <3>9, <3>10 DEF Next
  <2>2. pc[a] = "stopping" /\ pending[a] = None /\ UNCHANGED <<disk, part>>
    BY <2>1 DEF Stop, files
  <2>3. Counted(a)
    BY <1>1 DEF Progress
  <2>4. /\ part # None
        /\ downloaded[a] = sent[a]
        /\ sent[a] = Len(disk[part])
    BY <2>2, <2>3 DEF Counted, Writing
  <2> QED BY <2>2, <2>4
<1>2. TypeInv /\ Progress /\ [Next]_vars =>
        [\A a \in Attempt :
           pc'[a] = "Cancelled" /\ pc[a] # "Cancelled" =>
             part' # None /\ Len(disk'[part']) = downloaded[a]]_vars
  BY <1>1
<1> QED BY <1>2, ProgressInvariance, TypeInvariant, PTL DEF Spec, CancelKeepsProgress

-----------------------------------------------------------------------------
(* The two names seen from outside.                                        *)

\* Only four steps have to do with the files.
LEMMA TouchesFiles ==
  ASSUME [Next]_vars
  PROVE  \/ UNCHANGED files
         \/ \E a \in Attempt : Create(a) \/ Discard(a) \/ Rename(a) \/ Land(a)
<1>1. ASSUME NEW a \in Attempt, Work(a), ~Create(a), ~Discard(a), ~Rename(a)
      PROVE  UNCHANGED files
  <2>1. ASSUME Refused(a) \/ RangeRefused(a) \/ \E status \in {200, 206} : Answered(a, status)
        PROVE  UNCHANGED files
    BY <2>1 DEF Refused, RangeRefused, Answered
  <2>2. ASSUME OpenPart(a) \/ Rehash(a) \/ ReadFails(a) \/ OpenAppend(a)
        PROVE  UNCHANGED files
    BY <2>2 DEF OpenPart, Rehash, Goto, ReadFails, OpenAppend
  <2>3. ASSUME Receive(a) \/ StreamFails(a) \/ ObserveCancel(a) \/ Stop(a)
        PROVE  UNCHANGED files
    BY <2>3 DEF Receive, StreamFails, ObserveCancel, Goto, Stop
  <2>4. ASSUME EndOfStream(a) \/ WriteFailed(a) \/ Check(a)
        PROVE  UNCHANGED files
    BY <2>4 DEF EndOfStream, WriteFailed, Check, Goto
  <2> QED BY <1>1, <2>1, <2>2, <2>3, <2>4 DEF Work
<1>2. ASSUME NEW a \in Attempt, Start(a) \/ LandFails(a) \/ Cancel(a) PROVE UNCHANGED files
  BY <1>2 DEF Start, LandFails, Cancel
<1>3. ASSUME NEW p \in Process, Crash(p) PROVE UNCHANGED files
  BY <1>3 DEF Crash
<1>4. CASE Republish \/ UNCHANGED vars
  BY <1>4 DEF Republish, vars
<1> QED BY <1>1, <1>2, <1>3, <1>4 DEF Next, Pool

\* Nothing is written through a handle that was opened under another name.
LEMMA FinalStep ==
  ASSUME TypeInv, IInv, [Next]_vars, final # None
  PROVE  disk'[final] = disk[final]
<1>0. final \in Attempt
  BY DEF TypeInv, TypeOK
<1>1. ASSUME NEW a \in Attempt, Create(a) PROVE disk'[final] = disk[final]
  <2>1. pc[a] = "create" /\ Unborn(a) /\ Apart
    BY <1>1 DEF Create, IInv, CallOK
  <2>2. final # (IF part = None THEN a ELSE part)
    BY <2>1 DEF Unborn, Apart
  <2> QED BY <1>0, <1>1, <2>2 DEF Create, files, TypeInv, TypeOK
<1>2. ASSUME NEW a \in Attempt, Land(a) PROVE disk'[final] = disk[final]
  <2>1. ino[a] = part /\ part # None /\ part # final
    BY <1>2 DEF Land, IInv, CallOK, ToPart, Apart
  <2> QED BY <1>0, <1>2, <2>1 DEF Land, TypeInv, TypeOK
<1>3. ASSUME NEW a \in Attempt, Discard(a) \/ Rename(a) PROVE disk' = disk
  BY <1>3 DEF Discard, Rename
<1> QED BY <1>1, <1>2, <1>3, TouchesFiles DEF files

\* Once a file has its final name its content stays, whoever still has a handle
\* to it: the rename comes after the flush.
THEOREM FinalStays ==
  ASSUME Discipline = "quiescent"
  PROVE  Spec => FinalUntouched
<1>1. TypeInv /\ IInv /\ [Next]_vars =>
        [final # None => disk'[final] = disk[final]]_vars
  BY FinalStep
<1> QED BY <1>1, Invariance, TypeInvariant, PTL DEF Spec, FinalUntouched

LEMMA PartFileInit == Init => File!FInit
BY DEF Init, File!FInit, Content

\* Each of the four is the step of PartFile that its name says.
LEMMA PartFileStep ==
  ASSUME TypeInv, TypeInv', IInv, Progress, [Next]_vars
  PROVE  [File!FNext]_(File!fvars)
<1>0. /\ part \in Attempt \cup {None} /\ final \in Attempt \cup {None}
      /\ disk \in [Attempt -> Seq(Block)]
      /\ Apart /\ \A a \in Attempt : CallOK(a)
  BY DEF TypeInv, TypeOK, IInv
<1>1. ASSUME UNCHANGED files PROVE UNCHANGED File!fvars
  BY <1>1 DEF files, File!fvars, Content
<1>2. ASSUME NEW a \in Attempt, Create(a) PROVE File!Begin \/ UNCHANGED File!fvars
  <2>1. CASE UNCHANGED files
    BY <1>1, <2>1
  <2>2. CASE ~UNCHANGED files
    <3> DEFINE i == IF part = None THEN a ELSE part
    <3>1. pc[a] = "create" /\ Unborn(a)
      BY <1>0, <1>2 DEF Create, CallOK
    <3>2. i \in Attempt /\ i # None /\ i # final
      BY <1>0, <3>1, BlockFacts DEF Unborn, Apart
    <3>3. disk' = [disk EXCEPT ![i] = << >>] /\ part' = i /\ final' = final
      BY <1>2, <2>2 DEF Create
    <3> HIDE DEF i
    <3>4. Content(part)' = {<< >>}
      BY <1>0, <3>2, <3>3 DEF Content
    <3>5. Content(final)' = Content(final)
      BY <1>0, <3>2, <3>3 DEF Content
    <3> QED BY <3>4, <3>5 DEF File!Begin
  <2> QED BY <2>1, <2>2
<1>3. ASSUME NEW a \in Attempt, Discard(a) PROVE File!GiveUp \/ UNCHANGED File!fvars
  <2>1. part' \in {part, None} /\ disk' = disk /\ final' = final
    BY <1>3 DEF Discard
  <2> QED BY <2>1 DEF Content, File!GiveUp, File!fvars
<1>4. ASSUME NEW a \in Attempt, Rename(a) PROVE File!Publish \/ UNCHANGED File!fvars
  <2>1. CASE UNCHANGED <<part, final>>
    BY <1>1, <1>4, <2>1 DEF Rename, files
  <2>2. CASE ~UNCHANGED <<part, final>>
    <3>1. part # None /\ final' = part /\ part' = None /\ disk' = disk /\ pc[a] = "rename"
      BY <1>4, <2>2 DEF Rename
    <3>2. disk[part] \in Seq(Block) /\ Matches(disk[part])
      BY <1>0, <3>1 DEF CallOK, Accepted
    <3>3. disk[part] \in IF Checksum THEN {Body(Published)} ELSE Seq(Block)
      BY <3>2, DownloadAssumption DEF Matches
    <3>4. /\ Content(part) = {disk[part]} /\ Content(part)' = {}
          /\ Content(final)' = {disk[part]}
      BY <3>1 DEF Content
    <3> QED BY <3>3, <3>4 DEF File!Publish
  <2> QED BY <2>1, <2>2
<1>5. ASSUME NEW a \in Attempt, Land(a) PROVE \E v \in Version : File!Extend(v)
  <2>1. /\ part # None /\ ino[a] = part /\ pending[a] \in Block
        /\ disk' = [disk EXCEPT ![part] = Landed(a)]
        /\ UNCHANGED <<part, final>>
    BY <1>0, <1>5 DEF Land, CallOK, ToPart
  <2>2. /\ append[a] = FALSE => off[a] = Len(disk[part])
        /\ \E v \in Version : pending[a] = <<v, Len(disk[part]) + 1>>
    BY <2>1 DEF Progress, Aimed
  <2>3. PICK v \in Version : pending[a] = <<v, Len(disk[part]) + 1>>
    BY <2>2
  <2>4. disk[part] \in Seq(Block) /\ append[a] \in BOOLEAN
    BY <1>0, <2>1 DEF TypeInv, TypeOK
  <2>5. Landed(a) = Append(disk[part], pending[a])
    BY <2>1, <2>2, <2>4, WriteAtEnd DEF Landed
  <2>6. /\ Content(part) = {disk[part]}
        /\ Content(part)' = {Append(disk[part], pending[a])}
    BY <1>0, <2>1, <2>5 DEF Content
  <2>7. Content(final)' = Content(final)
    BY <1>0, <2>1 DEF Content, Apart
  <2>8. File!Extend(v)
    BY <2>3, <2>6, <2>7 DEF File!Extend
  <2> QED BY <2>8
<1> QED BY <1>1, <1>2, <1>3, <1>4, <1>5, TouchesFiles DEF File!FNext

\* What the user sees under the two names is one file that is completed block by
\* block and kept in one step, whatever faults, crashes and restarts there are.
THEOREM DownloadImplementsPartFile ==
  ASSUME Discipline = "quiescent"
  PROVE  Spec => PartFileSpec
<1>1. TypeInv /\ TypeInv' /\ IInv /\ Progress /\ [Next]_vars => [File!FNext]_(File!fvars)
  BY PartFileStep
<1> QED
  BY <1>1, PartFileInit, Invariance, TypeInvariant, ProgressInvariance, PTL
     DEF Spec, PartFileSpec, File!FSpec

-----------------------------------------------------------------------------
(* Files without a checksum.                                               *)

\* As long as some version, and every block at its place.
Complete(s) == Aligned(s) /\ \E v \in Version : Len(s) = Size[v]

\* A response is not longer than its version, and when its end cannot go
\* unnoticed, a call that is past it has had all of it.
Measured(a) ==
  /\ pc[a] = "send" \/ (pc[a] \in Running => sent[a] <= Size[version[a]])
  /\ pc[a] = "flush" => sent[a] = Size[version[a]]
  /\ pc[a] = "rename" => part # None /\ \E v \in Version : Len(disk[part]) = Size[v]

FinalComplete == final # None => Complete(disk[final])

AllMeasured == FinalComplete /\ \A a \in Attempt : Measured(a)

\* Another call's steps leave a running call's counters and part alone.
LEMMA OthersMeasured ==
  ASSUME Discipline = "quiescent", TypeInv, IInv, Next, NEW b \in Attempt,
         Measured(b), pc'[b] \in Running,
         ~Work(b), ~Start(b), ~Pool(b)
  PROVE  Measured(b)'
<1>1. ASSUME UNCHANGED <<disk, part, pc, version, sent>> PROVE Measured(b)'
  BY <1>1 DEF Measured
<1>2. ASSUME NEW a \in Attempt, a # b, Start(a) PROVE FALSE
  <2>1. pc[b] \notin Running /\ pc'[b] = pc[b]
    BY <1>2 DEF Start, Admitted, TypeInv, TypeOK
  <2> QED BY <2>1
<1>3. ASSUME NEW a \in Attempt, a # b, Pool(a) PROVE FALSE
  <2>1. pending[a] \in Block /\ pc' = pc
    BY <1>3 DEF Pool, Land, LandFails
  <2> QED BY <1>3, <2>1 DEF IInv, Solo
<1>4. ASSUME NEW a \in Attempt, a # b, Work(a) PROVE FALSE
  <2>1. pc[a] \in Running
    BY <1>4 DEF Work, Refused, RangeRefused, Answered, OpenPart, Rehash, ReadFails,
                OpenAppend, Create, Receive, StreamFails, ObserveCancel, Stop, EndOfStream,
                WriteFailed, Check, Discard, Rename, Running
  <2>2. pc[b] \notin Running
    BY <1>4, <2>1 DEF IInv, Solo
  <2>3. \E why : pc' = [pc EXCEPT ![a] = why]
    <3>1. ASSUME Refused(a) \/ RangeRefused(a) \/ ReadFails(a) \/ StreamFails(a)
                 \/ Stop(a) \/ WriteFailed(a) \/ Discard(a) \/ Rename(a)
          PROVE  \E why : pc' = [pc EXCEPT ![a] = why]
      BY <3>1 DEF Refused, RangeRefused, ReadFails, StreamFails, Stop, WriteFailed, Discard,
                  Rename, Return
    <3>2. ASSUME ObserveCancel(a) \/ EndOfStream(a) \/ Check(a)
          PROVE  \E why : pc' = [pc EXCEPT ![a] = why]
      BY <3>2 DEF ObserveCancel, EndOfStream, Check, Goto
    <3>3. ASSUME (\E status \in {200, 206} : Answered(a, status))
                 \/ OpenPart(a) \/ OpenAppend(a) \/ Create(a)
          PROVE  \E why : pc' = [pc EXCEPT ![a] = why]
      BY <3>3 DEF Answered, OpenPart, OpenAppend, Create, Return
    <3>4. ASSUME Rehash(a) \/ Receive(a)
          PROVE  \E why : pc' = [pc EXCEPT ![a] = why]
      <4>1. pc = [pc EXCEPT ![a] = pc[a]]
        BY DEF TypeInv, TypeOK
      <4> QED BY <3>4, <4>1 DEF Rehash, Receive, Goto
    <3> QED BY <1>4, <3>1, <3>2, <3>3, <3>4 DEF Work
  <2>4. pc'[b] = pc[b]
    BY <1>4, <2>3 DEF TypeInv, TypeOK
  <2> QED BY <2>2, <2>4
<1>5. ASSUME NEW a \in Attempt, Cancel(a) PROVE Measured(b)'
  BY <1>1, <1>5 DEF Cancel, files, stream
<1>6. ASSUME NEW p \in Process, Crash(p) PROVE Measured(b)'
  <2>1. Owner[b] # p
    BY <1>6 DEF Crash, Lost, Running
  <2>2. /\ UNCHANGED <<disk, part>>
        /\ pc'[b] = pc[b] /\ version'[b] = version[b] /\ sent'[b] = sent[b]
    BY <1>6, <2>1 DEF Crash, Lost, files
  <2> QED BY <2>2 DEF Measured
<1>7. CASE Republish
  BY <1>1, <1>7 DEF Republish, files, stream
<1> QED BY <1>2, <1>3, <1>4, <1>5, <1>6, <1>7 DEF Next

LEMMA NextMeasured ==
  ASSUME Discipline = "quiescent", "eof" \notin Faults,
         TypeInv, TypeInv', IInv, Progress, AllMeasured, [Next]_vars
  PROVE  AllMeasured'
<1>0. /\ Size \in [Version -> Nat \ {0}]
      /\ \A a \in Attempt : Measured(a) /\ Counted(a) /\ CallOK(a)
      /\ \A a \in Attempt : version[a] \in Version /\ sent[a] \in Nat
  BY DownloadAssumption DEF AllMeasured, Progress, IInv, TypeInv, TypeOK
<1>1. FinalComplete'
  <2>1. CASE final' = final
    BY <2>1, FinalStep DEF AllMeasured, FinalComplete
  <2>2. CASE final' # final
    <3>1. PICK a \in Attempt : Rename(a)
      BY <2>2, TouchesFiles DEF files, Create, Discard, Land
    <3>2. pc[a] = "rename" /\ part # None /\ final' = part /\ disk' = disk
      BY <2>2, <3>1 DEF Rename
    <3>3. Aligned(disk[part])
      BY <3>2 DEF Progress, PartAligned, Aligned
    <3>4. \E v \in Version : Len(disk[part]) = Size[v]
      BY <1>0, <3>2 DEF Measured
    <3> QED BY <3>2, <3>3, <3>4 DEF FinalComplete, Complete, Aligned
  <2> QED BY <2>1, <2>2
<1>2. ASSUME NEW b \in Attempt PROVE Measured(b)'
  <2>1. CASE pc'[b] \notin Running
    BY <2>1 DEF Measured, Running
  <2>2. CASE UNCHANGED vars
    BY <1>0, <2>2 DEF Measured, vars, files, stream
  <2>3. CASE Start(b)
    BY <2>3 DEF Start, Measured, TypeInv, TypeOK
  <2>4. CASE Pool(b) /\ pc'[b] \in Running
    <3>1. pending[b] \in Block /\ UNCHANGED <<pc, version, sent>>
      BY <2>4 DEF Pool, Land, LandFails, stream
    <3>2. pc[b] \in Writing
      BY <1>0, <2>4, <3>1, BlockFacts DEF CallOK, Settled, Running, Ended
    <3> QED BY <1>0, <3>1, <3>2 DEF Measured, Writing
  <2>5. ASSUME NEW status \in {200, 206}, Answered(b, status) PROVE Measured(b)'
    <3>1. /\ version'[b] = served /\ served \in Version
          /\ pc'[b] \in {"open", "create"}
          /\ sent'[b] = IF status = 206 THEN already[b] ELSE 0
          /\ status = 206 => already[b] < Size[served]
      BY <2>5 DEF Answered, TypeInv, TypeOK
    <3>2. already[b] \in Nat /\ Size[served] \in Nat
      BY <1>0, <3>1 DEF TypeInv, TypeOK
    <3> QED BY <3>1, <3>2 DEF Measured
  <2>6. CASE OpenPart(b) \/ OpenAppend(b) \/ Rehash(b) \/ Create(b) \/ ObserveCancel(b)
    <3>1. CASE pc'[b] \in {"rehash", "append", "stream", "stopping"}
      <4>1. pc[b] \in Running /\ pc[b] # "send" /\ UNCHANGED <<version, sent>>
        <5>1. CASE OpenPart(b) \/ OpenAppend(b)
          BY <3>1, <5>1 DEF OpenPart, OpenAppend, Return, Running, stream, TypeInv, TypeOK
        <5>2. CASE Create(b)
          BY <3>1, <5>2 DEF Create, Return, Running, stream, TypeInv, TypeOK
        <5>3. CASE Rehash(b) \/ ObserveCancel(b)
          BY <5>3 DEF Rehash, ObserveCancel, Goto, Running, stream
        <5> QED BY <2>6, <5>1, <5>2, <5>3
      <4> QED BY <1>0, <3>1, <4>1 DEF Measured
    <3>2. CASE pc'[b] \notin {"rehash", "append", "stream", "stopping"}
      <4>1. pc'[b] = "Io"
        BY <2>6, <3>2
           DEF OpenPart, OpenAppend, Rehash, Create, ObserveCancel, Goto, Return, TypeInv, TypeOK
      <4> QED BY <2>1, <4>1 DEF Running
    <3> QED BY <3>1, <3>2
  <2>7. CASE Receive(b)
    <3>1. /\ pc'[b] = "stream" /\ version'[b] = version[b] /\ sent'[b] = sent[b] + 1
          /\ sent[b] < Size[version[b]]
      BY <2>7 DEF Receive, TypeInv, TypeOK
    <3>2. Size[version[b]] \in Nat
      BY <1>0
    <3> QED BY <1>0, <3>1, <3>2 DEF Measured
  <2>8. CASE EndOfStream(b)
    <3>1. /\ pc[b] = "stream" /\ pc'[b] = "flush" /\ sent[b] >= Size[version[b]]
          /\ UNCHANGED <<version, sent>>
      BY <2>8 DEF EndOfStream, Goto, stream, TypeInv, TypeOK
    <3>2. sent[b] <= Size[version[b]]
      BY <1>0, <3>1 DEF Measured, Running
    <3>3. Size[version[b]] \in Nat
      BY <1>0
    <3>4. sent[b] = Size[version[b]]
      BY <1>0, <3>1, <3>2, <3>3
    <3> QED BY <3>1, <3>2, <3>4 DEF Measured
  <2>9. CASE Check(b)
    <3>1. /\ pc[b] = "flush" /\ pending[b] = None
          /\ pc'[b] \in {"rename", "discard"}
          /\ UNCHANGED <<disk, part, version, sent>>
      BY <2>9 DEF Check, Goto, stream, files, TypeInv, TypeOK
    <3>2. sent[b] = Size[version[b]] /\ part # None /\ sent[b] = Len(disk[part])
      BY <1>0, <3>1 DEF Measured, Counted, Writing
    <3>3. sent[b] <= Size[version[b]]
      BY <1>0, <3>2
    <3> QED BY <1>0, <3>1, <3>2, <3>3 DEF Measured
  <2>10. CASE Refused(b) \/ RangeRefused(b) \/ ReadFails(b) \/ StreamFails(b) \/ Stop(b)
              \/ WriteFailed(b) \/ Discard(b) \/ Rename(b)
    <3>1. PICK why \in Ended : Return(b, why)
      BY <2>10 DEF Refused, RangeRefused, ReadFails, StreamFails, Stop, WriteFailed, Discard,
                   Rename, Ended
    <3>2. pc'[b] = why
      BY <3>1 DEF Return, TypeInv, TypeOK
    <3> QED BY <2>1, <3>2 DEF Running, Ended
  <2>11. CASE Work(b)
    BY <2>5, <2>6, <2>7, <2>8, <2>9, <2>10, <2>11 DEF Work
  <2> QED BY <1>0, <2>1, <2>2, <2>3, <2>4, <2>11, OthersMeasured
<1> QED BY <1>1, <1>2 DEF AllMeasured

THEOREM MeasuredInvariance ==
  ASSUME Discipline = "quiescent", "eof" \notin Faults
  PROVE  Spec => []AllMeasured
<1>1. Init => AllMeasured
  BY DEF Init, AllMeasured, FinalComplete, Measured, Running
<1>2. TypeInv /\ TypeInv' /\ IInv /\ Progress /\ AllMeasured /\ [Next]_vars => AllMeasured'
  BY NextMeasured
<1> QED BY <1>1, <1>2, Invariance, TypeInvariant, ProgressInvariance, PTL DEF Spec

\* Also without a checksum the file is not truncated and nothing in it is
\* misplaced, when the site announces how long its answers are.
THEOREM FinalIsComplete ==
  ASSUME Discipline = "quiescent", "eof" \notin Faults
  PROVE  Spec => []FinalComplete
<1>1. AllMeasured => FinalComplete
  BY DEF AllMeasured
<1> QED BY <1>1, MeasuredInvariance, PTL

\* ... and it is the published file, when the site did not change it: for such
\* files the checksum adds nothing.
THEOREM UncheckedFinalIsWhole ==
  ASSUME Discipline = "quiescent", "eof" \notin Faults, Version = {Published}
  PROVE  Spec => []FinalWhole
<1>1. ASSUME TypeInv, FinalComplete, final # None PROVE disk[final] = Body(Published)
  <2> DEFINE f == disk[final]
             g == Body(Published)
  <2>1. Size[Published] \in Nat
    BY DownloadAssumption
  <2>2. f \in Seq(Block)
    BY <1>1 DEF TypeInv, TypeOK
  <2>3. \A i \in 1..Size[Published] : <<Published, i>> \in Block
    BY BlockFacts, DownloadAssumption
  <2>4. g \in Seq(Block) /\ Len(g) = Size[Published]
    BY <2>1, <2>3 DEF Body
  <2>5. Len(f) = Size[Published] /\ \A i \in 1..Len(f) : f[i] = <<Published, i>>
    BY <1>1 DEF FinalComplete, Complete, Aligned
  <2>6. \A i \in 1..Len(f) : f[i] = g[i]
    BY <2>5 DEF Body
  <2> HIDE DEF f, g
  <2>7. f = g
    BY <2>2, <2>4, <2>5, <2>6, SeqEqual
  <2> QED BY <2>7 DEF f, g
<1>2. TypeInv /\ FinalComplete => FinalWhole
  BY <1>1 DEF FinalWhole
<1> QED BY <1>2, FinalIsComplete, TypeInvariant, PTL

-----------------------------------------------------------------------------
(* A part that is complete.                                                *)

\* The part is as long as anything the site serves, and no call is past its
\* measurement: what a crash between the last write and the rename leaves.
Stuck ==
  /\ part # None
  /\ \A v \in Version : Len(disk[part]) >= Size[v]
  /\ \A a \in Attempt :
       /\ pending[a] \notin Block
       /\ pc[a] \in Running => pc[a] = "send" /\ already[a] = Len(disk[part])

\* Such a part is there for ever, however calls are repeated and overlap: each is
\* refused, none gets the file and none removes the part. Only a server that
\* ignores ranges, or a part that cannot be measured, starts it anew.
THEOREM WholePartIsStuck ==
  ASSUME "ignoreRange" \notin Faults, "disk" \notin Faults
  PROVE  Spec => [][Stuck => /\ Stuck' /\ UNCHANGED files
                             /\ \A a \in Attempt : pc[a] # "Ok" => pc'[a] # "Ok"]_vars
<1> DEFINE A == Stuck => /\ Stuck' /\ UNCHANGED files
                         /\ \A a \in Attempt : pc[a] # "Ok" => pc'[a] # "Ok"
<1>1. ASSUME TypeInv, Next, Stuck
      PROVE  /\ Stuck' /\ UNCHANGED files
             /\ \A a \in Attempt : pc[a] # "Ok" => pc'[a] # "Ok"
  <2>0. /\ part # None /\ part \in Attempt
        /\ \A v \in Version : Len(disk[part]) >= Size[v]
        /\ \A a \in Attempt :
             /\ pending[a] \notin Block
             /\ pc[a] \in Running => pc[a] = "send" /\ already[a] = Len(disk[part])
        /\ Size \in [Version -> Nat \ {0}] /\ served \in Version
        /\ Len(disk[part]) \in Nat
    BY <1>1, DownloadAssumption DEF Stuck, TypeInv, TypeOK
  <2>1. Len(disk[part]) > 0 /\ Len(disk[part]) >= Size[served]
    <3>1. Size[served] \in Nat \ {0} /\ Len(disk[part]) >= Size[served]
      BY <2>0
    <3> QED BY <2>0, <3>1
  <2>2. ASSUME UNCHANGED files,
               \A b \in Attempt : pending'[b] \notin Block,
               \A b \in Attempt :
                 \/ pc'[b] = pc[b] /\ already'[b] = already[b]
                 \/ pc'[b] = "send" /\ already'[b] = Len(disk[part])
                 \/ pc'[b] \in Ended \ {"Ok"}
        PROVE  /\ Stuck' /\ UNCHANGED files
               /\ \A a \in Attempt : pc[a] # "Ok" => pc'[a] # "Ok"
    BY <2>0, <2>2 DEF Stuck, files, Running, Ended
  <2>3. ASSUME NEW a \in Attempt, Start(a)
        PROVE  /\ UNCHANGED files
               /\ \A b \in Attempt : pending'[b] \notin Block
               /\ \A b \in Attempt :
                    \/ pc'[b] = pc[b] /\ already'[b] = already[b]
                    \/ pc'[b] = "send" /\ already'[b] = Len(disk[part])
    <3>1. already' = [already EXCEPT ![a] = Len(disk[part])]
      BY <2>0, <2>3 DEF Start, PartLen
    <3> QED BY <1>1, <2>0, <2>3, <3>1 DEF Start, handle, TypeInv, TypeOK
  <2>4. ASSUME NEW a \in Attempt, Refused(a) \/ RangeRefused(a)
        PROVE  /\ UNCHANGED files
               /\ \A b \in Attempt : pending'[b] \notin Block
               /\ \A b \in Attempt :
                    \/ pc'[b] = pc[b] /\ already'[b] = already[b]
                    \/ pc'[b] \in Ended \ {"Ok"}
    <3>1. PICK why \in Ended \ {"Ok"} : Return(a, why)
      BY <2>4 DEF Refused, RangeRefused, Ended
    <3>2. UNCHANGED files
      BY <2>4 DEF Refused, RangeRefused
    <3>3. \A b \in Attempt : pending'[b] \notin Block
      BY <1>1, <2>0, <3>1, ReleaseType, BlockFacts DEF Return, handle
    <3> QED BY <1>1, <3>1, <3>2, <3>3 DEF Return, TypeInv, TypeOK
  <2>5. ASSUME NEW a \in Attempt, Work(a) PROVE Refused(a) \/ RangeRefused(a)
    <3>1. ASSUME pc[a] \in Running \ {"send"} PROVE FALSE
      BY <2>0, <3>1
    <3>2. ASSUME NEW status \in {200, 206}, Answered(a, status) PROVE FALSE
      <4>1. pc[a] = "send" /\ already[a] = Len(disk[part])
        BY <2>0, <3>2 DEF Answered, Running
      <4>2. ~(already[a] < Size[served]) /\ already[a] # 0
        BY <2>0, <2>1, <4>1
      <4> QED BY <3>2, <4>2 DEF Answered
    <3>3. ~OpenPart(a) /\ ~Rehash(a) /\ ~ReadFails(a) /\ ~OpenAppend(a) /\ ~Create(a)
      BY <3>1 DEF OpenPart, Rehash, ReadFails, OpenAppend, Create, Running
    <3>4. ~Receive(a) /\ ~StreamFails(a) /\ ~ObserveCancel(a) /\ ~Stop(a)
      BY <3>1 DEF Receive, StreamFails, ObserveCancel, Stop, Running
    <3>5. ~EndOfStream(a) /\ ~WriteFailed(a) /\ ~Check(a) /\ ~Discard(a) /\ ~Rename(a)
      BY <3>1 DEF EndOfStream, WriteFailed, Check, Discard, Rename, Running
    <3> QED BY <2>5, <3>2, <3>3, <3>4, <3>5 DEF Work
  <2>6. ASSUME NEW a \in Attempt, Pool(a) PROVE FALSE
    BY <2>0, <2>6 DEF Pool, Land, LandFails
  <2>7. ASSUME NEW a \in Attempt, Cancel(a)
        PROVE  UNCHANGED <<files, pending, pc, already>>
    BY <2>7 DEF Cancel, handle, stream
  <2>8. ASSUME NEW p \in Process, Crash(p)
        PROVE  Stuck' /\ UNCHANGED files /\ \A a \in Attempt : pc[a] # "Ok" => pc'[a] # "Ok"
    <3>1. UNCHANGED files
      BY <2>8 DEF Crash
    <3>2. ASSUME NEW b \in Attempt, Owner[b] = p
          PROVE  pending'[b] = None /\ pc'[b] \notin Running /\ (pc[b] # "Ok" => pc'[b] # "Ok")
      BY <2>8, <3>2 DEF Crash, Lost, Running
    <3>3. ASSUME NEW b \in Attempt, Owner[b] # p
          PROVE  pending'[b] = pending[b] /\ pc'[b] = pc[b] /\ already'[b] = already[b]
      BY <2>8, <3>3 DEF Crash, Lost
    <3> QED BY <2>0, <3>1, <3>2, <3>3, BlockFacts DEF Stuck, files
  <2>9. ASSUME Republish PROVE UNCHANGED <<files, pending, pc, already>>
    BY <2>9 DEF Republish, handle, stream
  <2>10. ASSUME NEW a \in Attempt, Start(a) \/ Work(a) \/ Pool(a) \/ Cancel(a)
         PROVE  Stuck' /\ UNCHANGED files /\ \A b \in Attempt : pc[b] # "Ok" => pc'[b] # "Ok"
    BY <2>0, <2>2, <2>3, <2>4, <2>5, <2>6, <2>7, <2>10
  <2> QED BY <1>1, <2>0, <2>2, <2>8, <2>9, <2>10 DEF Next
<1>2. TypeInv /\ [Next]_vars => [A]_vars
  BY <1>1
<1> QED BY <1>2, TypeInvariant, PTL DEF Spec
=============================================================================
