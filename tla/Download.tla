------------------------------ MODULE Download ------------------------------
(***************************************************************************)
(* Client::download of xylitol-apkpure: one file is fetched into a `.part' *)
(* sibling, resumed when a part is already there, checked against the      *)
(* published SHA-1 and renamed to its final name.                          *)
(*                                                                         *)
(* A member of Attempt is one call of download for one and the same        *)
(* variant and directory, so all calls share the two file names.  Every    *)
(* `.await' of the code is a boundary between two actions here: between    *)
(* two of them another call, another process, the server or the thread     *)
(* that carries out a buffered write may step.                             *)
(*                                                                         *)
(* Data: a file is a sequence of blocks, the i-th block of version v of    *)
(* the published file is <<v, i>>, and SHA-1 is perfect, so the state of   *)
(* a hasher is the sequence of blocks it was fed.  File names refer to     *)
(* inodes, because open handles survive a truncation, removal or rename.   *)
(***************************************************************************)
EXTENDS Naturals, Sequences, FiniteSets

CONSTANTS
  Attempt,     \* calls of download, each run at most once
  Process,     \* the processes (GUI, CLI) the calls run in
  Owner,       \* the process each call runs in
  Version,     \* what the URL may serve over time
  Published,   \* the version the variant's checksum was published for
  Size,        \* number of blocks of each version
  Checksum,    \* TRUE when the variant carries a SHA-1
  Discipline,  \* when a call may start next to others, see Admitted
  Faults,      \* the faults the environment may produce
  None,        \* no file, no handle, nothing in flight
  Failed,      \* a background write that returned an error
  Hole         \* bytes of a file never written

FaultKind == {"refuse", "ignoreRange", "stream", "eof", "disk", "crash"}

ASSUME DownloadAssumption ==
  /\ Owner \in [Attempt -> Process]
  /\ Published \in Version
  /\ Size \in [Version -> Nat \ {0}]
  /\ Checksum \in BOOLEAN
  /\ Discipline \in {"quiescent", "serial", "free"}
  /\ Faults \subseteq FaultKind
  /\ None \notin Attempt
  /\ None # Failed
  /\ {None, Failed} \cap ((Version \X Nat) \cup {Hole}) = {}

Block == (Version \X Nat) \cup {Hole}
Body(v) == [i \in 1..Size[v] |-> <<v, i>>]

VARIABLES
  served,      \* the version the URL serves now
  disk,        \* content of each inode; an inode is named by the call creating it
  part,        \* inode of `<name>.part', or None
  final,       \* inode of `<name>', or None
  (* the local state of each call *)
  pc,          \* where it is, or how it ended
  already,     \* length of the part when it was measured
  version,     \* what the response carries
  sent,        \* how far into that version the response is
  downloaded,  \* the counter given to on_progress
  hash,        \* what the hasher was fed
  ino,         \* inode of the open handle
  append,      \* the handle was opened with O_APPEND
  off,         \* position of the handle otherwise
  pending,     \* the write given to the pool
  cancelled    \* the CancelToken

files == <<disk, part, final>>
stream == <<already, version, sent, downloaded, hash>>
handle == <<ino, append, off, pending>>
vars == <<served, files, pc, stream, handle, cancelled>>

Running == {"send", "open", "rehash", "append", "create", "stream",
            "stopping", "flush", "discard", "rename"}
Ended == {"Ok", "Cancelled", "Http", "RateLimited", "Status", "RangeRefused",
          "Io", "ChecksumMismatch", "crashed"}

Init ==
  /\ served \in Version
  /\ disk = [a \in Attempt |-> << >>]
  /\ part = None
  /\ final = None
  /\ pc = [a \in Attempt |-> "idle"]
  /\ already = [a \in Attempt |-> 0]
  /\ version = [a \in Attempt |-> Published]
  /\ sent = [a \in Attempt |-> 0]
  /\ downloaded = [a \in Attempt |-> 0]
  /\ hash = [a \in Attempt |-> << >>]
  /\ ino = [a \in Attempt |-> None]
  /\ append = [a \in Attempt |-> FALSE]
  /\ off = [a \in Attempt |-> 0]
  /\ pending = [a \in Attempt |-> None]
  /\ cancelled = [a \in Attempt |-> FALSE]

-----------------------------------------------------------------------------
(* Helpers.                                                                *)

\* A mutant asks for the last byte again.
MutPartLen == IF part = None THEN 0 ELSE Len(disk[part]) - 1

\* fs::metadata(part).len(), 0 when there is no part.
PartLen == IF part = None THEN 0 ELSE Len(disk[part])

\* A write of b at position o of a file: a gap before it reads as a hole.
WriteAt(content, o, b) ==
  [i \in 1..(IF o < Len(content) THEN Len(content) ELSE o + 1) |->
     IF i = o + 1 THEN b ELSE IF i <= Len(content) THEN content[i] ELSE Hole]

\* What the file of call a holds once its write in flight has landed.
Landed(a) ==
  IF append[a] THEN Append(disk[ino[a]], pending[a])
               ELSE WriteAt(disk[ino[a]], off[a], pending[a])

\* Nothing in the code orders two calls.  Discipline says what the
\* surroundings guarantee: "free" nothing (a second window, a CLI beside the
\* GUI), "serial" that a call starts after the others returned, "quiescent"
\* that writes they left behind have landed too (a person pressed Retry).
Admitted ==
  /\ Discipline # "free" => \A b \in Attempt : pc[b] \notin Running
  /\ Discipline = "quiescent" => \A b \in Attempt : pending[b] \notin Block

\* A mutant trusts the server to honour the range.
MutResuming(measured, status) == measured > 0

\* Only a 206 to a ranged request continues the part.
Resuming(measured, status) == measured > 0 /\ status = 206

\* A mutant compares lengths where the code compares checksums.
MutMatches(h) == Checksum => Len(h) = Size[Published]

\* The published checksum, when there is one, matches the hash.
Matches(h) == Checksum => h = Body(Published)

\* Call a proceeds to step; nothing else changes.
Goto(a, step) ==
  /\ pc' = [pc EXCEPT ![a] = step]
  /\ UNCHANGED <<served, files, stream, handle, cancelled>>

\* The handle of call a is gone.
Release(a) ==
  /\ ino' = [ino EXCEPT ![a] = None]
  /\ append' = [append EXCEPT ![a] = FALSE]
  /\ off' = [off EXCEPT ![a] = 0]
  /\ pending' = [pending EXCEPT ![a] = None]

\* Call a returns: its locals are dropped, but a write given to the pool
\* keeps the handle it goes to.
Return(a, why) ==
  /\ pc' = [pc EXCEPT ![a] = why]
  /\ already' = [already EXCEPT ![a] = 0]
  /\ version' = [version EXCEPT ![a] = Published]
  /\ sent' = [sent EXCEPT ![a] = 0]
  /\ downloaded' = [downloaded EXCEPT ![a] = 0]
  /\ hash' = [hash EXCEPT ![a] = << >>]
  /\ cancelled' = [cancelled EXCEPT ![a] = FALSE]
  /\ IF pending[a] \in Block THEN UNCHANGED handle ELSE Release(a)

-----------------------------------------------------------------------------
(* The steps of a call.                                                    *)

\* The call measures the part it finds; a part it cannot measure counts as
\* none.
Start(a) ==
  /\ pc[a] = "idle"
  /\ Admitted
  /\ pc' = [pc EXCEPT ![a] = "send"]
  /\ \E n \in {PartLen} \cup (IF "disk" \in Faults THEN {0} ELSE {}) :
       already' = [already EXCEPT ![a] = n]
  /\ UNCHANGED <<served, files, version, sent, downloaded, hash, handle, cancelled>>

\* No response, 429, or another status that is not a success.
Refused(a) ==
  /\ pc[a] = "send"
  /\ "refuse" \in Faults
  /\ \E why \in {"Http", "RateLimited", "Status"} : Return(a, why)
  /\ UNCHANGED <<served, files>>

\* The requested range starts at or past the end of the file: a 416, which
\* the code treats as any other bad status.
RangeRefused(a) ==
  /\ pc[a] = "send"
  /\ already[a] > 0
  /\ already[a] >= Size[served]
  /\ Return(a, "RangeRefused")
  /\ UNCHANGED <<served, files>>

\* 206 with the rest of the file, or 200 with all of it.
Answered(a, status) ==
  LET resuming == Resuming(already[a], status) IN
  /\ pc[a] = "send"
  /\ status = 206 => already[a] > 0 /\ already[a] < Size[served]
  /\ status = 200 => already[a] = 0 \/ "ignoreRange" \in Faults
  /\ pc' = [pc EXCEPT ![a] = IF resuming THEN "open" ELSE "create"]
  /\ version' = [version EXCEPT ![a] = served]
  /\ sent' = [sent EXCEPT ![a] = IF status = 206 THEN already[a] ELSE 0]
  /\ downloaded' = [downloaded EXCEPT ![a] = IF resuming THEN already[a] ELSE 0]
  /\ UNCHANGED <<served, files, already, hash, handle, cancelled>>

\* Resuming: open the part to hash what it holds.
OpenPart(a) ==
  /\ pc[a] = "open"
  /\ \/ /\ part = None
        /\ Return(a, "Io")
     \/ /\ part # None
        /\ pc' = [pc EXCEPT ![a] = "rehash"]
        /\ ino' = [ino EXCEPT ![a] = part]
        /\ UNCHANGED <<stream, append, off, pending, cancelled>>
  /\ UNCHANGED <<served, files>>

\* A mutant does not leave the loop at the end of the file.
MutRehash(a) ==
  LET next == Len(hash[a]) + 1 IN
  /\ pc[a] = "rehash"
  /\ next <= Len(disk[ino[a]])
  /\ hash' = [hash EXCEPT ![a] = Append(@, disk[ino[a]][next])]
  /\ UNCHANGED <<served, files, pc, already, version, sent, downloaded, handle, cancelled>>

\* One read of the re-hashing loop; a read of nothing ends it.
Rehash(a) ==
  LET next == Len(hash[a]) + 1 IN
  /\ pc[a] = "rehash"
  /\ \/ /\ next <= Len(disk[ino[a]])
        /\ hash' = [hash EXCEPT ![a] = Append(@, disk[ino[a]][next])]
        /\ UNCHANGED <<served, files, pc, already, version, sent, downloaded,
                       handle, cancelled>>
     \/ /\ next > Len(disk[ino[a]])
        /\ Goto(a, "append")

\* Opening or reading the part to resume it fails; the part is left as it is.
ReadFails(a) ==
  /\ pc[a] \in {"open", "rehash", "append"}
  /\ "disk" \in Faults
  /\ Return(a, "Io")
  /\ UNCHANGED <<served, files>>

\* Open the part again, by name, for appending.
OpenAppend(a) ==
  /\ pc[a] = "append"
  /\ \/ /\ part = None
        /\ Return(a, "Io")
     \/ /\ part # None
        /\ pc' = [pc EXCEPT ![a] = "stream"]
        /\ ino' = [ino EXCEPT ![a] = part]
        /\ append' = [append EXCEPT ![a] = TRUE]
        /\ UNCHANGED <<stream, off, pending, cancelled>>
  /\ UNCHANGED <<served, files>>

\* Not resuming: File::create, which truncates a part that is there.
Create(a) ==
  LET i == IF part = None THEN a ELSE part IN
  /\ pc[a] = "create"
  /\ \/ /\ "disk" \in Faults
        /\ Return(a, "Io")
        /\ UNCHANGED files
     \/ /\ disk' = [disk EXCEPT ![i] = << >>]
        /\ part' = i
        /\ pc' = [pc EXCEPT ![a] = "stream"]
        /\ ino' = [ino EXCEPT ![a] = i]
        /\ UNCHANGED <<final, stream, append, off, pending, cancelled>>
  /\ UNCHANGED served

\* A mutant does not wait for the previous write, which is then lost.
MutReceive(a) ==
  LET b == <<version[a], sent[a] + 1>> IN
  /\ pc[a] = "stream"
  /\ ~cancelled[a]
  /\ sent[a] < Size[version[a]]
  /\ hash' = [hash EXCEPT ![a] = Append(@, b)]
  /\ pending' = [pending EXCEPT ![a] = b]
  /\ sent' = [sent EXCEPT ![a] = @ + 1]
  /\ downloaded' = [downloaded EXCEPT ![a] = @ + 1]
  /\ UNCHANGED <<served, files, pc, already, version, ino, append, off, cancelled>>

\* A chunk: hashed, given to the write buffer once the previous write is
\* through, counted, reported.
Receive(a) ==
  LET b == <<version[a], sent[a] + 1>> IN
  /\ pc[a] = "stream"
  /\ ~cancelled[a]
  /\ sent[a] < Size[version[a]]
  /\ pending[a] = None
  /\ hash' = [hash EXCEPT ![a] = Append(@, b)]
  /\ pending' = [pending EXCEPT ![a] = b]
  /\ sent' = [sent EXCEPT ![a] = @ + 1]
  /\ downloaded' = [downloaded EXCEPT ![a] = @ + 1]
  /\ UNCHANGED <<served, files, pc, already, version, ino, append, off, cancelled>>

\* The stream yields an error (reset, read timeout): returned at once, the
\* write in flight stays behind.
StreamFails(a) ==
  /\ pc[a] = "stream"
  /\ ~cancelled[a]
  /\ "stream" \in Faults
  /\ Return(a, "Http")
  /\ UNCHANGED <<served, files>>

\* A chunk or an error arrives and the token is set: the item is dropped.
ObserveCancel(a) ==
  /\ pc[a] = "stream"
  /\ cancelled[a]
  /\ sent[a] < Size[version[a]] \/ "stream" \in Faults
  /\ Goto(a, "stopping")

\* A mutant returns Err(Cancelled) without the flush.
MutStop(a) ==
  /\ pc[a] = "stopping"
  /\ Return(a, "Cancelled")
  /\ UNCHANGED <<served, files>>

\* The flush before Err(Cancelled) waits for the write in flight.
Stop(a) ==
  /\ pc[a] = "stopping"
  /\ pending[a] = None
  /\ Return(a, "Cancelled")
  /\ UNCHANGED <<served, files>>

\* The stream ends; early, when its length was never announced ("eof").
EndOfStream(a) ==
  /\ pc[a] = "stream"
  /\ sent[a] >= Size[version[a]] \/ "eof" \in Faults
  /\ Goto(a, "flush")

\* The next write or flush reports the error of the write before it.
WriteFailed(a) ==
  /\ pc[a] \in {"stream", "stopping", "flush"}
  /\ pending[a] = Failed
  /\ Return(a, "Io")
  /\ UNCHANGED <<served, files>>

\* A mutant renames without the flush.
MutCheck(a) ==
  /\ pc[a] = "flush"
  /\ Goto(a, IF Matches(hash[a]) THEN "rename" ELSE "discard")

\* After the flush: compare the checksums.
Check(a) ==
  /\ pc[a] = "flush"
  /\ pending[a] = None
  /\ Goto(a, IF Matches(hash[a]) THEN "rename" ELSE "discard")

\* A bad part is removed (an error doing so is ignored).
Discard(a) ==
  /\ pc[a] = "discard"
  /\ part' \in IF "disk" \in Faults THEN {part, None} ELSE {None}
  /\ Return(a, "ChecksumMismatch")
  /\ UNCHANGED <<served, disk, final>>

\* The part becomes the file.
Rename(a) ==
  /\ pc[a] = "rename"
  /\ \/ /\ part = None \/ "disk" \in Faults
        /\ Return(a, "Io")
        /\ UNCHANGED <<part, final>>
     \/ /\ part # None
        /\ final' = part
        /\ part' = None
        /\ Return(a, "Ok")
  /\ UNCHANGED <<served, disk>>

\* The blocking pool carries out the write in flight, or fails to; nobody
\* hears of it when the call has returned.
Land(a) ==
  /\ pending[a] \in Block
  /\ disk' = [disk EXCEPT ![ino[a]] = Landed(a)]
  /\ IF pc[a] \in Ended
     THEN Release(a)
     ELSE /\ pending' = [pending EXCEPT ![a] = None]
          /\ off' = [off EXCEPT ![a] = @ + 1]
          /\ UNCHANGED <<ino, append>>
  /\ UNCHANGED <<served, part, final, pc, stream, cancelled>>

LandFails(a) ==
  /\ pending[a] \in Block
  /\ "disk" \in Faults
  /\ IF pc[a] \in Ended
     THEN Release(a)
     ELSE /\ pending' = [pending EXCEPT ![a] = Failed]
          /\ UNCHANGED <<ino, append, off>>
  /\ UNCHANGED <<served, files, pc, stream, cancelled>>

-----------------------------------------------------------------------------
(* The surroundings.                                                       *)

\* Ctrl-C or the Cancel button.
Cancel(a) ==
  /\ pc[a] \in Running
  /\ cancelled' = [cancelled EXCEPT ![a] = TRUE]
  /\ UNCHANGED <<served, files, pc, stream, handle>>

\* f with the value of every call of process p reset.
Lost(p, f, value) == [a \in Attempt |-> IF Owner[a] = p THEN value ELSE f[a]]

\* A process dies: its calls end where they are, and with it the thread that
\* would have carried out their writes.
Crash(p) ==
  /\ "crash" \in Faults
  /\ pc' = [a \in Attempt |->
              IF Owner[a] = p /\ pc[a] \in Running THEN "crashed" ELSE pc[a]]
  /\ already' = Lost(p, already, 0)
  /\ version' = Lost(p, version, Published)
  /\ sent' = Lost(p, sent, 0)
  /\ downloaded' = Lost(p, downloaded, 0)
  /\ hash' = Lost(p, hash, << >>)
  /\ ino' = Lost(p, ino, None)
  /\ append' = Lost(p, append, FALSE)
  /\ off' = Lost(p, off, 0)
  /\ pending' = Lost(p, pending, None)
  /\ cancelled' = Lost(p, cancelled, FALSE)
  /\ UNCHANGED <<served, files>>

\* The site puts another file behind the URL.
Republish ==
  /\ served' \in Version
  /\ UNCHANGED <<files, pc, stream, handle, cancelled>>

Work(a) ==
  \/ Refused(a) \/ RangeRefused(a) \/ \E status \in {200, 206} : Answered(a, status)
  \/ OpenPart(a) \/ Rehash(a) \/ ReadFails(a) \/ OpenAppend(a) \/ Create(a)
  \/ Receive(a) \/ StreamFails(a) \/ ObserveCancel(a) \/ Stop(a)
  \/ EndOfStream(a) \/ WriteFailed(a) \/ Check(a) \/ Discard(a) \/ Rename(a)

Pool(a) == Land(a) \/ LandFails(a)

Next ==
  \/ \E a \in Attempt : Start(a) \/ Work(a) \/ Pool(a) \/ Cancel(a)
  \/ \E p \in Process : Crash(p)
  \/ Republish

Spec == Init /\ [][Next]_vars

\* tokio runs every task and every blocking write that is ready, and the
\* read timeout turns a silent server into an error; nobody has to start or
\* cancel anything.
FairSpec == Spec /\ \A a \in Attempt : WF_vars(Work(a)) /\ WF_vars(Pool(a))

-----------------------------------------------------------------------------
(* Properties.                                                             *)

\* Type invariant.
TypeOK ==
  /\ served \in Version
  /\ disk \in [Attempt -> Seq(Block)]
  /\ part \in Attempt \cup {None}
  /\ final \in Attempt \cup {None}
  /\ pc \in [Attempt -> {"idle"} \cup Running \cup Ended]
  /\ already \in [Attempt -> Nat]
  /\ version \in [Attempt -> Version]
  /\ sent \in [Attempt -> Nat]
  /\ downloaded \in [Attempt -> Nat]
  /\ hash \in [Attempt -> Seq(Block)]
  /\ ino \in [Attempt -> Attempt \cup {None}]
  /\ append \in [Attempt -> BOOLEAN]
  /\ off \in [Attempt -> Nat]
  /\ pending \in [Attempt -> Block \cup {None, Failed}]
  /\ cancelled \in [Attempt -> BOOLEAN]

\* "An interrupted run can never leave a truncated APK that looks
\* installable": what carries the final name is the published file, whole,
\* on disk and not only in the stream that was hashed.
FinalWhole == final # None => disk[final] = Body(Published)

\* Resuming never misplaces a byte: whatever mix of versions a part holds,
\* its i-th block is the i-th block of some version.
PartAligned ==
  part # None =>
    \A i \in 1..Len(disk[part]) : \E v \in Version : disk[part][i] = <<v, i>>

\* What the user was told has arrived is in the part, but for the one write
\* in flight: that is all a crash or a dropped connection can cost.
AtMostOneWriteBehind ==
  \A a \in Attempt :
    pc[a] \in {"stream", "stopping", "flush"} =>
      part # None /\ downloaded[a] <= Len(disk[part]) + 1

\* A cancelled call loses nothing: the part left for the next call is as long
\* as the progress last reported.
CancelKeepsProgress ==
  [][\A a \in Attempt :
       pc'[a] = "Cancelled" /\ pc[a] # "Cancelled" =>
         part' # None /\ Len(disk'[part']) = downloaded[a]]_vars

\* No late write, truncation or append reaches a file once it has its final
\* name, whoever still holds a handle to it.
FinalUntouched == [][final # None => disk'[final] = disk[final]]_vars

\* The two names seen from outside, whatever calls, handles and writes are
\* behind them: a part that only grows block by block at its end, is begun anew
\* or removed, and becomes the file in the one step in which it is whole;
\* nothing else changes the file, also when it is downloaded again.
Content(i) == IF i = None THEN {} ELSE {disk[i]}

File == INSTANCE PartFile
          WITH Acceptable <- IF Checksum THEN {Body(Published)} ELSE Seq(Block),
               held <- Content(part),
               kept <- Content(final)

PartFileSpec == File!FSpec

\* A call that was started returns: the body is finite, a flush ends, the
\* re-hashing loop does not chase a growing part forever.
EveryCallEnds ==
  \A a \in Attempt : pc[a] \in Running ~> pc[a] \in Ended

=============================================================================
