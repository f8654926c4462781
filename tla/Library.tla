------------------------------- MODULE Library -------------------------------
(***************************************************************************)
(* The library index of xylitol-core: a JSON file that every process reads *)
(* whole when it opens the library, changes in memory, and writes back     *)
(* whole, through library.json.tmp and a rename, after every change.  The  *)
(* GUI keeps one Library open for as long as it runs; a CLI command opens  *)
(* one, changes it at most once and exits.                                 *)
(*                                                                         *)
(* A File is a package on disk and what inspecting it says.  An index is   *)
(* the set of files it has entries for: the key is a function of the entry *)
(* (Entry::key), so a map from keys to entries is a set of entries with    *)
(* distinct keys.                                                          *)
(***************************************************************************)
EXTENDS Integers, FiniteSets

CONSTANTS
  Process,     \* the GUI and the CLI commands
  File,        \* packages that may be downloaded and added
  Info,        \* what inspect says of each: package, version, split, kind, abis
  Path,        \* where each lies
  Discipline,  \* which operations of two processes may overlap, see MayOpen
  Faults,      \* the faults the environment may produce
  None,        \* no file; no version code; no split
  Torn         \* bytes that do not parse as an index

ASSUME LibraryAssumption ==
  /\ Discipline \in {"exclusive", "turns", "free"}
  /\ Faults \subseteq {"crash", "disk"}
  /\ None # Torn
  /\ \A S \in SUBSET File : S # None /\ S # Torn

VARIABLES
  present,  \* the files that are on disk, at most one at each path
  index,    \* content of library.json: a set of entries, Torn, or None
  tmp,      \* content of library.json.tmp
  step,     \* where each process is
  mem,      \* the entries each process holds
  handle,   \* the file a process that saves is writing to
  job,      \* the file the operation of each process is about
  owed      \* additions that were reported to the user as made

disk == <<present, index, tmp>>
proc == <<step, mem, handle, job>>
vars == <<disk, proc, owed>>

Saving == {"tmp", "write", "rename"}
Step == {"closed", "ready", "delete"} \cup Saving

Init ==
  /\ present = {}
  /\ index = None
  /\ tmp = None
  /\ step = [p \in Process |-> "closed"]
  /\ mem = [p \in Process |-> {}]
  /\ handle = [p \in Process |-> "none"]
  /\ job = [p \in Process |-> None]
  /\ owed = {}

-----------------------------------------------------------------------------
(* Keys, entries and texts.                                                *)

\* What tells files of one package and version apart; abis is the joined
\* list, "" when there is no native code.
Discriminator(i) ==
  IF i.split # None THEN i.split
  ELSE IF i.kind = "bundle" THEN "bundle"
  ELSE IF i.abis = "" THEN "base" ELSE i.abis

Key(f) ==
  <<Info[f].package, IF Info[f].version = None THEN -1 ELSE Info[f].version,
    Discriminator(Info[f])>>

SameKey(f, g) == Key(f) = Key(g)
At(f) == {g \in File : Path[g] = Path[f]}
Exists(f) == At(f) \cap present # {}

\* A mutant lets two entries stand under one key.
MutInsert(entries, f) == entries \cup {f}

\* BTreeMap::insert.
Insert(entries, f) == {g \in entries : ~SameKey(f, g)} \cup {f}

\* from_slice(..).unwrap_or_default(): a text that does not parse is empty.
Parsed(text) == IF text \in {None, Torn} THEN {} ELSE text

\* Writing entries over what a file holds.  Over another writer's text the
\* end of the longer one stays behind.
Written(text, entries) == IF text \in {None, Torn} THEN {entries} ELSE {entries, Torn}

-----------------------------------------------------------------------------
(* The operations of a process.                                            *)

\* Nothing in the code keeps processes apart.  Discipline says what the user
\* does: "exclusive" has one program open at a time, "turns" several, but no
\* two of them saving at the same moment, "free" anything.
MayOpen == Discipline = "exclusive" => \A q \in Process : step[q] = "closed"
MaySave == Discipline # "free" => \A q \in Process : step[q] \in {"closed", "ready"}

\* A mutant takes up a temporary file that was left behind.
MutLoaded == {f \in Parsed(IF tmp = None THEN index ELSE tmp) : Exists(f)}

\* The entries of the index, less those whose file has disappeared.
Loaded == {f \in Parsed(index) : Exists(f)}

\* Library::open.
Open(p) ==
  /\ step[p] = "closed"
  /\ MayOpen
  /\ step' = [step EXCEPT ![p] = "ready"]
  /\ mem' = [mem EXCEPT ![p] = Loaded]
  /\ UNCHANGED <<disk, handle, job, owed>>

\* The program exits between two operations.
Close(p) ==
  /\ step[p] = "ready"
  /\ step' = [step EXCEPT ![p] = "closed"]
  /\ mem' = [mem EXCEPT ![p] = {}]
  /\ UNCHANGED <<disk, handle, job, owed>>

\* Library::add: inspect the file and insert its entry; save follows.
Add(p, f) ==
  /\ step[p] = "ready"
  /\ MaySave
  /\ f \in present
  /\ mem' = [mem EXCEPT ![p] = Insert(@, f)]
  /\ step' = [step EXCEPT ![p] = "tmp"]
  /\ job' = [job EXCEPT ![p] = f]
  /\ owed' = {g \in owed : SameKey(f, g) => g = f}
  /\ UNCHANGED <<disk, handle>>

\* Library::remove: the entry goes, then the file when that was asked for.
Remove(p, f) ==
  /\ step[p] = "ready"
  /\ MaySave
  /\ f \in mem[p]
  /\ mem' = [mem EXCEPT ![p] = @ \ {f}]
  /\ step' \in {[step EXCEPT ![p] = s] : s \in {"delete", "tmp"}}
  /\ job' = [job EXCEPT ![p] = IF step'[p] = "delete" THEN f ELSE None]
  /\ owed' = owed \ {f}
  /\ UNCHANGED <<disk, handle>>

\* remove_file, its error ignored.
DeleteFile(p) ==
  /\ step[p] = "delete"
  /\ present' \in {present \ At(job[p])} \cup (IF "disk" \in Faults THEN {present} ELSE {})
  /\ owed' = {f \in owed : Exists(f)'}
  /\ step' = [step EXCEPT ![p] = "tmp"]
  /\ job' = [job EXCEPT ![p] = None]
  /\ UNCHANGED <<index, tmp, mem, handle>>

\* A mutant truncates and rewrites the index itself.
MutOpenTmp(p) ==
  /\ step[p] = "tmp"
  /\ index' = Torn
  /\ tmp' = Torn
  /\ handle' = [handle EXCEPT ![p] = "index"]
  /\ step' = [step EXCEPT ![p] = "write"]
  /\ UNCHANGED <<present, mem, job, owed>>

\* save, first step of fs::write: create or truncate library.json.tmp.
OpenTmp(p) ==
  /\ step[p] = "tmp"
  /\ tmp' = Torn
  /\ handle' = [handle EXCEPT ![p] = "tmp"]
  /\ step' = [step EXCEPT ![p] = "write"]
  /\ UNCHANGED <<present, index, mem, job, owed>>

\* save, rest of fs::write: the text goes to the file that was opened,
\* whatever its name is by now.
WriteTmp(p) ==
  /\ step[p] = "write"
  /\ IF handle[p] = "tmp" THEN tmp' \in Written(tmp, mem[p]) ELSE UNCHANGED tmp
  /\ IF handle[p] = "index" THEN index' \in Written(index, mem[p]) ELSE UNCHANGED index
  /\ handle' = [handle EXCEPT ![p] = "none"]
  /\ step' = [step EXCEPT ![p] = "rename"]
  /\ UNCHANGED <<present, mem, job, owed>>

\* What a handle refers to once the temporary file has become the index.
Renamed(h) == IF h = "tmp" THEN "index" ELSE IF h = "index" THEN "gone" ELSE h

\* save, last step.  Whatever is called library.json.tmp becomes the index
\* and an addition is reported.
RenameTmp(p) ==
  /\ step[p] = "rename"
  /\ tmp # None
  /\ index' = tmp
  /\ tmp' = None
  /\ handle' = [q \in Process |-> Renamed(handle[q])]
  /\ owed' = IF job[p] = None THEN owed ELSE {f \in Insert(owed, job[p]) : Exists(f)}
  /\ step' = [step EXCEPT ![p] = "ready"]
  /\ job' = [job EXCEPT ![p] = None]
  /\ UNCHANGED <<present, mem>>

\* A mutant goes on to the rename when the write has failed.
MutSaveFails(p) ==
  /\ step[p] = "write"
  /\ "disk" \in Faults
  /\ handle' = [handle EXCEPT ![p] = "none"]
  /\ step' = [step EXCEPT ![p] = "rename"]
  /\ UNCHANGED <<disk, mem, job, owed>>

\* A step of save returns an error: the operation fails, the change it made
\* in memory stays.
SaveFails(p) ==
  /\ step[p] \in Saving
  /\ "disk" \in Faults \/ (step[p] = "rename" /\ tmp = None)
  /\ IF handle[p] = "tmp" THEN tmp' = Torn ELSE UNCHANGED tmp
  /\ IF handle[p] = "index" THEN index' = Torn ELSE UNCHANGED index
  /\ handle' = [handle EXCEPT ![p] = "none"]
  /\ step' = [step EXCEPT ![p] = "ready"]
  /\ job' = [job EXCEPT ![p] = None]
  /\ UNCHANGED <<present, mem, owed>>

-----------------------------------------------------------------------------
(* The surroundings.                                                       *)

Crash(p) ==
  /\ "crash" \in Faults
  /\ step[p] # "closed"
  /\ step' = [step EXCEPT ![p] = "closed"]
  /\ mem' = [mem EXCEPT ![p] = {}]
  /\ handle' = [handle EXCEPT ![p] = "none"]
  /\ job' = [job EXCEPT ![p] = None]
  /\ UNCHANGED <<disk, owed>>

\* A finished download takes the place of what lay at its path.
Fetch(f) ==
  /\ f \notin present
  /\ present' = (present \ At(f)) \cup {f}
  /\ UNCHANGED <<index, tmp, proc, owed>>

\* The user deletes a file behind the library's back.
Vanish(f) ==
  /\ f \in present
  /\ present' = present \ {f}
  /\ owed' = owed \ At(f)
  /\ UNCHANGED <<index, tmp, proc>>

Next ==
  \/ \E p \in Process :
       \/ Open(p) \/ Close(p) \/ \E f \in File : Add(p, f) \/ Remove(p, f)
       \/ DeleteFile(p) \/ OpenTmp(p) \/ WriteTmp(p) \/ RenameTmp(p) \/ SaveFails(p)
       \/ Crash(p)
  \/ \E f \in File : Fetch(f) \/ Vanish(f)

Spec == Init /\ [][Next]_vars

-----------------------------------------------------------------------------
(* Properties.                                                             *)

\* What a map from keys to entries can be.
Entries == {S \in SUBSET File : \A f, g \in S : SameKey(f, g) => f = g}

\* Type invariant: among the rest, no index and no session ever holds two
\* entries with one key.
TypeOK ==
  /\ present \in SUBSET File
  /\ index \in Entries \cup {None, Torn}
  /\ tmp \in Entries \cup {None, Torn}
  /\ step \in [Process -> Step]
  /\ mem \in [Process -> Entries]
  /\ handle \in [Process -> {"none", "tmp", "index", "gone"}]
  /\ job \in [Process -> File \cup {None}]
  /\ owed \in Entries

\* "Write-then-rename so a crash cannot truncate the index."
IndexWhole == index # Torn

\* "The local library: what has been downloaded": an addition that was
\* reported stays in the index until it is removed, replaced by an entry of
\* the same key, or its file disappears.
ReportedIsKept == owed \subseteq Parsed(index)

\* One session at a time uses the library as a store with atomic commits:
\* the index only ever changes, in one step, to what the session holds, so no
\* entry comes back by itself and a failed or interrupted save changes
\* nothing on disk.
Store == INSTANCE LibraryStore
           WITH Same <- {pair \in File \X File : SameKey(pair[1], pair[2])},
                store <- Parsed(index),
                open <- \E p \in Process : step[p] # "closed",
                view <- UNION {mem[p] : p \in Process}

StoreSpec == Store!SSpec

=============================================================================
