----------------------------- MODULE Propertiesd ----------------------------
(***************************************************************************)
(* The properties daemon of the old Shashlik: a module of kded that keeps  *)
(* Android's system properties in a settings file and hands them out over  *)
(* a local socket.  Clients wait for the answer to one request before they *)
(* send the next; the daemon may be stopped, or end with kded, and is      *)
(* started again.  Some requests are never answered; who sent one waits    *)
(* until the daemon ends.                                                  *)
(*                                                                         *)
(* A key is its path in the file: the parts between its dots, the empty    *)
(* ones left out, so that two keys may be one setting.  The sizes of keys  *)
(* and values are not modelled, nor what follows the answer to a set,      *)
(* which is written without an end.                                        *)
(***************************************************************************)
EXTENDS Naturals, FiniteSets

CONSTANTS Client,    \* processes connected to the daemon
          Key,       \* keys they ask for
          Setting,   \* paths in the file
          Path,      \* the path of each key
          Plain,     \* paths of one part
          Default,   \* the settings initProperties writes
          Value,     \* values
          Initial,   \* the value it writes for each
          Faults,    \* of "stop" and "crash": how the daemon ends
          None,      \* no request, no answer
          Unset      \* the answer that there is no value

\* No key of initProperties is plain.  A key may be empty, or have no part
\* that is not.
ASSUME PropertiesdAssumption ==
  /\ Path \in [Key -> Setting \cup {"empty", "nothing"}]
  /\ {"empty", "nothing"} \cap Setting = {}
  /\ Plain \subseteq Setting /\ Default \subseteq Setting \ Plain
  /\ Initial \in [Default -> Value]
  /\ None \notin Value /\ Unset \notin Value

VARIABLES
  running,   \* the daemon is loaded
  settings,  \* m_properties, as the daemon sees it
  file,      \* what of it is saved
  request,   \* what each client waits for an answer to
  read,      \* the clients whose request was read, but not answered
  answer     \* the answer each client got to its last request

vars == <<running, settings, file, request, read, answer>>

\* "short" is less than two bytes, "unknown" kSystemPropertyUnknown, "bad" any
\* number that is no command.
Ignored == {"list", "short", "unknown"}
Request == [what : {"get"}, key : Key] \cup [what : {"set"}, key : Key, value : Value]
           \cup [what : Ignored \cup {"bad"}]

Stored == [Setting -> Value \cup {None}]
Nothing == [s \in Setting |-> None]

Init ==
  /\ running = FALSE
  /\ settings = Nothing
  /\ file = Nothing
  /\ request = [c \in Client |-> None]
  /\ read = {}
  /\ answer = [c \in Client |-> None]

-----------------------------------------------------------------------------
\* A mutant writes the empty key too.
MutWritten(st, p, v) == [s \in DOMAIN st \cup {p} |-> IF s = p THEN v ELSE st[s]]

\* writeProperty and readProperty, for a path that is not "nothing".
Written(st, p, v) == IF p = "empty" THEN st ELSE [st EXCEPT ![p] = v]
Read(st, p) == IF p = "empty" \/ st[p] = None THEN Unset ELSE st[p]

\* childKeys, at the top of the file: the keys in groups are not among them.
ChildKeys(st) == {s \in Plain : st[s] # None}

\* A mutant asks the wrong way round whether there are any.
MutInitProperties(st) ==
  IF ChildKeys(st) = {} THEN st ELSE [s \in Setting |-> IF s \in Default THEN Initial[s] ELSE st[s]]

InitProperties(st) ==
  IF ChildKeys(st) # {} THEN st
  ELSE [s \in Setting |-> IF s \in Default THEN Initial[s] ELSE st[s]]

\* A mutant forgets what was in the file.
MutStart ==
  /\ ~running
  /\ running' = TRUE
  /\ settings' = InitProperties(Nothing)
  /\ UNCHANGED <<file, request, read, answer>>

\* The constructor: no request is read before it is done.
Start ==
  /\ ~running
  /\ running' = TRUE
  /\ settings' = InitProperties(file)
  /\ UNCHANGED <<file, request, read, answer>>

\* The settings are saved some time after they were changed.
Sync ==
  /\ running
  /\ file # settings
  /\ file' = settings
  /\ UNCHANGED <<running, settings, request, read, answer>>

\* The daemon ends: the sockets are closed, and what they carried is gone.
Ends ==
  /\ running' = FALSE
  /\ settings' = Nothing
  /\ request' = [c \in Client |-> None]
  /\ read' = {}
  /\ UNCHANGED answer

\* The destructor, and that of the settings, which saves them.
Stop == running /\ "stop" \in Faults /\ Ends /\ file' = settings
Crash == running /\ "crash" \in Faults /\ Ends /\ UNCHANGED file

-----------------------------------------------------------------------------
(* readRequest                                                             *)

Asks(c, what) == running /\ c \notin read /\ request[c] # None /\ request[c].what = what
Answers(c, a) ==
  /\ answer' = [answer EXCEPT ![c] = a]
  /\ request' = [request EXCEPT ![c] = None]
  /\ UNCHANGED read

\* A path without parts has no last one: kded ends, or runs on what follows
\* the list, which is not modelled.
Aborts(c) ==
  /\ Asks(c, "get") \/ Asks(c, "set")
  /\ Path[request[c].key] = "nothing"
  /\ Ends
  /\ UNCHANGED file

Get(c) ==
  /\ Asks(c, "get")
  /\ Path[request[c].key] # "nothing"
  /\ Answers(c, Read(settings, Path[request[c].key]))
  /\ UNCHANGED <<running, settings, file>>

\* Nothing is written.
Ignores(c) == read' = read \cup {c} /\ UNCHANGED <<request, answer>>

\* A mutant does not answer.
MutSet(c) ==
  /\ Asks(c, "set")
  /\ Path[request[c].key] # "nothing"
  /\ settings' = Written(settings, Path[request[c].key], request[c].value)
  /\ Ignores(c)
  /\ UNCHANGED <<running, file>>

Set(c) ==
  /\ Asks(c, "set")
  /\ Path[request[c].key] # "nothing"
  /\ settings' = Written(settings, Path[request[c].key], request[c].value)
  /\ Answers(c, "done")
  /\ UNCHANGED <<running, file>>

\* A number that is no command is answered with zeroes.  What has no command,
\* the unknown one or a list is read, and that is all.
Other(c) ==
  /\ \/ Asks(c, "bad") /\ Answers(c, "00")
     \/ (\E what \in Ignored : Asks(c, what)) /\ Ignores(c)
  /\ UNCHANGED <<running, settings, file>>

ReadRequest(c) == Get(c) \/ Set(c) \/ Other(c) \/ Aborts(c)

\* A client sends a request.
Send(c, r) ==
  /\ running
  /\ request[c] = None
  /\ request' = [request EXCEPT ![c] = r]
  /\ answer' = [answer EXCEPT ![c] = None]
  /\ UNCHANGED <<running, settings, file, read>>

Next ==
  \/ Start \/ Sync \/ Stop \/ Crash
  \/ \E c \in Client : ReadRequest(c) \/ \E r \in Request : Send(c, r)

Spec == Init /\ [][Next]_vars

\* kded's event loop comes to every socket.
FairSpec == Spec /\ \A c \in Client : WF_vars(ReadRequest(c))
-----------------------------------------------------------------------------
(* Properties.                                                             *)

TypeOK ==
  /\ running \in BOOLEAN
  /\ settings \in Stored
  /\ file \in Stored
  /\ request \in [Client -> Request \cup {None}]
  /\ read \subseteq Client
  /\ answer \in [Client -> Value \cup {"done", "00", Unset, None}]

\* Every property there is a default for has a value while the daemon runs,
\* also when it found a file in which it wrote none of them (initProperties).
DefaultsPresent == running => \A s \in Default : settings[s] # None

\* A setting that was saved stays in the file, over stops, crashes and
\* starts: the daemon starts from what it finds (Propertiesd::Propertiesd).
SavedStays == [][\A s \in Setting : file[s] # None => file'[s] # None]_vars

\* Only who sent a request readRequest has no answer for waits for ever: any
\* other gets an answer, or hears that the daemon ended, whatever the requests
\* of other clients and ends and starts of the daemon in between.
Waits(c) == request[c] # None
RequestsEnd ==
  \A c \in Client : Waits(c) ~> ~Waits(c) \/ (c \in read /\ request[c].what \in Ignored)

\* A daemon that finds values in its file uses those ("we already have
\* values, let's just use those", initProperties).
SavedValuesAreUsed ==
  [][(~running /\ running' /\ \E s \in Setting : file[s] # None) => settings' = file]_vars
=============================================================================
