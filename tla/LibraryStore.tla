---------------------------- MODULE LibraryStore ----------------------------
(***************************************************************************)
(* What the library promises one session: a durable set of entries that    *)
(* changes in one step, to exactly what the session holds in memory, and   *)
(* that no failure or crash between two such steps touches.                *)
(***************************************************************************)
CONSTANTS File,  \* what an entry may describe
          Same   \* the pairs of entries that are filed under one key

VARIABLES store,  \* the entries on disk
          open,   \* a session has the library open
          view    \* the entries that session holds

svars == <<store, open, view>>

SInit == store = {} /\ open = FALSE /\ view = {}

\* A session begins with what is stored, less the entries whose file is gone.
Begin ==
  /\ ~open
  /\ open' = TRUE
  /\ view' \in SUBSET store
  /\ UNCHANGED store

\* An entry is filed; it takes the place of one with the same key.
Put(f) ==
  /\ open
  /\ view' = {g \in view : <<f, g>> \notin Same} \cup {f}
  /\ UNCHANGED <<store, open>>

Drop(f) ==
  /\ open
  /\ view' = view \ {f}
  /\ UNCHANGED <<store, open>>

\* The session's entries become the stored ones.
Commit ==
  /\ open
  /\ store' = view
  /\ UNCHANGED <<open, view>>

\* The session ends, or its process dies.
Finish ==
  /\ open
  /\ open' = FALSE
  /\ view' = {}
  /\ UNCHANGED store

SNext == Begin \/ (\E f \in File : Put(f) \/ Drop(f)) \/ Commit \/ Finish

SSpec == SInit /\ [][SNext]_svars
=============================================================================
