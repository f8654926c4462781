------------------------------ MODULE PartFile ------------------------------
(***************************************************************************)
(* What the download engine promises of one file of the user's directory:  *)
(* the part grows by one block at a time, each at its place, or is begun   *)
(* anew or given up; it becomes the file in one step, when what it holds   *)
(* is acceptable; and nothing else ever happens to the file.               *)
(*                                                                         *)
(* What is under a name is the set of contents found there: none or one.   *)
(***************************************************************************)
EXTENDS Naturals, Sequences

CONSTANTS Version,    \* what blocks may come from
          Acceptable  \* what a file may hold

VARIABLES held,  \* under the name of the part
          kept   \* under the name of the file

fvars == <<held, kept>>

FInit == held = {} /\ kept = {}

\* The part is begun, or begun anew.
Begin ==
  /\ held' = {<< >>}
  /\ UNCHANGED kept

\* A block reaches the part.
Extend(v) ==
  /\ \E s \in held : held' = {Append(s, <<v, Len(s) + 1>>)}
  /\ UNCHANGED kept

\* The part is given up.
GiveUp ==
  /\ held' = {}
  /\ UNCHANGED kept

\* The part becomes the file, in place of one that was there.
Publish ==
  /\ \E s \in held : s \in Acceptable
  /\ kept' = held
  /\ held' = {}

FNext == Begin \/ (\E v \in Version : Extend(v)) \/ GiveUp \/ Publish

FSpec == FInit /\ [][FNext]_fvars
=============================================================================
