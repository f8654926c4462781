----------------------------- MODULE MCDownload -----------------------------
(* Small instances of Download: two or three calls of two processes on one  *)
(* variant whose published version has two blocks and whose later           *)
(* publication, where there is one, has three or one.                       *)
EXTENDS Download, TLC

CONSTANTS a1, a2, a3, gui, cli, v1, v2

\* The first and third call run in the GUI, the second in the CLI.
MCOwner == [a \in Attempt |-> IF a = a2 THEN cli ELSE gui]
MCSizeGrows == [v \in Version |-> IF v = v1 THEN 2 ELSE 3]
=============================================================================
