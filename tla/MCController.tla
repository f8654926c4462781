---------------------------- MODULE MCController ----------------------------
(* Small instances of Controller: two invocations that may run at the same   *)
(* time, and the commands each of them may be given.                         *)
EXTENDS Controller, TLC

CONSTANTS c1, c2, First, Second

MCCommand == (c1 :> First) @@ (c2 :> Second)
=============================================================================
