----------------------------- MODULE MCDiscover -----------------------------
(* A small instance of Discover: two queries and a few changes of the text.  *)
EXTENDS Discover, TLC

CONSTANTS q1, q2
=============================================================================
