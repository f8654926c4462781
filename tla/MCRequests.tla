----------------------------- MODULE MCRequests -----------------------------
(* Small instances of Requests: one or two calls, seconds scaled so that a   *)
(* limit may be shorter or longer than Cap and than the sum of the backoffs. *)
EXTENDS Requests, TLC

CONSTANTS r1, r2
=============================================================================
