---------------------------- MODULE MCCheckQueue ----------------------------
(* Two workers and four checks, one of which fails: the first batch may    *)
(* hold two checks, and both workers and the master can hold one at once.  *)
EXTENDS CheckQueue
=============================================================================
