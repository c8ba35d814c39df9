----------------------------- MODULE MCRoutines -----------------------------
(* Instances of Routines for TLC.                                          *)
EXTENDS Routines

\* Two routines, one with failures, one with a request.
Mixed == {[routines |-> {1, 2}, edits |-> 0, faults |-> 0],
          [routines |-> {1}, edits |-> 0, faults |-> 2],
          [routines |-> {1}, edits |-> 1, faults |-> 0]}

\* One routine that is edited twice, and no failures.
Edited == {[routines |-> {1}, edits |-> 2, faults |-> 0]}
=============================================================================
