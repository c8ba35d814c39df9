------------------------ MODULE MCHistoryCompaction -------------------------
(* Instances of HistoryCompaction for TLC.                                 *)
EXTENDS HistoryCompaction

\* A thread never cleared, one cleared before there were generations, and
\* one with more compacted messages than the legacy window holds.
Legacy == {[base |-> 0, cursor |-> 0, next |-> 3],
           [base |-> 1, cursor |-> 1, next |-> 5],
           [base |-> 0, cursor |-> 3, next |-> 7]}
=============================================================================
