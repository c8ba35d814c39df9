---------------------------- MODULE MCThreadView ----------------------------
(* Instances of ThreadView for TLC.                                        *)
EXTENDS ThreadView

OneRun == 1 .. 1
TwoRuns == 1 .. 2
=============================================================================
