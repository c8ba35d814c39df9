--------------------------- MODULE MCRunLifecycle ---------------------------
(* Instances of RunLifecycle for TLC: the slots of one worker process.     *)
EXTENDS RunLifecycle

CONSTANT w1

OneProcess == [h \in Handlers |-> w1]
=============================================================================
