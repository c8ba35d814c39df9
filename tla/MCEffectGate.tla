---------------------------- MODULE MCEffectGate ----------------------------
(* Instances of EffectGate for TLC.                                        *)
EXTENDS EffectGate, TLC

CONSTANTS q1, q2, t1, t2

\* Two tools.
TwoTools == (q1 :> t1) @@ (q2 :> t2)

\* A broad rule that asks for every tool, as a connector or category rule.
Broad == [effect |-> "require_approval", tools |-> Tools, level |-> 2]
BroadOnly == {Broad}

Slots == Permutations(Handlers)
=============================================================================
