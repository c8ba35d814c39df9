---------------------------- MODULE MCDelegation ----------------------------
(* Instances of Delegation for TLC.                                        *)
EXTENDS Delegation, TLC

CONSTANTS a, b, c

\* Nothing orders keys, slots or founders.
Symmetry ==
  Permutations(Keys) \cup Permutations(Handlers) \cup Permutations(Requests)
    \cup Permutations(Founders)
=============================================================================
