------------------------- MODULE MCComputerControl --------------------------
(* Instances of ComputerControl for TLC: two bots of a team computer, two  *)
(* runs of the first and one of the second.                                *)
EXTENDS ComputerControl

CONSTANTS b1, b2, r1, r2, s1

BotsOf == [r \in Runs |-> IF r = s1 THEN b2 ELSE b1]

Times(t, r, e, u, s, c) ==
  [k \in RequestKinds |-> CASE k = "takeover" -> t [] k = "release" -> r
     [] k = "teach" -> e [] k = "unteach" -> u [] k = "stop" -> s [] k = "call" -> c
     [] OTHER -> 0]
With(times, kind) == [times EXCEPT ![kind] = @ + 1]
Case(runs, times, count) == [runs |-> runs, requests |-> times, faults |-> count]
\* Late releases; transfers, which may fail; a crash, failures or a duplicate
\* job; a stop; a teaching session, also beside a takeover; two runs of a bot;
\* a stop or clear of one of their threads; a boot.
Mixed == {Case({}, Times(2, 1, 0, 0, 0, 0), 0),
          Case({}, Times(2, 0, 0, 0, 0, 0), 1),
          Case({r1}, Times(2, 0, 0, 0, 0, 0), 0),
          Case({r1}, Times(1, 1, 0, 0, 0, 1), 1),
          Case({r1}, Times(1, 0, 0, 0, 1, 0), 1),
          Case({r1}, Times(0, 0, 1, 1, 0, 0), 1),
          Case({}, Times(1, 0, 1, 0, 0, 0), 0),
          Case({r1, r2}, Times(1, 0, 0, 0, 0, 0), 0),
          Case({r1, r2}, With(Times(1, 0, 0, 0, 0, 0), "halt"), 0),
          Case({r1}, With(Times(1, 0, 0, 0, 0, 0), "halt"), 1),
          Case({r1}, With(Times(1, 0, 0, 0, 0, 0), "replace"), 0)}
=============================================================================
