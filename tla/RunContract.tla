---------------------------- MODULE RunContract -----------------------------
(***************************************************************************)
(* What a run promises its user, without leases, attempts or jobs: it      *)
(* works, it may wait for the user and work again, and it ends once, by    *)
(* settling or by being cancelled.                                         *)
(***************************************************************************)
CONSTANT Runs
VARIABLE phase

Phases == {"none", "working", "waiting", "settled", "cancelled"}

Move(r, from, to) == phase[r] = from /\ phase' = [phase EXCEPT ![r] = to]

Begin(r)  == Move(r, "none", "working")
Pause(r)  == Move(r, "working", "waiting")
Resume(r) == Move(r, "waiting", "working")
Settle(r) == Move(r, "working", "settled")

\* One request cancels any set of runs that have not ended, and a send may
\* begin a run in the same step.
Cancel ==
  \E gone \in SUBSET {r \in Runs : phase[r] \in {"working", "waiting"}},
     new \in SUBSET {r \in Runs : phase[r] = "none"} :
    phase' = [r \in Runs |-> IF r \in gone THEN "cancelled"
                             ELSE IF r \in new THEN "working" ELSE phase[r]]

Init == phase = [r \in Runs |-> "none"]

Next == Cancel \/ \E r \in Runs : Begin(r) \/ Pause(r) \/ Resume(r) \/ Settle(r)

Spec == Init /\ [][Next]_phase
=============================================================================
