--------------------------- MODULE MCComputerLease --------------------------
(* Instances of ComputerLease for TLC.                                     *)
EXTENDS ComputerLease

KindMap == [r1 |-> "work", r2 |-> "work", v |-> "visit", m |-> "boot",
            n |-> "recover", x |-> "restart"]
Owner == [r1 |-> "b1", r2 |-> "b2", v |-> "b2", m |-> "b1", n |-> "b1", x |-> "b1"]
All == DOMAIN KindMap

Behaviour(h, o, f) == [holders |-> h, operations |-> o, faults |-> f]
Mixed == {Behaviour({"r1", "v"}, {}, 0), Behaviour({"r1"}, {"stop"}, 0),
          Behaviour({"r2", "n"}, {}, 0), Behaviour({"r1", "x"}, {}, 0),
          Behaviour({"r1"}, {"takeover"}, 1), Behaviour({"r1", "m"}, {}, 0),
          Behaviour({"n"}, {}, 1), Behaviour({"m"}, {"stop"}, 1),
          Behaviour({"r1", "n"}, {}, 1), Behaviour({"r1"}, {"takeover", "cancel"}, 0),
          Behaviour({"r2", "v"}, {"cancel"}, 0)}
=============================================================================
