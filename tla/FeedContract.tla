---------------------------- MODULE FeedContract ----------------------------
(***************************************************************************)
(* What followThreadEvents promises its clients, without batches, signals, *)
(* locks or connections: events get ever higher numbers, they may be       *)
(* deleted, and a client moves from one event to the next without passing  *)
(* an event that exists.                                                   *)
(***************************************************************************)
EXTENDS Integers

CONSTANT Followers
VARIABLES last,    \* the highest number given to an event, -1 at first
          events,  \* the numbers of the events that exist
          cursor   \* the last event each client received

\* Transactions add events above all earlier ones and delete any others.
Change ==
  /\ last' >= last
  /\ events' \subseteq events \cup (last + 1 .. last')
  /\ UNCHANGED cursor

\* A client receives an event, possibly one that was deleted meanwhile.
Receive(f) == \E e \in cursor[f] + 1 .. last :
  /\ \A other \in events : ~(cursor[f] < other /\ other < e)
  /\ cursor' = [cursor EXCEPT ![f] = e]
  /\ UNCHANGED <<last, events>>

Init == last = -1 /\ events = {} /\ cursor = [f \in Followers |-> -1]

Next == Change \/ \E f \in Followers : Receive(f)

Spec == Init /\ [][Next]_<<last, events, cursor>>
=============================================================================
