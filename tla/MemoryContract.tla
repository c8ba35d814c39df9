--------------------------- MODULE MemoryContract ---------------------------
(***************************************************************************)
(* What the compaction of a thread promises to the runs that read it,      *)
(* without jobs, cursors, generations or retries: the summary stands for   *)
(* the beginning of the conversation, grows along it, never stands for a   *)
(* message that was cleared, and is forgotten with the conversation.       *)
(***************************************************************************)
EXTENDS Integers

VARIABLES first,  \* number of the first message of the conversation
          next,   \* number of the next message
          told    \* the messages the summary stands for

Init == /\ first \in Nat /\ next \in Nat /\ first <= next
        /\ told = {}

Say == next' = next + 1 /\ UNCHANGED <<first, told>>

Digest == /\ \E n \in first .. next - 1 : told' = first .. n
          /\ told \subseteq told'
          /\ UNCHANGED <<first, next>>

Forget == first' = next /\ told' = {} /\ UNCHANGED next

Next == Say \/ Digest \/ Forget

Spec == Init /\ [][Next]_<<first, next, told>>
=============================================================================
