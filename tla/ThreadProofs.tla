---------------------------- MODULE ThreadProofs ----------------------------
(***************************************************************************)
(* Proofs about a thread's events on both sides of the stream.  First      *)
(* EventFeed, for any number of writers and followers, any batch size and  *)
(* any faults: the feed never passes an event, no follower sleeps through  *)
(* one, and the connection is always on its way back.  Then ThreadView,    *)
(* for any number of runs, events, refreshes and lost connections: what    *)
(* the web client shows once it has settled is what the thread holds.      *)
(* The two components share no state here: the stream of ThreadView is     *)
(* the promise of FeedContract, which EventFeed keeps.                     *)
(***************************************************************************)
EXTENDS EventFeed, ThreadView, FiniteSetTheorems, TLAPS

-----------------------------------------------------------------------------
(* The event stream.                                                       *)

\* The numbers: events and the numbers taken lie below the counters that
\* gave them, and a transaction goes on from the committed counter.
Numbered ==
  /\ events \subseteq 0 .. nextEventSeq - 1
  /\ \A w \in Writers :
       /\ writer[w].step = "open" => writer[w].from = nextEventSeq
       /\ writer[w].step = "open" => writer[w].next > writer[w].from

\* A batch is a piece of the table: nothing in the table lies between the
\* client's cursor and the end of the batch without being in the batch.
Contiguous ==
  \A f \in Followers :
    /\ cursor[f] < nextEventSeq /\ cursor[f] >= -1
    /\ follower[f].batch \subseteq cursor[f] + 1 .. nextEventSeq - 1
    /\ \A e \in events, b \in follower[f].batch :
         cursor[f] < e /\ e \notin follower[f].batch => b < e

IInv == TypeOK /\ Numbered /\ Contiguous

\* Why an event will still be noticed: its NOTIFY is due, a NOTIFY is on its
\* way, or the connection is down and will tell everyone when it is up.
Due(e) ==
  \/ \E w \in Writers : writer[w].step = "committed" /\ e \in Seqs(w)
  \/ signals > 0 \/ link # "up"

\* A follower past its observation knows of every event, or will.
Aware ==
  \A f \in Followers, e \in events \ unheard :
    /\ At(f, "yield") /\ ~follower[f].full /\ cursor[f] < e /\ e \notin follower[f].batch
         => follower[f].changed \/ Due(e)
    /\ At(f, "asleep") /\ cursor[f] < e => Due(e)

-----------------------------------------------------------------------------
LEMMA InitInvariant == Init => IInv
<1> SUFFICES ASSUME Init PROVE IInv OBVIOUS
<1> USE FeedAssumption DEF Init
<1>1. writer \in [Writers -> Writer] /\ follower \in [Followers -> Follower]
  BY DEF Writer, Idle, Follower, Off
<1>2. TypeOK
  <2>1. cursor \in [Followers -> Int] OBVIOUS
  <2>2. \A w \in Writers : writer[w].step # "open" /\ lock # w BY DEF Idle
  <2> QED BY <1>1, <2>1, <2>2 DEF TypeOK, Links
<1>3. Numbered BY DEF Numbered, Idle
<1>4. Contiguous BY DEF Contiguous, Off
<1> QED BY <1>2, <1>3, <1>4 DEF IInv

LEMMA TypeStep == IInv /\ [Next]_vars => TypeOK'
<1> SUFFICES ASSUME IInv, [Next]_vars PROVE TypeOK' OBVIOUS
<1> USE FeedAssumption DEF IInv, TypeOK, Links, Writer, Follower
<1>0. CASE UNCHANGED vars BY <1>0 DEF vars, table, fanout
<1>1. ASSUME NEW w \in Writers, AppendEvent(w) PROVE TypeOK'
  <2>1. CASE writer[w].step = "idle" BY <1>1, <2>1 DEF AppendEvent, MayLock, fanout
  <2>2. CASE writer[w].step = "open" BY <1>1, <2>2 DEF AppendEvent, MayLock, fanout
  <2> QED BY <1>1, <2>1, <2>2 DEF AppendEvent
<1>2. ASSUME NEW w \in Writers, Commit(w) PROVE TypeOK'
  <2>1. events' \in SUBSET Nat /\ progress' \in SUBSET events'
    BY <1>2 DEF Commit, Seqs
  <2> QED BY <1>2, <2>1 DEF Commit, fanout
<1>3. ASSUME NEW w \in Writers, Rollback(w) PROVE TypeOK'
  BY <1>3 DEF Rollback, Idle, fanout
<1>4. CASE DeleteProgress BY <1>4 DEF DeleteProgress, fanout
<1>5. ASSUME NEW w \in Writers, Notify(w) PROVE TypeOK'
  BY <1>5 DEF Notify, Announced, Idle
<1>6. ASSUME NEW w \in Writers, NotifyFails(w) PROVE TypeOK'
  <2>1. unheard' = unheard \cup Seqs(w) /\ Seqs(w) \subseteq Nat
    BY <1>6 DEF NotifyFails, Seqs
  <2>2. unheard' \in SUBSET Nat BY <2>1
  <2>3. faults' \in Nat BY <1>6 DEF NotifyFails, Fault
  <2>4. writer' = [writer EXCEPT ![w] = Idle] /\ writer[w].step = "committed"
    BY <1>6 DEF NotifyFails, Announced
  <2>5. writer' \in [Writers -> Writer] BY <2>4 DEF Idle
  <2>6. UNCHANGED <<nextEventSeq, lock, events, progress, fanout, follower, cursor, resumes>>
    BY <1>6 DEF NotifyFails
  <2>7. \A v \in Writers : writer'[v].step = "open" <=> lock' = v
    BY <2>4, <2>6 DEF Idle
  <2> QED BY <2>2, <2>3, <2>5, <2>6, <2>7 DEF fanout
<1>7. CASE Listen BY <1>7 DEF Listen, table
<1>8. CASE Connected
  <2>1. follower' \in [Followers -> Follower]
    <3>1. CASE NotifySubscribers BY <3>1 DEF NotifySubscribers, At
    <3>2. CASE UNCHANGED follower BY <3>2
    <3> QED BY <1>8, <3>1, <3>2 DEF Connected
  <2>2. link' \in Links /\ signals' \in Nat BY <1>8 DEF Connected
  <2> QED BY <1>8, <2>1, <2>2 DEF Connected, table
<1>9. CASE HandleNotification BY <1>9 DEF HandleNotification, table, NotifySubscribers, At
<1>10. CASE HandleDisconnect BY <1>10 DEF HandleDisconnect, table, Fault, scheduleReconnect
<1>11. CASE ConnectFails BY <1>11 DEF ConnectFails, table, Fault
<1>12. CASE ConnectSettles BY <1>12 DEF ConnectSettles, table, scheduleReconnect
<1>13. CASE Reconnect BY <1>13 DEF Reconnect, table, ensureConnected
<1>14. ASSUME NEW f \in Followers, Follow(f) PROVE TypeOK'
  BY <1>14 DEF Follow, GoTo, table, ensureConnected
<1>15. ASSUME NEW f \in Followers, Observe(f) PROVE TypeOK'
  BY <1>15 DEF Observe, table, fanout
<1>16. ASSUME NEW f \in Followers, Query(f) PROVE TypeOK'
  BY <1>16 DEF Query, table, fanout
<1>17. ASSUME NEW f \in Followers, Yield(f) PROVE TypeOK'
  BY <1>17 DEF Yield, table, fanout
<1>18. ASSUME NEW f \in Followers, EndBatch(f) PROVE TypeOK'
  BY <1>18 DEF EndBatch, AfterBatch, GoTo, table, fanout
<1>19. ASSUME NEW f \in Followers, CatchUp(f) PROVE TypeOK'
  BY <1>19 DEF CatchUp, GoTo, table, fanout
<1>20. ASSUME NEW f \in Followers, Leave(f) PROVE TypeOK'
  BY <1>20 DEF Leave, Off, table, fanout
<1> QED BY <1>0, <1>1, <1>2, <1>3, <1>4, <1>5, <1>6, <1>7, <1>8, <1>9, <1>10, <1>11,
          <1>12, <1>13, <1>14, <1>15, <1>16, <1>17, <1>18, <1>19, <1>20
       DEF Next, WriterStep, FanoutStep, FollowerStep

-----------------------------------------------------------------------------
\* The counters and the table change only in transactions and deletions.
LEMMA NumberedStep == IInv /\ [Next]_vars => Numbered'
<1> SUFFICES ASSUME IInv, [Next]_vars PROVE Numbered' OBVIOUS
<1> USE FeedAssumption DEF IInv, TypeOK, Numbered, Writer
<1>1. ASSUME NEW w \in Writers, AppendEvent(w) PROVE Numbered'
  <2>1. CASE writer[w].step = "idle"
    BY <1>1, <2>1 DEF AppendEvent, MayLock
  <2>2. CASE writer[w].step = "open" BY <1>1, <2>2 DEF AppendEvent, MayLock
  <2> QED BY <1>1, <2>1, <2>2 DEF AppendEvent
<1>2. ASSUME NEW w \in Writers, Commit(w) PROVE Numbered'
  <2>1. events' \subseteq 0 .. nextEventSeq' - 1 BY <1>2 DEF Commit, Seqs
  <2>2. \A v \in Writers : writer'[v].step # "open" BY <1>2 DEF Commit
  <2> QED BY <2>1, <2>2
<1>3. ASSUME NEW w \in Writers, Rollback(w) PROVE Numbered'
  BY <1>3 DEF Rollback, Idle
<1>4. CASE DeleteProgress BY <1>4 DEF DeleteProgress
<1>5. ASSUME NEW w \in Writers, Notify(w) PROVE Numbered'
  BY <1>5 DEF Notify, Announced, Idle
<1>6. ASSUME NEW w \in Writers, NotifyFails(w) PROVE Numbered'
  BY <1>6 DEF NotifyFails, Announced, Idle
<1>7. CASE UNCHANGED table BY <1>7 DEF table
<1> QED BY <1>1, <1>2, <1>3, <1>4, <1>5, <1>6, <1>7
       DEF Next, WriterStep, FanoutStep, FollowerStep, vars, Listen, Connected,
           HandleNotification, HandleDisconnect, ConnectFails, ConnectSettles, Reconnect,
           Follow, Observe, Query, Yield, EndBatch, CatchUp, Leave

\* New numbers lie above every batch, deletions only take events away, and a
\* query reads the first events past the cursor.
LEMMA ContiguousStep == IInv /\ [Next]_vars => Contiguous'
<1> SUFFICES ASSUME IInv, [Next]_vars PROVE Contiguous' OBVIOUS
<1> USE FeedAssumption DEF IInv, TypeOK, Numbered, Contiguous, Writer, Follower
<1>1. ASSUME UNCHANGED <<nextEventSeq, cursor>>, events' \subseteq events,
             \A f \in Followers : follower'[f].batch \subseteq follower[f].batch,
             \A f \in Followers : follower'[f].batch \in {{}, follower[f].batch}
      PROVE  Contiguous'
  BY <1>1
<1>2. ASSUME NEW w \in Writers, Commit(w) PROVE Contiguous'
  <2>1. nextEventSeq' > nextEventSeq /\ nextEventSeq' \in Nat BY <1>2 DEF Commit
  <2>2. \A e \in events' : e \in events \/ e >= nextEventSeq BY <1>2 DEF Commit, Seqs
  <2>3. UNCHANGED <<follower, cursor>> BY <1>2 DEF Commit
  <2>4. events' \subseteq Nat BY <1>2 DEF Commit, Seqs
  <2> QED BY <2>1, <2>2, <2>3, <2>4
<1>3. ASSUME NEW f \in Followers, Query(f) PROVE Contiguous'
  <2>1. PICK batch \in SUBSET events : FirstAfter(f, batch) /\ follower'[f].batch = batch
    BY <1>3 DEF Query
  <2>2. \A g \in Followers : g # f => follower'[g] = follower[g] BY <1>3 DEF Query
  <2>3. UNCHANGED <<nextEventSeq, cursor, events>> BY <1>3 DEF Query, table
  <2>4. batch \subseteq cursor[f] + 1 .. nextEventSeq - 1 BY <2>1 DEF FirstAfter
  <2>5. \A e \in events, b \in batch : cursor[f] < e /\ e \notin batch => b < e
    BY <2>1 DEF FirstAfter
  <2> QED BY <2>1, <2>2, <2>3, <2>4, <2>5
<1>4. ASSUME NEW f \in Followers, Yield(f) PROVE Contiguous'
  <2>1. PICK e \in follower[f].batch :
          /\ \A other \in follower[f].batch : e <= other
          /\ cursor' = [cursor EXCEPT ![f] = e]
          /\ follower' = [follower EXCEPT ![f].batch = @ \ {e}]
    BY <1>4 DEF Yield
  <2>2. UNCHANGED <<nextEventSeq, events>> BY <1>4 DEF Yield, table
  <2>3. e \in cursor[f] + 1 .. nextEventSeq - 1 BY <2>1
  <2>4. \A g \in Followers : g # f => follower'[g] = follower[g] /\ cursor'[g] = cursor[g]
    BY <2>1
  <2>5. follower'[f].batch = follower[f].batch \ {e} /\ cursor'[f] = e BY <2>1
  <2>6. follower'[f].batch \subseteq cursor'[f] + 1 .. nextEventSeq - 1
    <3> SUFFICES ASSUME NEW x \in follower[f].batch \ {e}
                 PROVE  x \in e + 1 .. nextEventSeq - 1
      BY <2>5
    <3>1. x \in cursor[f] + 1 .. nextEventSeq - 1 /\ e <= x /\ x # e BY <2>1
    <3> QED BY <3>1, <2>3
  <2>7. \A x \in events, b \in follower'[f].batch :
          cursor'[f] < x /\ x \notin follower'[f].batch => b < x
    BY <2>1, <2>3, <2>5
  <2> QED BY <2>2, <2>3, <2>4, <2>5, <2>6, <2>7
<1>5. ASSUME NEW w \in Writers, AppendEvent(w) \/ Rollback(w) \/ Notify(w) \/ NotifyFails(w)
      PROVE Contiguous'
  BY <1>5, <1>1 DEF AppendEvent, Rollback, Notify, NotifyFails
<1>6. CASE DeleteProgress BY <1>6, <1>1 DEF DeleteProgress
<1>7. CASE Connected \/ HandleNotification
  BY <1>7, <1>1 DEF Connected, HandleNotification, NotifySubscribers, table
<1>8. CASE Listen \/ HandleDisconnect \/ ConnectFails \/ ConnectSettles \/ Reconnect
  BY <1>8, <1>1 DEF Listen, HandleDisconnect, ConnectFails, ConnectSettles, Reconnect, table
<1>9. ASSUME NEW f \in Followers,
             Follow(f) \/ Observe(f) \/ EndBatch(f) \/ CatchUp(f) \/ Leave(f)
      PROVE Contiguous'
  BY <1>9, <1>1 DEF Follow, Observe, EndBatch, CatchUp, Leave, GoTo, Off, table
<1>10. CASE UNCHANGED vars BY <1>10, <1>1 DEF vars, table
<1> QED BY <1>2, <1>3, <1>4, <1>5, <1>6, <1>7, <1>8, <1>9, <1>10
       DEF Next, WriterStep, FanoutStep, FollowerStep

LEMMA Invariance == Spec => []IInv
<1>1. IInv /\ [Next]_vars => IInv'
  BY TypeStep, NumberedStep, ContiguousStep DEF IInv
<1> QED BY InitInvariant, <1>1, PTL DEF Spec

\* The type invariant of the event stream.
THEOREM FeedTypeCorrect == Spec => []TypeOK
<1>1. IInv => TypeOK BY DEF IInv
<1> QED BY Invariance, <1>1, PTL

-----------------------------------------------------------------------------
\* Every client gets the events in order and passes none that exists: the
\* code implements the contract, step by step.
THEOREM ClientsMissNothing == Spec => ImplementsFeed
<1>1. Init => Feed!Init BY DEF Init, Feed!Init
<1>2. IInv /\ IInv' /\ [Next]_vars => [Feed!Next]_<<nextEventSeq - 1, events, cursor>>
  <2> SUFFICES ASSUME IInv, IInv', [Next]_vars
               PROVE  [Feed!Next]_<<nextEventSeq - 1, events, cursor>>
    OBVIOUS
  <2> USE FeedAssumption DEF IInv, TypeOK, Numbered, Contiguous, Writer, Follower
  <2>1. CASE UNCHANGED <<nextEventSeq, events, cursor>> BY <2>1
  <2>2. ASSUME NEW w \in Writers, Commit(w) PROVE Feed!Change
    <3>1. nextEventSeq' = writer[w].next /\ writer[w].from = nextEventSeq
          /\ writer[w].next > writer[w].from /\ UNCHANGED cursor
      BY <2>2 DEF Commit
    <3>2. events' \subseteq events \cup Seqs(w) BY <2>2 DEF Commit
    <3>3. Seqs(w) = (nextEventSeq - 1) + 1 .. nextEventSeq' - 1 BY <3>1 DEF Seqs
    <3> QED BY <3>1, <3>2, <3>3 DEF Feed!Change
  <2>3. CASE DeleteProgress
    <3>1. nextEventSeq' = nextEventSeq /\ cursor' = cursor /\ events' \subseteq events
      BY <2>3 DEF DeleteProgress
    <3>2. nextEventSeq' - 1 >= nextEventSeq - 1 BY <3>1
    <3> QED BY <3>1, <3>2 DEF Feed!Change, Feed!Next
  <2>4. ASSUME NEW f \in Followers, Yield(f) PROVE Feed!Receive(f)
    <3>1. PICK e \in follower[f].batch :
            /\ \A other \in follower[f].batch : e <= other
            /\ cursor' = [cursor EXCEPT ![f] = e]
      BY <2>4 DEF Yield
    <3>2. UNCHANGED <<nextEventSeq, events>> BY <2>4 DEF Yield, table
    <3>3. e \in cursor[f] + 1 .. nextEventSeq - 1 BY <3>1
    <3>4. \A other \in events : ~(cursor[f] < other /\ other < e)
      BY <3>1, <3>3
    <3> QED BY <3>1, <3>2, <3>3, <3>4 DEF Feed!Receive
  <2> QED BY <2>1, <2>2, <2>3, <2>4
         DEF Next, WriterStep, FanoutStep, FollowerStep, vars, table, Feed!Next, AppendEvent,
             Rollback, Notify, NotifyFails, Listen, Connected, HandleNotification,
             HandleDisconnect, ConnectFails, ConnectSettles, Reconnect, Follow, Observe,
             Query, EndBatch, CatchUp, Leave
<1> QED BY Invariance, <1>1, <1>2, PTL DEF Spec, ImplementsFeed, Feed!Spec

-----------------------------------------------------------------------------
\* Subscribing, losing and giving up the connection all lead back to one.
THEOREM ConnectionRecovers == Spec => []ListenerRecovers
<1>1. Init => ListenerRecovers
  BY DEF Init, ListenerRecovers, Subscribers, At, Off
<1>2. IInv /\ ListenerRecovers /\ [Next]_vars => ListenerRecovers'
  <2> SUFFICES ASSUME IInv, ListenerRecovers, [Next]_vars PROVE ListenerRecovers' OBVIOUS
  <2> USE DEF ListenerRecovers, Subscribers, At
  <2>1. ASSUME UNCHANGED <<link, retry>>, \A f \in Followers : At(f, "off") => At(f, "off")'
        PROVE  ListenerRecovers'
    BY <2>1
  <2>2. CASE Listen \/ Connected \/ ConnectFails
    BY <2>2 DEF Listen, Connected, ConnectFails
  <2>3. CASE HandleDisconnect \/ ConnectSettles
    BY <2>3 DEF HandleDisconnect, ConnectSettles, scheduleReconnect
  <2>4. CASE Reconnect BY <2>4 DEF Reconnect, ensureConnected
  <2>5. ASSUME NEW f \in Followers, Follow(f) PROVE ListenerRecovers'
    BY <2>5 DEF Follow, ensureConnected
  <2>6. CASE HandleNotification
    BY <2>6, <2>1 DEF HandleNotification, NotifySubscribers
  <2>7. ASSUME NEW w \in Writers, WriterStep(w) PROVE ListenerRecovers'
    BY <2>7, <2>1 DEF WriterStep, AppendEvent, Commit, Rollback, Notify, NotifyFails, fanout
  <2>8. CASE DeleteProgress \/ UNCHANGED vars
    BY <2>8, <2>1 DEF DeleteProgress, vars, fanout
  <2>9. ASSUME NEW f \in Followers,
               Observe(f) \/ Query(f) \/ Yield(f) \/ EndBatch(f) \/ CatchUp(f) \/ Leave(f)
        PROVE ListenerRecovers'
    <3>1. UNCHANGED <<link, retry>>
      BY <2>9 DEF Observe, Query, Yield, EndBatch, CatchUp, Leave, fanout
    <3>2. \A g \in Followers : g # f => follower'[g] = follower[g]
      <4>1. follower \in [Followers -> Follower] BY DEF IInv, TypeOK
      <4>2. CASE Yield(f) BY <4>1, <4>2 DEF Yield
      <4>3. CASE Query(f) BY <4>1, <4>3 DEF Query
      <4> QED BY <2>9, <4>1, <4>2, <4>3 DEF Observe, EndBatch, CatchUp, Leave, GoTo
    <3>3. ~At(f, "off") BY <2>9 DEF Observe, Query, Yield, EndBatch, CatchUp, Leave
    <3> QED BY <2>1, <3>1, <3>2, <3>3
  <2> QED BY <2>2, <2>3, <2>4, <2>5, <2>6, <2>7, <2>8, <2>9
         DEF Next, FanoutStep, FollowerStep
<1> QED BY Invariance, <1>1, <1>2, PTL DEF Spec

-----------------------------------------------------------------------------
\* A follower that reads everything past its cursor has nothing to wait for.
LEMMA ShortBatchIsAll ==
  ASSUME IInv, NEW f \in Followers, NEW batch \in SUBSET events, FirstAfter(f, batch),
         Cardinality(batch) # BatchSize
  PROVE  \A e \in events : cursor[f] < e => e \in batch
<1>1. IsFiniteSet(events)
  <2>1. IsFiniteSet(0 .. nextEventSeq - 1) BY FS_Interval DEF IInv, TypeOK
  <2> QED BY <2>1, FS_Subset DEF IInv, Numbered
<1>2. Cardinality(batch) \in Nat BY <1>1, FS_Subset, FS_CardinalityType
<1>3. Cardinality(batch) < BatchSize BY <1>2, FeedAssumption DEF FirstAfter
<1> QED BY <1>3 DEF FirstAfter

LEMMA AwareStep == IInv /\ Aware /\ [Next]_vars => Aware'
<1> SUFFICES ASSUME IInv, Aware, [Next]_vars PROVE Aware' OBVIOUS
<1> USE DEF IInv, TypeOK, Writer, Follower, At
<1>1. ASSUME UNCHANGED <<cursor, follower>>, events' \ unheard' \subseteq events \ unheard,
             \A e \in events' \ unheard' : Due(e) => Due(e)'
      PROVE  Aware'
  BY <1>1 DEF Aware
<1>2. ASSUME NEW w \in Writers, AppendEvent(w) \/ Rollback(w) PROVE Aware'
  <2>1. \A v \in Writers : writer[v].step = "committed" =>
          writer'[v] = writer[v]
    <3>1. writer[w].step # "committed" BY <1>2 DEF AppendEvent, Rollback
    <3> QED BY <1>2, <3>1 DEF AppendEvent, Rollback
  <2>2. \A e \in events' : Due(e) => Due(e)'
    BY <1>2, <2>1 DEF Due, Seqs, AppendEvent, Rollback, fanout
  <2> QED BY <1>1, <1>2, <2>2 DEF AppendEvent, Rollback
<1>3. ASSUME NEW w \in Writers, Commit(w) PROVE Aware'
  <2>1. writer' = [writer EXCEPT ![w].step = "committed"] /\ writer[w].step = "open"
    BY <1>3 DEF Commit
  <2>2. \A e \in events' \ events : Due(e)'
    BY <1>3, <2>1 DEF Commit, Due, Seqs
  <2>3. \A e \in events' : Due(e) => Due(e)'
    BY <1>3, <2>1 DEF Commit, Due, Seqs, fanout
  <2>4. UNCHANGED <<cursor, follower, unheard>> BY <1>3 DEF Commit
  <2> QED BY <2>2, <2>3, <2>4 DEF Aware
<1>4. ASSUME NEW w \in Writers, Notify(w) PROVE Aware'
  <2>1. \A e \in events : Due(e)'
    BY <1>4 DEF Notify, Due
  <2>2. UNCHANGED <<cursor, follower, events, unheard>> BY <1>4 DEF Notify
  <2> QED BY <2>1, <2>2 DEF Aware
<1>5. ASSUME NEW w \in Writers, NotifyFails(w) PROVE Aware'
  <2>1. \A e \in events \ unheard' : Due(e) => Due(e)'
    BY <1>5 DEF NotifyFails, Announced, Idle, Due, Seqs, fanout
  <2>2. UNCHANGED <<cursor, follower, events>> /\ unheard \subseteq unheard'
    BY <1>5 DEF NotifyFails
  <2> QED BY <1>1, <2>1, <2>2
<1>6. CASE DeleteProgress
  BY <1>6, <1>1 DEF DeleteProgress, Due, Seqs, fanout
<1>7. CASE Listen \/ HandleDisconnect \/ ConnectFails \/ ConnectSettles \/ Reconnect
  <2>1. UNCHANGED <<cursor, follower, events, unheard>>
    BY <1>7 DEF Listen, HandleDisconnect, ConnectFails, ConnectSettles, Reconnect, table
  <2>2. link' # "up" \/ UNCHANGED <<link, signals, writer>>
    BY <1>7 DEF Listen, HandleDisconnect, ConnectFails, ConnectSettles, Reconnect, table,
                ensureConnected
  <2> QED BY <1>1, <2>1, <2>2 DEF Due, Seqs
<1>8. CASE Connected \/ HandleNotification
  <2>1. UNCHANGED <<cursor, events, unheard>>
    BY <1>8 DEF Connected, HandleNotification, table
  <2>2. CASE NotifySubscribers
    <3>1. \A f \in Followers : follower'[f].step # "asleep"
            /\ (follower'[f].step = "yield" => follower'[f].changed)
      BY <2>2 DEF NotifySubscribers
    <3> QED BY <3>1, <2>1 DEF Aware
  <2>3. CASE link' = "disposed" /\ UNCHANGED follower
    BY <2>1, <2>3 DEF Aware, Due
  <2> QED BY <1>8, <2>2, <2>3 DEF Connected, HandleNotification
<1>9. ASSUME NEW f \in Followers,
             \A g \in Followers : g # f => follower'[g] = follower[g] /\ cursor'[g] = cursor[g],
             UNCHANGED <<table, retry, signals, unheard>>, link' = link \/ link' # "up",
             \A e \in events \ unheard :
               /\ At(f, "yield")' /\ ~follower'[f].full /\ cursor'[f] < e
                    /\ e \notin follower'[f].batch => follower'[f].changed \/ Due(e)
               /\ At(f, "asleep")' /\ cursor'[f] < e => Due(e)
      PROVE  Aware'
  <2>1. \A e \in events : Due(e) => Due(e)' BY <1>9 DEF Due, Seqs, table
  <2> QED BY <1>9, <2>1 DEF Aware, table
<1>10. ASSUME NEW f \in Followers, Follow(f) \/ Observe(f) \/ CatchUp(f) \/ Leave(f)
       PROVE Aware'
  <2>1. UNCHANGED <<table, retry, signals, unheard, cursor>>
    BY <1>10 DEF Follow, Observe, CatchUp, Leave, fanout
  <2>2. link' = link \/ link' # "up"
    BY <1>10 DEF Follow, Observe, CatchUp, Leave, fanout, ensureConnected
  <2>3. follower'[f].step \in {"top", "query", "off"}
    BY <1>10 DEF Follow, Observe, CatchUp, Leave, GoTo, Off
  <2>4. \A g \in Followers : g # f => follower'[g] = follower[g]
    BY <1>10 DEF Follow, Observe, CatchUp, Leave, GoTo
  <2> QED BY <1>9, <2>1, <2>2, <2>3, <2>4
<1>11. ASSUME NEW f \in Followers, Query(f) PROVE Aware'
  <2>1. PICK batch \in SUBSET events :
          /\ FirstAfter(f, batch)
          /\ follower' = [follower EXCEPT ![f] =
               [step |-> "yield", changed |-> follower[f].changed,
                batch |-> batch, full |-> Cardinality(batch) = BatchSize]]
    BY <1>11 DEF Query
  <2>2. ~follower'[f].full => \A e \in events : cursor[f] < e => e \in batch
    BY <2>1, ShortBatchIsAll
  <2>3. UNCHANGED <<table, fanout, unheard, cursor>> BY <1>11 DEF Query
  <2> QED BY <1>9, <2>1, <2>2, <2>3 DEF fanout
<1>12. ASSUME NEW f \in Followers, Yield(f) PROVE Aware'
  <2>1. PICK e \in follower[f].batch :
          /\ \A other \in follower[f].batch : e <= other
          /\ cursor' = [cursor EXCEPT ![f] = e]
          /\ follower' = [follower EXCEPT ![f].batch = @ \ {e}]
    BY <1>12 DEF Yield
  <2>2. e > cursor[f] /\ e \in Nat /\ cursor[f] \in Int BY <2>1 DEF Contiguous
  <2>3. UNCHANGED <<table, fanout, unheard>> BY <1>12 DEF Yield
  <2>4. \A g \in Followers : g # f => follower'[g] = follower[g] /\ cursor'[g] = cursor[g]
    BY <2>1
  <2>5. /\ follower'[f].batch = follower[f].batch \ {e} /\ cursor'[f] = e
        /\ follower'[f].full = follower[f].full /\ follower'[f].changed = follower[f].changed
        /\ follower'[f].step = "yield" /\ follower[f].step = "yield"
    BY <2>1, <1>12 DEF Yield
  <2>6. \A x \in events \ unheard :
          ~follower'[f].full /\ cursor'[f] < x /\ x \notin follower'[f].batch
            => follower'[f].changed \/ Due(x)
    BY <2>2, <2>5 DEF Aware
  <2> QED BY <1>9, <2>3, <2>4, <2>5, <2>6 DEF fanout
<1>13. ASSUME NEW f \in Followers, EndBatch(f) PROVE Aware'
  <2>1. /\ UNCHANGED <<table, fanout, unheard, cursor>> /\ follower[f].step = "yield"
        /\ follower[f].batch = {} /\ follower' = [follower EXCEPT ![f].step = AfterBatch(f)]
    BY <1>13 DEF EndBatch, GoTo
  <2>2. AfterBatch(f) = "asleep" => ~follower[f].full /\ ~follower[f].changed
    BY DEF AfterBatch
  <2>3. AfterBatch(f) # "yield" BY DEF AfterBatch
  <2>4. \A e \in events \ unheard : AfterBatch(f) = "asleep" /\ cursor[f] < e => Due(e)
    BY <2>1, <2>2 DEF Aware
  <2> QED BY <1>9, <2>1, <2>3, <2>4 DEF fanout
<1>14. CASE UNCHANGED vars
  BY <1>14, <1>1 DEF vars, table, fanout, Due, Seqs
<1> QED BY <1>2, <1>3, <1>4, <1>5, <1>6, <1>7, <1>8, <1>10, <1>11, <1>12, <1>13, <1>14
       DEF Next, WriterStep, FanoutStep, FollowerStep

\* No interleaving of commits, NOTIFYs, reconnects and reads lets a follower
\* sleep on an event that nothing will wake it for.
THEOREM NoWakeupIsLost == Spec => []NoLostWakeup
<1>1. Init => Aware BY DEF Init, Aware
<1>2. Aware => NoLostWakeup BY DEF Aware, NoLostWakeup, Due
<1> QED BY Invariance, AwareStep, <1>1, <1>2, PTL DEF Spec

-----------------------------------------------------------------------------
(* The web and mobile view of a thread: numbers and types.                 *)

\* The largest number of a bounded, inhabited set is in it.  A largest number
\* exists by the well-foundedness of the set of its upper parts.
LEMMA MaxOfInterval ==
  ASSUME NEW n \in Nat, NEW S, S \subseteq 1 .. n, S # {}
  PROVE  Max(S) \in S /\ \A y \in S : y <= Max(S)
<1> DEFINE Up(x) == {y \in S : y >= x}
           T == {Up(x) : x \in S}
           R == StrictSubsetOrdering(S)
<1>1. IsFiniteSet(S)
  <2>1. 1 \in Int /\ n \in Int OBVIOUS
  <2>2. IsFiniteSet(1 .. n) BY <2>1, FS_Interval
  <2> QED BY <2>2, FS_Subset
<1>2. T \subseteq FiniteSubsetsOf(S)
  <2> SUFFICES ASSUME NEW x \in S PROVE Up(x) \in FiniteSubsetsOf(S) OBVIOUS
  <2>1. Up(x) \subseteq S OBVIOUS
  <2>2. IsFiniteSet(Up(x)) BY <2>1, <1>1, FS_Subset
  <2> QED BY <2>1, <2>2 DEF FiniteSubsetsOf
<1>3. T # {} OBVIOUS
<1>4. PICK t \in T : \A u \in T : ~(<<u, t>> \in R)
  <2>1. IsWellFoundedOn(R, FiniteSubsetsOf(S)) BY FS_StrictSubsetOrderingWellFounded
  <2> HIDE DEF T, R
  <2> QED BY <2>1, <1>2, <1>3, WFMin
<1>5. PICK x \in S : t = Up(x) BY <1>4
<1>6. \A y \in S : y <= x
  <2> SUFFICES ASSUME NEW y \in S, y > x PROVE FALSE OBVIOUS
  <2>1. Up(y) \subseteq Up(x)
    <3>1. \A z \in S : z \in Int OBVIOUS
    <3>2. \A z \in S : z >= y => z >= x BY <3>1
    <3> QED BY <3>2
  <2>2. x \in Up(x) /\ x \notin Up(y) OBVIOUS
  <2>3. <<Up(y), Up(x)>> \in R BY <2>1, <2>2 DEF StrictSubsetOrdering
  <2> QED BY <2>3, <1>4, <1>5
<1> QED BY <1>5, <1>6 DEF Max

\* The same of the smallest number.
LEMMA MinOfInterval ==
  ASSUME NEW n \in Nat, NEW S, S \subseteq 1 .. n, S # {}
  PROVE  Min(S) \in S /\ \A y \in S : Min(S) <= y
<1> DEFINE N == {n + 1 - y : y \in S}
<1>1. N \subseteq 1 .. n
  <2> SUFFICES ASSUME NEW y \in S PROVE n + 1 - y \in 1 .. n OBVIOUS
  <2>1. y \in 1 .. n OBVIOUS
  <2> QED BY <2>1
<1>2. Max(N) \in N /\ \A y \in N : y <= Max(N)
  <2>1. N # {} OBVIOUS
  <2> HIDE DEF N
  <2> QED BY <2>1, <1>1, MaxOfInterval
<1>3. PICK x \in S : Max(N) = n + 1 - x BY <1>2
<1>4. \A y \in S : x <= y 
  <2> SUFFICES ASSUME NEW y \in S PROVE x <= y OBVIOUS
  <2>1. n + 1 - y <= n + 1 - x BY <1>2, <1>3
  <2> QED BY <2>1
<1> QED BY <1>4 DEF Min

\* The cursor max({a, b}) of the loop.
LEMMA MaxOfTwo ==
  ASSUME NEW a \in Nat, NEW b \in Nat
  PROVE  Max({a, b}) \in {a, b} /\ Max({a, b}) >= a /\ Max({a, b}) >= b
<1>1. \E x \in {a, b} : \A y \in {a, b} : x >= y 
  <2>1. CASE a >= b BY <2>1
  <2>2. CASE b >= a BY <2>2
  <2> QED BY <2>1, <2>2
<1>2. \A y \in {a, b} : Max({a, b}) >= y BY <1>1 DEF Max
<1>3. Max({a, b}) \in {a, b} BY <1>1 DEF Max
<1> QED BY <1>2, <1>3

\* A snapshot whose cursor and messages are those of events.
Typed(v) == v \in View /\ v.cursor <= Len(log) /\ v.messages \subseteq DOMAIN log

\* The types of the state, and what the type invariant leaves open of snapshots
\* and stops: an inductive invariant.
ViewInv ==
  /\ ViewTypeOK
  /\ view # NoView => Typed(view)
  /\ \A g \in gets : /\ g \in [id: 1 .. made, epoch: 0 .. epoch, snap: View \cup {NoView}]
                     /\ g.snap # NoView => Typed(g.snap)
  /\ stop.here => view # NoView
  /\ stop.step = "returns" => stop.here
  /\ \A x \in DOMAIN log : log[x].type = "cleared" <=> log[x].run = None

\* No snapshot is NoView.
LEMMA NoViewIsNone == NoView \notin View
BY DEF NoView, View

\* Runs are the numbers from 1 on, so that None is none of them.
LEMMA RunsAreNumbers == \E n \in Nat : Runs = 1 .. n
BY FS_CardinalityType, ViewAssumption

\* What Write does to the log, as a sequence and as a table.
LEMMA Written ==
  ASSUME log \in Seq(Event), NEW appended \in Seq(Event), NEW gone,
         Write(appended, gone)
  PROVE  /\ log' \in Seq(Event) /\ Len(log') = Len(log) + Len(appended)
         /\ Len(log) \in Nat /\ Len(appended) \in Nat
         /\ DOMAIN log = 1 .. Len(log) /\ DOMAIN log' = 1 .. Len(log')
         /\ \A x \in 1 .. Len(log) : log'[x] = log[x]
         /\ \A x \in 1 .. Len(appended) : log'[Len(log) + x] = appended[x]
         /\ rows' = (rows \ gone) \cup Len(log) + 1 .. Len(log')
<1>1. log' = log \o appended BY DEF Write
<1>2. log' \in Seq(Event) /\ Len(log') = Len(log) + Len(appended) BY <1>1
<1>3. Len(log) \in Nat /\ Len(appended) \in Nat OBVIOUS
<1> QED BY <1>1, <1>2, <1>3 DEF Write

\* An entry is an event.
LEMMA EntryTyped ==
  ASSUME NEW type \in EventTypes, NEW r \in Runs \cup {None}
  PROVE  /\ Entry(type, r) \in Event /\ <<Entry(type, r)>> \in Seq(Event)
         /\ Entry(type, r).type = type /\ Entry(type, r).run = r
BY DEF Entry, Event

\* threadSnapshot: a typed snapshot, as new as the table, of the newest run that
\* is active or has failed.
LEMMA SnapshotTyped ==
  ASSUME ViewInv
  PROVE  /\ Typed(ThreadSnapshot)
         /\ \A x \in rows : x <= ThreadSnapshot.cursor
         /\ ThreadSnapshot.messages = messages
         /\ \A r \in ThreadSnapshot.live : status[r] \in Active
         /\ LET r == ThreadSnapshot.run
            IN  r # None => /\ r \in Runs
                            /\ status[r] \in Active \cup {"failed"}
                            /\ ThreadSnapshot.status = status[r]
         /\ \A r \in Runs : status[r] \in Active \cup {"failed"} =>
              ThreadSnapshot.run # None /\ ThreadSnapshot.run >= r
<1> DEFINE shown == {r \in Runs : status[r] \in Active \cup {"failed"}}
           run == IF shown = {} THEN None ELSE Max(shown)
           newest == IF rows = {} THEN 0 ELSE Max(rows)
<1> USE DEF ViewInv, ViewTypeOK
<1>1. PICK n \in Nat : Runs = 1 .. n BY RunsAreNumbers
<1>2. shown # {} => Max(shown) \in shown /\ \A y \in shown : y <= Max(shown)
  <2>1. shown \subseteq 1 .. n BY <1>1
  <2> HIDE DEF shown
  <2> QED BY <2>1, MaxOfInterval
<1>3. Len(log) \in Nat /\ DOMAIN log = 1 .. Len(log) OBVIOUS
<1>4. rows # {} => Max(rows) \in rows /\ \A y \in rows : y <= Max(rows)
  BY <1>3, MaxOfInterval
<1>5. newest \in Nat /\ newest <= Len(log) /\ \A x \in rows : x <= newest BY <1>3, <1>4
<1>6. /\ run \in Runs \cup {None}
      /\ run # None => run \in shown
      /\ \A r \in shown : run # None /\ run >= r
  BY <1>1, <1>2 DEF None
<1> DEFINE live == {r \in ActiveRuns : r = run /\ ProgressOf({r}) # {}}
           snap == [cursor |-> newest, messages |-> messages, run |-> run,
                    status |-> IF run = None THEN "none" ELSE status[run], live |-> live]
<1>7. ThreadSnapshot = snap BY DEF ThreadSnapshot
<1>8. live \subseteq Runs /\ \A r \in live : status[r] \in Active BY DEF ActiveRuns
<1> HIDE DEF live, newest, run
<1>9. messages \in SUBSET Nat BY <1>3
<1>10. (IF run = None THEN "none" ELSE status[run]) \in RunStatuses
  BY <1>6 DEF RunStatuses
<1>11. snap \in View BY <1>5, <1>6, <1>8, <1>9, <1>10 DEF View
<1> QED BY <1>5, <1>6, <1>7, <1>8, <1>11 DEF Typed

\* Reducing an event into a typed view gives a typed view.
LEMMA ReducedTyped ==
  ASSUME ViewInv, view # NoView, NEW e \in DOMAIN log
  PROVE  Typed(Reduced(e))
<1> USE DEF ViewInv, ViewTypeOK
<1>1. Len(log) \in Nat /\ DOMAIN log = 1 .. Len(log) OBVIOUS
<1>2. log[e] \in Event OBVIOUS
<1>3. log[e].type \in EventTypes /\ log[e].run \in Runs \cup {None} BY <1>2 DEF Event
<1>4. view \in View /\ view.cursor <= Len(log) /\ view.messages \subseteq DOMAIN log
  BY DEF Typed
<1>5. \A r : Without(r) \subseteq Runs BY <1>4 DEF View, Without
<1>6. Moved(e) \in View /\ Moved(e).cursor = e /\ Moved(e).messages = view.messages
  <2>1. e \in Nat /\ view \in View BY <1>1, <1>4
  <2> HIDE DEF ViewInv, ViewTypeOK
  <2> QED BY <2>1 DEF Moved, View
<1>7. ASSUME NEW r \in Runs \cup {None}, NEW to \in {"waiting_input", "waiting_takeover"}
      PROVE  Typed(Paused(e, r, to))
  <2>1. [Moved(e) EXCEPT !.status = to, !.live = Without(r)] \in View
    BY <1>6, <1>5 DEF View, RunStatuses
  <2>2. Typed(view) BY <1>4 DEF Typed
  <2> DEFINE live == IF to = "waiting_input" THEN Without(r) ELSE view.live
             changes == view.run = r /\ view.status # to
             st == IF changes THEN to ELSE Moved(e).status
             w == [Moved(e) EXCEPT !.status = st, !.live = live]
  <2>3. live \subseteq Runs /\ st \in RunStatuses BY <1>4, <1>5, <1>6 DEF View, RunStatuses
  <2>4. Paused(e, r, to) \in {view, w} BY DEF Paused
  <2> HIDE DEF live, st
  <2>5. w \in View /\ w.cursor = e /\ w.messages = view.messages BY <2>3, <1>6 DEF View
  <2>6. Typed(w) BY <2>5, <1>1, <1>4 DEF Typed
  <2> QED BY <2>2, <2>4, <2>6
<1>8. ASSUME NEW r \in Runs \cup {None} PROVE Typed(Started(e, r)) /\ Typed(Ended(e, r))
  <2>1. [Moved(e) EXCEPT !.run = r, !.status = "running"] \in View
    BY <1>6 DEF View, RunStatuses
  <2>2. Typed(Started(e, r)) BY <2>1, <1>1, <1>4, <1>6 DEF Started, Typed
  <2> DEFINE run == IF Moved(e).run = r THEN None ELSE Moved(e).run
             st == IF view.run = r THEN "none" ELSE Moved(e).status
             w == [Moved(e) EXCEPT !.live = Without(r), !.run = run, !.status = st]
  <2>3. run \in Runs \cup {None} /\ st \in RunStatuses BY <1>6 DEF View, RunStatuses
  <2>4. Ended(e, r) = w BY DEF Ended
  <2> HIDE DEF run, st
  <2>5. w \in View /\ w.cursor = e /\ w.messages = view.messages
    BY <2>3, <1>5, <1>6 DEF View
  <2> QED BY <2>2, <2>4, <2>5, <1>1, <1>4 DEF Typed
<1>9. CASE log[e].type = "message"
  <2> DEFINE w == [Moved(e) EXCEPT !.messages = view.messages \cup {e}, !.live = Without(log[e].run)]
  <2>1. Reduced(e) = w BY <1>9, <1>6 DEF Reduced
  <2>2. w \in View /\ w.cursor = e /\ w.messages = view.messages \cup {e}
    BY <1>1, <1>5, <1>6 DEF View
  <2> QED BY <2>1, <2>2, <1>1, <1>4 DEF Typed
<1>10. CASE log[e].type = "progress"
  <2> DEFINE w == [Moved(e) EXCEPT !.live = view.live \cup {log[e].run}]
  <2>1. Reduced(e) = w BY <1>10, <1>6 DEF Reduced, Moved
  <2>2. log[e].run \in Runs BY <1>3, <1>10
  <2>3. w \in View /\ w.cursor = e /\ w.messages = view.messages
    BY <2>2, <1>4, <1>6 DEF View
  <2> QED BY <2>1, <2>3, <1>1, <1>4 DEF Typed
<1>11. CASE log[e].type = "started" BY <1>3, <1>8, <1>11 DEF Reduced
<1>12. CASE log[e].type = "waiting_input" BY <1>3, <1>7, <1>12 DEF Reduced
<1>13. CASE log[e].type = "takeover_requested"
  <2>1. Typed(view) BY <1>4 DEF Typed
  <2> QED BY <2>1, <1>3, <1>7, <1>13 DEF Reduced
<1>14. CASE log[e].type = "terminal" BY <1>3, <1>8, <1>14 DEF Reduced
<1>15. CASE log[e].type = "cleared"
  <2> DEFINE w == [Moved(e) EXCEPT !.messages = {}, !.run = None, !.status = "none", !.live = {}]
  <2>1. Reduced(e) = w BY <1>15 DEF Reduced
  <2>2. w \in View /\ w.cursor = e /\ w.messages = {} BY <1>6 DEF View, RunStatuses
  <2> QED BY <2>1, <2>2, <1>1 DEF Typed
<1> QED BY <1>3, <1>9, <1>10, <1>11, <1>12, <1>13, <1>14, <1>15 DEF EventTypes

\* A transaction that keeps the tables typed keeps the invariant: what the client
\* holds stays typed as the log grows.
LEMMA ServerTyped ==
  ASSUME ViewInv, ServerOnly,
         log' \in Seq(Event), Len(log') >= Len(log),
         rows' \subseteq DOMAIN log', messages' \subseteq DOMAIN log',
         status' \in [Runs -> RunStatuses],
         \A x \in DOMAIN log' : log'[x].type = "cleared" <=> log'[x].run = None
  PROVE  ViewInv'
<1> USE DEF ViewInv, ViewTypeOK, ServerOnly
<1>1. /\ Len(log) \in Nat /\ DOMAIN log = 1 .. Len(log)
      /\ Len(log') \in Nat /\ DOMAIN log' = 1 .. Len(log')
  OBVIOUS
<1>2. DOMAIN log \subseteq DOMAIN log' BY <1>1
<1>3. \A v : Typed(v) => v.cursor <= Len(log') /\ v \in View /\ v.messages \subseteq DOMAIN log'
  BY <1>1, <1>2 DEF Typed, View
<1>4. view' # NoView => Typed(view)' BY <1>3 DEF Typed
<1>5. loop'.cursor \in 0 .. Len(log') /\ pipe' \subseteq DOMAIN log' BY <1>1, <1>2
<1>6. ASSUME NEW g \in gets' PROVE
        /\ g \in [id: 1 .. made', epoch: 0 .. epoch', snap: View \cup {NoView}]
        /\ g.snap # NoView => Typed(g.snap)'
  BY <1>3 DEF Typed
<1>7. loop' \in [step: {"closed", "loading", "subscribed", "down"}, awaits: 0 .. MaxGets,
                 cursor: 0 .. Len(log')]
  BY <1>1
<1>8. \A g \in gets' : g.id \in 1 .. made' /\ g.epoch \in 0 .. epoch' BY <1>6
<1>9. view' = NoView \/ view' \in View OBVIOUS
<1>10. stop' \in [step: {"none", "cancelled", "returns"}, runs: SUBSET Runs, here: BOOLEAN]
       /\ hid' \subseteq Hidings /\ made' \in 0 .. MaxGets /\ epoch' \in Nat
       /\ (stop'.here => view' # NoView) /\ (stop'.step = "returns" => stop'.here)
  OBVIOUS
<1>11. ViewTypeOK' BY <1>5, <1>7, <1>8, <1>9, <1>10
<1> QED BY <1>4, <1>6, <1>10, <1>11

\* One event is appended.
LEMMA AppendsOne ==
  ASSUME ViewInv, NEW type \in EventTypes, NEW r \in Runs \cup {None}, NEW gone,
         Write(<<Entry(type, r)>>, gone), type = "cleared" <=> r = None
  PROVE  /\ log' \in Seq(Event) /\ Len(log) \in Nat /\ Len(log') = Len(log) + 1
         /\ DOMAIN log = 1 .. Len(log) /\ DOMAIN log' = 1 .. Len(log) + 1
         /\ \A x \in DOMAIN log : log'[x] = log[x]
         /\ log'[Len(log) + 1].type = type /\ log'[Len(log) + 1].run = r
         /\ rows' = (rows \ gone) \cup {Len(log) + 1} /\ rows' \subseteq DOMAIN log'
         /\ \A x \in DOMAIN log' : log'[x].type = "cleared" <=> log'[x].run = None
<1> USE DEF ViewInv, ViewTypeOK
<1> DEFINE app == <<Entry(type, r)>>
<1>1. /\ app \in Seq(Event) /\ Len(app) = 1 /\ app[1] = Entry(type, r)
      /\ Entry(type, r).type = type /\ Entry(type, r).run = r
  BY EntryTyped
<1>2. Write(app, gone) /\ log \in Seq(Event) OBVIOUS
<1> HIDE DEF app, ViewInv, ViewTypeOK
<1>3. /\ log' \in Seq(Event) /\ Len(log') = Len(log) + 1
      /\ Len(log) \in Nat
      /\ DOMAIN log = 1 .. Len(log) /\ DOMAIN log' = 1 .. Len(log')
      /\ \A x \in 1 .. Len(log) : log'[x] = log[x]
      /\ \A x \in 1 .. 1 : log'[Len(log) + x] = app[x]
      /\ rows' = (rows \ gone) \cup Len(log) + 1 .. Len(log')
  BY <1>1, <1>2, Written
<1>4. log'[Len(log) + 1] = Entry(type, r) BY <1>1, <1>3
<1>5. Len(log) + 1 .. Len(log') = {Len(log) + 1} BY <1>3
<1>6. \A x \in DOMAIN log' : x \in DOMAIN log \/ x = Len(log) + 1 BY <1>3
<1>7. rows' \subseteq DOMAIN log'
  <2>1. rows \subseteq DOMAIN log BY DEF ViewInv, ViewTypeOK
  <2> QED BY <2>1, <1>3, <1>5
<1>8. \A x \in DOMAIN log' : log'[x].type = "cleared" <=> log'[x].run = None
  BY <1>1, <1>3, <1>4, <1>6 DEF ViewInv
<1> QED BY <1>1, <1>3, <1>4, <1>5, <1>7, <1>8

\* A message and another event of its run are appended.
LEMMA AppendsTwo ==
  ASSUME ViewInv, NEW type \in EventTypes \ {"cleared"}, NEW r \in Runs, NEW gone,
         Write(<<Entry("message", r), Entry(type, r)>>, gone)
  PROVE  /\ log' \in Seq(Event) /\ Len(log) \in Nat /\ Len(log') = Len(log) + 2
         /\ DOMAIN log = 1 .. Len(log) /\ DOMAIN log' = 1 .. Len(log) + 2
         /\ \A x \in DOMAIN log : log'[x] = log[x]
         /\ log'[Len(log) + 1].type = "message" /\ log'[Len(log) + 1].run = r
         /\ log'[Len(log) + 2].type = type /\ log'[Len(log) + 2].run = r
         /\ rows' = (rows \ gone) \cup {Len(log) + 1, Len(log) + 2}
         /\ rows' \subseteq DOMAIN log'
         /\ \A x \in DOMAIN log' : log'[x].type = "cleared" <=> log'[x].run = None
<1> USE DEF ViewInv, ViewTypeOK
<1> DEFINE app == <<Entry("message", r), Entry(type, r)>>
<1>1. /\ Entry("message", r) \in Event /\ Entry(type, r) \in Event
      /\ Entry(type, r).type = type /\ Entry(type, r).run = r
      /\ Entry("message", r).type = "message" /\ Entry("message", r).run = r
  BY EntryTyped DEF EventTypes
<1>2. /\ app \in Seq(Event) /\ Len(app) = 2
      /\ app[1] = Entry("message", r) /\ app[2] = Entry(type, r)
  BY <1>1
<1>3. Write(app, gone) /\ log \in Seq(Event) OBVIOUS
<1> HIDE DEF app, ViewInv, ViewTypeOK
<1>4. /\ log' \in Seq(Event) /\ Len(log') = Len(log) + 2
      /\ Len(log) \in Nat
      /\ DOMAIN log = 1 .. Len(log) /\ DOMAIN log' = 1 .. Len(log')
      /\ \A x \in 1 .. Len(log) : log'[x] = log[x]
      /\ \A x \in 1 .. 2 : log'[Len(log) + x] = app[x]
      /\ rows' = (rows \ gone) \cup Len(log) + 1 .. Len(log')
  BY <1>2, <1>3, Written
<1>5. log'[Len(log) + 1] = Entry("message", r) /\ log'[Len(log) + 2] = Entry(type, r)
  BY <1>2, <1>4
<1>6. Len(log) + 1 .. Len(log') = {Len(log) + 1, Len(log) + 2} BY <1>4
<1>7. \A x \in DOMAIN log' : x \in DOMAIN log \/ x = Len(log) + 1 \/ x = Len(log) + 2
  BY <1>4
<1>8. rows' \subseteq DOMAIN log'
  <2>1. rows \subseteq DOMAIN log BY DEF ViewInv, ViewTypeOK
  <2> QED BY <2>1, <1>4, <1>6
<1>9. r # None BY RunsAreNumbers DEF None
<1>10. \A x \in DOMAIN log' : log'[x].type = "cleared" <=> log'[x].run = None
  BY <1>1, <1>4, <1>5, <1>7, <1>9 DEF ViewInv
<1> QED BY <1>1, <1>4, <1>5, <1>6, <1>8, <1>10

\* Cancelling keeps the statuses.
LEMMA CancelsAllTyped ==
  ASSUME ViewInv, NEW to \in {"ended", "silenced"}, CancelsAll(to)
  PROVE  status' \in [Runs -> RunStatuses]
BY DEF CancelsAll, ViewInv, ViewTypeOK, RunStatuses

\* The steps of a run keep the types.
LEMMA RunStepTyped ==
  ASSUME ViewInv, NEW r \in Runs, RunStep(r)
  PROVE  ViewInv'
<1> USE DEF ViewInv, ViewTypeOK
<1>1. r # None /\ r \in Runs \cup {None} BY RunsAreNumbers DEF None
<1>2. \A s \in RunStatuses : Becomes(r, s) => status' \in [Runs -> RunStatuses]
  BY DEF Becomes
<1>3. messages \subseteq DOMAIN log /\ rows \subseteq DOMAIN log OBVIOUS
<1>4. ASSUME NEW type \in EventTypes \ {"cleared"}, NEW gone, Write(<<Entry(type, r)>>, gone),
             messages' = messages \/ Posts, ServerOnly, status' \in [Runs -> RunStatuses]
      PROVE  ViewInv'
  <2>1. /\ log' \in Seq(Event) /\ Len(log) \in Nat /\ Len(log') = Len(log) + 1
        /\ DOMAIN log = 1 .. Len(log) /\ DOMAIN log' = 1 .. Len(log) + 1
        /\ rows' \subseteq DOMAIN log'
        /\ \A x \in DOMAIN log' : log'[x].type = "cleared" <=> log'[x].run = None
    BY <1>1, <1>4, AppendsOne
  <2>2. messages' \subseteq DOMAIN log' BY <1>3, <1>4, <2>1 DEF Posts
  <2> QED BY <1>4, <2>1, <2>2, ServerTyped
<1>5. ASSUME NEW type \in EventTypes \ {"cleared"}, NEW gone,
             Write(<<Entry("message", r), Entry(type, r)>>, gone),
             Posts, ServerOnly, status' \in [Runs -> RunStatuses]
      PROVE  ViewInv'
  <2>1. /\ log' \in Seq(Event) /\ Len(log) \in Nat /\ Len(log') = Len(log) + 2
        /\ DOMAIN log = 1 .. Len(log) /\ DOMAIN log' = 1 .. Len(log) + 2
        /\ rows' \subseteq DOMAIN log'
        /\ \A x \in DOMAIN log' : log'[x].type = "cleared" <=> log'[x].run = None
    BY <1>5, AppendsTwo
  <2>2. messages' \subseteq DOMAIN log' BY <1>3, <1>5, <2>1 DEF Posts
  <2> QED BY <1>5, <2>1, <2>2, ServerTyped
<1>6. ASSUME UNCHANGED <<log, rows, messages>>, ServerOnly, status' \in [Runs -> RunStatuses]
      PROVE  ViewInv'
  <2>1. /\ log' \in Seq(Event) /\ Len(log') >= Len(log)
        /\ rows' \subseteq DOMAIN log' /\ messages' \subseteq DOMAIN log'
        /\ \A x \in DOMAIN log' : log'[x].type = "cleared" <=> log'[x].run = None
    BY <1>6
  <2> QED BY <1>6, <2>1, ServerTyped
<1> HIDE DEF ViewInv
<1>7. CASE Send(r)
  <2>1. status' \in [Runs -> RunStatuses] BY <1>7 DEF Send, RunStatuses, ViewInv
  <2> QED BY <1>4, <1>7, <2>1 DEF Send, EventTypes
<1>8. CASE ClaimRun(r) BY <1>2, <1>6, <1>8 DEF ClaimRun, RunStatuses
<1>9. CASE StartRun(r) BY <1>2, <1>4, <1>9 DEF StartRun, RunStatuses, EventTypes
<1>10. CASE RequeueRun(r) BY <1>2, <1>6, <1>10 DEF RequeueRun, RunStatuses
<1>11. CASE FlushProgress(r) BY <1>4, <1>11 DEF FlushProgress, EventTypes, ViewInv
<1>12. CASE PauseRunForInput(r)
  BY <1>2, <1>5, <1>12 DEF PauseRunForInput, RunStatuses, EventTypes
<1>13. CASE PauseRunForTakeover(r)
  BY <1>2, <1>4, <1>13 DEF PauseRunForTakeover, RunStatuses, EventTypes
<1>14. CASE Resume(r) BY <1>2, <1>6, <1>14 DEF Resume, RunStatuses
<1>15. CASE FinalizeRun(r) BY <1>2, <1>5, <1>15 DEF FinalizeRun, RunStatuses, EventTypes
<1> QED BY <1>7, <1>8, <1>9, <1>10, <1>11, <1>12, <1>13, <1>14, <1>15 DEF RunStep

\* Clearing keeps the types.
LEMMA ClearTyped == ViewInv /\ ClearThread => ViewInv'
<1> SUFFICES ASSUME ViewInv, ClearThread PROVE ViewInv' OBVIOUS
<1>1. Write(<<Entry("cleared", None)>>, rows) BY DEF ClearThread
<1>2. /\ log' \in Seq(Event) /\ Len(log) \in Nat /\ Len(log') = Len(log) + 1
      /\ rows' \subseteq DOMAIN log'
      /\ \A x \in DOMAIN log' : log'[x].type = "cleared" <=> log'[x].run = None
  BY <1>1, AppendsOne DEF EventTypes
<1>3. status' \in [Runs -> RunStatuses] BY CancelsAllTyped DEF ClearThread
<1>4. messages' \subseteq DOMAIN log' BY DEF ClearThread
<1> QED BY <1>2, <1>3, <1>4, ServerTyped DEF ClearThread

\* Stopping keeps the types.
LEMMA StopTyped ==
  ASSUME ViewInv, StopDeletes \/ \E here \in BOOLEAN : StopCancels(here)
  PROVE  ViewInv'
<1> USE DEF ViewInv, ViewTypeOK
<1>1. CASE StopDeletes
  <2>1. rows' \subseteq DOMAIN log' BY <1>1 DEF StopDeletes
  <2>2. stop' \in [step: {"none", "cancelled", "returns"}, runs: SUBSET Runs, here: BOOLEAN]
        /\ (stop'.here => stop.here) /\ (stop'.step = "returns" => stop'.here)
    BY <1>1 DEF StopDeletes, NoStop
  <2> QED BY <1>1, <2>1, <2>2 DEF StopDeletes, Typed
<1>2. ASSUME NEW here \in BOOLEAN, StopCancels(here) PROVE ViewInv'
  <2>1. status' \in [Runs -> RunStatuses] BY <1>2, CancelsAllTyped DEF StopCancels
  <2>2. stop' \in [step: {"none", "cancelled", "returns"}, runs: SUBSET Runs, here: BOOLEAN]
    BY <1>2 DEF StopCancels, ActiveRuns
  <2>3. (stop'.here => view # NoView) /\ stop'.step # "returns" BY <1>2 DEF StopCancels
  <2> QED BY <1>2, <2>1, <2>2, <2>3 DEF StopCancels, Typed
<1> QED BY <1>1, <1>2

\* A refresh adds a request without an answer.
LEMMA RefreshTyped ==
  ASSUME ViewInv, Refresh
  PROVE  /\ made' = made + 1 /\ made' \in 1 .. MaxGets
         /\ gets' = gets \cup {Get(made + 1)}
         /\ Get(made + 1) = [id |-> made + 1, epoch |-> epoch, snap |-> NoView]
         /\ \A g \in gets' :
              /\ g \in [id: 1 .. made', epoch: 0 .. epoch, snap: View \cup {NoView}]
              /\ g.snap # NoView => g \in gets
<1> USE DEF ViewInv, ViewTypeOK, Refresh
<1>1. made \in Nat /\ made' = made + 1 /\ made' \in 1 .. MaxGets /\ epoch \in Nat
  BY ViewAssumption
<1>2. Get(made + 1) = [id |-> made + 1, epoch |-> epoch, snap |-> NoView] BY DEF Get
<1>3. Get(made + 1) \in [id: 1 .. made', epoch: 0 .. epoch, snap: View \cup {NoView}]
  BY <1>1, <1>2
<1>4. \A g \in gets : g \in [id: 1 .. made', epoch: 0 .. epoch, snap: View \cup {NoView}]
  BY <1>1
<1> QED BY <1>1, <1>2, <1>3, <1>4

\* A step of the client that leaves the server alone.
LEMMA ClientTyped ==
  ASSUME ViewInv, UNCHANGED server,
         view' = view \/ Typed(view'),
         loop' \in [step: {"closed", "loading", "subscribed", "down"}, awaits: 0 .. MaxGets,
                    cursor: 0 .. Len(log)],
         pipe' \subseteq DOMAIN log, made' \in 0 .. MaxGets, epoch' \in Nat,
         \A g \in gets' : /\ g \in [id: 1 .. made', epoch: 0 .. epoch', snap: View \cup {NoView}]
                          /\ g.snap # NoView => Typed(g.snap),
         stop' \in {stop, NoStop}, hid' \subseteq Hidings
  PROVE  ViewInv'
<1> USE DEF ViewInv, server
<1>1. log' = log /\ rows' = rows /\ messages' = messages /\ status' = status OBVIOUS
<1>3. view' # NoView => Typed(view)'
  <2>1. CASE view' = view BY <2>1, <1>1 DEF Typed
  <2>2. CASE Typed(view') BY <2>2, <1>1 DEF Typed
  <2> QED BY <2>1, <2>2
<1>4. view' = NoView \/ view' \in View BY <1>3 DEF Typed
<1>5. \A g \in gets' : /\ g \in [id: 1 .. made', epoch: 0 .. epoch', snap: View \cup {NoView}]
                       /\ g.snap # NoView => Typed(g.snap)'
  BY <1>1 DEF Typed
<1>6. \A g \in gets' : g.id \in 1 .. made' /\ g.epoch \in 0 .. epoch' BY <1>5
<1>7. /\ stop'.here => view' # NoView
      /\ stop'.step = "returns" => stop'.here
      /\ stop' \in [step: {"none", "cancelled", "returns"}, runs: SUBSET Runs, here: BOOLEAN]
  <2>1. view # NoView => view' # NoView BY NoViewIsNone DEF Typed
  <2>2. CASE stop' = stop BY <2>1, <2>2 DEF ViewTypeOK
  <2>3. CASE stop' = NoStop BY <2>3 DEF NoStop
  <2> QED BY <2>2, <2>3
<1>8. ViewTypeOK' BY <1>1, <1>4, <1>6, <1>7 DEF ViewTypeOK
<1> QED BY <1>1, <1>3, <1>5, <1>7, <1>8

\* The loop that goes on after a get is typed.
LEMMA ResubscribedTyped ==
  ASSUME ViewInv, NEW g \in gets, NEW from \in 0 .. Len(log), Resubscribed(g, from)
  PROVE  loop' \in [step: {"closed", "loading", "subscribed", "down"}, awaits: 0 .. MaxGets,
                    cursor: 0 .. Len(log)]
<1> USE DEF ViewInv, ViewTypeOK, Resubscribed
<1>1. CASE loop.awaits # g.id BY <1>1
<1>2. CASE loop.awaits = g.id
  <2>1. (IF loop.step = "loading" THEN from ELSE loop.cursor) \in 0 .. Len(log) OBVIOUS
  <2>2. 0 \in 0 .. MaxGets BY ViewAssumption
  <2> QED BY <1>2, <2>1, <2>2
<1> QED BY <1>1, <1>2

\* reconcileRefreshedThread gives a typed view.
LEMMA ReconciledTyped ==
  ASSUME ViewInv, NEW snap, Typed(snap)
  PROVE  Typed(Reconciled(snap))
<1>1. CASE Client = "mobile" \/ view = NoView BY <1>1 DEF Reconciled
<1>2. CASE Client # "mobile" /\ view # NoView
  <2>1. Typed(view) BY <1>2 DEF ViewInv
  <2>2. snap.run \in Runs \cup {None} /\ snap.status \in RunStatuses BY DEF Typed, View
  <2>3. Typed([view EXCEPT !.run = snap.run, !.status = snap.status])
    BY <2>1, <2>2 DEF Typed, View
  <2>4. Typed([snap EXCEPT !.status = "waiting_takeover"])
    BY DEF Typed, View, RunStatuses
  <2>5. Reconciled(snap) \in
          {snap, view, [view EXCEPT !.run = snap.run, !.status = snap.status],
           [snap EXCEPT !.status = "waiting_takeover"]}
    BY <1>2 DEF Reconciled
  <2> QED BY <2>1, <2>3, <2>4, <2>5
<1> QED BY <1>1, <1>2

\* The steps of a get keep the types.
LEMMA GetStepTyped ==
  ASSUME ViewInv, NEW g \in gets, AnswerGet(g) \/ ReceiveGet(g) \/ GetFails(g)
  PROVE  ViewInv'
<1> USE DEF ViewInv
<1>1. /\ pipe \subseteq DOMAIN log /\ made \in 0 .. MaxGets /\ epoch \in Nat
      /\ hid \subseteq Hidings
      /\ loop \in [step: {"closed", "loading", "subscribed", "down"}, awaits: 0 .. MaxGets,
                   cursor: 0 .. Len(log)]
      /\ Len(log) \in Nat
  BY DEF ViewTypeOK
<1>2. g \in [id: 1 .. made, epoch: 0 .. epoch, snap: View \cup {NoView}]
      /\ (g.snap # NoView => Typed(g.snap))
  OBVIOUS
<1>3. CASE AnswerGet(g)
  <2> DEFINE h == [g EXCEPT !.snap = ThreadSnapshot]
  <2>1. Typed(ThreadSnapshot) BY SnapshotTyped
  <2>2. h \in [id: 1 .. made, epoch: 0 .. epoch, snap: View \cup {NoView}] /\ Typed(h.snap)
    BY <1>2, <2>1 DEF Typed
  <2>3. gets' = (gets \ {g}) \cup {h} BY <1>3 DEF AnswerGet
  <2> HIDE DEF h
  <2>4. \A f \in gets' : /\ f \in [id: 1 .. made', epoch: 0 .. epoch', snap: View \cup {NoView}]
                         /\ f.snap # NoView => Typed(f.snap)
    BY <1>3, <2>2, <2>3 DEF AnswerGet
  <2> QED BY <1>1, <1>3, <2>4, ClientTyped DEF AnswerGet
<1>4. CASE ReceiveGet(g)
  <2>1. Typed(g.snap) BY <1>2, <1>4 DEF ReceiveGet
  <2>2. view' = view \/ Typed(view') BY <2>1, <1>4, ReconciledTyped DEF ReceiveGet
  <2>3. g.snap.cursor \in 0 .. Len(log) BY <2>1, <1>1 DEF Typed, View
  <2>4. loop' \in [step: {"closed", "loading", "subscribed", "down"}, awaits: 0 .. MaxGets,
                   cursor: 0 .. Len(log)]
    BY <1>4, <2>3, ResubscribedTyped DEF ReceiveGet
  <2>5. hid' \subseteq Hidings BY <1>1, <1>4 DEF ReceiveGet
  <2>6. \A f \in gets' : /\ f \in [id: 1 .. made', epoch: 0 .. epoch', snap: View \cup {NoView}]
                         /\ f.snap # NoView => Typed(f.snap)
    BY <1>4 DEF ReceiveGet
  <2> QED BY <1>1, <1>4, <2>2, <2>4, <2>5, <2>6, ClientTyped DEF ReceiveGet
<1>5. CASE GetFails(g)
  <2>1. 0 \in 0 .. Len(log) BY <1>1
  <2>2. loop' \in [step: {"closed", "loading", "subscribed", "down"}, awaits: 0 .. MaxGets,
                   cursor: 0 .. Len(log)]
    BY <1>5, <2>1, ResubscribedTyped DEF GetFails
  <2>3. hid' \subseteq Hidings BY <1>1, <1>5 DEF GetFails, Hidings
  <2>4. \A f \in gets' : /\ f \in [id: 1 .. made', epoch: 0 .. epoch', snap: View \cup {NoView}]
                         /\ f.snap # NoView => Typed(f.snap)
    BY <1>5 DEF GetFails
  <2> QED BY <1>1, <1>5, <2>2, <2>3, <2>4, ClientTyped DEF GetFails
<1> QED BY <1>3, <1>4, <1>5

\* The other steps of the client keep the types.
LEMMA ClientStepTyped ==
  ASSUME ViewInv,
         \/ Open \/ Disconnect \/ ReadEvents \/ ReceiveEvent
         \/ StopReturns \/ RefreshAfterRequest
  PROVE  ViewInv'
<1> USE DEF ViewInv
<1>1. /\ pipe \subseteq DOMAIN log /\ made \in 0 .. MaxGets /\ epoch \in Nat
      /\ hid \subseteq Hidings
      /\ loop \in [step: {"closed", "loading", "subscribed", "down"}, awaits: 0 .. MaxGets,
                   cursor: 0 .. Len(log)]
      /\ Len(log) \in Nat /\ DOMAIN log = 1 .. Len(log) /\ rows \subseteq DOMAIN log
      /\ MaxGets \in Nat
  BY ViewAssumption DEF ViewTypeOK
<1>2. ASSUME Refresh, epoch' = epoch, UNCHANGED server
      PROVE  /\ made' \in 0 .. MaxGets /\ made' = made + 1 /\ made + 1 \in 0 .. MaxGets
             /\ \A f \in gets' :
                  /\ f \in [id: 1 .. made', epoch: 0 .. epoch', snap: View \cup {NoView}]
                  /\ f.snap # NoView => Typed(f.snap)
  <2>1. /\ made' = made + 1 /\ made' \in 1 .. MaxGets
        /\ \A f \in gets' :
             /\ f \in [id: 1 .. made', epoch: 0 .. epoch, snap: View \cup {NoView}]
             /\ f.snap # NoView => f \in gets
    BY <1>2, RefreshTyped
  <2> QED BY <1>1, <1>2, <2>1
<1>3. CASE Open
  <2>1. loop' \in [step: {"closed", "loading", "subscribed", "down"}, awaits: 0 .. MaxGets,
                   cursor: 0 .. Len(log)]
    BY <1>1, <1>2, <1>3 DEF Open
  <2> QED BY <1>1, <1>2, <1>3, <2>1, ClientTyped DEF Open
<1>4. CASE Disconnect
  <2>1. loop' \in [step: {"closed", "loading", "subscribed", "down"}, awaits: 0 .. MaxGets,
                   cursor: 0 .. Len(log)]
    BY <1>1, <1>2, <1>4 DEF Disconnect
  <2> QED BY <1>1, <1>2, <1>4, <2>1, ClientTyped DEF Disconnect
<1>5. CASE ReadEvents
  <2>1. pipe' \subseteq DOMAIN log BY <1>1, <1>5 DEF ReadEvents
  <2>2. \A f \in gets' : /\ f \in [id: 1 .. made', epoch: 0 .. epoch', snap: View \cup {NoView}]
                         /\ f.snap # NoView => Typed(f.snap)
    BY <1>5 DEF ReadEvents
  <2> QED BY <1>1, <1>5, <2>1, <2>2, ClientTyped DEF ReadEvents
<1>6. CASE ReceiveEvent
  <2> DEFINE e == Min(pipe)
  <2>1. e \in pipe BY <1>1, <1>6, MinOfInterval DEF ReceiveEvent
  <2>2. e \in DOMAIN log /\ e \in 1 .. Len(log) BY <2>1, <1>1
  <2>3. Max({loop.cursor, e}) \in 0 .. Len(log)
    <3>1. loop.cursor \in Nat /\ e \in Nat /\ loop.cursor <= Len(log) /\ e <= Len(log)
      BY <1>1, <2>2
    <3> HIDE DEF e
    <3> QED BY <3>1, <1>1, MaxOfTwo
  <2>4. /\ loop' = [loop EXCEPT !.cursor = Max({loop.cursor, e})] /\ pipe' = pipe \ {e}
        /\ view' = IF view = NoView THEN view ELSE Reduced(e)
        /\ epoch' = IF log[e].type = "cleared" THEN epoch + 1 ELSE epoch
        /\ IF log[e].type \in Refreshing THEN Refresh ELSE UNCHANGED <<gets, made>>
        /\ UNCHANGED <<server, stop, hid, drops>>
    BY <1>6 DEF ReceiveEvent
  <2> HIDE DEF e
  <2>5. view' = view \/ Typed(view') BY <2>2, <2>4, ReducedTyped
  <2>6. loop' \in [step: {"closed", "loading", "subscribed", "down"}, awaits: 0 .. MaxGets,
                   cursor: 0 .. Len(log)]
    BY <1>1, <2>3, <2>4
  <2>7. epoch' \in Nat /\ epoch' >= epoch BY <1>1, <2>4
  <2>8. /\ made' \in 0 .. MaxGets
        /\ \A f \in gets' : /\ f \in [id: 1 .. made', epoch: 0 .. epoch', snap: View \cup {NoView}]
                            /\ f.snap # NoView => Typed(f.snap)
    <3>1. CASE log[e].type \in Refreshing
      <4>1. epoch' = epoch BY <3>1, <2>4 DEF Refreshing
      <4> QED BY <1>2, <2>4, <3>1, <4>1
    <3>2. CASE log[e].type \notin Refreshing BY <1>1, <2>4, <2>7, <3>2
    <3> QED BY <3>1, <3>2
  <2>9. pipe' \subseteq DOMAIN log BY <1>1, <2>4
  <2> QED BY <1>1, <2>4, <2>5, <2>6, <2>7, <2>8, <2>9, ClientTyped
<1>7. CASE StopReturns
  <2>1. Typed(view) BY <1>7 DEF StopReturns
  <2> DEFINE w == [view EXCEPT !.run = None, !.status = "none", !.live = Without(view.run)]
  <2>2. Without(view.run) \subseteq Runs BY <2>1 DEF Typed, View, Without
  <2>3. w \in View /\ w.cursor = view.cursor /\ w.messages = view.messages
    BY <2>1, <2>2 DEF Typed, View, RunStatuses
  <2>4. Typed(w) BY <2>1, <2>3 DEF Typed
  <2>5. view' \in {view, w} BY <1>7 DEF StopReturns
  <2> HIDE DEF w
  <2>6. view' = view \/ Typed(view') BY <2>4, <2>5
  <2>7. hid' \subseteq Hidings BY <1>1, <1>7 DEF StopReturns, Hidings
  <2> QED BY <1>1, <1>2, <1>7, <2>6, <2>7, ClientTyped DEF StopReturns
<1>8. CASE RefreshAfterRequest
  BY <1>1, <1>2, <1>8, ClientTyped DEF RefreshAfterRequest
<1> QED BY <1>3, <1>4, <1>5, <1>6, <1>7, <1>8

\* ViewInv is inductive.
LEMMA ViewStep == ViewInv /\ [ViewNext]_viewVars => ViewInv'
<1> SUFFICES ASSUME ViewInv, [ViewNext]_viewVars PROVE ViewInv' OBVIOUS
<1>1. CASE UNCHANGED viewVars
  BY <1>1 DEF viewVars, server, ViewInv, ViewTypeOK, Typed
<1> QED BY <1>1, ClearTyped, StopTyped, RunStepTyped, GetStepTyped, ClientStepTyped
  DEF ViewNext

\* ViewInv holds at the start.
LEMMA ViewStart == ViewInit => ViewInv
<1> SUFFICES ASSUME ViewInit PROVE ViewInv OBVIOUS
<1>1. status \in [Runs -> RunStatuses] BY DEF ViewInit, RunStatuses
<1>2. log = <<>> /\ DOMAIN log = {} /\ Len(log) = 0 /\ log \in Seq(Event) BY DEF ViewInit
<1>3. loop \in [step: {"closed", "loading", "subscribed", "down"}, awaits: 0 .. MaxGets,
                cursor: 0 .. Len(log)]
  BY <1>2, ViewAssumption DEF ViewInit
<1> QED BY <1>1, <1>2, <1>3, ViewAssumption DEF ViewInit, ViewInv, ViewTypeOK, NoStop

\* ViewInv always holds.
LEMMA ViewInvariance == ViewSpec => []ViewInv
BY ViewStart, ViewStep, PTL DEF ViewSpec

\* Type correctness of ThreadView, for either client and any number of runs,
\* events, refreshes and lost connections: in particular every snapshot and every
\* view has a cursor and messages of the log, the loop's cursor never passes the
\* log, and no get is from a later epoch than the client's (Shell.tsx, thread.tsx).
THEOREM ViewTypeCorrect == ViewSpec => []ViewTypeOK
<1>1. ViewInv => ViewTypeOK BY DEF ViewInv
<1> QED BY ViewInvariance, <1>1, PTL

-----------------------------------------------------------------------------
(* What the server's transactions do to the thread.                        *)

\* The steps of the server.
ServerStep ==
  \/ ClearThread \/ StopDeletes \/ \E here \in BOOLEAN : StopCancels(here)
  \/ \E r \in Runs : RunStep(r)

\* Event x is of this type and run.
Has(x, type, r) == log[x].type = type /\ log[x].run = r
\* The thread was cleared after event c, and the clear is in the table.
ClearedAfter(c) == \E x \in rows : x > c /\ log[x].type = "cleared"
\* After event c a clear or the terminal event of the run is in the table.
KilledAfter(r, c) ==
  \E x \in rows : x > c /\ (log[x].type = "cleared" \/ Has(x, "terminal", r))

\* How a run with an event of its end has ended.
Over == {"ended", "failed"}

\* What the table tells of the log: its messages are the messages of the thread;
\* but for progress, an event leaves it only by a clear that came later; a clear
\* is the first of its events; only runs that exist have events; an event that
\* brings a run up, of one that is over, is followed by that of its end; and a
\* terminal event is that of a run that is over.
Table ==
  /\ messages = {x \in rows : log[x].type = "message"}
  /\ \A x \in DOMAIN log \ rows : log[x].type # "progress" => ClearedAfter(x)
  /\ \A k, x \in rows : log[k].type = "cleared" => x >= k
  /\ \A x \in DOMAIN log : log[x].run # None => status[log[x].run] # "none"
  /\ \A r \in Runs, x \in DOMAIN log :
       log[x].run = r /\ log[x].type \in {"progress", "started"} /\ status[r] \in Over
         => KilledAfter(r, x)
  /\ \A r \in Runs, x \in DOMAIN log : Has(x, "terminal", r) => status[r] \in Over

\* What every transaction does to the thread.
New == {x \in DOMAIN log' : x > Len(log)}
Clears == \E k \in New : log'[k].type = "cleared" /\ rows' = {k} /\ k = Len(log')
Evolves ==
  /\ Len(log) \in Nat /\ Len(log') \in Nat /\ Len(log) <= Len(log')
  /\ DOMAIN log = 1 .. Len(log) /\ DOMAIN log' = 1 .. Len(log')
  /\ \A x \in DOMAIN log : log'[x] = log[x]
  /\ rows \subseteq DOMAIN log /\ New \subseteq rows' /\ rows' \subseteq rows \cup New
  /\ messages' = {x \in rows' : log'[x].type = "message"}
  /\ \/ Clears
     \/ /\ \A x \in rows \ rows' : log[x].type = "progress"
        /\ \A x \in New : log'[x].type # "cleared"
  /\ \A r \in Runs : /\ status[r] \in Over => status'[r] = status[r]
                     /\ status[r] # "none" => status'[r] # "none"
                     /\ status'[r] \in Over /\ status[r] \notin Over =>
                          \E x \in New : log'[x].type = "cleared" \/ Has(x, "terminal", r)'
  /\ \A x \in New : /\ log'[x].run # None => status'[log'[x].run] # "none"
                    /\ log'[x].type = "terminal" => status'[log'[x].run] \in Over
                    /\ log'[x].type \in {"progress", "started"} => status'[log'[x].run] \notin Over

\* Cancelling ends no run that is over.
LEMMA CancelsAllEvolves ==
  ASSUME ViewInv, NEW to \in {"ended", "silenced"}, CancelsAll(to), NEW r \in Runs
  PROVE  /\ status[r] \in Over => status'[r] = status[r]
         /\ status[r] # "none" => status'[r] # "none"
         /\ status'[r] \in Over /\ status[r] \notin Over => to = "ended"
         /\ status'[r] \notin Active
BY DEF CancelsAll, ActiveRuns, Active, Over, ViewInv, ViewTypeOK

\* A stop only deletes progress.
LEMMA StopEvolves ==
  ASSUME ViewInv, Table, StopDeletes \/ \E here \in BOOLEAN : StopCancels(here)
  PROVE  Evolves
<1>1. Len(log) \in Nat /\ DOMAIN log = 1 .. Len(log) /\ rows \subseteq DOMAIN log
  BY DEF ViewInv, ViewTypeOK
<1>2. CASE StopDeletes
  <2>1. rows' = rows \ ProgressOf(stop.runs) /\ UNCHANGED <<log, messages, status>>
    BY <1>2 DEF StopDeletes
  <2>2. New = {} BY <1>1, <2>1 DEF New
  <2>3. rows' \subseteq rows /\ \A x \in rows \ rows' : log[x].type = "progress"
    BY <2>1 DEF ProgressOf
  <2>4. messages' = {x \in rows' : log'[x].type = "message"} BY <2>1, <2>3 DEF Table
  <2> QED BY <1>1, <2>1, <2>2, <2>3, <2>4 DEF Evolves
<1>3. ASSUME NEW here \in BOOLEAN, StopCancels(here) PROVE Evolves
  <2>1. CancelsAll("silenced") /\ UNCHANGED <<log, rows, messages>> BY <1>3 DEF StopCancels
  <2>2. New = {} BY <1>1, <2>1 DEF New
  <2>3. \A r \in Runs : /\ status[r] \in Over => status'[r] = status[r]
                        /\ status[r] # "none" => status'[r] # "none"
                        /\ ~(status'[r] \in Over /\ status[r] \notin Over)
    BY <2>1, CancelsAllEvolves
  <2> QED BY <1>1, <2>1, <2>2, <2>3 DEF Evolves, Table
<1> QED BY <1>2, <1>3

\* A clear leaves its own event.
LEMMA ClearEvolves == ViewInv /\ ClearThread => Evolves
<1> SUFFICES ASSUME ViewInv, ClearThread PROVE Evolves OBVIOUS
<1>1. rows \subseteq DOMAIN log BY DEF ViewInv, ViewTypeOK
<1>2. /\ log' \in Seq(Event) /\ Len(log) \in Nat /\ Len(log') = Len(log) + 1
      /\ DOMAIN log = 1 .. Len(log) /\ DOMAIN log' = 1 .. Len(log) + 1
      /\ \A x \in DOMAIN log : log'[x] = log[x]
      /\ log'[Len(log) + 1].type = "cleared" /\ log'[Len(log) + 1].run = None
      /\ rows' = (rows \ rows) \cup {Len(log) + 1}
  BY AppendsOne DEF ClearThread, EventTypes
<1>3. New = {Len(log) + 1} BY <1>2 DEF New
<1>4. Clears BY <1>2, <1>3 DEF Clears
<1>5. messages' = {} BY DEF ClearThread
<1>6. \A r \in Runs : /\ status[r] \in Over => status'[r] = status[r]
                      /\ status[r] # "none" => status'[r] # "none"
  BY CancelsAllEvolves DEF ClearThread
<1> QED BY <1>1, <1>2, <1>3, <1>4, <1>5, <1>6 DEF Evolves

\* A step of r is none of another run's end.
OthersGoOn(r) ==
  /\ status[r] \notin Over /\ status'[r] # "none"
  /\ \A q \in Runs \ {r} : /\ status[q] \in Over => status'[q] = status[q]
                           /\ status[q] # "none" => status'[q] # "none"
                           /\ status'[q] \in Over => status[q] \in Over

\* A run's own step appends events of the run and deletes some of its progress.
LEMMA MessageEvolves ==
  ASSUME ViewInv, Table, NEW r \in Runs, OthersGoOn(r),
         Write(<<Entry("message", r)>>, {}), Posts, status'[r] \notin Over
  PROVE  Evolves
<1>1. /\ Len(log) \in Nat /\ DOMAIN log = 1 .. Len(log) /\ rows \subseteq DOMAIN log
      /\ r # None /\ messages = {x \in rows : log[x].type = "message"}
  BY RunsAreNumbers DEF None, ViewInv, ViewTypeOK, Table
<1> DEFINE n == Len(log)
<1>2. /\ log' \in Seq(Event) /\ Len(log') = n + 1
      /\ DOMAIN log' = 1 .. n + 1 /\ \A x \in DOMAIN log : log'[x] = log[x]
      /\ log'[n + 1].type = "message" /\ log'[n + 1].run = r
      /\ rows' = rows \cup {n + 1}
  BY <1>1, AppendsOne DEF EventTypes
<1>3. New = {n + 1} BY <1>1, <1>2 DEF New
<1>4. messages' = {x \in rows' : log'[x].type = "message"} BY <1>1, <1>2 DEF Posts
<1> QED BY <1>1, <1>2, <1>3, <1>4 DEF Evolves, OthersGoOn

\* So does an event that ends nothing, which may delete the run's progress.
LEMMA EventEvolves ==
  ASSUME ViewInv, Table, NEW r \in Runs, OthersGoOn(r), NEW gone \in {{}, ProgressOf({r})},
         NEW type \in EventTypes \ {"cleared", "message", "terminal"},
         Write(<<Entry(type, r)>>, gone), UNCHANGED messages, status'[r] \notin Over
  PROVE  Evolves
<1>1. /\ Len(log) \in Nat /\ DOMAIN log = 1 .. Len(log) /\ rows \subseteq DOMAIN log
      /\ r # None /\ messages = {x \in rows : log[x].type = "message"}
  BY RunsAreNumbers DEF None, ViewInv, ViewTypeOK, Table
<1> DEFINE n == Len(log)
<1>2. gone \subseteq rows /\ \A x \in gone : log[x].type = "progress" BY DEF ProgressOf
<1>3. /\ log' \in Seq(Event) /\ Len(log') = n + 1
      /\ DOMAIN log' = 1 .. n + 1 /\ \A x \in DOMAIN log : log'[x] = log[x]
      /\ log'[n + 1].type = type /\ log'[n + 1].run = r
      /\ rows' = (rows \ gone) \cup {n + 1}
  BY <1>1, AppendsOne
<1>4. New = {n + 1} BY <1>1, <1>3 DEF New
<1>5. messages' = {x \in rows' : log'[x].type = "message"} BY <1>1, <1>2, <1>3
<1> QED BY <1>1, <1>2, <1>3, <1>4, <1>5 DEF Evolves, OthersGoOn

\* So do a message and the event of a pause or an end.
LEMMA BothEvolve ==
  ASSUME ViewInv, Table, NEW r \in Runs, OthersGoOn(r),
         NEW type \in {"waiting_input", "terminal"},
         Write(<<Entry("message", r), Entry(type, r)>>, ProgressOf({r})), Posts,
         type = "terminal" <=> status'[r] \in Over
  PROVE  Evolves
<1>1. /\ Len(log) \in Nat /\ DOMAIN log = 1 .. Len(log) /\ rows \subseteq DOMAIN log
      /\ r # None /\ messages = {x \in rows : log[x].type = "message"}
  BY RunsAreNumbers DEF None, ViewInv, ViewTypeOK, Table
<1> DEFINE n == Len(log)
           gone == ProgressOf({r})
<1>2. gone \subseteq rows /\ \A x \in gone : log[x].type = "progress" BY DEF ProgressOf
<1>3. type \in EventTypes \ {"cleared"} BY DEF EventTypes
<1> HIDE DEF gone
<1>4. /\ log' \in Seq(Event) /\ Len(log') = n + 2
      /\ DOMAIN log' = 1 .. n + 2 /\ \A x \in DOMAIN log : log'[x] = log[x]
      /\ log'[n + 1].type = "message" /\ log'[n + 1].run = r
      /\ log'[n + 2].type = type /\ log'[n + 2].run = r
      /\ rows' = (rows \ gone) \cup {n + 1, n + 2}
  BY <1>3, AppendsTwo DEF gone
<1>5. New = {n + 1, n + 2} BY <1>1, <1>4 DEF New
<1>6. messages' = {x \in rows' : log'[x].type = "message"} BY <1>1, <1>2, <1>4 DEF Posts
<1>7. \A q \in Runs : status'[q] \in Over /\ status[q] \notin Over =>
        \E x \in New : log'[x].type = "cleared" \/ Has(x, "terminal", q)'
  BY <1>4, <1>5 DEF Has, OthersGoOn
<1> QED BY <1>1, <1>2, <1>4, <1>5, <1>6, <1>7 DEF Evolves, OthersGoOn

\* Every step of a run is such a transaction.
LEMMA RunStepEvolves ==
  ASSUME ViewInv, Table, NEW r \in Runs, RunStep(r)
  PROVE  Evolves
<1>1. status \in [Runs -> RunStatuses] BY DEF ViewInv, ViewTypeOK
<1>2. ASSUME NEW to \in RunStatuses \ {"none"}, Becomes(r, to), status[r] \notin Over
      PROVE  OthersGoOn(r) /\ status'[r] = to
  BY <1>1, <1>2 DEF Becomes, OthersGoOn
<1>3. ASSUME UNCHANGED <<log, rows, messages>>, Becomes(r, "leased") \/ Becomes(r, "queued"),
             status[r] \notin Over
      PROVE  Evolves
  <2>1. /\ Len(log) \in Nat /\ DOMAIN log = 1 .. Len(log) /\ rows \subseteq DOMAIN log
        /\ Len(log') \in Nat /\ DOMAIN log' = 1 .. Len(log')
    BY <1>3 DEF ViewInv, ViewTypeOK
  <2>2. New = {} BY <1>3, <2>1 DEF New
  <2>3. OthersGoOn(r) /\ status'[r] \in {"leased", "queued"} BY <1>2, <1>3 DEF RunStatuses
  <2>4. \A q \in Runs : /\ status[q] \in Over => status'[q] = status[q]
                        /\ status[q] # "none" => status'[q] # "none"
                        /\ ~(status'[q] \in Over /\ status[q] \notin Over)
    BY <1>3, <2>3 DEF Over, OthersGoOn
  <2> QED BY <1>3, <2>1, <2>2, <2>4 DEF Evolves, Table
<1>4. CASE Send(r)
  <2>1. /\ Write(<<Entry("message", r)>>, {}) /\ Posts
        /\ status'[r] = "queued" /\ OthersGoOn(r)
    BY <1>1, <1>4 DEF Send, Over, OthersGoOn
  <2>2. status'[r] \notin Over BY <2>1 DEF Over
  <2> QED BY <2>1, <2>2, MessageEvolves
<1>5. CASE ClaimRun(r) BY <1>3, <1>5 DEF ClaimRun, Over
<1>6. CASE StartRun(r)
  <2>1. /\ Write(<<Entry("started", r)>>, {}) /\ UNCHANGED messages
        /\ status'[r] = "running" /\ OthersGoOn(r)
    BY <1>2, <1>6 DEF StartRun, Over, RunStatuses
  <2>2. status'[r] \notin Over /\ "started" \in EventTypes \ {"cleared", "message", "terminal"}
    BY <2>1 DEF Over, EventTypes
  <2> QED BY <2>1, <2>2, EventEvolves
<1>7. CASE RequeueRun(r) BY <1>3, <1>7 DEF RequeueRun, Over
<1>8. CASE FlushProgress(r)
  <2>1. /\ Write(<<Entry("progress", r)>>, {}) /\ UNCHANGED messages
        /\ status'[r] = "running" /\ OthersGoOn(r)
    BY <1>8 DEF FlushProgress, OthersGoOn, Over
  <2>2. status'[r] \notin Over /\ "progress" \in EventTypes \ {"cleared", "message", "terminal"}
    BY <2>1 DEF Over, EventTypes
  <2> QED BY <2>1, <2>2, EventEvolves
<1>9. CASE PauseRunForInput(r)
  <2>1. /\ Write(<<Entry("message", r), Entry("waiting_input", r)>>, ProgressOf({r})) /\ Posts
        /\ status'[r] = "waiting_input" /\ OthersGoOn(r)
    BY <1>2, <1>9 DEF PauseRunForInput, RunStatuses, Over
  <2>2. status'[r] \notin Over BY <2>1 DEF Over
  <2> QED BY <2>1, <2>2, BothEvolve
<1>10. CASE PauseRunForTakeover(r)
  <2>1. /\ Write(<<Entry("takeover_requested", r)>>, ProgressOf({r})) /\ UNCHANGED messages
        /\ status'[r] = "waiting_takeover" /\ OthersGoOn(r)
    BY <1>2, <1>10 DEF PauseRunForTakeover, RunStatuses, Over
  <2>2. /\ status'[r] \notin Over
        /\ "takeover_requested" \in EventTypes \ {"cleared", "message", "terminal"}
    BY <2>1 DEF Over, EventTypes
  <2> QED BY <2>1, <2>2, EventEvolves
<1>11. CASE Resume(r) BY <1>3, <1>11 DEF Resume, Over
<1>12. CASE FinalizeRun(r)
  <2>1. /\ Write(<<Entry("message", r), Entry("terminal", r)>>, ProgressOf({r})) /\ Posts
        /\ status'[r] \in Over /\ OthersGoOn(r)
    BY <1>2, <1>12 DEF FinalizeRun, RunStatuses, Over
  <2> QED BY <2>1, BothEvolve
<1> QED BY <1>4, <1>5, <1>6, <1>7, <1>8, <1>9, <1>10, <1>11, <1>12 DEF RunStep

\* Every step of the server is.
LEMMA ServerEvolves == ViewInv /\ Table /\ ServerStep => Evolves
BY StopEvolves, ClearEvolves, RunStepEvolves DEF ServerStep

\* What ends a run or the thread's messages stays in the table, or is
\* followed by a clear.
LEMMA KillsStay ==
  ASSUME Evolves, NEW c \in Nat
  PROVE  /\ ClearedAfter(c) => ClearedAfter(c)'
         /\ \A r \in Runs : KilledAfter(r, c) => KilledAfter(r, c)'
         /\ Clears /\ c <= Len(log) => ClearedAfter(c)' /\ \A r \in Runs : KilledAfter(r, c)'
<1>1. ASSUME Clears, c <= Len(log) PROVE ClearedAfter(c)' /\ \A r \in Runs : KilledAfter(r, c)'
  BY <1>1 DEF Clears, New, ClearedAfter, KilledAfter, Evolves
<1>2. ASSUME NEW x \in rows, x > c, Clears PROVE c <= Len(log)
  BY <1>2 DEF Evolves
<1>3. ASSUME NEW x \in rows, log[x].type # "progress", ~Clears PROVE x \in rows' /\ log'[x] = log[x]
  BY <1>3 DEF Evolves
<1>4. ClearedAfter(c) => ClearedAfter(c)' BY <1>1, <1>2, <1>3 DEF ClearedAfter
<1>5. \A r \in Runs : KilledAfter(r, c) => KilledAfter(r, c)'
  BY <1>1, <1>2, <1>3 DEF KilledAfter, Has
<1> QED BY <1>1, <1>4, <1>5

\* The table keeps telling the log.
LEMMA TableStep ==
  ASSUME ViewInv, Table, Evolves
  PROVE  Table'
<1>1. /\ Len(log) \in Nat /\ Len(log') \in Nat /\ Len(log) <= Len(log')
      /\ DOMAIN log = 1 .. Len(log) /\ DOMAIN log' = 1 .. Len(log')
      /\ \A x \in DOMAIN log : log'[x] = log[x]
      /\ rows \subseteq DOMAIN log /\ New \subseteq rows' /\ rows' \subseteq rows \cup New
  BY DEF Evolves
<1>2. \A x \in DOMAIN log' : x \in DOMAIN log \/ x \in New BY <1>1 DEF New
<1>3. \A x \in DOMAIN log : log[x] \in Event BY DEF ViewInv, ViewTypeOK
<1>4. \A x \in DOMAIN log : x \in Nat /\ x <= Len(log) BY <1>1
<1>5. ASSUME NEW x \in DOMAIN log' \ rows', log'[x].type # "progress" PROVE ClearedAfter(x)'
  <2>1. x \in DOMAIN log /\ x \in Nat /\ x <= Len(log) /\ log'[x] = log[x]
    BY <1>1, <1>2, <1>4
  <2>2. CASE Clears BY <2>1, <2>2, KillsStay
  <2>3. CASE ~Clears
    <3>1. x \notin rows BY <1>5, <2>1, <2>3 DEF Evolves
    <3>2. ClearedAfter(x) BY <1>5, <2>1, <3>1 DEF Table
    <3> QED BY <2>1, <3>2, KillsStay
  <2> QED BY <2>2, <2>3
<1>6. ASSUME NEW k \in rows', NEW x \in rows', log'[k].type = "cleared" PROVE x >= k
  <2>1. CASE Clears BY <1>1, <2>1 DEF Clears, New
  <2>2. CASE ~Clears
    <3>1. k \in rows /\ log[k].type = "cleared" BY <1>1, <1>6, <2>2 DEF Evolves
    <3>2. CASE x \in rows BY <3>1, <3>2 DEF Table
    <3>3. CASE x \in New BY <1>1, <1>4, <3>1, <3>3 DEF New
    <3> QED BY <1>1, <3>2, <3>3
  <2> QED BY <2>1, <2>2
<1>7. ASSUME NEW x \in DOMAIN log', log'[x].run # None PROVE status'[log'[x].run] # "none"
  <2>1. CASE x \in DOMAIN log
    <3>1. log[x].run \in Runs /\ log'[x] = log[x] BY <1>1, <1>3, <1>7, <2>1 DEF Event
    <3> QED BY <1>7, <2>1, <3>1 DEF Table, Evolves
  <2>2. CASE x \in New BY <1>7, <2>2 DEF Evolves
  <2> QED BY <1>2, <2>1, <2>2
<1>8. ASSUME NEW r \in Runs, NEW x \in DOMAIN log', log'[x].run = r,
             log'[x].type \in {"progress", "started"}, status'[r] \in Over
      PROVE  KilledAfter(r, x)'
  <2>1. x \notin New BY <1>8 DEF Evolves
  <2>2. x \in DOMAIN log /\ x \in Nat /\ x <= Len(log) /\ log'[x] = log[x]
    BY <1>1, <1>2, <1>4, <2>1
  <2>3. CASE status[r] \in Over
    <3>1. KilledAfter(r, x) BY <1>8, <2>2, <2>3 DEF Table
    <3> QED BY <2>2, <3>1, KillsStay
  <2>4. CASE status[r] \notin Over
    <3>1. PICK y \in New : log'[y].type = "cleared" \/ Has(y, "terminal", r)'
      BY <1>8, <2>4 DEF Evolves
    <3>2. y \in rows' /\ y > x BY <1>1, <2>2, <3>1 DEF New
    <3> QED BY <3>1, <3>2 DEF KilledAfter
  <2> QED BY <2>3, <2>4
<1>9. ASSUME NEW r \in Runs, NEW x \in DOMAIN log', Has(x, "terminal", r)'
      PROVE  status'[r] \in Over
  <2>1. CASE x \in New BY <1>9, <2>1 DEF Evolves, Has
  <2>2. CASE x \in DOMAIN log
    <3>1. status[r] \in Over BY <1>1, <1>9, <2>2 DEF Has, Table
    <3> QED BY <3>1 DEF Evolves
  <2> QED BY <1>2, <2>1, <2>2
<1>10. messages' = {x \in rows' : log'[x].type = "message"} BY DEF Evolves
<1> QED BY <1>5, <1>6, <1>7, <1>8, <1>9, <1>10 DEF Table

-----------------------------------------------------------------------------
(* The client's loop follows the table.                                    *)

\* The client's loop: before the first get returns there is no view; events come
\* only while subscribed, in order, past none in the table; and requests have
\* different numbers.
Stream ==
  /\ loop.step \in {"closed", "loading"} =>
       /\ view = NoView /\ loop.cursor = 0 /\ epoch = 0 /\ ~stop.here
       /\ made = IF loop.step = "closed" THEN 0 ELSE 1
  /\ loop.step = "loading" => loop.awaits = 1
  /\ loop.step \in {"subscribed", "down"} => view # NoView
  /\ loop.step = "subscribed" => loop.awaits = 0
  /\ pipe # {} => loop.step = "subscribed"
  /\ \A p \in pipe : p > loop.cursor
  /\ \A p \in pipe, x \in rows \ pipe : x > loop.cursor => x > p
  /\ \A g, h \in gets : g.id = h.id => g = h

\* Nothing is subscribed at the start.
LEMMA StreamStart == ViewInit => Stream
BY DEF ViewInit, Stream, NoStop

\* The server appends past what the client has read.
LEMMA ServerStream ==
  ASSUME "early" \notin Requests, ViewInv, Stream, Evolves, ServerStep
  PROVE  Stream'
<1>1. UNCHANGED <<view, loop, pipe, gets, epoch, made>>
  BY DEF ServerStep, ClearThread, StopDeletes, StopCancels, RunStep, Send, ClaimRun,
    StartRun, RequeueRun, FlushProgress, PauseRunForInput, PauseRunForTakeover, Resume,
    FinalizeRun, ServerOnly
<1>2. loop.step \in {"closed", "loading"} => ~stop'.here
  <2> SUFFICES ASSUME loop.step \in {"closed", "loading"} PROVE ~stop'.here OBVIOUS
  <2>1. ~stop.here BY DEF Stream
  <2>2. CASE StopDeletes BY <2>1, <2>2 DEF StopDeletes, NoStop
  <2>3. ASSUME NEW here \in BOOLEAN, StopCancels(here) PROVE ~stop'.here
    BY <2>3 DEF StopCancels, MayAsk
  <2>4. CASE UNCHANGED stop BY <2>1, <2>4
  <2> QED BY <2>2, <2>3, <2>4
          DEF ServerStep, ClearThread, RunStep, Send, ClaimRun, StartRun, RequeueRun,
              FlushProgress, PauseRunForInput, PauseRunForTakeover, Resume, FinalizeRun,
              ServerOnly
<1>3. ASSUME NEW p \in pipe, NEW x \in rows' \ pipe, x > loop.cursor PROVE x > p
  <2>1. CASE x \in rows BY <1>3, <2>1 DEF Stream
  <2>2. CASE x \in New
    <3>1. p \in 1 .. Len(log) BY DEF ViewInv, ViewTypeOK, Evolves
    <3> QED BY <2>2, <3>1 DEF New, Evolves
  <2> QED BY <2>1, <2>2 DEF Evolves
<1>4. /\ loop.step \in {"closed", "loading"} =>
           view = NoView /\ loop.cursor = 0 /\ epoch = 0 /\ made = IF loop.step = "closed" THEN 0 ELSE 1
      /\ loop.step = "loading" => loop.awaits = 1
      /\ loop.step \in {"subscribed", "down"} => view # NoView
      /\ loop.step = "subscribed" => loop.awaits = 0
      /\ pipe # {} => loop.step = "subscribed"
      /\ \A p \in pipe : p > loop.cursor
      /\ \A g, h \in gets : g.id = h.id => g = h
  BY DEF Stream
<1> QED BY <1>1, <1>2, <1>3, <1>4 DEF Stream

\* Requests have numbers of their own.
LEMMA FreshIds ==
  ASSUME ViewInv, Stream, Refresh
  PROVE  \A g, h \in gets' : g.id = h.id => g = h
<1>1. gets' = gets \cup {Get(made + 1)} /\ Get(made + 1).id = made + 1 BY RefreshTyped
<1>2. \A g \in gets : g.id \in 1 .. made /\ made \in Nat BY DEF ViewInv, ViewTypeOK
<1>3. \A g \in gets : g.id # made + 1 BY <1>2
<1> QED BY <1>1, <1>3 DEF Stream

\* A get that returns lets the loop go on.
LEMMA GetStream ==
  ASSUME "early" \notin Requests, ViewInv, Stream, NEW g \in gets,
         AnswerGet(g) \/ ReceiveGet(g) \/ GetFails(g)
  PROVE  Stream'
<1>1. CASE AnswerGet(g)
  <2> DEFINE h == [g EXCEPT !.snap = ThreadSnapshot]
  <2>1. gets' = (gets \ {g}) \cup {h} /\ h.id = g.id
        /\ UNCHANGED <<server, view, loop, pipe, epoch, made, stop, hid, drops>>
    BY <1>1 DEF AnswerGet, ViewInv
  <2> HIDE DEF h
  <2>2. \A f, k \in gets' : f.id = k.id => f = k BY <2>1 DEF Stream
  <2> QED BY <2>1, <2>2 DEF Stream, server
<1>2. ASSUME NEW from, Resubscribed(g, from),
             UNCHANGED <<server, pipe, epoch, made, stop>>, gets' = gets \ {g},
             loop.step = "loading" /\ loop.awaits = g.id => view' # NoView,
             view # NoView => view' # NoView,
             loop.step \in {"closed", "loading"} /\ loop.awaits # g.id => view' = view
      PROVE  Stream'
  <2>1. loop.awaits # g.id => loop' = loop BY <1>2 DEF Resubscribed
  <2>2. loop.awaits = g.id => /\ loop'.step = "subscribed" /\ loop'.awaits = 0
                              /\ loop'.cursor = IF loop.step = "loading" THEN from ELSE loop.cursor
    BY <1>2 DEF Resubscribed
  <2>3. \A f, k \in gets' : f.id = k.id => f = k BY <1>2 DEF Stream
  <2>4. CASE loop.awaits # g.id BY <1>2, <2>1, <2>3, <2>4 DEF Stream, server
  <2>5. CASE loop.awaits = g.id
    <3>1. g.id >= 1 /\ g.id <= made BY DEF ViewInv, ViewTypeOK
    <3>2. loop.step \in {"loading", "down"}
      BY <2>5, <3>1 DEF Stream, ViewInv, ViewTypeOK
    <3>3. pipe = {} BY <3>2 DEF Stream
    <3>4. view' # NoView BY <1>2, <2>5, <3>2 DEF Stream
    <3> QED BY <1>2, <2>2, <2>3, <2>5, <3>3, <3>4 DEF Stream, server
  <2> QED BY <2>4, <2>5
<1>3. g.id \in Nat /\ g.id >= 1 /\ g.id <= made /\ made \in Nat BY DEF ViewInv, ViewTypeOK
<1>4. loop.step # "closed"
  <2> SUFFICES ASSUME loop.step = "closed" PROVE FALSE OBVIOUS
  <2>1. made = 0 BY DEF Stream
  <2> QED BY <2>1, <1>3
<1>5. loop.step = "loading" => loop.awaits = g.id
  BY <1>3 DEF Stream, ViewInv, ViewTypeOK
<1>6. CASE ReceiveGet(g)
  <2>1. Typed(g.snap) BY <1>6 DEF ReceiveGet, ViewInv
  <2>2. Reconciled(g.snap) # NoView
    BY <2>1, ReconciledTyped, NoViewIsNone DEF Typed
  <2>3. loop.step = "loading" => Applies(g)
    BY <1>3 DEF Stream, Applies, ViewInv, ViewTypeOK
  <2> QED BY <1>2, <1>4, <1>5, <1>6, <2>2, <2>3 DEF ReceiveGet
<1>7. CASE GetFails(g)
  <2>1. loop.step # "loading" BY <1>7 DEF GetFails, Stream
  <2> QED BY <1>2, <1>4, <1>7, <2>1 DEF GetFails
<1> QED BY <1>1, <1>6, <1>7

\* The event the loop applies is the next one of the table.
LEMMA EventStream ==
  ASSUME ViewInv, Stream, ReceiveEvent
  PROVE  LET e == Min(pipe)
         IN  /\ e \in pipe /\ e \in DOMAIN log /\ e \in Nat /\ e > loop.cursor /\ view # NoView
             /\ loop' = [loop EXCEPT !.cursor = e] /\ pipe' = pipe \ {e}
             /\ view' = Reduced(e)
             /\ epoch' = IF log[e].type = "cleared" THEN epoch + 1 ELSE epoch
             /\ IF log[e].type \in Refreshing THEN Refresh ELSE UNCHANGED <<gets, made>>
             /\ \A x \in rows : x <= loop.cursor \/ x >= e
<1> DEFINE e == Min(pipe)
<1>1. /\ pipe \subseteq DOMAIN log /\ Len(log) \in Nat /\ DOMAIN log = 1 .. Len(log)
      /\ loop.cursor \in 0 .. Len(log) /\ rows \subseteq DOMAIN log
      /\ loop = [step |-> loop.step, awaits |-> loop.awaits, cursor |-> loop.cursor]
  BY DEF ViewInv, ViewTypeOK
<1>2. e \in pipe /\ \A p \in pipe : e <= p BY <1>1, MinOfInterval DEF ReceiveEvent
<1>3. e \in DOMAIN log /\ e \in Nat /\ e > loop.cursor BY <1>1, <1>2 DEF Stream
<1>4. view # NoView BY <1>2 DEF Stream
<1>5. Max({loop.cursor, e}) = e
  <2>1. loop.cursor \in Nat BY <1>1
  <2> HIDE DEF e
  <2> QED BY <2>1, <1>3, MaxOfTwo
<1>6. ASSUME NEW x \in rows, x > loop.cursor PROVE x >= e
  <2>1. x \in Nat BY <1>1
  <2>2. CASE x \in pipe BY <1>2, <2>2
  <2>3. CASE x \notin pipe BY <1>2, <1>3, <1>6, <2>1, <2>3 DEF Stream
  <2> QED BY <2>2, <2>3
<1>7. \A x \in rows : x <= loop.cursor \/ x >= e BY <1>1, <1>6
<1>8. /\ loop' = [loop EXCEPT !.cursor = Max({loop.cursor, e})] /\ pipe' = pipe \ {e}
      /\ view' = IF view = NoView THEN view ELSE Reduced(e)
      /\ epoch' = IF log[e].type = "cleared" THEN epoch + 1 ELSE epoch
      /\ IF log[e].type \in Refreshing THEN Refresh ELSE UNCHANGED <<gets, made>>
  BY DEF ReceiveEvent
<1> HIDE DEF e
<1>9. loop' = [loop EXCEPT !.cursor = e] /\ view' = Reduced(e) BY <1>4, <1>5, <1>8
<1> QED BY <1>2, <1>3, <1>4, <1>7, <1>8, <1>9 DEF e

\* The other steps of the client keep the stream.
LEMMA ClientStream ==
  ASSUME "early" \notin Requests, ViewInv, Stream,
         \/ Open \/ Disconnect \/ ReadEvents \/ ReceiveEvent
         \/ StopReturns \/ RefreshAfterRequest
  PROVE  Stream'
<1>1. /\ loop \in [step: {"closed", "loading", "subscribed", "down"}, awaits: 0 .. MaxGets,
                   cursor: 0 .. Len(log)]
      /\ made \in Nat /\ Len(log) \in Nat /\ DOMAIN log = 1 .. Len(log) /\ rows \subseteq DOMAIN log
  BY DEF ViewInv, ViewTypeOK
<1>2. Refresh => made' = made + 1 /\ \A g, h \in gets' : g.id = h.id => g = h
  BY FreshIds DEF Refresh
<1>3. CASE Open
  <2>1. made = 0 /\ pipe = {} BY <1>3 DEF Open, Stream
  <2>2. loop'.step = "loading" /\ loop'.awaits = 1 /\ loop'.cursor = loop.cursor
    BY <1>1, <1>3, <2>1 DEF Open
  <2> QED BY <1>2, <1>3, <2>1, <2>2 DEF Open, Stream
<1>4. CASE Disconnect
  <2>1. loop'.step = "down" BY <1>1, <1>4 DEF Disconnect
  <2> QED BY <1>2, <1>4, <2>1 DEF Disconnect, Stream
<1>5. CASE ReadEvents BY <1>1, <1>5 DEF ReadEvents, Stream, server
<1>6. CASE ReceiveEvent
  <2> DEFINE e == Min(pipe)
  <2>1. /\ e \in pipe /\ e \in Nat /\ e > loop.cursor /\ view # NoView
        /\ loop' = [loop EXCEPT !.cursor = e] /\ pipe' = pipe \ {e} /\ view' = Reduced(e)
        /\ IF log[e].type \in Refreshing THEN Refresh ELSE UNCHANGED <<gets, made>>
        /\ e \in DOMAIN log /\ \A p \in pipe : e <= p
    BY <1>1, <1>6, EventStream, MinOfInterval DEF ReceiveEvent, ViewInv, ViewTypeOK
  <2>2. UNCHANGED server BY <1>6 DEF ReceiveEvent
  <2> HIDE DEF e
  <2>3. Reduced(e) # NoView BY <2>1, ReducedTyped, NoViewIsNone DEF Typed
  <2>4. loop.step = "subscribed" BY <2>1 DEF Stream
  <2>5. loop'.step = "subscribed" /\ loop'.awaits = loop.awaits /\ loop'.cursor = e
    BY <1>1, <2>1, <2>4
  <2>6. \A g, h \in gets' : g.id = h.id => g = h BY <1>2, <2>1 DEF Stream
  <2>7. \A p \in pipe' : p > e
    <3>1. \A p \in pipe : p \in Nat BY <1>1 DEF ViewInv, ViewTypeOK
    <3> QED BY <2>1, <3>1
  <2>8. \A p \in pipe', x \in rows' \ pipe' : x > e => x > p
    <3> SUFFICES ASSUME NEW p \in pipe', NEW x \in rows' \ pipe', x > e PROVE x > p OBVIOUS
    <3>1. x \in rows \ pipe /\ p \in pipe /\ x > loop.cursor
      BY <1>1, <2>1, <2>2 DEF server
    <3> QED BY <3>1 DEF Stream
  <2> QED BY <2>1, <2>2, <2>3, <2>4, <2>5, <2>6, <2>7, <2>8 DEF Stream
<1>7. CASE StopReturns
  <2>1. loop.step \notin {"closed", "loading"} /\ view # NoView
    BY <1>7 DEF StopReturns, Stream, ViewInv
  <2>2. Typed(view) BY <2>1 DEF ViewInv
  <2>3. view' # NoView
    <3>1. [view EXCEPT !.run = None, !.status = "none", !.live = Without(view.run)].cursor = view.cursor
      BY <2>2 DEF Typed, View
    <3>2. view'.cursor = view.cursor BY <1>7, <3>1 DEF StopReturns
    <3>3. view.cursor \in Nat BY <2>2 DEF Typed, View
    <3> QED BY <3>2, <3>3 DEF NoView
  <2> QED BY <1>2, <1>7, <2>1, <2>3 DEF StopReturns, Stream, server
<1>8. CASE RefreshAfterRequest
  <2>1. loop.step \notin {"closed", "loading"} BY <1>8 DEF RefreshAfterRequest, MayAsk
  <2> QED BY <1>2, <1>8, <2>1 DEF RefreshAfterRequest, Stream, server
<1> QED BY <1>3, <1>4, <1>5, <1>6, <1>7, <1>8

-----------------------------------------------------------------------------
(* What snapshots and the view owe to the events.                          *)

\* The events that move the cursor of a web view whatever it shows.
Moves == {"message", "progress", "started", "terminal", "cleared"}

\* Every event up to the loop's cursor that moves a view has moved it.
MovedUp == \A x \in rows : x <= loop.cursor /\ log[x].type \in Moves => x <= view.cursor

\* What a snapshot s owes to the events up to c: it has the messages among them,
\* and no other unless a clear is still to come; what it shows live exists, and
\* if it is over its end is still to come; and so for its run, if ended.
Told(s, c) ==
  /\ \A m \in messages : m <= c => m \in s.messages
  /\ s.messages \subseteq messages \/ ClearedAfter(c)
  /\ \A r \in s.live : status[r] # "none" /\ (status[r] \in Over => KilledAfter(r, c))
  /\ s.run # None => /\ status[s.run] # "none"
                     /\ status[s.run] = "ended" => KilledAfter(s.run, c)

\* The gets that carry a snapshot.
Answered == {g \in gets : g.snap # NoView}
\* Every answer on its way is true up to its own cursor, ...
Snapshots == \A g \in Answered : Told(g.snap, g.snap.cursor)
\* ... and the view up to the loop's.
Shown == view # NoView => MovedUp /\ Told(view, loop.cursor)

\* A transaction leaves it true: what it changes comes with an event past c.
LEMMA ToldStays ==
  ASSUME ViewInv, Table, Evolves, NEW s \in View, NEW c \in Nat, c <= Len(log), Told(s, c)
  PROVE  Told(s, c)'
<1>1. /\ s.live \subseteq Runs /\ s.run \in Runs \cup {None} BY DEF View
<1>2. ASSUME NEW m \in messages', m <= c PROVE m \in s.messages
  <2>1. m \in rows' /\ log'[m].type = "message" BY <1>2 DEF Evolves
  <2>2. m \notin New BY <1>2 DEF New, Evolves
  <2>3. m \in messages BY <2>1, <2>2 DEF Evolves, Table
  <2> QED BY <1>2, <2>3 DEF Told
<1>3. s.messages \subseteq messages' \/ ClearedAfter(c)'
  <2>1. CASE Clears BY <2>1, KillsStay
  <2>2. CASE ~Clears
    <3>1. messages \subseteq messages' BY <2>2 DEF Evolves, Table
    <3> QED BY <3>1, KillsStay DEF Told
  <2> QED BY <2>1, <2>2
<1>4. ASSUME NEW r \in Runs, status'[r] \in Over, status[r] \notin Over PROVE KilledAfter(r, c)'
  <2>1. PICK x \in New : log'[x].type = "cleared" \/ Has(x, "terminal", r)'
    BY <1>4 DEF Evolves
  <2>2. x \in rows' /\ x > c BY <2>1 DEF New, Evolves
  <2> QED BY <2>1, <2>2 DEF KilledAfter
<1>5. ASSUME NEW r \in s.live PROVE status'[r] # "none" /\ (status'[r] \in Over => KilledAfter(r, c)')
  <2>1. status[r] # "none" /\ (status[r] \in Over => KilledAfter(r, c)) BY <1>5 DEF Told
  <2> QED BY <1>1, <1>4, <2>1, KillsStay DEF Evolves
<1>6. ASSUME s.run # None
      PROVE  status'[s.run] # "none" /\ (status'[s.run] = "ended" => KilledAfter(s.run, c)')
  <2>1. s.run \in Runs BY <1>1, <1>6
  <2>2. status[s.run] # "none" /\ (status[s.run] = "ended" => KilledAfter(s.run, c))
    BY <1>6 DEF Told
  <2>3. CASE status[s.run] \in Over BY <2>1, <2>2, <2>3, KillsStay DEF Evolves
  <2>4. CASE status[s.run] \notin Over BY <1>4, <2>1, <2>2, <2>4 DEF Evolves, Over
  <2> QED BY <2>3, <2>4
<1> QED BY <1>2, <1>3, <1>5, <1>6 DEF Told

\* threadSnapshot is true up to its cursor.
LEMMA SnapshotTold == ViewInv => Told(ThreadSnapshot, ThreadSnapshot.cursor)
<1> SUFFICES ASSUME ViewInv PROVE Told(ThreadSnapshot, ThreadSnapshot.cursor) OBVIOUS
<1> DEFINE s == ThreadSnapshot
<1>1. /\ s.messages = messages /\ \A r \in s.live : status[r] \in Active
      /\ s.run # None => status[s.run] \in Active \cup {"failed"}
  BY SnapshotTyped
<1> QED BY <1>1 DEF Told, Active, Over

\* A snapshot that is not older than the view is as true of the loop's cursor.
LEMMA ToldLater ==
  ASSUME ViewInv, Table, MovedUp, view # NoView, NEW s, Typed(s), s.cursor >= view.cursor,
         Told(s, s.cursor)
  PROVE  Told(s, loop.cursor) /\ \A x \in rows : x <= loop.cursor /\ log[x].type \in Moves => x <= s.cursor
<1>1. /\ view.cursor \in Nat /\ s.cursor \in Nat /\ loop.cursor \in Nat
      /\ rows \subseteq Nat /\ messages \subseteq Nat
  BY DEF ViewInv, ViewTypeOK, Typed, View
<1>2. \A x \in rows : x <= loop.cursor /\ log[x].type \in Moves => x <= s.cursor
  BY <1>1 DEF MovedUp
<1>3. \A x \in rows : x > s.cursor /\ log[x].type \in Moves => x > loop.cursor
  BY <1>1, <1>2
<1>4. ClearedAfter(s.cursor) => ClearedAfter(loop.cursor) BY <1>3 DEF ClearedAfter, Moves
<1>5. \A r : KilledAfter(r, s.cursor) => KilledAfter(r, loop.cursor)
  BY <1>3 DEF KilledAfter, Has, Moves
<1>6. \A m \in messages : m <= loop.cursor => m \in s.messages
  BY <1>2 DEF Told, Table, Moves
<1> QED BY <1>2, <1>4, <1>5, <1>6 DEF Told

\* What each type of event does to the view of the web client.
LEMMA ReducedFields ==
  ASSUME Client = "web", ViewInv, view # NoView, NEW e \in DOMAIN log
  PROVE  LET v == Reduced(e)
             type == log[e].type
             r == log[e].run
         IN  /\ type \in Moves => v.cursor = e
             /\ type \notin Moves => v.cursor = e \/ v = view
             /\ v.messages = IF type = "cleared" THEN {}
                             ELSE IF type = "message" THEN view.messages \cup {e}
                             ELSE view.messages
             /\ v.live \subseteq IF type = "cleared" THEN {}
                                 ELSE IF type = "progress" THEN view.live \cup {r}
                                 ELSE IF type \in {"message", "terminal"} THEN view.live \ {r}
                                 ELSE view.live
             /\ v.run = IF type = "cleared" \/ (type = "terminal" /\ view.run = r) THEN None
                        ELSE IF type = "started" THEN r ELSE view.run
             /\ view.live \subseteq v.live \/ type \in {"cleared", "message", "terminal", "waiting_input"}
             /\ type = "started" => v.status = "running"
             /\ type \in {"waiting_input"} /\ view.run = r => v.status = "waiting_input"
             /\ type = "takeover_requested" /\ view.run = r => v.status = "waiting_takeover"
             /\ type \in {"message", "progress"} \/ (type # "started" /\ view.run # r /\ type # "cleared")
                  => v.status = view.status
<1> USE DEF Moves
<1>1. Typed(view) BY DEF ViewInv
<1>2. view.cursor \in Nat /\ view \in View BY <1>1 DEF Typed, View
<1>3. /\ Moved(e).cursor = e /\ Moved(e).messages = view.messages /\ Moved(e).run = view.run
      /\ Moved(e).status = view.status /\ Moved(e).live = view.live
      /\ DOMAIN Moved(e) = {"cursor", "messages", "run", "status", "live"}
  BY <1>2 DEF Moved, View
<1>4. log[e].type \in EventTypes
  <2>1. log[e] \in Event BY DEF ViewInv, ViewTypeOK
  <2> QED BY <2>1 DEF Event
<1>5. CASE log[e].type = "message"
  <2>1. Reduced(e) = [Moved(e) EXCEPT !.messages = @ \cup {e}, !.live = Without(log[e].run)]
    BY <1>5 DEF Reduced
  <2> QED BY <1>3, <1>5, <2>1 DEF Without
<1>6. CASE log[e].type = "progress"
  <2>1. Reduced(e) = [Moved(e) EXCEPT !.live = @ \cup {log[e].run}] BY <1>6 DEF Reduced
  <2> QED BY <1>3, <1>6, <2>1
<1>7. CASE log[e].type = "started"
  <2>1. Reduced(e) = [Moved(e) EXCEPT !.run = log[e].run, !.status = "running"]
    BY <1>7 DEF Reduced, Started
  <2> QED BY <1>3, <1>7, <2>1
<1>8. ASSUME NEW to \in {"waiting_input", "waiting_takeover"}, NEW r
      PROVE  LET v == Paused(e, r, to)
             IN  /\ v.cursor = e \/ v = view
                 /\ v.messages = view.messages /\ v.run = view.run
                 /\ v.live \subseteq view.live /\ (to = "waiting_takeover" => v.live = view.live)
                 /\ v.status = IF view.run = r THEN to ELSE view.status
  <2> DEFINE changes == view.run = r /\ view.status # to
             live == IF to = "waiting_input" THEN Without(r) ELSE view.live
             w == [Moved(e) EXCEPT !.status = IF changes THEN to ELSE @, !.live = live]
  <2>1. Paused(e, r, to) = IF ~changes /\ live = view.live THEN view ELSE w BY DEF Paused
  <2>2. live \subseteq view.live /\ (to = "waiting_takeover" => live = view.live)
    BY DEF Without
  <2>3. /\ w.cursor = e /\ w.messages = view.messages /\ w.run = view.run
        /\ w.live = live /\ w.status = IF changes THEN to ELSE view.status
    BY <1>3
  <2> HIDE DEF w, live
  <2>4. CASE ~changes /\ live = view.live BY <2>1, <2>2, <2>4
  <2>5. CASE ~(~changes /\ live = view.live) BY <2>1, <2>2, <2>3, <2>5
  <2> QED BY <2>4, <2>5
<1>9. CASE log[e].type = "waiting_input"
  <2>1. Reduced(e) = Paused(e, log[e].run, "waiting_input") BY <1>9 DEF Reduced
  <2> QED BY <1>8, <1>9, <2>1
<1>10. CASE log[e].type = "takeover_requested"
  <2>1. Reduced(e) = Paused(e, log[e].run, "waiting_takeover") BY <1>10 DEF Reduced
  <2> QED BY <1>8, <1>10, <2>1
<1>11. CASE log[e].type = "terminal"
  <2>1. Reduced(e) = [Moved(e) EXCEPT !.live = Without(log[e].run),
                          !.run = IF @ = log[e].run THEN None ELSE @,
                          !.status = IF view.run = log[e].run THEN "none" ELSE @]
    BY <1>11 DEF Reduced, Ended
  <2> QED BY <1>3, <1>11, <2>1 DEF Without
<1>12. CASE log[e].type = "cleared"
  <2>1. Reduced(e) = [Moved(e) EXCEPT !.messages = {}, !.run = None, !.status = "none", !.live = {}]
    BY <1>12 DEF Reduced
  <2> QED BY <1>3, <1>12, <2>1
<1> QED BY <1>4, <1>5, <1>6, <1>7, <1>9, <1>10, <1>11, <1>12 DEF EventTypes

\* The view that applies the next event is true up to that event.
LEMMA EventTold ==
  ASSUME Client = "web", ViewInv, Table, Stream, MovedUp, Told(view, loop.cursor), ReceiveEvent
  PROVE  Told(view, loop.cursor)' /\ MovedUp'
<1> DEFINE e == Min(pipe)
           L == loop.cursor
           v == Reduced(e)
           type == log[e].type
           r == log[e].run
<1>1. /\ e \in DOMAIN log /\ e \in Nat /\ e > L /\ view # NoView
      /\ loop' = [loop EXCEPT !.cursor = e] /\ view' = v
      /\ \A x \in rows : x <= L \/ x >= e
  BY EventStream
<1>2. UNCHANGED <<log, rows, messages, status>> BY DEF ReceiveEvent, server
<1>3. /\ L \in Nat /\ rows \subseteq Nat /\ loop'.cursor = e /\ log[e] \in Event
      /\ view \in View /\ view.cursor \in Nat
  BY <1>1 DEF ViewInv, ViewTypeOK, Typed, View
<1>4. /\ type \in Moves => v.cursor = e
      /\ type \notin Moves => v.cursor = e \/ v = view
      /\ v.messages = IF type = "cleared" THEN {}
                      ELSE IF type = "message" THEN view.messages \cup {e}
                      ELSE view.messages
      /\ v.live \subseteq IF type = "cleared" THEN {}
                          ELSE IF type = "progress" THEN view.live \cup {r}
                          ELSE IF type \in {"message", "terminal"} THEN view.live \ {r}
                          ELSE view.live
      /\ v.run = IF type = "cleared" \/ (type = "terminal" /\ view.run = r) THEN None
                 ELSE IF type = "started" THEN r ELSE view.run
  BY <1>1, ReducedFields
<1>5. type \in EventTypes /\ (type # "cleared" => r \in Runs)
  BY <1>1, <1>3 DEF ViewInv, Event
<1> HIDE DEF e, v
<1>6. type # "progress" /\ e \notin rows => ClearedAfter(e) BY <1>1 DEF Table
<1>7. ClearedAfter(L) /\ type # "cleared" => ClearedAfter(e)
  BY <1>1, <1>3 DEF ClearedAfter
<1>8. ASSUME NEW q \in Runs, KilledAfter(q, L), type # "cleared", ~Has(e, "terminal", q)
      PROVE  KilledAfter(q, e)
  BY <1>1, <1>3, <1>8 DEF KilledAfter
<1>9. ASSUME NEW m \in messages, m <= e PROVE m \in v.messages
  <2>1. m \in rows /\ log[m].type = "message" BY DEF Table
  <2>2. m <= L => m \in view.messages BY DEF Told
  <2>3. CASE type = "cleared"
    <3>1. CASE e \in rows
      <4>1. m >= e BY <2>1, <2>3, <3>1 DEF Table
      <4>2. m = e BY <1>1, <1>3, <1>9, <2>1, <4>1
      <4> QED BY <2>1, <2>3, <4>2
    <3>2. CASE e \notin rows
      <4>1. PICK k \in rows : k > e /\ log[k].type = "cleared"
        BY <1>6, <2>3, <3>2 DEF ClearedAfter
      <4>2. m >= k BY <2>1, <4>1 DEF Table
      <4>3. m \in Nat /\ k \in Nat /\ e \in Nat BY <1>1, <1>3, <2>1, <4>1
      <4> HIDE DEF L, type, r
      <4> QED BY <1>9, <4>1, <4>2, <4>3
    <3> QED BY <3>1, <3>2
  <2>4. CASE type # "cleared" BY <1>1, <1>3, <1>4, <1>9, <2>1, <2>2, <2>4
  <2> QED BY <2>3, <2>4
<1>10. v.messages \subseteq messages \/ ClearedAfter(e)
  <2>1. CASE type = "cleared" BY <1>4, <2>1
  <2>2. CASE type # "cleared"
    <3>1. view.messages \subseteq messages \/ ClearedAfter(e) BY <1>7, <2>2 DEF Told
    <3>2. type = "message" => e \in messages \/ ClearedAfter(e) BY <1>6 DEF Table
    <3> QED BY <1>4, <2>2, <3>1, <3>2
  <2> QED BY <2>1, <2>2
<1>11. ASSUME NEW q \in v.live PROVE status[q] # "none" /\ (status[q] \in Over => KilledAfter(q, e))
  <2>1. type # "cleared" BY <1>4, <1>11
  <2>2. CASE q \in view.live
    <3>1. status[q] # "none" /\ (status[q] \in Over => KilledAfter(q, L)) BY <2>2 DEF Told
    <3>2. ~Has(e, "terminal", q) BY <1>4, <1>11, <2>1 DEF Has
    <3>3. q \in Runs BY <1>3, <2>2 DEF View
    <3> QED BY <1>8, <2>1, <3>1, <3>2, <3>3
  <2>3. CASE q \notin view.live
    <3>1. type = "progress" /\ q = r BY <1>4, <1>11, <2>1, <2>3
    <3>2. q \in Runs /\ q # None BY <1>5, <2>1, <3>1, RunsAreNumbers DEF None
    <3> QED BY <1>1, <3>1, <3>2 DEF Table
  <2> QED BY <2>2, <2>3
<1>12. ASSUME v.run # None
       PROVE  status[v.run] # "none" /\ (status[v.run] = "ended" => KilledAfter(v.run, e))
  <2>1. type # "cleared" BY <1>4, <1>12
  <2>2. CASE type = "started"
    <3>1. v.run = r /\ r \in Runs BY <1>4, <1>5, <2>1, <2>2
    <3>2. status[r] # "none" BY <1>1, <1>12, <3>1 DEF Table
    <3>3. status[r] \in Over => KilledAfter(r, e) BY <1>1, <2>2, <3>1 DEF Table
    <3> QED BY <3>1, <3>2, <3>3 DEF Over
  <2>3. CASE type # "started"
    <3>1. v.run = view.run /\ ~Has(e, "terminal", v.run) BY <1>4, <1>12, <2>1, <2>3 DEF Has
    <3>2. v.run \in Runs BY <1>3, <1>12, <3>1 DEF View
    <3>3. /\ status[v.run] # "none"
          /\ status[v.run] = "ended" => KilledAfter(v.run, L)
      BY <1>12, <3>1 DEF Told
    <3> QED BY <1>8, <2>1, <3>1, <3>2, <3>3
  <2> QED BY <2>2, <2>3
<1>13. Told(v, e) BY <1>9, <1>10, <1>11, <1>12 DEF Told
<1>14. Told(view, loop.cursor)'
  <2>1. loop'.cursor = e /\ view' = v BY <1>1, <1>3
  <2> QED BY <1>2, <1>13, <2>1 DEF Told, ClearedAfter, KilledAfter, Has
<1>15. MovedUp'
  <2> SUFFICES ASSUME NEW x \in rows, x <= e, log[x].type \in Moves PROVE x <= v.cursor
    BY <1>1, <1>2, <1>3 DEF MovedUp
  <2>1. x <= L => x <= view.cursor BY DEF MovedUp
  <2>2. CASE type \in Moves BY <1>4, <2>2
  <2>3. CASE type \notin Moves
    <3>1. x # e BY <2>3
    <3>2. x <= L BY <1>1, <1>3, <3>1
    <3> QED BY <1>3, <1>4, <2>1, <2>3, <3>2
  <2> QED BY <2>2, <2>3
<1> QED BY <1>14, <1>15

\* What was told is still true when the server takes no step.
LEMMA ToldSame ==
  ASSUME UNCHANGED server
  PROVE  \A s, c : Told(s, c) <=> Told(s, c)'
BY DEF server, Told, ClearedAfter, KilledAfter, Has

\* The server's steps leave answers and view true.
LEMMA ServerTold ==
  ASSUME ViewInv, Table, Evolves, Snapshots, Shown, UNCHANGED <<view, loop, gets>>
  PROVE  Snapshots' /\ Shown'
<1>1. /\ Len(log) \in Nat /\ loop.cursor \in Nat /\ loop.cursor <= Len(log)
      /\ view # NoView => view \in View
  BY DEF ViewInv, ViewTypeOK, Typed
<1>2. ASSUME NEW g \in gets, g.snap # NoView, Told(g.snap, g.snap.cursor)
      PROVE  Told(g.snap, g.snap.cursor)'
  <2>1. g.snap \in View /\ g.snap.cursor \in Nat /\ g.snap.cursor <= Len(log)
    BY <1>2 DEF ViewInv, Typed, View
  <2> QED BY <1>2, <2>1, ToldStays
<1>3. Snapshots' BY <1>2 DEF Snapshots, Answered
<1>4. ASSUME view # NoView PROVE Told(view, loop.cursor)'
  <2> SUFFICES ASSUME NEW v, v = view, NEW c, c = loop.cursor PROVE Told(view, loop.cursor)' OBVIOUS
  <2>1. Told(v, c)' BY <1>1, <1>4, ToldStays DEF Shown
  <2> QED BY <2>1 DEF Told, ClearedAfter, KilledAfter
<1>5. ASSUME view # NoView PROVE MovedUp'
  <2>1. \A x \in rows' : x \in rows \/ x > loop.cursor BY <1>1 DEF Evolves, New
  <2>2. \A x \in rows : log'[x] = log[x] /\ x \in Nat BY DEF Evolves
  <2>3. \A x \in rows' : x > loop.cursor => ~(x <= loop.cursor)
    BY <1>1 DEF Evolves, New
  <2>4. \A x \in rows' : x <= loop.cursor => x \in rows BY <2>1, <2>3
  <2> QED BY <1>5, <2>2, <2>4 DEF MovedUp, Shown
<1> QED BY <1>3, <1>4, <1>5 DEF Shown

\* An answer is true when it is read.
LEMMA AnswerTold ==
  ASSUME ViewInv, Snapshots, Shown, NEW g \in gets, AnswerGet(g)
  PROVE  Snapshots' /\ Shown'
<1>1. UNCHANGED <<server, view, loop>> BY DEF AnswerGet
<1>2. \A s, c : Told(s, c) <=> Told(s, c)' BY <1>1, ToldSame
<1>3. [g EXCEPT !.snap = ThreadSnapshot].snap = ThreadSnapshot BY DEF ViewInv
<1>4. \A h \in gets' : h \in gets \/ h.snap = ThreadSnapshot BY <1>3 DEF AnswerGet
<1>5. \A h \in Answered' : Told(h.snap, h.snap.cursor)
  BY <1>4, SnapshotTold DEF Answered, Snapshots
<1>6. Snapshots' BY <1>2, <1>5 DEF Snapshots
<1>7. Shown' BY <1>1 DEF Shown, MovedUp, server, Told, ClearedAfter, KilledAfter, Has
<1> QED BY <1>6, <1>7

\* reconcileRefreshedThread: whether the answer is older or newer than the view,
\* what it makes of the two is true up to the loop's cursor.
LEMMA ReconciledTold ==
  ASSUME Client = "web", ViewInv, Table, Shown, view # NoView,
         NEW snap, Typed(snap), Told(snap, snap.cursor)
  PROVE  LET v == Reconciled(snap)
         IN  /\ Told(v, loop.cursor)
             /\ \A x \in rows : x <= loop.cursor /\ log[x].type \in Moves => x <= v.cursor
<1> DEFINE v == Reconciled(snap)
<1>1. /\ Typed(view) /\ Told(view, loop.cursor) /\ MovedUp
      /\ view \in View /\ snap \in View /\ view.cursor \in Nat /\ snap.cursor \in Nat
  BY DEF ViewInv, Shown, Typed, View
<1>2. CASE snap.cursor < view.cursor
  <2>1. CASE view.run = None /\ snap.run # None /\ snap.run \in view.live
    <3>1. v = [view EXCEPT !.run = snap.run, !.status = snap.status]
      BY <1>2, <2>1 DEF Reconciled
    <3>2. /\ v.messages = view.messages /\ v.live = view.live /\ v.run = snap.run
          /\ v.cursor = view.cursor
      BY <1>1, <3>1 DEF View
    <3>3. status[snap.run] # "none" /\ (status[snap.run] \in Over => KilledAfter(snap.run, loop.cursor))
      BY <1>1, <2>1 DEF Told
    <3> HIDE DEF v
    <3>4. /\ \A m \in messages : m <= loop.cursor => m \in v.messages
          /\ v.messages \subseteq messages \/ ClearedAfter(loop.cursor)
      BY <1>1, <3>2 DEF Told
    <3>5. \A r \in v.live : status[r] # "none" /\ (status[r] \in Over => KilledAfter(r, loop.cursor))
      BY <1>1, <3>2 DEF Told
    <3>6. v.run # None => /\ status[v.run] # "none"
                          /\ status[v.run] = "ended" => KilledAfter(v.run, loop.cursor)
      BY <3>2, <3>3 DEF Over
    <3>7. Told(v, loop.cursor) BY <3>4, <3>5, <3>6 DEF Told
    <3> QED BY <1>1, <3>2, <3>7 DEF MovedUp, v
  <2>2. CASE ~(view.run = None /\ snap.run # None /\ snap.run \in view.live)
    <3>1. v = view BY <1>2, <2>2 DEF Reconciled
    <3> QED BY <1>1, <3>1 DEF MovedUp
  <2> QED BY <2>1, <2>2
<1>3. CASE ~(snap.cursor < view.cursor)
  <2>1. v = snap \/ v = [snap EXCEPT !.status = "waiting_takeover"] BY <1>3 DEF Reconciled
  <2>2. /\ v.messages = snap.messages /\ v.live = snap.live /\ v.run = snap.run
        /\ v.cursor = snap.cursor
    BY <1>1, <2>1 DEF View
  <2> HIDE DEF v
  <2>3. snap.cursor >= view.cursor BY <1>1, <1>3
  <2>4. /\ Told(snap, loop.cursor)
        /\ \A x \in rows : x <= loop.cursor /\ log[x].type \in Moves => x <= snap.cursor
    BY <1>1, <2>3, ToldLater
  <2>5. /\ \A m \in messages : m <= loop.cursor => m \in v.messages
        /\ v.messages \subseteq messages \/ ClearedAfter(loop.cursor)
    BY <2>2, <2>4 DEF Told
  <2>6. \A r \in v.live : status[r] # "none" /\ (status[r] \in Over => KilledAfter(r, loop.cursor))
    BY <2>2, <2>4 DEF Told
  <2>7. v.run # None => /\ status[v.run] # "none"
                        /\ status[v.run] = "ended" => KilledAfter(v.run, loop.cursor)
    BY <2>2, <2>4 DEF Told
  <2>8. Told(v, loop.cursor) BY <2>5, <2>6, <2>7 DEF Told
  <2> QED BY <2>2, <2>4, <2>8 DEF v
<1> QED BY <1>2, <1>3

\* A get that returns or fails leaves answers and view true.
LEMMA GetTold ==
  ASSUME Client = "web", "early" \notin Requests, ViewInv, Table, Stream, Snapshots, Shown,
         NEW g \in gets, ReceiveGet(g) \/ GetFails(g)
  PROVE  Snapshots' /\ Shown'
<1>1. UNCHANGED server /\ gets' = gets \ {g} BY DEF ReceiveGet, GetFails
<1>2. \A s, c : Told(s, c) <=> Told(s, c)' BY <1>1, ToldSame
<1>3. Snapshots' BY <1>1, <1>2 DEF Snapshots, Answered
<1>4. /\ loop \in [step: {"closed", "loading", "subscribed", "down"}, awaits: 0 .. MaxGets,
                   cursor: 0 .. Len(log)]
      /\ g.id \in 1 .. made /\ made \in Nat
  BY DEF ViewInv, ViewTypeOK
<1>5. CASE loop.step \in {"closed", "loading"}
  <2>1. /\ made = (IF loop.step = "closed" THEN 0 ELSE 1) /\ view = NoView /\ epoch = 0
        /\ loop.step = "loading" => loop.awaits = 1
    BY <1>5 DEF Stream
  <2>2. loop.step = "loading" /\ g.id = 1 /\ made = 1 /\ loop.awaits = g.id
    BY <1>4, <1>5, <2>1
  <2>3. ~GetFails(g) BY <2>1 DEF GetFails
  <2>4. ReceiveGet(g) BY <2>3
  <2>5. Applies(g) /\ view' = g.snap /\ loop'.cursor = g.snap.cursor
    BY <2>1, <2>2, <2>4 DEF ReceiveGet, Applies, Reconciled, ViewInv, Resubscribed
  <2>6. Told(g.snap, g.snap.cursor) BY <2>4 DEF ReceiveGet, Snapshots, Answered
  <2>7. Told(view, loop.cursor)'
    BY <1>1, <2>5, <2>6 DEF server, Told, ClearedAfter, KilledAfter, Has
  <2>8. MovedUp' BY <2>5 DEF MovedUp
  <2> QED BY <1>3, <2>7, <2>8 DEF Shown
<1>6. CASE loop.step \notin {"closed", "loading"}
  <2>1. loop'.cursor = loop.cursor
    BY <1>4, <1>6 DEF ReceiveGet, GetFails, Resubscribed
  <2>2. view # NoView BY <1>4, <1>6 DEF Stream
  <2>3. CASE view' = view
    BY <1>1, <1>3, <2>1, <2>2, <2>3
       DEF server, Shown, MovedUp, Told, ClearedAfter, KilledAfter, Has
  <2>4. CASE view' # view
    <3>1. ReceiveGet(g) /\ view' = Reconciled(g.snap) BY <2>4 DEF ReceiveGet, GetFails
    <3>2. Typed(g.snap) /\ Told(g.snap, g.snap.cursor)
      BY <3>1 DEF ReceiveGet, ViewInv, Snapshots, Answered
    <3>3. /\ Told(view', loop.cursor)
          /\ \A x \in rows : x <= loop.cursor /\ log[x].type \in Moves => x <= view'.cursor
      BY <2>2, <3>1, <3>2, ReconciledTold
    <3>4. MovedUp' BY <1>1, <2>1, <3>3 DEF MovedUp, server
    <3>5. Told(view, loop.cursor)'
      BY <1>1, <2>1, <3>3 DEF server, Told, ClearedAfter, KilledAfter, Has
    <3> QED BY <1>3, <3>4, <3>5 DEF Shown
  <2> QED BY <2>3, <2>4
<1> QED BY <1>5, <1>6

\* So do the other steps of the client.
LEMMA ClientTold ==
  ASSUME Client = "web", "early" \notin Requests, ViewInv, Table, Stream, Snapshots, Shown,
         \/ Open \/ Disconnect \/ ReadEvents \/ ReceiveEvent
         \/ StopReturns \/ RefreshAfterRequest
  PROVE  Snapshots' /\ Shown'
<1>1. UNCHANGED server
  BY DEF Open, Disconnect, ReadEvents, ReceiveEvent, StopReturns, RefreshAfterRequest
<1>2. \A s, c : Told(s, c) <=> Told(s, c)' BY <1>1, ToldSame
<1>3. gets' = gets \/ Refresh
  BY DEF Open, Disconnect, ReadEvents, ReceiveEvent, StopReturns, RefreshAfterRequest
<1>4. \A h \in gets' : h \in gets \/ h.snap = NoView BY <1>3 DEF Refresh, Get
<1>5. Snapshots' BY <1>2, <1>4 DEF Snapshots, Answered
<1>6. loop \in [step: {"closed", "loading", "subscribed", "down"}, awaits: 0 .. MaxGets,
                cursor: 0 .. Len(log)]
  BY DEF ViewInv, ViewTypeOK
<1>7. CASE Open \/ Disconnect \/ ReadEvents \/ RefreshAfterRequest
  <2>1. view' = view /\ loop'.cursor = loop.cursor
    BY <1>6, <1>7 DEF Open, Disconnect, ReadEvents, RefreshAfterRequest
  <2> QED BY <1>1, <1>5, <2>1
          DEF server, Shown, MovedUp, Told, ClearedAfter, KilledAfter, Has
<1>8. CASE ReceiveEvent
  <2>1. view # NoView BY <1>8, EventStream
  <2> QED BY <1>5, <1>8, <2>1, EventTold DEF Shown
<1>9. CASE StopReturns
  <2>1. view # NoView /\ Typed(view) /\ loop' = loop BY <1>9 DEF StopReturns, ViewInv
  <2> DEFINE w == [view EXCEPT !.run = None, !.status = "none", !.live = Without(view.run)]
  <2>2. /\ w.cursor = view.cursor /\ w.messages = view.messages /\ w.run = None
        /\ w.live \subseteq view.live
    BY <2>1 DEF Typed, View, Without
  <2>3. view' = view \/ view' = w BY <1>9 DEF StopReturns
  <2> HIDE DEF w
  <2>4. /\ view'.cursor = view.cursor /\ view'.messages = view.messages
        /\ view'.run \in {None, view.run} /\ view'.live \subseteq view.live
    BY <2>2, <2>3
  <2>5. MovedUp' BY <1>1, <2>1, <2>4 DEF server, Shown, MovedUp
  <2>6. Told(view, loop.cursor)'
    BY <1>1, <2>1, <2>4 DEF server, Shown, Told, ClearedAfter, KilledAfter, Has
  <2> QED BY <1>5, <2>5, <2>6 DEF Shown
<1> QED BY <1>7, <1>8, <1>9

\* The inductive invariant behind the two theorems that follow.
ThreadInv == ViewInv /\ Table /\ Stream /\ Snapshots /\ Shown

\* It holds at the start, ...
LEMMA ThreadStart == ViewInit => ThreadInv
<1> SUFFICES ASSUME ViewInit PROVE ThreadInv OBVIOUS
<1>1. log = <<>> /\ DOMAIN log = {} /\ rows = {} /\ messages = {} /\ gets = {} /\ view = NoView
  BY DEF ViewInit
<1>2. Table BY <1>1 DEF Table, Has
<1>3. Snapshots /\ Shown BY <1>1 DEF Snapshots, Shown, Answered
<1> QED BY <1>2, <1>3, ViewStart, StreamStart DEF ThreadInv

\* ... and every step keeps it.
LEMMA ThreadStep ==
  ASSUME Client = "web", "early" \notin Requests
  PROVE  ThreadInv /\ [ViewNext]_viewVars => ThreadInv'
<1> SUFFICES ASSUME ThreadInv, [ViewNext]_viewVars PROVE ThreadInv' OBVIOUS
<1> USE DEF ThreadInv
<1>1. ViewInv' BY ViewStep
<1>2. CASE UNCHANGED viewVars
  <2>1. Table' BY <1>2 DEF viewVars, server, Table, ClearedAfter, KilledAfter, Has
  <2>2. Stream' BY <1>2 DEF viewVars, server, Stream
  <2>3. Snapshots' /\ Shown'
    BY <1>2 DEF viewVars, server, Snapshots, Shown, Answered, MovedUp, Told, ClearedAfter,
                KilledAfter, Has
  <2> QED BY <1>1, <2>1, <2>2, <2>3
<1>3. CASE ServerStep
  <2>1. Evolves BY <1>3, ServerEvolves
  <2>2. UNCHANGED <<view, loop, gets>>
    BY <1>3 DEF ServerStep, ClearThread, StopDeletes, StopCancels, RunStep, Send, ClaimRun,
      StartRun, RequeueRun, FlushProgress, PauseRunForInput, PauseRunForTakeover, Resume,
      FinalizeRun, ServerOnly
  <2> QED BY <1>1, <1>3, <2>1, <2>2, TableStep, ServerStream, ServerTold
<1>4. ASSUME UNCHANGED server PROVE Table'
  BY <1>4 DEF server, Table, ClearedAfter, KilledAfter, Has
<1>5. ASSUME NEW g \in gets, AnswerGet(g) PROVE ThreadInv'
  BY <1>1, <1>4, <1>5, GetStream, AnswerTold DEF AnswerGet
<1>6. ASSUME NEW g \in gets, ReceiveGet(g) \/ GetFails(g) PROVE ThreadInv'
  BY <1>1, <1>4, <1>6, GetStream, GetTold DEF ReceiveGet, GetFails
<1>7. CASE \/ Open \/ Disconnect \/ ReadEvents \/ ReceiveEvent
           \/ StopReturns \/ RefreshAfterRequest
  <2>1. UNCHANGED server
    BY <1>7 DEF Open, Disconnect, ReadEvents, ReceiveEvent, StopReturns, RefreshAfterRequest
  <2> QED BY <1>1, <1>4, <1>7, <2>1, ClientStream, ClientTold
<1> QED BY <1>2, <1>3, <1>5, <1>6, <1>7 DEF ViewNext, ServerStep

\* A settled client has nothing to learn.
LEMMA NothingToCome ==
  ASSUME ThreadInv, Settled
  PROVE  ~ClearedAfter(loop.cursor) /\ \A r : ~KilledAfter(r, loop.cursor)
<1>1. loop.cursor \in Nat /\ \A x \in rows : x \in Nat /\ x <= loop.cursor
  BY DEF ThreadInv, ViewInv, ViewTypeOK, Settled
<1> QED BY <1>1 DEF ClearedAfter, KilledAfter

\* MessagesConverge on the web, for any number of runs, events, refreshes, stops,
\* clears and lost connections: a settled client shows exactly the messages of the
\* thread (Shell.tsx with threadSnapshot, reconcileRefreshedThread and
\* reduceThreadSnapshot).  The hypotheses leave out a client whose requests come
\* before its thread has loaded, and the mobile client, which breaks the property.
THEOREM SettledMessages ==
  ASSUME Client = "web", "early" \notin Requests
  PROVE  ViewSpec => []MessagesConverge
<1>1. ThreadInv => MessagesConverge
  <2> SUFFICES ASSUME ThreadInv, Settled PROVE view.messages = messages
    BY DEF MessagesConverge
  <2>1. view # NoView /\ Told(view, loop.cursor) BY DEF ThreadInv, Shown, Settled
  <2>2. \A m \in messages : m <= loop.cursor BY DEF ThreadInv, Table, Settled
  <2> QED BY <2>1, <2>2, NothingToCome DEF Told
<1> QED BY <1>1, ThreadStart, ThreadStep, PTL DEF ViewSpec

\* NoGhostProgress on the web, likewise: the live messages of a settled client are
\* of runs that are active or were cancelled without an event, never of one that
\* has ended or failed.
THEOREM SettledProgress ==
  ASSUME Client = "web", "early" \notin Requests
  PROVE  ViewSpec => []NoGhostProgress
<1>1. ThreadInv => NoGhostProgress
  <2> SUFFICES ASSUME ThreadInv, Settled, NEW r \in view.live
               PROVE  status[r] \in Active \cup {"silenced"}
    BY DEF NoGhostProgress
  <2>1. view # NoView /\ Told(view, loop.cursor) BY DEF ThreadInv, Shown, Settled
  <2>2. status[r] # "none" /\ status[r] \notin Over BY <2>1, NothingToCome DEF Told
  <2>3. status[r] \in RunStatuses
    BY <2>1 DEF ThreadInv, ViewInv, ViewTypeOK, Typed, View
  <2> QED BY <2>2, <2>3 DEF Over, RunStatuses, Active
<1> QED BY <1>1, ThreadStart, ThreadStep, PTL DEF ViewSpec

-----------------------------------------------------------------------------
(* The runs: every status comes with its event.                            *)

\* The statuses in which a run waits for the user.
Waiting == {"waiting_input", "waiting_takeover"}
\* The events of a run's status.
StatusTypes == {"started", "waiting_input", "takeover_requested", "terminal"}
\* The event that comes with a status.
EntryType == [running |-> "started", waiting_input |-> "waiting_input",
              waiting_takeover |-> "takeover_requested"]
\* A run that a snapshot may show.
Visible(r) == status[r] \in Active \cup {"failed"}

\* Runs are created in their order and hold the bot's lease in turns.
Turns ==
  /\ \A q, r \in Runs : {status[q], status[r]} \subseteq {"leased", "running"} => q = r
  /\ \A q, r \in Runs : status[q] = "none" /\ q < r => status[r] = "none"

\* What every transaction does to the runs.
RunsEvolve ==
  /\ \A r \in Runs : status'[r] \in Working /\ status'[r] # status[r] =>
       /\ Len(log') \in New /\ Has(Len(log), EntryType[status[r]], r)'
       /\ status'[r] \in Waiting =>
            status[r] = "running" /\ \A y \in New : log'[y].type # "started"
  /\ \A y \in New : log'[y].type = "started" =>
       log'[y].run \in Runs /\ status'[log'[y].run] = "running"
  /\ \A y \in New, r \in Runs :
       log'[y].run = r /\ log'[y].type \in StatusTypes => status'[r] # status[r]
  /\ New = {} => \/ status' = status
                 \/ \A r \in Runs : ActiveRuns' = {r} => status'[r] \notin Waiting
  /\ \/ ActiveRuns' = {}
     \/ /\ \A y \in New : log'[y].type # "cleared"
        /\ \A q \in Runs : Visible(q) /\ ~Visible(q)' =>
             status[q] = "running" \/ \E p \in Runs : status[p] = "none" /\ Visible(p)'
        /\ New # {} => \/ log'[Len(log')].type = "terminal"
                       \/ \E q \in ActiveRuns' : status[q] \in {"none", "leased", "running"}
        /\ \A q \in ActiveRuns \ ActiveRuns' :
             log'[Len(log')].type = "terminal" \/ \E p \in ActiveRuns' : status[p] = "none"

\* A step of run r that appends no event.
LEMMA SilentRuns ==
  ASSUME ViewInv, NEW r \in Runs, UNCHANGED log, status[r] \in Active,
         NEW to \in {"leased", "queued"}, Becomes(r, to)
  PROVE  RunsEvolve
<1>1. New = {} BY DEF New, ViewInv, ViewTypeOK
<1>2. status' = [status EXCEPT ![r] = to] /\ status \in [Runs -> RunStatuses]
  BY DEF Becomes, ViewInv, ViewTypeOK
<1>3. \A q \in Runs : status'[q] = IF q = r THEN to ELSE status[q] BY <1>2
<1>4. ActiveRuns' = ActiveRuns /\ r \in ActiveRuns BY <1>3 DEF ActiveRuns, Active
<1>5. \A q \in Runs : Visible(q) => Visible(q)' BY <1>3 DEF Visible, Active
<1>6. \A q \in Runs : ActiveRuns' = {q} => status'[q] \notin Waiting
  BY <1>3, <1>4 DEF Waiting
<1>7. \A q \in Runs : status'[q] \in Working => status'[q] = status[q] BY <1>3 DEF Working
<1> QED BY <1>1, <1>4, <1>5, <1>6, <1>7 DEF RunsEvolve

\* A step of run r whose last event is that of its new status.
LEMMA LoudRuns ==
  ASSUME ViewInv, NEW r \in Runs, NEW to \in RunStatuses, NEW type \in EventTypes,
         status' = [status EXCEPT ![r] = to],
         Len(log') \in New, Has(Len(log), type, r)',
         \A y \in New : y = Len(log') \/ log'[y].type = "message",
         \/ status[r] = "leased" /\ to = "running" /\ type = "started"
         \/ status[r] = "running" /\ to = "running" /\ type = "progress"
         \/ status[r] = "running" /\ to = "waiting_input" /\ type = "waiting_input"
         \/ status[r] = "running" /\ to = "waiting_takeover" /\ type = "takeover_requested"
         \/ status[r] = "running" /\ to \in Over /\ type = "terminal"
  PROVE  RunsEvolve
<1>1. status \in [Runs -> RunStatuses] BY DEF ViewInv, ViewTypeOK
<1>2. \A q \in Runs : status'[q] = IF q = r THEN to ELSE status[q] BY <1>1
<1>3. log'[Len(log')].type = type /\ log'[Len(log')].run = r BY DEF Has
<1>4. \A y \in New : log'[y].type # "message" => log'[y].type = type /\ log'[y].run = r
  BY <1>3
<1>5. \A q \in Runs : status'[q] \in Working /\ status'[q] # status[q] =>
        q = r /\ type = EntryType[status'[q]]
  BY <1>2 DEF Working, EntryType, Over
<1>6. ASSUME NEW q \in Runs, status'[q] \in Working, status'[q] # status[q], status'[q] \in Waiting
      PROVE  status[q] = "running" /\ \A y \in New : log'[y].type # "started"
  BY <1>2, <1>4, <1>6 DEF Waiting, Working, Over
<1>7. \A y \in New : log'[y].type = "started" =>
        log'[y].run \in Runs /\ status'[log'[y].run] = "running"
  BY <1>2, <1>4
<1>8. \A y \in New, q \in Runs :
        log'[y].run = q /\ log'[y].type \in StatusTypes => status'[q] # status[q]
  BY <1>2, <1>4 DEF StatusTypes, Over
<1>9. \A y \in New : log'[y].type # "cleared" BY <1>4
<1>10. \A q \in Runs : Visible(q) /\ ~Visible(q)' => status[q] = "running"
  BY <1>2 DEF Visible, Active, Over
<1>11. log'[Len(log')].type = "terminal" \/ r \in ActiveRuns'
  BY <1>2, <1>3 DEF ActiveRuns, Active
<1>12. status[r] \in {"none", "leased", "running"} OBVIOUS
<1>13. \A q \in ActiveRuns \ ActiveRuns' : log'[Len(log')].type = "terminal"
  BY <1>2, <1>11 DEF ActiveRuns
<1>14. \A q \in Runs : status'[q] \in Working /\ status'[q] # status[q] =>
         /\ Len(log') \in New /\ Has(Len(log), EntryType[status[q]], q)'
         /\ status'[q] \in Waiting =>
              status[q] = "running" /\ \A y \in New : log'[y].type # "started"
  BY <1>3, <1>5, <1>6 DEF Has
<1>15. New # {} => \/ log'[Len(log')].type = "terminal"
                   \/ \E q \in ActiveRuns' : status[q] \in {"none", "leased", "running"}
  BY <1>11, <1>12
<1>16. New # {} OBVIOUS
<1> HIDE DEF New, Visible, Working
<1> QED BY <1>7, <1>8, <1>9, <1>10, <1>13, <1>14, <1>15, <1>16 DEF RunsEvolve

\* A message creates the newest run.
LEMMA SendRuns ==
  ASSUME ViewInv, NEW r \in Runs, Send(r)
  PROVE  RunsEvolve
<1>1. status \in [Runs -> RunStatuses] BY DEF ViewInv, ViewTypeOK
<1>2. \A q \in Runs : status'[q] = IF q = r THEN "queued"
                                   ELSE IF status[q] = "queued" THEN "silenced" ELSE status[q]
  BY DEF Send
<1>3. status[r] = "none" BY DEF Send
<1>4. /\ Len(log) \in Nat /\ Len(log') = Len(log) + 1 /\ DOMAIN log' = 1 .. Len(log) + 1
      /\ log'[Len(log) + 1].type = "message"
  BY AppendsOne, RunsAreNumbers DEF Send, EventTypes, None
<1>5. \A y \in New : log'[y].type = "message" BY <1>4 DEF New
<1>6. New # {} BY <1>4 DEF New
<1>7. \A q \in Runs : status'[q] \in Working => status'[q] = status[q] BY <1>2 DEF Working
<1>8. r \in ActiveRuns' /\ Visible(r)' BY <1>2 DEF ActiveRuns, Visible, Active
<1> QED BY <1>3, <1>5, <1>6, <1>7, <1>8 DEF RunsEvolve, StatusTypes

\* A stop leaves no run active.
LEMMA StopRuns ==
  ASSUME ViewInv, StopDeletes \/ \E here \in BOOLEAN : StopCancels(here)
  PROVE  RunsEvolve
<1>1. New = {}
  <2>1. log' = log BY DEF StopDeletes, StopCancels
  <2> QED BY <2>1 DEF New, ViewInv, ViewTypeOK
<1>2. CASE StopDeletes
  <2>1. status' = status /\ log' = log BY <1>2 DEF StopDeletes
  <2>2. ActiveRuns' = ActiveRuns /\ \A q \in Runs : Visible(q) => Visible(q)'
    BY <2>1 DEF ActiveRuns, Visible
  <2> QED BY <1>1, <2>1, <2>2 DEF RunsEvolve
<1>3. CASE \E here \in BOOLEAN : StopCancels(here)
  <2>1. CancelsAll("silenced") BY <1>3 DEF StopCancels
  <2>2. \A q \in Runs : status'[q] \notin Active BY <2>1, CancelsAllEvolves
  <2>3. ActiveRuns' = {} BY <2>2 DEF ActiveRuns
  <2> QED BY <1>1, <2>2, <2>3 DEF RunsEvolve, Working, Active, Waiting
<1> QED BY <1>2, <1>3

\* Neither does a clear.
LEMMA ClearRuns == ViewInv /\ ClearThread => RunsEvolve
<1> SUFFICES ASSUME ViewInv, ClearThread PROVE RunsEvolve OBVIOUS
<1>1. \A q \in Runs : status'[q] \notin Active BY CancelsAllEvolves DEF ClearThread
<1>2. ActiveRuns' = {} BY <1>1 DEF ActiveRuns
<1>3. /\ Len(log) \in Nat /\ Len(log') = Len(log) + 1 /\ DOMAIN log' = 1 .. Len(log) + 1
      /\ log'[Len(log) + 1].type = "cleared"
  BY AppendsOne DEF ClearThread, EventTypes
<1>4. \A y \in New : log'[y].type = "cleared" BY <1>3 DEF New
<1>5. New # {} BY <1>3 DEF New
<1> QED BY <1>1, <1>2, <1>4, <1>5 DEF RunsEvolve, Working, Active, StatusTypes

\* Every step of a run is one of these.
LEMMA RunStepRuns ==
  ASSUME ViewInv, NEW r \in Runs, RunStep(r)
  PROVE  RunsEvolve
<1>1. status \in [Runs -> RunStatuses] BY DEF ViewInv, ViewTypeOK
<1>2. CASE Send(r) BY <1>2, SendRuns
<1>3. CASE ClaimRun(r) BY <1>3, SilentRuns DEF ClaimRun, Active
<1>4. CASE RequeueRun(r) BY <1>4, SilentRuns DEF RequeueRun, Active
<1>5. CASE Resume(r) BY <1>5, SilentRuns DEF Resume, Active
<1>6. ASSUME NEW type \in EventTypes \ {"cleared"}, NEW gone,
             \/ Write(<<Entry(type, r)>>, gone)
             \/ Write(<<Entry("message", r), Entry(type, r)>>, gone)
      PROVE  /\ Len(log') \in New /\ Has(Len(log), type, r)'
             /\ \A y \in New : y = Len(log') \/ log'[y].type = "message"
  <2>1. CASE Write(<<Entry(type, r)>>, gone)
    <3>1. /\ Len(log) \in Nat /\ Len(log') = Len(log) + 1 /\ DOMAIN log' = 1 .. Len(log) + 1
          /\ log'[Len(log) + 1].type = type /\ log'[Len(log) + 1].run = r
      BY <2>1, AppendsOne, RunsAreNumbers DEF None
    <3> QED BY <3>1 DEF New, Has
  <2>2. CASE Write(<<Entry("message", r), Entry(type, r)>>, gone)
    <3>1. /\ Len(log) \in Nat /\ Len(log') = Len(log) + 2 /\ DOMAIN log' = 1 .. Len(log) + 2
          /\ log'[Len(log) + 1].type = "message"
          /\ log'[Len(log) + 2].type = type /\ log'[Len(log) + 2].run = r
      BY <2>2, AppendsTwo
    <3>2. \A y \in New : y = Len(log) + 1 \/ y = Len(log) + 2 BY <3>1 DEF New
    <3> QED BY <3>1, <3>2 DEF New, Has
  <2> QED BY <1>6, <2>1, <2>2
<1>7. CASE StartRun(r)
  <2>1. Len(log') \in New /\ Has(Len(log), "started", r)'
        /\ \A y \in New : y = Len(log') \/ log'[y].type = "message"
    BY <1>6, <1>7 DEF StartRun, EventTypes
  <2> QED BY <1>7, <2>1, LoudRuns DEF StartRun, Becomes, RunStatuses, EventTypes
<1>8. CASE FlushProgress(r)
  <2>1. Len(log') \in New /\ Has(Len(log), "progress", r)'
        /\ \A y \in New : y = Len(log') \/ log'[y].type = "message"
    BY <1>6, <1>8 DEF FlushProgress, EventTypes
  <2>2. status' = [status EXCEPT ![r] = "running"] BY <1>1, <1>8 DEF FlushProgress
  <2> QED BY <1>8, <2>1, <2>2, LoudRuns DEF FlushProgress, RunStatuses, EventTypes
<1>9. CASE PauseRunForInput(r)
  <2>1. Len(log') \in New /\ Has(Len(log), "waiting_input", r)'
        /\ \A y \in New : y = Len(log') \/ log'[y].type = "message"
    BY <1>6, <1>9 DEF PauseRunForInput, EventTypes
  <2> QED BY <1>9, <2>1, LoudRuns DEF PauseRunForInput, Becomes, RunStatuses, EventTypes
<1>10. CASE PauseRunForTakeover(r)
  <2>1. Len(log') \in New /\ Has(Len(log), "takeover_requested", r)'
        /\ \A y \in New : y = Len(log') \/ log'[y].type = "message"
    BY <1>6, <1>10 DEF PauseRunForTakeover, EventTypes
  <2> QED BY <1>10, <2>1, LoudRuns DEF PauseRunForTakeover, Becomes, RunStatuses, EventTypes
<1>11. CASE FinalizeRun(r)
  <2>1. Len(log') \in New /\ Has(Len(log), "terminal", r)'
        /\ \A y \in New : y = Len(log') \/ log'[y].type = "message"
    BY <1>6, <1>11 DEF FinalizeRun, EventTypes
  <2>2. PICK to \in {"ended", "failed"} : status' = [status EXCEPT ![r] = to]
    BY <1>11 DEF FinalizeRun, Becomes
  <2> QED BY <1>11, <2>1, <2>2, LoudRuns DEF FinalizeRun, RunStatuses, EventTypes, Over
<1> QED BY <1>2, <1>3, <1>4, <1>5, <1>7, <1>8, <1>9, <1>10, <1>11 DEF RunStep

\* Every step of the server is.
LEMMA ServerRuns == ViewInv /\ ServerStep => RunsEvolve
BY StopRuns, ClearRuns, RunStepRuns DEF ServerStep

\* The order of runs and their turns.
LEMMA TurnsStep ==
  ASSUME ViewInv, Turns, ServerStep
  PROVE  Turns'
<1>1. status \in [Runs -> RunStatuses] BY DEF ViewInv, ViewTypeOK
<1>2. ASSUME NEW r \in Runs, RunStep(r) PROVE Turns'
  <2>1. CASE Send(r)
    <3>1. \A q \in Runs : status'[q] = IF q = r THEN "queued"
                                       ELSE IF status[q] = "queued" THEN "silenced" ELSE status[q]
      BY <1>1, <2>1 DEF Send
    <3>2. \A q \in Runs : q < r => status[q] # "none" BY <2>1 DEF Send
    <3>3. \A q \in Runs : q \in Int BY RunsAreNumbers
    <3> QED BY <2>1, <3>1, <3>2, <3>3 DEF Turns, Send
  <2>2. ASSUME NEW to \in RunStatuses \ {"none"}, Becomes(r, to), status[r] # "none",
               to \in {"leased", "running"} =>
                 \/ status[r] \in {"leased", "running"}
                 \/ \A q \in Runs : status[q] \notin {"leased", "running"}
        PROVE  Turns'
    <3>1. \A q \in Runs : status'[q] = IF q = r THEN to ELSE status[q]
      BY <1>1, <2>2 DEF Becomes
    <3> QED BY <2>2, <3>1 DEF Turns
  <2>3. CASE FlushProgress(r) BY <2>3 DEF FlushProgress, Turns
  <2>4. CASE FinalizeRun(r) BY <2>2, <2>4 DEF FinalizeRun, RunStatuses
  <2> QED BY <1>2, <2>1, <2>2, <2>3, <2>4
          DEF RunStep, ClaimRun, StartRun, RequeueRun, PauseRunForInput, PauseRunForTakeover,
              Resume, RunStatuses
<1>3. ASSUME NEW to \in {"ended", "silenced"}, CancelsAll(to) PROVE Turns'
  <2>1. \A q \in Runs : status'[q] = IF q \in ActiveRuns THEN to ELSE status[q]
    BY <1>1, <1>3 DEF CancelsAll
  <2> QED BY <2>1 DEF Turns, ActiveRuns, Active
<1>4. CASE ClearThread BY <1>3, <1>4 DEF ClearThread
<1>5. CASE StopDeletes BY <1>5 DEF StopDeletes, Turns
<1>6. CASE \E here \in BOOLEAN : StopCancels(here) BY <1>3, <1>6 DEF StopCancels
<1> QED BY <1>2, <1>4, <1>5, <1>6 DEF ServerStep

-----------------------------------------------------------------------------
(* When a run has entered its status.                                      *)

\* Run r has its status since event x, and was last started with event s.
Entered(r, s, x) ==
  /\ s \in rows /\ x \in rows /\ s <= x
  /\ Has(s, "started", r) /\ Has(x, EntryType[status[r]], r)
  /\ \A y \in DOMAIN log : log[y].run = r /\ log[y].type \in StatusTypes => y <= x
  /\ \A y \in DOMAIN log : log[y].type = "started" =>
       y <= s \/ (status[r] # "running" /\ y > x)

\* Event s is the last start of the thread.
LastStart(s) == \A y \in DOMAIN log : log[y].type = "started" => y <= s

\* Every run that works has entered its status with an event of the table.
Entries == \A r \in Runs : status[r] \in Working => \E s, x \in rows : Entered(r, s, x)

\* No newer run is shown.
Newest(r) == \A q \in Runs : q > r => ~Visible(q)

\* While a run waits another may start, and then ends or stays.
Handover ==
  \A r \in Runs, s, x \in rows :
    status[r] \in Working /\ Entered(r, s, x) =>
      \/ LastStart(s) \/ log[Len(log)].type = "terminal"
      \/ \E q \in ActiveRuns : q # r

\* An entry that is not new is as old as the status.
LEMMA EnteredBefore ==
  ASSUME ViewInv, Evolves, RunsEvolve, NEW r \in Runs, status'[r] \in Working,
         NEW s, NEW x \in DOMAIN log, Entered(r, s, x)'
  PROVE  status'[r] = status[r] /\ Entered(r, s, x)
<1>1. /\ Len(log) \in Nat /\ DOMAIN log = 1 .. Len(log) /\ Len(log') \in Nat
      /\ DOMAIN log' = 1 .. Len(log') /\ Len(log) <= Len(log')
      /\ \A y \in DOMAIN log : log'[y] = log[y]
      /\ rows' \subseteq rows \cup New /\ x \in Nat /\ x <= Len(log)
  BY DEF Evolves
<1>2. /\ s \in rows' /\ x \in rows' /\ s <= x
      /\ Has(s, "started", r)' /\ Has(x, EntryType[status[r]], r)'
      /\ \A y \in DOMAIN log' : log'[y].run = r /\ log'[y].type \in StatusTypes => y <= x
      /\ \A y \in DOMAIN log' : log'[y].type = "started" =>
           y <= s \/ (status'[r] # "running" /\ y > x)
  BY DEF Entered
<1>3. s \in DOMAIN log' /\ s \in Nat /\ s <= Len(log) /\ s \in DOMAIN log
  BY <1>1, <1>2 DEF Evolves, New
<1>4. s \in rows /\ x \in rows BY <1>1, <1>2, <1>3 DEF New
<1>5. status'[r] = status[r]
  <2> SUFFICES ASSUME status'[r] # status[r] PROVE FALSE OBVIOUS
  <2>1. Len(log') \in New /\ Has(Len(log), EntryType[status[r]], r)' BY DEF RunsEvolve
  <2>2. EntryType[status'[r]] \in StatusTypes BY DEF EntryType, StatusTypes, Working
  <2>3. Len(log') <= x BY <1>2, <2>1, <2>2 DEF Has, New
  <2> QED BY <1>1, <2>1, <2>3 DEF New
<1>6. \A y \in DOMAIN log : y \in DOMAIN log' /\ log'[y] = log[y] BY <1>1
<1>7. Has(s, "started", r) /\ Has(x, EntryType[status[r]], r)
  BY <1>2, <1>3, <1>5, <1>6 DEF Has
<1> QED BY <1>2, <1>4, <1>5, <1>6, <1>7 DEF Entered

\* A run that has just entered its status, or runs, was the last to start.
LEMMA EnteredNow ==
  ASSUME ViewInv, Evolves, RunsEvolve, NEW r \in Runs, status'[r] \in Working,
         status'[r] # status[r] \/ status'[r] = "running",
         NEW s, NEW x, Entered(r, s, x)'
  PROVE  LastStart(s)'
<1>1. /\ Len(log') \in Nat /\ DOMAIN log' = 1 .. Len(log') /\ x \in rows' /\ x \in DOMAIN log'
      /\ \A y \in DOMAIN log' : log'[y].run = r /\ log'[y].type \in StatusTypes => y <= x
      /\ \A y \in DOMAIN log' : log'[y].type = "started" =>
           y <= s \/ (status'[r] # "running" /\ y > x)
  BY DEF Entered, Evolves, New
<1>2. CASE status'[r] = "running" BY <1>1, <1>2 DEF LastStart
<1>3. CASE status'[r] # status[r]
  <2>1. Len(log') \in New /\ Has(Len(log), EntryType[status[r]], r)' BY <1>3 DEF RunsEvolve
  <2>2. EntryType[status'[r]] \in StatusTypes BY DEF EntryType, StatusTypes, Working
  <2>3. Len(log') <= x BY <1>1, <2>1, <2>2 DEF Has, New
  <2>4. \A y \in DOMAIN log' : ~(y > x) BY <1>1, <2>3
  <2> QED BY <1>1, <2>4 DEF LastStart
<1> QED BY <1>2, <1>3

\* A status comes with its event, which only a clear takes away.
LEMMA EntriesStep ==
  ASSUME ViewInv, Turns', Evolves, RunsEvolve, Entries
  PROVE  Entries'
<1> SUFFICES ASSUME NEW r \in Runs, status'[r] \in Working
             PROVE  \E s, x \in rows' : Entered(r, s, x)'
  BY DEF Entries
<1>1. /\ Len(log) \in Nat /\ DOMAIN log = 1 .. Len(log) /\ Len(log') \in Nat
      /\ DOMAIN log' = 1 .. Len(log') /\ Len(log) <= Len(log')
      /\ \A y \in DOMAIN log : log'[y] = log[y]
      /\ rows \subseteq DOMAIN log /\ New \subseteq rows'
      /\ \A y \in DOMAIN log' : y \in DOMAIN log \/ y \in New
  BY DEF Evolves, New
<1>2. r \in ActiveRuns' BY DEF ActiveRuns, Active, Working
<1>3. \A y \in rows : log[y].type # "progress" => y \in rows'
  <2>1. ~Clears BY <1>2 DEF RunsEvolve, Clears
  <2> QED BY <2>1 DEF Evolves
<1>4. CASE status'[r] = status[r]
  <2>1. PICK s, x \in rows : Entered(r, s, x) BY <1>4 DEF Entries
  <2>2. EntryType[status[r]] \in StatusTypes BY <1>4 DEF EntryType, StatusTypes, Working
  <2>3. s \in rows' /\ x \in rows' BY <1>3, <2>1, <2>2 DEF Entered, Has, StatusTypes
  <2>4. \A y \in New : ~(log'[y].run = r /\ log'[y].type \in StatusTypes)
    BY <1>4 DEF RunsEvolve
  <2>5. ASSUME NEW y \in New, log'[y].type = "started" PROVE status'[r] # "running" /\ y > x
    <3>1. log'[y].run \in Runs /\ status'[log'[y].run] = "running" /\ log'[y].run # r
      BY <2>4, <2>5 DEF RunsEvolve, StatusTypes
    <3>2. status'[r] # "running" BY <3>1 DEF Turns
    <3> QED BY <1>1, <2>1, <3>2 DEF New
  <2>6. Has(s, "started", r)' /\ Has(x, EntryType[status[r]], r)' /\ s <= x
    BY <1>1, <1>4, <2>1 DEF Entered, Has
  <2>7. \A y \in DOMAIN log' : log'[y].run = r /\ log'[y].type \in StatusTypes => y <= x
    BY <1>1, <2>1, <2>4 DEF Entered
  <2>8. \A y \in DOMAIN log' : log'[y].type = "started" =>
          y <= s \/ (status'[r] # "running" /\ y > x)
    BY <1>1, <1>4, <2>1, <2>5 DEF Entered
  <2> QED BY <2>3, <2>6, <2>7, <2>8 DEF Entered
<1>5. CASE status'[r] # status[r]
  <2> DEFINE n == Len(log')
  <2>1. n \in New /\ Has(Len(log), EntryType[status[r]], r)' BY <1>5 DEF RunsEvolve
  <2>2. n \in rows' /\ \A y \in DOMAIN log' : y <= n BY <1>1, <2>1
  <2>3. CASE status'[r] = "running"
    <3>1. Has(Len(log), "started", r)' BY <2>1, <2>3 DEF EntryType
    <3>2. Entered(r, Len(log), Len(log))'
      BY <1>1, <2>1, <2>2, <3>1 DEF Entered
    <3> QED BY <2>2, <3>2 DEF Entered
  <2>4. CASE status'[r] # "running"
    <3>1. status[r] = "running" /\ \A y \in New : log'[y].type # "started"
      BY <1>5, <2>4 DEF RunsEvolve, Working, Waiting
    <3>2. PICK s, x \in rows : Entered(r, s, x) BY <3>1 DEF Entries, Working
    <3>3. s \in rows' /\ s \in DOMAIN log /\ Has(s, "started", r)' /\ s <= n
      BY <1>1, <1>3, <3>2 DEF Entered, Has
    <3>4. \A y \in DOMAIN log' : log'[y].type = "started" => y <= s
      BY <1>1, <3>1, <3>2 DEF Entered
    <3>5. Entered(r, s, Len(log))' BY <2>1, <2>2, <3>3, <3>4 DEF Entered
    <3> QED BY <2>2, <3>3, <3>5 DEF Entered
  <2> QED BY <2>3, <2>4
<1> QED BY <1>4, <1>5

\* A run that starts while another waits leaves an end behind or goes on.
LEMMA HandoverStep ==
  ASSUME ViewInv, Evolves, RunsEvolve, Entries, Handover
  PROVE  Handover'
<1> SUFFICES ASSUME NEW r \in Runs, NEW s \in rows', NEW x \in rows',
                    status'[r] \in Working, Entered(r, s, x)'
             PROVE  \/ LastStart(s)' \/ log'[Len(log')].type = "terminal"
                    \/ \E q \in ActiveRuns' : q # r
  BY DEF Handover
<1>1. /\ Len(log) \in Nat /\ DOMAIN log = 1 .. Len(log) /\ Len(log') \in Nat
      /\ DOMAIN log' = 1 .. Len(log') /\ Len(log) <= Len(log')
      /\ \A y \in DOMAIN log : log'[y] = log[y]
      /\ rows \subseteq DOMAIN log /\ New \subseteq DOMAIN log'
      /\ \A y \in DOMAIN log' : y \in DOMAIN log \/ y \in New
      /\ rows' \subseteq rows \cup New
  BY DEF Evolves, New
<1>2. r \in ActiveRuns' BY DEF ActiveRuns, Active, Working
<1>3. CASE status'[r] # status[r] \/ status'[r] = "running" BY <1>3, EnteredNow
<1>4. CASE status'[r] = status[r] /\ status[r] # "running"
  <2>1. x \in DOMAIN log
    <3>1. EntryType[status'[r]] \in StatusTypes BY DEF EntryType, StatusTypes, Working
    <3>2. log'[x].run = r /\ log'[x].type \in StatusTypes BY <3>1 DEF Entered, Has
    <3>3. x \notin New BY <1>4, <3>2 DEF RunsEvolve
    <3> QED BY <1>1, <3>3
  <2>2. Entered(r, s, x) BY <2>1, EnteredBefore
  <2>3. s \in rows /\ x \in rows BY <2>2 DEF Entered
  <2>4. \/ LastStart(s) \/ log[Len(log)].type = "terminal"
        \/ \E q \in ActiveRuns : q # r
    BY <1>4, <2>2, <2>3 DEF Handover
  <2>5. CASE LastStart(s)
    <3>1. CASE \A y \in New : log'[y].type # "started"
      <4>1. \A y \in DOMAIN log' : log'[y].type = "started" => y <= s
        BY <1>1, <2>5, <3>1 DEF LastStart
      <4> QED BY <4>1 DEF LastStart
    <3>2. CASE \E y \in New : log'[y].type = "started"
      <4>1. PICK y \in New : log'[y].type = "started" BY <3>2
      <4>2. log'[y].run \in Runs /\ status'[log'[y].run] = "running" BY <4>1 DEF RunsEvolve
      <4>3. log'[y].run \in ActiveRuns' BY <4>2 DEF ActiveRuns, Active
      <4> QED BY <1>4, <4>2, <4>3
    <3> QED BY <3>1, <3>2
  <2>6. CASE \E q \in ActiveRuns : q # r
    <3>1. PICK q \in ActiveRuns : q # r BY <2>6
    <3>2. CASE q \in ActiveRuns' BY <3>1, <3>2
    <3>3. CASE q \notin ActiveRuns'
      <4>1. \/ log'[Len(log')].type = "terminal"
            \/ \E p \in ActiveRuns' : status[p] = "none"
        BY <1>2, <3>3 DEF RunsEvolve
      <4> QED BY <1>4, <4>1 DEF Working
    <3> QED BY <3>2, <3>3
  <2>7. CASE log[Len(log)].type = "terminal"
    <3>1. CASE New = {}
      <4>1. Len(log') = Len(log)
        <5>1. Len(log') > Len(log) => Len(log') \in New BY <1>1 DEF New
        <5>2. ~(Len(log') > Len(log)) BY <3>1, <5>1
        <5>3. Len(log) \in Nat /\ Len(log') \in Nat /\ Len(log) <= Len(log') BY <1>1
        <5> QED BY <5>2, <5>3
      <4>2. x \in DOMAIN log /\ Len(log) \in DOMAIN log BY <1>1, <2>1
      <4> QED BY <1>1, <2>7, <4>1, <4>2
    <3>2. CASE New # {}
      <4>1. \/ log'[Len(log')].type = "terminal"
            \/ \E q \in ActiveRuns' : status[q] \in {"none", "leased", "running"}
        BY <1>2, <3>2 DEF RunsEvolve
      <4> QED BY <1>4, <4>1 DEF Working
    <3> QED BY <3>1, <3>2
  <2> QED BY <2>4, <2>5, <2>6, <2>7
<1> QED BY <1>3, <1>4

\* A run that was the last to start does not become the newest one: a newer run
\* has started before it, or is replaced by one newer still.
LEMMA NewestBefore ==
  ASSUME ViewInv, Turns, Evolves, RunsEvolve, Entries, NEW r \in Runs,
         status[r] \in Working, status'[r] \in Working, Newest(r)',
         NEW s \in rows, NEW x \in rows, Entered(r, s, x), LastStart(s)
  PROVE  Newest(r)
<1> SUFFICES ASSUME NEW q \in Runs, q > r, Visible(q) PROVE FALSE
  BY DEF Newest
<1>1. r \in Nat /\ q \in Nat /\ \A p \in Runs : p \in Nat BY RunsAreNumbers
<1>2. ~Visible(q)' BY DEF Newest
<1>3. r \in ActiveRuns' BY DEF ActiveRuns, Active, Working
<1>4. CASE status[q] = "running"
  <2>1. PICK t, y \in rows : Entered(q, t, y) BY <1>4 DEF Entries, Working
  <2>2. \A z \in DOMAIN log : log[z].type = "started" => z <= t BY <1>4, <2>1 DEF Entered
  <2>3. /\ s \in DOMAIN log /\ t \in DOMAIN log /\ s \in Nat /\ t \in Nat
        /\ log[s].type = "started" /\ log[t].type = "started"
    BY <2>1 DEF Entered, Has, Evolves
  <2>4. s = t BY <2>2, <2>3 DEF LastStart
  <2>5. log[s].run = r /\ log[t].run = q BY <2>1 DEF Entered, Has
  <2> QED BY <1>1, <2>4, <2>5
<1>5. ASSUME NEW p \in Runs, status[p] = "none", Visible(p)' PROVE FALSE
  <2>1. status[r] # "none" BY DEF Working
  <2>2. p # r /\ ~(p < r) BY <1>5, <2>1 DEF Turns
  <2>3. p > r BY <1>1, <2>2
  <2> QED BY <1>5, <2>3 DEF Newest
<1> QED BY <1>2, <1>3, <1>4, <1>5 DEF RunsEvolve

\* What a snapshot v owes to the status events up to c: it shows its run with the
\* status it has entered by then, and it shows the newest run once that has
\* started, unless another has started since.
ToldRun(v, c) ==
  \A r \in Runs, s, x \in rows : status[r] \in Working /\ Entered(r, s, x) =>
    /\ v.run = r /\ v.status # status[r] => x > c
    /\ LastStart(s) /\ Newest(r) /\ s <= c => v.run = r

\* A transaction leaves that true: a new status comes with an event past c.
LEMMA ToldRunStays ==
  ASSUME ViewInv, Turns, Evolves, RunsEvolve, Entries,
         NEW v, NEW c \in Nat, c <= Len(log), ToldRun(v, c)
  PROVE  ToldRun(v, c)'
<1> SUFFICES ASSUME NEW r \in Runs, NEW s \in rows', NEW x \in rows',
                    status'[r] \in Working, Entered(r, s, x)'
             PROVE  /\ v.run = r /\ v.status # status'[r] => x > c
                    /\ LastStart(s)' /\ Newest(r)' /\ s <= c => v.run = r
  BY DEF ToldRun
<1>1. /\ Len(log) \in Nat /\ DOMAIN log = 1 .. Len(log) /\ Len(log') \in Nat
      /\ DOMAIN log' = 1 .. Len(log')
      /\ \A y \in DOMAIN log : log'[y] = log[y] /\ y \in DOMAIN log'
      /\ rows \subseteq DOMAIN log /\ rows' \subseteq rows \cup New /\ s <= x
      /\ x \in Nat /\ s \in Nat /\ x \in DOMAIN log'
  BY DEF Evolves, New, Entered
<1>2. CASE x \in DOMAIN log
  <2>1. status'[r] = status[r] /\ Entered(r, s, x) BY <1>2, EnteredBefore
  <2>2. s \in rows /\ x \in rows BY <2>1 DEF Entered
  <2>3. LastStart(s)' => LastStart(s) BY <1>1 DEF LastStart
  <2>4. LastStart(s) /\ Newest(r)' => Newest(r)
    BY <2>1, <2>2, NewestBefore
  <2> QED BY <2>1, <2>2, <2>3, <2>4 DEF ToldRun
<1>3. CASE x \notin DOMAIN log
  <2>1. x > c BY <1>1, <1>3
  <2>2. SUFFICES ASSUME LastStart(s)', Newest(r)', s <= c PROVE v.run = r BY <2>1
  <2>3. s \in DOMAIN log /\ s \in rows /\ s # x BY <1>1, <2>1, <2>2 DEF New
  <2>4. status'[r] # status[r]
    <3>1. EntryType[status'[r]] \in StatusTypes BY DEF EntryType, StatusTypes, Working
    <3>2. x \in New BY <1>1, <1>3
    <3> QED BY <3>1, <3>2 DEF Entered, Has, RunsEvolve
  <2>5. status'[r] # "running"
    <3> SUFFICES ASSUME status'[r] = "running" PROVE FALSE OBVIOUS
    <3>1. Has(x, "started", r)' BY DEF Entered, EntryType
    <3>2. x <= s BY <1>1, <3>1, <2>2 DEF LastStart, Has
    <3> QED BY <1>1, <2>3, <3>2
  <2>6. status[r] = "running" BY <2>4, <2>5 DEF RunsEvolve, Working, Waiting
  <2>7. PICK t, y \in rows : Entered(r, t, y) BY <2>6 DEF Entries, Working
  <2>8. /\ t \in DOMAIN log /\ log[t].type = "started" /\ t <= y
        /\ \A z \in DOMAIN log : log[z].type = "started" => z <= t
        /\ log[y].type = "started"
    BY <1>1, <2>6, <2>7 DEF Entered, Has, EntryType
  <2>9. log[s].type = "started" BY <1>1, <2>3 DEF Entered, Has
  <2>10. t = s
    <3>1. t <= s BY <1>1, <2>2, <2>8 DEF LastStart
    <3>2. s <= t BY <2>3, <2>8, <2>9
    <3> QED BY <1>1, <2>8, <3>1, <3>2
  <2>11. LastStart(s) BY <2>8, <2>10 DEF LastStart
  <2>12. Newest(r) BY <2>2, <2>6, <2>7, <2>10, <2>11, NewestBefore DEF Working
  <2> QED BY <2>2, <2>6, <2>7, <2>10, <2>11, <2>12 DEF ToldRun, Working
<1> QED BY <1>2, <1>3

-----------------------------------------------------------------------------
(* What is shown of runs: the refreshes that keep it true.                 *)

\* What an answer says of its run is a status of a run it may show.
Reported(s) ==
  s.run # None => /\ s.status \in Active \cup {"failed"}
                  /\ s.status = "failed" => status[s.run] = "failed"
\* Every answer on its way is as true of its run as its cursor says, ...
SnapshotRuns ==
  \A g \in Answered : ToldRun(g.snap, g.snap.cursor) /\ Reported(g.snap)
\* ... and the view as the loop's cursor says, but for a run hidden by a stop.
ShownRun == view # NoView /\ "stop" \notin hid => ToldRun(view, loop.cursor)

\* The answer to the latest request, the only one the web client uses.
Latest == {g \in Answered : g.id = made}
\* It is as new as every event that starts a refresh: such an event makes a later
\* request the latest.
Fresh == \A g \in Latest, x \in rows :
  x <= loop.cursor /\ log[x].type \in Refreshing => x <= g.snap.cursor

\* Where the answer shows a run that runs, or was taken over after it was read,
\* the view shows that run too, or one that has started since.
Kept == view # NoView /\ "stop" \notin hid =>
  \A g \in Latest, r \in Runs, s, x \in rows :
    /\ g.snap.run = r /\ status[r] \in {"running", "waiting_takeover"} /\ Entered(r, s, x)
    /\ s <= loop.cursor /\ (status[r] = "waiting_takeover" => x > g.snap.cursor)
    => \/ view.run = r
       \/ /\ view.run # None
          /\ \E y \in rows : log[y].type = "started" /\ g.snap.cursor < y /\ y <= loop.cursor

\* Run r waits, alone, after the end of another that ran meanwhile, the case in
\* which the view has lost r and only a refresh brings it back.
Outlasts(r) ==
  /\ ActiveRuns = {r} /\ status[r] \in Waiting /\ Newest(r)
  /\ Len(log) \in rows /\ log[Len(log)].type = "terminal"
\* An answer as new as that end shows r.
Answering == \A r \in Runs, g \in Answered :
  Outlasts(r) /\ g.snap.cursor = Len(log) => g.snap.run = r
\* Once the client has applied that end it shows r or awaits such an answer,
\* unless the latest refresh has failed.
Awaiting == view # NoView /\ "refresh" \notin hid =>
  \A r \in Runs : Outlasts(r) /\ Len(log) <= loop.cursor =>
    view.run = r \/ \E g \in gets : g.id = made /\ g.epoch = epoch

\* No transaction without an event makes this the case.
LEMMA OutlastsBefore ==
  ASSUME ViewInv, Evolves, RunsEvolve, NEW r \in Runs, Outlasts(r)', Len(log') <= Len(log)
  PROVE  Outlasts(r) /\ Len(log') = Len(log)
<1>1. /\ ActiveRuns' = {r} /\ status'[r] \in Waiting /\ Newest(r)'
      /\ Len(log') \in rows' /\ log'[Len(log')].type = "terminal"
  BY DEF Outlasts
<1>2. Len(log) \in Nat /\ Len(log') \in Nat /\ Len(log) <= Len(log')
  BY DEF Evolves
<1>3. Len(log') = Len(log) BY <1>2
<1>4. New = {} BY <1>2, <1>3 DEF New, Evolves
<1>5. status' = status BY <1>1, <1>4 DEF RunsEvolve
<1>6. ActiveRuns' = ActiveRuns BY <1>5 DEF ActiveRuns
<1>7. Newest(r) BY <1>1, <1>5 DEF Newest, Visible
<1>8. Len(log) \in rows /\ log[Len(log)] = log'[Len(log')] BY <1>1, <1>3, <1>4 DEF Evolves
<1> QED BY <1>1, <1>3, <1>5, <1>6, <1>7, <1>8 DEF Outlasts

\* The server's steps keep these parts of the invariant.
LEMMA ServerShowsRuns ==
  ASSUME ViewInv, Turns, Evolves, RunsEvolve, Entries,
         SnapshotRuns, ShownRun, Fresh, Kept, Answering, Awaiting,
         UNCHANGED <<view, loop, gets, epoch, made, hid>>
  PROVE  SnapshotRuns' /\ ShownRun' /\ Fresh' /\ Kept' /\ Answering' /\ Awaiting'
<1>1. /\ Len(log) \in Nat /\ loop.cursor \in Nat /\ loop.cursor <= Len(log)
      /\ DOMAIN log = 1 .. Len(log) /\ rows \subseteq DOMAIN log /\ rows' \subseteq rows \cup New
      /\ \A y \in DOMAIN log : log'[y] = log[y]
  BY DEF ViewInv, ViewTypeOK, Evolves
<1>2. Answered' = Answered /\ Latest' = Latest BY DEF Answered, Latest
<1>3. ASSUME NEW g \in Answered
      PROVE  /\ g.snap \in View /\ g.snap.cursor \in Nat /\ g.snap.cursor <= Len(log)
             /\ g.snap.run \in Runs \cup {None}
  BY DEF Answered, ViewInv, Typed, View
<1>4. SnapshotRuns'
  <2> SUFFICES ASSUME NEW g \in Answered PROVE ToldRun(g.snap, g.snap.cursor)' /\ Reported(g.snap)'
    BY <1>2 DEF SnapshotRuns
  <2>1. ToldRun(g.snap, g.snap.cursor)' BY <1>3, ToldRunStays DEF SnapshotRuns
  <2>2. Reported(g.snap)'
    BY <1>3 DEF SnapshotRuns, Reported, Evolves, Over
  <2> QED BY <2>1, <2>2
<1>5. ShownRun'
  <2> SUFFICES ASSUME view # NoView, "stop" \notin hid PROVE ToldRun(view, loop.cursor)'
    BY DEF ShownRun
  <2> SUFFICES ASSUME NEW v, v = view, NEW c, c = loop.cursor PROVE ToldRun(view, loop.cursor)' OBVIOUS
  <2>1. ToldRun(v, c)' BY <1>1, ToldRunStays DEF ShownRun
  <2> QED BY <2>1 DEF ToldRun
<1>6. Fresh'
  <2> SUFFICES ASSUME NEW g \in Latest, NEW x \in rows', x <= loop.cursor,
                      log'[x].type \in Refreshing
               PROVE  x <= g.snap.cursor
    BY <1>2 DEF Fresh
  <2>1. x \in rows BY <1>1 DEF New, Evolves
  <2> QED BY <1>1, <2>1 DEF Fresh
<1>7. Kept'
  <2> SUFFICES ASSUME view # NoView, "stop" \notin hid,
                      NEW g \in Latest, NEW r \in Runs, NEW s \in rows', NEW x \in rows',
                      g.snap.run = r, status'[r] \in {"running", "waiting_takeover"},
                      Entered(r, s, x)', s <= loop.cursor,
                      status'[r] = "waiting_takeover" => x > g.snap.cursor
               PROVE  \/ view.run = r
                      \/ /\ view.run # None
                         /\ \E y \in rows' : /\ log'[y].type = "started"
                                             /\ g.snap.cursor < y /\ y <= loop.cursor
    BY <1>2 DEF Kept
  <2>1. s \in rows /\ s \in DOMAIN log BY <1>1 DEF New, Evolves
  <2>2. r \in ActiveRuns' BY DEF ActiveRuns, Active
  <2>3. \A y \in rows : log[y].type = "started" => y \in rows' /\ log'[y] = log[y]
    BY <1>1, <2>2 DEF RunsEvolve, Clears, Evolves
  <2>4. \/ view.run = r
        \/ /\ view.run # None
           /\ \E y \in rows : log[y].type = "started" /\ g.snap.cursor < y /\ y <= loop.cursor
    <3>1. CASE x \in DOMAIN log
      <4>1. status'[r] = status[r] /\ Entered(r, s, x)
        BY <3>1, EnteredBefore DEF Working
      <4> QED BY <4>1 DEF Kept, Entered
    <3>2. CASE x \notin DOMAIN log
      <4>1. status'[r] # status[r] /\ status'[r] \in Working
        <5>1. EntryType[status'[r]] \in StatusTypes BY DEF EntryType, StatusTypes
        <5>2. x \in New BY <1>1, <3>2
        <5> QED BY <5>1, <5>2 DEF Entered, Has, RunsEvolve, Working
      <4>2. LastStart(s)' BY <4>1, EnteredNow
      <4>3. status'[r] # "running"
        <5> SUFFICES ASSUME status'[r] = "running" PROVE FALSE OBVIOUS
        <5>1. Has(x, "started", r)' /\ x \in DOMAIN log'
          BY DEF Entered, EntryType, Evolves, New
        <5>2. x <= s BY <4>2, <5>1 DEF LastStart, Has
        <5> QED BY <1>1, <2>1, <3>2, <5>1, <5>2 DEF Entered, Evolves
      <4>4. status[r] = "running" BY <4>1, <4>3 DEF RunsEvolve, Working, Waiting
      <4>5. PICK t, y \in rows : Entered(r, t, y) BY <4>4 DEF Entries, Working
      <4>6. /\ t \in DOMAIN log /\ log[t].type = "started"
            /\ \A z \in DOMAIN log : log[z].type = "started" => z <= t
        BY <1>1, <4>4, <4>5 DEF Entered, Has
      <4>7. log[s].type = "started" BY <1>1, <2>1 DEF Entered, Has
      <4>8. t <= s /\ s <= t /\ t \in Nat /\ s \in Nat
        BY <1>1, <2>1, <4>2, <4>6, <4>7 DEF LastStart, Evolves
      <4>9. t = s BY <4>8
      <4> QED BY <4>4, <4>5, <4>9 DEF Kept
    <3> QED BY <3>1, <3>2
  <2> QED BY <2>3, <2>4
<1>8. Answering'
  <2> SUFFICES ASSUME NEW r \in Runs, NEW g \in Answered, Outlasts(r)', g.snap.cursor = Len(log')
               PROVE  g.snap.run = r
    BY <1>2 DEF Answering
  <2>1. Len(log') <= Len(log) BY <1>3
  <2> QED BY <2>1, OutlastsBefore DEF Answering
<1>9. Awaiting'
  <2> SUFFICES ASSUME view # NoView, "refresh" \notin hid, NEW r \in Runs, Outlasts(r)',
                      Len(log') <= loop.cursor
               PROVE  view.run = r \/ \E g \in gets : g.id = made /\ g.epoch = epoch
    BY DEF Awaiting
  <2>1. Len(log') <= Len(log) BY <1>1 DEF Evolves
  <2> QED BY <2>1, OutlastsBefore DEF Awaiting
<1> QED BY <1>4, <1>5, <1>6, <1>7, <1>8, <1>9

\* What was told of a run is still true when the server takes no step.
LEMMA ToldRunSame ==
  ASSUME UNCHANGED server
  PROVE  /\ \A v, c : ToldRun(v, c) <=> ToldRun(v, c)'
         /\ \A v : Reported(v) <=> Reported(v)'
         /\ \A r, s, x : Entered(r, s, x) <=> Entered(r, s, x)'
BY DEF server, ToldRun, Reported, Entered, Has, LastStart, Newest, Visible

\* A new refresh makes those before it stale.
LEMMA RefreshRenews ==
  ASSUME ViewInv, Refresh
  PROVE  Answered' = Answered /\ Latest' = {}
         /\ \E g \in gets' : g.id = made' /\ g.epoch = epoch
<1>1. /\ made' = made + 1 /\ gets' = gets \cup {Get(made + 1)}
      /\ Get(made + 1) = [id |-> made + 1, epoch |-> epoch, snap |-> NoView]
  BY RefreshTyped
<1>2. \A g \in gets : g.id \in 1 .. made /\ made \in Nat BY DEF ViewInv, ViewTypeOK
<1>3. Answered' = Answered BY <1>1 DEF Answered
<1>4. \A g \in Answered : g.id # made + 1 BY <1>2 DEF Answered
<1> QED BY <1>1, <1>3, <1>4 DEF Latest

\* threadSnapshot shows the newest run with its status.
LEMMA SnapshotRun ==
  ASSUME ViewInv
  PROVE  /\ ToldRun(ThreadSnapshot, ThreadSnapshot.cursor) /\ Reported(ThreadSnapshot)
         /\ \A x \in rows : x <= ThreadSnapshot.cursor
         /\ \A r \in Runs : Visible(r) /\ Newest(r) => ThreadSnapshot.run = r
         /\ ThreadSnapshot.run # None => Newest(ThreadSnapshot.run)
<1> DEFINE n == ThreadSnapshot
<1>1. /\ \A x \in rows : x <= n.cursor
      /\ n.run # None => /\ n.run \in Runs /\ status[n.run] \in Active \cup {"failed"}
                         /\ n.status = status[n.run]
      /\ \A r \in Runs : status[r] \in Active \cup {"failed"} => n.run # None /\ n.run >= r
  BY SnapshotTyped
<1> HIDE DEF n
<1>3. \A r \in Runs : r \in Nat BY RunsAreNumbers
<1>4. \A r \in Runs : Visible(r) /\ Newest(r) => n.run = r
  BY <1>1, <1>3 DEF Visible, Newest
<1>5. n.run # None => Newest(n.run)
  <2> SUFFICES ASSUME n.run # None, NEW q \in Runs, q > n.run, Visible(q) PROVE FALSE
    BY DEF Newest
  <2>1. n.run >= q BY <1>1 DEF Visible
  <2> QED BY <1>1, <1>3, <2>1
<1>6. Reported(n) BY <1>1 DEF Reported
<1>7. ToldRun(n, n.cursor)
  BY <1>1, <1>4 DEF ToldRun, Visible, Working, Active
<1> QED BY <1>1, <1>4, <1>5, <1>6, <1>7 DEF n

\* An answer that is read keeps the parts of the invariant.
LEMMA AnswerRuns ==
  ASSUME ViewInv, Stream, Entries, SnapshotRuns, ShownRun, Fresh, Kept, Answering, Awaiting,
         NEW g \in gets, AnswerGet(g)
  PROVE  SnapshotRuns' /\ ShownRun' /\ Fresh' /\ Kept' /\ Answering' /\ Awaiting'
<1> DEFINE n == ThreadSnapshot
           h == [g EXCEPT !.snap = ThreadSnapshot]
<1>1. /\ UNCHANGED server /\ UNCHANGED <<view, loop, epoch, made, hid>>
      /\ gets' = (gets \ {g}) \cup {h} /\ h.snap = n /\ h.id = g.id /\ h.epoch = g.epoch
      /\ UNCHANGED <<log, rows, status>>
  BY DEF AnswerGet, ViewInv, server
<1>2. /\ ToldRun(n, n.cursor) /\ Reported(n) /\ \A x \in rows : x <= n.cursor
      /\ \A r \in Runs : Visible(r) /\ Newest(r) => n.run = r
      /\ n.run # None => Newest(n.run)
  BY SnapshotRun
<1>3. /\ rows \subseteq 1 .. Len(log) /\ Len(log) \in Nat /\ loop.cursor \in Nat
      /\ n.cursor \in Nat
  BY SnapshotTyped DEF ViewInv, ViewTypeOK, Typed, View
<1>4. /\ \A v, c : ToldRun(v, c) <=> ToldRun(v, c)'
      /\ \A v : Reported(v) <=> Reported(v)'
      /\ \A r, s, x : Entered(r, s, x) <=> Entered(r, s, x)'
  BY <1>1, ToldRunSame
<1> HIDE DEF n, h
<1>5. \A k \in Answered' : k \in Answered \/ (k = h /\ k.snap = n) BY <1>1 DEF Answered
<1>6. \A k \in Latest' : k \in Latest \/ (k = h /\ k.snap = n) BY <1>1, <1>5 DEF Latest
<1>7. SnapshotRuns'
  <2>1. \A k \in Answered' : ToldRun(k.snap, k.snap.cursor) /\ Reported(k.snap)
    BY <1>2, <1>5 DEF SnapshotRuns
  <2> QED BY <1>4, <2>1 DEF SnapshotRuns
<1>8. ShownRun'
  BY <1>1 DEF ShownRun, ToldRun, Entered, Has, LastStart, Newest, Visible
<1>9. Fresh' BY <1>1, <1>2, <1>6 DEF Fresh
<1>10. Kept'
  <2> SUFFICES ASSUME view # NoView, "stop" \notin hid, NEW k \in Latest', k = h, k.snap = n,
                      NEW r \in Runs, NEW s \in rows, NEW x \in rows,
                      n.run = r, status[r] \in {"running", "waiting_takeover"},
                      Entered(r, s, x), s <= loop.cursor,
                      status[r] = "waiting_takeover" => x > n.cursor
               PROVE  view.run = r
    BY <1>1, <1>4, <1>6 DEF Kept
  <2>1. x <= n.cursor /\ x \in Nat BY <1>2, <1>3
  <2>2. status[r] = "running" BY <1>3, <2>1
  <2>3. LastStart(s) BY <2>2 DEF Entered, LastStart
  <2>4. r # None BY RunsAreNumbers DEF None
  <2>5. Newest(r) BY <1>2, <2>4
  <2> QED BY <2>2, <2>3, <2>5 DEF ShownRun, ToldRun, Working
<1>11. \A r : Outlasts(r)' <=> Outlasts(r)
  BY <1>1 DEF Outlasts, ActiveRuns, Newest, Visible
<1>12. Answering'
  <2> SUFFICES ASSUME NEW r \in Runs, Outlasts(r) PROVE n.run = r
    BY <1>1, <1>5, <1>11 DEF Answering
  <2>1. Visible(r) /\ Newest(r) BY DEF Outlasts, Visible, Waiting, Active
  <2> QED BY <1>2, <2>1
<1>13. Awaiting' BY <1>1, <1>11 DEF Awaiting
<1> QED BY <1>7, <1>8, <1>9, <1>10, <1>12, <1>13

\* The rows of a run that works are later than every clear.
LEMMA NoneCleared ==
  ASSUME ViewInv, Table, NEW e \in DOMAIN log, log[e].type # "progress",
         NEW s \in rows, s < e
  PROVE  e \in rows /\ log[e].type # "cleared"
<1>1. rows \subseteq Nat /\ e \in Nat /\ s \in Nat BY DEF ViewInv, ViewTypeOK
<1>2. e \in rows
  <2> SUFFICES ASSUME e \notin rows PROVE FALSE OBVIOUS
  <2>1. PICK k \in rows : k > e /\ log[k].type = "cleared" BY DEF Table, ClearedAfter
  <2>2. s >= k BY <2>1 DEF Table
  <2>3. k \in Nat BY <1>1, <2>1
  <2> QED BY <1>1, <2>1, <2>2, <2>3
<1>3. ASSUME log[e].type = "cleared" PROVE FALSE
  <2>1. s >= e BY <1>2, <1>3 DEF Table
  <2> QED BY <1>1, <2>1
<1> QED BY <1>2, <1>3

\* The view that applies the next event is true of its run up to that event.
LEMMA EventToldRun ==
  ASSUME Client = "web", ViewInv, Table, Stream, ToldRun(view, loop.cursor), ReceiveEvent
  PROVE  ToldRun(view, loop.cursor)'
<1> DEFINE e == Min(pipe)
           L == loop.cursor
           v == Reduced(e)
           type == log[e].type
           q == log[e].run
<1>1. /\ e \in DOMAIN log /\ e \in Nat /\ e > L /\ view # NoView
      /\ loop' = [loop EXCEPT !.cursor = e] /\ view' = v
      /\ \A x \in rows : x <= L \/ x >= e
  BY EventStream
<1>2. /\ loop'.cursor = e /\ L \in Nat /\ rows \subseteq Nat /\ rows \subseteq DOMAIN log
      /\ UNCHANGED server /\ e \in Nat
      /\ type \in EventTypes
  <2>1. log[e] \in Event BY <1>1 DEF ViewInv, ViewTypeOK
  <2> QED BY <1>1, <2>1 DEF ViewInv, ViewTypeOK, ReceiveEvent, Event
<1>3. /\ v.run = IF type = "cleared" \/ (type = "terminal" /\ view.run = q) THEN None
                 ELSE IF type = "started" THEN q ELSE view.run
      /\ type = "started" => v.status = "running"
      /\ type = "waiting_input" /\ view.run = q => v.status = "waiting_input"
      /\ type = "takeover_requested" /\ view.run = q => v.status = "waiting_takeover"
      /\ type \in {"message", "progress"} \/ (type # "started" /\ view.run # q /\ type # "cleared")
           => v.status = view.status
  BY <1>1, ReducedFields
<1> HIDE DEF e, v
<1> SUFFICES ASSUME NEW r \in Runs, NEW s \in rows, NEW x \in rows,
                    status[r] \in Working, Entered(r, s, x)
             PROVE  /\ v.run = r /\ v.status # status[r] => x > e
                    /\ LastStart(s) /\ Newest(r) /\ s <= e => v.run = r
  <2>1. \A r, s, x : Entered(r, s, x) <=> Entered(r, s, x)' BY <1>2, ToldRunSame
  <2> QED BY <1>1, <1>2, <2>1 DEF ToldRun, server, LastStart, Newest, Visible
<1>4. r # None BY RunsAreNumbers DEF None
<1>5. /\ s \in Nat /\ x \in Nat /\ s <= x /\ Has(s, "started", r) /\ Has(x, EntryType[status[r]], r)
      /\ q = r /\ type \in StatusTypes => e <= x
      /\ type = "started" => e <= s \/ (status[r] # "running" /\ e > x)
  BY <1>1, <1>2 DEF Entered
<1>6. /\ view.run = r /\ view.status # status[r] => x > L
      /\ LastStart(s) /\ Newest(r) /\ s <= L => view.run = r
  BY DEF ToldRun
<1>7. ASSUME v.run = r, v.status # status[r], x <= e PROVE FALSE
  <2>1. type # "cleared" /\ (type = "started" => q = r) BY <1>3, <1>4, <1>7
  <2>2. CASE x = e
    <3>1. q = r /\ type = EntryType[status[r]] BY <1>5, <2>2 DEF Has
    <3>2. type \in {"started", "waiting_input", "takeover_requested"}
      BY <3>1 DEF EntryType, Working
    <3> QED BY <1>3, <1>7, <3>1, <3>2 DEF EntryType, Working
  <2>3. CASE x < e
    <3>1. x <= L BY <1>1, <1>2, <1>5, <2>3
    <3>2. ~(q = r /\ type \in StatusTypes) BY <1>2, <1>5, <2>3
    <3>3. type # "started" /\ view.run = r /\ (q # r \/ type \in {"message", "progress"})
      BY <1>2, <1>3, <1>4, <1>7, <2>1, <3>2 DEF StatusTypes, EventTypes
    <3>4. v.status = view.status BY <1>3, <2>1, <3>3
    <3> QED BY <1>2, <1>5, <1>6, <1>7, <3>1, <3>3, <3>4
  <2> QED BY <1>2, <1>5, <1>7, <2>2, <2>3
<1>8. ASSUME LastStart(s), Newest(r), s <= e PROVE v.run = r
  <2>1. CASE s = e BY <1>3, <1>5, <2>1 DEF Has
  <2>2. CASE s < e
    <3>1. view.run = r BY <1>1, <1>2, <1>6, <1>8, <2>2
    <3>2. type # "started" BY <1>1, <1>2, <1>8, <2>2 DEF LastStart
    <3>3. type # "cleared" BY <1>1, <2>2, NoneCleared
    <3>4. ~(type = "terminal" /\ q = r)
      BY <1>1 DEF Table, Has, Over, Working
    <3> QED BY <1>3, <3>1, <3>2, <3>3, <3>4
  <2> QED BY <1>2, <1>5, <1>8, <2>1, <2>2
<1> QED BY <1>2, <1>5, <1>7, <1>8

\* The next event keeps the run of the latest answer, or starts another.
LEMMA EventKept ==
  ASSUME Client = "web", ViewInv, Table, Stream, Kept, ReceiveEvent
  PROVE  Kept'
<1> DEFINE e == Min(pipe)
           L == loop.cursor
           v == Reduced(e)
           type == log[e].type
           q == log[e].run
<1>1. /\ e \in DOMAIN log /\ e \in Nat /\ e > L /\ view # NoView
      /\ loop' = [loop EXCEPT !.cursor = e] /\ view' = v
      /\ IF type \in Refreshing THEN Refresh ELSE UNCHANGED <<gets, made>>
      /\ \A x \in rows : x <= L \/ x >= e
  BY EventStream
<1>2. /\ loop'.cursor = e /\ L \in Nat /\ rows \subseteq Nat
      /\ UNCHANGED server /\ hid' = hid
      /\ log[e] \in Event
  BY <1>1 DEF ViewInv, ViewTypeOK, ReceiveEvent
<1>3. v.run = IF type = "cleared" \/ (type = "terminal" /\ view.run = q) THEN None
              ELSE IF type = "started" THEN q ELSE view.run
  BY <1>1, ReducedFields
<1>4. type = "started" => q # None
  BY <1>1, <1>2 DEF ViewInv
<1>5. \A r, s, x : Entered(r, s, x) <=> Entered(r, s, x)' BY <1>2, ToldRunSame
<1> HIDE DEF e, v
<1>6. CASE type \in Refreshing
  <2>1. Latest' = {} BY <1>1, <1>6, RefreshRenews
  <2> QED BY <2>1 DEF Kept
<1>7. CASE type \notin Refreshing
  <2>1. type \notin {"terminal", "waiting_input"} BY <1>7 DEF Refreshing
  <2>2. Latest' = Latest BY <1>1, <1>7 DEF Latest, Answered
  <2> SUFFICES ASSUME "stop" \notin hid,
                      NEW g \in Latest, NEW r \in Runs, NEW s \in rows, NEW x \in rows,
                      g.snap.run = r, status[r] \in {"running", "waiting_takeover"},
                      Entered(r, s, x), s <= e,
                      status[r] = "waiting_takeover" => x > g.snap.cursor
               PROVE  \/ v.run = r
                      \/ /\ v.run # None
                         /\ \E y \in rows : /\ log[y].type = "started"
                                            /\ g.snap.cursor < y /\ y <= e
    BY <1>1, <1>2, <1>5, <2>2 DEF Kept, server
  <2>3. /\ s \in Nat /\ x \in Nat /\ g.snap.cursor \in Nat
        /\ Has(s, "started", r)
        /\ type = "started" => e <= s \/ (status[r] # "running" /\ e > x)
    BY <1>1, <1>2 DEF Entered, Latest, Answered, ViewInv, Typed, View
  <2>4. CASE s = e BY <1>3, <2>3, <2>4 DEF Has
  <2>5. CASE s < e
    <3>1. s <= L BY <1>1, <1>2, <2>5
    <3>2. \/ view.run = r
          \/ /\ view.run # None
             /\ \E y \in rows : log[y].type = "started" /\ g.snap.cursor < y /\ y <= L
      BY <1>1, <3>1 DEF Kept
    <3>3. type # "cleared" BY <1>1, <2>5, NoneCleared
    <3>4. CASE type = "started"
      <4>1. e \in rows BY <1>1, <2>5, <3>4, NoneCleared
      <4>2. e > x /\ x > g.snap.cursor BY <1>1, <2>3, <2>5, <3>4
      <4>3. v.run = q /\ v.run # None /\ g.snap.cursor < e /\ e <= e
        BY <1>1, <1>3, <1>4, <2>3, <3>4, <4>2
      <4> QED BY <3>4, <4>1, <4>3
    <3>5. CASE type # "started"
      <4>1. v.run = view.run BY <1>3, <2>1, <3>3, <3>5
      <4>2. \A y \in rows : y <= L => y <= e BY <1>1, <1>2
      <4> QED BY <3>2, <4>1, <4>2
    <3> QED BY <3>4, <3>5
  <2> QED BY <1>1, <2>3, <2>4, <2>5
<1> QED BY <1>6, <1>7

\* The parts of the invariant about what is shown of runs.
Shows == SnapshotRuns /\ ShownRun /\ Fresh /\ Kept /\ Answering /\ Awaiting

\* The next event keeps them.
LEMMA EventRuns ==
  ASSUME Client = "web", ViewInv, Table, Stream, Shows, ReceiveEvent
  PROVE  Shows'
<1> USE DEF Shows
<1> DEFINE e == Min(pipe)
           L == loop.cursor
           type == log[e].type
<1>1. /\ e \in DOMAIN log /\ e \in Nat /\ e > L /\ view # NoView
      /\ loop' = [loop EXCEPT !.cursor = e]
      /\ epoch' = IF type = "cleared" THEN epoch + 1 ELSE epoch
      /\ IF type \in Refreshing THEN Refresh ELSE UNCHANGED <<gets, made>>
      /\ \A x \in rows : x <= L \/ x >= e
  BY EventStream
<1>2. /\ loop'.cursor = e /\ L \in Nat /\ rows \subseteq Nat /\ rows \subseteq DOMAIN log
      /\ DOMAIN log = 1 .. Len(log) /\ Len(log) \in Nat
      /\ UNCHANGED server /\ hid' = hid /\ UNCHANGED <<log, rows, status>>
  BY <1>1 DEF ViewInv, ViewTypeOK, ReceiveEvent, server
<1>3. /\ \A v, c : ToldRun(v, c) <=> ToldRun(v, c)'
      /\ \A v : Reported(v) <=> Reported(v)'
  BY <1>2, ToldRunSame
<1> HIDE DEF e
<1>4. Answered' = Answered /\ (type \in Refreshing => Latest' = {})
      /\ (type \notin Refreshing => Latest' = Latest)
  BY <1>1, RefreshRenews DEF Answered, Latest
<1>5. SnapshotRuns' BY <1>3, <1>4 DEF SnapshotRuns
<1>6. ShownRun' BY <1>1, <1>2, EventToldRun DEF ShownRun
<1>7. Fresh'
  <2> SUFFICES ASSUME NEW g \in Latest', NEW x \in rows, x <= e, log[x].type \in Refreshing
               PROVE  x <= g.snap.cursor
    BY <1>2 DEF Fresh
  <2>1. type \notin Refreshing /\ g \in Latest BY <1>4
  <2>2. x # e BY <2>1
  <2>3. x <= L BY <1>1, <1>2, <2>2
  <2> QED BY <2>1, <2>3 DEF Fresh
<1>8. Kept' BY EventKept
<1>9. ASSUME NEW r, Outlasts(r)', Len(log') <= loop'.cursor PROVE e = Len(log) /\ type = "terminal"
  <2>1. Len(log) \in rows /\ Len(log) <= e /\ log[Len(log)].type = "terminal"
    BY <1>2, <1>9 DEF Outlasts
  <2>2. e <= Len(log) BY <1>1, <1>2
  <2> QED BY <1>1, <1>2, <2>1, <2>2
<1>10. "terminal" \in Refreshing BY DEF Refreshing
<1>11. Answering'
  BY <1>2, <1>4 DEF Answering, Outlasts, ActiveRuns, Newest, Visible
<1>12. Awaiting'
  <2> SUFFICES ASSUME NEW r, Outlasts(r)', Len(log') <= loop'.cursor
               PROVE \E g \in gets' : g.id = made' /\ g.epoch = epoch'
    BY DEF Awaiting
  <2>1. Refresh /\ epoch' = epoch BY <1>1, <1>9, <1>10
  <2> QED BY <2>1, RefreshRenews
<1> QED BY <1>5, <1>6, <1>7, <1>8, <1>11, <1>12

\* So do the other steps of the client.
LEMMA ClientRuns ==
  ASSUME Client = "web", ViewInv, Table, Stream, Shows,
         Open \/ Disconnect \/ ReadEvents \/ StopReturns \/ RefreshAfterRequest
  PROVE  Shows'
<1> USE DEF Shows
<1>1. /\ UNCHANGED server /\ epoch' = epoch /\ UNCHANGED <<log, rows, status>>
      /\ Refresh \/ UNCHANGED <<gets, made>>
  BY DEF Open, Disconnect, ReadEvents, StopReturns, RefreshAfterRequest, server
<1>2. /\ \A v, c : ToldRun(v, c) <=> ToldRun(v, c)'
      /\ \A v : Reported(v) <=> Reported(v)'
      /\ \A r, s, x : Entered(r, s, x) <=> Entered(r, s, x)'
  BY <1>1, ToldRunSame
<1>3. loop'.cursor = loop.cursor
  BY DEF ViewInv, ViewTypeOK, Open, Disconnect, ReadEvents, StopReturns, RefreshAfterRequest
<1>4. Answered' = Answered /\ (Latest' = {} \/ Latest' = Latest)
  BY <1>1, RefreshRenews DEF Answered, Latest
<1>5. SnapshotRuns' BY <1>2, <1>4 DEF SnapshotRuns
<1>6. Fresh' BY <1>1, <1>3, <1>4 DEF Fresh
<1>7. \A r : Outlasts(r)' <=> Outlasts(r)
  BY <1>1 DEF Outlasts, ActiveRuns, Newest, Visible
<1>8. Answering' BY <1>1, <1>4, <1>7 DEF Answering
<1>9. CASE StopReturns
  <2>1. /\ view # NoView /\ Typed(view) /\ Refresh
        /\ hid' = IF view.run \in ActiveRuns THEN hid \cup {"stop"} ELSE hid
    BY <1>9 DEF StopReturns, ViewInv
  <2>2. view'.run = None
    <3>1. [view EXCEPT !.run = None, !.status = "none", !.live = Without(view.run)].run = None
      BY <2>1 DEF Typed, View
    <3> QED BY <1>9, <3>1 DEF StopReturns
  <2>3. Latest' = {} /\ \E g \in gets' : g.id = made' /\ g.epoch = epoch
    BY <2>1, RefreshRenews
  <2>4. Kept' BY <2>3 DEF Kept
  <2>5. Awaiting' BY <1>1, <2>3 DEF Awaiting
  <2>6. ShownRun'
    <3> SUFFICES ASSUME "stop" \notin hid', NEW r \in Runs, NEW s \in rows, NEW x \in rows,
                        status[r] \in Working, Entered(r, s, x)
                 PROVE  ~(view'.run = r) /\ ~(LastStart(s) /\ Newest(r) /\ s <= loop.cursor)
      BY <1>1, <1>2, <1>3 DEF ShownRun, ToldRun, LastStart, Newest, Visible
    <3>1. "stop" \notin hid /\ view.run \notin ActiveRuns BY <2>1
    <3>2. r \in ActiveRuns BY DEF ActiveRuns, Active, Working
    <3>3. r # None BY RunsAreNumbers DEF None
    <3> QED BY <2>1, <2>2, <3>1, <3>2, <3>3 DEF ShownRun, ToldRun
  <2> QED BY <1>5, <1>6, <1>8, <2>4, <2>5, <2>6
<1>10. CASE Open \/ Disconnect \/ ReadEvents \/ RefreshAfterRequest
  <2>1. view' = view /\ hid' = hid
    BY <1>10 DEF Open, Disconnect, ReadEvents, RefreshAfterRequest
  <2>2. ShownRun'
    BY <1>1, <1>3, <2>1 DEF ShownRun, ToldRun, Entered, Has, LastStart, Newest, Visible
  <2>3. Kept' BY <1>1, <1>2, <1>3, <1>4, <2>1 DEF Kept
  <2>4. CASE Refresh
    <3>1. \E g \in gets' : g.id = made' /\ g.epoch = epoch BY <2>4, RefreshRenews
    <3> QED BY <1>1, <1>5, <1>6, <1>8, <2>2, <2>3, <3>1 DEF Awaiting
  <2>5. CASE UNCHANGED <<gets, made>>
    <3>1. Awaiting' BY <1>1, <1>3, <1>7, <2>1, <2>5 DEF Awaiting
    <3> QED BY <1>5, <1>6, <1>8, <2>2, <2>3, <3>1
  <2> QED BY <1>1, <2>4, <2>5
<1> QED BY <1>9, <1>10

\* The answer to the latest request is as true of its run as the events are.
LEMMA ReconciledRun ==
  ASSUME Client = "web", ViewInv, Shown, Shows, view # NoView, "stop" \notin hid,
         NEW g \in Latest
  PROVE  ToldRun(Reconciled(g.snap), loop.cursor)
<1> USE DEF Shows
<1> DEFINE n == g.snap
           K == g.snap.cursor
           L == loop.cursor
           v == Reconciled(n)
<1>1. /\ n \in View /\ K \in Nat /\ L \in Nat /\ view \in View /\ view.cursor \in Nat
      /\ rows \subseteq Nat
  BY DEF ViewInv, ViewTypeOK, Typed, View, Latest, Answered
<1>2. ToldRun(n, K) /\ Reported(n) /\ ToldRun(view, L)
  BY DEF SnapshotRuns, ShownRun, Latest
<1>3. \A x \in rows : x <= L /\ log[x].type = "started" => x <= view.cursor
  BY DEF Shown, MovedUp, Moves
<1> SUFFICES ASSUME NEW r \in Runs, NEW s \in rows, NEW x \in rows,
                    status[r] \in Working, Entered(r, s, x)
             PROVE  /\ v.run = r /\ v.status # status[r] => x > L
                    /\ LastStart(s) /\ Newest(r) /\ s <= L => v.run = r
  BY DEF ToldRun
<1>4. r # None BY RunsAreNumbers DEF None
<1>5. /\ s \in Nat /\ x \in Nat /\ s <= x /\ log[s].type = "started"
      /\ log[x].type = EntryType[status[r]]
  BY <1>1 DEF Entered, Has
<1>6. /\ n.run = r /\ n.status # status[r] => x > K
      /\ LastStart(s) /\ Newest(r) /\ s <= K => n.run = r
      /\ view.run = r /\ view.status # status[r] => x > L
      /\ LastStart(s) /\ Newest(r) /\ s <= L => view.run = r
  BY <1>2 DEF ToldRun
<1> HIDE DEF v, L, K, n
<1>7. ASSUME n.run = r, n.status # status[r], x <= L
      PROVE  view.run = r \/ (view.run # None /\ \E y \in rows : log[y].type = "started" /\ K < y /\ y <= L)
  <2>1. x > K BY <1>6, <1>7
  <2>2. status[r] # "waiting_input"
    <3> SUFFICES ASSUME status[r] = "waiting_input" PROVE FALSE OBVIOUS
    <3>1. log[x].type = "waiting_input" BY <1>5 DEF EntryType
    <3>2. x <= K BY <1>7, <3>1 DEF Fresh, K, L, Refreshing
    <3> QED BY <1>1, <1>5, <2>1, <3>2
  <2>3. status[r] \in {"running", "waiting_takeover"} BY <2>2 DEF Working
  <2>4. s <= L BY <1>1, <1>5, <1>7
  <2> QED BY <1>7, <2>1, <2>3, <2>4 DEF Kept, K, L, n
<1>8. CASE K < view.cursor
  <2>1. CASE view.run = None /\ n.run # None /\ n.run \in view.live
    <3>1. v = [view EXCEPT !.run = n.run, !.status = n.status]
      BY <1>8, <2>1 DEF Reconciled, v, K, n
    <3>2. v.run = n.run /\ v.status = n.status BY <1>1, <3>1 DEF View
    <3> QED BY <1>1, <1>4, <1>5, <1>6, <1>7, <2>1, <3>2
  <2>2. CASE ~(view.run = None /\ n.run # None /\ n.run \in view.live)
    <3>1. v = view BY <1>8, <2>2 DEF Reconciled, v, K, n
    <3> QED BY <1>6, <3>1
  <2> QED BY <2>1, <2>2
<1>9. CASE ~(K < view.cursor)
  <2> DEFINE kept == /\ view.status = "waiting_takeover" /\ n.run = view.run
                     /\ n.status \in Active
  <2>1. v = IF kept THEN [n EXCEPT !.status = "waiting_takeover"] ELSE n
    BY <1>9 DEF Reconciled, v, K, n
  <2>2. v.run = n.run /\ v.status = IF kept THEN "waiting_takeover" ELSE n.status
    BY <1>1, <2>1 DEF View
  <2>3. \A y \in rows : y <= L /\ log[y].type = "started" => y <= K
    BY <1>1, <1>3, <1>9
  <2>4. LastStart(s) /\ Newest(r) /\ s <= L => v.run = r BY <1>6, <2>2, <2>3, <1>5
  <2>5. ASSUME v.run = r, v.status # status[r], x <= L PROVE FALSE
    <3>1. n.run = r BY <2>2, <2>5
    <3>2. CASE kept BY <1>1, <1>5, <1>6, <2>2, <2>5, <3>1, <3>2
    <3>3. CASE ~kept
      <4>1. n.status # status[r] /\ x > K BY <1>6, <2>2, <2>5, <3>1, <3>3
      <4>2. view.run = r
        <5>1. \A y \in rows : ~(log[y].type = "started" /\ K < y /\ y <= L)
          BY <1>1, <2>3
        <5> QED BY <1>7, <2>5, <3>1, <4>1, <5>1
      <4>3. view.status = status[r] BY <1>1, <1>5, <1>6, <2>5, <4>2
      <4>4. n.status \in Active
        <5>1. status[r] # "failed" BY DEF Working
        <5> QED BY <1>2, <1>4, <3>1, <5>1 DEF Reported
      <4>5. status[r] # "waiting_takeover" BY <3>1, <3>3, <4>2, <4>3, <4>4
      <4>6. status[r] # "running"
        <5> SUFFICES ASSUME status[r] = "running" PROVE FALSE OBVIOUS
        <5>1. log[x].type = "started" BY <1>5 DEF EntryType
        <5>2. x <= K BY <2>3, <2>5, <5>1
        <5> QED BY <1>1, <1>5, <4>1, <5>2
      <4>7. log[x].type = "waiting_input" BY <1>5, <4>5, <4>6 DEF EntryType, Working
      <4>8. x <= K BY <2>5, <4>7 DEF Fresh, K, L, Refreshing
      <4> QED BY <1>1, <1>5, <4>1, <4>8
    <3> QED BY <3>2, <3>3
  <2>6. v.run = r /\ v.status # status[r] => x > L BY <1>1, <1>5, <2>5
  <2> QED BY <2>4, <2>6
<1> QED BY <1>1, <1>8, <1>9 DEF v, L, K

\* The latest answer brings back the run that outlasts another.
LEMMA ReconciledSettles ==
  ASSUME Client = "web", ViewInv, Shows, view # NoView, NEW g \in Latest,
         NEW r \in Runs, Outlasts(r), Len(log) <= loop.cursor
  PROVE  Reconciled(g.snap).run = r
<1>1. view.cursor <= Len(log) /\ view.cursor \in Nat /\ Len(log) \in Nat /\ g.snap \in View
      /\ g.snap.cursor \in Nat /\ g.snap.cursor <= Len(log)
  BY DEF ViewInv, ViewTypeOK, Typed, View, Latest, Answered
<1>2. g.snap.run = r /\ g.snap.cursor = Len(log)
  <2>1. Len(log) <= g.snap.cursor BY DEF Outlasts, Shows, Fresh, Refreshing
  <2>2. g.snap.cursor = Len(log) BY <1>1, <2>1
  <2> QED BY <2>2 DEF Shows, Answering, Latest
<1>3. ~(g.snap.cursor < view.cursor) BY <1>2, <1>1
<1>4. \/ Reconciled(g.snap) = g.snap
      \/ Reconciled(g.snap) = [g.snap EXCEPT !.status = "waiting_takeover"]
  BY <1>3 DEF Reconciled
<1>5. [g.snap EXCEPT !.status = "waiting_takeover"].run = g.snap.run BY <1>1 DEF View
<1> QED BY <1>2, <1>4, <1>5

\* A get that returns or fails keeps them.
LEMMA GetRuns ==
  ASSUME Client = "web", "early" \notin Requests, ViewInv, Stream, Shown, Shows,
         NEW g \in gets, ReceiveGet(g) \/ GetFails(g)
  PROVE  Shows'
<1> USE DEF Shows
<1>1. /\ UNCHANGED server /\ UNCHANGED <<log, rows, status>> /\ UNCHANGED <<epoch, made>>
      /\ gets' = gets \ {g}
  BY DEF ReceiveGet, GetFails, server
<1>2. /\ \A v, c : ToldRun(v, c) <=> ToldRun(v, c)'
      /\ \A v : Reported(v) <=> Reported(v)'
      /\ \A r, s, x : Entered(r, s, x) <=> Entered(r, s, x)'
  BY <1>1, ToldRunSame
<1>3. /\ Answered' \subseteq Answered /\ Latest' \subseteq Latest
      /\ g.id = made => Latest' = {}
  BY <1>1 DEF Answered, Latest, Stream
<1>4. SnapshotRuns' BY <1>2, <1>3 DEF SnapshotRuns
<1>5. /\ loop \in [step: {"closed", "loading", "subscribed", "down"}, awaits: 0 .. MaxGets,
                   cursor: 0 .. Len(log)]
      /\ g.id \in 1 .. made /\ made \in Nat
  BY DEF ViewInv, ViewTypeOK
<1>6. Applies(g) => g.id = made /\ g.epoch = epoch BY DEF Applies
<1>7. /\ \A r : Outlasts(r)' <=> Outlasts(r)
      /\ Answering'
  <2>1. \A r : Outlasts(r)' <=> Outlasts(r)
    BY <1>1 DEF Outlasts, ActiveRuns, Newest, Visible
  <2> QED BY <1>1, <1>3, <2>1 DEF Answering
<1>8. CASE loop.step \in {"closed", "loading"}
  <2>1. /\ made = (IF loop.step = "closed" THEN 0 ELSE 1) /\ view = NoView /\ epoch = 0
        /\ loop.step = "loading" => loop.awaits = 1
    BY <1>8 DEF Stream
  <2>2. loop.step = "loading" /\ g.id = 1 /\ made = 1 /\ loop.awaits = g.id
    BY <1>5, <1>8, <2>1
  <2>3. ~GetFails(g) BY <2>1 DEF GetFails
  <2>4. ReceiveGet(g) BY <2>3
  <2>5. Applies(g) /\ view' = g.snap /\ loop'.cursor = g.snap.cursor
    BY <2>1, <2>2, <2>4 DEF ReceiveGet, Applies, Reconciled, ViewInv, Resubscribed
  <2>6. Latest' = {} BY <1>3, <2>2
  <2>7. ToldRun(g.snap, g.snap.cursor) /\ g \in Latest
    BY <2>2, <2>4 DEF ReceiveGet, SnapshotRuns, Answered, Latest
  <2>8. ShownRun'
    BY <1>1, <2>5, <2>7 DEF ShownRun, ToldRun, Entered, Has, LastStart, Newest, Visible
  <2>9. Fresh' /\ Kept' BY <2>6 DEF Fresh, Kept
  <2>10. Awaiting'
    <3> SUFFICES ASSUME NEW r \in Runs, Outlasts(r)', Len(log') <= g.snap.cursor
                 PROVE  g.snap.run = r
      BY <2>5 DEF Awaiting
    <3>1. g.snap.cursor <= Len(log) /\ g.snap.cursor \in Nat /\ Len(log) \in Nat
          /\ rows \subseteq DOMAIN log /\ \A x \in rows : x <= Len(log)
      BY <2>7 DEF Latest, Answered, ViewInv, ViewTypeOK, Typed, View
    <3>2. Outlasts(r) BY <1>1 DEF Outlasts, ActiveRuns, Newest, Visible
    <3>3. g.snap.cursor = Len(log) BY <1>1, <3>1
    <3> QED BY <2>7, <3>2, <3>3 DEF Answering, Latest
  <2> QED BY <1>4, <1>7, <2>8, <2>9, <2>10
<1>9. CASE loop.step \notin {"closed", "loading"}
  <2>1. loop'.cursor = loop.cursor
    BY <1>5, <1>9 DEF ReceiveGet, GetFails, Resubscribed
  <2>2. view # NoView BY <1>5, <1>9 DEF Stream
  <2>3. Fresh' BY <1>1, <1>3, <2>1 DEF Fresh
  <2>4. CASE ReceiveGet(g) /\ Applies(g)
    <3>1. /\ view' = Reconciled(g.snap) /\ hid' = hid \ {"refresh"} /\ g \in Latest
      BY <1>6, <2>4 DEF ReceiveGet, Latest, Answered
    <3>2. Latest' = {} BY <1>3, <1>6, <2>4
    <3>3. Kept' BY <3>2 DEF Kept
    <3>4. Awaiting'
      <4> SUFFICES ASSUME NEW r \in Runs, Outlasts(r), Len(log) <= loop.cursor
                   PROVE  view'.run = r
        BY <1>1, <1>7, <2>1 DEF Awaiting
      <4> QED BY <2>2, <3>1, ReconciledSettles
    <3>5. ShownRun'
      <4> SUFFICES ASSUME "stop" \notin hid PROVE ToldRun(view, loop.cursor)'
        BY <3>1 DEF ShownRun
      <4>1. ToldRun(view', loop.cursor) BY <2>2, <3>1, ReconciledRun
      <4> QED BY <1>1, <2>1, <4>1 DEF ToldRun, Entered, Has, LastStart, Newest, Visible
    <3> QED BY <1>4, <1>7, <2>3, <3>3, <3>4, <3>5
  <2>5. CASE ~(ReceiveGet(g) /\ Applies(g))
    <3>1. view' = view /\ hid \subseteq hid' /\ (hid' = hid \/ "refresh" \in hid')
          /\ ("refresh" \notin hid' => ~Applies(g)) /\ ("stop" \in hid' => "stop" \in hid)
      BY <2>5 DEF ReceiveGet, GetFails
    <3>2. ShownRun'
      BY <1>1, <2>1, <3>1 DEF ShownRun, ToldRun, Entered, Has, LastStart, Newest, Visible
    <3>3. Kept' BY <1>1, <1>2, <1>3, <2>1, <3>1 DEF Kept
    <3>4. Awaiting'
      <4> SUFFICES ASSUME "refresh" \notin hid', NEW r \in Runs, Outlasts(r),
                          Len(log) <= loop.cursor
                   PROVE  view.run = r \/ \E h \in gets' : h.id = made /\ h.epoch = epoch
        BY <1>1, <1>7, <2>1, <3>1 DEF Awaiting
      <4>1. ~Applies(g) /\ "refresh" \notin hid BY <3>1
      <4>2. view.run = r \/ \E h \in gets : h.id = made /\ h.epoch = epoch
        BY <2>2, <4>1 DEF Awaiting
      <4> QED BY <1>1, <4>1, <4>2 DEF Applies
    <3> QED BY <1>4, <1>7, <2>3, <3>2, <3>3, <3>4
  <2> QED BY <2>4, <2>5
<1> QED BY <1>8, <1>9

\* The inductive invariant behind the last theorem.
RunsInv == ThreadInv /\ Turns /\ Entries /\ Handover /\ Shows

\* It holds at the start, ...
LEMMA RunsStart == ViewInit => RunsInv
<1> SUFFICES ASSUME ViewInit PROVE RunsInv OBVIOUS
<1>1. /\ gets = {} /\ view = NoView /\ \A r \in Runs : status[r] = "none"
  BY DEF ViewInit
<1>2. Turns /\ Entries /\ Handover BY <1>1 DEF Turns, Entries, Handover, Working
<1>3. Shows
  BY <1>1 DEF Shows, SnapshotRuns, ShownRun, Fresh, Kept, Answering, Awaiting, Answered,
    Latest
<1> QED BY <1>2, <1>3, ThreadStart DEF RunsInv

\* ... and every step keeps it.
LEMMA RunsStep ==
  ASSUME Client = "web", "early" \notin Requests
  PROVE  RunsInv /\ [ViewNext]_viewVars => RunsInv'
<1> SUFFICES ASSUME RunsInv, [ViewNext]_viewVars PROVE RunsInv' OBVIOUS
<1>1. /\ ViewInv /\ Table /\ Stream /\ Snapshots /\ Shown /\ Turns /\ Entries /\ Handover /\ Shows
  BY DEF RunsInv, ThreadInv
<1>2. ThreadInv' BY ThreadStep DEF RunsInv
<1>3. ASSUME UNCHANGED server PROVE Turns' /\ Entries' /\ Handover'
  BY <1>1, <1>3 DEF server, Turns, Entries, Handover, Entered, Has, LastStart, ActiveRuns
<1>4. CASE UNCHANGED viewVars
  <2>1. UNCHANGED server /\ UNCHANGED <<log, rows, status>> BY <1>4 DEF viewVars, server
  <2>2. Shows'
    BY <1>1, <1>4, <2>1
       DEF viewVars, Shows, SnapshotRuns, ShownRun, Fresh, Kept, Answering, Awaiting, Answered,
           Latest, ToldRun, Reported, Entered, Has, LastStart, Newest, Visible, Outlasts, ActiveRuns
  <2> QED BY <1>2, <1>3, <2>1, <2>2 DEF RunsInv
<1>5. CASE ServerStep
  <2>1. Evolves /\ RunsEvolve /\ Turns' BY <1>1, <1>5, ServerEvolves, ServerRuns, TurnsStep
  <2>2. UNCHANGED <<view, loop, gets, epoch, made, hid>>
    BY <1>5 DEF ServerStep, ClearThread, StopDeletes, StopCancels, RunStep, Send, ClaimRun,
      StartRun, RequeueRun, FlushProgress, PauseRunForInput, PauseRunForTakeover, Resume,
      FinalizeRun, ServerOnly
  <2>3. Entries' /\ Handover' BY <1>1, <2>1, EntriesStep, HandoverStep
  <2>4. Shows' BY <1>1, <2>1, <2>2, ServerShowsRuns DEF Shows
  <2> QED BY <1>2, <2>1, <2>3, <2>4 DEF RunsInv
<1>6. ASSUME NEW g \in gets, AnswerGet(g) PROVE RunsInv'
  <2>1. UNCHANGED server BY <1>6 DEF AnswerGet
  <2>2. Shows' BY <1>1, <1>6, AnswerRuns DEF Shows
  <2> QED BY <1>2, <1>3, <2>1, <2>2 DEF RunsInv
<1>7. ASSUME NEW g \in gets, ReceiveGet(g) \/ GetFails(g) PROVE RunsInv'
  <2>1. UNCHANGED server BY <1>7 DEF ReceiveGet, GetFails
  <2> QED BY <1>1, <1>2, <1>3, <1>7, <2>1, GetRuns DEF RunsInv
<1>8. CASE \/ Open \/ Disconnect \/ ReadEvents \/ ReceiveEvent
           \/ StopReturns \/ RefreshAfterRequest
  <2>1. UNCHANGED server
    BY <1>8 DEF Open, Disconnect, ReadEvents, ReceiveEvent, StopReturns, RefreshAfterRequest
  <2> QED BY <1>1, <1>2, <1>3, <1>8, <2>1, EventRuns, ClientRuns DEF RunsInv
<1> QED BY <1>4, <1>5, <1>6, <1>7, <1>8 DEF ViewNext, ServerStep

\* RunConverges on the web, for any number of runs, events, refreshes, stops,
\* clears and lost connections: a settled client shows no run that has ended, the
\* status it shows is the run's once that works or waits, and it shows the
\* thread's only active run from then on (Shell.tsx:628, :961).
THEOREM SettledRun ==
  ASSUME Client = "web", "early" \notin Requests
  PROVE  ViewSpec => []RunConverges
<1>1. RunsInv => RunConverges
  <2> SUFFICES ASSUME RunsInv, Settled, "stop" \notin hid
               PROVE  /\ view.run # None =>
                           /\ status[view.run] \in Active \cup {"failed", "silenced"}
                           /\ status[view.run] \in Working => view.status = status[view.run]
                      /\ \A r \in Runs : /\ ActiveRuns = {r} /\ status[r] \in Working
                                         /\ \A q \in Runs : q > r => status[q] # "failed"
                                         /\ "refresh" \notin hid
                                         => view.run = r
    BY DEF RunConverges
  <2>1. /\ view # NoView /\ Told(view, loop.cursor) /\ ToldRun(view, loop.cursor)
        /\ view \in View /\ gets = {} /\ loop.cursor \in Nat
        /\ \A x \in rows : x \in Nat /\ x <= loop.cursor
    BY DEF RunsInv, ThreadInv, Shown, Shows, ShownRun, Settled, ViewInv, ViewTypeOK, Typed
  <2>2. \A r : ~KilledAfter(r, loop.cursor) /\ ~ClearedAfter(loop.cursor)
    BY NothingToCome DEF RunsInv
  <2>3. \A r \in Runs : status[r] \in Working => \E s, x \in rows : Entered(r, s, x)
    BY DEF RunsInv, Entries
  <2>4. view.run # None =>
           /\ status[view.run] \in Active \cup {"failed", "silenced"}
           /\ status[view.run] \in Working => view.status = status[view.run]
    <3> SUFFICES ASSUME view.run # None
                 PROVE  /\ status[view.run] \in Active \cup {"failed", "silenced"}
                        /\ status[view.run] \in Working => view.status = status[view.run]
      OBVIOUS
    <3>1. view.run \in Runs BY <2>1 DEF View
    <3>2. status[view.run] \in RunStatuses \ {"none", "ended"}
      BY <2>1, <2>2, <3>1 DEF Told, RunsInv, ThreadInv, ViewInv, ViewTypeOK
    <3>3. status[view.run] \in Working => view.status = status[view.run]
      BY <2>1, <2>3, <3>1 DEF ToldRun
    <3> QED BY <3>2, <3>3 DEF RunStatuses, Active
  <2>5. ASSUME NEW r \in Runs, ActiveRuns = {r}, status[r] \in Working,
               \A q \in Runs : q > r => status[q] # "failed", "refresh" \notin hid
        PROVE  view.run = r
    <3>1. Newest(r)
      <4>1. \A q \in Runs : q > r => q # r BY RunsAreNumbers
      <4> QED BY <2>5, <4>1 DEF Newest, Visible, ActiveRuns
    <3>2. PICK s, x \in rows : Entered(r, s, x) BY <2>3, <2>5
    <3>3. CASE LastStart(s) BY <2>1, <2>5, <3>1, <3>2, <3>3 DEF ToldRun
    <3>4. CASE ~LastStart(s)
      <4>1. log[Len(log)].type = "terminal"
        BY <2>5, <3>2, <3>4 DEF RunsInv, Handover
      <4>2. status[r] \in Waiting
        BY <2>5, <3>2, <3>4 DEF Entered, LastStart, Working, Waiting
      <4>3. Len(log) \in DOMAIN log
        BY <3>2 DEF RunsInv, ThreadInv, ViewInv, ViewTypeOK
      <4>4. Len(log) \in rows
        <5> SUFFICES ASSUME Len(log) \notin rows PROVE FALSE OBVIOUS
        <5>1. ClearedAfter(Len(log)) BY <4>1, <4>3 DEF RunsInv, ThreadInv, Table
        <5>2. \A y \in rows : ~(y > Len(log)) BY DEF RunsInv, ThreadInv, ViewInv, ViewTypeOK
        <5> QED BY <5>1, <5>2 DEF ClearedAfter
      <4>5. Outlasts(r) /\ Len(log) <= loop.cursor
        BY <2>1, <2>5, <3>1, <4>1, <4>2, <4>4 DEF Outlasts
      <4> QED BY <2>1, <2>5, <4>5 DEF RunsInv, Shows, Awaiting
    <3> QED BY <3>3, <3>4
  <2> QED BY <2>4, <2>5
<1> QED BY <1>1, RunsStart, RunsStep, PTL DEF ViewSpec
=============================================================================
