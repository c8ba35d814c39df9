----------------------------- MODULE EventFeed ------------------------------
(***************************************************************************)
(* The event stream of one thread: transactions append events under the    *)
(* lock of the thread's row, announce them with NOTIFY once they have      *)
(* committed, and the followers of an API process (followThreadEvents)     *)
(* read the table whenever their latch changes.  The process shares one    *)
(* LISTEN connection (PostgresRealtimeFanout) that may break at any time.  *)
(***************************************************************************)
EXTENDS Integers, FiniteSets

CONSTANTS
  Writers,      \* requests and handlers that append events
  Followers,    \* subscribe calls served by the process
  BatchSize,    \* EVENT_BATCH_SIZE
  MaxEvents,    \* bound on the numbers given to events
  MaxResumes,   \* bound on the times clients leave
  Faults, MaxFaults

FaultKinds == {"unheard", "disconnect", "refused"}

ASSUME FeedAssumption ==
  /\ BatchSize \in Nat \ {0} /\ MaxEvents \in Nat /\ MaxResumes \in Nat
  /\ Faults \subseteq FaultKinds /\ MaxFaults \in Nat
  /\ "none" \notin Writers

VARIABLES
  nextEventSeq, \* threads.nextEventSeq as committed
  lock,         \* the writer that holds the thread's row, or "none"
  events,       \* numbers of the events in the table
  progress,     \* those of type thread.progress
  writer,       \* each writer: its step and the numbers it took
  link,         \* the LISTEN connection of the process
  retry,        \* is reconnectTimer set?
  signals,      \* NOTIFY messages on their way on that connection
  follower,     \* each follower: its local variables and its latch
  cursor,       \* the last event the client of a follower received
  unheard,      \* history: numbers whose NOTIFY failed
  faults, resumes

table  == <<nextEventSeq, lock, events, progress, writer>>
fanout == <<link, retry, signals>>
vars   == <<table, fanout, follower, cursor, unheard, faults, resumes>>

\* "candidate" awaits connect and LISTEN, "listening" has its LISTEN in
\* effect, "up" is this.client, "disposed" is a candidate given up before
\* connectClient has settled.
Links == {"none", "candidate", "listening", "up", "disposed"}

\* A transaction has taken the numbers from `from` up to, not including, `next`.
Writer == [step: {"idle", "open", "committed"}, from: Nat, next: Nat]
Idle == [step |-> "idle", from |-> 0, next |-> 0]
Seqs(w) == writer[w].from .. writer[w].next - 1

Follower == [step: {"off", "top", "query", "yield", "asleep"},
             changed: BOOLEAN, batch: SUBSET Nat, full: BOOLEAN]

\* changed: has the latch's generation moved on since it was last observed?
Off == [step |-> "off", changed |-> FALSE, batch |-> {}, full |-> FALSE]
At(f, step) == follower[f].step = step
Subscribers == {f \in Followers : ~At(f, "off")}

Fault(kind) == kind \in Faults /\ faults < MaxFaults /\ faults' = faults + 1

-----------------------------------------------------------------------------
(* Appending: appendEventInTransaction and the transactions around it.     *)

\* The update of nextEventSeq takes the row's lock until the transaction
\* ends, so no other writer sees a number this one took.
MayLock(w) == lock \in {"none", w}

AppendEvent(w) ==
  /\ MayLock(w)
  /\ lock' = w
  /\ \/ /\ writer[w].step = "idle" /\ nextEventSeq < MaxEvents
        /\ writer' = [writer EXCEPT ![w] = [step |-> "open",
               from |-> nextEventSeq, next |-> nextEventSeq + 1]]
     \/ /\ writer[w].step = "open" /\ writer[w].next < MaxEvents
        /\ writer' = [writer EXCEPT ![w].next = @ + 1]
  /\ UNCHANGED <<nextEventSeq, events, progress, fanout, follower, cursor,
                 unheard, faults, resumes>>

\* The transaction commits: its events are progress of a run or not, and it
\* deletes nothing, the progress of the run it ends, or (clearThread) all.
Commit(w) ==
  /\ writer[w].step = "open"
  /\ \E streamed \in SUBSET Seqs(w), gone \in {{}, progress, events} :
       /\ events' = (events \ gone) \cup Seqs(w)
       /\ progress' = (progress \ gone) \cup streamed
  /\ nextEventSeq' = writer[w].next
  /\ lock' = "none"
  /\ writer' = [writer EXCEPT ![w].step = "committed"]
  /\ UNCHANGED <<fanout, follower, cursor, unheard, faults, resumes>>

\* assertRunCanWriteHistory throws, or the connection breaks.
Rollback(w) ==
  /\ writer[w].step = "open"
  /\ lock' = "none"
  /\ writer' = [writer EXCEPT ![w] = Idle]
  /\ UNCHANGED <<nextEventSeq, events, progress, fanout, follower, cursor,
                 unheard, faults, resumes>>

\* Stopping a thread deletes the progress of its runs without the lock and
\* without an event.
DeleteProgress ==
  /\ progress # {}
  /\ events' = events \ progress
  /\ progress' = {}
  /\ UNCHANGED <<nextEventSeq, lock, writer, fanout, follower, cursor,
                 unheard, faults, resumes>>

Announced(w) == writer' = [writer EXCEPT ![w] = Idle]

\* notifyRealtime: NOTIFY reaches the sessions that LISTEN when it commits.
Notify(w) ==
  /\ writer[w].step = "committed"
  /\ Announced(w)
  /\ signals' = IF link \in {"listening", "up"} THEN signals + 1 ELSE signals
  /\ UNCHANGED <<nextEventSeq, lock, events, progress, link, retry, follower,
                 cursor, unheard, faults, resumes>>

\* The NOTIFY fails, which is ignored, or the process dies before it.
NotifyFails(w) ==
  /\ writer[w].step = "committed"
  /\ Fault("unheard")
  /\ Announced(w)
  /\ unheard' = unheard \cup Seqs(w)
  /\ UNCHANGED <<nextEventSeq, lock, events, progress, fanout, follower,
                 cursor, resumes>>

-----------------------------------------------------------------------------
(* The LISTEN connection of the process: PostgresRealtimeFanout.           *)

\* ChangeLatch.notify of every subscriber: a sleeper leaves waitForChange.
NotifySubscribers ==
  follower' = [f \in Followers |->
    IF At(f, "off") THEN follower[f]
    ELSE [step |-> IF At(f, "asleep") THEN "top" ELSE follower[f].step,
          changed |-> TRUE, batch |-> follower[f].batch, full |-> follower[f].full]]

ensureConnected == link' = IF link = "none" THEN "candidate" ELSE link
\* Mutant of scheduleReconnect: only a lost client is replaced: no `finally` in ensureConnected.
scheduleReconnectOnce == retry' = (retry \/ (Subscribers # {} /\ link = "up"))

scheduleReconnect == retry' = (retry \/ Subscribers # {})

Listen ==
  /\ link = "candidate"
  /\ link' = "listening"
  /\ UNCHANGED <<table, retry, signals, follower, cursor, unheard, faults,
                 resumes>>

\* The candidate becomes the client and every subscriber catches up, unless
\* all of them left meanwhile.
Connected ==
  /\ link = "listening"
  /\ \/ Subscribers # {} /\ link' = "up" /\ NotifySubscribers
        /\ UNCHANGED signals
     \/ Subscribers = {} /\ link' = "disposed" /\ signals' = 0
        /\ UNCHANGED follower
  /\ UNCHANGED <<table, retry, cursor, unheard, faults, resumes>>

HandleNotification ==
  /\ signals > 0
  /\ signals' = signals - 1
  /\ NotifySubscribers
  /\ UNCHANGED <<table, link, retry, cursor, unheard, faults, resumes>>

\* The connection breaks: as the client, or while it is still a candidate,
\* where connectClient goes on until it settles.
HandleDisconnect ==
  /\ link \in {"candidate", "listening", "up"}
  /\ Fault("disconnect")
  /\ link' = IF link = "up" THEN "none" ELSE "disposed"
  /\ signals' = 0
  /\ scheduleReconnect
  /\ UNCHANGED <<table, follower, cursor, unheard, resumes>>

\* connect or LISTEN throws.
ConnectFails ==
  /\ link \in {"candidate", "listening"}
  /\ Fault("refused")
  /\ link' = "disposed"
  /\ signals' = 0
  /\ UNCHANGED <<table, retry, follower, cursor, unheard, resumes>>

\* The promise of ensureConnected settles without a client.
ConnectSettles ==
  /\ link = "disposed"
  /\ link' = "none"
  /\ scheduleReconnect
  /\ UNCHANGED <<table, signals, follower, cursor, unheard, faults, resumes>>

\* The timer of scheduleReconnect fires.
Reconnect ==
  /\ retry
  /\ retry' = FALSE
  /\ IF Subscribers = {} THEN UNCHANGED link ELSE ensureConnected
  /\ UNCHANGED <<table, signals, follower, cursor, unheard, faults, resumes>>

-----------------------------------------------------------------------------
(* Following: followThreadEvents, a generator its client pulls from.       *)

GoTo(f, step) == follower' = [follower EXCEPT ![f].step = step]

\* A client subscribes with the last event it received.  The latch is
\* subscribed before anything is read.
Follow(f) ==
  /\ At(f, "off")
  /\ GoTo(f, "top")
  /\ ensureConnected
  /\ UNCHANGED <<table, retry, signals, cursor, unheard, faults, resumes>>

\* The head of the loop keeps the generation of the latch before it reads.
Observe(f) ==
  /\ At(f, "top")
  /\ follower' = [follower EXCEPT ![f] =
       [step |-> "query", changed |-> FALSE, batch |-> {}, full |-> FALSE]]
  /\ UNCHANGED <<table, fanout, cursor, unheard, faults, resumes>>

\* eventsAfter: the first BatchSize events past the cursor.
\* Mutant of FirstAfter: without orderBy.
AnyAfter(f, batch) ==
  /\ batch \subseteq {e \in events : e > cursor[f]}
  /\ Cardinality(batch) <= BatchSize

FirstAfter(f, batch) ==
  LET after == {e \in events : e > cursor[f]}
  IN  /\ batch \subseteq after
      /\ Cardinality(batch) <= BatchSize
      /\ Cardinality(batch) < BatchSize => batch = after
      /\ \A e \in batch, other \in after \ batch : e < other

Query(f) ==
  /\ At(f, "query")
  /\ \E batch \in SUBSET events :
       /\ FirstAfter(f, batch)
       /\ follower' = [follower EXCEPT ![f] =
            [step |-> "yield", changed |-> follower[f].changed,
             batch |-> batch, full |-> Cardinality(batch) = BatchSize]]
  /\ UNCHANGED <<table, fanout, cursor, unheard, faults, resumes>>

\* The next event of the batch goes to the client.
Yield(f) ==
  /\ At(f, "yield")
  /\ \E e \in follower[f].batch :
       /\ \A other \in follower[f].batch : e <= other
       /\ cursor' = [cursor EXCEPT ![f] = e]
       /\ follower' = [follower EXCEPT ![f].batch = @ \ {e}]
  /\ UNCHANGED <<table, fanout, unheard, faults, resumes>>

\* A full batch is followed by another query, a short one by waitForChange,
\* which returns at once if the latch changed since it was observed.
\* Mutant of AfterBatch: waitForChange sleeps without comparing generations.
AfterBatchSleep(f) == IF follower[f].full THEN "query" ELSE "asleep"

AfterBatch(f) ==
  IF follower[f].full THEN "query"
  ELSE IF follower[f].changed THEN "top"
  ELSE "asleep"

EndBatch(f) ==
  /\ At(f, "yield") /\ follower[f].batch = {}
  /\ GoTo(f, AfterBatch(f))
  /\ UNCHANGED <<table, fanout, cursor, unheard, faults, resumes>>

\* The timer of waitForChange, catchUpMs after it fell asleep.
\* Mutant of CatchUp: it is only set while there is no connection.
CatchUpOffline(f) ==
  /\ At(f, "asleep") /\ link # "up"
  /\ GoTo(f, "top")
  /\ UNCHANGED <<table, fanout, cursor, unheard, faults, resumes>>
CatchUp(f) ==
  /\ At(f, "asleep")
  /\ GoTo(f, "top")
  /\ UNCHANGED <<table, fanout, cursor, unheard, faults, resumes>>

\* The signal aborts or the generator returns: what it read and the client
\* did not receive is read again when the client comes back.
Leave(f) ==
  /\ ~At(f, "off") /\ resumes < MaxResumes
  /\ resumes' = resumes + 1
  /\ follower' = [follower EXCEPT ![f] = Off]
  /\ UNCHANGED <<table, fanout, cursor, unheard, faults>>

-----------------------------------------------------------------------------
Init ==
  /\ nextEventSeq = 0 /\ lock = "none" /\ events = {} /\ progress = {}
  /\ writer = [w \in Writers |-> Idle]
  /\ link = "none" /\ retry = FALSE /\ signals = 0
  /\ follower = [f \in Followers |-> Off]
  /\ cursor = [f \in Followers |-> -1]
  /\ unheard = {} /\ faults = 0 /\ resumes = 0

WriterStep(w) == AppendEvent(w) \/ Commit(w) \/ Rollback(w) \/ Notify(w) \/ NotifyFails(w)

FanoutStep == Listen \/ Connected \/ HandleNotification \/ ConnectSettles \/ Reconnect

FollowerStep(f) == Follow(f) \/ Observe(f) \/ Query(f) \/ Yield(f) \/ EndBatch(f)

Next ==
  \/ DeleteProgress \/ HandleDisconnect \/ ConnectFails \/ FanoutStep
  \/ \E w \in Writers : WriterStep(w)
  \/ \E f \in Followers : FollowerStep(f) \/ CatchUp(f) \/ Leave(f)

Spec == Init /\ [][Next]_vars

\* The generators, the connection and the announcements run on.
FairSpec ==
  /\ Spec /\ WF_vars(FanoutStep)
  /\ \A w \in Writers : WF_vars(Notify(w))
  /\ \A f \in Followers : WF_vars(FollowerStep(f))

-----------------------------------------------------------------------------
(* Correctness.                                                            *)

\* The types of the state, and the lock belongs to the one open transaction.
TypeOK ==
  /\ nextEventSeq \in Nat /\ lock \in Writers \cup {"none"}
  /\ events \in SUBSET Nat /\ progress \in SUBSET events
  /\ writer \in [Writers -> Writer] /\ follower \in [Followers -> Follower]
  /\ link \in Links /\ retry \in BOOLEAN /\ signals \in Nat
  /\ cursor \in [Followers -> Int] /\ unheard \in SUBSET Nat
  /\ faults \in Nat /\ resumes \in Nat
  /\ \A w \in Writers : writer[w].step = "open" <=> lock = w

\* Each client of followThreadEvents receives the thread's events in order
\* and never passes one that exists, through batches, concurrent
\* transactions, deletions and reconnects with its last cursor.
Feed == INSTANCE FeedContract WITH last <- nextEventSeq - 1
ImplementsFeed == Feed!Spec

\* The test 'does not lose a notification that arrives while querying':
\* a follower that sleeps although an event waits for it will be woken, by
\* a NOTIFY still due or on its way, or by the connection that must still
\* come up - unless the NOTIFY of that event failed.
NoLostWakeup ==
  \A f \in Followers, e \in events \ unheard :
    At(f, "asleep") /\ cursor[f] < e =>
      \/ \E w \in Writers : writer[w].step = "committed" /\ e \in Seqs(w)
      \/ signals > 0 \/ link # "up"

\* While a follower is subscribed, the process has its LISTEN connection, is
\* connecting, or has a timer that will: a failed connect, a break during
\* the connect or a candidate nobody wanted never ends the retries.
ListenerRecovers == Subscribers # {} /\ link = "none" => retry

\* 'periodically catches up when a signal is missed': if its timer fires, a
\* client gets past every event that is kept, whatever happens to signals and
\* connections.
Delivered == \A f \in Followers : WF_vars(CatchUp(f)) =>
  \A e \in 0 .. MaxEvents - 1 : e \in events ~> cursor[f] >= e \/ e \notin events

\* Without the timer it still gets past those whose NOTIFY did not fail:
\* reconnecting makes up for the signals missed meanwhile.
Pushed == \A f \in Followers, e \in 0 .. MaxEvents - 1 :
  e \in events ~> cursor[f] >= e \/ e \notin events \/ e \in unheard

=============================================================================
