----------------------------- MODULE ThreadView -----------------------------
(***************************************************************************)
(* What a client shows of one bot's thread: it loads a snapshot            *)
(* (threads.get), follows the events from the snapshot's cursor, reduces   *)
(* each of them into the snapshot it shows, and refreshes that snapshot at *)
(* some events and after every lost connection, while the server goes on.  *)
(* The stream delivers as FeedContract says: in order, past no event that  *)
(* exists.  Client is "web" (Shell.tsx) or "mobile" (thread.tsx).          *)
(***************************************************************************)
EXTENDS Integers, Sequences, FiniteSetsExt

CONSTANTS
  Client,
  Runs,        \* 1 .. n, in the order of their creation
  Requests,    \* what may happen besides messages and runs, see RequestKinds
  MaxLog,      \* bound on the events of the thread
  MaxDrops,    \* bound on lost connections and failed requests
  MaxGets      \* bound on refreshes

\* This client stops (on the web) or sends, answers or releases; another
\* client stops; a user clears the thread or is asked to take over; and,
\* "early", this client's requests may come before its thread has loaded, and
\* the load may fail.
RequestKinds == {"stop", "send", "stop elsewhere", "clear", "takeover", "early"}

ASSUME ViewAssumption ==
  /\ Client \in {"web", "mobile"}
  /\ IsFiniteSet(Runs) /\ Runs = 1 .. Cardinality(Runs)
  /\ Requests \subseteq RequestKinds /\ (Client = "mobile" => "stop" \notin Requests)
  /\ MaxLog \in Nat /\ MaxDrops \in Nat /\ MaxGets \in Nat

VARIABLES
  log,       \* every event of the thread, by its number
  rows,      \* the numbers of the events in the table
  messages,  \* the messages in the table, named by the number of their event
  status,    \* of each run
  view,      \* the snapshot on display, or NoView
  loop,      \* the subscribe loop: its step, its cursor and the get it awaits
  pipe,      \* events the server has read for the stream
  gets,      \* threads.get requests on their way
  epoch,     \* historyEpoch
  made,      \* refresh requests made so far
  stop,      \* a threads.stop request under way, of this client or another
  hid,       \* history: why the view may hide a run, see Hidings
  drops

server == <<log, rows, messages, status>>
viewVars == <<server, view, loop, pipe, gets, epoch, made, stop, hid, drops>>

\* "none" before the run exists, "leased" from its claim until its start is
\* announced, "ended" when completed or cancelled by a clear, "silenced" when
\* cancelled without an event, by a stop or by a message that replaces it.
RunStatuses == {"none", "queued", "leased", "running", "waiting_input",
                "waiting_takeover", "failed", "ended", "silenced"}
EventTypes == {"message", "started", "progress", "waiting_input",
               "takeover_requested", "terminal", "cleared"}
Active == {"queued", "leased", "running", "waiting_input", "waiting_takeover"}

None == 0   \* no run
Event == [type: EventTypes, run: Runs \cup {None}]

\* live: the runs that have a live message, built from their progress.
View == [cursor: Nat, messages: SUBSET Nat, run: Runs \cup {None},
         status: RunStatuses, live: SUBSET Runs]
NoView == [cursor |-> -1]

\* "stop": the return of a stop removed a run from the view that it had not
\* stopped, as it started meanwhile.  "refresh": the latest refresh has failed.
Hidings == {"stop", "refresh"}

-----------------------------------------------------------------------------
(* The server: the transactions that append events of the thread.          *)

ActiveRuns == {r \in Runs : status[r] \in Active}
ProgressOf(runs) ==
  {e \in rows : log[e].type = "progress" /\ log[e].run \in runs}

\* Mutant: the events are numbered from the last one on.
WriteFromLast(appended, gone) ==
  /\ Len(log) + Len(appended) <= MaxLog
  /\ log' = log \o appended
  /\ rows' = (rows \ gone) \cup Len(log) .. Len(log) + Len(appended) - 1

\* Appends events and deletes others in one transaction.
Write(appended, gone) ==
  /\ Len(log) + Len(appended) <= MaxLog
  /\ log' = log \o appended
  /\ rows' = (rows \ gone) \cup Len(log) + 1 .. Len(log) + Len(appended)

Entry(type, r) == [type |-> type, run |-> r]
Posts == messages' = messages \cup {Len(log) + 1}
Becomes(r, s) == status' = [status EXCEPT ![r] = s]
ServerOnly == UNCHANGED <<view, loop, pipe, gets, epoch, made, stop, hid, drops>>

\* sendThreadMessage: a message and a run that replaces those in the queue.
Send(r) ==
  /\ status[r] = "none" /\ \A q \in Runs : q < r => status[q] # "none"
  /\ status' = [q \in Runs |-> IF q = r THEN "queued"
                               ELSE IF status[q] = "queued" THEN "silenced" ELSE status[q]]
  /\ Write(<<Entry("message", r)>>, {}) /\ Posts
  /\ ServerOnly

\* A worker claims the run, a bot's runs taking turns, and its handler
\* announces the start in a later transaction.
ClaimRun(r) ==
  /\ status[r] = "queued" /\ \A q \in Runs : status[q] \notin {"leased", "running"}
  /\ Becomes(r, "leased")
  /\ UNCHANGED <<log, rows, messages>> /\ ServerOnly

StartRun(r) ==
  /\ status[r] = "leased"
  /\ Becomes(r, "running")
  /\ Write(<<Entry("started", r)>>, {})
  /\ UNCHANGED messages /\ ServerOnly

\* The setup fails or the computer is busy: back to the queue without an
\* event, before or after the start was announced but before the handler
\* has streamed anything.
RequeueRun(r) ==
  /\ status[r] \in {"leased", "running"} /\ ProgressOf({r}) = {}
  /\ Becomes(r, "queued")
  /\ UNCHANGED <<log, rows, messages>> /\ ServerOnly

\* flushProgress: a text or a delta of the live message.
FlushProgress(r) ==
  /\ status[r] = "running"
  /\ Write(<<Entry("progress", r)>>, {})
  /\ UNCHANGED <<messages, status>> /\ ServerOnly

PauseRunForInput(r) ==
  /\ status[r] = "running"
  /\ Becomes(r, "waiting_input")
  /\ Write(<<Entry("message", r), Entry("waiting_input", r)>>, ProgressOf({r})) /\ Posts
  /\ ServerOnly

PauseRunForTakeover(r) ==
  /\ "takeover" \in Requests
  /\ status[r] = "running"
  /\ Becomes(r, "waiting_takeover")
  /\ Write(<<Entry("takeover_requested", r)>>, ProgressOf({r}))
  /\ UNCHANGED messages /\ ServerOnly

\* The user answers or releases.  The events of these requests change
\* nothing a snapshot shows of the run.
Resume(r) ==
  /\ status[r] \in {"waiting_input", "waiting_takeover"}
  /\ Becomes(r, "queued")
  /\ UNCHANGED <<log, rows, messages>> /\ ServerOnly

FinalizeRun(r) ==
  /\ status[r] = "running"
  /\ \E to \in {"ended", "failed"} : Becomes(r, to)
  /\ Write(<<Entry("message", r), Entry("terminal", r)>>, ProgressOf({r})) /\ Posts
  /\ ServerOnly

CancelsAll(to) == status' = [r \in Runs |-> IF r \in ActiveRuns THEN to ELSE status[r]]

\* May this client make the request now?
MayAsk(request) ==
  /\ request \in Requests /\ loop.step # "closed"
  /\ loop.step = "loading" => "early" \in Requests

\* here: it is this client's.
NoStop == [step |-> "none", runs |-> {}, here |-> FALSE]

\* stopThreadRuns cancels the runs, then deletes their progress, neither with
\* an event.  The stop of this client, whose button shows while its run is
\* active, returns after that.
StopCancels(here) ==
  /\ stop.step = "none"
  /\ IF here THEN MayAsk("stop") /\ view # NoView /\ view.status \in Active
     ELSE "stop elsewhere" \in Requests /\ ActiveRuns # {}
  /\ CancelsAll("silenced")
  /\ stop' = [step |-> "cancelled", runs |-> ActiveRuns, here |-> here]
  /\ UNCHANGED <<log, rows, messages, view, loop, pipe, gets, epoch, made, hid, drops>>

StopDeletes ==
  /\ stop.step = "cancelled"
  /\ rows' = rows \ ProgressOf(stop.runs)
  /\ stop' = IF stop.here THEN [stop EXCEPT !.step = "returns"] ELSE NoStop
  /\ UNCHANGED <<log, messages, status, view, loop, pipe, gets, epoch, made, hid, drops>>

ClearThread ==
  /\ "clear" \in Requests
  /\ CancelsAll("ended")
  /\ Write(<<Entry("cleared", None)>>, rows)
  /\ messages' = {}
  /\ ServerOnly

\* threadSnapshot, read under the lock of the thread's row: the last event,
\* the messages, the newest run that is active or failed, and the live
\* message of an active one.
ThreadSnapshot ==
  LET shown == {r \in Runs : status[r] \in Active \cup {"failed"}}
      run == IF shown = {} THEN None ELSE Max(shown)
  IN  [cursor |-> IF rows = {} THEN 0 ELSE Max(rows),
       messages |-> messages,
       run |-> run,
       status |-> IF run = None THEN "none" ELSE status[run],
       live |-> {r \in ActiveRuns : r = run /\ ProgressOf({r}) # {}}]

-----------------------------------------------------------------------------
(* Reducing an event into the snapshot: reduceThreadSnapshot and           *)
(* applyMobileThreadEvent.                                                 *)

\* Mutant: the live message is looked for under another id and stays.
WithoutNone(r) == view.live

Without(r) == view.live \ {r}
Moved(e) == [view EXCEPT !.cursor = e]

\* A pause changes the status of the run on display and, on its ask, drops
\* the live message; an event that changes nothing does not move the cursor.
Paused(e, r, to) ==
  LET changes == view.run = r /\ view.status # to
      live == IF to = "waiting_input" THEN Without(r) ELSE view.live
  IN  IF Client = "web" /\ ~changes /\ live = view.live THEN view
      ELSE [Moved(e) EXCEPT !.status = IF changes THEN to ELSE @, !.live = live]

\* Mutant: only a thread without a run on display takes up a started one.
StartedIfIdle(e, r) ==
  IF Client = "web" /\ view.run = None
  THEN [Moved(e) EXCEPT !.run = r, !.status = "running"] ELSE view
Started(e, r) ==
  IF Client = "web" THEN [Moved(e) EXCEPT !.run = r, !.status = "running"] ELSE view

Ended(e, r) ==
  [Moved(e) EXCEPT !.live = Without(r), !.run = IF @ = r THEN None ELSE @,
                   !.status = IF view.run = r THEN "none" ELSE @]

Reduced(e) ==
  LET type == log[e].type
      r == log[e].run
  IN  CASE type = "message" ->
             [Moved(e) EXCEPT !.messages = @ \cup {e}, !.live = Without(r)]
        [] type = "progress" -> [Moved(e) EXCEPT !.live = @ \cup {r}]
        [] type = "started" -> Started(e, r)
        [] type = "waiting_input" -> Paused(e, r, "waiting_input")
        [] type = "takeover_requested" ->
             IF Client = "web" THEN Paused(e, r, "waiting_takeover") ELSE view
        [] type = "terminal" -> Ended(e, r)
        [] type = "cleared" ->
             [Moved(e) EXCEPT !.messages = {}, !.run = None, !.status = "none",
                              !.live = {}]

\* Mutant: a refresh replaces what the events have told since, as on mobile.
ReconciledByReplacing(snap) == snap
\* reconcileRefreshedThread: an older snapshot only adds a run whose live
\* message is on display, a newer one replaces everything but a takeover
\* that the events told first.  The mobile client always replaces.
Reconciled(snap) ==
  IF Client = "mobile" \/ view = NoView THEN snap
  ELSE IF snap.cursor < view.cursor
  THEN IF view.run = None /\ snap.run # None /\ snap.run \in view.live
       THEN [view EXCEPT !.run = snap.run, !.status = snap.status] ELSE view
  ELSE IF view.status = "waiting_takeover" /\ snap.run = view.run /\ snap.status \in Active
  THEN [snap EXCEPT !.status = "waiting_takeover"] ELSE snap

-----------------------------------------------------------------------------
(* The client: refreshes and the subscribe loop.                           *)

\* A get carries the epochs of its request, and the snapshot once read.
Get(id) == [id |-> id, epoch |-> epoch, snap |-> NoView]

Refresh == /\ made < MaxGets
           /\ made' = made + 1
           /\ gets' = gets \cup {Get(made + 1)}

\* Opening the thread starts a refresh, and so does the loop after a lost
\* connection; either subscribes when the refresh has returned.
Open ==
  /\ loop.step = "closed"
  /\ Refresh
  /\ loop' = [loop EXCEPT !.step = "loading", !.awaits = made + 1]
  /\ UNCHANGED <<server, view, pipe, epoch, stop, hid, drops>>

Disconnect ==
  /\ loop.step = "subscribed" /\ drops < MaxDrops
  /\ drops' = drops + 1
  /\ Refresh
  /\ loop' = [loop EXCEPT !.step = "down", !.awaits = made + 1]
  /\ pipe' = {}
  /\ UNCHANGED <<server, view, epoch, stop, hid>>

\* The server answers a get; the answer travels on.
AnswerGet(g) ==
  /\ g.snap = NoView
  /\ gets' = (gets \ {g}) \cup {[g EXCEPT !.snap = ThreadSnapshot]}
  /\ UNCHANGED <<server, view, loop, pipe, epoch, made, stop, hid, drops>>

\* Which answers are used: on the web only that of the latest request, on
\* both clients none from before a clear they have seen.
Applies(g) == g.epoch = epoch /\ (Client = "web" => g.id = made)

\* The loop that awaits this get goes on; only the first get sets its cursor.
Resubscribed(g, cursor) ==
  loop' = IF loop.awaits # g.id THEN loop
          ELSE [step |-> "subscribed", awaits |-> 0,
                cursor |-> IF loop.step = "loading" THEN cursor ELSE loop.cursor]

ReceiveGet(g) ==
  /\ g.snap # NoView
  /\ gets' = gets \ {g}
  /\ view' = IF Applies(g) THEN Reconciled(g.snap) ELSE view
  /\ hid' = IF Applies(g) THEN hid \ {"refresh"} ELSE hid
  /\ Resubscribed(g, g.snap.cursor)
  /\ UNCHANGED <<server, pipe, epoch, made, stop, drops>>

\* A get fails: the loop goes on without it.
GetFails(g) ==
  /\ drops < MaxDrops /\ (view = NoView => "early" \in Requests)
  /\ drops' = drops + 1
  /\ gets' = gets \ {g}
  /\ hid' = IF Applies(g) THEN hid \cup {"refresh"} ELSE hid
  /\ Resubscribed(g, 0)
  /\ UNCHANGED <<server, view, pipe, epoch, made, stop>>

\* followThreadEvents reads what lies past the last event it sent.
ReadEvents ==
  /\ loop.step = "subscribed" /\ pipe = {}
  /\ pipe' = {e \in rows : e > loop.cursor}
  /\ pipe' # {}
  /\ UNCHANGED <<server, view, loop, gets, epoch, made, stop, hid, drops>>

Refreshing == IF Client = "web" THEN {"terminal", "waiting_input"} ELSE {"terminal"}

\* The loop applies the next event.
ReceiveEvent ==
  /\ pipe # {}
  /\ LET e == Min(pipe)
     IN  /\ pipe' = pipe \ {e}
         /\ loop' = [loop EXCEPT !.cursor = Max({@, e})]
         /\ view' = IF view = NoView THEN view ELSE Reduced(e)
         /\ epoch' = IF log[e].type = "cleared" THEN epoch + 1 ELSE epoch
         /\ IF log[e].type \in Refreshing THEN Refresh ELSE UNCHANGED <<gets, made>>
  /\ UNCHANGED <<server, stop, hid, drops>>

\* The stop of this client returns: it clears the run on display at once and
\* refreshes.
StopReturns ==
  /\ stop.step = "returns"
  /\ view' = IF view.run = None THEN view
             ELSE [view EXCEPT !.run = None, !.status = "none", !.live = Without(view.run)]
  /\ stop' = NoStop
  /\ hid' = IF view.run \in ActiveRuns THEN hid \cup {"stop"} ELSE hid
  /\ Refresh
  /\ UNCHANGED <<server, loop, pipe, epoch, drops>>

\* A send, an answer or a release of this client refreshes when it returns.
RefreshAfterRequest ==
  /\ MayAsk("send")
  /\ Refresh
  /\ UNCHANGED <<server, view, loop, pipe, epoch, stop, hid, drops>>

-----------------------------------------------------------------------------
ViewInit ==
  /\ log = <<>> /\ rows = {} /\ messages = {}
  /\ status = [r \in Runs |-> "none"]
  /\ view = NoView
  /\ loop = [step |-> "closed", awaits |-> 0, cursor |-> 0]
  /\ pipe = {} /\ gets = {} /\ epoch = 0 /\ made = 0
  /\ stop = NoStop /\ hid = {} /\ drops = 0

RunStep(r) ==
  \/ Send(r) \/ ClaimRun(r) \/ StartRun(r) \/ RequeueRun(r) \/ FlushProgress(r)
  \/ PauseRunForInput(r) \/ PauseRunForTakeover(r) \/ Resume(r) \/ FinalizeRun(r)

ViewNext ==
  \/ ClearThread \/ StopDeletes \/ StopReturns \/ RefreshAfterRequest
  \/ \E here \in BOOLEAN : StopCancels(here)
  \/ Open \/ Disconnect \/ ReadEvents \/ ReceiveEvent
  \/ \E r \in Runs : RunStep(r)
  \/ \E g \in gets : AnswerGet(g) \/ ReceiveGet(g) \/ GetFails(g)

ViewSpec == ViewInit /\ [][ViewNext]_viewVars

-----------------------------------------------------------------------------
(* Correctness.                                                            *)

\* The types of the state.
ViewTypeOK ==
  /\ log \in Seq(Event) /\ rows \subseteq DOMAIN log /\ messages \subseteq DOMAIN log
  /\ status \in [Runs -> RunStatuses] /\ (view = NoView \/ view \in View)
  /\ loop \in [step: {"closed", "loading", "subscribed", "down"}, awaits: 0 .. MaxGets,
               cursor: 0 .. Len(log)]
  /\ stop \in [step: {"none", "cancelled", "returns"}, runs: SUBSET Runs, here: BOOLEAN]
  /\ hid \subseteq Hidings
  /\ pipe \subseteq DOMAIN log /\ made \in 0 .. MaxGets /\ epoch \in Nat
  /\ \A g \in gets : g.id \in 1 .. made /\ g.epoch \in 0 .. epoch

\* The client has applied every event and awaits nothing.
Settled ==
  /\ view # NoView /\ gets = {} /\ stop.step = "none"
  /\ loop.step = "subscribed" /\ pipe = {}
  /\ \A e \in rows : e <= loop.cursor

\* The test '3: disconnect and reconnect from a cursor reconstructs the
\* thread': a settled client shows exactly the thread's messages, however
\* snapshots, events, clears and reconnects interleaved.
MessagesConverge == Settled => view.messages = messages

\* The run a settled client shows is active, has failed or was cancelled
\* without an event, never one that ended; its status is the run's once it
\* works or waits; and the thread's only active run is shown from then on,
\* unless a newer one has failed, which hides it, or the latest refresh has.
Working == {"running", "waiting_input", "waiting_takeover"}
RunConverges == Settled /\ "stop" \notin hid =>
  /\ view.run # None =>
       /\ status[view.run] \in Active \cup {"failed", "silenced"}
       /\ status[view.run] \in Working => view.status = status[view.run]
  /\ \A r \in Runs : /\ ActiveRuns = {r} /\ status[r] \in Working
                     /\ \A q \in Runs : q > r => status[q] # "failed"
                     /\ "refresh" \notin hid
                     => view.run = r

\* A live message on display belongs to a run that is active.
NoGhostProgress == Settled => \A r \in view.live : status[r] \in Active \cup {"silenced"}
=============================================================================
