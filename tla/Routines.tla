------------------------------ MODULE Routines ------------------------------
(***************************************************************************)
(* The schedules of routines: jobs wake a routine when it is due           *)
(* (wakeRoutine), a claim moves it to its next occurrence and creates a    *)
(* run, users and agents edit it meanwhile, and elected reconcilers page   *)
(* through the routines and publish the wake-ups that were lost.           *)
(***************************************************************************)
EXTENDS Integers, FiniteSets

CONSTANTS
  Routines,     \* ids, which the pages of a scan are ordered by
  Crons,        \* periods; a cron is due at the multiples of its period
  Workers,      \* slots that execute routine.wakeup jobs
  Reconcilers,  \* processes that run a reconciler
  BatchSize,    \* rows of a reconciler's page
  Lookahead,    \* ROUTINE_LOOKAHEAD_MS
  Skew,         \* how far the queue's clock is ahead of the handlers'
  MaxTime,      \* bound on the clock
  Faults,
  Instances     \* bounds: the routines of a behaviour, its requests and faults

FaultKinds == {"enqueue", "crash", "scan", "session"}

ASSUME RoutinesAssumption ==
  /\ Routines \subseteq Nat /\ IsFiniteSet(Routines) /\ Routines # {}
  /\ Crons \subseteq Nat \ {0}
  /\ BatchSize \in Nat \ {0} /\ Lookahead \in Nat /\ Skew \in Nat
  /\ MaxTime \in Nat /\ Faults \subseteq FaultKinds
  /\ Instances \subseteq [routines : SUBSET Routines, edits : Nat, faults : Nat]

VARIABLES
  now,
  row,        \* each routine's row
  wake,       \* time of the queued job with the routine's key, or Never
  runs,       \* the runs the routines created and that were not deleted
  made,       \* number of runs each routine created so far
  handler,    \* each slot: the local variables of wakeRoutine
  edit,       \* the request (or tool call) that edits routines
  reconciler, \* each process: its cursor and the page it publishes
  lock,       \* the process whose session holds the advisory lock, if any
  edited,     \* history: routines that were edited or removed
  overtaken,  \* history: routines one of whose claims could not be undone
  claimed,    \* history: each routine's last occurrence that was claimed
  edits, faults \* requests and faults to come

rows    == <<row, wake, runs, made>>
history == <<edited, overtaken, claimed, edits, faults>>
vars    == <<now, rows, handler, edit, reconciler, lock, history>>

Never == -1   \* null
Once  == 0    \* ONCE_ROUTINE_CRON
Time  == Nat \cup {Never}

Row == [stage : {"new", "live", "gone"}, active : BOOLEAN,
        cron : Crons \cup {Once}, at : Time]
NewRow == [stage |-> "new", active |-> FALSE, cron |-> Once, at |-> Never]
GoneRow == [NewRow EXCEPT !.stage = "gone"]

Run == [id : Nat, routine : Routines, at : Time]

\* nextCronDateAcross: the first occurrence after a time, none of a one-shot.
NextDate(cron, t) == IF cron = Once THEN Never ELSE (t \div cron + 1) * cron

Fault(kind) == kind \in Faults /\ faults > 0 /\ faults' = faults - 1

-----------------------------------------------------------------------------
(* The queue.  A job being executed keeps its key, and is retried if it    *)
(* fails, until a job with the same key is published or cancelled.         *)

Disowned(r) == [w \in Workers |->
  IF handler[w].routine = r THEN [handler[w] EXCEPT !.owns = FALSE] ELSE handler[w]]

Publish(r, t) == wake' = [wake EXCEPT ![r] = t] /\ handler' = Disowned(r)
Cancel(r) == Publish(r, Never)

\* The slot returns, having published t with the key of its routine.
Some == CHOOSE r \in Routines : TRUE
Idle == [step |-> "idle", routine |-> Some, at |-> Never, next |-> Never,
         run |-> 0, owns |-> FALSE]
Return(w) == [handler EXCEPT ![w] = Idle]
ReturnPublishing(w, t) ==
  /\ wake' = [wake EXCEPT ![handler[w].routine] = t]
  /\ handler' = [Disowned(handler[w].routine) EXCEPT ![w] = Idle]

\* wakeRoutine throws, or its process dies.
ReturnFailing(w) ==
  /\ wake' = IF handler[w].owns
             THEN [wake EXCEPT ![handler[w].routine] = handler[w].at] ELSE wake
  /\ handler' = Return(w)

Tick ==
  /\ now < MaxTime
  /\ now' = now + 1
  /\ UNCHANGED <<rows, handler, edit, reconciler, lock, history>>

-----------------------------------------------------------------------------
(* wakeRoutine.                                                            *)

Steps == {"idle", "read", "claim", "enqueue", "restore", "rearm"}
Handler == [step : Steps, routine : Routines, at : Time, next : Time,
            run : Nat, owns : BOOLEAN]

At(w, step) == handler[w].step = step
Its(w) == row[handler[w].routine]

\* The queue hands out the job that is due first.
TakeWake(w, r) ==
  /\ At(w, "idle")
  /\ wake[r] # Never /\ wake[r] <= now + Skew
  /\ \A q \in Routines : wake[q] = Never \/ wake[r] <= wake[q]
  /\ handler' = [handler EXCEPT ![w] =
       [Idle EXCEPT !.step = "read", !.routine = r, !.at = wake[r], !.owns = TRUE]]
  /\ wake' = [wake EXCEPT ![r] = Never]
  /\ UNCHANGED <<now, row, runs, made, edit, reconciler, lock, history>>

\* The row is active and due at the time the job names.
Matches(w) == Its(w).active /\ Its(w).at = handler[w].at

\* The next occurrence is computed from the row read here.
ReadRoutine(w) ==
  /\ At(w, "read") /\ Matches(w) /\ handler[w].at <= now
  /\ handler' = [handler EXCEPT ![w] =
       [handler[w] EXCEPT !.step = "claim", !.next = NextDate(Its(w).cron, now)]]
  /\ UNCHANGED <<now, rows, edit, reconciler, lock, history>>

SkipWake(w) ==
  /\ At(w, "read") /\ ~Matches(w)
  /\ handler' = Return(w)
  /\ UNCHANGED <<now, rows, edit, reconciler, lock, history>>

\* deferFutureRoutine.
DeferWake(w) ==
  /\ At(w, "read") /\ Matches(w) /\ handler[w].at > now
  /\ ReturnPublishing(w, handler[w].at)
  /\ UNCHANGED <<now, row, runs, made, edit, reconciler, lock, history>>

\* The where clause of the claim.
\* Mutant of Claims: the claim relies on the earlier read.
ClaimsAnyway(w) == Its(w).stage = "live"
Claims(w) == Its(w).active /\ Its(w).at = handler[w].at

RunOf(w, id) == [id |-> id, routine |-> handler[w].routine, at |-> handler[w].at]

\* In one transaction the row is moved on and the run created.
ClaimWake(w) ==
  /\ At(w, "claim") /\ Claims(w)
  /\ row' = [row EXCEPT ![handler[w].routine] =
       [Its(w) EXCEPT !.at = handler[w].next,
                      !.active = @ /\ handler[w].next # Never]]
  /\ runs' = runs \cup {RunOf(w, made[handler[w].routine])}
  /\ made' = [made EXCEPT ![handler[w].routine] = @ + 1]
  /\ handler' = [handler EXCEPT ![w] =
       [handler[w] EXCEPT !.step = "enqueue",
                           !.run = made[handler[w].routine]]]
  /\ claimed' = [claimed EXCEPT ![handler[w].routine] = handler[w].at]
  /\ UNCHANGED <<now, wake, edit, reconciler, lock, edited, overtaken, edits, faults>>

LoseClaim(w) ==
  /\ At(w, "claim") /\ ~Claims(w)
  /\ handler' = Return(w)
  /\ UNCHANGED <<now, rows, edit, reconciler, lock, history>>

EnqueueRun(w) ==
  /\ At(w, "enqueue")
  /\ handler' = [handler EXCEPT ![w] = [handler[w] EXCEPT !.step = "rearm", !.run = 0]]
  /\ UNCHANGED <<now, rows, edit, reconciler, lock, history>>

EnqueueRunFails(w) ==
  /\ At(w, "enqueue")
  /\ Fault("enqueue")
  /\ handler' = [handler EXCEPT ![w] = [handler[w] EXCEPT !.step = "restore"]]
  /\ UNCHANGED <<now, rows, edit, reconciler, lock, edited, overtaken, claimed, edits>>

\* Has nobody moved the row since the claim?
Restores(w) ==
  /\ Its(w).stage = "live" /\ Its(w).at = handler[w].next
  /\ handler[w].next = Never => ~Its(w).active

Restored(w) == [Its(w) EXCEPT !.at = handler[w].at, !.active = TRUE]

\* Mutant of RestoredRow: the row is left at its next occurrence.
RestoredRowLater(w) == row
RestoredRow(w) ==
  IF Restores(w) THEN [row EXCEPT ![handler[w].routine] = Restored(w)] ELSE row

\* The run goes if it is still queued, which it is not if the reconciler has
\* found it and a handler claimed it.  The row goes back in either case.
RestoreClaim(w) ==
  /\ At(w, "restore")
  /\ \E queued \in BOOLEAN :
       /\ runs' = IF queued THEN runs \ {RunOf(w, handler[w].run)} ELSE runs
       /\ overtaken' = IF queued THEN overtaken ELSE overtaken \cup {handler[w].routine}
  /\ row' = RestoredRow(w)
  /\ ReturnFailing(w)
  /\ UNCHANGED <<now, made, edit, reconciler, lock, edited, claimed, edits, faults>>

\* A one-shot's key is cancelled, of others the next job is published.
RearmWake(w) ==
  /\ At(w, "rearm")
  /\ ReturnPublishing(w, handler[w].next)
  /\ UNCHANGED <<now, row, runs, made, edit, reconciler, lock, history>>

RearmFails(w) ==
  /\ At(w, "rearm")
  /\ Fault("enqueue")
  /\ IF handler[w].next = Never THEN wake' = wake /\ handler' = Return(w)
     ELSE ReturnFailing(w)
  /\ UNCHANGED <<now, row, runs, made, edit, reconciler, lock, edited,
                 overtaken, claimed, edits>>

Crash(w) ==
  /\ ~At(w, "idle")
  /\ Fault("crash")
  /\ ReturnFailing(w)
  /\ UNCHANGED <<now, row, runs, made, edit, reconciler, lock, edited,
                 overtaken, claimed, edits>>

-----------------------------------------------------------------------------
(* Requests: routines.create, update and remove, and the tools             *)
(* schedule_create and schedule_cancel.                                    *)

EditSteps == {"idle", "write", "publish", "undo"}
Edit == [step : EditSteps, routine : Routines, tool : BOOLEAN, seen : Row,
         active : {"keep", "on", "off"}, cron : Crons \cup {Once, Never},
         at : Time, cancels : BOOLEAN]
NoEdit == [step |-> "idle", routine |-> Some, tool |-> FALSE, seen |-> NewRow,
           active |-> "keep", cron |-> Never, at |-> Never, cancels |-> FALSE]

Begins(r) == edit.step = "idle" /\ edits > 0 /\ edits' = edits - 1
Touched(r) == edited' = edited \cup {r}

\* The row is there before its job.  Only the tool makes one-shots.
CreateRoutine(r) ==
  /\ Begins(r) /\ row[r].stage = "new"
  /\ \E tool \in BOOLEAN, cron \in Crons \cup {Once}, t \in now + 1 .. now + 2 :
       /\ cron = Once => tool
       /\ cron # Once => t = NextDate(cron, now)
       /\ row' = [row EXCEPT ![r] =
            [stage |-> "live", active |-> TRUE, cron |-> cron, at |-> t]]
       /\ edit' = [NoEdit EXCEPT !.step = "publish", !.routine = r, !.tool = tool, !.at = t]
  /\ UNCHANGED <<now, wake, runs, made, handler, reconciler, lock, edited,
                 overtaken, claimed, faults>>

\* What an update makes of the row it read: active and cron are kept unless
\* they are given, and the next date is computed anew only if the schedule
\* changed.
Active(seen, active) == IF active = "keep" THEN seen.active ELSE active = "on"
Cron(seen, cron) == IF cron = Never THEN seen.cron ELSE cron

MayUpdate(seen, active, cron) ==
  Active(seen, active) /\ Cron(seen, cron) = Once =>
    seen.cron = Once /\ seen.at # Never

ScheduleChanged(seen, active, cron) ==
  \/ ~seen.active /\ Active(seen, active)
  \/ Cron(seen, cron) # seen.cron

UpdatedAt(seen, active, cron) ==
  IF ~Active(seen, active) THEN Never
  ELSE IF Cron(seen, cron) # Once /\ (ScheduleChanged(seen, active, cron) \/ seen.at = Never)
       THEN NextDate(Cron(seen, cron), now)
       ELSE seen.at

ReadForUpdate(r) ==
  /\ Begins(r) /\ row[r].stage = "live"
  /\ \E active \in {"keep", "on", "off"}, cron \in Crons \cup {Once, Never} :
       /\ MayUpdate(row[r], active, cron)
       /\ edit' = [NoEdit EXCEPT !.step = "write", !.routine = r, !.seen = row[r],
            !.active = active, !.cron = cron, !.at = UpdatedAt(row[r], active, cron)]
  /\ UNCHANGED <<now, rows, handler, reconciler, lock, edited, overtaken, claimed, faults>>

\* The row as the update leaves it, whatever happened since the read.
Updated(e) == [row[e.routine] EXCEPT !.active = Active(row[e.routine], e.active),
                                     !.cron = Cron(row[e.routine], e.cron), !.at = e.at]

\* Does the queue have to follow?
NeedsSync(e) ==
  \/ e.seen.active # Updated(e).active
  \/ ScheduleChanged(e.seen, e.active, e.cron)
  \/ e.seen.at = Never /\ e.at # Never

UpdateRow ==
  /\ edit.step = "write" /\ row[edit.routine].stage = "live"
  /\ row' = [row EXCEPT ![edit.routine] = Updated(edit)]
  /\ edit' = IF NeedsSync(edit)
             THEN [edit EXCEPT !.step = "publish", !.cancels = ~Updated(edit).active]
             ELSE NoEdit
  /\ Touched(edit.routine)
  /\ UNCHANGED <<now, wake, runs, made, handler, reconciler, lock, overtaken, claimed,
                 edits, faults>>

RemoveRoutine(r) ==
  /\ Begins(r) /\ row[r].stage = "live"
  /\ row' = [row EXCEPT ![r] = GoneRow]
  /\ edit' = [NoEdit EXCEPT !.step = "publish", !.routine = r, !.cancels = TRUE]
  /\ Touched(r)
  /\ UNCHANGED <<now, wake, runs, made, handler, reconciler, lock, overtaken, claimed, faults>>

\* The job of an active routine with a date is published, another cancelled.
PublishEdit ==
  /\ edit.step = "publish"
  /\ IF edit.cancels \/ edit.at = Never THEN Cancel(edit.routine)
     ELSE Publish(edit.routine, edit.at)
  /\ edit' = NoEdit
  /\ UNCHANGED <<now, row, runs, made, reconciler, lock, history>>

\* Or the request ends there, with an error; schedule_create takes the row back.
PublishEditFails ==
  /\ edit.step = "publish"
  /\ edit' = IF edit.tool THEN [edit EXCEPT !.step = "undo"] ELSE NoEdit
  /\ UNCHANGED <<now, rows, handler, reconciler, lock, history>>

UndoCreate ==
  /\ edit.step = "undo"
  /\ row' = [row EXCEPT ![edit.routine] = GoneRow]
  /\ edit' = NoEdit
  /\ Touched(edit.routine)
  /\ UNCHANGED <<now, wake, runs, made, handler, reconciler, lock, overtaken, claimed,
                 edits, faults>>

-----------------------------------------------------------------------------
(* The reconciler.                                                         *)

Start == [at |-> Never, id |-> 0]
Reconciler == [leads : BOOLEAN, todo : SUBSET (Routines \X Nat),
               cursor : [at : Time, id : Nat], last : [at : Time, id : Nat]]
Follower == [leads |-> FALSE, todo |-> {}, cursor |-> Start, last |-> Start]

Precedes(a, b) == a.at < b.at \/ (a.at = b.at /\ a.id < b.id)
Place(r) == [at |-> row[r].at, id |-> r]

\* The rows that are due soon and lie past the cursor.
Due(p) == {r \in Routines :
  /\ row[r].active /\ row[r].at # Never /\ row[r].at <= now + Lookahead
  /\ reconciler[p].cursor = Start \/ Precedes(reconciler[p].cursor, Place(r))}

Page(p) == {r \in Due(p) :
  Cardinality({q \in Due(p) : Precedes(Place(q), Place(r))}) < BatchSize}

\* A full page is continued by the next scan, any other is followed by the
\* first one.
\* Mutant of NextCursors: the cursor is kept when there is nothing left.
NextCursorsKept(p) ==
  IF Page(p) = {} THEN {reconciler[p].cursor}
  ELSE {c \in {Place(r) : r \in Page(p)} : \A r \in Page(p) : ~Precedes(c, Place(r))}

NextCursors(p) ==
  IF Cardinality(Page(p)) < BatchSize THEN {Start}
  ELSE {c \in {Place(r) : r \in Page(p)} : \A r \in Page(p) : ~Precedes(c, Place(r))}

\* The cursor is moved when all jobs of the page are published.
Progress(p, leads, todo, last) ==
  reconciler' = [reconciler EXCEPT ![p] =
    IF todo = {} THEN [leads |-> leads, todo |-> {}, cursor |-> last, last |-> Start]
    ELSE [leads |-> leads, todo |-> todo, cursor |-> reconciler[p].cursor,
          last |-> last]]

Scan(p) ==
  /\ reconciler[p].todo = {}
  /\ reconciler[p].leads \/ lock = {}
  /\ lock' = IF reconciler[p].leads THEN lock ELSE {p}
  /\ \E last \in NextCursors(p) :
       Progress(p, TRUE, {<<r, row[r].at>> : r \in Page(p)}, last)
  /\ UNCHANGED <<now, rows, handler, edit, history>>

\* In no particular order.
PublishWake(p) ==
  /\ \E job \in reconciler[p].todo :
       /\ Publish(job[1], job[2])
       /\ Progress(p, reconciler[p].leads, reconciler[p].todo \ {job}, reconciler[p].last)
  /\ UNCHANGED <<now, row, runs, made, edit, lock, history>>

\* A job cannot be published: the cursor stays.
ScanFails(p) ==
  /\ reconciler[p].todo # {}
  /\ Fault("scan")
  /\ reconciler' = [reconciler EXCEPT ![p] =
       [reconciler[p] EXCEPT !.todo = {}, !.last = Start]]
  /\ UNCHANGED <<now, rows, handler, edit, lock, edited, overtaken, claimed, edits>>

\* The session ends: the server frees the lock at once, the process learns of
\* it later and goes on meanwhile.
LoseSession(p) ==
  /\ p \in lock
  /\ Fault("session")
  /\ lock' = {}
  /\ UNCHANGED <<now, rows, handler, edit, reconciler, edited, overtaken, claimed, edits>>

NoticeLoss(p) ==
  /\ reconciler[p].leads /\ p \notin lock
  /\ reconciler' = [reconciler EXCEPT ![p] = [reconciler[p] EXCEPT !.leads = FALSE]]
  /\ UNCHANGED <<now, rows, handler, edit, lock, history>>

\* The process stops, after its scan, or dies; another one takes its place.
RestartReconciler(p) ==
  /\ reconciler[p] # Follower
  /\ Fault("session")
  /\ reconciler' = [reconciler EXCEPT ![p] = Follower]
  /\ lock' = lock \ {p}
  /\ UNCHANGED <<now, rows, handler, edit, edited, overtaken, claimed, edits>>

-----------------------------------------------------------------------------
\* Some routines are there and due, with their jobs or, after a crash, without.
Init ==
  /\ now = 0
  /\ \E i \in Instances :
       /\ row \in [Routines -> {NewRow, GoneRow} \cup
            {[stage |-> "live", active |-> TRUE, cron |-> c, at |-> 0] :
               c \in Crons \cup {Once}}]
       /\ \A r \in Routines : row[r] = GoneRow <=> r \notin i.routines
       /\ edits = i.edits /\ faults = i.faults
  /\ \E kept \in SUBSET Routines :
       wake = [r \in Routines |-> IF r \in kept THEN row[r].at ELSE Never]
  /\ runs = {} /\ made = [r \in Routines |-> 0] /\ claimed = [r \in Routines |-> Never]
  /\ handler = [w \in Workers |-> Idle] /\ edit = NoEdit
  /\ reconciler = [p \in Reconcilers |-> Follower] /\ lock = {}
  /\ edited = {} /\ overtaken = {}

HandlerStep(w) ==
  \/ \E r \in Routines : TakeWake(w, r)
  \/ ReadRoutine(w) \/ SkipWake(w) \/ DeferWake(w) \/ ClaimWake(w) \/ LoseClaim(w)
  \/ EnqueueRun(w) \/ RestoreClaim(w) \/ RearmWake(w)

EditStep ==
  \/ \E r \in Routines : CreateRoutine(r) \/ ReadForUpdate(r) \/ RemoveRoutine(r)
  \/ UpdateRow \/ PublishEdit \/ UndoCreate

ReconcilerStep(p) == Scan(p) \/ PublishWake(p) \/ NoticeLoss(p)

Fails ==
  \/ \E w \in Workers : EnqueueRunFails(w) \/ RearmFails(w) \/ Crash(w)
  \/ PublishEditFails
  \/ \E p \in Reconcilers : ScanFails(p) \/ LoseSession(p) \/ RestartReconciler(p)

Next ==
  \/ Tick \/ EditStep \/ Fails
  \/ \E w \in Workers : HandlerStep(w)
  \/ \E p \in Reconcilers : ReconcilerStep(p)

Spec == Init /\ [][Next]_vars

\* The worker host executes jobs and the reconciler's timer fires.
FairSpec ==
  /\ Spec
  /\ \A w \in Workers : WF_vars(HandlerStep(w))
  /\ \A p \in Reconcilers : WF_vars(ReconcilerStep(p))

-----------------------------------------------------------------------------
(* Correctness.                                                            *)

\* The types of the state.
TypeOK ==
  /\ now \in Nat /\ row \in [Routines -> Row] /\ wake \in [Routines -> Time]
  /\ runs \in SUBSET Run /\ made \in [Routines -> Nat]
  /\ handler \in [Workers -> Handler] /\ edit \in Edit
  /\ reconciler \in [Reconcilers -> Reconciler] /\ lock \in SUBSET Reconcilers
  /\ edited \in SUBSET Routines /\ overtaken \in SUBSET Routines
  /\ claimed \in [Routines -> Time]
  /\ edits \in Nat /\ faults \in Nat

\* However jobs are duplicated, redelivered, restored and published by two
\* reconcilers, an occurrence of a routine creates one run, unless a request
\* wrote the row back or the run was executed before its claim was undone.
FiredOnce ==
  \A x, y \in runs :
    /\ x.routine = y.routine /\ x.at = y.at
    /\ x.routine \notin edited \cup overtaken
    => x = y

\* A routine that nobody edits loses no occurrence to a failure: the last
\* one that was claimed has its run, or the row is back at it or before it.
LastIsKept ==
  \A r \in Routines \ edited :
    \/ claimed[r] = Never
    \/ \E x \in runs : x.routine = r /\ x.at = claimed[r]
    \/ row[r].active /\ row[r].at <= claimed[r]

\* A routine that is due fires, whatever was lost.
Overdue(r) == row[r].active /\ row[r].at # Never /\ row[r].at <= now
DueFires == \A r \in Routines : []<>~Overdue(r)

\* 'One-shot schedules cannot be reactivated after they fire.'
OneShotStaysFired ==
  [][\A r \in Routines :
       /\ row[r].stage = "live" /\ ~row[r].active /\ claimed[r] # Never
       /\ row[r].cron = Once /\ row'[r].cron = Once
       => ~row'[r].active]_vars
=============================================================================
