---------------------------- MODULE RunLifecycle ----------------------------
(***************************************************************************)
(* The life of a run: the row of table `runs` that every producer of work  *)
(* creates, and that worker handlers claim, execute, pause and settle.     *)
(*                                                                         *)
(* The actors are the handlers of the background workers (each executes    *)
(* continueRun for one job at a time), the reconciler that re-enqueues     *)
(* work, the API handlers that send, answer, release, stop, clear, archive *)
(* and replace, and the environment that crashes workers and lets leases   *)
(* lapse.  They share nothing but the database and the job queue, so one   *)
(* action is one transaction or one guarded UPDATE; whatever a handler     *)
(* read in an earlier statement it carries in its session record.          *)
(***************************************************************************)
EXTENDS Naturals, Sequences, FiniteSets

CONSTANTS
  Runs,          \* the runs of one bot's thread
  Handlers,      \* job slots of the workers; a slot executes one job at a time
  Workers,       \* values of leaseOwner: one per worker process
  WorkerOf,      \* the process each slot belongs to
  None,          \* null
  Faults,        \* the failures that may happen in this instance
  MaxFaults,     \* bound on the number of failures
  MaxPauses,     \* bound on the number of pauses for the user
  Cancels,       \* the cancelling requests that may happen in this instance
  PromptClaims   \* a lease never lapses between a handler's read and its claim

FaultKinds  == {"crash", "lapse", "abort", "busy", "setup", "lost"}
CancelKinds == {"stop", "clear", "supersede", "archive", "replace"}

ASSUME ConstantsAssumption ==
  /\ WorkerOf \in [Handlers -> Workers]
  /\ None \notin Runs /\ None \notin Workers /\ None \notin Handlers
  /\ None \notin {"takeover", "takeover-skipped"}
  /\ Faults \subseteq FaultKinds
  /\ Cancels \subseteq CancelKinds
  /\ MaxFaults \in Nat /\ MaxPauses \in Nat
  /\ PromptClaims \in BOOLEAN

VARIABLES
  run,       \* table runs: status, lease and checkpoint of every run
  attempts,  \* table attempts, in creation order
  pending,   \* how many unanswered ask cards of the run the thread shows
  output,    \* whether the thread's history holds output of the run
  jobs,      \* runs with a run.continue job; a job key holds one job
  locked,    \* runs whose job a dead worker still has locked
  posting,   \* runs some process has decided to enqueue, and not yet has
  session,   \* the local state of each handler inside continueRun
  doomed,    \* a cancelling request between its read and its write
  holder,    \* history: the handler whose claim of the run is the latest
  cleared,   \* history: the runs that clearing the thread has cancelled
  faults, pauses   \* failures and pauses so far

dbVars   == <<run, attempts, pending, output>>
jobVars  == <<jobs, locked, posting>>
pastVars == <<holder, cleared>>
vars     == <<dbVars, jobVars, session, doomed, pastVars, faults, pauses>>

---------------------------------------------------------------------------
(* Statuses, as core/run-state.ts names them.  "none" is a run that no     *)
(* request has created yet.                                                *)

Active    == {"queued", "leased", "running", "waiting_input", "waiting_takeover"}
Terminal  == {"completed", "failed", "cancelled"}
Leased    == {"leased", "running"}
Waiting   == {"waiting_input", "waiting_takeover"}
Statuses  == {"none"} \cup Active \cup Terminal

Checkpoints == {None, "takeover", "takeover-skipped"}

RunRow == [status: Statuses, owner: Workers \cup {None}, fence: Nat,
           expired: BOOLEAN, checkpoint: Checkpoints]

AttemptStatuses == {"running", "waiting_input", "waiting_takeover", "completed",
                    "failed", "cancelled", "setup_failed", "interrupted"}
Attempt == [run: Runs, fence: Nat, status: AttemptStatuses]

\* Where a handler is inside continueRun.  "busy" and "setup" are the middle
\* of the setup catch, "finally" and "rethrow" the finally block, entered by
\* a return and by an exception.
Steps == {"idle", "read", "leased", "started", "acquired", "executing",
          "busy", "setup", "finally", "rethrow"}
Session == [step: Steps, run: Runs \cup {None}, fence: Nat,
            resume: Checkpoints, attempt: Nat]

Idle == [step |-> "idle", run |-> None, fence |-> 0, resume |-> None,
         attempt |-> 0]
NoRequest == [kind |-> "none", runs |-> {}]

SameFence(current) == current   \* mutant of nextFence
nextFence(current) == current + 1

---------------------------------------------------------------------------
(* What the guarded UPDATEs of the code test and set.                      *)

\* Mutant of Holds: any run that is not cancelled may be written.
HoldsUnfenced(h, status) == run[session[h].run].status # "cancelled"

\* The WHERE of every write a handler makes to its run: still in `status`,
\* under the owner and the fence of this session.
Holds(h, status) ==
  LET r == session[h].run IN
  /\ run[r].status = status
  /\ run[r].owner = WorkerOf[h]
  /\ run[r].fence = session[h].fence

\* A send that supersedes holds the thread's row lock from before its read to
\* its commit; transactions that write history wait for it.
ThreadIsUnlocked == TRUE   \* mutant of ThreadIsFree
ThreadIsFree == doomed.kind # "supersede"

At(h, step) == session[h].step = step

ClaimableAlways(r) == TRUE   \* mutant of Claimable
Claimable(r) ==
  \/ run[r].status \in {"queued"} \cup Waiting
  \/ run[r].status \in Leased /\ run[r].expired

\* Status s, and the lease columns null.
Unleased(row, s) ==
  [row EXCEPT !.status = s, !.owner = None, !.expired = FALSE]

GoTo(h, step) == session' = [session EXCEPT ![h].step = step]
Return(h)     == session' = [session EXCEPT ![h] = Idle]
\* An exception before the finally block: the job queue keeps the job.
Throw(h)      == Return(h) /\ jobs' = jobs \cup {session[h].run}

\* Mutant of CloseAttempt: no update.
CloseNothing(h, status) == UNCHANGED attempts
CloseAttempt(h, status) ==
  attempts' = [attempts EXCEPT ![session[h].attempt].status = status]

Fail(kind) == kind \in Faults /\ faults < MaxFaults /\ faults' = faults + 1

---------------------------------------------------------------------------
(* continueRun up to the model's turn.                                     *)

\* The handler takes the job and reads the run; a terminal run ends the job.
ReadRun(h, r) ==
  /\ At(h, "idle") /\ r \in jobs
  /\ jobs' = jobs \ {r}
  /\ IF run[r].status \in Terminal
     THEN UNCHANGED session
     ELSE session' = [session EXCEPT ![h] =
            [step |-> "read", run |-> r, fence |-> nextFence(run[r].fence),
             resume |-> run[r].checkpoint, attempt |-> 0]]
  /\ UNCHANGED <<dbVars, locked, posting, doomed, pastVars, faults, pauses>>

\* The claim: one UPDATE that tests the status and the expiry, not the fence.
ClaimLease(h) ==
  LET r == session[h].run IN
  /\ At(h, "read") /\ Claimable(r)
  /\ run' = [run EXCEPT ![r] =
       [status |-> "leased", owner |-> WorkerOf[h], fence |-> session[h].fence,
        expired |-> FALSE, checkpoint |-> None]]
  /\ holder' = [holder EXCEPT ![r] = h]
  /\ GoTo(h, "leased")
  /\ UNCHANGED <<attempts, pending, output, jobVars, doomed, cleared, faults, pauses>>

LoseClaim(h) ==
  /\ At(h, "read") /\ ~Claimable(session[h].run)
  /\ Return(h)
  /\ UNCHANGED <<dbVars, jobVars, doomed, pastVars, faults, pauses>>

\* leased -> running.  When the claim is gone the guarded UPDATE finds no row
\* and the code returns, or assertTransition has already thrown on reading
\* the run back in the queue or waiting.
StartRun(h) ==
  /\ At(h, "leased")
  /\ \/ /\ Holds(h, "leased")
        /\ run' = [run EXCEPT ![session[h].run].status = "running"]
        /\ GoTo(h, "started")
        /\ UNCHANGED jobs
     \/ /\ ~Holds(h, "leased") /\ Return(h)
        /\ UNCHANGED <<run, jobs>>
     \/ /\ run[session[h].run].status \in {"queued"} \cup Waiting /\ Throw(h)
        /\ UNCHANGED run
  /\ UNCHANGED <<attempts, pending, output, locked, posting, doomed, pastVars,
                 faults, pauses>>

\* The computer's execution lease is granted ...
AcquireComputer(h) ==
  /\ At(h, "started")
  /\ GoTo(h, "acquired")
  /\ UNCHANGED <<dbVars, jobVars, doomed, pastVars, faults, pauses>>

\* ... or the computer is busy or being switched: back to the queue with the
\* checkpoint the claim erased, and a delayed job if the run was still held.
RequeueComputerRun(h) ==
  LET r == session[h].run IN
  /\ At(h, "started") /\ Fail("busy")
  /\ IF Holds(h, "running")
     THEN /\ run' = [run EXCEPT ![r] =
               [Unleased(@, "queued") EXCEPT !.checkpoint = session[h].resume]]
          /\ posting' = posting \cup {r}
     ELSE UNCHANGED <<run, posting>>
  /\ Return(h)
  /\ UNCHANGED <<attempts, pending, output, jobs, locked, doomed, pastVars, pauses>>

\* An error before the attempt exists leaves the run leased until it expires.
ThrowBeforeAttempt(h) ==
  /\ session[h].step \in {"started", "acquired"} /\ Fail("setup")
  /\ Throw(h)
  /\ UNCHANGED <<dbVars, locked, posting, doomed, pastVars, pauses>>

CreateAttempt(h) ==
  /\ At(h, "acquired")
  /\ attempts' = Append(attempts, [run |-> session[h].run,
                                   fence |-> session[h].fence,
                                   status |-> "running"])
  /\ session' = [session EXCEPT ![h].step = "executing",
                                ![h].attempt = Len(attempts) + 1]
  /\ UNCHANGED <<run, pending, output, jobVars, doomed, pastVars, faults, pauses>>

---------------------------------------------------------------------------
(* The model's turn, and the ways out of it.                               *)

\* The heartbeat, and the renewals before every terminal step.
RenewRunLease(h) ==
  /\ At(h, "executing") /\ Holds(h, "running")
  /\ run' = [run EXCEPT ![session[h].run].expired = FALSE]
  /\ UNCHANGED <<attempts, pending, output, jobVars, session, doomed, pastVars,
                 faults, pauses>>

\* Only a cancelled run may not write history.
WritesHistory(r) == TRUE   \* mutant of MayWrite
MayWrite(r) == run[r].status # "cancelled"

\* A message or event of the run.
PublishMessage(h) ==
  LET r == session[h].run IN
  /\ At(h, "executing") /\ MayWrite(r) /\ ThreadIsFree
  /\ output' = [output EXCEPT ![r] = TRUE]
  /\ UNCHANGED <<run, attempts, pending, jobVars, session, doomed, pastVars,
                 faults, pauses>>

\* One transaction under the thread's row lock: the run waits, its attempt
\* closes and its ask card appears.
PauseRunForInput(h) ==
  LET r == session[h].run IN
  /\ At(h, "executing") /\ Holds(h, "running") /\ pauses < MaxPauses
  /\ ThreadIsFree
  /\ attempts[session[h].attempt].status = "running"
  /\ run' = [run EXCEPT ![r] = Unleased(@, "waiting_input")]
  /\ CloseAttempt(h, "waiting_input")
  /\ pending' = [pending EXCEPT ![r] = @ + 1]
  /\ output' = [output EXCEPT ![r] = TRUE]
  /\ pauses' = pauses + 1
  /\ GoTo(h, "finally")
  /\ UNCHANGED <<jobVars, doomed, pastVars, faults>>

PauseRunForTakeover(h) ==
  LET r == session[h].run IN
  /\ At(h, "executing") /\ Holds(h, "running") /\ pauses < MaxPauses
  /\ ThreadIsFree
  /\ attempts[session[h].attempt].status = "running"
  /\ run' = [run EXCEPT ![r] =
       [Unleased(@, "waiting_takeover") EXCEPT !.checkpoint = None]]
  /\ CloseAttempt(h, "waiting_takeover")
  /\ output' = [output EXCEPT ![r] = TRUE]
  /\ pauses' = pauses + 1
  /\ GoTo(h, "finally")
  /\ UNCHANGED <<pending, jobVars, doomed, pastVars, faults>>

\* The terminal commit: run, attempt and final message in one transaction.
FinalizeRun(h, outcome) ==
  LET r == session[h].run IN
  /\ At(h, "executing") /\ Holds(h, "running") /\ ThreadIsFree
  /\ attempts[session[h].attempt].status = "running"
  /\ run' = [run EXCEPT ![r] = Unleased(@, outcome)]
  /\ CloseAttempt(h, outcome)
  /\ output' = [output EXCEPT ![r] = TRUE]
  /\ GoTo(h, "finally")
  /\ UNCHANGED <<pending, jobVars, doomed, pastVars, faults, pauses>>

\* The setup catch puts the run back in the queue ...
SetupFailed(h, kind) ==
  LET r == session[h].run IN
  /\ At(h, "executing") /\ Fail(kind)
  /\ IF Holds(h, "running")
     THEN /\ run' = [run EXCEPT ![r] =
               [Unleased(@, "queued") EXCEPT !.checkpoint = session[h].resume]]
          /\ GoTo(h, kind)
     ELSE GoTo(h, "finally") /\ UNCHANGED run
  /\ UNCHANGED <<attempts, pending, output, jobVars, doomed, pastVars, pauses>>

\* ... and closes the attempt in a second UPDATE, which tests nothing.  After
\* a busy computer it enqueues the run and returns; after any other error it
\* rethrows, so that the job queue retries the job.
RecordSetupFailure(h) ==
  /\ session[h].step \in {"busy", "setup"}
  /\ CloseAttempt(h, "setup_failed")
  /\ IF At(h, "busy")
     THEN GoTo(h, "finally") /\ posting' = posting \cup {session[h].run}
     ELSE GoTo(h, "rethrow") /\ UNCHANGED posting
  /\ UNCHANGED <<run, pending, output, jobs, locked, doomed, pastVars, faults,
                 pauses>>

\* The run is no longer this session's, or the heartbeat failed: the event
\* loop stops without touching the run.
Abandon(h) ==
  /\ At(h, "executing")
  /\ \/ ~Holds(h, "running") /\ UNCHANGED faults
     \/ Holds(h, "running") /\ Fail("abort")
  /\ GoTo(h, "finally")
  /\ UNCHANGED <<dbVars, jobVars, doomed, pastVars, pauses>>

\* The finally block interrupts an attempt that is still running.
Finally(h) ==
  /\ session[h].step \in {"finally", "rethrow"}
  /\ IF attempts[session[h].attempt].status = "running"
     THEN CloseAttempt(h, "interrupted")
     ELSE UNCHANGED attempts
  /\ IF At(h, "rethrow") THEN Throw(h) ELSE Return(h) /\ UNCHANGED jobs
  /\ UNCHANGED <<run, pending, output, locked, posting, doomed, pastVars,
                 faults, pauses>>

---------------------------------------------------------------------------
(* Requests of the user, handled by the API.                               *)

Create(r) == [run EXCEPT ![r].status = "queued"]

\* A new message creates a queued run; its job is enqueued after the commit.
SendUserMessage(r) ==
  /\ run[r].status = "none" /\ ThreadIsFree
  /\ run' = Create(r)
  /\ posting' = posting \cup {r}
  /\ UNCHANGED <<attempts, pending, output, jobs, locked, session, doomed,
                 pastVars, faults, pauses>>

\* Any pending card of a waiting run may be answered.
AnswerRunInput(r) ==
  /\ run[r].status = "waiting_input" /\ pending[r] > 0 /\ ThreadIsFree
  /\ run' = [run EXCEPT ![r].status = "queued"]
  /\ pending' = [pending EXCEPT ![r] = @ - 1]
  /\ posting' = posting \cup {r}
  /\ UNCHANGED <<attempts, output, jobs, locked, session, doomed, pastVars,
                 faults, pauses>>

\* The user hands the computer back, or skips; the run queues again and its
\* checkpoint records which.
ReleaseTakeover(r, reason) ==
  /\ run[r].status = "waiting_takeover" /\ ThreadIsFree
  /\ run' = [run EXCEPT ![r].status = "queued", ![r].checkpoint = reason]
  /\ posting' = posting \cup {r}
  /\ UNCHANGED <<attempts, pending, output, jobs, locked, session, doomed,
                 pastVars, faults, pauses>>

\* Mutant of ActiveRuns: only the runs that work.
WorkingRuns == {r \in Runs : run[r].status \in Active \ Waiting}
ActiveRuns == {r \in Runs : run[r].status \in Active}

\* Stop: one UPDATE of every active run of the thread.
StopThreadRuns ==
  /\ "stop" \in Cancels /\ ActiveRuns # {}
  /\ run' = [r \in Runs |-> IF r \in ActiveRuns
               THEN [run[r] EXCEPT !.status = "cancelled"] ELSE run[r]]
  /\ UNCHANGED <<attempts, pending, output, jobVars, session, doomed, pastVars,
                 faults, pauses>>

\* Clear: under the thread's row lock cancel the active runs and their
\* attempts and delete every message and event, then cancel their jobs.
ClearThread ==
  /\ "clear" \in Cancels /\ ThreadIsFree
  /\ run' = [r \in Runs |-> IF r \in ActiveRuns
               THEN Unleased(run[r], "cancelled") ELSE run[r]]
  /\ attempts' = [i \in DOMAIN attempts |->
       IF attempts[i].run \in ActiveRuns /\ attempts[i].status = "running"
       THEN [attempts[i] EXCEPT !.status = "cancelled"] ELSE attempts[i]]
  /\ pending' = [r \in Runs |-> 0]
  /\ output' = [r \in Runs |-> FALSE]
  /\ cleared' = cleared \cup ActiveRuns
  /\ jobs' = jobs \ ActiveRuns
  /\ UNCHANGED <<locked, posting, session, doomed, holder, faults, pauses>>

\* Three requests read which runs to cancel in one statement and cancel
\* those ids in a later one, whatever their status is by then.  A send reads
\* and writes under the thread's row lock; claims do not wait for that.
ReadDoomed(kind) ==
  /\ kind \in Cancels /\ doomed = NoRequest
  /\ kind = "supersede" => \E new \in Runs : run[new].status = "none"
  /\ LET found == IF kind = "supersede"
                  THEN {r \in Runs : run[r].status = "queued"}
                  ELSE ActiveRuns
     IN  found # {} /\ doomed' = [kind |-> kind, runs |-> found]
  /\ UNCHANGED <<dbVars, jobVars, session, pastVars, faults, pauses>>

CancelDoomed(r) ==
  IF r \notin doomed.runs THEN run[r]
  ELSE IF doomed.kind = "replace" THEN Unleased(run[r], "cancelled")
  ELSE [run[r] EXCEPT !.status = "cancelled"]

\* archiveBot and cancelRunsOnComputer, which then cancel the jobs.
CancelRuns ==
  /\ doomed.kind \in {"archive", "replace"}
  /\ run' = [r \in Runs |-> CancelDoomed(r)]
  /\ jobs' = jobs \ doomed.runs
  /\ doomed' = NoRequest
  /\ UNCHANGED <<attempts, pending, output, locked, posting, session, pastVars,
                 faults, pauses>>

\* A send that replaces the runs still queued before it.
SendSuperseding(new) ==
  /\ doomed.kind = "supersede" /\ run[new].status = "none"
  /\ run' = [r \in Runs |-> IF r = new THEN [run[r] EXCEPT !.status = "queued"]
                            ELSE CancelDoomed(r)]
  /\ posting' = posting \cup {new}
  /\ doomed' = NoRequest
  /\ UNCHANGED <<attempts, pending, output, jobs, locked, session, pastVars,
                 faults, pauses>>

---------------------------------------------------------------------------
(* The reconciler, the job queue and the environment.                      *)

\* The reconciler's query; Post is the enqueue that follows it.
IsQueued(r) == run[r].status = "queued"   \* mutant of NeedsJob
NeedsJob(r) ==
  run[r].status = "queued" \/ (run[r].status \in Leased /\ run[r].expired)

ScanRun(r) ==
  /\ NeedsJob(r)
  /\ posting' = posting \cup {r}
  /\ UNCHANGED <<dbVars, jobs, locked, session, doomed, pastVars, faults, pauses>>

Post(r) ==
  /\ r \in posting
  /\ posting' = posting \ {r}
  /\ jobs' = jobs \cup {r}
  /\ UNCHANGED <<dbVars, locked, session, doomed, pastVars, faults, pauses>>

\* The enqueue fails, or its process dies before it.
PostFails(r) ==
  /\ r \in posting /\ Fail("lost")
  /\ posting' = posting \ {r}
  /\ UNCHANGED <<dbVars, jobs, locked, session, doomed, pastVars, pauses>>

\* The queue gives up on a dead worker's lock and delivers the job again.
Redeliver(r) ==
  /\ r \in locked
  /\ locked' = locked \ {r}
  /\ jobs' = jobs \cup {r}
  /\ UNCHANGED <<dbVars, posting, session, doomed, pastVars, faults, pauses>>

Crash(w) ==
  LET victims == {h \in Handlers : WorkerOf[h] = w /\ ~At(h, "idle")} IN
  /\ victims # {} /\ Fail("crash")
  /\ session' = [h \in Handlers |-> IF h \in victims THEN Idle ELSE session[h]]
  /\ locked' = locked \cup {session[h].run : h \in victims}
  /\ UNCHANGED <<dbVars, jobs, posting, doomed, pastVars, pauses>>

\* Sessions that would still write to the run they hold.
Live(r) == {h \in Handlers : /\ session[h].run = r
                             /\ session[h].step \in {"leased", "started", "acquired", "executing"}
                             /\ run[r].owner = WorkerOf[h]
                             /\ run[r].fence = session[h].fence}

\* Five minutes without a renewal.  For a live session that is a stall of
\* its process or of the database; a lease nobody renews expires by itself.
ExpireLease(r) ==
  /\ run[r].status \in Leased /\ ~run[r].expired
  /\ PromptClaims => \A h \in Handlers : ~(At(h, "read") /\ session[h].run = r)
  /\ IF Live(r) = {} THEN UNCHANGED faults ELSE Fail("lapse")
  /\ run' = [run EXCEPT ![r].expired = TRUE]
  /\ UNCHANGED <<attempts, pending, output, jobVars, session, doomed, pastVars,
                 pauses>>

---------------------------------------------------------------------------

Init ==
  /\ run = [r \in Runs |-> [status |-> "none", owner |-> None, fence |-> 0,
                            expired |-> FALSE, checkpoint |-> None]]
  /\ attempts = <<>>
  /\ pending = [r \in Runs |-> 0]
  /\ output = [r \in Runs |-> FALSE]
  /\ jobs = {} /\ locked = {} /\ posting = {}
  /\ session = [h \in Handlers |-> Idle]
  /\ doomed = NoRequest
  /\ holder = [r \in Runs |-> None]
  /\ cleared = {}
  /\ faults = 0 /\ pauses = 0

\* What a handler does by itself once it has a job.
Proceed(h) ==
  \/ ClaimLease(h) \/ LoseClaim(h) \/ StartRun(h)
  \/ AcquireComputer(h) \/ CreateAttempt(h)
  \/ PauseRunForInput(h) \/ PauseRunForTakeover(h)
  \/ \E outcome \in {"completed", "failed"} : FinalizeRun(h, outcome)
  \/ Abandon(h) \/ RecordSetupFailure(h) \/ Finally(h)

HandlerNext(h) ==
  \/ \E r \in Runs : ReadRun(h, r)
  \/ Proceed(h)
  \/ RequeueComputerRun(h) \/ ThrowBeforeAttempt(h)
  \/ \E kind \in {"busy", "setup"} : SetupFailed(h, kind)
  \/ RenewRunLease(h) \/ PublishMessage(h)

UserNext ==
  \/ \E r \in Runs : \/ SendUserMessage(r)
                     \/ AnswerRunInput(r)
                     \/ \E reason \in {"takeover", "takeover-skipped"} :
                          ReleaseTakeover(r, reason)
                     \/ SendSuperseding(r)
  \/ StopThreadRuns \/ ClearThread \/ CancelRuns
  \/ \E kind \in {"supersede", "archive", "replace"} : ReadDoomed(kind)

SystemNext ==
  \/ \E r \in Runs : \/ ScanRun(r) \/ Post(r) \/ PostFails(r)
                     \/ Redeliver(r) \/ ExpireLease(r)
  \/ \E w \in Workers : Crash(w)

Next == (\E h \in Handlers : HandlerNext(h)) \/ UserNext \/ SystemNext

Spec == Init /\ [][Next]_vars

(* Handlers run to completion (a turn of the model ends), the worker host  *)
(* serves every waiting job with one of its slots, the reconciler scans on *)
(* an interval and its enqueues succeed in the end, transactions commit,   *)
(* and clocks advance.                                                     *)
(* Nothing is assumed of the user.                                         *)
Fairness ==
  /\ \A h \in Handlers : WF_vars(Proceed(h))
  /\ \A r \in Runs : /\ SF_vars(\E h \in Handlers : ReadRun(h, r))
                     /\ WF_vars(ScanRun(r) /\ posting' # posting)
                     /\ WF_vars(Post(r))
                     /\ WF_vars(SendSuperseding(r))
                     /\ SF_vars(ExpireLease(r) /\ Live(r) = {})

FairSpec == Spec /\ Fairness
---------------------------------------------------------------------------
(* Invariants.                                                             *)

TypeOK ==
  /\ run \in [Runs -> RunRow]
  /\ attempts \in Seq(Attempt)
  /\ pending \in [Runs -> Nat]
  /\ output \in [Runs -> BOOLEAN]
  /\ jobs \subseteq Runs /\ locked \subseteq Runs /\ posting \subseteq Runs
  /\ session \in [Handlers -> Session]
  /\ doomed \in [kind: CancelKinds \cup {"none"}, runs: SUBSET Runs]
  /\ holder \in [Runs -> Handlers \cup {None}]
  /\ cleared \subseteq Runs
  /\ faults \in Nat /\ pauses \in Nat

Claimed == {"leased", "started", "acquired", "executing"}

\* The fence works: whenever the database would accept a write of a session,
\* that session made the latest claim of the run.  Workers share leaseOwner
\* (every slot of a process, and processes with equal pids), so only the
\* fence can tell a stalled handler from the one that replaced it.
LeaseIsExclusive ==
  \A h \in Handlers :
    session[h].step \in Claimed /\ (Holds(h, "leased") \/ Holds(h, "running"))
      => holder[session[h].run] = h

\* A run never waits for an answer nobody can give: while it is
\* waiting_input the thread shows an unanswered card of it.
WaitingIsAnswerable ==
  \A r \in Runs : run[r].status = "waiting_input" => pending[r] > 0

\* After the thread is cleared, the runs the clear cancelled never put
\* anything back into its history, however late their handlers notice.
ClearedStaysSilent == \A r \in cleared : ~output[r]

\* However many attempts a run took, at most one of them settled it, and a
\* completed or failed run has exactly that one, with the same outcome.
SettledAttempts(r) ==
  {i \in DOMAIN attempts : /\ attempts[i].run = r
                           /\ attempts[i].status \in {"completed", "failed"}}
OneOutcome ==
  \A r \in Runs :
    /\ Cardinality(SettledAttempts(r)) <= 1
    /\ run[r].status \in {"completed", "failed"} =>
         \E i \in SettledAttempts(r) : attempts[i].status = run[r].status

\* An attempt is only left running by a process that died: every other way
\* out of continueRun closes it.
NoAttemptLeaks ==
  "crash" \notin Faults =>
    \A i \in DOMAIN attempts : attempts[i].status = "running" =>
      \E h \in Handlers : session[h].attempt = i

---------------------------------------------------------------------------
(* Action properties.                                                      *)

\* A request that holds the thread's row lock from its read to its commit
\* cannot cancel a run that ended meanwhile; archive and replace, which read
\* without it, are the only ones that do.
OutcomesStand ==
  [][\A r \in Runs : run[r].status \in {"completed", "cancelled"} =>
       \/ run'[r].status = run[r].status
       \/ doomed.kind \in {"archive", "replace"} /\ doomed' = NoRequest]_vars

---------------------------------------------------------------------------
(* What a run promises to the rest of the system, as RunContract states it *)

Phase(status) ==
  CASE status \in {"queued", "leased", "running"} -> "working"
    [] status \in Waiting                         -> "waiting"
    [] status \in {"completed", "failed"}         -> "settled"
    [] OTHER                                      -> status

Contract == INSTANCE RunContract WITH phase <- [r \in Runs |-> Phase(run[r].status)]

\* The lease protocol implements the contract: however often a run is
\* claimed, lost and retried, its user sees it work, wait and end once, and
\* a run that settled or was cancelled never leaves that state
\* (core/run-state.test.ts: "never leaves a terminal state except failed
\* retry").
ImplementsContract == Contract!Spec

\* No work is stranded: a run that is queued or executing ends, waits for
\* its user or is cancelled, although workers crash, leases lapse and
\* enqueues are lost; the reconciler and lease expiry recover it.
WorkSettles ==
  \A r \in Runs : run[r].status \in {"queued", "leased", "running"} ~>
                    run[r].status \in Waiting \cup Terminal
=============================================================================
