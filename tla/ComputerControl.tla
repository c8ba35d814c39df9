-------------------------- MODULE ComputerControl ---------------------------
(***************************************************************************)
(* Who has the screen: the control lease by which a user takes over a      *)
(* bot's screen on a running computer, its transfer, renewal, release and  *)
(* expiry, and the runs that wait for it.  The machine and the fences of   *)
(* the execution leases are ComputerLease's.                               *)
(***************************************************************************)
EXTENDS Integers, FiniteSets

CONSTANTS
  Bots,       \* the bots of the computer
  Runs,
  BotOf,
  Team,       \* computers.scope = "team"?
  Processes,  \* requests and workers executing at a time
  Faults,
  Instances   \* bounds: the runs, requests and faults of a behaviour

None == "none"
\* What a bot's lease names while its computer is booted or replaced.
Manual == "manual"
\* halt: a stop or clear of a thread; stop, replace: of the computer.
RequestKinds ==
  {"takeover", "release", "teach", "unteach", "halt", "stop", "replace", "call"}
FaultKinds == {"crash", "provider", "enqueue", "repeat"}

ASSUME ControlAssumption ==
  /\ BotOf \in [Runs -> Bots] /\ Team \in BOOLEAN /\ Faults \subseteq FaultKinds
  /\ {None, Manual} \cap Runs = {} /\ None \notin Bots
  /\ Instances \subseteq [runs : SUBSET Runs, requests : [RequestKinds -> Nat],
                          faults : Nat]

VARIABLES
  control,     \* the control columns of the computer's row
  issued,      \* the last control lease, which are 1, 2, ...
  row,         \* each bot's row of computer_execution_leases
  status,      \* each run's status; "asking": its handler executes a takeover
               \* event, "held": and holds the bot's lease for the user
  session,     \* each process: the handler it executes and its local variables
  jobs,        \* leases with a queued computer.control-expire job
  taught,      \* each bot: the lease its teaching session recorded
  requests,    \* requests to come, of each kind
  transferred, \* history: waiting runs whose control went to something else
  orphaned,    \* history: runs whose lease for the user was taken or deleted
  faults       \* faults to come

rights  == <<control, issued>>
work    == <<row, status>>
history == <<transferred, orphaned>>
vars == <<rights, work, session, jobs, taught, requests, history, faults>>

\* lease 0: none; live: not expired yet.
Control == [holder : {"none", "user", "bot"}, lease : Nat, bot : Bots \cup {None},
            run : Runs \cup {None}, live : BOOLEAN]
Cleared(holder) ==
  [holder |-> holder, lease |-> 0, bot |-> None, run |-> None, live |-> FALSE]

\* hasActiveComputerControl.
Active(c) == c.holder = "user" /\ c.lease # 0 /\ c.live

\* id: a row that is deleted and created again is another row.
Row == [id : Nat, run : Runs \cup {None, Manual}, live : BOOLEAN]
NoRow == [id |-> 0, run |-> None, live |-> FALSE]
Statuses == {"new", "queued", "running", "asking", "held", "waiting", "ended"}
ActiveStatuses == Statuses \ {"new", "ended"}

Fault(kind) == kind \in Faults /\ faults > 0 /\ faults' = faults - 1

Waits(r) == r \in Runs /\ status[r] = "waiting"

\* The run that waits for the control's release.
Named == {r \in Runs : control.lease # 0 /\ control.run = r /\ control.bot = BotOf[r]}
\* The control is overwritten; a run that waits for its release is not resumed.
Give(c) == /\ control' = c
           /\ transferred' = transferred \cup {r \in Named : Waits(r) /\ c.run # r}

\* The runs for which the lease of b is held for the user.
HeldFor(b) == {r \in Runs : row[b].run = r /\ status[r] \in {"held", "waiting"}}
Orphans(b) == orphaned' = orphaned \cup HeldFor(b)

\* The lease of b is taken, whoever has it on a personal computer.
Free(b) == ~Team \/ ~row[b].live
Take(b, holder) ==
  row' = [row EXCEPT ![b] = [id |-> IF @.run = None THEN @.id + 1 ELSE @.id,
                             run |-> holder, live |-> TRUE]]
Drop(b) == row' = [row EXCEPT ![b].run = None, ![b].live = FALSE]

-----------------------------------------------------------------------------
(* Runs and their execution leases, as far as takeovers depend on them.    *)

Create(r) ==
  /\ status[r] = "new"
  /\ status' = [status EXCEPT ![r] = "queued"]
  /\ UNCHANGED <<rights, row, session, jobs, taught, requests, history, faults>>

\* acquireComputerExecutionLease; while the bot's row is another's the run
\* stays queued.
Begin(r) ==
  LET b == BotOf[r] IN
  /\ status[r] = "queued"
  /\ Free(b) \/ row[b].run = r
  /\ Take(b, r)
  /\ status' = [status EXCEPT ![r] = "running"]
  /\ orphaned' = (orphaned \cup HeldFor(b)) \ {r}
  /\ UNCHANGED <<rights, session, jobs, taught, requests, transferred, faults>>

\* A boot, or the replacement of the computer, under a lease of its own.  The
\* replacement is refused while a run is active or a user has control; one
\* that has expired ends as for any caller of the expiry.
Replace(b) ==
  /\ requests["replace"] > 0 /\ requests' = [requests EXCEPT !["replace"] = @ - 1]
  /\ Free(b) /\ Take(b, Manual) /\ Orphans(b)
  /\ UNCHANGED <<rights, status, session, jobs, taught, transferred, faults>>

\* releaseComputerExecutionLease.
End(r) ==
  /\ status[r] = "running"
  /\ status' = [status EXCEPT ![r] = "ended"]
  /\ row' = IF row[BotOf[r]].run = r THEN [row EXCEPT ![BotOf[r]].live = FALSE] ELSE row
  /\ UNCHANGED <<rights, session, jobs, taught, requests, history, faults>>

\* The takeover event: the computer's control is cleared, whoever has it;
\* then the execution lease is held for the user, then the run paused.
Ask(r) ==
  /\ status[r] = "running"
  /\ status' = [status EXCEPT ![r] = "asking"]
  /\ Give(Cleared("none"))
  /\ UNCHANGED <<issued, row, session, jobs, taught, requests, orphaned, faults>>

Holds(r) == row[BotOf[r]].run = r
Hold(r) ==
  /\ status[r] = "asking"
  /\ \/ /\ Holds(r) /\ row' = [row EXCEPT ![BotOf[r]].live = TRUE]
        /\ status' = [status EXCEPT ![r] = "held"]
     \/ ~Holds(r) /\ UNCHANGED row /\ status' = [status EXCEPT ![r] = "ended"]
  /\ UNCHANGED <<rights, session, jobs, taught, requests, history, faults>>

Pause(r) ==
  /\ status[r] = "held"
  /\ status' = [status EXCEPT ![r] = "waiting"]
  /\ UNCHANGED <<rights, row, session, jobs, taught, requests, history, faults>>

\* A second run.continue job of the run claims it while it waits.
Repeat(r) ==
  /\ Waits(r) /\ Fault("repeat")
  /\ status' = [status EXCEPT ![r] = "queued"]
  /\ UNCHANGED <<rights, row, session, jobs, taught, requests, history>>

\* A lease nobody renews expires; while a run waits, after 24 hours.
Executes(r) == r \in Runs /\ status[r] \in {"running", "asking", "held"}
RowLapses(b) ==
  /\ row[b].live /\ ~Executes(row[b].run)
  /\ row' = [row EXCEPT ![b].live = FALSE]
  /\ UNCHANGED <<rights, status, session, jobs, taught, requests, history, faults>>

ControlLapses ==
  /\ control.live
  /\ control' = [control EXCEPT !.live = FALSE]
  /\ UNCHANGED <<issued, work, session, jobs, taught, requests, history, faults>>

\* computer.stop, after which the computer is booted again; when the
\* provider fails, the control stays.
StopComputer(b) ==
  /\ requests["stop"] > 0 /\ requests' = [requests EXCEPT !["stop"] = @ - 1]
  /\ \A c \in Bots \ {b} : ~row[c].live
  /\ \A r \in Runs : BotOf[r] # b => status[r] \notin ActiveStatuses
  /\ Drop(b) /\ Orphans(b)
  /\ \/ Give(Cleared("none")) /\ jobs' = jobs \ {control.lease} /\ UNCHANGED faults
     \/ Fault("provider") /\ UNCHANGED <<control, transferred, jobs>>
  /\ UNCHANGED <<issued, status, session, taught>>

-----------------------------------------------------------------------------
(* Handlers.                                                               *)

\* kind "job": a job's handler, "call": another caller of the expiry.
Kinds == {"takeover", "release", "teach", "unteach", "halt", "job", "call"}
Steps == {"off", "unlease", "read", "transfer", "reload", "look", "delete", "grant", "extend",
          "overwrite", "schedule", "expire", "deny", "finalize", "cancel"}
\* seen: the control it read; lease: the one it handles; run: what it grants
\* the control for; row: the execution lease it deletes.
Session == [kind : Kinds, step : Steps, bot : Bots \cup {None}, seen : Control,
            lease : Nat, run : Runs \cup {None}, row : Row]
Off == [kind |-> "call", step |-> "off", bot |-> None, seen |-> Cleared("none"),
        lease |-> 0, run |-> None, row |-> NoRow]

At(p, step) == session[p].step = step
Kind(p) == session[p].kind
Bot(p) == session[p].bot
Lease(p) == session[p].lease
Go(p, step) == session' = [session EXCEPT ![p].step = step]
Return(p) == session' = [session EXCEPT ![p] = Off]

\* A request for b, which names its bot.
Receive(p, kind, b, step) ==
  /\ At(p, "off") /\ requests[kind] > 0
  /\ requests' = [requests EXCEPT ![kind] = @ - 1]
  /\ session' = [session EXCEPT ![p] = [Off EXCEPT !.kind = kind, !.step = step,
                                                   !.bot = b]]
Asks == {"takeover", "release", "unteach"}
Request(p, kind, b) ==
  /\ Receive(p, kind, b, "read")
  /\ UNCHANGED <<rights, work, jobs, taught, history, faults>>

\* An exception: the queue keeps a job that fails.
Requeued(p) == IF Kind(p) = "job" THEN jobs \cup {Lease(p)} ELSE jobs
Throw(p) == Return(p) /\ jobs' = Requeued(p)

-----------------------------------------------------------------------------
(* Stops: the active runs of one thread end, in teaching all of the bot's; *)
(* then the bot's leases are deleted, whichever of its runs they name.     *)

ActiveOf(b) == {r \in Runs : BotOf[r] = b /\ status[r] \in ActiveStatuses}
Ends(rs) == status' = [r \in Runs |-> IF r \in rs THEN "ended" ELSE status[r]]

\* stopThreadRuns (a group's stop is one for each of its bots), and
\* cancelActiveRuns of a teaching session that starts.
Halt(p, kind, b) ==
  /\ Receive(p, kind, b, "unlease")
  /\ \E rs \in IF kind = "teach" THEN {ActiveOf(b)} ELSE SUBSET ActiveOf(b) : Ends(rs)
  /\ UNCHANGED <<rights, row, jobs, taught, history, faults>>

Unlease(p) ==
  /\ At(p, "unlease")
  /\ Drop(Bot(p)) /\ Orphans(Bot(p))
  /\ IF Kind(p) = "teach" THEN Go(p, "read") ELSE Return(p)
  /\ UNCHANGED <<rights, status, jobs, taught, requests, transferred, faults>>

\* clearThread does both in one transaction.
Clear(b) ==
  /\ requests["halt"] > 0 /\ requests' = [requests EXCEPT !["halt"] = @ - 1]
  /\ \E rs \in SUBSET ActiveOf(b) : Ends(rs)
  /\ Drop(b) /\ Orphans(b)
  /\ UNCHANGED <<rights, session, jobs, taught, transferred, faults>>

-----------------------------------------------------------------------------
(* expireComputerControl, and finalizeComputerControlRelease.              *)

\* The job, and those who find the control expired: provisioning, the idle
\* job, the status and the input of the screen.
TakeJob(p, l) ==
  /\ At(p, "off") /\ l \in jobs
  /\ jobs' = jobs \ {l}
  /\ session' = [session EXCEPT ![p] = [Off EXCEPT !.kind = "job", !.step = "expire",
                                                   !.lease = l]]
  /\ UNCHANGED <<rights, work, taught, requests, history, faults>>
FindExpired(p) ==
  /\ At(p, "off") /\ control.lease # 0 /\ ~Active(control)
  /\ requests["call"] > 0 /\ requests' = [requests EXCEPT !["call"] = @ - 1]
  /\ session' = [session EXCEPT ![p] = [Off EXCEPT !.step = "expire",
                                                   !.lease = control.lease]]
  /\ UNCHANGED <<rights, work, jobs, taught, history, faults>>

\* What follows the expiry: a takeover goes on.
Expired(p) ==
  session' = [session EXCEPT ![p] =
    IF Kind(p) = "takeover" THEN [Off EXCEPT !.kind = "takeover", !.step = "look",
                                             !.bot = Bot(p)] ELSE Off]

ReadExpiry(p) ==
  /\ At(p, "expire")
  /\ \/ /\ control.lease # Lease(p)
        /\ Expired(p) /\ UNCHANGED jobs
     \/ /\ control.lease = Lease(p) /\ control.live
        /\ jobs' = jobs \cup {Lease(p)} /\ Expired(p)
     \/ /\ control.lease = Lease(p) /\ ~control.live
        /\ session' = [session EXCEPT ![p].step = "deny", ![p].seen = control]
        /\ UNCHANGED jobs
  /\ UNCHANGED <<rights, work, taught, requests, history, faults>>

\* The lease's id stays, so that a failed revocation can be tried again.
\* Mutant of Denied: it goes with the user's access.
DeniedForGood == Cleared("none")
Denied == [control EXCEPT !.holder = "none"]

Deny(p) ==
  /\ At(p, "deny")
  /\ IF control.lease = Lease(p)
     THEN control' = Denied /\ Go(p, "finalize")
     ELSE Expired(p) /\ UNCHANGED control
  /\ UNCHANGED <<issued, work, jobs, taught, requests, history, faults>>

\* The update of the transaction: bot, lease and run are those it read.
\* Mutant of Matches: the lease is not compared.
MatchesHolder(p) == control.bot = session[p].seen.bot /\ control.lease # 0
Matches(p) == /\ control.bot = session[p].seen.bot /\ control.run = session[p].seen.run
              /\ control.lease = Lease(p)

\* The run that waits for the release is queued, if it is this bot's.
Resumed(p) ==
  [r \in Runs |-> IF /\ r = session[p].seen.run /\ BotOf[r] = session[p].seen.bot
                     /\ status[r] = "waiting"
                  THEN "queued" ELSE status[r]]

\* The provider revokes the screen, for a teaching session before the job is
\* cancelled, then the transaction commits.
Finalize(p) ==
  /\ At(p, "finalize")
  /\ \/ Kind(p) # "unteach" /\ Throw(p) /\ Fault("provider") /\ UNCHANGED <<control, status>>
     \/ /\ IF Matches(p)
           THEN /\ control' = Cleared(IF Kind(p) \in {"release", "unteach"}
                                      THEN "bot" ELSE "none")
                /\ status' = Resumed(p)
                /\ IF Kind(p) = "release" THEN Go(p, "cancel") ELSE Expired(p)
           ELSE Expired(p) /\ UNCHANGED <<control, status>>
        /\ UNCHANGED <<jobs, faults>>
  /\ UNCHANGED <<issued, row, taught, requests, history>>

\* The expiry job of the lease is cancelled: after a release, and before the
\* finalize of a teaching session's.
CancelExpiry(p) ==
  /\ At(p, "cancel")
  /\ \/ Kind(p) = "unteach" /\ Throw(p) /\ Fault("provider")
     \/ /\ jobs' = jobs \ {Lease(p)} /\ UNCHANGED faults
        /\ IF Kind(p) = "unteach" THEN Go(p, "finalize") ELSE Return(p)
  /\ UNCHANGED <<rights, work, taught, requests, history>>

\* The reconciler publishes the job of a lease that has expired.
Reconcile ==
  /\ control.lease # 0 /\ ~control.live /\ control.bot # None /\ control.lease \notin jobs
  /\ jobs' = jobs \cup {control.lease}
  /\ UNCHANGED <<rights, work, session, taught, requests, history, faults>>

-----------------------------------------------------------------------------
(* computer.release and the release of a teaching session.                 *)

ReadRelease(p) ==
  /\ At(p, "read")
  /\ \/ Kind(p) = "release" /\ Active(control)
     \/ Kind(p) = "unteach" /\ control.holder = "user" /\ control.lease # 0
        /\ control.lease = taught[Bot(p)]
  /\ control.bot = Bot(p)
  /\ session' = [session EXCEPT ![p].seen = control, ![p].lease = control.lease,
       ![p].step = IF Kind(p) = "release" THEN "finalize" ELSE "cancel"]
  /\ UNCHANGED <<rights, work, jobs, taught, requests, history, faults>>

NothingToRelease(p) ==
  /\ At(p, "read")
  /\ \/ Kind(p) = "release" /\ ~(Active(control) /\ control.bot = Bot(p))
     \/ Kind(p) = "unteach" /\ ~(/\ control.holder = "user" /\ control.bot = Bot(p)
                                 /\ control.lease # 0 /\ control.lease = taught[Bot(p)])
  /\ Return(p)
  /\ UNCHANGED <<rights, work, jobs, taught, requests, history, faults>>

-----------------------------------------------------------------------------
(* computer.takeover.                                                      *)

ReadTakeover(p) ==
  /\ At(p, "read") /\ Kind(p) = "takeover"
  /\ \/ /\ Active(control) /\ control.bot = Bot(p)
        /\ jobs' = jobs \cup {control.lease} /\ Return(p)
     \/ /\ Active(control) /\ control.bot # Bot(p)
        /\ session' = [session EXCEPT ![p].step = "transfer", ![p].lease = control.lease]
        /\ UNCHANGED jobs
     \/ /\ ~Active(control)
        /\ session' = [session EXCEPT ![p].lease = control.lease,
             ![p].step = IF control.lease # 0 THEN "expire" ELSE "look"]
        /\ UNCHANGED jobs
  /\ UNCHANGED <<rights, work, taught, requests, history, faults>>

\* Another bot's control ends, without resuming the run that waits for it.
Transfer(p) ==
  /\ At(p, "transfer")
  /\ \/ Throw(p) /\ Fault("provider") /\ UNCHANGED <<control, transferred>>
     \/ /\ IF control.lease = Lease(p) THEN Give(Cleared("none"))
           ELSE UNCHANGED <<control, transferred>>
        /\ Go(p, "reload") /\ UNCHANGED <<jobs, faults>>
  /\ UNCHANGED <<issued, work, taught, requests, orphaned>>

Reload(p) ==
  /\ At(p, "reload")
  /\ session' = [session EXCEPT ![p].lease = control.lease,
       ![p].step = IF control.lease # 0 THEN "expire" ELSE "look"]
  /\ UNCHANGED <<rights, work, jobs, taught, requests, history, faults>>

\* executionBlocksUserTakeover, of the bot's execution lease and its run.
Stands(b) == row[b].run # None
AtWork(r) == r \in Runs /\ status[r] \in ActiveStatuses
Blocks(b) == /\ Stands(b) /\ ~Waits(row[b].run)
             /\ row[b].live \/ AtWork(row[b].run)
\* Mutant of Deletable: whatever the run waits for.
DeletableIfLapsed(b) == Stands(b) /\ ~row[b].live
Deletable(b) == Stands(b) /\ ~row[b].live /\ ~AtWork(row[b].run)

Look(p) ==
  /\ At(p, "look")
  /\ IF Blocks(Bot(p)) THEN Return(p)
     ELSE session' = [session EXCEPT
            ![p].run = IF Waits(row[Bot(p)].run) THEN row[Bot(p)].run ELSE None,
            ![p].row = IF Deletable(Bot(p)) THEN row[Bot(p)] ELSE NoRow,
            ![p].step = IF Deletable(Bot(p)) THEN "delete" ELSE "grant"]
  /\ UNCHANGED <<rights, work, jobs, taught, requests, history, faults>>

\* By id, whoever has acquired the row since.
DeleteRow(p) ==
  /\ At(p, "delete")
  /\ IF row[Bot(p)].id = session[p].row.id THEN Drop(Bot(p)) ELSE UNCHANGED row
  /\ IF row[Bot(p)].id = session[p].row.id /\ row[Bot(p)].run # session[p].row.run
     THEN Orphans(Bot(p)) ELSE UNCHANGED orphaned
  /\ session' = [session EXCEPT ![p].step = "grant", ![p].row = NoRow]
  /\ UNCHANGED <<rights, status, jobs, taught, requests, transferred, faults>>

Granted(b, run) ==
  [holder |-> "user", lease |-> issued + 1, bot |-> b, run |-> run, live |-> TRUE]

\* Whoever has control by now keeps it; the answer is the lease of the moment.
Grant(p) ==
  /\ At(p, "grant")
  /\ \/ /\ control.holder # "user" /\ control.lease = 0
        /\ control' = Granted(Bot(p), session[p].run) /\ issued' = issued + 1
        /\ session' = [session EXCEPT ![p].step = "schedule", ![p].lease = issued + 1]
        /\ UNCHANGED jobs
     \/ /\ ~(control.holder # "user" /\ control.lease = 0)
        /\ jobs' = IF Active(control) THEN jobs \cup {control.lease} ELSE jobs
        /\ Return(p) /\ UNCHANGED rights
  /\ UNCHANGED <<work, taught, requests, history, faults>>

\* A takeover whose expiry cannot be scheduled is undone; teaching is not.
Schedule(p) ==
  /\ At(p, "schedule")
  /\ \/ /\ jobs' = jobs \cup {Lease(p)}
        /\ taught' = IF Kind(p) = "teach" THEN [taught EXCEPT ![Bot(p)] = Lease(p)]
                     ELSE taught
        /\ UNCHANGED <<control, transferred, faults>>
     \/ /\ Fault("enqueue")
        /\ IF Kind(p) = "takeover" /\ control.lease = Lease(p)
           THEN Give(Cleared("none")) ELSE UNCHANGED <<control, transferred>>
        /\ UNCHANGED <<jobs, taught>>
  /\ Return(p)
  /\ UNCHANGED <<issued, work, requests, orphaned>>

-----------------------------------------------------------------------------
(* grantTakeover of a teaching session.                                    *)

ReadTeach(p) ==
  /\ At(p, "read") /\ Kind(p) = "teach"
  /\ session' = [session EXCEPT ![p].lease = control.lease,
       ![p].step = IF Active(control) /\ control.bot = Bot(p) THEN "extend"
                   ELSE "overwrite"]
  /\ UNCHANGED <<rights, work, jobs, taught, requests, history, faults>>

Extend(p) ==
  /\ At(p, "extend")
  /\ IF control.holder = "user" /\ control.bot = Bot(p) /\ control.lease = Lease(p)
     THEN control' = [control EXCEPT !.live = TRUE] /\ Go(p, "schedule")
     ELSE Go(p, "overwrite") /\ UNCHANGED control
  /\ UNCHANGED <<issued, work, jobs, taught, requests, history, faults>>

\* The run of the lease it replaces stays.
Overwrite(p) ==
  /\ At(p, "overwrite")
  /\ IF control.holder # "user" \/ control.bot = Bot(p)
     THEN /\ control' = Granted(Bot(p), control.run)
          /\ transferred' = transferred \cup
               {r \in Named : Waits(r) /\ BotOf[r] # Bot(p)}
          /\ issued' = issued + 1
          /\ session' = [session EXCEPT ![p].step = "schedule", ![p].lease = issued + 1]
     ELSE Return(p) /\ UNCHANGED <<rights, transferred>>
  /\ UNCHANGED <<work, jobs, taught, requests, orphaned, faults>>

\* The process of a handler dies; a job is delivered again.
Crash(p) ==
  /\ ~At(p, "off") /\ Fault("crash")
  /\ Throw(p)
  /\ UNCHANGED <<rights, work, taught, requests, history>>

-----------------------------------------------------------------------------
Init ==
  \E i \in Instances :
    /\ status = [r \in Runs |-> IF r \in i.runs THEN "new" ELSE "ended"]
    /\ requests = i.requests /\ faults = i.faults
    /\ control = Cleared("bot") /\ issued = 0
    /\ row = [b \in Bots |-> NoRow]
    /\ session = [p \in Processes |-> Off] /\ jobs = {}
    /\ taught = [b \in Bots |-> 0]
    /\ transferred = {} /\ orphaned = {}

HandlerStep(p) ==
  \/ Unlease(p) \/ ReadExpiry(p) \/ Deny(p) \/ Finalize(p) \/ CancelExpiry(p)
  \/ ReadRelease(p) \/ NothingToRelease(p)
  \/ ReadTakeover(p) \/ Transfer(p) \/ Reload(p) \/ Look(p) \/ DeleteRow(p) \/ Grant(p)
  \/ Schedule(p) \/ ReadTeach(p) \/ Extend(p) \/ Overwrite(p)
JobStep == \E p \in Processes, l \in jobs : TakeJob(p, l)

Next ==
  \/ \E r \in Runs : \/ Create(r) \/ Begin(r) \/ End(r)
                     \/ Ask(r) \/ Hold(r) \/ Pause(r) \/ Repeat(r)
  \/ \E b \in Bots : RowLapses(b) \/ Replace(b) \/ StopComputer(b) \/ Clear(b)
  \/ ControlLapses \/ Reconcile \/ JobStep
  \/ \E p \in Processes, b \in Bots : \/ \E kind \in Asks : Request(p, kind, b)
                                     \/ \E kind \in {"halt", "teach"} : Halt(p, kind, b)
  \/ \E p \in Processes : HandlerStep(p) \/ FindExpired(p) \/ Crash(p)

Spec == Init /\ [][Next]_vars

\* Handlers and the queue's workers go on, the reconciler scans and time passes.
Fairness ==
  /\ \A p \in Processes : WF_vars(HandlerStep(p))
  /\ WF_vars(JobStep) /\ WF_vars(Reconcile) /\ WF_vars(ControlLapses)
FairSpec == Spec /\ Fairness

-----------------------------------------------------------------------------
(* Properties.                                                             *)

TypeOK ==
  /\ control \in Control /\ issued \in Nat
  /\ row \in [Bots -> Row] /\ status \in [Runs -> Statuses]
  /\ session \in [Processes -> Session]
  /\ jobs \subseteq Nat /\ taught \in [Bots -> Nat]
  /\ requests \in [RequestKinds -> Nat]
  /\ transferred \subseteq Runs /\ orphaned \subseteq Runs /\ faults \in Nat

\* A run that waits can be taken over once more, and so be resumed, whatever
\* became of the control it was given: its bot's execution lease names it,
\* from the moment the lease was held for the user.  The runs in "orphaned"
\* have lost it: to a stop or clear of another thread of the bot
\* (thread-target.ts:661, events.ts:217), a stop of the computer
\* (router.ts:1249), another run or a boot that took the lease of a personal
\* computer or after its 24 hours (computer-lifecycle.ts:296), or a takeover
\* that deletes, by its id, a lease acquired since it looked (router.ts:1373).
WaitingIsReachable ==
  \A r \in Runs : Waits(r) => Holds(r) \/ r \in orphaned

\* The control that somebody has of a bot ends only by a handler that read
\* that very lease, by a stop of the computer or by a run that asks for a
\* takeover, never by a late release or expiry of an earlier lease
\* (journeys.test.ts: 'a stale Team release cannot clear a newer bot
\* takeover').
ControlIsHeld ==
  [][Active(control) =>
       \/ control'.holder = "user" /\ control'.bot = control.bot
       \/ \E p \in Processes : Lease(p) = control.lease /\ session'[p] # session[p]
       \/ \E r \in Runs : status[r] = "running" /\ status'[r] = "asking"
       \/ requests'["stop"] < requests["stop"]]_vars

\* A run for which control was taken is resumed: the control is released,
\* expires or is renewed and expires later, although jobs are lost and the
\* provider fails, unless it goes to another bot or is taken away
\* (job-reconciler.ts:209, computer-control.ts:128).
NamedRunResumes ==
  \A r \in Runs : r \in Named /\ Waits(r) ~> ~Waits(r) \/ r \in transferred
=============================================================================
