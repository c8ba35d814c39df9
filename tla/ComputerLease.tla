--------------------------- MODULE ComputerLease ----------------------------
(***************************************************************************)
(* One computer: the execution lease of each bot on it, whose fence keys   *)
(* the bot's screen, and the machine behind it, which runs, visiting runs, *)
(* boots, replacements, stops and the idle job switch on and off.          *)
(***************************************************************************)
EXTENDS Integers, FiniteSets

CONSTANTS
  Bots,
  Holders,    \* values of a lease's runId
  KindOf,     \* "work": a run of a bot of this computer; "visit": a run that
              \* opens it as its team surface; the others: a user's request
  BotOf,
  Team,       \* computers.scope = "team"?
  Sessions,   \* handlers that hold a lease
  MaxFence,   \* bound on fences
  Faults,
  Instances   \* bounds: the holders, operations and faults of a behaviour

Kinds == {"work", "visit", "boot", "recover", "restart"}
FaultKinds == {"crash", "stall", "lapse", "provider", "screen"}
Operations == {"stop", "takeover", "cancel"}
None == "none"

ASSUME LeaseAssumption ==
  /\ Bots # {} /\ KindOf \in [Holders -> Kinds] /\ BotOf \in [Holders -> Bots]
  /\ Team \in BOOLEAN /\ MaxFence \in Nat /\ Faults \subseteq FaultKinds
  /\ None \notin Holders \cup Bots
  /\ Sessions \cap {"new", "ready", "resumed", "waiting", "ended",
                  "idle", "op", None} = {}
  /\ Instances \subseteq [holders : SUBSET Holders,
                          operations : SUBSET Operations, faults : Nat]

VARIABLES
  run,        \* each holder: its status, or the session that executes it
  session,    \* each handler: its local variables
  lease,      \* each bot's row of computer_execution_leases
  screen,     \* each bot's assignment in the supervisor
  state,      \* computers.state
  touched,    \* has the computer's row been written since the idle job read it?
  machine,    \* is the machine on?
  idle,       \* the computer.sleep job being executed
  sleepJob,   \* is such a job queued?
  op,         \* the request to stop, take over or cancel that is being handled
  operations, \* the kinds of such requests to come
  claimant,   \* history: who wrote the state "booting" or "suspending"
  disturbed,  \* history: an unguarded write replaced a state it did not
              \* expect, the machine was switched off in such a state, or a
              \* claim was undone that was another's, or whose boot had ended
  undercut,   \* history: that was the expected state, but by another's claim
              \* or on behalf of a replacement that had lost its lease
  reset,      \* history: bots whose row was deleted
  abandoned,  \* history: a process died with the state claimed
  dropped,    \* history: a sleep job ended because the computer was not running
  faults      \* faults to come

computer == <<state, touched, claimant, disturbed, undercut>>
host     == <<machine, screen>>
sleep    == <<idle, sleepJob, dropped>>
request  == <<op, operations>>
vars == <<run, session, lease, computer, host, sleep, request, reset,
          abandoned, faults>>

States == {"stopped", "booting", "running", "suspending", "suspended", "error"}
Asleep == {"stopped", "suspended", "error"}

\* kept: history, the row has been live since it was acquired.
Row == [run : Holders \cup {None}, fence : Nat, live : BOOLEAN, kept : BOOLEAN]
NoRow == [run |-> None, fence |-> 0, live |-> FALSE, kept |-> FALSE]
LiveRow(r, fence) == [run |-> r, fence |-> fence, live |-> TRUE, kept |-> TRUE]

\* screenLeaseId.
ScreenLease == [run : Holders \cup {None}, fence : Nat]
NoScreen == [run |-> None, fence |-> 0]

Fault(kind) == kind \in Faults /\ faults > 0 /\ faults' = faults - 1

\* A claim names the state it replaces; other writes may not, and either meet
\* the state they expect, put there by whom they expect, or do not.
Claim(x, new) ==
  /\ state' = new /\ touched' = TRUE /\ claimant' = x
  /\ UNCHANGED <<disturbed, undercut>>
Meets(expected, own) ==
  disturbed' = (disturbed \/ state # expected) /\ undercut' = (undercut \/ ~own)
Overwrite(new, expected, own) ==
  state' = new /\ touched' = TRUE /\ claimant' = None /\ Meets(expected, own)
\* updateMany where the state is still the one that was claimed, by x.
Settle(x, claimed, new) ==
  IF state = claimed THEN Overwrite(new, claimed, claimant = x)
  ELSE UNCHANGED computer

\* The machine is switched off, whatever the state has become by now.
MachineStops == machine' = FALSE /\ screen' = [b \in Bots |-> NoScreen]
Expecting(expected, own) ==
  UNCHANGED <<state, touched, claimant>> /\ Meets(expected, own)

Reset(bots) == reset' = reset \cup {b \in bots : lease[b] # NoRow}
Delete(b) == lease' = [lease EXCEPT ![b] = NoRow] /\ Reset({b})

-----------------------------------------------------------------------------
(* Runs and leases.                                                        *)

\* The runs of the computer's bots that are active, with or without those
\* that wait for a takeover.
Working == {r \in Holders : KindOf[r] = "work"
                            /\ run[r] \in {"ready", "resumed"} \cup Sessions}
ActiveRuns == Working \cup {r \in Holders : KindOf[r] = "work" /\ run[r] = "waiting"}
LiveOthers(b) == {c \in Bots \ {b} : lease[c].live}

Steps == {"off", "cancel", "acquire", "reclaim", "create", "validate", "leased",
          "replace", "take", "runs", "destroy", "record", "claim", "reconnect",
          "booting", "booted", "using", "pausing", "closing", "release"}

\* seen: the state a replacement read first; exact: it replaced that state.
Session == [step : Steps, run : Holders \cup {None}, fence : Nat,
            resume : BOOLEAN, seen : States, exact : BOOLEAN]
Off == [step |-> "off", run |-> None, fence |-> 0, resume |-> FALSE,
        seen |-> "stopped", exact |-> TRUE]

At(s, step) == session[s].step = step
Go(s, step) == session' = [session EXCEPT ![s].step = step]
Bot(s) == BotOf[session[s].run]
Kind(s) == KindOf[session[s].run]
Lease(s) == [run |-> session[s].run, fence |-> session[s].fence]

\* The where clause of renew, hold and release.
Matches(s) ==
  /\ session[s].run # None /\ session[s].fence > 0
  /\ lease[Bot(s)].run = session[s].run /\ lease[Bot(s)].fence = session[s].fence

Expired(s) == IF Matches(s) THEN [lease EXCEPT ![Bot(s)].live = FALSE] ELSE lease

\* What becomes of the holder when its computer is busy.
Requeued(s) ==
  IF run[session[s].run] # s THEN run
  ELSE [run EXCEPT ![session[s].run] =
          IF Kind(s) \notin {"work", "visit"} THEN "ended"
          ELSE IF session[s].resume THEN "resumed" ELSE "ready"]

\* Mutant of Busy: the handler keeps its run.
BusyKeepsRun(s) == Go(s, "off") /\ run' = Requeued(s)

\* ComputerBusyError before, and after, the lease has been acquired.
Busy(s) == session' = [session EXCEPT ![s] = Off] /\ run' = Requeued(s)
GiveUp(s) == Go(s, "release") /\ run' = Requeued(s)

\* A message, a wake-up or a user's request.
Create(r) ==
  /\ run[r] = "new"
  /\ run' = [run EXCEPT ![r] = "ready"]
  /\ UNCHANGED <<session, lease, computer, host, sleep, request, reset,
                 abandoned, faults>>

\* continueRun has set the run running; a boot only begins if it is needed.
Start(s, r) ==
  /\ At(s, "off") /\ run[r] \in {"ready", "resumed"}
  /\ KindOf[r] = "boot" => state # "running"
  /\ run' = [run EXCEPT ![r] = s]
  /\ session' = [session EXCEPT ![s] = [Off EXCEPT !.run = r,
       !.step = IF KindOf[r] = "restart" THEN "cancel" ELSE "acquire",
       !.resume = (run[r] = "resumed")]]
  /\ UNCHANGED <<lease, computer, host, sleep, request, reset, abandoned, faults>>

\* The user releases the takeover for which a run waits.
ResumeRun(r) ==
  /\ run[r] = "waiting"
  /\ run' = [run EXCEPT ![r] = "resumed"]
  /\ UNCHANGED <<session, lease, computer, host, sleep, request, reset,
                 abandoned, faults>>

\* acquireComputerExecutionLease.
Acquire(s) ==
  /\ At(s, "acquire")
  /\ IF state = "suspending" THEN Busy(s) ELSE Go(s, "reclaim") /\ UNCHANGED run
  /\ UNCHANGED <<lease, computer, host, sleep, request, reset, abandoned, faults>>

\* Mutant of Reclaims: a session may take the live row of its own run.
ReclaimsOwn(s) ==
  LET row == lease[Bot(s)] IN
  row # NoRow /\ (~Team \/ ~row.live \/ row.run = session[s].run)
Reclaims(s) ==
  LET row == lease[Bot(s)] IN
  /\ row # NoRow
  /\ ~Team \/ ~row.live \/ (session[s].resume /\ row.run = session[s].run)

\* Mutant of Taken: a row that is taken over keeps its fence.
TakenAsItIs(s) == [lease EXCEPT ![Bot(s)] =
  LiveRow(session[s].run, IF @ = NoRow THEN 1 ELSE @.fence)]
Taken(s) == [lease EXCEPT ![Bot(s)] = LiveRow(session[s].run, @.fence + 1)]

Obtain(s) ==
  /\ lease[Bot(s)].fence < MaxFence
  /\ lease' = Taken(s)
  /\ session' = [session EXCEPT ![s].step = "validate",
                                ![s].fence = lease'[Bot(s)].fence]
  /\ UNCHANGED run

Reclaim(s) ==
  /\ At(s, "reclaim")
  /\ IF Reclaims(s) THEN Obtain(s)
     ELSE Go(s, "create") /\ UNCHANGED <<run, lease>>
  /\ UNCHANGED <<computer, host, sleep, request, reset, abandoned, faults>>

\* The insert, and what follows if the row exists by now: a bot takes the
\* row of its own computer, a team's is busy.
CreateRow(s) ==
  /\ At(s, "create")
  /\ IF lease[Bot(s)] = NoRow \/ ~Team THEN Obtain(s)
     ELSE Busy(s) /\ UNCHANGED lease
  /\ UNCHANGED <<computer, host, sleep, request, reset, abandoned, faults>>

Validate(s) ==
  /\ At(s, "validate")
  /\ IF state = "suspending" THEN Busy(s) /\ lease' = Expired(s)
     ELSE Go(s, IF Kind(s) \in {"recover", "restart"} THEN "replace" ELSE "leased")
          /\ UNCHANGED <<run, lease>>
  /\ UNCHANGED <<computer, host, sleep, request, reset, abandoned, faults>>

\* The heartbeat; a session whose row is another's aborts its turn.
Renew(s) ==
  /\ At(s, "using")
  /\ IF Matches(s)
     THEN lease' = [lease EXCEPT ![Bot(s)].live = TRUE] /\ UNCHANGED session
     ELSE Go(s, "closing") /\ UNCHANGED lease
  /\ UNCHANGED <<run, computer, host, sleep, request, reset, abandoned, faults>>

Release(s) ==
  /\ At(s, "release")
  /\ lease' = Expired(s)
  /\ session' = [session EXCEPT ![s] = Off]
  /\ UNCHANGED <<run, computer, host, sleep, request, reset, abandoned, faults>>

-----------------------------------------------------------------------------
(* provisionComputer.                                                      *)

\* A running machine is reconnected to, one that changes is waited for.
Provision(s) ==
  /\ At(s, "leased")
  /\ \/ state = "running" /\ Go(s, "reconnect")
     \/ state # "running" /\ Go(s, "claim")
  /\ UNCHANGED <<run, lease, computer, host, sleep, request, reset, abandoned,
                 faults>>

\* The provider starts a machine it finds stopped.
Reconnect(s) ==
  /\ At(s, "reconnect")
  /\ \/ /\ machine' = TRUE /\ sleepJob' = TRUE
        /\ Go(s, IF Kind(s) \in {"work", "visit"} THEN "using" ELSE "release")
        /\ run' = IF Kind(s) \in {"work", "visit"} THEN run
                  ELSE [run EXCEPT ![session[s].run] = "ended"]
        /\ UNCHANGED faults
     \/ Fault("provider") /\ GiveUp(s) /\ UNCHANGED <<machine, sleepJob>>
  /\ UNCHANGED <<lease, computer, screen, idle, dropped, request, reset, abandoned>>

ClaimBoot(s) ==
  /\ At(s, "claim")
  /\ IF state \in Asleep
     THEN Claim(s, "booting") /\ Go(s, "booting") /\ UNCHANGED run
     ELSE GiveUp(s) /\ UNCHANGED computer
  /\ UNCHANGED <<lease, host, sleep, request, reset, abandoned, faults>>

\* What a boot that failed writes.
\* Mutant of BootFailed: it leaves the claim behind.
BootFailedSilently(s) == UNCHANGED computer
BootFailed(s) == Settle(s, "booting", "error")

PowerOn(s) ==
  /\ At(s, "booting")
  /\ \/ machine' = TRUE /\ Go(s, "booted") /\ UNCHANGED <<run, computer, faults>>
     \/ Fault("provider") /\ GiveUp(s) /\ BootFailed(s) /\ UNCHANGED machine
  /\ UNCHANGED <<lease, screen, sleep, request, reset, abandoned>>

\* The machine is rolled back if preparing it fails or the claim was lost.
Activate(s) ==
  /\ At(s, "booted")
  /\ \/ /\ state = "booting"
        /\ Settle(s, "booting", "running") /\ sleepJob' = TRUE
        /\ Go(s, IF Kind(s) \in {"work", "visit"} THEN "using" ELSE "release")
        /\ run' = IF Kind(s) \in {"work", "visit"} THEN run
                  ELSE [run EXCEPT ![session[s].run] = "ended"]
        /\ UNCHANGED <<host, faults>>
     \/ /\ \/ state # "booting" /\ UNCHANGED faults
           \/ Fault("provider")
        /\ IF state = "booting" THEN BootFailed(s) ELSE Expecting("booting", TRUE)
        /\ MachineStops /\ GiveUp(s) /\ UNCHANGED sleepJob
  /\ UNCHANGED <<lease, idle, dropped, request, reset, abandoned>>

-----------------------------------------------------------------------------
(* Using the computer: the supervisor's screens and the end of a session.  *)

\* canTakeScreenLease and canReleaseScreenLease.
CanTake(old, new) == old = new \/ new.fence > old.fence
CanRelease(old, new) == old = new \/ (new.run = old.run /\ new.fence >= old.fence)

\* managedScreen: an assignment whose display fails to start is dropped.
TakeScreen(s) ==
  /\ At(s, "using") /\ machine
  /\ CanTake(screen[Bot(s)], Lease(s))
  /\ \/ screen' = [screen EXCEPT ![Bot(s)] = Lease(s)] /\ UNCHANGED faults
     \/ screen' = [screen EXCEPT ![Bot(s)] = NoScreen] /\ Fault("screen")
  /\ UNCHANGED <<run, session, lease, computer, machine, sleep, request, reset,
                 abandoned>>

\* The run ends, unless it is no longer this session's.
Finish(s) ==
  /\ At(s, "using")
  /\ Go(s, "closing")
  /\ run' = IF run[session[s].run] = s THEN [run EXCEPT ![session[s].run] = "ended"]
            ELSE run
  /\ UNCHANGED <<lease, computer, host, sleep, request, reset, abandoned, faults>>

\* releaseScreen, whose failure is ignored.
Close(s) ==
  /\ At(s, "closing")
  /\ \/ /\ screen' = IF CanRelease(screen[Bot(s)], Lease(s))
                     THEN [screen EXCEPT ![Bot(s)] = NoScreen] ELSE screen
        /\ UNCHANGED faults
     \/ Fault("screen") /\ UNCHANGED screen
  /\ Go(s, "release")
  /\ UNCHANGED <<run, lease, computer, machine, sleep, request, reset, abandoned>>

\* The takeover event: the computer's row is written, then the lease is held
\* and the run paused; the handler returns without releasing either.
RequestTakeover(s) ==
  /\ At(s, "using") /\ Kind(s) = "work" /\ run[session[s].run] = s
  /\ Overwrite("running", "running", TRUE)
  /\ Go(s, "pausing")
  /\ UNCHANGED <<run, lease, host, sleep, request, reset, abandoned, faults>>

Pause(s) ==
  /\ At(s, "pausing")
  /\ LET r == session[s].run IN
     IF Matches(s)
     THEN /\ lease' = [lease EXCEPT ![Bot(s)].live = TRUE]
          /\ IF run[r] = s
             THEN run' = [run EXCEPT ![r] = "waiting"]
                  /\ session' = [session EXCEPT ![s] = Off]
             ELSE Go(s, "closing") /\ UNCHANGED run
     ELSE /\ Go(s, "closing") /\ UNCHANGED lease
          /\ run' = IF run[r] = s THEN [run EXCEPT ![r] = "ended"] ELSE run
  /\ UNCHANGED <<computer, host, sleep, request, reset, abandoned, faults>>

-----------------------------------------------------------------------------
(* runComputerReplace and replaceComputer.                                 *)

\* restart: cancelRunsOnComputer, then a claimed state becomes an error; a
\* takeover's clean-up finds its row gone.
ForceOut(s) ==
  /\ At(s, "cancel")
  /\ Go(s, "acquire")
  /\ IF ActiveRuns = {} THEN UNCHANGED <<run, lease, reset, op>>
     ELSE /\ run' = [r \in Holders |-> IF r \in ActiveRuns THEN "ended" ELSE run[r]]
          /\ lease' = [b \in Bots |-> NoRow] /\ Reset(Bots)
          /\ op' = IF op.step = "delete" THEN [op EXCEPT !.step = "off"] ELSE op
  /\ IF state \in {"booting", "suspending"} THEN Overwrite("error", "error", TRUE)
     ELSE UNCHANGED computer
  /\ UNCHANGED <<host, sleep, operations, abandoned, faults>>

ReadForReplace(s) ==
  /\ At(s, "replace")
  /\ IF Kind(s) = "recover" /\ state \in {"booting", "suspending"}
     THEN GiveUp(s)
     ELSE session' = [session EXCEPT ![s].step = "take", ![s].seen = state]
          /\ UNCHANGED run
  /\ UNCHANGED <<lease, computer, host, sleep, request, reset, abandoned, faults>>

\* A machine that stands still is not claimed; other bots' leases keep one
\* that runs; a restart takes it anyhow.
Claimed(s) == Kind(s) = "restart" \/ session[s].seen \notin {"stopped", "suspended"}

ClaimReplace(s) ==
  /\ At(s, "take")
  /\ \/ /\ Kind(s) = "restart"
        /\ state' = "suspending" /\ touched' = TRUE /\ claimant' = s
        /\ Meets("suspending", FALSE)
        /\ Go(s, "destroy") /\ UNCHANGED run
     \/ /\ Kind(s) = "recover" /\ ~Claimed(s)
        /\ Go(s, "runs") /\ UNCHANGED <<run, computer>>
     \/ /\ Kind(s) = "recover" /\ Claimed(s)
        /\ IF state \in {"running", "error"} /\ LiveOthers(Bot(s)) = {}
           THEN /\ Claim(s, "suspending") /\ UNCHANGED run
                /\ session' = [session EXCEPT ![s].step = "runs",
                                ![s].exact = (state = session[s].seen)]
           ELSE GiveUp(s) /\ UNCHANGED computer
  /\ UNCHANGED <<lease, host, sleep, request, reset, abandoned, faults>>

\* The claim is undone by writing the state that was read before it.
Boots(x) == x \in Sessions => session[x].step \in {"booting", "booted"}
Restore(x, exact, seen, prior) ==
  IF state = "suspending"
  THEN /\ state' = seen /\ touched' = TRUE /\ claimant' = prior
       /\ disturbed' = (disturbed \/ claimant # x \/ ~exact \/ ~Boots(prior))
       /\ UNCHANGED undercut
  ELSE UNCHANGED computer

CheckRuns(s) ==
  /\ At(s, "runs")
  /\ IF ActiveRuns = {} THEN Go(s, "destroy") /\ UNCHANGED <<run, computer>>
     ELSE /\ GiveUp(s)
          /\ IF Claimed(s) THEN Restore(s, session[s].exact, session[s].seen, None)
             ELSE UNCHANGED computer
  /\ UNCHANGED <<lease, host, sleep, request, reset, abandoned, faults>>

Expects(s) == IF Claimed(s) THEN "suspending" ELSE session[s].seen
Own(s) == Matches(s) /\ (Claimed(s) => claimant = s)

\* The workspace of a running machine is saved, which may fail, and the
\* machine destroyed.
Destroy(s) ==
  /\ At(s, "destroy")
  /\ \/ /\ MachineStops /\ Expecting(Expects(s), Own(s)) /\ Go(s, "record")
        /\ UNCHANGED <<run, faults>>
     \/ /\ Kind(s) = "recover" /\ session[s].seen = "running"
        /\ Fault("provider") /\ Overwrite("error", Expects(s), Own(s)) /\ GiveUp(s)
        /\ UNCHANGED host
  /\ UNCHANGED <<lease, sleep, request, reset, abandoned>>

\* A new machine is provisioned next.
RecordReplaced(s) ==
  /\ At(s, "record")
  /\ Overwrite("stopped", Expects(s), Own(s))
  /\ Go(s, "leased")
  /\ UNCHANGED <<run, lease, host, sleep, request, reset, abandoned, faults>>

-----------------------------------------------------------------------------
(* sleepComputerIfIdle.                                                    *)

\* counts: do runs that wait for a takeover count as active?  They do while
\* a user has control.
Idle == [step : {"off", "checkpoint", "recheck", "stop", "record"}, counts : BOOLEAN]
NoIdle == [step |-> "off", counts |-> FALSE]
InUse(counts) == (IF counts THEN ActiveRuns ELSE Working) # {}

\* Mutant of Rescheduled: the job is not scheduled again.
RescheduledNot == idle' = NoIdle /\ UNCHANGED sleepJob
Rescheduled == idle' = NoIdle /\ sleepJob' = TRUE

\* The row and the active runs are read, then the workspace is saved.
BeginSleep(counts) ==
  /\ idle.step = "off" /\ sleepJob
  /\ \/ /\ state # "running"
        /\ sleepJob' = FALSE /\ dropped' = TRUE /\ UNCHANGED <<idle, touched>>
     \/ /\ state = "running" /\ InUse(counts)
        /\ Rescheduled /\ UNCHANGED <<dropped, touched>>
     \/ /\ state = "running" /\ ~InUse(counts)
        /\ idle' = [step |-> "checkpoint", counts |-> counts]
        /\ sleepJob' = FALSE /\ touched' = FALSE /\ UNCHANGED dropped
  /\ UNCHANGED <<run, session, lease, state, claimant, disturbed, undercut, host,
                 request, reset, abandoned, faults>>

\* The compare-and-set after it.
\* Mutant of MaySleep: leases do not matter.
MaySleepLeased == state = "running" /\ ~touched
MaySleep == state = "running" /\ ~touched /\ \A b \in Bots : ~lease[b].live

ClaimSleep ==
  /\ idle.step = "checkpoint"
  /\ IF MaySleep
     THEN /\ state' = "suspending" /\ touched' = FALSE /\ claimant' = "idle"
          /\ idle' = [idle EXCEPT !.step = "recheck"]
          /\ UNCHANGED <<disturbed, undercut, sleepJob>>
     ELSE Rescheduled /\ UNCHANGED computer
  /\ UNCHANGED <<run, session, lease, host, dropped, request, reset, abandoned,
                 faults>>

MayRest == ~InUse(idle.counts) /\ state = "suspending" /\ ~touched

RecheckSleep ==
  /\ idle.step = "recheck"
  /\ IF MayRest
     THEN idle' = [idle EXCEPT !.step = "stop"] /\ UNCHANGED <<sleepJob, computer>>
     ELSE Rescheduled /\ Settle("idle", "suspending", "running")
  /\ UNCHANGED <<run, session, lease, host, dropped, request, reset, abandoned,
                 faults>>

StopIdle ==
  /\ idle.step = "stop"
  /\ \/ /\ MachineStops /\ Expecting("suspending", claimant = "idle")
        /\ idle' = [idle EXCEPT !.step = "record"] /\ UNCHANGED <<sleepJob, faults>>
     \/ /\ Fault("provider") /\ Rescheduled /\ Settle("idle", "suspending", "running")
        /\ UNCHANGED host
  /\ UNCHANGED <<run, session, lease, dropped, request, reset, abandoned>>

RecordSleep ==
  /\ idle.step = "record"
  /\ Overwrite("suspended", "suspending", claimant = "idle")
  /\ idle' = NoIdle
  /\ UNCHANGED <<run, session, lease, host, sleepJob, dropped, request, reset,
                 abandoned, faults>>

-----------------------------------------------------------------------------
(* computer.stop, computer.takeover's clean-up of an old lease, and stops  *)
(* and clears of a thread.                                                 *)

\* delete: the row that was read; forget: whichever row the bot has.
Op == [step : {"off", "claim", "others", "unlease", "stop", "record", "delete",
               "forget", "screen"},
       bot : Bots, seen : States, exact : BOOLEAN,
       prior : Sessions \cup {"idle", "op", None}]   \* history: whose claim it took
OpGo(step) == op' = [op EXCEPT !.step = step]

ReadForStop(b) ==
  /\ "stop" \in operations /\ op.step = "off"
  /\ operations' = operations \ {"stop"}
  /\ op' = [step |-> "claim", bot |-> b, seen |-> state, exact |-> TRUE,
            prior |-> None]
  /\ UNCHANGED <<run, session, lease, computer, host, sleep, reset, abandoned,
                 faults>>

MayStop == state # "suspending" /\ LiveOthers(op.bot) = {}

ClaimStop ==
  /\ op.step = "claim"
  /\ IF MayStop
     THEN /\ Claim("op", "suspending")
          /\ op' = [op EXCEPT !.step = "others", !.exact = (state = op.seen),
                              !.prior = claimant]
     ELSE OpGo("off") /\ UNCHANGED computer
  /\ UNCHANGED <<run, session, lease, host, sleep, operations, reset, abandoned,
                 faults>>

CheckOthers ==
  /\ op.step = "others"
  /\ IF \E r \in ActiveRuns : BotOf[r] # op.bot
     THEN OpGo("off") /\ Restore("op", op.exact, op.seen, op.prior)
     ELSE OpGo("unlease") /\ UNCHANGED computer
  /\ UNCHANGED <<run, session, lease, host, sleep, operations, reset, abandoned,
                 faults>>

Unlease ==
  /\ op.step = "unlease"
  /\ Delete(op.bot)
  /\ OpGo("stop")
  /\ UNCHANGED <<run, session, computer, host, sleep, operations, abandoned,
                 faults>>

StopMachine ==
  /\ op.step = "stop"
  /\ \/ /\ MachineStops /\ Expecting("suspending", claimant = "op")
        /\ OpGo("record") /\ UNCHANGED faults
     \/ /\ Fault("provider") /\ Settle("op", "suspending", "error") /\ OpGo("off")
        /\ UNCHANGED host
  /\ UNCHANGED <<run, session, lease, sleep, operations, reset, abandoned>>

RecordStop ==
  /\ op.step = "record"
  /\ Overwrite("stopped", "suspending", claimant = "op")
  /\ OpGo("off")
  /\ UNCHANGED <<run, session, lease, host, sleep, operations, reset, abandoned,
                 faults>>

\* A row that has expired and whose run is not active is deleted, by its id.
ReadForTakeover(b) ==
  /\ "takeover" \in operations /\ op.step = "off"
  /\ state = "running" /\ lease[b] # NoRow /\ ~lease[b].live
  /\ lease[b].run \notin ActiveRuns /\ KindOf[lease[b].run] # "visit"
  /\ operations' = operations \ {"takeover"}
  /\ op' = [step |-> "delete", bot |-> b, seen |-> state, exact |-> TRUE,
            prior |-> None]
  /\ UNCHANGED <<run, session, lease, computer, host, sleep, reset, abandoned,
                 faults>>

\* stopThreadRuns, and a teaching session that starts: the active runs of one
\* thread end, then the bot's row is deleted, whichever run it names.
Stoppable(b) == {r \in Holders : BotOf[r] = b /\ KindOf[r] \in {"work", "visit"}
                                 /\ run[r] \notin {"new", "ended"}}
Cancels(b) ==
  /\ "cancel" \in operations
  /\ \E rs \in SUBSET Stoppable(b) :
       run' = [r \in Holders |-> IF r \in rs THEN "ended" ELSE run[r]]
StopThread(b) ==
  /\ op.step = "off" /\ Cancels(b)
  /\ operations' = operations \ {"cancel"}
  /\ op' = [step |-> "forget", bot |-> b, seen |-> state, exact |-> TRUE,
            prior |-> None]
  /\ UNCHANGED <<session, lease, computer, host, sleep, reset, abandoned, faults>>

DeleteRow ==
  /\ op.step \in {"delete", "forget"}
  /\ Delete(op.bot)
  /\ OpGo("off") \/ (op.step = "forget" /\ OpGo("screen"))
  /\ UNCHANGED <<run, session, computer, host, sleep, operations, abandoned,
                 faults>>

\* The stop releases the bot's screen, under whatever lease it is assigned; a
\* failure is ignored, and a teaching session leaves it.
FreeScreen ==
  /\ op.step = "screen"
  /\ screen' = [screen EXCEPT ![op.bot] = NoScreen]
  /\ OpGo("off")
  /\ UNCHANGED <<run, session, lease, computer, machine, sleep, operations, reset,
                 abandoned, faults>>

\* clearThread does both at once; a takeover's clean-up finds its row gone.
ClearThread(b) ==
  /\ Cancels(b) /\ Delete(b)
  /\ operations' = operations \ {"cancel"}
  /\ op' = IF op.step = "delete" /\ op.bot = b THEN [op EXCEPT !.step = "off"] ELSE op
  /\ UNCHANGED <<session, computer, host, sleep, abandoned, faults>>

-----------------------------------------------------------------------------
(* Failures.                                                               *)

Abandon(claimed) == abandoned' = (abandoned \/ (claimed /\ state \in {"booting", "suspending"}))

\* The process of a session dies; its run is claimed again once its own
\* lease has expired, a request is not made again.
CrashSession(s) ==
  /\ ~At(s, "off") /\ Fault("crash")
  /\ session' = [session EXCEPT ![s] = Off]
  /\ run' = IF run[session[s].run] # s THEN run
            ELSE [run EXCEPT ![session[s].run] =
                    IF Kind(s) \in {"work", "visit"} THEN "ready" ELSE "ended"]
  /\ Abandon(session[s].step \in {"runs", "destroy", "record", "booting", "booted"})
  /\ UNCHANGED <<lease, computer, host, sleep, request, reset>>

CrashIdle ==
  /\ idle.step # "off" /\ Fault("crash")
  /\ Rescheduled
  /\ Abandon(idle.step # "checkpoint")
  /\ UNCHANGED <<run, session, lease, computer, host, dropped, request, reset>>

CrashOp ==
  /\ op.step # "off" /\ Fault("crash")
  /\ OpGo("off")
  /\ Abandon(op.step \in {"others", "unlease", "stop", "record"})
  /\ UNCHANGED <<run, session, lease, computer, host, sleep, operations, reset>>

\* A session stalls until its run is claimed again, or until its execution
\* lease has expired; a lease nobody renews expires.
RunLapses(s) ==
  /\ ~At(s, "off") /\ Kind(s) \in {"work", "visit"} /\ run[session[s].run] = s
  /\ Fault("stall")
  /\ run' = [run EXCEPT ![session[s].run] = "ready"]
  /\ UNCHANGED <<session, lease, computer, host, sleep, request, reset, abandoned>>

Nobody(b) == ~\E s \in Sessions : session[s].run # None /\ Bot(s) = b /\ Matches(s)
LeaseLapses(b) ==
  /\ lease[b].live
  /\ IF Nobody(b) /\ run[lease[b].run] # "waiting" THEN UNCHANGED faults
     ELSE Fault("lapse")
  /\ lease' = [lease EXCEPT ![b].live = FALSE, ![b].kept = FALSE]
  /\ UNCHANGED <<run, session, computer, host, sleep, request, reset, abandoned>>

-----------------------------------------------------------------------------
Init ==
  \E i \in Instances :
    /\ run = [r \in Holders |-> IF r \in i.holders THEN "new" ELSE "ended"]
    /\ operations = i.operations /\ faults = i.faults
    /\ session = [s \in Sessions |-> Off]
    /\ lease = [b \in Bots |-> NoRow] /\ screen = [b \in Bots |-> NoScreen]
    /\ state = "stopped" /\ machine = FALSE /\ touched = FALSE
    /\ idle = NoIdle /\ sleepJob = FALSE
    /\ op = [step |-> "off", bot |-> CHOOSE b \in Bots : TRUE, seen |-> "stopped",
             exact |-> TRUE, prior |-> None]
    /\ claimant = None /\ undercut = FALSE
    /\ disturbed = FALSE /\ reset = {} /\ abandoned = FALSE /\ dropped = FALSE

SessionStep(s) ==
  \/ Acquire(s) \/ Reclaim(s) \/ CreateRow(s) \/ Validate(s) \/ Release(s)
  \/ Provision(s) \/ Reconnect(s) \/ ClaimBoot(s) \/ PowerOn(s) \/ Activate(s)
  \/ Finish(s) \/ Close(s) \/ Pause(s)
  \/ ForceOut(s) \/ ReadForReplace(s) \/ ClaimReplace(s) \/ CheckRuns(s)
  \/ Destroy(s) \/ RecordReplaced(s)
SleepStep == ClaimSleep \/ RecheckSleep \/ StopIdle \/ RecordSleep
OpStep ==
  \/ ClaimStop \/ CheckOthers \/ Unlease \/ StopMachine \/ RecordStop \/ DeleteRow
  \/ FreeScreen
BotStep(b) ==
  \/ ReadForStop(b) \/ ReadForTakeover(b) \/ StopThread(b) \/ ClearThread(b)
  \/ LeaseLapses(b)

Next ==
  \/ \E r \in Holders : Create(r) \/ ResumeRun(r)
  \/ \E s \in Sessions, r \in Holders : Start(s, r)
  \/ \E s \in Sessions : SessionStep(s) \/ Renew(s) \/ TakeScreen(s) \/ RequestTakeover(s)
  \/ \E counts \in BOOLEAN : BeginSleep(counts)
  \/ SleepStep \/ OpStep
  \/ \E b \in Bots : BotStep(b)
  \/ \E s \in Sessions : CrashSession(s) \/ RunLapses(s)
  \/ CrashIdle \/ CrashOp

Spec == Init /\ [][Next]_vars

\* Handlers and the queue's workers go on.
Fairness ==
  /\ \A s \in Sessions : WF_vars(SessionStep(s))
  /\ WF_vars(\E counts \in BOOLEAN : BeginSleep(counts))
  /\ WF_vars(SleepStep) /\ WF_vars(OpStep)
FairSpec == Spec /\ Fairness

-----------------------------------------------------------------------------
(* Properties.                                                             *)

TypeOK ==
  /\ run \in [Holders -> {"new", "ready", "resumed", "waiting", "ended"} \cup Sessions]
  /\ session \in [Sessions -> Session]
  /\ \A s \in Sessions : session[s].run = None <=> At(s, "off")
  /\ lease \in [Bots -> Row] /\ screen \in [Bots -> ScreenLease]
  /\ state \in States /\ touched \in BOOLEAN /\ machine \in BOOLEAN
  /\ idle \in Idle /\ sleepJob \in BOOLEAN
  /\ op \in Op /\ operations \subseteq Operations
  /\ claimant \in Sessions \cup {"idle", "op", None} /\ undercut \in BOOLEAN
  /\ disturbed \in BOOLEAN /\ reset \subseteq Bots /\ abandoned \in BOOLEAN
  /\ dropped \in BOOLEAN /\ faults \in Nat

\* A session that uses the computer with a lease that neither expired nor
\* was deleted has a machine under it, whatever the idle job, other bots'
\* stops, failed boots and replacements do, as long as whoever writes the
\* state or switches the machine off still finds the state it expects there,
\* by its own claim, and a replacement still holds its lease
\* (computer-idle.ts:77, router.ts:1217, computer-lifecycle.ts:518).
Uses(s) ==
  /\ At(s, "using") /\ Matches(s) /\ Bot(s) \notin reset
  /\ lease[Bot(s)].live /\ lease[Bot(s)].kept
MachineUnderRun == \A s \in Sessions : Uses(s) => machine \/ disturbed \/ undercut

\* While no row of the bot has been deleted, one session at most passes the
\* guards of renew, hold and release, and the supervisor gives it the bot's
\* screen whatever an earlier session left behind (computer-lifecycle.ts:412).
FencesHold ==
  \A b \in Bots \ reset, s \in Sessions :
    session[s].run # None /\ Bot(s) = b /\ Matches(s) =>
      /\ CanTake(screen[b], Lease(s))
      /\ \A t \in Sessions \ {s} : ~(session[t].run # None /\ Bot(t) = b /\ Matches(t))

\* On a team computer, until the bot's row is deleted, nobody else ends the
\* live lease of a session that uses it, except time and the run's own next
\* attempt after a takeover (computer-lifecycle.test.ts:596).
HeldUntilReleased ==
  [][\A s \in Sessions :
       Team /\ At(s, "using") /\ Matches(s) /\ lease[Bot(s)].live =>
         \/ lease'[Bot(s)].live /\ Matches(s)'
         \/ \E t \in Sessions : At(t, "reclaim") /\ session[t].resume
                                /\ session[t].run = session[s].run
         \/ session'[s] # session[s] \/ faults' # faults
         \/ Bot(s) \in reset']_vars

\* A computer that boots or is being suspended gets somewhere, unless the
\* process that claimed it died or a write met a state it did not expect
\* (computer-lifecycle.ts:152, computer-idle.ts:126).
Changing == state \in {"booting", "suspending"}
PowerSettles == Changing ~> (~Changing \/ abandoned \/ disturbed)

\* A computer nobody uses is put to sleep, unless the job once came while it
\* was not running or a write missed the state it expected.
Quiet == state = "running" /\ ActiveRuns = {} /\ \A b \in Bots : ~lease[b].live
IdleSleeps == Quiet ~> (~Quiet \/ dropped \/ disturbed)

=============================================================================
