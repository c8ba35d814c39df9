# TLA+ models of the Rakazo worker

Rakazo gives each user a set of bots. A bot works in a thread, on a computer of its own
(a sandbox with a screen) or of its team, and its work is done in *runs*: rows of a table
that background workers claim under a lease, execute with a model in the loop, pause when
the user is needed, and settle. Nearly everything that is hard about the program happens
there: worker processes, API handlers and the user act on the same rows at the same time,
workers stall and die, leases lapse, jobs are repeated, and the side effects of tools cannot
be rolled back. This directory models that part of the repository in TLA+, checks it with
TLC on small instances and proves its main invariants with TLAPS for every instance.

Paths below are relative to `src/`.

## Contents

| module | what it is |
| --- | --- |
| `RunLifecycle` | runs, attempts, leases, jobs, pauses and cancelling requests; the core |
| `RunContract` | what a run promises its user: the abstract specification of `RunLifecycle` |
| `MCRunLifecycle` | constants for TLC |
| `RunLifecycleProofs` | theorems about `RunLifecycle` |
| `EffectGate` | the gate that every mutating tool call of a run passes: approval, replay, record of the effect |
| `MCEffectGate` | constants for TLC |
| `EffectGateProofs` | theorems about `EffectGate` |
| `EventFeed` | the event stream of a thread: append, NOTIFY, the LISTEN connection, followers |
| `FeedContract` | what a follower promises its client: the abstract specification of `EventFeed` |
| `MCEventFeed` | symmetry for TLC |
| `ThreadView` | a client's view of a thread: snapshots, events, refreshes and reconnects |
| `MCThreadView` | constants for TLC |
| `ThreadProofs` | theorems about `EventFeed` and `ThreadView` |
| `ComputerLease` | one computer: the bots' execution leases and fences, screens, boots, stops, replacement and the idle job |
| `MCComputerLease` | instances for TLC |
| `ComputerLeaseProofs` | theorems about `ComputerLease` |
| `ComputerControl` | who has the screen: takeover, transfer, renewal, release and expiry of the control lease |
| `MCComputerControl` | instances for TLC |
| `ComputerControlProofs` | theorems about `ComputerControl` |
| `HistoryCompaction` | the summary of a thread's history, its external memory, clears and purges |
| `MemoryContract` | what the memory of a thread promises: the abstract specification of `HistoryCompaction` |
| `MCHistoryCompaction` | instances for TLC |
| `HistoryCompactionProofs` | theorems about `HistoryCompaction` |
| `Routines` | the schedules of routines: wake, claim, restore, edits and the reconciler's pages |
| `MCRoutines` | instances for TLC |
| `RoutinesProofs` | theorems about `Routines` |
| `Delegation` | bots that spawn, message and hand over to each other, and the user's requests against them |
| `MCDelegation` | symmetry for TLC |
| `DelegationProofs` | theorems about `Delegation` |

How they fit together: `RunLifecycle` is the hub. `EffectGate` refines what a handler of it does
between two messages, `EventFeed` what an append does to those who follow the thread, and
`ThreadView` assumes of the stream what `EventFeed` is proved to implement. `ComputerLease` is
what `AcquireComputer` of `RunLifecycle` abstracts to a choice, `ComputerControl` what
`PauseRunForTakeover` and `ReleaseTakeover` abstract to one action each, `Routines` and
`Delegation` two of the places where runs come from (in `Delegation` a run is only queued, executed
and ended or cancelled; what else can happen to it is `RunLifecycle`), and `HistoryCompaction` where a run's context comes from. Each keeps
of its neighbours what it needs: `ComputerControl` the statuses and execution leases, not the
machine; `ComputerLease` the runs' attempts, not the user's control.

`PROJECT.json` lists components, runs, mutants (small bugs put into a definition to see that
a property notices), the map from definitions to source lines, findings, hazards and theorems.

To repeat a check: `tlc -config RunLifecycle.cfg MCRunLifecycle.tla`;
to repeat the proofs: `tlapm RunLifecycleProofs.tla`.

## The system

The repository is a TypeScript monorepo around one Postgres database.

| component | where | state it keeps | operations |
| --- | --- | --- | --- |
| run lifecycle | `packages/adapters/src/executor.ts`, `packages/db/src/events.ts`, `packages/core/src/run-state.ts` | `runs` (status, leaseOwner, leaseFence, leaseExpiresAt, checkpoint), `attempts`, `messages` | `continueRun`, `renewRunLease`, `publishMessage`, `pauseRunForInput`, `pauseRunForTakeover`, `finalizeRun`, `answerRunInput`, `finalizeComputerControlRelease` |
| cancelling requests | `apps/api/src/thread-target.ts`, `packages/adapters/src/child-bots.ts`, `apps/api/src/router.ts` | the same rows | `stopThreadRuns`, `clearThread`, `archiveBot`, `cancelRunsOnComputer`, `sendThreadMessage` |
| tool approval | `executor.ts` (`applyTool`), `packages/adapters/src/approval-effect.ts`, `packages/core/src/action-approval.ts` | `external_effects`, `action_approval_rules`, ask blocks in messages | record, ask, claim, execute, complete, settle; answer; set and remove rules |
| jobs | `packages/adapters/src/wakeup.ts`, `job-reconciler.ts`, `background-job-handlers.ts` | Graphile Worker's jobs, one per job key | enqueue, redeliver, reconcile |
| thread events | `packages/db/src/events.ts`, `packages/adapters/src/realtime.ts` | `thread_events` with a sequence number per thread, LISTEN/NOTIFY | append, follow |
| computers | `packages/adapters/src/computer-lifecycle.ts`, `computer-idle.ts`, `computer-control.ts`, `packages/core/src/screen-lease.ts`, `infra/sandboxes/supervisor` | `computers`, execution leases and fences, control leases, screens | provision, acquire, renew, hold, release, sleep, boot, stop, replace, take over, release |
| history | `packages/adapters/src/history-compaction.ts`, `memory-reflect-job.ts` | summary and compaction cursor of a thread, external memory | compact, reflect, purge |
| routines and sentinels | `executor.ts` (`wakeRoutine`), `schedule-tools.ts`, `sentinel-*.ts`, `packages/core/src/cron.ts` | schedules and their next wake | schedule, wake, check |
| bots and groups | `child-bots.ts`, `bot-messages.ts`, `group-handoff.ts`, `packages/db/src/groups.ts` | bots, groups, memberships | spawn, archive, destroy, message, hand off |
| teaching and skills | `teaching-session.ts`, `apps/api/src/taught-skills.ts`, `skill-*.ts` | sessions, skills, revisions | start, stop, replay, promote |
| connectors, models, sandboxes, voice | the other adapters | credentials | remote calls |
| thread view | `apps/web/src/lib/thread-events.ts`, `apps/web/src/pages/Shell.tsx`, `apps/mobile/lib/api.ts`, `apps/mobile/app/thread.tsx` | the snapshot on display, the cursor of the stream | load, reduce an event, refresh, reconnect |
| other clients | `apps/web`, `apps/mobile`, `apps/desktop`, `apps/www` | caches of the above | views |
| deployment | `infra/*`, `packages/core/src/self-update.ts` | images, containers | update, roll back |

How they interact: an API handler writes rows in a transaction and afterwards enqueues a job;
a worker slot takes the job and runs a handler (`continueRun`), which reads and writes the
rows in statements of its own, mostly guarded `UPDATE ... WHERE status, leaseOwner,
leaseFence`; the database runs at READ COMMITTED, so what a statement read may be stale when
the next one writes. Transactions that touch a thread take its row lock first, so those are
ordered. The reconciler, on one elected worker, looks for rows whose job is missing and
enqueues it again. Clients follow the thread's events.

What is hard, and what must be right in each part:

- **Runs.** Stale reads between the read, the claim and the writes; a lease that lapses under
  a live handler; a worker that dies; a job delivered twice; an enqueue lost after its commit;
  a stop, clear, archive or superseding message at any point. Right means: one handler at a
  time can write a run; a run ends once; a waiting run can be answered; a cleared thread stays
  empty; nothing queued is forgotten.
- **Effects.** The side effect and its row cannot be atomic; two handlers may meet at one row;
  rules change under a running attempt; cards are answered late. Right means: nothing runs
  twice or without the approval it needed, and the record never lies.
- **Events.** A follower reads and then waits, and must not miss what comes in between; numbers
  are given inside transactions that commit in any order unless a lock prevents it; the one
  LISTEN connection breaks, and can break while it is being made. Right means: no event is
  missed, passed or repeated, and nobody sleeps on one.
- **Views.** Snapshots and events reach a client on two paths, in any order. Right means: when
  everything has arrived the client shows what the database holds.
- **Computers.** One machine is shared by runs, the user who takes control, the idle job and
  the API; each has a lease or a state that the others must respect, and nearly every write is an
  `updateMany` on what was read before an await. Right means: who holds a valid lease has a
  machine and the screen, nobody ends another's lease, a boot or a suspension ends, an unused
  computer sleeps.
- **Control.** The user's lease of a screen is granted, moved to another bot, renewed, released
  and expired by handlers that read it earlier. Right means: only its own handlers end it, and a
  run that waits for it goes on afterwards.
- **Compaction.** The summary is computed outside the transaction that stores it, while the
  thread grows and is cleared. Right means: no message is lost to a run's context, and a cleared
  conversation does not come back.
- **Routines.** A due wake is claimed before its run is enqueued, and restored if that fails,
  while users edit the row and the queue repeats jobs. Right means: an occurrence makes one run,
  and what is due fires.

`PROJECT.json` lists each hazard at its line with the properties that cover it, and those not
covered yet.

## RunLifecycle

**State.** `run` and `attempts` are the tables; `expired` stands for `leaseExpiresAt` lying in
the past. `jobs` are runs with a `run.continue` job (the job key makes it a set), `locked` those
whose job a dead worker still holds, `posting` those that a process has decided to enqueue and
not yet has: the gap between commit and enqueue. `session` is what a handler carries between
its statements: where it is in `continueRun`, the fence and checkpoint it read, its attempt.
`pending` counts the unanswered cards of a run in its thread, and `output` says whether the
history holds something of it. `doomed` is a cancelling request between its read of the active
runs and its write.

**Actions.** One per statement or transaction. `continueRun` is `ReadRun`, `ClaimLease` or
`LoseClaim`, `StartRun`, `AcquireComputer` or `RequeueComputerRun`, `CreateAttempt`, then any
number of `RenewRunLease` and `PublishMessage`, and one of `PauseRunForInput`,
`PauseRunForTakeover`, `FinalizeRun`, `Abandon`; `SetupFailed` and `RecordSetupFailure` are the
two updates of the setup catch, and `Finally` the finally block. The user's are
`SendUserMessage`, `SendSuperseding`, `AnswerRunInput`, `ReleaseTakeover`, `StopThreadRuns`,
`ClearThread`, and `ReadDoomed` followed by `CancelDoomed` for archive and replace. `ScanRun` is
the reconciler (and the resend of a message whose enqueue failed), `Post` and `PostFails` the
enqueue. `Redeliver`, `Crash` and `ExpireLease` are the environment.

**What is abstracted.** Task rows, the text of messages and everything the model does between
two writes. Whether the computer is free is a choice. Cancelling a job is part of the request
that does it. A card is answerable here whenever its run waits; that an approval card also needs
an intended effect is what `EffectGate` adds.

**Constants.** `Faults` and `Cancels` select what may happen in an instance, so that a run asks
one question; `MaxFaults` and `MaxPauses` bound it. `PromptClaims` is an assumption about time:
a lease (minutes) does not lapse between a handler's read of the run and its claim (two
consecutive queries). With `PromptClaims = FALSE` TLC refutes `LeaseIsExclusive`: a handler that stalls between the two for a whole lease of another claims
with the fence it read.

### Properties

- `LeaseIsExclusive`: whenever the database would accept a write of a session, that session made
  the latest claim. `leaseOwner` cannot tell slots apart (it is the process id, and the inline
  worker of the API is always `api`), so this rests on the fence.
- `WaitingIsAnswerable`, `ClearedStaysSilent`, `OneOutcome`, `NoAttemptLeaks`: what the user sees
  and what the tables say agree, whatever interleaves.
- `OutcomesStand`: of the requests that cancel runs, those that hold the thread's lock never
  rewrite a run that ended. Archive and replace do (see the known divergences).
- `ImplementsContract`: under the mapping of statuses to phases, every step is a step of
  `RunContract` or a stutter: a run works, waits and ends once, so its outcome is final.
- `WorkSettles`: a run that is queued or executing ends, waits or is cancelled.

## EffectGate

**State.** `effect` is the status of the `external_effects` row that a request's stable key
(`approvalEffectKey`: run, tool and arguments) names, `created` its order, `card` the unanswered
cards that ask for it, `rules` the user's approval rules, `run` the status and fence of the run
(the rest of the run is `RunLifecycle`'s). A `session` is a handler's attempt: the rules it
cached, the approved requests it must replay, and the tool call it is in. `performed`,
`replayed` and `allowed` are history variables.

**Actions.** `ClaimRun` and `LoadReplays` begin an attempt. `CallTool` computes the request a
call stands for, whether it must be asked for, its key, and looks for its row; then
`RecordEffect`, `ReturnResult`, `FindInterrupted`, `NeedApproval`, `RequestApproval`,
`ClaimEffect`, `RereadEffect`, `SettleUncertainEffect`, `Perform` and `CompleteExternalEffect`
are the statements of `applyTool` and `approval-effect.ts` in their order. `Perform` is the side
effect, outside the database. The user answers cards, sets and removes rules, releases and
stops. Handlers that lost their lease go on with the call they are in.

**What is abstracted.** A rule is the set of tools it matches with the specificity of its kind;
names and patterns are left out. A call without a stable key has a row that no other call finds,
so the row is left out too. Reading the rules and looking the row up are one step: both are
reads, and the write that follows tests the row again. `request_secret` is left out.

### Properties

- `RecordIsHonest`: a completed effect ran exactly once and nobody is running it; one that is
  intended, approved or denied never ran; none ran twice.
- `SettledIsFinal`, which is proved only: denied, completed and uncertain are final.
- `AskedIsAllowed`: a handler runs a request that its rules ask for only after the user allowed
  it.
- `CardIsAnswerable`: a run that waits for an approval has a card whose effect can still be
  approved. It holds until the rules change. With a lapsed lease *and* a change of rules it does
  not: the older handler, with the older rules, may claim the effect behind the newer handler's
  card.
- `ReplayedOnce`: an approved request is replayed by one attempt, until the rules change (see the
  known divergences for what happens then).

## EventFeed

**State.** `nextEventSeq`, `events` and `progress` are the committed tables (an event is its
number), `lock` the row lock of the thread, and `writer` the transactions that append:
`appendEventInTransaction` takes its number by an `UPDATE` of the thread's row, which holds the
lock until the transaction ends. `link`, `retry` and `signals` are `PostgresRealtimeFanout`: its
LISTEN connection (a candidate while it connects, listening, up, or disposed and not yet
settled), whether `reconnectTimer` is set, and the notifications on their way. `follower` is the
generator `followThreadEvents` of each subscriber with its latch, and `cursor` what its client
has received. `unheard` is history: the events whose NOTIFY failed.

**Actions.** `AppendEvent`, `Commit` and `Rollback` are the transaction; a commit may delete the
progress of a run or, as `clearThread` does, everything. `DeleteProgress` is the deletion outside
such a transaction. `Notify` and `NotifyFails` are `notifyRealtime`. `Listen`, `Connected`,
`HandleNotification`, `HandleDisconnect`, `ConnectFails`, `ConnectSettles` and `Reconnect` are the
steps of the connection, separated wherever the code awaits. A follower subscribes (`Follow`),
remembers the generation of its latch (`Observe`), reads a batch (`Query`), gives it to its
client (`Yield`) and goes on, sleeps or starts again (`EndBatch`); `CatchUp` is the timer of
`waitForChange`, and `Leave` the client's going away. It comes back with its last cursor.

**What is abstracted.** What an event says; the other threads, whose followers the channel name
separates; that the generation of the latch is a number (only whether it moved since it was
observed matters); the delays of the reconnects.

### Properties

- `ImplementsFeed`: every step is a step of `FeedContract`: a client receives events in order and
  never passes one that exists. It rests on the lock: if two transactions could hold numbers at
  once, the higher could be read before the lower is committed.
- `NoLostWakeup`: a follower that sleeps on an event will be woken, unless that event's NOTIFY
  failed. It rests on subscribing to the latch before reading, on comparing generations before
  sleeping, and on the connect that wakes everybody.
- `ListenerRecovers`, which is proved only: while somebody is subscribed the connection is there, being made, or due.
- `Pushed` and `Delivered`: every event that is kept reaches the client, by signals and reconnects
  alone unless its NOTIFY failed, and otherwise by the timer.

## ThreadView

**State.** The server: `log` (every event ever, by number), `rows` (the events that are in the
table) and `messages`, `status` of the runs. The client: `view`, the snapshot on display; `loop`, the subscribe
loop with its cursor and the refresh it awaits; `pipe`, what the stream has read for it; `gets`,
refreshes on their way; `epoch`, the clears it has seen; `stop`, a stop request between its two
writes and its return. `hid` is history: the reasons why the view may hide a run that works. A run is `ended` when an event said so and `silenced` when it was
cancelled without one, by a stop or by a message that replaces it.

**Actions.** The server's are the transactions that append to the thread, with the events they
write and the progress they delete: `Send`, `StartRun`, `FlushProgress`, the pauses, `FinalizeRun`,
`ClearThread`; and those that change a run without an event: `ClaimRun`, `RequeueRun`, `Resume`,
`StopCancels` followed by `StopDeletes`. The client's are `Open`, `Disconnect`, `AnswerGet` (the
snapshot is read under the thread's lock), `ReceiveGet`, `GetFails`, `ReadEvents`, `ReceiveEvent`,
`StopReturns` and `RefreshAfterRequest`. `Reduced` is the reducer of events, `Reconciled` what
becomes of a refreshed snapshot; both differ between `Client = "web"` and `"mobile"` as the two
programs do. The stream delivers as `FeedContract` says, which `EventFeed` is proved to implement.

**What is abstracted.** A message is the number of its event; a run shows as its number and its
status, its live message as present or not; paging, group threads, computer state and the
desktop's notifications are left out, and so are the optimistic clear of the web client, stops
by the restart of the computer, and progress that a handler writes after its run was stopped.
`Requests` selects what may happen: a stop or send by this client, a stop by another, a clear, a
takeover, and, "early", requests before the thread has loaded or a failed first load.

### Properties

All speak of a *settled* client: loaded, subscribed, nothing on its way in either direction.

- `MessagesConverge`: it shows exactly the thread's messages.
- `RunConverges`, `NoGhostProgress`: it never shows a run that ended, and shows one
  that works or waits with its status; it shows the run that works; no live text of a run that
  ended is left.

They hold of the web client once its thread has loaded. What they exclude is how the program is:
a client goes on showing a run that was stopped elsewhere or replaced until it refreshes (and even
then if it had seen progress of it: the stop deletes the progress, which lowers the cursor of later
snapshots, so that `reconcileRefreshedThread` takes them for old ones); the return of a stop hides
a run that was sent and started meanwhile, and if the refresh that follows fails it stays hidden
(`"stop"` in `hid`); the end of one run takes its number off the display, and a run that waits beside
it comes back only with the refresh that the end starts, whose failure nobody repeats
(`Shell.tsx:961`; `"refresh"` in `hid`); a run that failed hides an older one that still waits, as `threadSnapshot` shows the
newest. Also left unstated: after a reconnect the loop subscribes from its older cursor, so the live
text may repeat a delta that the refreshed snapshot already holds.

## ComputerLease

**State.** `lease` is each bot's row of `computer_execution_leases` with its fence, `state` the
column of the computer, `machine` whether the provider's machine is on, `screen` the supervisor's
assignment of the bot's screen. `session` is a handler that holds a lease (a run, a run of another
computer's bot that visits this one, a boot, recovery or restart), `idle` the sleep job, `op` a
stop of the computer, a takeover's clean-up or a stop of a thread, one at a time. `touched` is `updatedAt` as the idle job compares it. The rest is
history, so that each property can name its exception: `claimant` and `op.prior` say whose claim the
state `booting` or `suspending` is, or was before a stop took it over; `disturbed` that a write, or
a machine switched off, met a state it did not expect; `undercut` that it met that state, but as
somebody else's claim or for a replacement whose lease was lost; `reset`, `abandoned` and `dropped`
that a row was deleted, a process died with a claim, a sleep job came for nothing.

**Actions.** `Start`, `Acquire`, `Reclaim`, `CreateRow`, `Validate` are
`acquireComputerExecutionLease`; `Provision` to `Activate` `provisionComputer` with its boot and
rollback; `TakeScreen`, `Finish`, `Close`, `Renew` and `Release` the session; `RequestTakeover` and
`Pause` the takeover event; `ReadForReplace` to `RecordReplaced` recovery and restart; `BeginSleep`
to `RecordSleep` `sleepComputerIfIdle`; `ReadForStop` to `RecordStop` `computer.stop`;
`ReadForTakeover` and `DeleteRow` the takeover's clean-up; `StopThread`, `DeleteRow` and `FreeScreen`
`stopThreadRuns`, and without the last the start of a teaching session; `ClearThread` `clearThread`.
A stop ends any of the bot's active runs (those of one thread), but deletes the bot's row whichever
run it names. So what resets a fence is a stop or clear of a thread, a stop of the computer, a
forced restart and a takeover's clean-up. Crashes, stalls, lapses and failures of
the provider and of a screen's release are `Faults`.

**What is abstracted.** Workspaces and checkpoints, `setComputer`, `releaseBotComputerSession`
(a bot that is archived or moves), a stop of a group (a stop of each of its bots), the window in which a screen is being released, viewers' screens, a rollback that fails itself, and
a stop that found no `providerRef`.

### Properties

- `MachineUnderRun`: a session whose lease has been valid since it was acquired has a machine under
  it, as long as whoever writes the state or switches the machine off finds the state he expects,
  claimed by himself, and a replacement still has its lease.
- `FencesHold`: until a row is deleted, one session passes the guards and the supervisor gives it
  the screen. After the deletion that need not hold (see the known divergences).
- `HeldUntilReleased`: on a team computer nobody ends another's live lease.
- `PowerSettles`, `IdleSleeps`: a boot or suspension ends; an unused computer is put to sleep.

What their exceptions say of the program: nothing but a forced restart recovers a `booting` or
`suspending` computer whose process died; a stop or recovery that is refused writes back the state
it read before its claim, which may leave `booting` for good after the boot has finished or failed;
the rollback of a boot that lost its claim switches off whatever runs by then; `replaceComputer`
does not claim a stopped computer; the takeover event writes `running` unguarded; a sleep job that
comes while the state is claimed ends without rescheduling; renewing does not test the expiry; a
recovery or restart never renews its own lease, so that a slow one may lose it and destroy the
machine under a run of the same bot; a takeover deletes by id a row that may have been acquired
since. The 24 hours' lease of a waiting run keeps its computer awake, although
`computer-idle.test.ts:36` says it "does not let an abandoned waiting takeover prevent idle
suspension".

## ComputerControl

**State.** `control` is the control columns of the computer's row, `issued` the last lease id,
`row` the execution leases, `status` the runs, `jobs` the queued `computer.control-expire` jobs
(whose key is the lease), `taught` the lease that each teaching session recorded. `session` is a
handler: what it read, the lease it handles and where it is. A run whose handler executes a
takeover event is `asking` until the lease is held for the user, and `held` until the run is paused.
`transferred` and `orphaned` are history: the waiting runs whose control went to something else, and
the runs whose execution lease was taken or deleted once it was held for the user.

**Actions.** `ReadTakeover`, `Transfer`, `Reload`, `Look`, `DeleteRow`, `Grant` and `Schedule` are
`computer.takeover`; `ReadExpiry`, `Deny` and `Finalize` are `expireComputerControl`, called by
the job (`TakeJob`), by a takeover, and by whoever finds the lease expired (`FindExpired`);
`ReadRelease`, `Finalize` and `CancelExpiry` are `computer.release` and, in the other order, the
release of a teaching session; `ReadTeach`, `Extend` and `Overwrite` its grant. `Ask`, `Hold` and
`Pause` are the takeover event of a run, with whatever comes between its three writes; `Halt` and
`Unlease` a stop of a thread (two statements, `thread-target.ts:653` and `:661`) or of all the bot's
runs by a teaching session that starts, `Clear` a clear (one transaction); `StopComputer` is
`computer.stop`, whose provider may fail, `Replace` a boot or replacement under a lease of its own, `Reconcile` the reconciler's
scan of controls, `Repeat` a second `run.continue` job that claims the waiting run.

**What is abstracted.** The machine always runs (a stop is a stop and the next boot). A stop of a
group is a `Halt` for each bot, a forced restart one for each bot and a `StopComputer`. A stopped
run's handler does nothing more here; the lease it still has lapses. Left out are `setComputer`,
what a boot writes to the control columns, bots that are archived, deleted or dissolved with their
group, the screens at the provider but for a revocation that fails, and the jobs that continue a
resumed run, which are `RunLifecycle`'s. The takeover's
reads of the lease row and of its run are one step.

### Properties

- `ControlIsHeld`: control ends by a handler of that very lease, by a stop, or by a run that asks
  for a takeover. It rests on every write comparing the lease id.
- `WaitingIsReachable`: whatever became of the control it was given, a waiting run can be named by
  the next takeover, since its bot's execution lease names it from the moment it was held. The
  exceptions, `orphaned`, are the runs that lost it to a stop or clear of another thread of their
  bot, a stop of the computer, another run or a boot, or a takeover whose clean-up deletes by id a row
  acquired since. What must not cost a run its lease is a transfer, an expiry, a failure, a
  renewal, a release, or the clean-up of a takeover that looked at the waiting run itself.
- `NamedRunResumes`: a run for which control was taken goes on, although jobs are lost and the
  provider fails. It rests on the denial keeping the lease id, so that the reconciler finds it.

What else the model shows of the program: a run that asks for a takeover on a team computer
clears the user's control of another bot without a guard (`executor.ts:2824`), though
`docs/computer-runtime.md:57` calls it exclusive; a takeover looks at the execution lease only, so
a queued run without one does not block it; one overtaken by another bot's grant returns the other
bot's lease; a run that waits for a takeover loses its lease to a stop or clear of another thread of
its bot (`thread-target.ts:661`, `events.ts:217`), also to one that comes between hold and pause, as
to a stop of the computer, or to another run on a personal computer: the next takeover is granted
without the run, its release resumes nobody, though `docs/computer-runtime.md:57` says that "after
release, the agent may continue", and the run waits until it is stopped itself; a renewal that races with an expiry which read the lapsed
lease is lost; a teaching grant for another bot while the control is being expired keeps the old
run id, and that run is not resumed; teaching's failed scheduling is not undone, but the reconciler
recovers it; a teaching release enqueues no continuation.

## HistoryCompaction

**State.** `base`, `next`, `cursor`, `summary` and `generation` are the thread: its messages are
`base .. next - 1` (numbers are given under its lock, and only a clear deletes), and the summary is
the set of messages it stands for. `worker` is a `history.compact` job, `store` the external memory
as pairs of generation and message, `purging` the purges that cleared threads still owe, `run` a
run that reads the thread and its messages in two queries.

**Actions.** `Send`, `ClearThread`, `PurgeCleared` are the requests; `ReadThread`, `ReadMessages`
(in either order), `BuildContext` and `CompleteRun` the run; `TakeJob`, `ReadBatch`, `Refuse`,
`Decline`, `Advance` or `LoseAdvance`, `SaveVerbatim`, `Recheck`, `PurgeStale` and `Requeue` are
`compactHistory`, one action per statement or remote call, each with its failure.

**What is abstracted.** What the summarizer writes; the job is a Boolean with unlimited retries;
`memory.reflect` and threads without external memory are left out.

### Properties

- `ContextIsWhole`: a run's context has no hole between the summary and its messages, although both
  are read at different times; `SummaryIsFaithful` (proved) says what the summary stands for.
- `RecallIsCurrent`, `ClearedIsPurged`: what is recalled belongs to the conversation, and what was
  saved too late is purged by the job, unless the purge fails.
- `SavedOnce`: no batch is saved twice.
- `ImplementsMemory`: every step is a step of `MemoryContract`; `Drains`: the backlog is worked off.

What else it shows: after a clear with a successful recall only the newest `WindowSize` messages
are shown, against the comment at `history-compaction.ts:55`; the bootstrap of a legacy thread does
not move the cursor, so two jobs may both pass its compare-and-set; a crash between the advance and
the save loses that verbatim batch.

## Routines

**State.** `row` is each routine's row (its next date is a natural number or `Never`; a cron is a
period), `wake` the queued `routine.wakeup` job of its key, `runs` the runs it made, `handler` the
jobs being executed, `edit` a request that edits, `reconciler` the processes with their cursor and
page, `lock` the session that has the advisory lock. `edited`, `overtaken` and `claimed` are
history.

**Actions.** `TakeWake`, `ReadRoutine`, `SkipWake`, `DeferWake`, `ClaimWake`, `LoseClaim`,
`EnqueueRun`, `RestoreClaim`, `RearmWake` are `wakeRoutine`; `CreateRoutine`, `ReadForUpdate`,
`UpdateRow`, `RemoveRoutine`, `PublishEdit` and `UndoCreate` the requests and the agent's tools;
`Scan`, `PublishWake`, `LoseSession`, `NoticeLoss` and `RestartReconciler` the reconciler.

**What is abstracted.** What a cron expression means, inactive creations.

### Properties

- `FiredOnce`: an occurrence of a routine nobody edits makes one run, unless a restore was overtaken:
  the restore puts the row back even if its run was already taken.
- `LastIsKept`: the occurrence claimed last has its run, or the row is back at it.
- `DueFires`: what is due fires. It is about one page at a time; a reconciler whose pages are always
  full would starve the rows behind its cursor.
- `OneShotStaysFired` does not hold (see the findings).

## Delegation

**State.** `bot` is each bot's row (live, archived, deleted, and the key of the tool call that
spawned it), `grouped` and `members` the group and its members, `run` the runs with the thread they
work in and what is left of the message that woke them: its key, its hop and, `kept`, whether it is
still in the thread. `effect` are the rows of the tool calls. `handler` is what a slot carries
between the transactions of a tool call, `request` what an API handler read before its own. `depth`
is history: how many messages in a row led to a run.

**Actions.** `Take` and `EndTurn` begin and end a turn; `Take` also takes a run from a handler
whose lease lapsed. `Call` records an effect or claims one that was left behind, `Settle` completes
it. `Address`, `Check`, `Deliver` and `Undelivered` are `messageBot`; `HandOff` and `RefuseHandOff`
are `handoffToGroupBot`; `CreateBot`, `FindSpawned`, `CreateBotFails`, `EnsureSpawnRun` and
`FindSpawnRun` are `spawnBot`. The user's are `AskBot` and `AskGroup`, which look, and `Send`,
`Stop`, `Clear`, `Archive`, `Restore`, `CancelDestroyed`, `Destroy`, `UpdateGroup`, `RemoveGroup`
and `Fail`, which act on what was seen.

**What is abstracted.** A run is queued, running, completed or cancelled: leases, pauses and failures
are `RunLifecycle`'s. A group send goes to one member. Names, default bots, jobs, notifications and
what a destroy removes besides rows of runs, effects and members are left out, and so is
`createGroup`: there is one group, which exists at first.

### Properties

- `WokenOnce`: a message or a spawn, however often its tool call is executed, and although a clear
  deletes the message that has its key, is worked on by one run.
- `ChainsEnd`: bots that message each other stop, although the hop is kept in a message that a clear
  deletes: the clear also cancels the run that would count from it.
- `GroupIsWhole`: a group has enough members, all of them bots that exist, and only members work in
  its thread. Archived members count: `detachBotFromGroups` looks at the live ones, and a group with
  too few of those is hidden, not deleted.
- `SpawnIsWhole`: a spawn that succeeded has given its bot the prompt, unless the bot was destroyed.

What else it shows, and no property claims: a hand-off executed twice wakes the member twice, as
it has no key (`group-handoff.ts:96`); hand-offs have no limit, and a spawn starts the count again;
a message delivered while its recipient is being archived leaves the archived bot with a run that
is executed (`child-bots.ts:263`), although `builtin-tools.ts:764` says that archiving stops its work;
two bots that message each other at once lock their threads in opposite orders, and one of the two
calls is aborted (`bot-messages.ts:165`).

## Runs

| run | instance | what it shows |
| --- | --- | --- |
| `RunLifecycle` | 1 run, 2 slots of one process, any one fault of all kinds, 1 pause, stop and clear | leases, cards, history, outcome, the contract, `WorkSettles` |
| `RunLifecycleCancels` | 2 runs, 1 slot, archive, replace, supersede, clear, 1 lapse, 1 pause | `NoAttemptLeaks` and `OutcomesStand` where requests write on a stale read |
| `EffectGateSafety` | 2 requests of 2 tools, 2 handlers, 2 faults, 4 claims, 1 rule change | record, finality, approval, cards, replay |
| `EventFeed` | 2 writers, 1 follower, batches of 1, 2 events, 2 faults, the client leaves once | contract, wakeups, reconnects, delivery |
| `ThreadViewWeb` | web, 1 run, 5 events, 1 drop or failure, 3 refreshes; all requests but early ones | the messages and the run on display |
| `ThreadMobileMessages` | mobile, 2 runs, 5 events, 2 refreshes | counterexample |
| `ComputerLease` | 11 behaviours on a team computer of 2 bots: a run with a visit, a stop, a restart, a boot, a failing takeover or a failing recovery of its own bot; a run with a takeover and a stop or clear of a thread; a run of the other bot with a recovery, or with a visit and a stop or clear of a thread; a failing recovery; a failing boot with a stop | all of `ComputerLease` |
| `ComputerControl` | 11 behaviours of 2 bots and up to 2 runs: late releases, transfers, a stop of the computer, stops and clears of the run's or another thread, a boot, a teaching session, faults | all of `ComputerControl` |
| `HistoryCompaction` | 2 jobs, windows of 1 and 2, batches of 2, 4 messages, 1 clear, 1 fault, 3 legacy threads | all of `HistoryCompaction` |
| `Routines` | 2 routines that repeat or fire once, 2 jobs, 1 reconciler; both routines, or one with 2 faults or 1 edit | `FiredOnce`, `LastIsKept`, `DueFires` |
| `RoutineOneShotRefires` | 1 routine, 2 edits | counterexample |
| `Delegation` | 2 bots and a third to spawn, 3 runs, 2 tool calls, 2 slots, 2 requests at a time, 1 lapse, chains of 1 | all of `Delegation` |

The type invariants are proved and no longer checked by a run.
`ComputerLease`, `ComputerControl` and `Routines` take the bounds of a behaviour
from a set of `Instances`, so that one run covers several small mixes of actors.

Why the bounds are enough: the races are between two handlers of one run (a third adds nothing
that the second cannot do after going idle); a fault is explored at every step of everything else;
one pause gives a second attempt with a checkpoint, and two runs are what superseding, clearing
and archiving need. In `EffectGate` one tool asks by default and the other only by a rule; two
requests allow a card for one while the other is replayed. In `EventFeed` two writers are what a
race for numbers needs, two events and batches of one make a full batch and an empty one, two
faults break the connection and then its replacement, and followers do not affect each other. In
`ThreadView` five events are a message, a start, a text and the two events of an end or a pause;
three refreshes overlap: that of a reconnect with those that events and requests cause. In
`HistoryCompaction` four messages fill the window and one batch and leave one more, two jobs
overtake each other, and the legacy threads start beyond a second batch. In `Routines` a
routine starts due, with or without its job, and the clock reaches its next date; two routines do
not fit in one page. In
`ComputerControl` a request races with another or with the expiry, and two bots are what a
transfer needs.

Larger instances were checked without an error while the models were written: `ComputerLease` with
two runs and a fault (2.5 million states), a run, a boot, a stop and a takeover (3.3 million), a run,
a stop and a fault (5.0 million); `ComputerControl` with a run of each bot and two takeovers and a
release (2.8 million), with one run, two takeovers, a release and a fault (0.5 million); `Routines`
with edits and faults together (9.2 million), with two routines and a fault (2.3 million);
`ThreadView` with two runs and two refreshes. The theorems have no bounds.

Deadlock checking is off: with the faults and requests used up and the runs ended, the system
really stops.

**Fairness** (`FairSpec`). A handler inside `continueRun` goes on (its turn is bounded by the
model's limits, its statements commit); a slot takes a waiting job (Graphile polls); the
reconciler scans on its interval, and an enqueue that is tried again and again succeeds; a
superseding send commits; an abandoned lease expires because clocks advance. Taking a job and
expiring a lease are strongly fair, as both can be disabled for a while by another slot. Nothing
is assumed of the user: a run that waits may wait forever, and `WorkSettles` says so. Faults are
bounded, which stands for "failures stop for long enough".

In `EventFeed` a generator whose client pulls runs on, the connection's callbacks and timer run
and a committed transaction's NOTIFY is sent or fails; that the timer of `waitForChange` fires is a
hypothesis of `Delivered` alone. Writers need not commit, nor clients stay. In `ComputerLease`
sessions, the sleep job and requests go on once begun and a queued sleep job is executed; runs
need not be created, nor leases lapse. In `ComputerControl` handlers and the queue go on, the reconciler scans and
a control lease expires; no user need release anything. In `HistoryCompaction` jobs go on; that
they finish says nothing of the messages still sent. In `Routines` jobs are executed and
reconcilers scan; time need not pass. `ThreadView` states safety of settled states and assumes no fairness.

## Findings

Each is a run with one property that TLC finds violated.

- `ThreadMobileMessages`: on mobile a refresh that arrives late replaces a newer view, and the
  message it lacks is not delivered again (`apps/mobile/lib/api.ts:260`).
- `RoutineOneShotRefires`: an update that read a one-shot routine before it fired writes the date
  back, and it fires again (`router.ts:1876`).

**Known divergences**, met while modelling and excluded by the properties that would show them:

- `archiveBot` (`child-bots.ts:275`) and `cancelRunsOnComputer` (`router.ts:3464`) cancel runs by id
  after reading them as active, so one that completes in between becomes cancelled, though
  `run-state.test.ts:30` says that a run "never leaves a terminal state except failed retry".
- The claim accepts a run that waits for the user's release, and erases a checkpoint it never read
  (`executor.ts:583`). It takes a duplicate: a job the reconciler enqueues while the first one is
  being executed.
- After "Always allow", the row of a tool that asks only because of a broad rule is never claimed,
  and each later attempt of the run replays the request (`executor.ts:1215`).
- A web client that sends before its thread has loaded takes its cursor from a snapshot it
  discards, and misses the messages only that one held (`Shell.tsx:920`).
- A takeover that finds a bot's lease expired and its run ended deletes the row (`router.ts:1373`), as
  does each stop or clear of a thread (`thread-target.ts:661`, `events.ts:217`), so
  the fence starts at 1 again; if the ended run's screen was not released, the bot's next run is
  refused it, as the comment at `computer-lifecycle.ts:412` warns.
- Those listed with `ComputerLease`, `ComputerControl`, `HistoryCompaction`, `Routines` and
  `Delegation` above.

## Proofs

All obligations are checked by TLAPS with Z3, Zenon and, for temporal steps, LS4. The only
assumptions are those on the constants that the modules name (`ConstantsAssumption`,
`GateAssumption`, `FeedAssumption`, `CompactionAssumption`, `RoutinesAssumption`,
`ControlAssumption`, `DelegationAssumption`, `LeaseAssumption`, `ViewAssumption`), which TLC evaluates in the runs,
and the hypotheses of the theorems about `ImplementsContract` and about settled clients,
which are explained there.

`RunLifecycleProofs`:

- `TypeCorrect`. `TypeOK` is not inductive: a session's run and attempt are only indices into
  tables while the session serves one, which is `Serving`; `Typed` is both.
- `LeasesAreExclusive`, under `PromptClaims`. The invariant `Fencing` says that a session's fence
  is never ahead of its run's; that once the run may be claimed again, or has been claimed by
  another, every claim to come raises the fence above the session's; and, the conjunct that needs
  `PromptClaims`, that whoever read an expired lease has read the fence it still has. Most actions
  neither touch fences nor unlease a run they do not hold (`Quiet`), and one lemma covers them;
  the claim, the pauses and the requeues are done one by one.
- `WaitingRunsAreAnswerable` and `ClearedRunsStaySilent`. `Shown` adds that a cleared run is
  cancelled, and no handler's guard holds of a cancelled run.
- `RunsHaveOneOutcome`. `Owned` says whose an attempt is: a handler that is at work on one is alone
  with it, it belongs to the handler's run, and it has not been settled. `Outcomes` then restates
  the property in a form a step can keep: a settled attempt's run has its outcome, or was cancelled
  afterwards, and is settled by no other attempt. The one step that could break it is the commit of
  `FinalizeRun`, whose guard asks for a run that still runs.
- `AttemptsDoNotLeak`, from the same ownership.
- `OutcomesAreKept`, an action property, with `Doomed`: under the thread's lock, no run that a
  superseding send has read settles before it is written.
- `RunsKeepTheirContract`: `RunLifecycle` implements `RunContract`, step by step. The contract does
  not let a settled run become cancelled, which archives and replacements do when the run ends
  between their read and their write (a known divergence listed under Findings). So the theorem takes
  the behaviours in which none of them comes too late, `[][CancelsAreTimely]_vars`.
  `LeasesImplementTheContract` drops that hypothesis where `Cancels` holds neither kind, which is
  how the run `RunLifecycle` instantiates the module.

`EffectGateProofs`:

- `GateTypeCorrect`, with `GateHasRequest` as the strengthening.
- `RecordsAreHonest`. `RecordIsHonest` looks at rows; the induction needs to know who is about to
  change them. `ExecutionIsOwned` says that a handler that executes a keyed request is the only
  one, that the row is executing (or given up as uncertain) meanwhile, and that the effect has
  happened exactly if the handler is past it. `GateIsKeyed` keeps calls without a key out.
- `AskedRequestsAreAllowed`, from `ApprovalIsGiven`: a row is approved, or was read as approved,
  only after the user's answer.
- `SettledEffectsAreFinal`, an action property, from the type invariant.
- `CardsAreAnswerable`, `RequestsReplayOnce`, both until the rules change. `RulesAreLoaded` says
  that a handler in the gate works with the rules there are, so that all agree which requests ask.
  `CardsAreAsked` follows a card from the claim of its row to the pause of the run: a handler that
  is about to pause for a request has left its effect intended, and nobody else can claim it
  meanwhile. `ReplaysAreKeyed` says that a request with a row has a stable key, so that a
  replay runs under that row and no request is replayed more often than it is performed, which is
  once at most (`RecordsAreHonest`).

`ThreadProofs`, first of `EventFeed`, with `IInv`, the conjunction of `TypeOK`, `Numbered` and
`Contiguous`, as the inductive invariant:

- `FeedTypeCorrect`.
- `ClientsMissNothing`: `ImplementsFeed`, step by step. `Numbered` says that events lie below the
  counter and that the open transaction, which has the lock, goes on from it; so a commit adds
  numbers only above every earlier one. `Contiguous` says that a batch is a piece of the table:
  no event lies between the cursor and the batch's end without being in the batch, even after
  deletions and commits that came after it was read.
- `NoWakeupIsLost`, from `Aware`: already between its read and its sleep a follower that missed an
  event has a changed latch, or the signal for it is due.
- `ConnectionRecovers`, which is inductive together with the type invariant.

Then of `ThreadView`:

- `ViewTypeCorrect`, for both clients. `ViewInv` adds that every snapshot, on its way or on display,
  has a cursor and messages of the log.
- `SettledMessages` and `SettledProgress`, from `ThreadInv`. `Table` says what the events of the table
  tell of the log: only progress leaves it without a clear, and an event that brings up a run which
  is over is followed by that of its end. `Stream` says that the loop has read and is about to read
  exactly the events of the table, in order. The heart is `Told(s, c)`: what a snapshot owes to the events up to `c`. It has exactly
  their messages, or a clear is still to come; and what it shows live exists, or its end is still to
  come. Every answer on its way is told up to its own cursor (`Snapshots`) and the view up to the
  loop's (`Shown`), though the view's own cursor may lie below it, as some events do not move it. A
  transaction keeps that true because whatever it changes comes with an event past every cursor
  (`ToldStays`), an event because the reducer does to the view what the transaction did to the tables
  (`EventTold`), and a refresh because an answer replaces only a view that is no newer, and
  otherwise no more than adds its run. A settled client has nothing to come.
- `SettledRun`, from `RunsInv`, which adds the runs. `Turns` and `Entries` tie a status to the event
  that announced it, and `Handover` says what may have started since a run began to wait.
  `ToldRun` is `Told` for the run on display: it has the status its run has entered, or the event
  that says so is still to come; and the newest run is on display once its start has been applied.
  As a stale answer may replace the run on display, `Fresh` and `Kept` say why the latest one does
  no harm: it has seen every event that itself starts a refresh, and other events leave on display
  the run that the answer shows, or one that started since. `Answering` and `Awaiting` follow the
  run that is left waiting when another ends (`Outlasts`), until the refresh has brought it back.
  The proof attempt corrected `RunConverges` for two runs, beyond the bound of the run: it had not
  excepted the failure of that refresh.

The three theorems about settled clients take `Client = "web"` and `"early" \notin Requests`. The
mobile client violates the first (see Findings), and requests before the thread has loaded are a known
divergence; `ThreadViewWeb` checks the properties under the same two conditions.

`HistoryCompactionProofs`, where `IInv` ties what a job read to the thread as it is now:

- `CompactionTypeCorrect`, `SummariesAreFaithful`. `ReadEarlier` says that a job of the current
  generation read an earlier state of the same conversation, and `BatchFollows` that its batch
  begins where that state ended (or, for a legacy thread, covers it all), so that the
  compare-and-set on cursor and generation makes the union the whole beginning.
- `ContextsAreWhole` from the same, for a run between its two reads.
- `NothingIsSavedTwice`, `RecallStaysCurrent`, from `SInv`, which adds `Apart`: what is stored
  or about to be stored of the conversation lies before its cursor, and before what another job may
  still store.
- `ClearedHistoryIsPurged`, `MemoryIsKept` (the refinement, step by step).

`RoutinesProofs`, with `IInv`, the conjunction of `TypeOK` and `Core`:

- `RoutinesTypeCorrect`, `OccurrencesFireOnce`, `LastOccurrenceIsKept`. `Core` orders the claims
  that may still be given back: the row lies after each of them (`RowIsAhead`), they follow each
  other (`ClaimsFollow`), the last can be given back (`LastCanReturn`), and the runs lie before the
  row and around the claims (`RunsAreBehind`, `RunsAreAround`).

`ComputerControlProofs`:

- `ControlTypeCorrect`, with `Aimed`: a handler that looks at a bot's rows has a bot.
- `WaitingRunsStayReachable`. `WaitingIsReachable` is not inductive because a run comes to wait in
  two steps, and because of the takeover's clean-up, which deletes by id a row it read before.
  `HeldIsReachable` says of a run whose lease is held what the property says of one that waits;
  `RowsBegun` (a row names a run that was
  created) and `DeletesEnded` (a run whose row is about to be deleted has ended, and an end is
  final) say that the run it deletes never waits again.
- `ControlEndsByItsLease`, an action property from the types, one lemma per kind of handler.

`ComputerLeaseProofs`:

- `ComputerTypeCorrect`, with the fact that a handler has a holder exactly while it is at work.
- `OneSessionPerFence`. `FenceInv` says of a bot whose row was never deleted that neither a screen
  nor a session is ahead of the row, that who is level with it is the row's run, and that no two
  sessions have the same fence. Only an acquisition raises a fence, above all there are
  (`LeaseMoves` says so of every step); all other steps keep sessions, rows and screens or clear
  them.
- `LeasesAreHeld`, an action property from the fences: the row a step writes is that of the session
  that takes it, so a guard that names run and fence keeps everybody else out.
- `RunsHaveTheirMachine`, from `PowerInv`. `Claims` says of each handler that works on a claim that
  the state is still its own; `Stands` says what a session with a sound lease stands on: a boot on
  the state it claimed, a session in use on a running computer and its machine, or either on the
  claim of a stop or recovery that has not looked at the runs yet and will give back exactly the
  state that was there. `CalmSessions`, `CalmIdle` and `CalmOp` list what a step of each kind of
  handler does to the state when it meets what it expects. The proof corrected
  the property twice: a recovery does not renew its lease, so a run of its own bot may acquire a
  machine it is about to destroy; and a claim can be undone that is another's by then. Both are
  now part of what `undercut` and `disturbed` record.
- `ClaimsAreAttended` and `SleepStaysDue`, from `SettleInv`: the safety halves of `PowerSettles` and
  `IdleSleeps`. A computer that boots or is being suspended has a handler at work that settles it
  (`Attended`); one that runs has a sleep job queued or executing (`SleepComes`). `StopNotes`,
  `ReplacementNotes`, `StopKeepsSleep` and `ReplacementKeepsSleep` say the same of the state a stop
  or a recovery may give back. What remains for fairness, and for TLC, is that handlers go on. The
  proof showed that a stop may give back the claim of a boot that has failed meanwhile, which nobody
  settles; `disturbed` records it.

`DelegationProofs`:

- `DelegationTypeCorrect`. What each step does to the runs is one lemma, `RunsChange`: a run keeps
  its identity, vanishes with its bot or group, or comes to be in one of four ways.
- `BotsAreWokenOnce`. `WokenOnce` is inductive up to what tells a new run from those there are: a
  message with the same key is still kept if its run is active, because what deletes the message
  cancels the run.
- `ChainsAreBounded`. The invariant says that an active run woken by a message still has it and that
  its hop is the run's depth, and the same of the hop a handler has computed from it; a handler
  whose run was cancelled meanwhile may have read a hop that is too low, and is refused.
- `GroupsAreWhole`, together with what an update has seen: its bots are enough.
- `SpawnsAreWhole`. The invariant `Prompted` adds to the property that the bot a call is about keeps
  its key (`PromptsFit`), that a key has one existing bot (`OneBotPerKey`), and that a run which
  prompts a bot is that bot's and goes with it (`PromptsBelong`).

Every safety property that a run checks is proved. Only model-checked, as liveness under fairness is
out of the prover's reach, are
`WorkSettles`, `Delivered`, `Pushed`, `Drains`, `DueFires`, `NamedRunResumes`, `PowerSettles` and
`IdleSleeps`, though for the last two the invariants above are what their fairness acts on. There is
no recursive definition in the models.

## What could come next

- `request_secret` in `EffectGate`; `setComputer`; `createGroup` and sends to several members.
- Sentinels, and the teaching sessions beyond what they do to the control of a computer.
- Theorems: which of the settled client's properties the mobile client keeps, and under which
  conditions; the safety halves of the other liveness properties (a queued run has a job, a scan or a handler coming; a backlog has a compaction due).

## Not modelled

Connectors, model and voice providers, sandbox drivers and the clients' other views are I/O
around the rows modelled here. Of the thread view, group threads, paging, the optimistic clear
and late progress of a stopped run are left out; of the fan-out, its `close` and the in-memory
version; of the computer, `setComputer`, workspaces and viewers' screens. Memory, artifacts,
search, accounts and onboarding are handlers over single rows. The desktop application and the
updater manage processes on one machine. The model's turn is external: that it ends is part of the
fairness, and what it says is no part of any property.
