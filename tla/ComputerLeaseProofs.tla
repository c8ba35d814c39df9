------------------------ MODULE ComputerLeaseProofs -------------------------
(***************************************************************************)
(* Proofs about ComputerLease, for any number of bots, holders, sessions   *)
(* and failures: a fence has one session, a session keeps its lease until  *)
(* it gives it up and has a machine under it while it uses the computer;   *)
(* a claim of the computer's state has somebody who settles it, and a      *)
(* computer that runs a job that puts it to sleep.                         *)
(***************************************************************************)
EXTENDS ComputerLease, TLAPS

Statuses == {"new", "ready", "resumed", "waiting", "ended"} \cup Sessions
Claimants == Sessions \cup {"idle", "op", None}

RunOK == run \in [Holders -> Statuses]
SessionOK ==
  /\ session \in [Sessions -> Session]
  /\ \A s \in Sessions : session[s].run = None <=> At(s, "off")
LeaseOK == lease \in [Bots -> Row] /\ screen \in [Bots -> ScreenLease] /\ reset \subseteq Bots
ComputerOK ==
  /\ state \in States /\ touched \in BOOLEAN /\ claimant \in Claimants
  /\ disturbed \in BOOLEAN /\ undercut \in BOOLEAN
RestOK ==
  /\ machine \in BOOLEAN /\ idle \in Idle /\ sleepJob \in BOOLEAN
  /\ op \in Op /\ operations \subseteq Operations
  /\ abandoned \in BOOLEAN /\ dropped \in BOOLEAN /\ faults \in Nat

-----------------------------------------------------------------------------
(* Types.                                                                  *)

LEMMA Parts == TypeOK <=> RunOK /\ SessionOK /\ LeaseOK /\ ComputerOK /\ RestOK
BY DEF TypeOK, RunOK, SessionOK, LeaseOK, ComputerOK, RestOK, Statuses, Claimants

LEMMA PartsNext == TypeOK' <=> RunOK' /\ SessionOK' /\ LeaseOK' /\ ComputerOK' /\ RestOK'
BY DEF TypeOK, RunOK, SessionOK, LeaseOK, ComputerOK, RestOK, Statuses, Claimants, At

LEMMA HoldersNamed ==
  /\ \A r \in Holders : KindOf[r] \in Kinds /\ BotOf[r] \in Bots /\ r # None
  /\ \A s \in Sessions :
       s \notin {"new", "ready", "resumed", "waiting", "ended", "idle", "op", None}
  /\ None \notin Bots
BY LeaseAssumption

LEMMA OffTyped == Off \in Session
BY DEF Off, Session, Steps, States

\* A handler at work is one of some holder.
LEMMA Holding ==
  ASSUME TypeOK, NEW s \in Sessions, ~At(s, "off")
  PROVE  /\ session[s] \in Session /\ session[s].run \in Holders
         /\ Kind(s) \in Kinds /\ Bot(s) \in Bots /\ run[session[s].run] \in Statuses
<1>1. session[s] \in Session /\ session[s].run # None BY DEF TypeOK, At
<1>2. session[s].run \in Holders BY <1>1 DEF Session
<1> QED BY <1>1, <1>2, HoldersNamed DEF Kind, Bot, TypeOK, Statuses

LEMMA SessionWritten ==
  ASSUME TypeOK, NEW s \in Sessions, NEW x \in Session, x.run = None <=> x.step = "off",
         session' = [session EXCEPT ![s] = x]
  PROVE  SessionOK'
BY DEF TypeOK, SessionOK, At

LEMMA Leaving ==
  ASSUME TypeOK, NEW s \in Sessions, session' = [session EXCEPT ![s] = Off] PROVE SessionOK'
<1>1. Off.run = None <=> Off.step = "off" BY DEF Off
<1> QED BY <1>1, OffTyped, SessionWritten

LEMMA Going ==
  ASSUME TypeOK, NEW s \in Sessions, NEW step \in Steps \ {"off"}, ~At(s, "off"), Go(s, step)
  PROVE  SessionOK'
<1> DEFINE x == [session[s] EXCEPT !.step = step]
<1>1. session[s] \in Session /\ session[s].run # None BY DEF TypeOK, At
<1>2. x \in Session /\ (x.run = None <=> x.step = "off") BY <1>1 DEF Session
<1>3. session' = [session EXCEPT ![s] = x] BY DEF Go
<1> QED BY <1>2, <1>3, SessionWritten

\* What writes to the runs and to the computer's row leave.
LEMMA RunWritten ==
  ASSUME TypeOK, NEW r \in Holders, NEW x \in Statuses
  PROVE  [run EXCEPT ![r] = x] \in [Holders -> Statuses]
BY DEF TypeOK, Statuses

LEMMA Requeuing ==
  ASSUME TypeOK, NEW s \in Sessions, ~At(s, "off") PROVE Requeued(s) \in [Holders -> Statuses]
BY Holding, RunWritten DEF Requeued, TypeOK, Statuses

LEMMA BusyTyped ==
  ASSUME TypeOK, NEW s \in Sessions, ~At(s, "off"), Busy(s) PROVE RunOK' /\ SessionOK'
BY Requeuing, Leaving DEF Busy, RunOK

LEMMA GiveUpTyped ==
  ASSUME TypeOK, NEW s \in Sessions, ~At(s, "off"), GiveUp(s) PROVE RunOK' /\ SessionOK'
<1>1. "release" \in Steps \ {"off"} BY DEF Steps
<1> QED BY <1>1, Requeuing, Going DEF GiveUp, RunOK

LEMMA MeetsTyped ==
  ASSUME NEW expected, NEW own, TypeOK, Meets(expected, own)
  PROVE  disturbed' \in BOOLEAN /\ undercut' \in BOOLEAN
BY DEF Meets, TypeOK

LEMMA ClaimTyped ==
  ASSUME TypeOK, NEW x \in Claimants, NEW new \in States, Claim(x, new) PROVE ComputerOK'
BY DEF Claim, TypeOK, ComputerOK

LEMMA OverwriteTyped ==
  ASSUME TypeOK, NEW new \in States, NEW expected, NEW own, Overwrite(new, expected, own)
  PROVE  ComputerOK'
BY MeetsTyped DEF Overwrite, ComputerOK, Claimants

LEMMA SettleTyped ==
  ASSUME TypeOK, NEW x, NEW claimed, NEW new \in States, Settle(x, claimed, new)
  PROVE  ComputerOK'
<1>1. CASE state = claimed BY <1>1, OverwriteTyped DEF Settle
<1>2. CASE state # claimed BY <1>2, Parts DEF Settle, computer, ComputerOK
<1> QED BY <1>1, <1>2

LEMMA ExpectingTyped ==
  ASSUME TypeOK, NEW expected, NEW own, Expecting(expected, own) PROVE ComputerOK'
BY MeetsTyped, Parts DEF Expecting, ComputerOK

LEMMA RestoreTyped ==
  ASSUME TypeOK, NEW x, NEW exact, NEW seen \in States, NEW prior \in Claimants,
         Restore(x, exact, seen, prior)
  PROVE  ComputerOK'
BY Parts DEF Restore, ComputerOK, computer, TypeOK

LEMMA ComputerKept == TypeOK /\ UNCHANGED computer => ComputerOK'
BY Parts DEF ComputerOK, computer

\* Leases.
LEMMA ExpiredTyped ==
  ASSUME TypeOK, NEW s \in Sessions, ~At(s, "off") PROVE Expired(s) \in [Bots -> Row]
<1>1. lease[Bot(s)] \in Row BY Holding DEF TypeOK
<1>2. [lease[Bot(s)] EXCEPT !.live = FALSE] \in Row BY <1>1 DEF Row
<1> QED BY <1>2 DEF Expired, TypeOK

LEMMA LeaseKept == TypeOK /\ UNCHANGED <<lease, screen, reset>> => LeaseOK'
BY DEF TypeOK, LeaseOK

LEMMA LeaseWritten ==
  ASSUME TypeOK, lease' \in [Bots -> Row], UNCHANGED <<screen, reset>> PROVE LeaseOK'
BY DEF TypeOK, LeaseOK

LEMMA ObtainTyped ==
  ASSUME TypeOK, NEW s \in Sessions, ~At(s, "off"), Obtain(s)
  PROVE  /\ lease' \in [Bots -> Row] /\ SessionOK' /\ RunOK'
         /\ lease'[Bot(s)] = LiveRow(session[s].run, lease[Bot(s)].fence + 1)
<1>1. session[s] \in Session /\ session[s].run \in Holders /\ Bot(s) \in Bots BY Holding
<1>2. lease[Bot(s)] \in Row /\ lease \in [Bots -> Row] BY <1>1 DEF TypeOK
<1> DEFINE row == LiveRow(session[s].run, lease[Bot(s)].fence + 1)
<1>3. row \in Row /\ row.fence = lease[Bot(s)].fence + 1 BY <1>1, <1>2 DEF Row, LiveRow
<1>4. lease' = [lease EXCEPT ![Bot(s)] = row] BY DEF Obtain, Taken
<1>5. lease' \in [Bots -> Row] /\ lease'[Bot(s)] = row BY <1>1, <1>2, <1>3, <1>4
<1> DEFINE x == [session[s] EXCEPT !.step = "validate", !.fence = lease[Bot(s)].fence + 1]
<1>6. session' = [session EXCEPT ![s] = x] BY <1>3, <1>5 DEF Obtain
<1>7. lease[Bot(s)].fence + 1 \in Nat BY <1>2 DEF Row
<1>8. x \in Session /\ (x.run = None <=> x.step = "off")
  BY <1>1, <1>7, HoldersNamed DEF Session, Steps
<1>9. SessionOK' BY <1>6, <1>8, SessionWritten
<1>10. RunOK' BY DEF Obtain, RunOK, TypeOK, Statuses
<1> QED BY <1>5, <1>9, <1>10

LEMMA PartsKept ==
  /\ TypeOK /\ UNCHANGED run => RunOK'
  /\ TypeOK /\ UNCHANGED session => SessionOK'
  /\ TypeOK /\ UNCHANGED <<machine, sleep, request, abandoned, faults>> => RestOK'
BY DEF TypeOK, RunOK, SessionOK, RestOK, Statuses, At, sleep, request

LEMMA Faulty ==
  ASSUME TypeOK, NEW kind, Fault(kind) PROVE faults' \in Nat /\ faults' # faults
BY DEF TypeOK, Fault

LEMMA StepNames == Steps = {"off", "cancel", "acquire", "reclaim", "create", "validate",
  "leased", "replace", "take", "runs", "destroy", "record", "claim", "reconnect",
  "booting", "booted", "using", "pausing", "closing", "release"}
BY DEF Steps

LEMMA TypedInit == Init => TypeOK
<1> SUFFICES ASSUME Init PROVE TypeOK OBVIOUS
<1> USE LeaseAssumption
<1>1. PICK i \in Instances : /\ run = [r \in Holders |-> IF r \in i.holders THEN "new" ELSE "ended"]
                             /\ operations = i.operations /\ faults = i.faults
  BY DEF Init
<1>2. RunOK BY <1>1 DEF RunOK, Statuses
<1>3. SessionOK
  <2>1. session = [s \in Sessions |-> Off] BY DEF Init
  <2> QED BY <2>1, OffTyped DEF SessionOK, At, Off
<1>4. LeaseOK
  <2>1. NoRow \in Row /\ NoScreen \in ScreenLease BY DEF NoRow, Row, NoScreen, ScreenLease
  <2> QED BY <2>1 DEF Init, LeaseOK
<1>5. ComputerOK BY DEF Init, ComputerOK, States, Claimants
<1>6. RestOK
  <2>1. (CHOOSE b \in Bots : TRUE) \in Bots OBVIOUS
  <2>2. op \in Op BY <2>1 DEF Init, Op, States
  <2>3. i.operations \subseteq Operations /\ i.faults \in Nat OBVIOUS
  <2>4. NoIdle \in Idle BY DEF Idle, NoIdle
  <2>5. idle = NoIdle /\ machine = FALSE /\ sleepJob = FALSE /\ abandoned = FALSE /\ dropped = FALSE
    BY DEF Init
  <2> QED BY <1>1, <2>2, <2>3, <2>4, <2>5 DEF RestOK
<1> QED BY <1>2, <1>3, <1>4, <1>5, <1>6, Parts

LEMMA TypedHolders ==
  ASSUME TypeOK, NEW r \in Holders, Create(r) \/ ResumeRun(r) PROVE TypeOK'
<1>1. RunOK' BY RunWritten DEF Create, ResumeRun, RunOK, Statuses
<1>2. UNCHANGED <<session, lease, computer, host, sleep, request, reset, abandoned, faults>>
  BY DEF Create, ResumeRun
<1> QED BY <1>1, <1>2, PartsKept, LeaseKept, ComputerKept, PartsNext DEF host

LEMMA TypedStart ==
  ASSUME TypeOK, NEW s \in Sessions, NEW r \in Holders, Start(s, r) PROVE TypeOK'
<1> DEFINE x == [Off EXCEPT !.run = r,
                   !.step = IF KindOf[r] = "restart" THEN "cancel" ELSE "acquire",
                   !.resume = (run[r] = "resumed")]
<1>1. x \in Session /\ (x.run = None <=> x.step = "off")
  BY HoldersNamed DEF Off, Session, Steps, States
<1>2. session' = [session EXCEPT ![s] = x] BY DEF Start
<1>3. SessionOK' BY <1>1, <1>2, SessionWritten
<1>4. RunOK' BY RunWritten DEF Start, RunOK, Statuses
<1> QED BY <1>3, <1>4, PartsKept, LeaseKept, ComputerKept, PartsNext DEF Start, host

LEMMA ScreensOff ==
  /\ NoScreen \in ScreenLease /\ NoRow \in Row
  /\ [b \in Bots |-> NoScreen] \in [Bots -> ScreenLease]
  /\ [b \in Bots |-> NoRow] \in [Bots -> Row]
  /\ TypeOK => \A b \in Bots, x \in ScreenLease : [screen EXCEPT ![b] = x] \in [Bots -> ScreenLease]
BY DEF NoScreen, NoRow, ScreenLease, Row, TypeOK

LEMMA RowRevived ==
  ASSUME TypeOK, NEW b \in Bots
  PROVE  /\ [lease EXCEPT ![b].live = TRUE] \in [Bots -> Row]
         /\ [lease EXCEPT ![b].live = FALSE, ![b].kept = FALSE] \in [Bots -> Row]
         /\ [lease EXCEPT ![b] = NoRow] \in [Bots -> Row]
<1>1. lease \in [Bots -> Row] /\ lease[b] \in Row BY DEF TypeOK
<1>2. /\ [lease[b] EXCEPT !.live = TRUE] \in Row
      /\ [[lease[b] EXCEPT !.live = FALSE] EXCEPT !.kept = FALSE] \in Row
      /\ NoRow \in Row
  BY <1>1 DEF Row, NoRow
<1> QED BY <1>1, <1>2

LEMMA OpSteps ==
  ASSUME TypeOK,
         NEW step \in {"off", "claim", "others", "unlease", "stop", "record", "delete",
                        "forget", "screen"}
  PROVE  [op EXCEPT !.step = step] \in Op
BY DEF TypeOK, Op

\* A session notes what it read.
LEMMA Notes ==
  ASSUME TypeOK, NEW s \in Sessions, ~At(s, "off"), NEW step \in Steps \ {"off"}
  PROVE  /\ \A seen \in States :
              session' = [session EXCEPT ![s].step = step, ![s].seen = seen] => SessionOK'
         /\ \A exact \in BOOLEAN :
              session' = [session EXCEPT ![s].step = step, ![s].exact = exact] => SessionOK'
<1>1. session[s] \in Session /\ session[s].run # None BY DEF TypeOK, At
<1>2. ASSUME NEW seen \in States,
             session' = [session EXCEPT ![s].step = step, ![s].seen = seen]
      PROVE  SessionOK'
  <2> DEFINE x == [session[s] EXCEPT !.step = step, !.seen = seen]
  <2>1. x \in Session /\ (x.run = None <=> x.step = "off") BY <1>1 DEF Session
  <2>2. session' = [session EXCEPT ![s] = x] BY <1>2
  <2> QED BY <2>1, <2>2, SessionWritten
<1>3. ASSUME NEW exact \in BOOLEAN,
             session' = [session EXCEPT ![s].step = step, ![s].exact = exact]
      PROVE  SessionOK'
  <2> DEFINE x == [session[s] EXCEPT !.step = step, !.exact = exact]
  <2>1. x \in Session /\ (x.run = None <=> x.step = "off") BY <1>1 DEF Session
  <2>2. session' = [session EXCEPT ![s] = x] BY <1>3
  <2> QED BY <2>1, <2>2, SessionWritten
<1> QED BY <1>2, <1>3

LEMMA TypedSessions ==
  ASSUME TypeOK, NEW s \in Sessions,
         SessionStep(s) \/ Renew(s) \/ TakeScreen(s) \/ RequestTakeover(s)
         \/ CrashSession(s) \/ RunLapses(s)
  PROVE  TypeOK'
<1> USE PartsKept, LeaseKept, ComputerKept, PartsNext DEF host
<1>h. ASSUME ~At(s, "off")
      PROVE /\ session[s] \in Session /\ session[s].run \in Holders
            /\ Kind(s) \in Kinds /\ Bot(s) \in Bots /\ run[session[s].run] \in Statuses
  BY <1>h, Holding
<1>w. \A r \in Holders, x \in Statuses : [run EXCEPT ![r] = x] \in [Holders -> Statuses]
  BY RunWritten
<1>s. {"ready", "resumed", "waiting", "ended"} \subseteq Statuses BY DEF Statuses
<1>1. CASE Acquire(s)
  BY <1>1, BusyTyped, Going, StepNames DEF Acquire, At
<1>2. CASE Reclaim(s)
  BY <1>2, ObtainTyped, LeaseWritten, Going, StepNames DEF Reclaim, At
<1>3. CASE CreateRow(s)
  BY <1>3, ObtainTyped, BusyTyped, LeaseWritten DEF CreateRow, At
<1>4. CASE Validate(s)
  BY <1>4, ExpiredTyped, BusyTyped, LeaseWritten, Going, StepNames DEF Validate, At
<1>5. CASE Release(s)
  BY <1>5, ExpiredTyped, Leaving, LeaseWritten DEF Release, At
<1>6. CASE Provision(s)
  BY <1>6, Going, StepNames DEF Provision, At
<1>7. CASE Reconnect(s)
  <2>1. RunOK' BY <1>7, <1>h, <1>w, <1>s, GiveUpTyped DEF Reconnect, At, RunOK
  <2>2. SessionOK' BY <1>7, GiveUpTyped, Going, StepNames DEF Reconnect, At
  <2>3. RestOK' BY <1>7, Faulty, Parts DEF Reconnect, RestOK, request, At
  <2> QED BY <1>7, <2>1, <2>2, <2>3 DEF Reconnect
<1>8. CASE ClaimBoot(s)
  <2>1. ComputerOK' BY <1>8, ClaimTyped DEF ClaimBoot, Claimants, States
  <2>2. RunOK' /\ SessionOK' BY <1>8, GiveUpTyped, Going, StepNames DEF ClaimBoot, At
  <2> QED BY <1>8, <2>1, <2>2 DEF ClaimBoot
<1>9. CASE PowerOn(s)
  <2>1. ComputerOK' BY <1>9, SettleTyped DEF PowerOn, BootFailed, States
  <2>2. RunOK' /\ SessionOK' BY <1>9, GiveUpTyped, Going, StepNames DEF PowerOn, At
  <2>3. RestOK' BY <1>9, Faulty, Parts DEF PowerOn, RestOK, sleep, request
  <2> QED BY <1>9, <2>1, <2>2, <2>3 DEF PowerOn
<1>10. CASE Activate(s)
  <2>1. ComputerOK' BY <1>10, SettleTyped, ExpectingTyped DEF Activate, BootFailed, States
  <2>2. RunOK'
    <3>1. ~At(s, "off") BY <1>10 DEF Activate, At
    <3>2. \/ GiveUp(s) \/ UNCHANGED run \/ run' = [run EXCEPT ![session[s].run] = "ended"]
      BY <1>10 DEF Activate
    <3> QED BY <3>1, <3>2, <1>h, <1>w, <1>s, GiveUpTyped, Parts DEF RunOK
  <2>3. SessionOK' BY <1>10, GiveUpTyped, Going, StepNames DEF Activate, At
  <2>4. LeaseOK' BY <1>10, ScreensOff, Parts DEF Activate, LeaseOK, MachineStops
  <2>5. RestOK' BY <1>10, Faulty, Parts DEF Activate, MachineStops, RestOK, request
  <2> QED BY <1>10, <2>1, <2>2, <2>3, <2>4, <2>5
<1>11. CASE Finish(s)
  <2>1. RunOK' BY <1>11, <1>h, <1>w, <1>s DEF Finish, At, RunOK
  <2> QED BY <1>11, <2>1, Going, StepNames DEF Finish, At
<1>12. CASE Close(s)
  <2>1. SessionOK' BY <1>12, Going, StepNames DEF Close, At
  <2>2. screen' \in [Bots -> ScreenLease] BY <1>12, ScreensOff DEF Close, TypeOK
  <2>3. LeaseOK' BY <1>12, <2>2 DEF Close, LeaseOK, TypeOK
  <2>4. RestOK' BY <1>12, Faulty, Parts DEF Close, RestOK, sleep, request
  <2> QED BY <1>12, <2>1, <2>3, <2>4 DEF Close
<1>13. CASE Pause(s)
  <2>1. UNCHANGED lease \/ lease' = [lease EXCEPT ![Bot(s)].live = TRUE]
    <3>1. CASE Matches(s) BY <1>13, <3>1, Zenon DEF Pause
    <3>2. CASE ~Matches(s) BY <1>13, <3>2, Zenon DEF Pause
    <3> QED BY <3>1, <3>2
  <2>2. ~At(s, "off") BY <1>13 DEF Pause, At
  <2>3. lease' \in [Bots -> Row]
    <3>1. lease \in [Bots -> Row] BY DEF TypeOK
    <3>2. Bot(s) \in Bots BY <2>2, <1>h
    <3>3. [lease EXCEPT ![Bot(s)].live = TRUE] \in [Bots -> Row] BY <3>2, RowRevived
    <3> QED BY <2>1, <3>1, <3>3
  <2>4. RunOK' BY <1>13, <1>h, <1>w, <1>s DEF Pause, At, RunOK
  <2>5. SessionOK' BY <1>13, Leaving, Going, StepNames DEF Pause, At
  <2> QED BY <1>13, <2>3, <2>4, <2>5, LeaseWritten DEF Pause
<1>14. CASE ForceOut(s)
  <2>1. RunOK' BY <1>14, <1>s DEF ForceOut, RunOK, TypeOK, Statuses
  <2>2. SessionOK' BY <1>14, Going, StepNames DEF ForceOut, At
  <2>3. ComputerOK' BY <1>14, OverwriteTyped DEF ForceOut, States
  <2>4. LeaseOK' BY <1>14, ScreensOff, Parts DEF ForceOut, LeaseOK, Reset, host
  <2>5. op' \in Op BY <1>14, OpSteps DEF ForceOut, TypeOK
  <2>6. RestOK' BY <1>14, <2>5, Parts DEF ForceOut, RestOK, host, sleep
  <2> QED BY <2>1, <2>2, <2>3, <2>4, <2>6
<1>15. CASE ReadForReplace(s)
  <2>1. ~At(s, "off") /\ state \in States BY <1>15 DEF ReadForReplace, At, TypeOK
  <2>2. CASE GiveUp(s) BY <1>15, <2>1, <2>2, GiveUpTyped DEF ReadForReplace
  <2>3. CASE /\ session' = [session EXCEPT ![s].step = "take", ![s].seen = state]
             /\ UNCHANGED run
    <3>1. SessionOK' BY <2>1, <2>3, Notes, StepNames
    <3> QED BY <1>15, <2>3, <3>1 DEF ReadForReplace
  <2> QED BY <1>15, <2>2, <2>3 DEF ReadForReplace
<1>16. CASE ClaimReplace(s)
  <2>1. ComputerOK'
    BY <1>16, ClaimTyped, MeetsTyped DEF ClaimReplace, States, Claimants, ComputerOK
  <2>2. RunOK' /\ SessionOK' BY <1>16, GiveUpTyped, Notes, Going, StepNames DEF ClaimReplace, At
  <2> QED BY <1>16, <2>1, <2>2 DEF ClaimReplace
<1>17. CASE CheckRuns(s)
  <2>1. session[s].seen \in States BY <1>17, <1>h DEF CheckRuns, At, Session
  <2>2. ComputerOK' BY <1>17, <2>1, RestoreTyped DEF CheckRuns, Claimants
  <2>3. RunOK' /\ SessionOK' BY <1>17, GiveUpTyped, Going, StepNames DEF CheckRuns, At
  <2> QED BY <1>17, <2>2, <2>3 DEF CheckRuns
<1>18. CASE Destroy(s)
  <2>1. ComputerOK' BY <1>18, OverwriteTyped, ExpectingTyped DEF Destroy, States
  <2>2. RunOK' /\ SessionOK' BY <1>18, GiveUpTyped, Going, StepNames DEF Destroy, At
  <2>3. LeaseOK' BY <1>18, ScreensOff, Parts DEF Destroy, LeaseOK, MachineStops
  <2>4. RestOK' BY <1>18, Faulty, Parts DEF Destroy, MachineStops, RestOK, sleep, request
  <2> QED BY <2>1, <2>2, <2>3, <2>4
<1>19. CASE RecordReplaced(s)
  <2>1. ComputerOK' BY <1>19, OverwriteTyped DEF RecordReplaced, States
  <2> QED BY <1>19, <2>1, Going, StepNames DEF RecordReplaced, At
<1>20. CASE Renew(s)
  <2>1. \/ UNCHANGED lease \/ lease' = [lease EXCEPT ![Bot(s)].live = TRUE] BY <1>20 DEF Renew
  <2>2. lease' \in [Bots -> Row]
    <3>1. lease \in [Bots -> Row] BY DEF TypeOK
    <3>2. Bot(s) \in Bots BY <1>20, <1>h DEF Renew, At
    <3>3. [lease EXCEPT ![Bot(s)].live = TRUE] \in [Bots -> Row] BY <3>2, RowRevived
    <3> QED BY <2>1, <3>1, <3>3
  <2>3. SessionOK' BY <1>20, Going, StepNames DEF Renew, At
  <2> QED BY <1>20, <2>2, <2>3, LeaseWritten DEF Renew
<1>21. CASE TakeScreen(s)
  <2>1. Lease(s) \in ScreenLease BY <1>21, <1>h DEF TakeScreen, At, Lease, ScreenLease, Session
  <2>2. LeaseOK' BY <1>21, <2>1, ScreensOff, Parts DEF TakeScreen, LeaseOK
  <2>3. RestOK' BY <1>21, Faulty, Parts DEF TakeScreen, RestOK, sleep, request
  <2> QED BY <1>21, <2>2, <2>3 DEF TakeScreen
<1>22. CASE RequestTakeover(s)
  <2>1. ComputerOK' BY <1>22, OverwriteTyped DEF RequestTakeover, States
  <2> QED BY <1>22, <2>1, Going, StepNames DEF RequestTakeover, At
<1>23. CASE RunLapses(s)
  <2>1. RunOK' BY <1>23, <1>h, <1>w, <1>s DEF RunLapses, RunOK
  <2>2. RestOK' BY <1>23, Faulty, Parts DEF RunLapses, RestOK, host, sleep, request
  <2> QED BY <1>23, <2>1, <2>2 DEF RunLapses
<1>24. CASE CrashSession(s)
  <2>1. RunOK' BY <1>24, <1>h, <1>w, <1>s DEF CrashSession, RunOK, TypeOK, Statuses
  <2>2. RestOK' BY <1>24, Faulty, Parts DEF CrashSession, Abandon, RestOK, host, sleep, request
  <2> QED BY <1>24, <2>1, <2>2, Leaving DEF CrashSession
<1> QED BY <1>1, <1>2, <1>3, <1>4, <1>5, <1>6, <1>7, <1>8, <1>9, <1>10, <1>11, <1>12, <1>13,
           <1>14, <1>15, <1>16, <1>17, <1>18, <1>19, <1>20, <1>21, <1>22, <1>23, <1>24
        DEF SessionStep

LEMMA TypedServices ==
  ASSUME TypeOK,
         (\E counts \in BOOLEAN : BeginSleep(counts)) \/ SleepStep \/ CrashIdle
  PROVE  TypeOK'
<1> USE PartsKept, LeaseKept, ComputerKept, PartsNext DEF host
<1>i. NoIdle \in Idle /\ idle \in Idle
      /\ \A step \in {"off", "checkpoint", "recheck", "stop", "record"} :
           [idle EXCEPT !.step = step] \in Idle
  BY DEF Idle, NoIdle, TypeOK
<1>1. ASSUME NEW counts \in BOOLEAN, BeginSleep(counts) PROVE TypeOK'
  <2>1. [step |-> "checkpoint", counts |-> counts] \in Idle BY DEF Idle
  <2>2. RestOK' BY <1>1, <1>i, <2>1, Parts DEF BeginSleep, RestOK, Rescheduled, request
  <2>3. ComputerOK' BY <1>1, Parts DEF BeginSleep, ComputerOK
  <2> QED BY <1>1, <2>2, <2>3 DEF BeginSleep
<1>2. CASE ClaimSleep
  <2>1. RestOK' BY <1>2, <1>i, Parts DEF ClaimSleep, RestOK, Rescheduled, request
  <2>2. ComputerOK' BY <1>2, Parts DEF ClaimSleep, ComputerOK, States, Claimants, computer
  <2> QED BY <1>2, <2>1, <2>2 DEF ClaimSleep
<1>3. CASE RecheckSleep
  <2>1. RestOK' BY <1>3, <1>i, Parts DEF RecheckSleep, RestOK, Rescheduled, request
  <2>2. ComputerOK' BY <1>3, SettleTyped DEF RecheckSleep, States
  <2> QED BY <1>3, <2>1, <2>2 DEF RecheckSleep
<1>4. CASE StopIdle
  <2>1. RestOK'
    BY <1>4, <1>i, Faulty, Parts DEF StopIdle, RestOK, Rescheduled, MachineStops, request
  <2>2. ComputerOK' BY <1>4, SettleTyped, ExpectingTyped DEF StopIdle, States
  <2>3. LeaseOK' BY <1>4, ScreensOff, Parts DEF StopIdle, LeaseOK, MachineStops
  <2> QED BY <1>4, <2>1, <2>2, <2>3 DEF StopIdle
<1>5. CASE RecordSleep
  <2>1. RestOK' BY <1>5, <1>i, Parts DEF RecordSleep, RestOK, request
  <2>2. ComputerOK' BY <1>5, OverwriteTyped DEF RecordSleep, States
  <2> QED BY <1>5, <2>1, <2>2 DEF RecordSleep
<1>6. CASE CrashIdle
  <2>1. RestOK'
    BY <1>6, <1>i, Faulty, Parts DEF CrashIdle, RestOK, Rescheduled, Abandon, request
  <2> QED BY <1>6, <2>1 DEF CrashIdle
<1> QED BY <1>1, <1>2, <1>3, <1>4, <1>5, <1>6 DEF SleepStep

LEMMA RunsCancelled ==
  ASSUME TypeOK, NEW b \in Bots, Cancels(b) PROVE RunOK'
BY Parts DEF Cancels, RunOK, Statuses

LEMMA TypedRequests ==
  ASSUME TypeOK,
         \/ OpStep \/ CrashOp
         \/ \E b \in Bots : BotStep(b)
  PROVE  TypeOK'
<1> USE PartsKept, LeaseKept, ComputerKept, PartsNext DEF host
<1>o. \A step \in {"off", "claim", "others", "unlease", "stop", "record", "delete",
                        "forget", "screen"} :
        [op EXCEPT !.step = step] \in Op
  BY OpSteps
<1>b. op \in Op /\ op.bot \in Bots /\ op.seen \in States /\ op.prior \in Claimants
  BY DEF TypeOK, Op, Claimants
<1>d. ASSUME NEW b \in Bots, Delete(b), UNCHANGED screen PROVE LeaseOK'
  <2>1. lease' \in [Bots -> Row] /\ reset' \subseteq Bots
    BY <1>d, RowRevived, Parts DEF Delete, Reset, LeaseOK
  <2> QED BY <1>d, <2>1, Parts DEF LeaseOK
<1>1. ASSUME NEW b \in Bots, ReadForStop(b) \/ ReadForTakeover(b) PROVE TypeOK'
  <2>1. op' \in Op
    <3>1. PICK step \in {"claim", "delete"} :
            op' = [step |-> step, bot |-> b, seen |-> state, exact |-> TRUE, prior |-> None]
      BY <1>1 DEF ReadForStop, ReadForTakeover
    <3> QED BY <3>1 DEF Op, TypeOK
  <2>2. RestOK' BY <1>1, <2>1, Parts DEF ReadForStop, ReadForTakeover, RestOK, sleep
  <2> QED BY <1>1, <2>2 DEF ReadForStop, ReadForTakeover
<1>9. ASSUME NEW b \in Bots, StopThread(b) PROVE TypeOK'
  <2>1. op' \in Op BY <1>9 DEF StopThread, Op, TypeOK
  <2>2. RestOK' BY <1>9, <2>1, Parts DEF StopThread, RestOK, sleep
  <2>3. RunOK' BY <1>9, RunsCancelled DEF StopThread
  <2> QED BY <1>9, <2>2, <2>3 DEF StopThread
<1>10. ASSUME NEW b \in Bots, ClearThread(b) PROVE TypeOK'
  <2>1. op' \in Op BY <1>10, <1>o, <1>b DEF ClearThread
  <2>2. RestOK' BY <1>10, <2>1, Parts DEF ClearThread, RestOK, sleep
  <2>3. RunOK' BY <1>10, RunsCancelled DEF ClearThread
  <2>4. LeaseOK' BY <1>10, <1>d DEF ClearThread, host
  <2> QED BY <1>10, <2>2, <2>3, <2>4 DEF ClearThread
<1>2. ASSUME NEW b \in Bots, LeaseLapses(b) PROVE TypeOK'
  <2>1. RestOK' BY <1>2, Faulty, Parts DEF LeaseLapses, RestOK, sleep, request
  <2>2. LeaseOK' BY <1>2, RowRevived, LeaseWritten DEF LeaseLapses
  <2> QED BY <1>2, <2>1, <2>2 DEF LeaseLapses
<1>3. CASE ClaimStop
  <2>1. [op EXCEPT !.step = "others", !.exact = (state = op.seen), !.prior = claimant] \in Op
    BY <1>b DEF Op, TypeOK
  <2>2. RestOK' BY <1>3, <1>o, <2>1, Parts DEF ClaimStop, OpGo, RestOK, sleep
  <2>3. ComputerOK' BY <1>3, ClaimTyped DEF ClaimStop, States, Claimants
  <2> QED BY <1>3, <2>2, <2>3 DEF ClaimStop
<1>4. CASE CheckOthers
  <2>1. RestOK' BY <1>4, <1>o, Parts DEF CheckOthers, OpGo, RestOK, sleep
  <2>2. ComputerOK' BY <1>4, <1>b, RestoreTyped DEF CheckOthers
  <2> QED BY <1>4, <2>1, <2>2 DEF CheckOthers
<1>5. CASE Unlease \/ DeleteRow
  <2>1. RestOK' BY <1>5, <1>o, Parts DEF Unlease, DeleteRow, OpGo, RestOK, sleep
  <2>4. LeaseOK' BY <1>5, <1>b, <1>d DEF Unlease, DeleteRow, host
  <2> QED BY <1>5, <2>1, <2>4 DEF Unlease, DeleteRow
<1>11. CASE FreeScreen
  <2>1. RestOK' BY <1>11, <1>o, Parts DEF FreeScreen, OpGo, RestOK, sleep
  <2>2. LeaseOK' BY <1>11, <1>b, ScreensOff, Parts DEF FreeScreen, LeaseOK
  <2> QED BY <1>11, <2>1, <2>2 DEF FreeScreen
<1>6. CASE StopMachine
  <2>1. RestOK' BY <1>6, <1>o, Faulty, Parts DEF StopMachine, OpGo, RestOK, MachineStops, sleep
  <2>2. ComputerOK' BY <1>6, SettleTyped, ExpectingTyped DEF StopMachine, States
  <2>3. LeaseOK' BY <1>6, ScreensOff, Parts DEF StopMachine, LeaseOK, MachineStops
  <2> QED BY <1>6, <2>1, <2>2, <2>3 DEF StopMachine
<1>7. CASE RecordStop
  <2>1. RestOK' BY <1>7, <1>o, Parts DEF RecordStop, OpGo, RestOK, sleep
  <2>2. ComputerOK' BY <1>7, OverwriteTyped DEF RecordStop, States
  <2> QED BY <1>7, <2>1, <2>2 DEF RecordStop
<1>8. CASE CrashOp
  <2>1. RestOK' BY <1>8, <1>o, Faulty, Parts DEF CrashOp, OpGo, RestOK, Abandon, sleep
  <2> QED BY <1>8, <2>1 DEF CrashOp
<1> QED BY <1>1, <1>2, <1>3, <1>4, <1>5, <1>6, <1>7, <1>8, <1>9, <1>10, <1>11
        DEF OpStep, BotStep

LEMMA TypedNext == TypeOK /\ [Next]_vars => TypeOK'
<1> SUFFICES ASSUME TypeOK, [Next]_vars PROVE TypeOK' OBVIOUS
<1>1. CASE Next
  BY <1>1, TypedHolders, TypedStart, TypedSessions, TypedServices, TypedRequests DEF Next
<1>2. CASE UNCHANGED vars
  BY <1>2, PartsKept, LeaseKept, ComputerKept, PartsNext DEF vars, host
<1> QED BY <1>1, <1>2

\* Whatever sessions, jobs, requests and failures interleave, the variables
\* keep their types, and a handler has a holder exactly while it is at work
\* (computer-lifecycle.ts:282).
THEOREM ComputerTypeCorrect == Spec => []TypeOK
BY TypedInit, TypedNext, PTL DEF Spec

\* A session has a fence from the moment it has a lease.
Before == {"off", "cancel", "acquire", "reclaim", "create"}
Ahead == \A s \in Sessions : session[s].step \notin Before => session[s].fence > 0

\* No fence of a bot, be it a screen's or a session's, is ahead of its row, and
\* no two sessions have the same.
Of(s, b) == session[s].run # None /\ Bot(s) = b
Fenced(b) ==
  /\ screen[b].fence <= lease[b].fence
  /\ screen[b].fence = lease[b].fence /\ lease[b].fence > 0 =>
       screen[b].run = lease[b].run
  /\ \A s \in Sessions : Of(s, b) =>
       /\ session[s].fence <= lease[b].fence
       /\ session[s].fence > 0 =>
            /\ session[s].fence = lease[b].fence => session[s].run = lease[b].run
            /\ \A t \in Sessions \ {s} : Of(t, b) => session[t].fence # session[s].fence
Fences == \A b \in Bots \ reset : Fenced(b)

\* What a step other than an acquisition makes of a session, a row and a screen.
GoesOn(s) ==
  \/ /\ session'[s].run = session[s].run /\ session'[s].fence = session[s].fence
     /\ session[s].step \in Before => session'[s].step \in Before
  \/ session'[s].fence = 0 /\ session'[s].step \in Before
SameLease(b) == lease'[b].run = lease[b].run /\ lease'[b].fence = lease[b].fence
ScreenMoves(b) ==
  \/ screen'[b] = screen[b] \/ screen'[b] = NoScreen
  \/ \E s \in Sessions : At(s, "using") /\ Bot(s) = b /\ screen'[b] = Lease(s)
Ordinary ==
  /\ \A s \in Sessions : GoesOn(s)
  /\ \A b \in Bots \ reset' : SameLease(b)
  /\ \A b \in Bots : ScreenMoves(b)
  /\ reset \subseteq reset'
Acquires(s) ==
  \/ At(s, "reclaim") /\ Reclaims(s)
  \/ At(s, "create") /\ (lease[Bot(s)] = NoRow \/ ~Team)

LEMMA SameSessions ==
  /\ UNCHANGED session => \A s \in Sessions : GoesOn(s)
  /\ UNCHANGED screen => \A b \in Bots : ScreenMoves(b)
  /\ UNCHANGED lease => \A b \in Bots : SameLease(b)
BY DEF GoesOn, ScreenMoves, SameLease

LEMMA GoGoesOn ==
  ASSUME TypeOK, NEW s \in Sessions, NEW step,
         session[s].step \in Before => step \in Before, Go(s, step)
  PROVE  \A t \in Sessions : GoesOn(t)
<1> TAKE t \in Sessions
<1>1. session[s] \in Session /\ session \in [Sessions -> Session] BY DEF TypeOK
<1>2. CASE t = s BY <1>1, <1>2 DEF Go, GoesOn, Session
<1>3. CASE t # s BY <1>1, <1>3 DEF Go, GoesOn
<1> QED BY <1>2, <1>3

LEMMA OffGoesOn ==
  ASSUME TypeOK, NEW s \in Sessions, session' = [session EXCEPT ![s] = Off]
  PROVE  \A t \in Sessions : GoesOn(t)
<1>1. Off.fence = 0 /\ Off.step \in Before BY DEF Off, Before
<1> QED BY <1>1 DEF GoesOn, TypeOK

LEMMA NotesGoOn ==
  ASSUME TypeOK, NEW s \in Sessions, session[s].step \notin Before, NEW step, NEW x,
         \/ session' = [session EXCEPT ![s].step = step, ![s].seen = x]
         \/ session' = [session EXCEPT ![s].step = step, ![s].exact = x]
  PROVE  \A t \in Sessions : GoesOn(t)
<1> TAKE t \in Sessions
<1>1. session[s] \in Session /\ session \in [Sessions -> Session] BY DEF TypeOK
<1>2. CASE t = s
  <2>1. CASE session' = [session EXCEPT ![s].step = step, ![s].seen = x]
    BY <1>1, <1>2, <2>1 DEF GoesOn, Session
  <2>2. CASE session' = [session EXCEPT ![s].step = step, ![s].exact = x]
    BY <1>1, <1>2, <2>2 DEF GoesOn, Session
  <2> QED BY <2>1, <2>2
<1>3. CASE t # s BY <1>1, <1>3 DEF GoesOn
<1> QED BY <1>2, <1>3

LEMMA ExpiredSame ==
  ASSUME TypeOK, NEW s \in Sessions, lease' = Expired(s) PROVE \A b \in Bots : SameLease(b)
<1> TAKE b \in Bots
<1>1. lease \in [Bots -> Row] /\ lease[b] \in Row BY DEF TypeOK
<1>2. [lease[b] EXCEPT !.live = FALSE].run = lease[b].run
      /\ [lease[b] EXCEPT !.live = FALSE].fence = lease[b].fence
  BY <1>1 DEF Row
<1> QED BY <1>1, <1>2 DEF Expired, SameLease

LEMMA RevivedSame ==
  ASSUME TypeOK, NEW c \in Bots,
         \/ lease' = [lease EXCEPT ![c].live = TRUE]
         \/ lease' = [lease EXCEPT ![c].live = FALSE, ![c].kept = FALSE]
  PROVE  \A b \in Bots : SameLease(b)
<1> TAKE b \in Bots
<1>1. lease \in [Bots -> Row] /\ lease[b] \in Row BY DEF TypeOK
<1>2. CASE b = c
  <2>1. CASE lease' = [lease EXCEPT ![c].live = TRUE] BY <1>1, <1>2, <2>1 DEF Row, SameLease
  <2>2. CASE lease' = [lease EXCEPT ![c].live = FALSE, ![c].kept = FALSE]
    BY <1>1, <1>2, <2>2 DEF Row, SameLease
  <2> QED BY <2>1, <2>2
<1>3. CASE b # c BY <1>1, <1>3 DEF SameLease
<1> QED BY <1>2, <1>3

LEMMA ScreensMove ==
  ASSUME TypeOK, screen' = [b \in Bots |-> NoScreen] PROVE \A b \in Bots : ScreenMoves(b)
BY DEF ScreenMoves

\* A row that is deleted is remembered, unless it was not there.
LEMMA DeletedRows ==
  ASSUME TypeOK, NEW bots \in SUBSET Bots, Reset(bots),
         lease' = [b \in Bots |-> IF b \in bots THEN NoRow ELSE lease[b]]
  PROVE  /\ \A b \in Bots \ reset' : SameLease(b)
         /\ reset \subseteq reset'
BY DEF Reset, SameLease

LEMMA GivingUp ==
  ASSUME NEW s \in Sessions, GiveUp(s) \/ Busy(s)
  PROVE  \/ Go(s, "release") \/ session' = [session EXCEPT ![s] = Off]
BY DEF GiveUp, Busy

LEMMA StepsOfSessions ==
  ASSUME TypeOK, NEW s \in Sessions,
         \/ SessionStep(s) \/ Renew(s) \/ TakeScreen(s) \/ RequestTakeover(s)
         \/ CrashSession(s) \/ RunLapses(s)
  PROVE  Ordinary \/ (Acquires(s) /\ Obtain(s) /\ UNCHANGED <<screen, reset>>)
<1> USE SameSessions DEF host
<1>1. CASE Acquire(s)
  <2>1. \A t \in Sessions : GoesOn(t)
    <3>1. CASE Go(s, "reclaim") BY <3>1, GoGoesOn DEF Before
    <3>2. CASE Busy(s) BY <3>2, OffGoesOn DEF Busy
    <3> QED BY <1>1, <3>1, <3>2 DEF Acquire
  <2> QED BY <1>1, <2>1 DEF Acquire, Ordinary
<1>2. CASE Validate(s)
  <2>1. \A t \in Sessions : GoesOn(t)
    BY <1>2, GoGoesOn, OffGoesOn, GivingUp DEF Validate, At, Before
  <2>2. \A b \in Bots : SameLease(b) BY <1>2, ExpiredSame DEF Validate
  <2> QED BY <1>2, <2>1, <2>2 DEF Validate, Ordinary
<1>3. CASE Release(s)
  <2>1. \A t \in Sessions : GoesOn(t) BY <1>3, GoGoesOn, OffGoesOn DEF Release, At, Before
  <2>2. \A b \in Bots : SameLease(b) BY <1>3, ExpiredSame DEF Release
  <2> QED BY <1>3, <2>1, <2>2 DEF Release, Ordinary
<1>4. CASE Provision(s)
  <2>1. \A t \in Sessions : GoesOn(t) BY <1>4, GoGoesOn, OffGoesOn DEF Provision, At, Before
  <2> QED BY <1>4, <2>1 DEF Provision, Ordinary
<1>5. CASE Reconnect(s)
  <2>1. \A t \in Sessions : GoesOn(t)
    BY <1>5, GoGoesOn, OffGoesOn, GivingUp DEF Reconnect, At, Before
  <2> QED BY <1>5, <2>1 DEF Reconnect, Ordinary
<1>6. CASE ClaimBoot(s)
  <2>1. \A t \in Sessions : GoesOn(t)
    BY <1>6, GoGoesOn, OffGoesOn, GivingUp DEF ClaimBoot, At, Before
  <2> QED BY <1>6, <2>1 DEF ClaimBoot, Ordinary
<1>7. CASE PowerOn(s)
  <2>1. \A t \in Sessions : GoesOn(t)
    BY <1>7, GoGoesOn, OffGoesOn, GivingUp DEF PowerOn, At, Before
  <2> QED BY <1>7, <2>1 DEF PowerOn, Ordinary
<1>8. CASE Activate(s)
  <2>1. \A t \in Sessions : GoesOn(t)
    BY <1>8, GoGoesOn, OffGoesOn, GivingUp DEF Activate, At, Before
  <2>2. \A b \in Bots : ScreenMoves(b) BY <1>8, ScreensMove DEF Activate, MachineStops
  <2> QED BY <1>8, <2>1, <2>2 DEF Activate, Ordinary
<1>9. CASE Finish(s)
  <2>1. \A t \in Sessions : GoesOn(t) BY <1>9, GoGoesOn, OffGoesOn DEF Finish, At, Before
  <2> QED BY <1>9, <2>1 DEF Finish, Ordinary
<1>10. CASE Close(s)
  <2>1. \A t \in Sessions : GoesOn(t) BY <1>10, GoGoesOn, OffGoesOn DEF Close, At, Before
  <2>2. \A b \in Bots : ScreenMoves(b) BY <1>10, Holding DEF Close, At, ScreenMoves, TypeOK
  <2> QED BY <1>10, <2>1, <2>2 DEF Close, Ordinary
<1>11. CASE Pause(s)
  <2>1. \A t \in Sessions : GoesOn(t) BY <1>11, GoGoesOn, OffGoesOn DEF Pause, At, Before
  <2>2. UNCHANGED lease \/ lease' = [lease EXCEPT ![Bot(s)].live = TRUE]
    <3>1. CASE Matches(s) BY <1>11, <3>1, Zenon DEF Pause
    <3>2. CASE ~Matches(s) BY <1>11, <3>2, Zenon DEF Pause
    <3> QED BY <3>1, <3>2
  <2>3. Bot(s) \in Bots BY <1>11, Holding DEF Pause, At
  <2>4. \A b \in Bots : SameLease(b) BY <2>2, <2>3, RevivedSame
  <2> QED BY <1>11, <2>1, <2>4 DEF Pause, Ordinary
<1>12. CASE ForceOut(s)
  <2>1. \A t \in Sessions : GoesOn(t) BY <1>12, GoGoesOn, OffGoesOn DEF ForceOut, At, Before
  <2>2. CASE ActiveRuns = {} BY <1>12, <2>1, <2>2 DEF ForceOut, Ordinary
  <2>3. CASE ActiveRuns # {}
    <3>1. lease' = [b \in Bots |-> IF b \in Bots THEN NoRow ELSE lease[b]] /\ Reset(Bots)
      BY <1>12, <2>3 DEF ForceOut
    <3>2. (\A b \in Bots \ reset' : SameLease(b)) /\ reset \subseteq reset' BY <3>1, DeletedRows
    <3> QED BY <1>12, <2>1, <3>2 DEF ForceOut, Ordinary
  <2> QED BY <2>2, <2>3
<1>13. CASE ReadForReplace(s)
  <2>1. \A t \in Sessions : GoesOn(t)
    BY <1>13, GoGoesOn, OffGoesOn, GivingUp, NotesGoOn DEF ReadForReplace, At, Before
  <2> QED BY <1>13, <2>1 DEF ReadForReplace, Ordinary
<1>14. CASE ClaimReplace(s)
  <2>1. \A t \in Sessions : GoesOn(t)
    BY <1>14, GoGoesOn, OffGoesOn, GivingUp, NotesGoOn DEF ClaimReplace, At, Before
  <2> QED BY <1>14, <2>1 DEF ClaimReplace, Ordinary
<1>15. CASE CheckRuns(s)
  <2>1. \A t \in Sessions : GoesOn(t)
    BY <1>15, GoGoesOn, OffGoesOn, GivingUp DEF CheckRuns, At, Before
  <2> QED BY <1>15, <2>1 DEF CheckRuns, Ordinary
<1>16. CASE Destroy(s)
  <2>1. \A t \in Sessions : GoesOn(t)
    BY <1>16, GoGoesOn, OffGoesOn, GivingUp DEF Destroy, At, Before
  <2>2. \A b \in Bots : ScreenMoves(b) BY <1>16, ScreensMove DEF Destroy, MachineStops
  <2> QED BY <1>16, <2>1, <2>2 DEF Destroy, Ordinary
<1>17. CASE RecordReplaced(s)
  <2>1. \A t \in Sessions : GoesOn(t)
    BY <1>17, GoGoesOn, OffGoesOn DEF RecordReplaced, At, Before
  <2> QED BY <1>17, <2>1 DEF RecordReplaced, Ordinary
<1>18. CASE Renew(s)
  <2>1. \A t \in Sessions : GoesOn(t) BY <1>18, GoGoesOn, OffGoesOn DEF Renew, At, Before
  <2>2. UNCHANGED lease \/ lease' = [lease EXCEPT ![Bot(s)].live = TRUE]
    <3>1. CASE Matches(s) BY <1>18, <3>1, Zenon DEF Renew
    <3>2. CASE ~Matches(s) BY <1>18, <3>2, Zenon DEF Renew
    <3> QED BY <3>1, <3>2
  <2>3. Bot(s) \in Bots BY <1>18, Holding DEF Renew, At
  <2>4. \A b \in Bots : SameLease(b) BY <2>2, <2>3, RevivedSame
  <2> QED BY <1>18, <2>1, <2>4 DEF Renew, Ordinary
<1>19. CASE TakeScreen(s)
  <2>1. \A t \in Sessions : GoesOn(t) BY <1>19, GoGoesOn, OffGoesOn DEF TakeScreen, At, Before
  <2>2. \A b \in Bots : ScreenMoves(b) BY <1>19, Holding DEF TakeScreen, At, ScreenMoves, TypeOK
  <2> QED BY <1>19, <2>1, <2>2 DEF TakeScreen, Ordinary
<1>20. CASE RequestTakeover(s)
  <2>1. \A t \in Sessions : GoesOn(t)
    BY <1>20, GoGoesOn, OffGoesOn DEF RequestTakeover, At, Before
  <2> QED BY <1>20, <2>1 DEF RequestTakeover, Ordinary
<1>21. CASE RunLapses(s)
  BY <1>21 DEF RunLapses, Ordinary
<1>22. CASE CrashSession(s)
  <2>1. \A t \in Sessions : GoesOn(t) BY <1>22, GoGoesOn, OffGoesOn DEF CrashSession, At, Before
  <2> QED BY <1>22, <2>1 DEF CrashSession, Ordinary
<1>23. CASE Reclaim(s)
  <2>1. CASE Reclaims(s) BY <1>23, <2>1 DEF Reclaim, Acquires
  <2>2. CASE ~Reclaims(s)
    <3>1. \A t \in Sessions : GoesOn(t) BY <1>23, <2>2, GoGoesOn DEF Reclaim, Before
    <3> QED BY <1>23, <2>2, <3>1 DEF Reclaim, Ordinary
  <2> QED BY <2>1, <2>2
<1>24. CASE CreateRow(s)
  <2>1. CASE lease[Bot(s)] = NoRow \/ ~Team BY <1>24, <2>1 DEF CreateRow, Acquires
  <2>2. CASE ~(lease[Bot(s)] = NoRow \/ ~Team)
    <3>1. \A t \in Sessions : GoesOn(t) BY <1>24, <2>2, OffGoesOn DEF CreateRow, Busy
    <3> QED BY <1>24, <2>2, <3>1 DEF CreateRow, Ordinary
  <2> QED BY <2>1, <2>2
<1> QED BY <1>1, <1>2, <1>3, <1>4, <1>5, <1>6, <1>7, <1>8, <1>9, <1>10, <1>11, <1>12, <1>13,
           <1>14, <1>15, <1>16, <1>17, <1>18, <1>19, <1>20, <1>21, <1>22, <1>23, <1>24
        DEF SessionStep

LEMMA OtherSteps ==
  ASSUME TypeOK,
         \/ \E r \in Holders : Create(r) \/ ResumeRun(r)
         \/ \E s \in Sessions, r \in Holders : Start(s, r)
         \/ \E counts \in BOOLEAN : BeginSleep(counts)
         \/ SleepStep \/ OpStep \/ CrashIdle \/ CrashOp
         \/ \E b \in Bots : BotStep(b)
  PROVE  Ordinary
<1> USE SameSessions DEF host
<1>d. ASSUME NEW c \in Bots, Delete(c), UNCHANGED <<session, screen>> PROVE Ordinary
  <2>1. lease' = [b \in Bots |-> IF b \in {c} THEN NoRow ELSE lease[b]]
    BY <1>d DEF Delete, TypeOK
  <2>2. (\A b \in Bots \ reset' : SameLease(b)) /\ reset \subseteq reset'
    BY <1>d, <2>1, DeletedRows DEF Delete
  <2> QED BY <1>d, <2>2 DEF Ordinary
<1>1. CASE \E r \in Holders : Create(r) \/ ResumeRun(r)
  BY <1>1 DEF Create, ResumeRun, Ordinary
<1>2. ASSUME NEW s \in Sessions, NEW r \in Holders, Start(s, r) PROVE Ordinary
  <2> DEFINE x == [Off EXCEPT !.run = r,
                     !.step = IF KindOf[r] = "restart" THEN "cancel" ELSE "acquire",
                     !.resume = (run[r] = "resumed")]
  <2>1. x.fence = 0 /\ x.step \in Before BY DEF Off, Before
  <2>2. session' = [session EXCEPT ![s] = x] BY <1>2 DEF Start
  <2>3. \A t \in Sessions : GoesOn(t) BY <2>1, <2>2 DEF GoesOn, TypeOK
  <2> QED BY <1>2, <2>3 DEF Start, Ordinary
<1>3. CASE \E counts \in BOOLEAN : BeginSleep(counts) BY <1>3 DEF BeginSleep, Ordinary
<1>4. CASE SleepStep
  <2>1. CASE ClaimSleep \/ RecheckSleep \/ RecordSleep
    BY <2>1 DEF ClaimSleep, RecheckSleep, RecordSleep, Ordinary
  <2>2. CASE StopIdle BY <2>2, ScreensMove DEF StopIdle, MachineStops, Ordinary
  <2> QED BY <1>4, <2>1, <2>2 DEF SleepStep
<1>5. CASE OpStep
  <2>1. CASE ClaimStop \/ CheckOthers \/ RecordStop
    BY <2>1 DEF ClaimStop, CheckOthers, RecordStop, Ordinary
  <2>2. CASE StopMachine BY <2>2, ScreensMove DEF StopMachine, MachineStops, Ordinary
  <2>3. CASE Unlease \/ DeleteRow
    BY <2>3, <1>d DEF Unlease, DeleteRow, TypeOK, Op
  <2>4. CASE FreeScreen
    <3>1. \A b \in Bots : ScreenMoves(b) BY <2>4 DEF FreeScreen, ScreenMoves, TypeOK
    <3> QED BY <2>4, <3>1 DEF FreeScreen, Ordinary
  <2> QED BY <1>5, <2>1, <2>2, <2>3, <2>4 DEF OpStep
<1>6. CASE CrashIdle \/ CrashOp BY <1>6 DEF CrashIdle, CrashOp, Ordinary
<1>7. CASE \E b \in Bots : ReadForStop(b) \/ ReadForTakeover(b) \/ StopThread(b)
  BY <1>7 DEF ReadForStop, ReadForTakeover, StopThread, Ordinary
<1>9. CASE \E b \in Bots : ClearThread(b) BY <1>9, <1>d DEF ClearThread
<1>8. CASE \E b \in Bots : LeaseLapses(b)
  <2>1. \A b \in Bots : SameLease(b) BY <1>8, RevivedSame DEF LeaseLapses
  <2> QED BY <1>8, <2>1 DEF LeaseLapses, Ordinary
<1> QED BY <1>1, <1>2, <1>3, <1>4, <1>5, <1>6, <1>7, <1>8, <1>9 DEF BotStep

LEMMA LeaseMoves ==
  ASSUME TypeOK, [Next]_vars
  PROVE  Ordinary \/ \E s \in Sessions : Acquires(s) /\ Obtain(s) /\ UNCHANGED <<screen, reset>>
<1>1. CASE UNCHANGED vars BY <1>1, SameSessions DEF vars, host, Ordinary
<1>2. CASE Next BY <1>2, StepsOfSessions, OtherSteps DEF Next
<1> QED BY <1>1, <1>2

-----------------------------------------------------------------------------
(* Fences.                                                                 *)

LEMMA FenceTypes ==
  ASSUME TypeOK
  PROVE  /\ \A b \in Bots : /\ lease[b] \in Row /\ lease[b].fence \in Nat
                             /\ screen[b] \in ScreenLease /\ screen[b].fence \in Nat
         /\ \A s \in Sessions : session[s].fence \in Nat
BY DEF TypeOK, Row, ScreenLease, Session

LEMMA Obtained ==
  ASSUME TypeOK, NEW s \in Sessions, ~At(s, "off"), Obtain(s)
  PROVE  /\ lease'[Bot(s)].run = session[s].run
         /\ lease'[Bot(s)].fence = lease[Bot(s)].fence + 1
         /\ lease'[Bot(s)].live /\ lease'[Bot(s)].kept
<1>1. lease'[Bot(s)] = LiveRow(session[s].run, lease[Bot(s)].fence + 1) BY ObtainTyped
<1> QED BY <1>1 DEF LiveRow

LEMMA AheadNext == TypeOK /\ Ahead /\ [Next]_vars => Ahead'
<1> SUFFICES ASSUME TypeOK, Ahead, [Next]_vars, NEW t \in Sessions, session'[t].step \notin Before
             PROVE  session'[t].fence > 0
  BY DEF Ahead
<1>1. CASE Ordinary BY <1>1 DEF Ordinary, GoesOn, Ahead
<1>2. ASSUME NEW s \in Sessions, Acquires(s), Obtain(s) PROVE session'[t].fence > 0
  <2>1. ~At(s, "off") BY <1>2 DEF Acquires, At
  <2>2. lease'[Bot(s)].fence = lease[Bot(s)].fence + 1 BY <1>2, <2>1, Obtained
  <2>3. lease[Bot(s)].fence \in Nat BY <2>1, Holding, FenceTypes
  <2>4. session' = [session EXCEPT ![s].step = "validate", ![s].fence = lease'[Bot(s)].fence]
    BY <1>2 DEF Obtain
  <2>5. session \in [Sessions -> Session] /\ session[s] \in Session BY DEF TypeOK
  <2>6. CASE t = s
    <3>1. session'[t].fence = lease'[Bot(s)].fence BY <2>4, <2>5, <2>6 DEF Session
    <3> QED BY <3>1, <2>2, <2>3
  <2>7. CASE t # s BY <2>4, <2>5, <2>7 DEF Ahead
  <2> QED BY <2>6, <2>7
<1> QED BY <1>1, <1>2, LeaseMoves

LEMMA FencesNext == TypeOK /\ Fences /\ Ahead /\ [Next]_vars => Fences'
<1> SUFFICES ASSUME TypeOK, Fences, Ahead, [Next]_vars, NEW b \in Bots \ reset' PROVE Fenced(b)'
  BY DEF Fences
<1>t. TypeOK' BY TypedNext
<1>1. CASE Ordinary
  <2>1. b \notin reset /\ Fenced(b) BY <1>1 DEF Ordinary, Fences
  <2>2. lease'[b].run = lease[b].run /\ lease'[b].fence = lease[b].fence
    BY <1>1 DEF Ordinary, SameLease
  <2>3. \A s \in Sessions : \/ session'[s].run = session[s].run /\ session'[s].fence = session[s].fence
                           \/ session'[s].fence = 0
    BY <1>1 DEF Ordinary, GoesOn
  <2>4. \A s \in Sessions : session'[s].fence > 0 =>
          session'[s].run = session[s].run /\ session'[s].fence = session[s].fence
    BY <2>3, FenceTypes
  <2>5. /\ screen'[b].fence <= lease'[b].fence
        /\ screen'[b].fence = lease'[b].fence /\ lease'[b].fence > 0 =>
             screen'[b].run = lease'[b].run
    <3>1. CASE screen'[b] = screen[b] BY <2>1, <2>2, <3>1 DEF Fenced
    <3>2. CASE screen'[b] = NoScreen
      <4>1. screen'[b].fence = 0 BY <3>2 DEF NoScreen
      <4> QED BY <4>1, <2>2, FenceTypes
    <3>3. ASSUME NEW s \in Sessions, At(s, "using"), Bot(s) = b, screen'[b] = Lease(s)
          PROVE  /\ screen'[b].fence <= lease'[b].fence
                 /\ screen'[b].fence = lease'[b].fence => screen'[b].run = lease'[b].run
      <4>1. session[s].fence > 0 BY <3>3 DEF Ahead, At, Before
      <4>2. session[s].run # None BY <3>3, Holding, HoldersNamed DEF At
      <4>3. screen'[b].fence = session[s].fence /\ screen'[b].run = session[s].run
        BY <3>3 DEF Lease
      <4> QED BY <2>1, <2>2, <3>3, <4>1, <4>2, <4>3 DEF Fenced, Of
    <3> QED BY <1>1, <3>1, <3>2, <3>3 DEF Ordinary, ScreenMoves
  <2>6. ASSUME NEW s \in Sessions, Of(s, b)'
        PROVE  /\ session'[s].fence <= lease'[b].fence
               /\ session'[s].fence > 0 =>
                    /\ session'[s].fence = lease'[b].fence => session'[s].run = lease'[b].run
                    /\ \A t \in Sessions \ {s} : Of(t, b)' => session'[t].fence # session'[s].fence
    <3>1. CASE ~(session'[s].fence > 0)
      <4>1. session'[s].fence \in Nat BY <1>t DEF TypeOK, Session
      <4> QED BY <3>1, <4>1, <2>2, FenceTypes
    <3>2. CASE session'[s].fence > 0
      <4>1. session'[s].run = session[s].run /\ session'[s].fence = session[s].fence /\ Of(s, b)
        BY <2>4, <2>6, <3>2 DEF Of, Bot
      <4>2. ASSUME NEW t \in Sessions \ {s}, Of(t, b)' PROVE session'[t].fence # session'[s].fence
        <5>1. CASE session'[t].fence > 0
          <6>1. session'[t].fence = session[t].fence /\ Of(t, b) BY <2>4, <4>2, <5>1 DEF Of, Bot
          <6> QED BY <2>1, <3>2, <4>1, <6>1 DEF Fenced
        <5>2. CASE ~(session'[t].fence > 0) BY <3>2, <5>2
        <5> QED BY <5>1, <5>2
      <4> QED BY <2>1, <2>2, <3>2, <4>1, <4>2 DEF Fenced
    <3> QED BY <3>1, <3>2
  <2> QED BY <2>5, <2>6 DEF Fenced
<1>2. ASSUME NEW s \in Sessions, Acquires(s), Obtain(s), UNCHANGED <<screen, reset>>
      PROVE  Fenced(b)'
  <2>1. ~At(s, "off") BY <1>2 DEF Acquires, At
  <2>2. /\ lease'[Bot(s)].run = session[s].run /\ lease'[Bot(s)].fence = lease[Bot(s)].fence + 1
        /\ session[s].run \in Holders /\ Bot(s) \in Bots
    BY <1>2, <2>1, Obtained, Holding
  <2>3. \A t \in Sessions : session'[t].run = session[t].run /\ (Of(t, b)' <=> Of(t, b))
    <3>1. session' = [session EXCEPT ![s].step = "validate", ![s].fence = lease'[Bot(s)].fence]
      BY <1>2 DEF Obtain
    <3>2. session \in [Sessions -> Session] /\ session[s] \in Session BY DEF TypeOK
    <3>3. \A t \in Sessions : session'[t].run = session[t].run BY <3>1, <3>2 DEF Session
    <3> QED BY <3>3 DEF Of, Bot
  <2>4. session'[s].fence = lease[Bot(s)].fence + 1
    <3>1. session' = [session EXCEPT ![s].step = "validate", ![s].fence = lease'[Bot(s)].fence]
      BY <1>2 DEF Obtain
    <3>2. session \in [Sessions -> Session] /\ session[s] \in Session BY DEF TypeOK
    <3> QED BY <2>2, <3>1, <3>2 DEF Session
  <2>5. \A t \in Sessions \ {s} : session'[t] = session[t] BY <1>2 DEF Obtain, TypeOK
  <2>6. b \notin reset /\ Fenced(b) /\ screen'[b] = screen[b] BY <1>2 DEF Fences
  <2>7. CASE b = Bot(s)
    <3>1. Of(s, b) BY <2>2, <2>7, HoldersNamed DEF Of
    <3>2. \A t \in Sessions \ {s} : Of(t, b) => session'[t].fence <= lease[b].fence
      BY <2>5, <2>6 DEF Fenced
    <3>3. screen'[b].fence <= lease[b].fence BY <2>6 DEF Fenced
    <3>4. ASSUME NEW t \in Sessions, Of(t, b)'
          PROVE  /\ session'[t].fence <= lease'[b].fence
                 /\ session'[t].fence > 0 =>
                      /\ session'[t].fence = lease'[b].fence => session'[t].run = lease'[b].run
                      /\ \A u \in Sessions \ {t} : Of(u, b)' => session'[u].fence # session'[t].fence
      <4>1. CASE t = s
        BY <2>2, <2>3, <2>4, <2>7, <3>2, <4>1, FenceTypes
      <4>2. CASE t # s
        <5>1. session'[t] = session[t] /\ Of(t, b) BY <2>3, <2>5, <3>4, <4>2
        <5>2. session[t].fence <= lease[b].fence BY <2>6, <5>1 DEF Fenced
        <5>3. session'[t].fence # lease'[b].fence /\ session'[t].fence <= lease'[b].fence
          BY <2>2, <2>7, <5>1, <5>2, FenceTypes
        <5>4. ASSUME NEW u \in Sessions \ {t}, Of(u, b)', session'[t].fence > 0
              PROVE  session'[u].fence # session'[t].fence
          <6>1. CASE u = s BY <2>2, <2>4, <2>7, <5>3, <6>1
          <6>2. CASE u # s BY <2>3, <2>5, <2>6, <5>1, <5>4, <6>2 DEF Fenced
          <6> QED BY <6>1, <6>2
        <5> QED BY <5>3, <5>4
      <4> QED BY <4>1, <4>2
    <3>5. screen'[b].fence < lease'[b].fence BY <2>2, <2>6, <2>7, <3>3, FenceTypes
    <3>6. screen'[b].fence <= lease'[b].fence /\ screen'[b].fence # lease'[b].fence
      BY <2>2, <2>6, <2>7, <3>5, FenceTypes
    <3> QED BY <3>4, <3>6 DEF Fenced
  <2>8. CASE b # Bot(s)
    <3>1. lease'[b] = lease[b] BY <1>2, <2>2, <2>8 DEF Obtain, Taken, TypeOK
    <3>2. ~Of(s, b) BY <2>8 DEF Of
    <3>3. \A t \in Sessions : Of(t, b) => session'[t] = session[t] BY <2>5, <3>2
    <3> QED BY <2>3, <2>6, <3>1, <3>3 DEF Fenced
  <2> QED BY <2>7, <2>8
<1> QED BY <1>1, <1>2, LeaseMoves

FenceInv == TypeOK /\ Ahead /\ Fences

LEMMA FenceInit == Init => FenceInv
<1> SUFFICES ASSUME Init PROVE FenceInv OBVIOUS
<1>1. TypeOK BY TypedInit
<1>2. /\ \A s \in Sessions : session[s] = Off
      /\ \A b \in Bots : lease[b] = NoRow /\ screen[b] = NoScreen
  BY DEF Init
<1>3. Ahead BY <1>2 DEF Ahead, Off, Before
<1>4. Fences BY <1>2 DEF Fences, Fenced, Of, Off, NoRow, NoScreen
<1> QED BY <1>1, <1>3, <1>4 DEF FenceInv

LEMMA Fencing == Spec => []FenceInv
<1>1. FenceInv /\ [Next]_vars => FenceInv' BY TypedNext, AheadNext, FencesNext DEF FenceInv
<1> QED BY <1>1, FenceInit, PTL DEF Spec

\* While no row of the bot has been deleted, the guards of renew, hold and
\* release pass one session, and the supervisor gives it the screen.
LEMMA FencesHolding == FenceInv => FencesHold
<1> SUFFICES ASSUME FenceInv, NEW b \in Bots \ reset, NEW s \in Sessions,
                    session[s].run # None, Bot(s) = b, Matches(s)
             PROVE  /\ CanTake(screen[b], Lease(s))
                    /\ \A t \in Sessions \ {s} :
                         ~(session[t].run # None /\ Bot(t) = b /\ Matches(t))
  BY DEF FencesHold
<1>1. Fenced(b) /\ Of(s, b) /\ TypeOK BY DEF FenceInv, Fences, Of
<1>2. session[s].fence = lease[b].fence /\ session[s].run = lease[b].run /\ session[s].fence > 0
  BY DEF Matches
<1>3. CanTake(screen[b], Lease(s))
  <2>1. CASE screen[b].fence = lease[b].fence
    <3>1. screen[b].run = session[s].run /\ screen[b].fence = session[s].fence
      BY <1>1, <1>2, <2>1 DEF Fenced
    <3>2. screen[b] \in ScreenLease BY <1>1, FenceTypes
    <3>3. screen[b] = Lease(s) BY <3>1, <3>2 DEF ScreenLease, Lease
    <3> QED BY <3>3 DEF CanTake
  <2>2. CASE screen[b].fence # lease[b].fence
    <3>1. Lease(s).fence = lease[b].fence BY <1>2 DEF Lease
    <3>2. lease[b].fence > screen[b].fence BY <1>1, <2>2, FenceTypes DEF Fenced
    <3> QED BY <3>1, <3>2 DEF CanTake
  <2> QED BY <2>1, <2>2
<1>4. ASSUME NEW t \in Sessions \ {s}, session[t].run # None, Bot(t) = b, Matches(t) PROVE FALSE
  <2>1. Of(t, b) /\ session[t].fence = lease[b].fence BY <1>4 DEF Of, Matches
  <2> QED BY <1>1, <1>2, <2>1 DEF Fenced
<1> QED BY <1>3, <1>4

\* As long as no row of a bot has been deleted, one session at most passes the
\* guard of renew, hold and release, because each acquisition raises the
\* fence, and the supervisor gives that session the bot's screen because no
\* assignment is ahead of the row (computer-lifecycle.ts:412).
THEOREM OneSessionPerFence == Spec => []FencesHold
<1> QED BY Fencing, FencesHolding, PTL

\* What a step makes of a row that is not deleted.
RowMoves(b) ==
  \/ lease'[b] = lease[b]
  \/ /\ SameLease(b) /\ lease'[b].kept = lease[b].kept
     /\ \/ lease'[b].live
        \/ \E t \in Sessions : ~At(t, "using") /\ Of(t, b) /\ Matches(t) /\ session'[t] = Off
  \/ SameLease(b) /\ ~lease'[b].kept /\ (Nobody(b) \/ faults' # faults)
  \/ \E t \in Sessions : Acquires(t) /\ Obtain(t) /\ Bot(t) = b

LEMMA RowRenewed ==
  ASSUME TypeOK, NEW c \in Bots, lease' = [lease EXCEPT ![c].live = TRUE]
  PROVE  \A b \in Bots : RowMoves(b)
<1> TAKE b \in Bots
<1>1. lease \in [Bots -> Row] /\ lease[b] \in Row BY DEF TypeOK
<1>2. CASE b = c BY <1>1, <1>2 DEF Row, SameLease, RowMoves
<1>3. CASE b # c BY <1>1, <1>3 DEF RowMoves
<1> QED BY <1>2, <1>3

LEMMA RowExpired ==
  ASSUME TypeOK, NEW s \in Sessions, ~At(s, "off"), ~At(s, "using"), lease' = Expired(s),
         session' = [session EXCEPT ![s] = Off]
  PROVE  \A b \in Bots : RowMoves(b)
<1> TAKE b \in Bots
<1>1. lease \in [Bots -> Row] /\ lease[b] \in Row /\ session'[s] = Off BY DEF TypeOK
<1>2. CASE Matches(s) /\ b = Bot(s)
  <2>1. Of(s, b) BY <1>2, Holding, HoldersNamed DEF Of
  <2>2. lease'[b].run = lease[b].run /\ lease'[b].fence = lease[b].fence
        /\ lease'[b].kept = lease[b].kept
    BY <1>1, <1>2 DEF Expired, Row
  <2> QED BY <1>1, <1>2, <2>1, <2>2 DEF RowMoves, SameLease
<1>3. CASE ~(Matches(s) /\ b = Bot(s)) BY <1>1, <1>3 DEF Expired, RowMoves
<1> QED BY <1>2, <1>3

LEMMA RowLapsed ==
  ASSUME TypeOK, NEW c \in Bots, LeaseLapses(c) PROVE \A b \in Bots : RowMoves(b)
<1> TAKE b \in Bots
<1>1. lease \in [Bots -> Row] /\ lease[b] \in Row BY DEF TypeOK
<1>2. lease' = [lease EXCEPT ![c].live = FALSE, ![c].kept = FALSE] BY DEF LeaseLapses
<1>3. Nobody(c) \/ faults' # faults BY Faulty DEF LeaseLapses
<1>4. CASE b = c
  <2>1. lease'[b].run = lease[b].run /\ lease'[b].fence = lease[b].fence /\ ~lease'[b].kept
    BY <1>1, <1>2, <1>4 DEF Row
  <2> QED BY <1>3, <1>4, <2>1 DEF RowMoves, SameLease
<1>5. CASE b # c BY <1>1, <1>2, <1>5 DEF RowMoves
<1> QED BY <1>4, <1>5

LEMMA RowObtained ==
  ASSUME TypeOK, NEW s \in Sessions, ~At(s, "off"), Acquires(s), Obtain(s)
  PROVE  \A b \in Bots : RowMoves(b)
<1>1. lease \in [Bots -> Row] BY DEF TypeOK
<1>2. \A b \in Bots : b # Bot(s) => lease'[b] = lease[b] BY <1>1 DEF Obtain, Taken
<1> QED BY <1>2 DEF RowMoves

LEMMA RowsDeleted ==
  ASSUME TypeOK, NEW bots \in SUBSET Bots, Reset(bots),
         lease' = [b \in Bots |-> IF b \in bots THEN NoRow ELSE lease[b]]
  PROVE  \A b \in Bots \ reset' : RowMoves(b)
BY DEF Reset, RowMoves

LEMMA RowSteps ==
  ASSUME TypeOK, [Next]_vars PROVE \A b \in Bots \ reset' : RowMoves(b)
<1>0. CASE UNCHANGED lease BY <1>0 DEF RowMoves
<1>1. ASSUME NEW s \in Sessions, SessionStep(s) \/ Renew(s)
      PROVE  \A b \in Bots \ reset' : RowMoves(b)
  <2>0. CASE At(s, "off")
    <3>1. UNCHANGED lease
      BY <1>1, <2>0 DEF SessionStep, Renew, At, Acquire, Reclaim, CreateRow, Validate, Release,
         Provision, Reconnect, ClaimBoot, PowerOn, Activate, Finish, Close, Pause, ForceOut,
         ReadForReplace, ClaimReplace, CheckRuns, Destroy, RecordReplaced
    <3> QED BY <1>0, <3>1
  <2>1. CASE Reclaim(s)
    BY <1>0, <2>0, <2>1, RowObtained DEF Reclaim, Acquires
  <2>2. CASE CreateRow(s)
    BY <1>0, <2>0, <2>2, RowObtained DEF CreateRow, Acquires
  <2>3. CASE Validate(s)
    <3>1. UNCHANGED lease \/ (Busy(s) /\ lease' = Expired(s)) BY <2>3 DEF Validate
    <3>2. ~At(s, "using") BY <2>3 DEF Validate, At
    <3> QED BY <1>0, <2>0, <3>1, <3>2, RowExpired DEF Busy
  <2>4. CASE Release(s) BY <2>0, <2>4, RowExpired DEF Release, At
  <2>5. CASE Renew(s) \/ Pause(s)
    <3>1. UNCHANGED lease \/ lease' = [lease EXCEPT ![Bot(s)].live = TRUE]
      <4>1. CASE Matches(s) BY <2>5, <4>1, Zenon DEF Pause, Renew
      <4>2. CASE ~Matches(s) BY <2>5, <4>2, Zenon DEF Pause, Renew
      <4> QED BY <4>1, <4>2
    <3> QED BY <1>0, <2>0, <3>1, Holding, RowRenewed
  <2>6. CASE ForceOut(s)
    <3>1. CASE ActiveRuns # {}
      <4>1. lease' = [b \in Bots |-> IF b \in Bots THEN NoRow ELSE lease[b]] /\ Reset(Bots)
        BY <2>6, <3>1 DEF ForceOut
      <4> QED BY <4>1, RowsDeleted
    <3>2. CASE ActiveRuns = {} BY <1>0, <2>6, <3>2 DEF ForceOut
    <3> QED BY <3>1, <3>2
  <2>7. CASE Acquire(s) \/ Provision(s) \/ Reconnect(s) \/ ClaimBoot(s) \/ PowerOn(s) \/ Activate(s)
             \/ Finish(s) \/ Close(s) \/ ReadForReplace(s) \/ ClaimReplace(s) \/ CheckRuns(s)
             \/ Destroy(s) \/ RecordReplaced(s)
    <3>1. UNCHANGED lease
      BY <2>7 DEF Acquire, Provision, Reconnect, ClaimBoot, PowerOn, Activate, Finish, Close,
         ReadForReplace, ClaimReplace, CheckRuns, Destroy, RecordReplaced
    <3> QED BY <1>0, <3>1
  <2> QED BY <1>1, <2>1, <2>2, <2>3, <2>4, <2>5, <2>6, <2>7 DEF SessionStep
<1>d. ASSUME NEW c \in Bots, Delete(c) PROVE \A b \in Bots \ reset' : RowMoves(b)
  <2>1. lease' = [b \in Bots |-> IF b \in {c} THEN NoRow ELSE lease[b]]
    BY <1>d DEF Delete, TypeOK
  <2> QED BY <1>d, <2>1, RowsDeleted DEF Delete
<1>2. CASE \/ Unlease \/ DeleteRow
           \/ \E b \in Bots : ClearThread(b)
  BY <1>2, <1>d DEF Unlease, DeleteRow, ClearThread, TypeOK, Op
<1>3. CASE \E b \in Bots : LeaseLapses(b) BY <1>3, RowLapsed
<1>4. ASSUME NEW s \in Sessions,
             TakeScreen(s) \/ RequestTakeover(s) \/ CrashSession(s) \/ RunLapses(s)
      PROVE UNCHANGED lease
  BY <1>4 DEF TakeScreen, RequestTakeover, CrashSession, RunLapses
<1>5. CASE \/ \E r \in Holders : Create(r) \/ ResumeRun(r)
           \/ \E s \in Sessions, r \in Holders : Start(s, r)
           \/ \E counts \in BOOLEAN : BeginSleep(counts)
           \/ \E b \in Bots : ReadForStop(b) \/ ReadForTakeover(b) \/ StopThread(b)
  <2>1. UNCHANGED lease
    BY <1>5 DEF Create, ResumeRun, Start, BeginSleep, ReadForStop, ReadForTakeover, StopThread
  <2> QED BY <1>0, <2>1
<1>6. CASE \/ SleepStep \/ CrashIdle \/ CrashOp
           \/ ClaimStop \/ CheckOthers \/ StopMachine \/ RecordStop \/ FreeScreen
  <2>1. UNCHANGED lease
    BY <1>6 DEF SleepStep, CrashIdle, CrashOp, ClaimStop, CheckOthers, StopMachine, RecordStop,
       FreeScreen,
       ClaimSleep, RecheckSleep, StopIdle, RecordSleep
  <2> QED BY <1>0, <2>1
<1>7. CASE UNCHANGED vars BY <1>0, <1>7 DEF vars
<1> QED BY <1>0, <1>1, <1>2, <1>3, <1>4, <1>5, <1>6, <1>7 DEF Next, OpStep, BotStep

\* A step that neither deletes the bot's row nor is a fault or the session's own.
LEMMA LeaseIsHeld ==
  ASSUME FenceInv, [Next]_vars, Team, NEW s \in Sessions,
         At(s, "using"), Matches(s), lease[Bot(s)].live,
         session'[s] = session[s], faults' = faults, Bot(s) \notin reset'
  PROVE  \/ lease'[Bot(s)].live /\ Matches(s)'
         \/ \E t \in Sessions : At(t, "reclaim") /\ session[t].resume
                                /\ session[t].run = session[s].run
<1> DEFINE b == Bot(s)
<1>1. TypeOK BY DEF FenceInv
<1>2. b \in Bots /\ session[s].run # None BY <1>1, Holding, HoldersNamed DEF At
<1>3. b \notin reset BY <1>1, LeaseMoves DEF Ordinary
<1>4. RowMoves(b) BY <1>1, <1>2, RowSteps
<1>5. Bot(s)' = b BY DEF Bot
<1>6. \A t \in Sessions : Of(t, b) /\ Matches(t) => t = s
  BY <1>2, <1>3, FencesHolding DEF FencesHold, Of
<1>7. CASE SameLease(b) /\ lease'[b].live BY <1>5, <1>7 DEF SameLease, Matches
<1>8. CASE lease'[b] = lease[b] BY <1>5, <1>8 DEF Matches
<1>9. ~Nobody(b) BY <1>2 DEF Nobody
<1>10. ASSUME NEW t \in Sessions, ~At(t, "using"), Of(t, b), Matches(t) PROVE FALSE
  BY <1>6, <1>10
<1>11. ASSUME NEW t \in Sessions, Acquires(t), Obtain(t), Bot(t) = b
       PROVE  At(t, "reclaim") /\ session[t].resume /\ session[t].run = session[s].run
  <2>1. lease[b].fence > 0 /\ lease[b].run = session[s].run BY DEF Matches
  <2>2. lease[b] # NoRow BY <2>1 DEF NoRow
  <2>3. At(t, "reclaim") /\ Reclaims(t) BY <1>11, <2>2 DEF Acquires
  <2> QED BY <1>11, <2>1, <2>3 DEF Reclaims
<1> QED BY <1>4, <1>7, <1>8, <1>9, <1>10, <1>11 DEF RowMoves

\* On a team computer nobody ends the live lease of a session that uses it,
\* except by deleting the row: others must find it expired, and its own run
\* must have been resumed after a takeover (computer-lifecycle.test.ts:596).
THEOREM LeasesAreHeld == Spec => HeldUntilReleased
<1>1. ASSUME FenceInv, [Next]_vars
      PROVE  [\A s \in Sessions :
                Team /\ At(s, "using") /\ Matches(s) /\ lease[Bot(s)].live =>
                  \/ lease'[Bot(s)].live /\ Matches(s)'
                  \/ \E t \in Sessions : At(t, "reclaim") /\ session[t].resume
                                         /\ session[t].run = session[s].run
                  \/ session'[s] # session[s] \/ faults' # faults
                  \/ Bot(s) \in reset']_vars
  BY <1>1, LeaseIsHeld
<1> QED BY <1>1, Fencing, PTL DEF Spec, HeldUntilReleased

-----------------------------------------------------------------------------
(* The machine under a run.                                                *)

\* Nobody has met a state, or a claim, he did not expect.
Calm == ~disturbed /\ ~undercut

\* A session whose lease has been valid since it acquired it.
Sound(s) ==
  /\ session[s].run # None /\ Matches(s) /\ Bot(s) \notin reset
  /\ lease[Bot(s)].live /\ lease[Bot(s)].kept
KeptAreLive == \A s \in Sessions :
  session[s].run # None /\ Matches(s) /\ Bot(s) \notin reset /\ lease[Bot(s)].kept =>
    lease[Bot(s)].live

\* Each claim is its claimant's.
Replacing(s) == session[s].step \in {"runs", "destroy", "record"}
FreeStates == state \notin {"booting", "suspending"} => claimant = None
IdleClaims == idle.step \in {"recheck", "stop", "record"} =>
  state = "suspending" /\ claimant = "idle"
OpClaims ==
  /\ op.step \in {"others", "unlease", "stop", "record"} =>
       state = "suspending" /\ claimant = "op"
  /\ op.step = "others" /\ op.exact =>
       op.seen # "suspending" /\ (op.seen # "booting" => op.prior = None)
Replacement(s) ==
  /\ session[s].step \in {"replace", "take", "runs", "destroy", "record"} =>
       Kind(s) \in {"recover", "restart"}
  /\ session[s].step \in {"take", "runs", "destroy", "record"} /\ Kind(s) = "recover" =>
       session[s].seen \notin {"booting", "suspending"}
  /\ Replacing(s) /\ Claimed(s) =>
       Kind(s) = "recover" /\ state = "suspending" /\ claimant = s
ReplacementClaims == \A s \in Sessions : Replacement(s)
\* A handler whose process died over its claim does not get any further.
ClaimantsStay == state = "suspending" /\ claimant \in Sessions =>
  /\ session[claimant].step \in {"off", "cancel", "acquire", "runs", "destroy", "record"}
  /\ Replacing(claimant) => Claimed(claimant)
Claims == FreeStates /\ IdleClaims /\ OpClaims /\ ReplacementClaims /\ ClaimantsStay

\* A stop, and a replacement, that may still give the state back.
OpFits(s, from) ==
  /\ op.step \notin {"stop", "record"}
  /\ op.step \in {"others", "unlease"} =>
       /\ op.bot = Bot(s)
       /\ op.exact => op.seen = from /\ (from = "booting" => op.prior = s)
StopOver(s, from) == state = "suspending" /\ claimant = "op" /\ OpFits(s, from)
ReplacementFits(s, c) == Replacing(c) =>
  /\ c # s /\ Bot(c) = Bot(s) /\ ~At(c, "record")
  /\ session[c].exact => session[c].seen = "running"
ReplacementOver(s) ==
  state = "suspending" /\ claimant \in Sessions /\ ReplacementFits(s, claimant)

\* What a session with a sound lease stands on.
Stands(s) ==
  /\ session[s].step \in {"booting", "booted"} =>
       (state = "booting" /\ claimant = s) \/ StopOver(s, "booting")
  /\ session[s].step \in {"reconnect", "using"} =>
       state = "running" \/ StopOver(s, "running") \/ ReplacementOver(s)
  /\ session[s].step \in {"booted", "using"} => machine
Standing == \A s \in Sessions : Sound(s) => Stands(s)

PowerInv == FenceInv /\ KeptAreLive /\ (Calm => Claims /\ Standing)

LEMMA PowerInit == Init => PowerInv
<1> SUFFICES ASSUME Init PROVE PowerInv OBVIOUS
<1>1. FenceInv BY FenceInit
<1>2. \A s \in Sessions : session[s] = Off BY DEF Init
<1>3. KeptAreLive /\ Standing BY <1>2 DEF KeptAreLive, Standing, Sound, Off
<1>4. Claims
  <2>1. FreeStates /\ IdleClaims /\ OpClaims
    BY DEF Init, FreeStates, IdleClaims, OpClaims, NoIdle
  <2>2. ReplacementClaims BY <1>2 DEF ReplacementClaims, Replacement, Replacing, Off
  <2>3. ClaimantsStay BY DEF Init, ClaimantsStay
  <2> QED BY <2>1, <2>2, <2>3 DEF Claims
<1> QED BY <1>1, <1>3, <1>4 DEF PowerInv

-----------------------------------------------------------------------------
(* What is known stays known.                                              *)

LEMMA OneMatches ==
  ASSUME FenceInv, NEW s \in Sessions, NEW t \in Sessions,
         session[s].run # None, Matches(s), Bot(s) \notin reset,
         session[t].run # None, Matches(t), Bot(t) = Bot(s)
  PROVE  s = t
<1>1. TypeOK BY DEF FenceInv
<1>2. Bot(s) \in Bots BY <1>1, Holding DEF TypeOK
<1> QED BY <1>2, FencesHolding DEF FencesHold

LEMMA ResetGrows == TypeOK /\ [Next]_vars => reset \subseteq reset'
BY LeaseMoves DEF Ordinary

\* The row of a session that has a fence stays its own, is taken or is deleted.
LEMMA SoundBefore ==
  ASSUME FenceInv, Ahead', TypeOK', KeptAreLive, [Next]_vars, NEW s \in Sessions,
         session'[s].run # None, Matches(s)', Bot(s)' \notin reset', lease'[Bot(s)'].kept
  PROVE  \/ Sound(s) /\ Bot(s)' = Bot(s) /\ session'[s].run = session[s].run /\ lease'[Bot(s)].live
         \/ Acquires(s) /\ Obtain(s) /\ session'[s].step = "validate" /\ lease'[Bot(s)].live
            /\ Bot(s)' = Bot(s)
<1>1. TypeOK BY DEF FenceInv
<1>2. session'[s].fence > 0 BY DEF Matches
<1>3. ASSUME NEW t \in Sessions, Acquires(t), Obtain(t), session'[t].run = session[t].run
      PROVE  lease'[Bot(t)].live /\ lease'[Bot(t)].fence = lease[Bot(t)].fence + 1
             /\ Bot(t)' = Bot(t) /\ Bot(t) \in Bots /\ session[t].run # None
             /\ lease[Bot(t)].fence \in Nat
  <2>1. ~At(t, "off") BY <1>3 DEF Acquires, At
  <2> QED BY <1>1, <1>3, <2>1, Obtained, Holding, HoldersNamed, FenceTypes DEF Bot
<1>4. ASSUME NEW t \in Sessions, Acquires(t), Obtain(t)
      PROVE  /\ session'[t].run = session[t].run /\ session'[t].step = "validate"
             /\ \A u \in Sessions \ {t} : session'[u] = session[u]
  <2>1. session \in [Sessions -> Session] /\ session[t] \in Session BY <1>1 DEF TypeOK
  <2>2. session' = [session EXCEPT ![t].step = "validate", ![t].fence = lease'[Bot(t)].fence]
    BY <1>4 DEF Obtain
  <2> QED BY <2>1, <2>2 DEF Session
<1>5. CASE Acquires(s) /\ Obtain(s) BY <1>3, <1>4, <1>5
<1>6. CASE ~(Acquires(s) /\ Obtain(s))
  <2>1. session'[s].run = session[s].run /\ session'[s].fence = session[s].fence
    <3>1. CASE Ordinary BY <1>2, <3>1 DEF Ordinary, GoesOn
    <3>2. CASE ~Ordinary BY <1>1, <1>4, <1>6, <3>2, LeaseMoves
    <3> QED BY <3>1, <3>2
  <2> DEFINE b == Bot(s)
  <2>2. Bot(s)' = b /\ b \in Bots \ reset' /\ session[s].run # None
    <3>1. session[s].run \in Holders \cup {None} BY <1>1 DEF TypeOK, Session
    <3> QED BY <2>1, <3>1, HoldersNamed DEF Bot
  <2>3. lease'[b].run = session[s].run /\ lease'[b].fence = session[s].fence /\ lease'[b].kept
    BY <2>1, <2>2 DEF Matches
  <2>4. session[s].fence <= lease[b].fence /\ b \notin reset
    BY <1>1, <2>2, ResetGrows DEF FenceInv, Fences, Fenced, Of
  <2>5. ASSUME NEW t \in Sessions, Acquires(t), Obtain(t), Bot(t) = b PROVE FALSE
    <3>1. lease'[b].fence = lease[b].fence + 1 /\ lease[b].fence \in Nat BY <1>3, <1>4, <2>5
    <3> QED BY <1>1, <2>3, <2>4, <3>1, FenceTypes
  <2>6. CASE lease'[b] = lease[b]
    <3>1. Matches(s) /\ lease[b].kept BY <1>2, <2>1, <2>2, <2>3, <2>6 DEF Matches
    <3> QED BY <2>1, <2>2, <2>4, <2>6, <3>1 DEF Sound, KeptAreLive
  <2>7. CASE SameLease(b) /\ lease'[b].kept = lease[b].kept
    <3>1. Matches(s) /\ lease[b].kept BY <1>2, <2>1, <2>2, <2>3, <2>7 DEF Matches, SameLease
    <3>2. Sound(s) BY <2>2, <2>4, <3>1 DEF Sound, KeptAreLive
    <3>3. ASSUME NEW t \in Sessions, Of(t, b), Matches(t), session'[t] = Off PROVE FALSE
      <4>1. t = s BY <2>2, <2>4, <3>1, <3>3, OneMatches DEF Of
      <4> QED BY <3>3, <4>1 DEF Off
    <3>4. lease'[b].live
      BY <2>2, <2>5, <2>6, <3>2, <3>3, <1>1, RowSteps, <2>3 DEF RowMoves, Sound
    <3> QED BY <2>1, <2>2, <3>2, <3>4
  <2> QED BY <1>1, <2>2, <2>3, <2>5, <2>6, <2>7, RowSteps DEF RowMoves
<1> QED BY <1>5, <1>6

LEMMA KeptNext ==
  ASSUME FenceInv, Ahead', TypeOK', KeptAreLive, [Next]_vars PROVE KeptAreLive'
<1> SUFFICES ASSUME NEW s \in Sessions, session'[s].run # None, Matches(s)',
                    Bot(s)' \notin reset', lease'[Bot(s)'].kept
             PROVE  lease'[Bot(s)'].live
  BY DEF KeptAreLive
<1> QED BY SoundBefore

Remembered == (disturbed => disturbed') /\ (undercut => undercut')

LEMMA WritesRemember ==
  /\ UNCHANGED computer => Remembered
  /\ \A x, new : Claim(x, new) => Remembered
  /\ \A expected, own : Meets(expected, own) => Remembered
  /\ \A new, expected, own : Overwrite(new, expected, own) => Remembered
  /\ \A expected, own : Expecting(expected, own) => Remembered
  /\ \A x, claimed, new : Settle(x, claimed, new) => Remembered
  /\ \A x, exact, seen, prior : Restore(x, exact, seen, prior) => Remembered
BY DEF computer, Claim, Meets, Overwrite, Expecting, Settle, Restore, Remembered

\* The actions that leave the computer's row, or all of the computer, alone.
LEMMA RowUnwritten ==
  /\ \A r \in Holders : Create(r) \/ ResumeRun(r) => UNCHANGED <<computer, host, op>>
  /\ \A s \in Sessions, r \in Holders : Start(s, r) => UNCHANGED <<computer, host, op>>
  /\ \A s \in Sessions :
       /\ Acquire(s) \/ Reclaim(s) \/ CreateRow(s) \/ Validate(s) \/ Release(s) \/ Provision(s)
          \/ Finish(s) \/ Pause(s) \/ ReadForReplace(s) \/ Renew(s)
          \/ CrashSession(s) \/ RunLapses(s) => UNCHANGED <<computer, host, op>>
       /\ Reconnect(s) \/ Close(s) \/ TakeScreen(s) => UNCHANGED <<computer, op>>
  /\ Unlease \/ DeleteRow \/ CrashIdle \/ CrashOp => UNCHANGED <<computer, host>>
  /\ FreeScreen => UNCHANGED computer
  /\ \A b \in Bots : BotStep(b) =>
       UNCHANGED <<computer, host>>
BY DEF request, Create, ResumeRun, Start, Acquire, Reclaim, CreateRow, Validate, Release,
   Provision, Finish, Pause, ReadForReplace, Renew, CrashSession, RunLapses, Reconnect, Close,
   TakeScreen, Unlease, DeleteRow, FreeScreen, CrashIdle, CrashOp, BotStep, ReadForStop, ReadForTakeover,
   StopThread, ClearThread, LeaseLapses

LEMMA Remembering == [Next]_vars => Remembered
<1> SUFFICES ASSUME [Next]_vars PROVE Remembered OBVIOUS
<1>1. CASE UNCHANGED vars BY <1>1, WritesRemember DEF vars
<1>2. ASSUME NEW s \in Sessions, SessionStep(s) PROVE Remembered
  <2>1. CASE ClaimBoot(s) BY <2>1, WritesRemember DEF ClaimBoot
  <2>2. CASE PowerOn(s) BY <2>2, WritesRemember DEF PowerOn, BootFailed
  <2>3. CASE Activate(s) BY <2>3, WritesRemember DEF Activate, BootFailed
  <2>4. CASE ForceOut(s) BY <2>4, WritesRemember DEF ForceOut
  <2>5. CASE ClaimReplace(s) BY <2>5, WritesRemember DEF ClaimReplace
  <2>6. CASE CheckRuns(s) BY <2>6, WritesRemember DEF CheckRuns
  <2>7. CASE Destroy(s) BY <2>7, WritesRemember DEF Destroy
  <2>8. CASE RecordReplaced(s) BY <2>8, WritesRemember DEF RecordReplaced
  <2> QED BY <1>2, <2>1, <2>2, <2>3, <2>4, <2>5, <2>6, <2>7, <2>8, RowUnwritten, WritesRemember
          DEF SessionStep
<1>3. ASSUME NEW s \in Sessions, RequestTakeover(s) PROVE Remembered
  BY <1>3, WritesRemember DEF RequestTakeover
<1>4. CASE \E counts \in BOOLEAN : BeginSleep(counts) BY <1>4 DEF BeginSleep, Remembered
<1>5. CASE SleepStep
  <2>1. CASE ClaimSleep BY <2>1, WritesRemember DEF ClaimSleep, Remembered
  <2>2. CASE RecheckSleep BY <2>2, WritesRemember DEF RecheckSleep
  <2>3. CASE StopIdle BY <2>3, WritesRemember DEF StopIdle
  <2>4. CASE RecordSleep BY <2>4, WritesRemember DEF RecordSleep
  <2> QED BY <1>5, <2>1, <2>2, <2>3, <2>4 DEF SleepStep
<1>6. CASE OpStep
  <2>1. CASE ClaimStop BY <2>1, WritesRemember DEF ClaimStop
  <2>2. CASE CheckOthers BY <2>2, WritesRemember DEF CheckOthers
  <2>3. CASE StopMachine BY <2>3, WritesRemember DEF StopMachine
  <2>4. CASE RecordStop BY <2>4, WritesRemember DEF RecordStop
  <2> QED BY <1>6, <2>1, <2>2, <2>3, <2>4, RowUnwritten, WritesRemember DEF OpStep
<1> QED BY <1>1, <1>2, <1>3, <1>4, <1>5, <1>6, RowUnwritten, WritesRemember DEF Next

LEMMA CalmBefore == [Next]_vars /\ Calm' => Calm
BY Remembering DEF Remembered, Calm

-----------------------------------------------------------------------------
(* What a step that surprises nobody does to the state.                    *)

LEMMA GoFacts ==
  ASSUME TypeOK, NEW s \in Sessions, NEW step, Go(s, step)
  PROVE  /\ session'[s].step = step /\ session'[s].run = session[s].run
         /\ session'[s].seen = session[s].seen /\ session'[s].exact = session[s].exact
         /\ \A t \in Sessions \ {s} : session'[t] = session[t]
<1>1. session \in [Sessions -> Session] /\ session[s] \in Session BY DEF TypeOK
<1> QED BY <1>1 DEF Go, Session

LEMMA ExactFacts ==
  ASSUME TypeOK, NEW s \in Sessions, NEW step, NEW x,
         session' = [session EXCEPT ![s].step = step, ![s].exact = x]
  PROVE  /\ session'[s].step = step /\ session'[s].run = session[s].run
         /\ session'[s].seen = session[s].seen /\ session'[s].exact = x
         /\ \A t \in Sessions \ {s} : session'[t] = session[t]
<1>1. session \in [Sessions -> Session] /\ session[s] \in Session BY DEF TypeOK
<1> QED BY <1>1 DEF Session

LEMMA OffFacts ==
  ASSUME TypeOK, NEW s \in Sessions, session' = [session EXCEPT ![s] = Off]
  PROVE  session'[s] = Off /\ \A t \in Sessions \ {s} : session'[t] = session[t]
BY DEF TypeOK

\* A write without a surprise.
LEMMA CalmWrites ==
  ASSUME Calm', NEW expected, NEW own, NEW new
  PROVE  /\ Meets(expected, own) => state = expected /\ own
         /\ Overwrite(new, expected, own) =>
              state = expected /\ own /\ state' = new /\ claimant' = None
         /\ Expecting(expected, own) => state = expected /\ own /\ UNCHANGED <<state, claimant>>
BY DEF Calm, Meets, Overwrite, Expecting

LEMMA CalmSettles ==
  ASSUME Calm', NEW x, NEW claimed, NEW new, Settle(x, claimed, new)
  PROVE  \/ state = claimed /\ claimant = x /\ state' = new /\ claimant' = None
         \/ state # claimed /\ UNCHANGED <<state, claimant>>
BY CalmWrites DEF Settle, computer

LEMMA CalmRestores ==
  ASSUME Calm', NEW x, NEW exact, NEW seen, NEW prior, Restore(x, exact, seen, prior)
  PROVE  \/ /\ state = "suspending" /\ claimant = x /\ exact /\ Boots(prior)
            /\ state' = seen /\ claimant' = prior
         \/ state # "suspending" /\ UNCHANGED <<state, claimant>>
BY DEF Calm, Restore, computer

LEMMA ComputerStays == UNCHANGED computer => UNCHANGED <<state, claimant>>
BY DEF computer

SessionClaims(s) ==
  \/ UNCHANGED <<state, claimant>>
  \/ /\ At(s, "claim") /\ state \in Asleep /\ state' = "booting" /\ claimant' = s
     /\ Go(s, "booting")
  \/ /\ session[s].step \in {"booting", "booted"} /\ state = "booting" /\ claimant = s
     /\ state' \in {"running", "error"} /\ claimant' = None
  \/ /\ At(s, "take") /\ Kind(s) = "recover" /\ Claimed(s) /\ LiveOthers(Bot(s)) = {}
     /\ state \in {"running", "error"} /\ state' = "suspending" /\ claimant' = s
     /\ session' = [session EXCEPT ![s].step = "runs", ![s].exact = (state = session[s].seen)]
  \/ /\ At(s, "runs") /\ Claimed(s) /\ state = "suspending" /\ claimant = s /\ session[s].exact
     /\ state' = session[s].seen /\ claimant' = None
  \/ /\ session[s].step \in {"destroy", "record"} /\ state = Expects(s) /\ Own(s)
     /\ state' \in {"error", "stopped"} /\ claimant' = None

LEMMA CalmSessions ==
  ASSUME TypeOK, FreeStates, Calm', NEW s \in Sessions,
         \/ SessionStep(s) \/ Renew(s) \/ TakeScreen(s) \/ RequestTakeover(s)
         \/ CrashSession(s) \/ RunLapses(s)
  PROVE  SessionClaims(s)
<1>1. CASE ClaimBoot(s) BY <1>1, ComputerStays DEF ClaimBoot, Claim, SessionClaims
<1>2. CASE PowerOn(s)
  BY <1>2, ComputerStays, CalmSettles DEF PowerOn, BootFailed, SessionClaims, At
<1>3. CASE Activate(s)
  <2>1. \/ Settle(s, "booting", "running") \/ Settle(s, "booting", "error")
        \/ Expecting("booting", TRUE)
    BY <1>3 DEF Activate, BootFailed
  <2> QED BY <1>3, <2>1, CalmSettles, CalmWrites DEF SessionClaims, At, Activate
<1>4. CASE ForceOut(s)
  <2>1. \/ Overwrite("error", "error", TRUE) /\ state \in {"booting", "suspending"}
        \/ UNCHANGED computer
    BY <1>4 DEF ForceOut
  <2> QED BY <2>1, CalmWrites, ComputerStays DEF SessionClaims
<1>5. CASE ClaimReplace(s)
  BY <1>5, CalmWrites, ComputerStays DEF ClaimReplace, Claim, SessionClaims
<1>6. CASE CheckRuns(s)
  BY <1>6, CalmRestores, ComputerStays DEF CheckRuns, SessionClaims
<1>7. CASE Destroy(s)
  BY <1>7, CalmWrites DEF Destroy, SessionClaims, At
<1>8. CASE RecordReplaced(s)
  BY <1>8, CalmWrites DEF RecordReplaced, SessionClaims, At
<1>9. CASE RequestTakeover(s)
  <2>1. state = "running" /\ state' = "running" /\ claimant' = None
    BY <1>9 DEF RequestTakeover, Overwrite, Meets, Calm
  <2>2. UNCHANGED <<state, claimant>> BY <2>1 DEF FreeStates
  <2> QED BY <2>2 DEF SessionClaims
<1> QED BY <1>1, <1>2, <1>3, <1>4, <1>5, <1>6, <1>7, <1>8, <1>9, RowUnwritten, ComputerStays
        DEF SessionStep, SessionClaims

IdleClaiming ==
  \/ UNCHANGED <<state, claimant>>
  \/ /\ idle.step = "checkpoint" /\ MaySleep /\ idle' = [idle EXCEPT !.step = "recheck"]
     /\ state' = "suspending" /\ claimant' = "idle"
  \/ /\ idle.step \in {"recheck", "stop", "record"} /\ state = "suspending" /\ claimant = "idle"
     /\ state' \in {"running", "suspended"} /\ claimant' = None /\ idle' = NoIdle

LEMMA CalmIdle ==
  ASSUME Calm', SleepStep \/ CrashIdle \/ \E counts \in BOOLEAN : BeginSleep(counts)
  PROVE  IdleClaiming /\ UNCHANGED <<session, lease, op, reset>>
<1>1. CASE ClaimSleep BY <1>1, ComputerStays DEF ClaimSleep, IdleClaiming, request
<1>2. CASE RecheckSleep
  BY <1>2, ComputerStays, CalmSettles DEF RecheckSleep, Rescheduled, IdleClaiming, request
<1>3. CASE StopIdle
  BY <1>3, CalmWrites, CalmSettles DEF StopIdle, Rescheduled, IdleClaiming, request
<1>4. CASE RecordSleep BY <1>4, CalmWrites DEF RecordSleep, IdleClaiming, request
<1>5. CASE CrashIdle BY <1>5, ComputerStays DEF CrashIdle, IdleClaiming, request
<1>6. CASE \E counts \in BOOLEAN : BeginSleep(counts)
  BY <1>6 DEF BeginSleep, IdleClaiming, request
<1> QED BY <1>1, <1>2, <1>3, <1>4, <1>5, <1>6 DEF SleepStep

OpClaiming ==
  \/ UNCHANGED <<state, claimant>>
  \/ /\ op.step = "claim" /\ state # "suspending" /\ LiveOthers(op.bot) = {}
     /\ state' = "suspending" /\ claimant' = "op"
     /\ op' = [op EXCEPT !.step = "others", !.exact = (state = op.seen), !.prior = claimant]
  \/ /\ op.step = "others" /\ state = "suspending" /\ claimant = "op" /\ op.exact
     /\ state' = op.seen /\ claimant' = op.prior /\ OpGo("off")
  \/ /\ op.step \in {"stop", "record"} /\ state = "suspending" /\ claimant = "op"
     /\ state' \in {"error", "stopped"} /\ claimant' = None /\ OpGo("off")

LEMMA CalmOp ==
  ASSUME Calm', \/ OpStep \/ CrashOp
                \/ \E b \in Bots : BotStep(b)
  PROVE  OpClaiming /\ UNCHANGED <<session, idle>>
<1>1. CASE ClaimStop BY <1>1, ComputerStays DEF ClaimStop, MayStop, Claim, OpClaiming, sleep
<1>2. CASE CheckOthers BY <1>2, ComputerStays, CalmRestores DEF CheckOthers, OpClaiming, sleep
<1>3. CASE StopMachine BY <1>3, CalmWrites, CalmSettles DEF StopMachine, OpClaiming, sleep
<1>4. CASE RecordStop BY <1>4, CalmWrites DEF RecordStop, OpClaiming, sleep
<1>5. CASE Unlease \/ DeleteRow \/ FreeScreen
  BY <1>5, ComputerStays DEF Unlease, DeleteRow, FreeScreen, OpClaiming, sleep
<1>6. CASE CrashOp BY <1>6, ComputerStays DEF CrashOp, OpClaiming, sleep
<1>7. CASE \E b \in Bots : BotStep(b)
  BY <1>7, ComputerStays DEF BotStep, ReadForStop, ReadForTakeover, StopThread, ClearThread,
     LeaseLapses, OpClaiming, sleep, request
<1> QED BY <1>1, <1>2, <1>3, <1>4, <1>5, <1>6, <1>7 DEF OpStep

LEMMA OthersAreQuiet ==
  ASSUME \/ \E r \in Holders : Create(r) \/ ResumeRun(r)
         \/ \E s \in Sessions, r \in Holders : Start(s, r)
         \/ UNCHANGED vars
  PROVE  UNCHANGED <<state, claimant, machine, lease, idle, op, reset>>
BY DEF Create, ResumeRun, Start, vars, computer, host, sleep, request

\* Only one of them can be the claimant.
LEMMA Names ==
  /\ "idle" \notin Sessions /\ "op" \notin Sessions /\ None \notin Sessions
  /\ "idle" # "op" /\ "idle" # None /\ "op" # None
BY LeaseAssumption DEF None

LEMMA ExpectsFacts ==
  ASSUME NEW s \in Sessions
  PROVE  /\ Claimed(s) => Expects(s) = "suspending"
         /\ ~Claimed(s) => Expects(s) \in {"stopped", "suspended"}
         /\ Own(s) => Matches(s) /\ (Claimed(s) => claimant = s)
BY DEF Expects, Claimed, Own

\* A session takes a claimed state from nobody else.
LEMMA SessionTakes ==
  ASSUME TypeOK, ReplacementClaims, NEW s \in Sessions, SessionClaims(s)
  PROVE  \/ UNCHANGED <<state, claimant>>
         \/ state # "suspending" /\ claimant' = s /\ state' \in {"booting", "suspending"}
         \/ /\ claimant = s \/ state \in {"stopped", "suspended"}
            /\ claimant' = None /\ state' \notin {"booting", "suspending"}
<1>1. ASSUME session[s].step = "runs", Claimed(s)
      PROVE  session[s].seen \notin {"booting", "suspending"}
  BY <1>1 DEF ReplacementClaims, Replacement, Replacing
<1> QED BY <1>1, ExpectsFacts DEF SessionClaims, At, Asleep

SessionActs(s) ==
  \/ SessionStep(s) \/ Renew(s) \/ TakeScreen(s) \/ RequestTakeover(s)
  \/ CrashSession(s) \/ RunLapses(s)
IdleActs == SleepStep \/ CrashIdle \/ \E counts \in BOOLEAN : BeginSleep(counts)
OpActs ==
  \/ OpStep \/ CrashOp
  \/ \E b \in Bots : BotStep(b)
QuietStep ==
  \/ \E r \in Holders : Create(r) \/ ResumeRun(r)
  \/ \E s \in Sessions, r \in Holders : Start(s, r)
  \/ UNCHANGED vars

LEMMA Actors ==
  [Next]_vars => (\E s \in Sessions : SessionActs(s)) \/ IdleActs \/ OpActs \/ QuietStep
BY DEF Next, SessionActs, IdleActs, OpActs, QuietStep

LEMMA FreeStatesNext ==
  ASSUME TypeOK, Claims, Calm', [Next]_vars PROVE FreeStates'
<1>0. FreeStates /\ ReplacementClaims /\ OpClaims BY DEF Claims
<1>1. CASE UNCHANGED <<state, claimant>> BY <1>0, <1>1 DEF FreeStates
<1>2. ASSUME NEW s \in Sessions, SessionActs(s) PROVE FreeStates'
  BY <1>0, <1>1, <1>2, CalmSessions, SessionTakes DEF SessionActs, FreeStates
<1>3. CASE IdleActs BY <1>1, <1>3, CalmIdle DEF IdleActs, IdleClaiming, FreeStates
<1>4. CASE OpActs
  BY <1>0, <1>1, <1>4, CalmOp DEF OpActs, OpClaiming, FreeStates, OpClaims
<1> QED BY <1>1, <1>2, <1>3, <1>4, Actors, OthersAreQuiet DEF QuietStep

\* The sleep job reaches its claim by claiming.
LEMMA IdleMoves ==
  ASSUME TypeOK, IdleActs
  PROVE  /\ idle'.step \in {"recheck", "stop", "record"} =>
              \/ idle.step \in {"recheck", "stop", "record"}
              \/ state' = "suspending" /\ claimant' = "idle"
<1>1. \A step : [idle EXCEPT !.step = step].step = step BY DEF TypeOK, Idle
<1>2. NoIdle.step = "off" BY DEF NoIdle
<1>3. CASE ClaimSleep BY <1>1, <1>2, <1>3 DEF ClaimSleep, Rescheduled
<1>4. CASE RecheckSleep \/ StopIdle \/ RecordSleep
  BY <1>4 DEF RecheckSleep, StopIdle, RecordSleep
<1>5. CASE CrashIdle BY <1>2, <1>5 DEF CrashIdle, Rescheduled
<1>6. CASE \E counts \in BOOLEAN : BeginSleep(counts) BY <1>2, <1>6 DEF BeginSleep, Rescheduled
<1> QED BY <1>3, <1>4, <1>5, <1>6 DEF IdleActs, SleepStep

LEMMA IdleClaimsNext ==
  ASSUME TypeOK, Claims, Calm', [Next]_vars PROVE IdleClaims'
<1>0. FreeStates /\ ReplacementClaims /\ IdleClaims BY DEF Claims
<1>1. ASSUME NEW s \in Sessions, SessionActs(s) PROVE IdleClaims'
  <2>1. UNCHANGED idle
    BY <1>1 DEF SessionActs, SessionStep, Acquire, Reclaim, CreateRow, Validate, Release, Provision,
       Reconnect, ClaimBoot, PowerOn, Activate, Finish, Close, Pause, ForceOut, ReadForReplace,
       ClaimReplace, CheckRuns, Destroy, RecordReplaced, Renew, TakeScreen, RequestTakeover,
       CrashSession, RunLapses, sleep
  <2> QED BY <1>0, <1>1, <2>1, CalmSessions, SessionTakes, Names DEF SessionActs, IdleClaims
<1>2. CASE IdleActs
  <2>1. CASE UNCHANGED <<state, claimant>> BY <1>0, <1>2, <2>1, IdleMoves DEF IdleClaims
  <2>2. CASE ~UNCHANGED <<state, claimant>>
    BY <1>2, <2>2, CalmIdle DEF IdleActs, IdleClaiming, IdleClaims, NoIdle
  <2> QED BY <2>1, <2>2
<1>3. CASE OpActs
  BY <1>0, <1>3, CalmOp, Names DEF OpActs, OpClaiming, IdleClaims
<1>4. CASE QuietStep BY <1>0, <1>4, OthersAreQuiet DEF QuietStep, IdleClaims
<1> QED BY <1>1, <1>2, <1>3, <1>4, Actors

\* A stop reaches its claim by claiming, and loses it by giving it back.
LEMMA OpMoves ==
  ASSUME TypeOK, OpActs, Calm'
  PROVE  \/ UNCHANGED op
         \/ op'.step \in {"off", "claim", "delete", "forget", "screen"}
         \/ op.step = "others" /\ op' = [op EXCEPT !.step = "unlease"]
         \/ op.step = "unlease" /\ op'.step = "stop" /\ Reset({op.bot})
         \/ op.step = "stop" /\ op'.step = "record"
         \/ op.step = "claim" /\ state' = "suspending" /\ claimant' = "op"
            /\ state # "suspending"
            /\ op' = [op EXCEPT !.step = "others", !.exact = (state = op.seen), !.prior = claimant]
<1>1. \A step : [op EXCEPT !.step = step].step = step BY DEF TypeOK, Op
<1>2. CASE ClaimStop BY <1>1, <1>2 DEF ClaimStop, MayStop, OpGo, Claim
<1>3. CASE CheckOthers BY <1>1, <1>3 DEF CheckOthers, OpGo
<1>4. CASE StopMachine BY <1>1, <1>4 DEF StopMachine, OpGo
<1>5. CASE RecordStop BY <1>1, <1>5 DEF RecordStop, OpGo
<1>6. CASE Unlease BY <1>1, <1>6 DEF Unlease, Delete, OpGo
<1>7. CASE DeleteRow \/ FreeScreen BY <1>1, <1>7 DEF DeleteRow, FreeScreen, OpGo
<1>8. CASE CrashOp BY <1>1, <1>8 DEF CrashOp, OpGo
<1>9. CASE \E b \in Bots : ReadForStop(b) \/ ReadForTakeover(b) \/ StopThread(b) \/ LeaseLapses(b)
  BY <1>9 DEF ReadForStop, ReadForTakeover, StopThread, LeaseLapses, request
<1>10. CASE \E b \in Bots : ClearThread(b) BY <1>1, <1>10 DEF ClearThread
<1> QED BY <1>2, <1>3, <1>4, <1>5, <1>6, <1>7, <1>8, <1>9, <1>10 DEF OpActs, OpStep, BotStep

LEMMA SessionsSpareOp ==
  ASSUME NEW s \in Sessions, SessionActs(s)
  PROVE  UNCHANGED op \/ (op.step = "delete" /\ op' = [op EXCEPT !.step = "off"])
<1>1. CASE ForceOut(s) BY <1>1 DEF ForceOut
<1>2. CASE ~ForceOut(s)
  BY <1>2 DEF SessionActs, SessionStep, Acquire, Reclaim, CreateRow, Validate, Release, Provision,
     Reconnect, ClaimBoot, PowerOn, Activate, Finish, Close, Pause, ReadForReplace,
     ClaimReplace, CheckRuns, Destroy, RecordReplaced, Renew, TakeScreen, RequestTakeover,
     CrashSession, RunLapses, request
<1> QED BY <1>1, <1>2

LEMMA OpClaimsNext ==
  ASSUME TypeOK, Claims, Calm', [Next]_vars PROVE OpClaims'
<1>0. FreeStates /\ ReplacementClaims /\ OpClaims BY DEF Claims
<1>e. \A step : [op EXCEPT !.step = step].step = step BY DEF TypeOK, Op
<1>1. ASSUME NEW s \in Sessions, SessionActs(s) PROVE OpClaims'
  <2>1. CASE op.step = "delete" /\ op' = [op EXCEPT !.step = "off"] BY <1>e, <2>1 DEF OpClaims
  <2>2. CASE UNCHANGED op
    BY <1>0, <1>1, <2>2, CalmSessions, SessionTakes, Names DEF SessionActs, OpClaims
  <2> QED BY <1>1, <2>1, <2>2, SessionsSpareOp
<1>2. CASE IdleActs
  <2>1. UNCHANGED op /\ IdleClaiming BY <1>2, CalmIdle DEF IdleActs
  <2>2. \/ UNCHANGED <<state, claimant>>
        \/ state = "running"
        \/ claimant = "idle"
    BY <2>1 DEF IdleClaiming, MaySleep
  <2> QED BY <1>0, <2>1, <2>2, Names DEF OpClaims
<1>3. CASE OpActs
  <2>1. CASE op'.step \in {"off", "claim", "delete", "forget", "screen"} BY <2>1 DEF OpClaims
  <2>2. CASE UNCHANGED <<state, claimant>>
    <3>1. CASE UNCHANGED op BY <1>0, <2>2, <3>1 DEF OpClaims
    <3>2. CASE op.step = "others" /\ op' = [op EXCEPT !.step = "unlease"]
      BY <1>0, <1>e, <2>2, <3>2 DEF OpClaims
    <3>3. CASE op.step \in {"unlease", "stop"} /\ op'.step \in {"stop", "record"}
      BY <1>0, <2>2, <3>3 DEF OpClaims
    <3> QED BY <1>3, <2>1, <2>2, <3>1, <3>2, <3>3, OpMoves
  <2>3. CASE /\ op.step = "claim" /\ state # "suspending"
             /\ state' = "suspending" /\ claimant' = "op"
             /\ op' = [op EXCEPT !.step = "others", !.exact = (state = op.seen), !.prior = claimant]
    <3>1. op'.step = "others" /\ op'.exact = (state = op.seen) /\ op'.seen = op.seen
          /\ op'.prior = claimant
      BY <2>3 DEF TypeOK, Op
    <3> QED BY <1>0, <2>3, <3>1 DEF OpClaims, FreeStates
  <2> QED BY <1>3, <1>e, <2>1, <2>2, <2>3, CalmOp DEF OpActs, OpClaiming, OpGo
<1>4. CASE QuietStep BY <1>0, <1>4, OthersAreQuiet DEF QuietStep, OpClaims
<1> QED BY <1>1, <1>2, <1>3, <1>4, Actors

\* How a session comes to replace the machine, and to use it.
SameButStep(s) ==
  /\ session'[s].run = session[s].run /\ session'[s].seen = session[s].seen
  /\ session'[s].exact = session[s].exact
Busily == {"replace", "take", "runs", "destroy", "record", "reconnect", "booting", "booted", "using"}
Moves(s, from, to) == At(s, from) /\ session'[s].step = to
Advances(s) ==
  \/ session'[s] = session[s] /\ UNCHANGED <<state, claimant>>
  \/ session'[s].step \notin Busily
  \/ Moves(s, "validate", "replace") /\ SameButStep(s) /\ Kind(s) \in {"recover", "restart"}
  \/ /\ Moves(s, "replace", "take") /\ session'[s].run = session[s].run
     /\ session'[s].seen = state /\ UNCHANGED <<state, claimant>>
     /\ Kind(s) = "recover" => state \notin {"booting", "suspending"}
  \/ /\ Moves(s, "take", "runs") /\ SameButStep(s) /\ Kind(s) = "recover" /\ ~Claimed(s)
  \/ /\ Moves(s, "take", "runs") /\ Kind(s) = "recover" /\ Claimed(s)
     /\ session'[s].run = session[s].run /\ session'[s].seen = session[s].seen
     /\ state' = "suspending" /\ claimant' = s
  \/ /\ Moves(s, "runs", "destroy") /\ SameButStep(s) /\ UNCHANGED <<state, claimant>>
  \/ /\ Moves(s, "destroy", "record") /\ SameButStep(s) /\ UNCHANGED <<state, claimant>>
     /\ state = Expects(s) /\ Own(s)
  \/ Moves(s, "leased", "reconnect") /\ SameButStep(s) /\ state = "running" /\ UNCHANGED <<state, claimant>>
  \/ Moves(s, "reconnect", "using") /\ SameButStep(s) /\ machine' /\ UNCHANGED <<state, claimant>>
  \/ Moves(s, "claim", "booting") /\ SameButStep(s) /\ state' = "booting" /\ claimant' = s
  \/ Moves(s, "booting", "booted") /\ SameButStep(s) /\ machine' /\ UNCHANGED <<state, claimant>>
  \/ Moves(s, "booted", "using") /\ SameButStep(s) /\ state' = "running" /\ UNCHANGED machine

LEMMA GoesElsewhere ==
  ASSUME TypeOK, NEW s \in Sessions, NEW step, step \notin Busily, Go(s, step)
  PROVE  Advances(s) /\ \A t \in Sessions \ {s} : session'[t] = session[t]
BY GoFacts DEF Advances

LEMMA GoesSame ==
  ASSUME TypeOK, NEW s \in Sessions, NEW step, Go(s, step)
  PROVE  /\ SameButStep(s) /\ session'[s].step = step
         /\ \A t \in Sessions \ {s} : session'[t] = session[t]
BY GoFacts DEF SameButStep

LEMMA GoesOff ==
  ASSUME TypeOK, NEW s \in Sessions, session' = [session EXCEPT ![s] = Off]
  PROVE  Advances(s) /\ \A t \in Sessions \ {s} : session'[t] = session[t]
<1>1. Off.step \notin Busily BY DEF Off, Busily
<1> QED BY <1>1, OffFacts DEF Advances

LEMMA StaysThere ==
  ASSUME UNCHANGED <<session, state, claimant>>, NEW s \in Sessions
  PROVE  Advances(s) /\ \A t \in Sessions \ {s} : session'[t] = session[t]
BY DEF Advances

LEMMA GivesUp ==
  ASSUME TypeOK, NEW s \in Sessions, GiveUp(s) \/ Busy(s)
  PROVE  Advances(s) /\ \A t \in Sessions \ {s} : session'[t] = session[t]
<1>1. "release" \notin Busily BY DEF Busily
<1> QED BY <1>1, GoesElsewhere, GoesOff DEF GiveUp, Busy

LEMMA SessionsAdvance ==
  ASSUME TypeOK, FreeStates, Calm', NEW s \in Sessions, SessionActs(s)
  PROVE  Advances(s) /\ \A t \in Sessions \ {s} : session'[t] = session[t]
<1>b. {"reclaim", "create", "validate", "leased", "release", "claim", "acquire", "closing",
       "pausing"} \cap Busily = {}
  BY DEF Busily
<1>1. CASE Acquire(s) \/ CrashSession(s) \/ Release(s) \/ Finish(s) \/ Close(s)
           \/ RequestTakeover(s) \/ ForceOut(s) \/ RecordReplaced(s)
  BY <1>1, <1>b, GivesUp, GoesElsewhere, GoesOff
     DEF Acquire, CrashSession, Release, Finish, Close, RequestTakeover, ForceOut, RecordReplaced
<1>2. CASE Reclaim(s) \/ CreateRow(s)
  <2>1. Obtain(s) \/ Busy(s) \/ Go(s, "create") BY <1>2 DEF Reclaim, CreateRow
  <2>2. CASE Obtain(s)
    <3>1. session \in [Sessions -> Session] /\ session[s] \in Session BY DEF TypeOK
    <3>2. session' = [session EXCEPT ![s].step = "validate", ![s].fence = lease'[Bot(s)].fence]
      BY <2>2 DEF Obtain
    <3>3. session'[s].step = "validate" /\ \A t \in Sessions \ {s} : session'[t] = session[t]
      BY <3>1, <3>2 DEF Session
    <3> QED BY <3>3, <1>b DEF Advances
  <2> QED BY <2>1, <2>2, <1>b, GivesUp, GoesElsewhere
<1>3. CASE Validate(s)
  <2>1. \/ Busy(s) \/ Go(s, "leased")
        \/ At(s, "validate") /\ Kind(s) \in {"recover", "restart"} /\ Go(s, "replace")
    BY <1>3 DEF Validate
  <2> QED BY <2>1, <1>b, GivesUp, GoesElsewhere, GoesSame DEF Advances, Moves
<1>4. CASE Provision(s)
  <2>1. UNCHANGED <<state, claimant>> BY <1>4, RowUnwritten, ComputerStays
  <2> QED BY <1>4, <2>1, <1>b, GoesElsewhere, GoesSame DEF Provision, Advances, Moves
<1>5. CASE Reconnect(s)
  <2>1. UNCHANGED <<state, claimant>> BY <1>5, RowUnwritten, ComputerStays
  <2>2. (Go(s, "using") /\ machine') \/ Go(s, "release") \/ GiveUp(s) BY <1>5 DEF Reconnect
  <2>3. At(s, "reconnect") BY <1>5 DEF Reconnect
  <2> QED BY <2>1, <2>2, <2>3, <1>b, GoesElsewhere, GoesSame, GivesUp DEF Advances, Moves
<1>6. CASE ClaimBoot(s)
  BY <1>6, GoesSame, GivesUp DEF ClaimBoot, Claim, Advances, Moves
<1>7. CASE PowerOn(s)
  BY <1>7, GoesSame, GivesUp, ComputerStays DEF PowerOn, Advances, Moves
<1>8. CASE Activate(s)
  <2>1. \/ /\ Go(s, "using") /\ state = "booting" /\ Settle(s, "booting", "running")
           /\ UNCHANGED machine
        \/ Go(s, "release") \/ GiveUp(s)
    BY <1>8 DEF Activate, host
  <2>2. At(s, "booted") BY <1>8 DEF Activate
  <2> QED BY <2>1, <2>2, <1>b, CalmSettles, GoesElsewhere, GoesSame, GivesUp DEF Advances, Moves
<1>9. CASE Pause(s)
  <2>1. session' = [session EXCEPT ![s] = Off] \/ Go(s, "closing")
    <3>1. CASE Matches(s) BY <1>9, <3>1, Zenon DEF Pause
    <3>2. CASE ~Matches(s) BY <1>9, <3>2, Zenon DEF Pause
    <3> QED BY <3>1, <3>2
  <2> QED BY <2>1, <1>b, GoesElsewhere, GoesOff
<1>10. CASE ReadForReplace(s)
  <2>1. UNCHANGED <<state, claimant>> BY <1>10, RowUnwritten, ComputerStays
  <2>2. \/ GiveUp(s)
        \/ /\ session' = [session EXCEPT ![s].step = "take", ![s].seen = state]
           /\ Kind(s) = "recover" => state \notin {"booting", "suspending"}
    BY <1>10 DEF ReadForReplace
  <2>3. At(s, "replace") BY <1>10 DEF ReadForReplace
  <2>4. CASE session' = [session EXCEPT ![s].step = "take", ![s].seen = state]
    <3>1. /\ session'[s].step = "take" /\ session'[s].run = session[s].run
          /\ session'[s].seen = state /\ \A t \in Sessions \ {s} : session'[t] = session[t]
      <4>1. session \in [Sessions -> Session] /\ session[s] \in Session BY DEF TypeOK
      <4> QED BY <2>4, <4>1 DEF Session
    <3>2. CASE GiveUp(s) BY <3>2, GivesUp
    <3> QED BY <2>1, <2>2, <2>3, <3>1, <3>2 DEF Advances, Moves
  <2> QED BY <2>2, <2>4, GivesUp
<1>11. CASE ClaimReplace(s)
  <2>1. At(s, "take") BY <1>11 DEF ClaimReplace
  <2>2. CASE Kind(s) = "restart" BY <1>11, <2>2 DEF ClaimReplace, Meets, Calm
  <2>3. CASE Kind(s) = "recover" /\ ~Claimed(s)
    BY <1>11, <2>3, GoesSame DEF ClaimReplace, Advances, Moves
  <2>4. CASE Kind(s) = "recover" /\ Claimed(s)
    <3>1. \/ GiveUp(s)
          \/ /\ session' =
                   [session EXCEPT ![s].step = "runs", ![s].exact = (state = session[s].seen)]
             /\ state' = "suspending" /\ claimant' = s
      BY <1>11, <2>4 DEF ClaimReplace, Claim
    <3>2. CASE /\ session' =
                    [session EXCEPT ![s].step = "runs", ![s].exact = (state = session[s].seen)]
               /\ state' = "suspending" /\ claimant' = s
      <4>1. /\ session'[s].step = "runs" /\ session'[s].run = session[s].run
            /\ session'[s].seen = session[s].seen /\ \A t \in Sessions \ {s} : session'[t] = session[t]
        BY <3>2, ExactFacts
      <4> QED BY <2>1, <2>4, <3>2, <4>1 DEF Advances, Moves
    <3> QED BY <3>1, <3>2, GivesUp
  <2> QED BY <1>11, <2>2, <2>3, <2>4 DEF ClaimReplace
<1>12. CASE CheckRuns(s)
  BY <1>12, GoesSame, GivesUp, ComputerStays DEF CheckRuns, Advances, Moves
<1>13. CASE Destroy(s)
  BY <1>13, GoesSame, GivesUp, CalmWrites DEF Destroy, Advances, Moves
<1>14. CASE Renew(s)
  BY <1>14, <1>b, StaysThere, GoesElsewhere, RowUnwritten, ComputerStays DEF Renew
<1>15. CASE TakeScreen(s) \/ RunLapses(s)
  BY <1>15, StaysThere, RowUnwritten, ComputerStays DEF TakeScreen, RunLapses
<1> QED BY <1>1, <1>2, <1>3, <1>4, <1>5, <1>6, <1>7, <1>8, <1>9, <1>10, <1>11, <1>12, <1>13,
           <1>14, <1>15 DEF SessionActs, SessionStep

LEMMA KindStays ==
  ASSUME NEW s \in Sessions, session'[s].run = session[s].run
  PROVE  /\ Kind(s)' = Kind(s) /\ Bot(s)' = Bot(s)
         /\ session'[s].seen = session[s].seen => (Claimed(s)' <=> Claimed(s))
BY DEF Kind, Bot, Claimed

\* What others do to a session, and to its claim, without a surprise.
LEMMA QuietSpares ==
  ASSUME TypeOK, QuietStep, NEW s \in Sessions
  PROVE  \/ session'[s] = session[s]
         \/ At(s, "off") /\ session'[s].step \in {"cancel", "acquire"}
<1>1. CASE UNCHANGED session BY <1>1
<1>2. ASSUME NEW t \in Sessions, NEW r \in Holders, Start(t, r)
      PROVE  \/ session'[s] = session[s]
             \/ At(s, "off") /\ session'[s].step \in {"cancel", "acquire"}
  <2>1. CASE t = s
    <3>1. session \in [Sessions -> Session] BY DEF TypeOK
    <3>2. session'[s].step = IF KindOf[r] = "restart" THEN "cancel" ELSE "acquire"
      BY <1>2, <2>1, <3>1 DEF Start, Off
    <3> QED BY <1>2, <2>1, <3>2 DEF Start
  <2>2. CASE t # s BY <1>2, <2>2 DEF Start, TypeOK
  <2> QED BY <2>1, <2>2
<1> QED BY <1>1, <1>2 DEF QuietStep, Create, ResumeRun, vars

LEMMA SessionsSpared ==
  ASSUME TypeOK, FreeStates, Calm', [Next]_vars, NEW s \in Sessions, ~SessionActs(s)
  PROVE  \/ session'[s] = session[s]
         \/ At(s, "off") /\ session'[s].step \in {"cancel", "acquire"}
<1>1. ASSUME NEW t \in Sessions, SessionActs(t) PROVE session'[s] = session[s]
  BY <1>1, SessionsAdvance
<1>2. CASE IdleActs \/ OpActs BY <1>2, CalmIdle, CalmOp DEF IdleActs, OpActs
<1> QED BY <1>1, <1>2, QuietSpares, Actors

LEMMA ClaimsSpared ==
  ASSUME TypeOK, Claims, Calm', [Next]_vars, NEW s \in Sessions, ~SessionActs(s),
         state = "suspending", claimant = s
  PROVE  UNCHANGED <<state, claimant>>
<1>0. FreeStates /\ ReplacementClaims BY DEF Claims
<1>1. ASSUME NEW t \in Sessions, SessionActs(t) PROVE UNCHANGED <<state, claimant>>
  BY <1>0, <1>1, CalmSessions, SessionTakes DEF SessionActs
<1>2. CASE IdleActs BY <1>2, CalmIdle, Names DEF IdleActs, IdleClaiming, MaySleep
<1>3. CASE OpActs BY <1>3, CalmOp, Names DEF OpActs, OpClaiming
<1> QED BY <1>1, <1>2, <1>3, Actors, OthersAreQuiet DEF QuietStep

LEMMA ReplacementClaimsNext ==
  ASSUME TypeOK, Claims, Calm', [Next]_vars PROVE ReplacementClaims'
<1>0. FreeStates /\ ReplacementClaims BY DEF Claims
<1> SUFFICES ASSUME NEW s \in Sessions PROVE Replacement(s)' BY DEF ReplacementClaims
<1>1. Replacement(s) BY <1>0 DEF ReplacementClaims
<1>2. CASE session'[s].step \notin Busily
  BY <1>2 DEF Replacement, Replacing, Busily
<1>3. ASSUME session'[s] = session[s],
             UNCHANGED <<state, claimant>> \/ ~(state = "suspending" /\ claimant = s)
      PROVE  Replacement(s)'
  <2>1. Kind(s)' = Kind(s) /\ (Claimed(s)' <=> Claimed(s)) BY <1>3, KindStays
  <2> QED BY <1>1, <1>3, <2>1 DEF Replacement, Replacing
<1>4. CASE SessionActs(s)
  <2>1. Advances(s) BY <1>0, <1>4, SessionsAdvance
  <2>2. ASSUME SameButStep(s) PROVE Kind(s)' = Kind(s) /\ (Claimed(s)' <=> Claimed(s))
    BY <2>2, KindStays DEF SameButStep
  <2>3. CASE Moves(s, "validate", "replace") /\ SameButStep(s) /\ Kind(s) \in {"recover", "restart"}
    BY <2>2, <2>3 DEF Moves, Replacement, Replacing
  <2>4. CASE /\ Moves(s, "replace", "take") /\ session'[s].run = session[s].run
             /\ session'[s].seen = state
             /\ Kind(s) = "recover" => state \notin {"booting", "suspending"}
    BY <1>1, <2>4, KindStays DEF Moves, At, Replacement, Replacing
  <2>5. CASE Moves(s, "take", "runs") /\ SameButStep(s) /\ Kind(s) = "recover" /\ ~Claimed(s)
    BY <1>1, <2>2, <2>5 DEF Moves, At, Replacement, Replacing, SameButStep
  <2>6. CASE /\ Moves(s, "take", "runs") /\ Kind(s) = "recover" /\ Claimed(s)
             /\ session'[s].run = session[s].run /\ session'[s].seen = session[s].seen
             /\ state' = "suspending" /\ claimant' = s
    BY <1>1, <2>6, KindStays DEF Moves, At, Replacement, Replacing
  <2>7. CASE /\ Moves(s, "runs", "destroy") \/ Moves(s, "destroy", "record")
             /\ SameButStep(s) /\ UNCHANGED <<state, claimant>>
    BY <1>1, <2>2, <2>7 DEF Moves, At, Replacement, Replacing, SameButStep
  <2>8. CASE session'[s].step \in {"reconnect", "using", "booting", "booted"}
    BY <2>8 DEF Replacement, Replacing
  <2> QED BY <1>2, <1>3, <2>1, <2>3, <2>4, <2>5, <2>6, <2>7, <2>8 DEF Advances, Moves
<1>5. CASE ~SessionActs(s)
  <2>1. CASE session'[s] = session[s] BY <1>3, <1>5, <2>1, ClaimsSpared
  <2> QED BY <1>0, <1>2, <1>5, <2>1, SessionsSpared DEF Busily
<1> QED BY <1>4, <1>5

\* A session that has claimed the state keeps to the steps that follow.
LEMMA ClaimantsStayNext ==
  ASSUME TypeOK, Claims, Calm', [Next]_vars PROVE ClaimantsStay'
<1>0. FreeStates /\ ReplacementClaims /\ OpClaims /\ ClaimantsStay BY DEF Claims
<1> SUFFICES ASSUME NEW s \in Sessions, state' = "suspending", claimant' = s
             PROVE  /\ session'[s].step \in
                         {"off", "cancel", "acquire", "runs", "destroy", "record"}
                    /\ Replacing(s)' => Claimed(s)'
  BY DEF ClaimantsStay
<1>1. CASE UNCHANGED <<state, claimant>> /\ ~SessionActs(s)
  <2>1. CASE session'[s] = session[s]
    BY <1>0, <1>1, <2>1, KindStays DEF ClaimantsStay, Replacing
  <2> QED BY <1>0, <1>1, <2>1, SessionsSpared DEF Replacing
<1>2. CASE SessionActs(s)
  <2> DEFINE Goal == /\ session'[s].step \in
                          {"off", "cancel", "acquire", "runs", "destroy", "record"}
                     /\ Replacing(s)' => Claimed(s)'
  <2> SUFFICES Goal OBVIOUS
  <2>1. SessionClaims(s) BY <1>0, <1>2, CalmSessions DEF SessionActs
  <2>2. CASE ~UNCHANGED <<state, claimant>>
    <3>1. /\ Claimed(s)
          /\ session' = [session EXCEPT ![s].step = "runs", ![s].exact = (state = session[s].seen)]
      BY <2>1, <2>2, Names DEF SessionClaims
    <3> QED BY <3>1, ExactFacts, KindStays
  <2>3. CASE UNCHANGED <<state, claimant>>
    <3>1. /\ session[s].step \in {"off", "cancel", "acquire", "runs", "destroy", "record"}
          /\ Replacing(s) => Claimed(s) /\ session[s].seen # "suspending"
          /\ state = "suspending" /\ claimant = s
      BY <1>0, <2>3 DEF ClaimantsStay, ReplacementClaims, Replacement, Replacing
    <3>2. CASE session'[s] = Off BY <3>2 DEF Off, Replacing
    <3>3. CASE ForceOut(s) BY <3>3, GoFacts DEF ForceOut, Replacing
    <3>4. CASE Acquire(s) BY <3>1, <3>2, <3>4, OffFacts DEF Acquire, Busy
    <3>5. CASE CheckRuns(s)
      <4>1. CASE Go(s, "destroy")
        BY <3>1, <3>5, <4>1, GoFacts, KindStays DEF CheckRuns, At, Replacing
      <4>2. CASE Restore(s, session[s].exact, session[s].seen, None)
        BY <2>3, <3>1, <3>5, <4>2 DEF CheckRuns, At, Replacing, Restore
      <4> QED BY <3>1, <3>5, <4>1, <4>2 DEF CheckRuns, At, Replacing
    <3>6. CASE Destroy(s)
      <4>1. CASE Go(s, "record")
        BY <3>1, <3>6, <4>1, GoFacts, KindStays DEF Destroy, At, Replacing
      <4> QED BY <2>3, <3>1, <3>6, <4>1 DEF Destroy, Overwrite
    <3>7. CASE RecordReplaced(s) BY <2>3, <3>1, <3>7 DEF RecordReplaced, Overwrite
    <3>8. CASE CrashSession(s) BY <3>2, <3>8, OffFacts DEF CrashSession
    <3>9. CASE RunLapses(s) BY <3>1, <3>9, KindStays DEF RunLapses, Replacing
    <3> HIDE DEF Goal
    <3> QED BY <1>2, <3>1, <3>3, <3>4, <3>5, <3>6, <3>7, <3>8, <3>9
      DEF SessionActs, SessionStep, At, Reclaim, CreateRow, Validate, Release, Provision,
          Reconnect, ClaimBoot, PowerOn, Activate, Finish, Close, Pause, ReadForReplace,
          ClaimReplace, Renew, TakeScreen, RequestTakeover
  <2> QED BY <2>2, <2>3
<1>3. CASE ~UNCHANGED <<state, claimant>> /\ ~SessionActs(s)
  <2>1. ASSUME NEW t \in Sessions, SessionActs(t), t # s PROVE FALSE
    BY <1>0, <1>3, <2>1, CalmSessions, SessionTakes, Names DEF SessionActs
  <2>2. CASE IdleActs BY <1>3, <2>2, CalmIdle, Names DEF IdleActs, IdleClaiming
  <2>3. CASE OpActs
    <3>1. OpClaiming BY <2>3, CalmOp DEF OpActs
    <3> QED BY <1>0, <1>3, <3>1, Names DEF OpClaiming, OpClaims
  <2> QED BY <1>3, <2>1, <2>2, <2>3, Actors, OthersAreQuiet DEF QuietStep
<1> QED BY <1>1, <1>2, <1>3

\* Who switches the machine off without a surprise.
LEMMA SessionsSwitchOff ==
  ASSUME TypeOK, FreeStates, Calm', NEW s \in Sessions, SessionActs(s)
  PROVE  \/ UNCHANGED machine \/ machine'
         \/ At(s, "booted") /\ session'[s].step = "release" /\ state = "booting" /\ claimant = s
         \/ At(s, "destroy") /\ session'[s].step = "record" /\ state = Expects(s) /\ Own(s)
<1>1. CASE Activate(s)
  <2>1. \/ UNCHANGED machine
        \/ Go(s, "release") /\ Settle(s, "booting", "error") /\ state = "booting"
        \/ Expecting("booting", TRUE) /\ state # "booting"
    BY <1>1 DEF Activate, host, GiveUp, BootFailed
  <2> QED BY <1>1, <2>1, GoFacts, CalmSettles, CalmWrites DEF Activate
<1>2. CASE Destroy(s) BY <1>2, GoFacts, CalmWrites DEF Destroy, host
<1> QED BY <1>1, <1>2 DEF SessionActs, SessionStep, Acquire, Reclaim, CreateRow, Validate,
      Release, Provision, Reconnect, ClaimBoot, PowerOn, Finish, Close, Pause, ForceOut,
      ReadForReplace, ClaimReplace, CheckRuns, RecordReplaced, Renew, TakeScreen,
      RequestTakeover, CrashSession, RunLapses, host

LEMMA JobsSwitchOff ==
  ASSUME Calm'
  PROVE  /\ IdleActs =>
              \/ UNCHANGED machine
              \/ state = "suspending" /\ claimant = "idle"
         /\ OpActs =>
              \/ UNCHANGED machine
              \/ op.step = "stop" /\ state = "suspending" /\ claimant = "op"
<1>1. IdleActs /\ ~StopIdle => UNCHANGED machine
  BY DEF IdleActs, SleepStep, ClaimSleep, RecheckSleep, RecordSleep, CrashIdle, BeginSleep, host
<1>2. OpActs /\ ~StopMachine => UNCHANGED machine
  BY DEF OpActs, OpStep, ClaimStop, CheckOthers, Unlease, RecordStop, DeleteRow, FreeScreen, CrashOp,
     BotStep, ReadForStop, ReadForTakeover, StopThread, ClearThread,
     LeaseLapses, host
<1>3. StopIdle => UNCHANGED machine \/ (state = "suspending" /\ claimant = "idle")
  BY DEF StopIdle, host, Expecting, Meets, Calm
<1>4. StopMachine =>
        UNCHANGED machine \/ (op.step = "stop" /\ state = "suspending" /\ claimant = "op")
  BY DEF StopMachine, host, Expecting, Meets, Calm
<1> QED BY <1>1, <1>2, <1>3, <1>4

\* A session that goes on stands on what it stood on.
LEMMA StandsStill ==
  ASSUME NEW s \in Sessions, Stands(s), UNCHANGED <<state, claimant>>,
         session'[s].step \in {"booting", "booted"} => session[s].step \in {"booting", "booted"},
         session'[s].step \in {"reconnect", "using"} => session[s].step \in {"reconnect", "using"},
         session'[s].step \in {"booted", "using"} => machine',
         \A from \in {"booting", "running"} :
           StopOver(s, from) => OpFits(s, from)',
         ReplacementOver(s) => ReplacementFits(s, claimant)'
  PROVE  Stands(s)'
BY DEF Stands, StopOver, ReplacementOver

\* A stop that may give the state back, and the session's row, goes on.
LEMMA StopGoesOn ==
  ASSUME TypeOK, NEW s \in Sessions, Bot(s)' = Bot(s), NEW from, OpFits(s, from),
         \/ UNCHANGED op \/ op'.step \in {"off", "claim", "delete", "forget", "screen"}
         \/ op.step = "others" /\ op' = [op EXCEPT !.step = "unlease"]
  PROVE  OpFits(s, from)'
BY DEF OpFits, TypeOK, Op

\* Who is not on the session's machine does not stop it.
LEMMA OthersDoNotReplace ==
  ASSUME FenceInv, NEW s \in Sessions, Sound(s), Stands(s), NEW t \in Sessions, t # s,
         session[t].step \in {"destroy", "record"}, state = Expects(t), Own(t),
         session[s].step \in {"reconnect", "booting", "booted", "using"}
  PROVE  FALSE
<1>1. TypeOK BY DEF FenceInv
<1>2. session[t].run # None BY <1>1 DEF TypeOK, At
<1>3. state \in {"booting", "running", "suspending"} BY DEF Stands, StopOver, ReplacementOver
<1>4. Claimed(t) /\ state = "suspending" /\ claimant = t /\ Matches(t) BY <1>3, ExpectsFacts
<1>5. Bot(t) = Bot(s)
  BY <1>4, Names DEF Stands, StopOver, ReplacementOver, ReplacementFits, Replacing
<1> QED BY <1>2, <1>4, <1>5, OneMatches DEF Sound

LEMMA StandsByItself ==
  ASSUME FenceInv, Claims, Calm', NEW s \in Sessions, Sound(s), Stands(s), Bot(s)' = Bot(s),
         session'[s].step # "validate", SessionActs(s)
  PROVE  Stands(s)'
<1>1. TypeOK /\ FreeStates BY DEF FenceInv, Claims
<1>2. Advances(s) /\ \A t \in Sessions \ {s} : session'[t] = session[t]
  BY <1>1, SessionsAdvance
<1>3. UNCHANGED machine \/ machine' \/ session'[s].step \in {"release", "record"}
  BY <1>1, SessionsSwitchOff
<1>4. \A from \in {"booting", "running"} : StopOver(s, from) => OpFits(s, from)'
  <2>1. UNCHANGED op \/ op'.step = "off"
    <3>1. \A step : [op EXCEPT !.step = step].step = step BY <1>1 DEF TypeOK, Op
    <3> QED BY <3>1, SessionsSpareOp
  <2> QED BY <1>1, <2>1, StopGoesOn DEF StopOver
<1>5. ASSUME session'[s].step \notin {"runs", "destroy", "record"}, ReplacementOver(s),
             UNCHANGED claimant
      PROVE  ReplacementFits(s, claimant)'
  <2>1. CASE claimant = s BY <1>5, <2>1 DEF ReplacementFits, Replacing
  <2>2. CASE claimant # s
    <3>1. claimant \in Sessions \ {s} BY <1>5, <2>2 DEF ReplacementOver
    <3>2. session'[claimant] = session[claimant] BY <1>2, <3>1
    <3> QED BY <1>5, <3>1, <3>2 DEF ReplacementOver, ReplacementFits, Replacing, At, Bot
  <2> QED BY <2>1, <2>2
<1>6. CASE session'[s].step \notin {"reconnect", "booting", "booted", "using"}
  BY <1>6 DEF Stands
<1>7. CASE session'[s].step \in {"reconnect", "booting", "booted", "using"}
  <2>1. CASE session'[s] = session[s] /\ UNCHANGED <<state, claimant>>
    <3>1. session'[s].step \in {"booted", "using"} => machine'
      BY <1>3, <1>7, <2>1 DEF Stands
    <3> QED BY <1>4, <1>5, <1>7, <2>1, <3>1, StandsStill
  <2>2. CASE /\ Moves(s, "reconnect", "using") \/ Moves(s, "booting", "booted")
             /\ machine' /\ UNCHANGED <<state, claimant>>
    BY <1>4, <1>5, <1>7, <2>2, StandsStill DEF Moves, At
  <2>3. CASE session'[s].step = "reconnect" /\ state = "running" /\ UNCHANGED <<state, claimant>>
    BY <2>3 DEF Stands
  <2>4. CASE session'[s].step = "booting" /\ state' = "booting" /\ claimant' = s
    BY <2>4 DEF Stands
  <2>5. CASE Moves(s, "booted", "using") /\ state' = "running" /\ UNCHANGED machine
    BY <2>5 DEF Stands, Moves, At
  <2> QED BY <1>2, <1>7, <2>1, <2>2, <2>3, <2>4, <2>5 DEF Advances, Moves, Busily
<1> QED BY <1>6, <1>7

LEMMA StandsBeside ==
  ASSUME FenceInv, Claims, Calm', NEW s \in Sessions, Sound(s), Stands(s), Bot(s)' = Bot(s),
         session'[s] = session[s], NEW t \in Sessions, t # s, SessionActs(t),
         session[s].step \in {"reconnect", "booting", "booted", "using"}
  PROVE  Stands(s)'
<1>1. TypeOK /\ FreeStates /\ ReplacementClaims /\ ClaimantsStay BY DEF FenceInv, Claims
<1>2. Advances(t) /\ \A u \in Sessions \ {t} : session'[u] = session[u]
  BY <1>1, SessionsAdvance
<1>3. state \in {"booting", "running", "suspending"} BY DEF Stands, StopOver, ReplacementOver
<1>4. session[s].step \in {"booted", "using"} => machine'
  <2>1. machine \/ session[s].step \notin {"booted", "using"} BY DEF Stands
  <2>2. ~(state = "booting" /\ claimant = t) \/ session[s].step \notin {"booted", "using"}
    BY DEF Stands, StopOver, ReplacementOver
  <2> QED BY <1>1, <2>1, <2>2, SessionsSwitchOff, OthersDoNotReplace DEF At
<1>5. CASE UNCHANGED <<state, claimant>>
  <2>1. \A from \in {"booting", "running"} : StopOver(s, from) => OpFits(s, from)'
    <3>1. UNCHANGED op \/ op'.step = "off"
      <4>1. \A step : [op EXCEPT !.step = step].step = step BY <1>1 DEF TypeOK, Op
      <4> QED BY <4>1, SessionsSpareOp
    <3> QED BY <1>1, <3>1, StopGoesOn DEF StopOver
  <2>2. ReplacementOver(s) => ReplacementFits(s, claimant)'
    <3> SUFFICES ASSUME ReplacementOver(s) PROVE ReplacementFits(s, claimant)' OBVIOUS
    <3>1. CASE session'[claimant] = session[claimant]
      BY <1>5, <3>1 DEF ReplacementOver, ReplacementFits, Replacing, At, Bot
    <3>2. CASE claimant = t
      <4>1. /\ state = "suspending" /\ ReplacementFits(s, t)
            /\ session[t].step \in {"off", "cancel", "acquire", "runs", "destroy", "record"}
        BY <1>1, <3>2 DEF ReplacementOver, ClaimantsStay
      <4>2. CASE Moves(t, "runs", "destroy") /\ SameButStep(t)
        <5>1. Bot(t)' = Bot(t) BY <4>2, KindStays DEF SameButStep
        <5> QED BY <1>5, <3>2, <4>1, <4>2, <5>1
                DEF ReplacementFits, Replacing, At, Moves, SameButStep
      <4>3. ~(Moves(t, "destroy", "record") /\ state = Expects(t) /\ Own(t))
        BY OthersDoNotReplace DEF Moves, At
      <4>4. CASE session'[t].step \notin Busily
        BY <1>5, <3>2, <4>4 DEF ReplacementFits, Replacing, Busily
      <4> QED BY <1>2, <3>1, <3>2, <4>1, <4>2, <4>3, <4>4 DEF Advances, Moves, At
    <3> QED BY <1>2, <3>1, <3>2 DEF ReplacementOver
  <2> QED BY <1>4, <1>5, <2>1, <2>2, StandsStill
<1>6. CASE ~UNCHANGED <<state, claimant>>
  <2>0. SessionClaims(t) BY <1>1, CalmSessions DEF SessionActs
  <2>1. ~(session[t].step \in {"destroy", "record"} /\ state = Expects(t) /\ Own(t))
    BY OthersDoNotReplace
  <2>2. ~(state = "booting" /\ claimant = t) /\ ~(state \in Asleep)
    BY <1>3 DEF Stands, StopOver, ReplacementOver, Asleep
  <2>3. CASE /\ At(t, "take") /\ LiveOthers(Bot(t)) = {}
             /\ state \in {"running", "error"} /\ state' = "suspending" /\ claimant' = t
             /\ session' = [session EXCEPT ![t].step = "runs", ![t].exact = (state = session[t].seen)]
    <3>1. Bot(s) \in Bots /\ Bot(t) \in Bots
      BY <1>1, <2>3, Holding DEF Sound, TypeOK, At
    <3>2. Bot(s) = Bot(t) BY <2>3, <3>1 DEF LiveOthers, Sound
    <3>3. state = "running" /\ session[s].step \in {"reconnect", "using"}
      BY <1>3, <2>3 DEF Stands, StopOver
    <3>4. /\ session'[t].step = "runs" /\ session'[t].seen = session[t].seen
          /\ session'[t].exact = (state = session[t].seen) /\ session'[t].run = session[t].run
      <4>1. session \in [Sessions -> Session] /\ session[t] \in Session BY <1>1 DEF TypeOK
      <4> QED BY <2>3, <4>1 DEF Session
    <3>5. ReplacementFits(s, t)' BY <3>2, <3>3, <3>4, KindStays DEF ReplacementFits, At
    <3> QED BY <1>4, <2>3, <3>3, <3>5 DEF Stands, ReplacementOver
  <2>4. CASE /\ At(t, "runs") /\ state = "suspending" /\ claimant = t /\ session[t].exact
             /\ state' = session[t].seen
    <3>1. session[s].step \in {"reconnect", "using"} /\ session[t].seen = "running"
      BY <2>4, Names DEF Stands, StopOver, ReplacementOver, ReplacementFits, Replacing, At
    <3> QED BY <1>4, <2>4, <3>1 DEF Stands
  <2> QED BY <1>6, <2>0, <2>1, <2>2, <2>3, <2>4 DEF SessionClaims
<1> QED BY <1>5, <1>6

LEMMA StandsByIdle ==
  ASSUME FenceInv, Claims, Calm', NEW s \in Sessions, Sound(s), Stands(s), Bot(s)' = Bot(s),
         session'[s] = session[s], IdleActs,
         session[s].step \in {"reconnect", "booting", "booted", "using"}
  PROVE  Stands(s)'
<1>1. TypeOK BY DEF FenceInv
<1>2. IdleClaiming /\ UNCHANGED <<session, lease, op, reset>> BY CalmIdle DEF IdleActs
<1>3. ~(state = "suspending" /\ claimant = "idle")
  BY Names DEF Stands, StopOver, ReplacementOver
<1>4. ~MaySleep BY <1>1, Holding DEF MaySleep, Sound, TypeOK
<1>5. UNCHANGED <<state, claimant>> BY <1>2, <1>3, <1>4 DEF IdleClaiming
<1>6. UNCHANGED machine BY <1>3, JobsSwitchOff
<1> QED BY <1>2, <1>5, <1>6 DEF Stands, StopOver, ReplacementOver, OpFits, ReplacementFits,
      Replacing, At, Bot

LEMMA StandsByOp ==
  ASSUME FenceInv, Claims, Calm', NEW s \in Sessions, Sound(s), Stands(s), Bot(s)' = Bot(s),
         Bot(s) \notin reset', session'[s] = session[s], OpActs,
         session[s].step \in {"reconnect", "booting", "booted", "using"}
  PROVE  Stands(s)'
<1>1. TypeOK /\ OpClaims BY DEF FenceInv, Claims
<1>2. OpClaiming /\ UNCHANGED <<session, idle>> BY CalmOp DEF OpActs
<1>3. Bot(s) \in Bots /\ lease[Bot(s)].live /\ lease[Bot(s)] # NoRow
  BY <1>1, Holding DEF Sound, TypeOK, NoRow
<1>4. ~(op.step \in {"stop", "record"} /\ state = "suspending" /\ claimant = "op")
  BY Names DEF Stands, StopOver, ReplacementOver, OpFits
<1>5. UNCHANGED machine BY <1>4, JobsSwitchOff
<1>6. ReplacementFits(s, claimant) /\ UNCHANGED claimant => ReplacementFits(s, claimant)'
  BY <1>2 DEF ReplacementFits, Replacing, At, Bot
<1>7. CASE UNCHANGED <<state, claimant>>
  <2>1. ASSUME NEW from, StopOver(s, from) PROVE OpFits(s, from)'
    <3>1. ~(op.step = "unlease" /\ Reset({op.bot}))
      BY <1>3, <2>1 DEF StopOver, OpFits, Reset
    <3> QED BY <1>1, <1>4, <1>7, <2>1, <3>1, OpMoves, StopGoesOn DEF StopOver
  <2> QED BY <1>5, <1>6, <1>7, <2>1, StandsStill DEF ReplacementOver, Stands
<1>8. CASE /\ state # "suspending" /\ LiveOthers(op.bot) = {}
           /\ state' = "suspending" /\ claimant' = "op"
           /\ op' = [op EXCEPT !.step = "others", !.exact = (state = op.seen), !.prior = claimant]
  <2>1. op.bot = Bot(s) BY <1>1, <1>3, <1>8 DEF LiveOthers, TypeOK, Op
  <2>2. /\ op'.step = "others" /\ op'.exact = (state = op.seen) /\ op'.seen = op.seen
        /\ op'.prior = claimant /\ op'.bot = op.bot
    BY <1>1, <1>8 DEF TypeOK, Op
  <2>3. CASE session[s].step \in {"booting", "booted"}
    <3>1. state = "booting" /\ claimant = s BY <1>8, <2>3 DEF Stands, StopOver
    <3> QED BY <1>5, <1>8, <2>1, <2>2, <2>3, <3>1 DEF Stands, StopOver, OpFits
  <2>4. CASE session[s].step \in {"reconnect", "using"}
    <3>1. state = "running" BY <1>8, <2>4 DEF Stands, StopOver, ReplacementOver
    <3> QED BY <1>5, <1>8, <2>1, <2>2, <2>4, <3>1 DEF Stands, StopOver, OpFits
  <2> QED BY <2>3, <2>4
<1>9. CASE /\ op.step = "others" /\ state = "suspending" /\ claimant = "op" /\ op.exact
           /\ state' = op.seen /\ claimant' = op.prior
  BY <1>5, <1>9, Names DEF Stands, StopOver, ReplacementOver, OpFits
<1> QED BY <1>2, <1>4, <1>7, <1>8, <1>9 DEF OpClaiming

LEMMA StandsInQuiet ==
  ASSUME FenceInv, NEW s \in Sessions, Sound(s), Stands(s), Bot(s)' = Bot(s),
         session'[s] = session[s], QuietStep
  PROVE  Stands(s)'
<1>1. TypeOK BY DEF FenceInv
<1>2. UNCHANGED <<state, claimant, machine, op>> BY OthersAreQuiet DEF QuietStep
<1>3. ReplacementOver(s) => ReplacementFits(s, claimant)'
  <2> SUFFICES ASSUME claimant \in Sessions, ReplacementFits(s, claimant)
               PROVE  ReplacementFits(s, claimant)'
    BY DEF ReplacementOver
  <2>1. session'[claimant] = session[claimant] \/ session'[claimant].step \in {"cancel", "acquire"}
    BY <1>1, QuietSpares
  <2> QED BY <1>2, <2>1 DEF ReplacementFits, Replacing, At, Bot
<1>4. \A from \in {"booting", "running"} : StopOver(s, from) => OpFits(s, from)'
  BY <1>2 DEF StopOver, OpFits
<1> QED BY <1>2, <1>3, <1>4, StandsStill DEF Stands

LEMMA StandingNext ==
  ASSUME FenceInv, Ahead', TypeOK', KeptAreLive, Claims, Standing, [Next]_vars, Calm'
  PROVE  Standing'
<1> SUFFICES ASSUME NEW s \in Sessions, Sound(s)' PROVE Stands(s)' BY DEF Standing
<1>1. TypeOK /\ FreeStates BY DEF FenceInv, Claims
<1>2. CASE session'[s].step \notin {"reconnect", "booting", "booted", "using"}
  BY <1>2 DEF Stands
<1>3. CASE session'[s].step \in {"reconnect", "booting", "booted", "using"}
  <2>1. Sound(s) /\ Bot(s)' = Bot(s) /\ Bot(s) \notin reset'
    BY <1>3, SoundBefore DEF Sound
  <2>2. Stands(s) BY <2>1 DEF Standing
  <2>3. CASE SessionActs(s) BY <1>3, <2>1, <2>2, <2>3, StandsByItself
  <2>4. CASE ~SessionActs(s)
    <3>1. session'[s] = session[s] BY <1>1, <1>3, <2>4, SessionsSpared
    <3>2. ASSUME NEW t \in Sessions, SessionActs(t) PROVE Stands(s)'
      BY <1>3, <2>1, <2>2, <2>4, <3>1, <3>2, StandsBeside
    <3>3. CASE IdleActs BY <1>3, <2>1, <2>2, <3>1, <3>3, StandsByIdle
    <3>4. CASE OpActs BY <1>3, <2>1, <2>2, <3>1, <3>4, StandsByOp
    <3>5. CASE QuietStep BY <2>1, <2>2, <3>1, <3>5, StandsInQuiet
    <3> QED BY <3>2, <3>3, <3>4, <3>5, Actors
  <2> QED BY <2>3, <2>4
<1> QED BY <1>2, <1>3

LEMMA PowerNext == PowerInv /\ [Next]_vars => PowerInv'
<1> SUFFICES ASSUME PowerInv, [Next]_vars PROVE PowerInv' OBVIOUS
<1>1. FenceInv /\ KeptAreLive BY DEF PowerInv
<1>2. FenceInv' /\ Ahead' /\ TypeOK'
  BY <1>1, TypedNext, AheadNext, FencesNext DEF FenceInv
<1>3. KeptAreLive' BY <1>1, <1>2, KeptNext
<1>4. ASSUME Calm' PROVE Claims' /\ Standing'
  <2>1. TypeOK /\ Claims /\ Standing BY <1>1, <1>4, CalmBefore DEF PowerInv, FenceInv
  <2>2. FreeStates' /\ IdleClaims' /\ OpClaims' /\ ReplacementClaims' /\ ClaimantsStay'
    BY <1>4, <2>1, FreeStatesNext, IdleClaimsNext, OpClaimsNext, ReplacementClaimsNext,
       ClaimantsStayNext
  <2>3. Standing' BY <1>1, <1>2, <1>4, <2>1, StandingNext
  <2> QED BY <2>2, <2>3 DEF Claims
<1> QED BY <1>2, <1>3, <1>4 DEF PowerInv

LEMMA Powering == Spec => []PowerInv
BY PowerInit, PowerNext, PTL DEF Spec

\* A session that uses the computer with a lease that has been valid since it
\* was acquired has a machine under it, however runs, boots, replacements,
\* stops, the idle job and failures interleave, unless a write met a state, or
\* another's claim on it, that it did not expect (computer-idle.ts:77,
\* router.ts:1217, computer-lifecycle.ts:518).
THEOREM RunsHaveTheirMachine == Spec => []MachineUnderRun
<1>1. PowerInv => MachineUnderRun
  <2> SUFFICES ASSUME PowerInv, NEW s \in Sessions, Uses(s), ~disturbed, ~undercut
               PROVE  machine
    BY DEF MachineUnderRun
  <2>1. Calm /\ Standing BY DEF PowerInv, Calm
  <2>2. Sound(s) BY DEF Uses, Sound, Matches
  <2> QED BY <2>1, <2>2 DEF Standing, Stands, Uses, At
<1> QED BY <1>1, Powering, PTL

-----------------------------------------------------------------------------
(* What a claim, and a computer that runs, still have coming.              *)

\* Whoever claimed the state is at work on settling it.
Attended ==
  \/ /\ state = "booting" /\ claimant \in Sessions
     /\ session[claimant].step \in {"booting", "booted"}
  \/ /\ state = "suspending"
     /\ \/ claimant = "idle" /\ idle.step \in {"recheck", "stop", "record"}
        \/ claimant = "op" /\ op.step \in {"others", "unlease", "stop", "record"}
        \/ claimant \in Sessions /\ Replacing(claimant) /\ Claimed(claimant)
ClaimIsAttended == Changing => Attended \/ abandoned \/ disturbed

\* The state that is given back does not need a claimant, or has one.
BootIsClaimed == state = "booting" => claimant \in Sessions
StopNotes == op.step = "others" /\ op.exact =>
  op.seen # "suspending" /\ (op.seen = "booting" => op.prior \in Sessions)
ReplacementNotes == \A s \in Sessions :
  /\ At(s, "take") /\ Kind(s) = "recover" => session[s].seen \notin {"booting", "suspending"}
  /\ At(s, "runs") =>
       Kind(s) = "recover" /\ session[s].seen \notin {"booting", "suspending"}

\* The job that will put a running computer to sleep exists.
SleepComes == sleepJob \/ idle.step # "off" \/ dropped
SleepIsDue == state = "running" => SleepComes \/ disturbed
StopKeepsSleep ==
  op.step = "others" /\ op.exact /\ op.seen = "running" /\ state = "suspending" /\ claimant = "op" =>
    SleepComes
ReplacementKeepsSleep == \A s \in Sessions :
  /\ At(s, "runs") /\ session[s].exact /\ session[s].seen = "running"
  /\ state = "suspending" /\ claimant = s
  => SleepComes

SettleInv ==
  /\ TypeOK /\ ReplacementNotes /\ ClaimIsAttended /\ SleepIsDue
  /\ ~disturbed => BootIsClaimed /\ StopNotes /\ StopKeepsSleep /\ ReplacementKeepsSleep

LEMMA SettleInit == Init => SettleInv
<1> SUFFICES ASSUME Init PROVE SettleInv OBVIOUS
<1>1. TypeOK BY TypedInit
<1>2. \A s \in Sessions : session[s].step = "off" BY DEF Init, Off
<1>3. state = "stopped" /\ op.step = "off" BY DEF Init
<1> QED BY <1>1, <1>2, <1>3 DEF SettleInv, ReplacementNotes, ClaimIsAttended, SleepIsDue,
      BootIsClaimed, StopNotes, StopKeepsSleep, ReplacementKeepsSleep, Changing, At

\* A write that meets the state it expects.
LEMMA WritesAsExpected ==
  ASSUME ~disturbed', NEW expected, NEW own, NEW new
  PROVE  /\ Overwrite(new, expected, own) => state = expected /\ state' = new /\ claimant' = None
         /\ Expecting(expected, own) => state = expected /\ UNCHANGED <<state, claimant>>
BY DEF Meets, Overwrite, Expecting

LEMMA SettlesAsExpected ==
  ASSUME ~disturbed', NEW x, NEW claimed, NEW new, Settle(x, claimed, new)
  PROVE  \/ state = claimed /\ state' = new /\ claimant' = None
         \/ state # claimed /\ UNCHANGED <<state, claimant>>
BY WritesAsExpected DEF Settle, computer

LEMMA RestoresAsExpected ==
  ASSUME ~disturbed', NEW x, NEW exact, NEW seen, NEW prior, Restore(x, exact, seen, prior)
  PROVE  \/ /\ state = "suspending" /\ claimant = x /\ exact /\ Boots(prior)
            /\ state' = seen /\ claimant' = prior
         \/ state # "suspending" /\ UNCHANGED <<state, claimant>>
BY DEF Restore, computer

LEMMA AbandonedStays == [Next]_vars /\ abandoned => abandoned'
BY DEF Next, vars, Create, ResumeRun, Start, SessionStep, Acquire, Reclaim, CreateRow,
   Validate, Release, Provision, Reconnect, ClaimBoot, PowerOn, Activate, Finish, Close, Pause,
   ForceOut, ReadForReplace, ClaimReplace, CheckRuns, Destroy, RecordReplaced, Renew, TakeScreen,
   RequestTakeover, CrashSession, RunLapses, BeginSleep, SleepStep, ClaimSleep, RecheckSleep,
   StopIdle, RecordSleep, CrashIdle, OpStep, ClaimStop, CheckOthers, Unlease, StopMachine,
   RecordStop, DeleteRow, FreeScreen, CrashOp, BotStep, ReadForStop, ReadForTakeover, StopThread,
   ClearThread, LeaseLapses, Abandon

\* The handlers' own steps.
Works(s) ==
  \/ session[s].step \in {"booting", "booted"} /\ state = "booting"
  \/ Replacing(s) /\ Claimed(s) /\ state = "suspending"

\* What a session makes of the state.
Settles(s) ==
  \/ /\ UNCHANGED <<state, claimant>>
     /\ Works(s) => Works(s)' \/ abandoned'
  \/ state' = "booting" /\ claimant' = s /\ session'[s].step = "booting"
  \/ /\ state' = "suspending" /\ claimant' = s /\ Works(s)'
     /\ session'[s].step = "runs" /\ session'[s].exact /\ session'[s].seen = "running" =>
          state = "running"
  \/ /\ At(s, "runs") /\ session[s].exact /\ state = "suspending" /\ claimant = s
     /\ state' = session[s].seen /\ state' \notin {"booting", "suspending"}
  \/ state' \in {"error", "stopped"}
  \/ state' = "running" /\ (sleepJob' \/ state = "running")

LEMMA SessionsSettle ==
  ASSUME TypeOK, ReplacementNotes, ~disturbed', NEW s \in Sessions, SessionActs(s)
  PROVE  Settles(s)
<1>1. CASE \/ Acquire(s) \/ Reclaim(s) \/ CreateRow(s) \/ Validate(s) \/ Release(s)
           \/ Provision(s) \/ Reconnect(s) \/ Finish(s) \/ Close(s) \/ Pause(s)
           \/ ReadForReplace(s) \/ Renew(s) \/ TakeScreen(s)
  <2>1. UNCHANGED <<state, claimant>> BY <1>1, RowUnwritten, ComputerStays
  <2>2. session[s].step \notin {"booting", "booted", "runs", "destroy", "record"}
    BY <1>1 DEF Acquire, Reclaim, CreateRow, Validate, Release, Provision, Reconnect, Finish,
       Close, Pause, ReadForReplace, Renew, TakeScreen, At
  <2> QED BY <2>1, <2>2 DEF Settles, Works, Replacing
<1>2. CASE CrashSession(s)
  BY <1>2, RowUnwritten, ComputerStays DEF CrashSession, Abandon, Settles, Works, Replacing
<1>3. CASE RunLapses(s)
  <2>1. UNCHANGED <<session, state, claimant>>
    BY <1>3, RowUnwritten, ComputerStays DEF RunLapses
  <2> QED BY <2>1 DEF Settles, Works, Replacing, Claimed, Kind
<1>4. CASE ClaimBoot(s)
  BY <1>4, ComputerStays, GoFacts DEF ClaimBoot, Claim, Settles, Works, Replacing, At
<1>5. CASE PowerOn(s)
  <2>1. CASE Go(s, "booted") /\ UNCHANGED computer
    BY <1>5, <2>1, ComputerStays, GoFacts DEF PowerOn, Settles, Works, Replacing, At
  <2>2. CASE Settle(s, "booting", "error")
    BY <1>5, <2>2, SettlesAsExpected DEF PowerOn, Settles, Works, Replacing, At
  <2> QED BY <1>5, <2>1, <2>2 DEF PowerOn, BootFailed
<1>6. CASE Activate(s)
  <2>1. \/ Settle(s, "booting", "running") /\ sleepJob' /\ state = "booting"
        \/ Settle(s, "booting", "error") /\ state = "booting"
        \/ Expecting("booting", TRUE) /\ state # "booting"
    BY <1>6 DEF Activate, BootFailed
  <2> QED BY <2>1, SettlesAsExpected, WritesAsExpected DEF Settles
<1>7. CASE ForceOut(s)
  <2>1. \/ Overwrite("error", "error", TRUE) /\ state \in {"booting", "suspending"}
        \/ UNCHANGED computer
    BY <1>7 DEF ForceOut
  <2> QED BY <1>7, <2>1, WritesAsExpected, ComputerStays
          DEF ForceOut, At, Settles, Works, Replacing
<1>8. CASE RequestTakeover(s)
  BY <1>8, WritesAsExpected DEF RequestTakeover, Settles
<1>9. CASE ClaimReplace(s)
  <2>1. CASE Kind(s) = "restart"
    BY <1>9, <2>1, GoFacts, KindStays DEF ClaimReplace, Settles, Works, Replacing, Claimed
  <2>2. CASE Kind(s) = "recover" /\ UNCHANGED computer
    BY <1>9, <2>2, ComputerStays DEF ClaimReplace, Settles, Works, Replacing, At
  <2>3. CASE /\ Claimed(s) /\ Claim(s, "suspending")
             /\ session' = [session EXCEPT ![s].step = "runs", ![s].exact = (state = session[s].seen)]
    <3>1. /\ session'[s].step = "runs" /\ session'[s].seen = session[s].seen
          /\ session'[s].exact = (state = session[s].seen) /\ session'[s].run = session[s].run
      <4>1. session \in [Sessions -> Session] /\ session[s] \in Session BY DEF TypeOK
      <4> QED BY <2>3, <4>1 DEF Session
    <3> QED BY <2>3, <3>1, KindStays DEF Claim, Settles, Works, Replacing
  <2> QED BY <1>9, <2>1, <2>2, <2>3 DEF ClaimReplace
<1>10. CASE CheckRuns(s)
  <2>1. At(s, "runs") /\ session[s].seen \notin {"booting", "suspending"}
    BY <1>10 DEF CheckRuns, ReplacementNotes
  <2>2. CASE Go(s, "destroy") /\ UNCHANGED computer
    BY <2>1, <2>2, GoFacts, KindStays, ComputerStays DEF Settles, Works, Replacing, At
  <2>3. CASE Claimed(s) /\ Restore(s, session[s].exact, session[s].seen, None)
    BY <2>1, <2>3, RestoresAsExpected DEF Settles, Works, At
  <2>4. CASE ~Claimed(s) /\ UNCHANGED computer
    BY <2>1, <2>4, ComputerStays DEF Settles, Works, At
  <2> QED BY <1>10, <2>2, <2>3, <2>4 DEF CheckRuns
<1>11. CASE Destroy(s)
  <2>1. CASE Go(s, "record") /\ Expecting(Expects(s), Own(s))
    BY <1>11, <2>1, WritesAsExpected, GoFacts, KindStays
       DEF Destroy, Expecting, Settles, Works, Replacing, At
  <2>2. CASE Overwrite("error", Expects(s), Own(s)) BY <2>2 DEF Overwrite, Settles
  <2> QED BY <1>11, <2>1, <2>2 DEF Destroy
<1>12. CASE RecordReplaced(s) BY <1>12 DEF RecordReplaced, Overwrite, Settles
<1> QED BY <1>1, <1>2, <1>3, <1>4, <1>5, <1>6, <1>7, <1>8, <1>9, <1>10, <1>11, <1>12
        DEF SessionActs, SessionStep

\* What a session makes of its notes, and of the job that puts the computer to
\* sleep.
LEMMA SessionSteps ==
  ASSUME NEW s \in Sessions, SessionActs(s), ~ReadForReplace(s), ~ClaimReplace(s)
  PROVE  \/ UNCHANGED session \/ Obtain(s) \/ session' = [session EXCEPT ![s] = Off]
         \/ \E step \in Steps \ {"take", "runs"} : Go(s, step)
<1> DEFINE Goes == \E step \in Steps \ {"take", "runs"} : Go(s, step)
<1>1. \A step : step \in Steps \ {"take", "runs"} /\ Go(s, step) => Goes OBVIOUS
<1> SUFFICES UNCHANGED session \/ Obtain(s) \/ session' = [session EXCEPT ![s] = Off] \/ Goes
  OBVIOUS
<1> HIDE DEF Goes
<1>2. GiveUp(s) => Goes BY <1>1, StepNames DEF GiveUp
<1>3. CASE Acquire(s) \/ Reclaim(s) \/ CreateRow(s) \/ Validate(s) \/ Release(s) \/ Provision(s)
  BY <1>1, <1>3, StepNames DEF Acquire, Reclaim, CreateRow, Validate, Release, Provision, Busy
<1>4. CASE Reconnect(s) \/ Activate(s)
  <2>1. \/ GiveUp(s)
        \/ Go(s, IF Kind(s) \in {"work", "visit"} THEN "using" ELSE "release")
    BY <1>4, Zenon DEF Reconnect, Activate
  <2>2. (IF Kind(s) \in {"work", "visit"} THEN "using" ELSE "release") \in Steps \ {"take", "runs"}
    BY StepNames
  <2> QED BY <1>1, <1>2, <2>1, <2>2
<1>5. CASE ClaimBoot(s) \/ PowerOn(s) \/ CheckRuns(s) \/ Destroy(s)
  <2>1. CASE ClaimBoot(s) BY <1>1, <1>2, <2>1, StepNames DEF ClaimBoot
  <2>2. CASE PowerOn(s) BY <1>1, <1>2, <2>2, StepNames DEF PowerOn
  <2>3. CASE CheckRuns(s) BY <1>1, <1>2, <2>3, StepNames DEF CheckRuns
  <2>4. CASE Destroy(s)
    <3>1. Go(s, "record") \/ GiveUp(s) BY <2>4 DEF Destroy
    <3> QED BY <1>1, <1>2, <3>1, StepNames
  <2> QED BY <1>5, <2>1, <2>2, <2>3, <2>4
<1>6. CASE Finish(s) \/ Close(s) \/ RequestTakeover(s) \/ ForceOut(s) \/ RecordReplaced(s)
  <2>1. \/ Go(s, "closing") \/ Go(s, "release") \/ Go(s, "pausing") \/ Go(s, "acquire")
        \/ Go(s, "leased")
    BY <1>6 DEF Finish, Close, RequestTakeover, ForceOut, RecordReplaced
  <2> QED BY <1>1, <2>1, StepNames
<1>7. CASE Pause(s)
  <2>1. CASE Matches(s) BY <1>1, <1>7, <2>1, StepNames DEF Pause
  <2>2. CASE ~Matches(s) BY <1>1, <1>7, <2>2, StepNames DEF Pause
  <2> QED BY <2>1, <2>2
<1>8. CASE Renew(s) BY <1>1, <1>8, StepNames DEF Renew
<1>9. CASE TakeScreen(s) \/ CrashSession(s) \/ RunLapses(s)
  BY <1>9 DEF TakeScreen, CrashSession, RunLapses
<1> QED BY <1>3, <1>4, <1>5, <1>6, <1>7, <1>8, <1>9 DEF SessionActs, SessionStep

LEMMA SessionNotes ==
  ASSUME TypeOK, ReplacementNotes, NEW s \in Sessions, SessionActs(s)
  PROVE  ReplacementNotes' /\ \A t \in Sessions \ {s} : session'[t] = session[t]
<1>0. session \in [Sessions -> Session] /\ session[s] \in Session BY DEF TypeOK
<1>1. /\ \A t \in Sessions \ {s} : session'[t] = session[t]
      /\ \/ session'[s] = session[s]
         \/ session'[s].step \notin {"take", "runs"}
         \/ /\ session'[s].step = "take" /\ session'[s].run = session[s].run
            /\ Kind(s) = "recover" => session'[s].seen \notin {"booting", "suspending"}
         \/ /\ At(s, "take") /\ Kind(s) = "recover" /\ session'[s].step = "runs"
            /\ session'[s].run = session[s].run /\ session'[s].seen = session[s].seen
  <2>1. CASE ReadForReplace(s)
    <3>1. CASE GiveUp(s) BY <3>1, GoFacts DEF GiveUp
    <3>2. CASE /\ session' = [session EXCEPT ![s].step = "take", ![s].seen = state]
               /\ Kind(s) = "recover" => state \notin {"booting", "suspending"}
      BY <1>0, <3>2 DEF Session
    <3> QED BY <2>1, <3>1, <3>2 DEF ReadForReplace
  <2>2. CASE ClaimReplace(s)
    <3>1. CASE Go(s, "destroy") BY <3>1, GoFacts
    <3>2. CASE GiveUp(s) BY <3>2, GoFacts DEF GiveUp
    <3>3. CASE Go(s, "runs") /\ Kind(s) = "recover" BY <2>2, <3>3, GoFacts DEF ClaimReplace
    <3>4. CASE /\ Kind(s) = "recover"
               /\ session' = [session EXCEPT ![s].step = "runs", ![s].exact = (state = session[s].seen)]
      BY <1>0, <2>2, <3>4 DEF ClaimReplace, Session
    <3> QED BY <2>2, <3>1, <3>2, <3>3, <3>4 DEF ClaimReplace
  <2>3. CASE ~ReadForReplace(s) /\ ~ClaimReplace(s)
    <3>1. CASE UNCHANGED session BY <3>1
    <3>2. CASE Obtain(s)
      <4>1. session' = [session EXCEPT ![s].step = "validate", ![s].fence = lease'[Bot(s)].fence]
        BY <3>2 DEF Obtain
      <4> QED BY <1>0, <4>1 DEF Session
    <3>3. CASE session' = [session EXCEPT ![s] = Off] BY <3>3, OffFacts DEF Off
    <3>4. ASSUME NEW step \in Steps \ {"take", "runs"}, Go(s, step)
          PROVE  session'[s].step = step /\ \A t \in Sessions \ {s} : session'[t] = session[t]
      BY <3>4, GoFacts
    <3> QED BY <2>3, <3>1, <3>2, <3>3, <3>4, SessionSteps
  <2> QED BY <2>1, <2>2, <2>3
<1>2. ASSUME NEW t \in Sessions, t # s
      PROVE  (At(t, "take") <=> At(t, "take")') /\ (At(t, "runs") <=> At(t, "runs")')
             /\ Kind(t)' = Kind(t) /\ session'[t].seen = session[t].seen
  BY <1>1, <1>2 DEF At, Kind
<1>3. session'[s].run = session[s].run => Kind(s)' = Kind(s) BY DEF Kind
<1> QED BY <1>1, <1>2, <1>3 DEF ReplacementNotes, At

LEMMA SessionsKeepSleep ==
  ASSUME NEW s \in Sessions, SessionActs(s)
  PROVE  UNCHANGED <<idle, dropped>> /\ (sleepJob => sleepJob')
<1>1. CASE Reconnect(s) \/ Activate(s)
  <2>1. UNCHANGED <<idle, dropped>> BY <1>1, Zenon DEF Reconnect, Activate
  <2>2. sleepJob' = TRUE \/ UNCHANGED sleepJob BY <1>1, Zenon DEF Reconnect, Activate
  <2> QED BY <2>1, <2>2
<1>2. CASE ~Reconnect(s) /\ ~Activate(s)
  <2>1. UNCHANGED sleep
    BY <1>2 DEF SessionActs, SessionStep, Acquire, Reclaim, CreateRow, Validate, Release,
       Provision, ClaimBoot, PowerOn, Finish, Close, Pause, ForceOut, ReadForReplace,
       ClaimReplace, CheckRuns, Destroy, RecordReplaced, Renew, TakeScreen, RequestTakeover,
       CrashSession, RunLapses
  <2> QED BY <2>1 DEF sleep
<1> QED BY <1>1, <1>2

\* What the idle job makes of the state.
LEMMA IdleSettles ==
  ASSUME TypeOK, ~disturbed', IdleActs
  PROVE  /\ UNCHANGED <<session, op>>
         /\ \/ /\ UNCHANGED <<state, claimant>>
               /\ idle.step \in {"recheck", "stop", "record"} /\ state = "suspending" =>
                    idle'.step \in {"recheck", "stop", "record"} \/ abandoned'
               /\ SleepComes => SleepComes'
            \/ state' = "suspending" /\ claimant' = "idle" /\ idle'.step = "recheck"
            \/ state' = "running" /\ sleepJob'
            \/ state' = "suspended"
<1>1. \A step : [idle EXCEPT !.step = step].step = step BY DEF TypeOK, Idle
<1>2. NoIdle.step = "off" BY DEF NoIdle
<1>3. CASE ClaimSleep
  BY <1>1, <1>3, ComputerStays DEF ClaimSleep, Rescheduled, SleepComes, request
<1>4. CASE RecheckSleep
  <2>1. CASE idle' = [idle EXCEPT !.step = "stop"] /\ UNCHANGED <<sleepJob, computer>>
    BY <1>1, <1>4, <2>1, ComputerStays DEF RecheckSleep, SleepComes, request
  <2>2. CASE Rescheduled /\ Settle("idle", "suspending", "running")
    BY <1>4, <2>2, SettlesAsExpected DEF RecheckSleep, Rescheduled, SleepComes, request
  <2> QED BY <1>4, <2>1, <2>2 DEF RecheckSleep
<1>5. CASE StopIdle
  <2>1. CASE /\ Expecting("suspending", claimant = "idle")
             /\ idle' = [idle EXCEPT !.step = "record"] /\ UNCHANGED sleepJob
    BY <1>1, <1>5, <2>1 DEF StopIdle, Expecting, SleepComes, request
  <2>2. CASE Rescheduled /\ Settle("idle", "suspending", "running")
    BY <1>5, <2>2, SettlesAsExpected DEF StopIdle, Rescheduled, SleepComes, request
  <2> QED BY <1>5, <2>1, <2>2 DEF StopIdle
<1>6. CASE RecordSleep BY <1>6 DEF RecordSleep, Overwrite, request
<1>7. CASE CrashIdle
  BY <1>7, ComputerStays DEF CrashIdle, Rescheduled, Abandon, SleepComes, request
<1>8. CASE \E counts \in BOOLEAN : BeginSleep(counts)
  <2>1. PICK counts \in BOOLEAN : BeginSleep(counts) BY <1>8
  <2>2. [step |-> "checkpoint", counts |-> counts].step = "checkpoint" OBVIOUS
  <2> QED BY <1>1, <1>2, <2>1, <2>2 DEF BeginSleep, Rescheduled, SleepComes, request
<1> QED BY <1>3, <1>4, <1>5, <1>6, <1>7, <1>8 DEF IdleActs, SleepStep

\* What a stop makes of the state.
LEMMA OpSettles ==
  ASSUME TypeOK, ~disturbed', OpActs
  PROVE  /\ UNCHANGED <<session, idle, sleepJob, dropped>>
         /\ \/ /\ UNCHANGED <<state, claimant>>
               /\ op.step \in {"others", "unlease", "stop", "record"} /\ state = "suspending" =>
                    op'.step \in {"others", "unlease", "stop", "record"} \/ abandoned'
               /\ op'.step = "others" => op' = op
            \/ /\ state' = "suspending" /\ claimant' = "op" /\ op'.step = "others"
               /\ state # "suspending"
               /\ op'.exact = (state = op.seen) /\ op'.seen = op.seen /\ op'.prior = claimant
            \/ /\ op.step = "others" /\ op.exact /\ state = "suspending" /\ claimant = "op"
               /\ state' = op.seen /\ claimant' = op.prior /\ Boots(op.prior) /\ op'.step = "off"
            \/ state' \in {"error", "stopped"} /\ op'.step # "others"
<1>1. \A step : [op EXCEPT !.step = step].step = step BY DEF TypeOK, Op
<1>2. CASE ClaimStop
  <2>1. CASE /\ Claim("op", "suspending") /\ state # "suspending"
             /\ op' = [op EXCEPT !.step = "others", !.exact = (state = op.seen), !.prior = claimant]
    <3>1. /\ op'.step = "others" /\ op'.exact = (state = op.seen) /\ op'.seen = op.seen
          /\ op'.prior = claimant
      BY <2>1 DEF TypeOK, Op
    <3> QED BY <1>2, <2>1, <3>1 DEF ClaimStop, Claim, sleep
  <2>2. CASE OpGo("off") /\ UNCHANGED computer
    BY <1>1, <1>2, <2>2, ComputerStays DEF ClaimStop, OpGo, sleep
  <2> QED BY <1>2, <2>1, <2>2 DEF ClaimStop, MayStop
<1>3. CASE CheckOthers
  <2>1. CASE OpGo("off") /\ Restore("op", op.exact, op.seen, op.prior)
    BY <1>1, <1>3, <2>1, RestoresAsExpected DEF CheckOthers, OpGo, sleep
  <2>2. CASE OpGo("unlease") /\ UNCHANGED computer
    BY <1>1, <1>3, <2>2, ComputerStays DEF CheckOthers, OpGo, sleep
  <2> QED BY <1>3, <2>1, <2>2 DEF CheckOthers
<1>4. CASE StopMachine
  <2>1. CASE Expecting("suspending", claimant = "op") /\ OpGo("record")
    BY <1>1, <1>4, <2>1 DEF StopMachine, OpGo, Expecting, sleep
  <2>2. CASE Settle("op", "suspending", "error") /\ OpGo("off")
    BY <1>1, <1>4, <2>2, SettlesAsExpected DEF StopMachine, OpGo, sleep
  <2> QED BY <1>4, <2>1, <2>2 DEF StopMachine
<1>5. CASE RecordStop BY <1>1, <1>5 DEF RecordStop, OpGo, Overwrite, sleep
<1>6. CASE Unlease \/ DeleteRow \/ FreeScreen
  BY <1>1, <1>6, ComputerStays DEF Unlease, DeleteRow, FreeScreen, OpGo, sleep
<1>7. CASE CrashOp BY <1>1, <1>7, ComputerStays DEF CrashOp, OpGo, Abandon, sleep
<1>8. CASE \E b \in Bots : ReadForStop(b) \/ ReadForTakeover(b) \/ StopThread(b) \/ LeaseLapses(b)
  BY <1>8, ComputerStays DEF ReadForStop, ReadForTakeover, StopThread, LeaseLapses, sleep, request
<1>9. CASE \E b \in Bots : ClearThread(b)
  <2>1. op'.step = "off" \/ UNCHANGED op BY <1>1, <1>9 DEF ClearThread
  <2>2. op'.step = "off" => op.step = "delete" \/ UNCHANGED op BY <1>9 DEF ClearThread
  <2> QED BY <1>9, <2>1, <2>2, ComputerStays DEF ClearThread, sleep
<1> QED BY <1>2, <1>3, <1>4, <1>5, <1>6, <1>7, <1>8, <1>9 DEF OpActs, OpStep, BotStep

\* A claim that somebody attends to stays attended to, or is settled.
LEMMA AttendedNext ==
  ASSUME SettleInv, [Next]_vars, ~disturbed', ~abandoned', Changing' PROVE Attended'
<1>1. TypeOK /\ ReplacementNotes /\ ~disturbed /\ ~abandoned
  BY Remembering, AbandonedStays DEF SettleInv, Remembered
<1>2. StopNotes /\ BootIsClaimed BY <1>1 DEF SettleInv
<1>3. ASSUME UNCHANGED <<state, claimant>> PROVE Attended
  BY <1>1, <1>3 DEF SettleInv, ClaimIsAttended, Changing
<1>4. ASSUME NEW s \in Sessions, SessionActs(s) PROVE Attended'
  <2>1. Settles(s) BY <1>1, <1>4, SessionsSettle
  <2>2. \A t \in Sessions \ {s} : session'[t] = session[t] BY <1>1, <1>4, SessionNotes
  <2>3. CASE UNCHANGED <<state, claimant>> /\ (Works(s) => Works(s)' \/ abandoned')
    <3>1. Attended BY <1>3, <2>3
    <3>2. CASE claimant = s
      <4>1. Works(s) BY <1>4, <3>1, <3>2, Names DEF Attended, Works
      <4> QED BY <1>4, <2>3, <3>2, <4>1 DEF Attended, Works
    <3>3. CASE claimant \in Sessions \ {s}
      <4>1. session'[claimant] = session[claimant] BY <2>2, <3>3
      <4> QED BY <2>3, <3>1, <3>3, <4>1, Names DEF Attended, Replacing, Claimed, Kind
    <3>4. CASE claimant \notin Sessions
      <4>1. UNCHANGED op \/ op.step = "delete" BY <1>4, SessionsSpareOp
      <4>2. UNCHANGED idle BY <1>4, SessionsKeepSleep
      <4> QED BY <2>3, <3>1, <3>4, <4>1, <4>2 DEF Attended
    <3> QED BY <3>2, <3>3, <3>4
  <2>4. CASE state' = "booting" /\ claimant' = s /\ session'[s].step = "booting"
    BY <2>4 DEF Attended
  <2>5. CASE state' = "suspending" /\ claimant' = s /\ Works(s)'
    BY <2>5 DEF Attended, Works
  <2> QED BY <2>1, <2>3, <2>4, <2>5 DEF Settles, Changing
<1>5. CASE IdleActs
  <2>1. CASE UNCHANGED <<state, claimant>>
    <3>1. Attended BY <1>3, <2>1
    <3>2. UNCHANGED <<session, op>> BY <1>1, <1>5, IdleSettles
    <3>3. idle.step \in {"recheck", "stop", "record"} /\ state = "suspending" =>
            idle'.step \in {"recheck", "stop", "record"}
      BY <1>1, <1>5, <2>1, IdleSettles
    <3> QED BY <2>1, <3>1, <3>2, <3>3 DEF Attended, Replacing, Claimed, Kind
  <2>2. CASE state' = "suspending" /\ claimant' = "idle" /\ idle'.step = "recheck"
    BY <2>2 DEF Attended
  <2> QED BY <1>1, <1>5, <2>1, <2>2, IdleSettles DEF Changing
<1>6. CASE OpActs
  <2>1. UNCHANGED <<session, idle>> BY <1>1, <1>6, OpSettles
  <2>2. CASE UNCHANGED <<state, claimant>>
    <3>1. Attended BY <1>3, <2>2
    <3>2. op.step \in {"others", "unlease", "stop", "record"} /\ state = "suspending" =>
            op'.step \in {"others", "unlease", "stop", "record"}
      <4>1. CASE op.step = "others" /\ op.exact /\ state' = op.seen
        BY <1>2, <2>2, <4>1 DEF StopNotes
      <4>2. CASE state' \in {"error", "stopped"} BY <2>2, <4>2
      <4> QED BY <1>1, <1>6, <2>2, <4>1, <4>2, OpSettles
    <3> QED BY <2>1, <2>2, <3>1, <3>2 DEF Attended, Replacing, Claimed, Kind
  <2>3. CASE state' = "suspending" /\ claimant' = "op" /\ op'.step = "others"
    BY <2>3 DEF Attended
  <2>4. CASE /\ op.step = "others" /\ op.exact /\ state' = op.seen /\ claimant' = op.prior
             /\ Boots(op.prior)
    BY <1>2, <2>1, <2>4 DEF StopNotes, Boots, Attended, Changing
  <2> QED BY <1>1, <1>6, <2>2, <2>3, <2>4, OpSettles DEF Changing
<1>7. CASE QuietStep
  <2>1. UNCHANGED <<state, claimant, idle, op>> BY <1>7, OthersAreQuiet DEF QuietStep
  <2>2. Attended BY <1>3, <2>1
  <2>3. CASE claimant \in Sessions
    <3>1. session'[claimant] = session[claimant] \/ At(claimant, "off")
      BY <1>1, <1>7, <2>3, QuietSpares
    <3> QED BY <2>1, <2>2, <2>3, <3>1, Names DEF Attended, Replacing, Claimed, Kind, At
  <2>4. CASE claimant \notin Sessions BY <2>1, <2>2, <2>4 DEF Attended
  <2> QED BY <2>3, <2>4
<1> QED BY <1>4, <1>5, <1>6, <1>7, Actors

\* What is noted for giving a state back stays true.
LEMMA NotesNext ==
  ASSUME SettleInv, [Next]_vars PROVE ReplacementNotes'
<1>1. TypeOK /\ ReplacementNotes BY DEF SettleInv
<1>2. CASE UNCHANGED session BY <1>1, <1>2 DEF ReplacementNotes, At, Kind
<1>3. ASSUME NEW s \in Sessions, SessionActs(s) PROVE ReplacementNotes'
  BY <1>1, <1>3, SessionNotes
<1>4. CASE QuietStep
  <2> SUFFICES ASSUME NEW s \in Sessions
               PROVE  /\ At(s, "take")' /\ Kind(s)' = "recover" =>
                           session'[s].seen \notin {"booting", "suspending"}
                      /\ At(s, "runs")' =>
                           Kind(s)' = "recover" /\ session'[s].seen \notin {"booting", "suspending"}
    BY DEF ReplacementNotes
  <2>1. session'[s] = session[s] \/ session'[s].step \in {"cancel", "acquire"}
    BY <1>1, <1>4, QuietSpares
  <2> QED BY <1>1, <2>1 DEF ReplacementNotes, At, Kind
<1>5. IdleActs \/ OpActs => UNCHANGED session
  BY DEF IdleActs, SleepStep, ClaimSleep, RecheckSleep, StopIdle, RecordSleep, CrashIdle,
     BeginSleep, OpActs, OpStep, ClaimStop, CheckOthers, Unlease, StopMachine, RecordStop,
     DeleteRow, FreeScreen, CrashOp, BotStep, ReadForStop, ReadForTakeover, StopThread, ClearThread,
     LeaseLapses
<1> QED BY <1>2, <1>3, <1>4, <1>5, Actors

LEMMA StopNotesNext ==
  ASSUME SettleInv, [Next]_vars, ~disturbed' PROVE BootIsClaimed' /\ StopNotes'
<1>1. TypeOK /\ ReplacementNotes /\ StopNotes /\ BootIsClaimed
  BY Remembering DEF SettleInv, Remembered
<1>2. ASSUME NEW s \in Sessions, SessionActs(s) PROVE BootIsClaimed' /\ StopNotes'
  <2>1. BootIsClaimed' BY <1>1, <1>2, SessionsSettle DEF Settles, BootIsClaimed
  <2>2. \A step : [op EXCEPT !.step = step].step = step BY <1>1 DEF TypeOK, Op
  <2>3. StopNotes' BY <1>1, <1>2, <2>2, SessionsSpareOp DEF StopNotes
  <2> QED BY <2>1, <2>3
<1>3. CASE IdleActs BY <1>1, <1>3, IdleSettles DEF BootIsClaimed, StopNotes
<1>4. CASE OpActs BY <1>1, <1>4, OpSettles DEF BootIsClaimed, StopNotes
<1>5. CASE QuietStep BY <1>1, <1>5, OthersAreQuiet DEF QuietStep, BootIsClaimed, StopNotes
<1> QED BY <1>2, <1>3, <1>4, <1>5, Actors

\* A recovery comes to check the runs by claiming a computer that runs.
LEMMA RunsReached ==
  ASSUME TypeOK, NEW s \in Sessions, SessionActs(s), At(s, "runs")', session'[s].exact,
         session'[s].seen = "running"
  PROVE  session'[s] = session[s] \/ state = "running"
<1>0. session \in [Sessions -> Session] /\ session[s] \in Session BY DEF TypeOK
<1>1. CASE ReadForReplace(s)
  <2>1. CASE GiveUp(s) BY <2>1, GoFacts DEF GiveUp, At
  <2>2. CASE session' = [session EXCEPT ![s].step = "take", ![s].seen = state]
    BY <1>0, <2>2 DEF Session, At
  <2> QED BY <1>1, <2>1, <2>2 DEF ReadForReplace
<1>2. CASE ClaimReplace(s)
  <2>1. CASE Go(s, "destroy") BY <2>1, GoFacts DEF At
  <2>2. CASE GiveUp(s) BY <2>2, GoFacts DEF GiveUp, At
  <2>3. CASE ~Claimed(s) /\ Go(s, "runs") BY <2>3, GoFacts DEF Claimed
  <2>4. CASE session' = [session EXCEPT ![s].step = "runs", ![s].exact = (state = session[s].seen)]
    BY <1>0, <2>4 DEF Session
  <2> QED BY <1>2, <2>1, <2>2, <2>3, <2>4 DEF ClaimReplace
<1>3. CASE ~ReadForReplace(s) /\ ~ClaimReplace(s)
  <2>1. CASE Obtain(s)
    <3>1. session' = [session EXCEPT ![s].step = "validate", ![s].fence = lease'[Bot(s)].fence]
      BY <2>1 DEF Obtain
    <3> QED BY <1>0, <3>1 DEF Session, At
  <2>2. CASE session' = [session EXCEPT ![s] = Off] BY <2>2, OffFacts DEF Off, At
  <2>3. ASSUME NEW step \in Steps \ {"take", "runs"}, Go(s, step) PROVE session'[s].step = step
    BY <2>3, GoFacts
  <2> QED BY <1>3, <2>1, <2>2, <2>3, SessionSteps DEF At
<1> QED BY <1>1, <1>2, <1>3

\* The sleep job of a running computer is not lost.
LEMMA SleepNext ==
  ASSUME SettleInv, [Next]_vars, ~disturbed'
  PROVE  SleepIsDue' /\ StopKeepsSleep' /\ ReplacementKeepsSleep'
<1> DEFINE Kept(s) == /\ At(s, "runs") /\ session[s].exact /\ session[s].seen = "running"
                      /\ state = "suspending" /\ claimant = s
                      => SleepComes
<1>1. /\ TypeOK /\ ReplacementNotes /\ StopNotes
      /\ state = "running" => SleepComes
      /\ StopKeepsSleep /\ ReplacementKeepsSleep
  BY Remembering DEF SettleInv, Remembered, SleepIsDue
<1>2. ASSUME NEW s \in Sessions, SessionActs(s)
      PROVE  SleepIsDue' /\ StopKeepsSleep' /\ ReplacementKeepsSleep'
  <2>1. SleepComes => SleepComes' BY <1>2, SessionsKeepSleep DEF SleepComes
  <2>2. Settles(s) BY <1>1, <1>2, SessionsSettle
  <2>3. SleepIsDue'
    BY <1>1, <2>1, <2>2 DEF Settles, SleepIsDue, SleepComes, ReplacementKeepsSleep
  <2>4. StopKeepsSleep'
    <3>1. UNCHANGED op \/ op'.step = "off"
      BY <1>1, <1>2, SessionsSpareOp DEF TypeOK, Op
    <3>2. state' = "suspending" /\ claimant' = "op" => UNCHANGED <<state, claimant>>
      BY <2>2, Names DEF Settles
    <3> QED BY <1>1, <2>1, <3>1, <3>2 DEF StopKeepsSleep
  <2>5. ASSUME NEW t \in Sessions PROVE Kept(t)'
    <3>0. Kept(t) BY <1>1 DEF ReplacementKeepsSleep
    <3>1. state' = "suspending" /\ claimant' = t =>
            UNCHANGED <<state, claimant>> \/ t = s
      BY <2>2 DEF Settles
    <3>2. CASE t # s
      <4>1. session'[t] = session[t] BY <1>1, <1>2, <3>2, SessionNotes
      <4> QED BY <2>1, <3>0, <3>1, <3>2, <4>1 DEF At
    <3>3. CASE t = s
      <4>1. SUFFICES ASSUME At(s, "runs")', session'[s].exact, session'[s].seen = "running",
                            state' = "suspending", claimant' = s
                     PROVE  SleepComes'
        BY <3>3
      <4>2. session'[s] = session[s] \/ state = "running" BY <1>1, <1>2, <4>1, RunsReached
      <4>3. UNCHANGED <<state, claimant>> \/ state = "running" BY <2>2, <4>1 DEF Settles, At
      <4> QED BY <1>1, <2>1, <3>0, <3>3, <4>1, <4>2, <4>3 DEF At
    <3> QED BY <3>2, <3>3
  <2> QED BY <2>3, <2>4, <2>5 DEF ReplacementKeepsSleep
<1>3. CASE IdleActs
  <2>1. UNCHANGED <<session, op>> BY <1>1, <1>3, IdleSettles
  <2>2. CASE UNCHANGED <<state, claimant>> /\ (SleepComes => SleepComes')
    BY <1>1, <2>1, <2>2 DEF SleepIsDue, StopKeepsSleep, ReplacementKeepsSleep, At
  <2>3. CASE state' = "suspending" /\ claimant' = "idle"
    BY <2>3, Names DEF SleepIsDue, StopKeepsSleep, ReplacementKeepsSleep
  <2>4. CASE (state' = "running" /\ sleepJob') \/ state' = "suspended"
    BY <2>4 DEF SleepIsDue, SleepComes, StopKeepsSleep, ReplacementKeepsSleep
  <2> QED BY <1>1, <1>3, <2>2, <2>3, <2>4, IdleSettles
<1>4. CASE OpActs
  <2>1. UNCHANGED session /\ SleepComes' = SleepComes BY <1>1, <1>4, OpSettles DEF SleepComes
  <2>2. CASE UNCHANGED <<state, claimant>> /\ (op'.step = "others" => op' = op)
    BY <1>1, <2>1, <2>2 DEF SleepIsDue, StopKeepsSleep, ReplacementKeepsSleep, At
  <2>3. CASE /\ state' = "suspending" /\ claimant' = "op"
             /\ op'.exact = (state = op.seen) /\ op'.seen = op.seen
    BY <1>1, <2>1, <2>3, Names DEF SleepIsDue, StopKeepsSleep, ReplacementKeepsSleep
  <2>4. CASE /\ op.step = "others" /\ op.exact /\ state = "suspending" /\ claimant = "op"
             /\ state' = op.seen
    BY <1>1, <2>1, <2>4 DEF StopNotes, SleepIsDue, StopKeepsSleep, ReplacementKeepsSleep
  <2>5. CASE state' \in {"error", "stopped"}
    BY <2>5 DEF SleepIsDue, StopKeepsSleep, ReplacementKeepsSleep
  <2> QED BY <1>1, <1>4, <2>2, <2>3, <2>4, <2>5, OpSettles
<1>5. CASE QuietStep
  <2>1. UNCHANGED <<state, claimant, idle, op>> BY <1>5, OthersAreQuiet DEF QuietStep
  <2>2. UNCHANGED <<sleepJob, dropped>>
    BY <1>5 DEF QuietStep, Create, ResumeRun, Start, vars, sleep
  <2>3. ASSUME NEW s \in Sessions PROVE session'[s] = session[s] \/ ~At(s, "runs")'
    BY <1>1, <1>5, QuietSpares DEF At
  <2> QED BY <1>1, <2>1, <2>2, <2>3
          DEF SleepIsDue, SleepComes, StopKeepsSleep, ReplacementKeepsSleep, At
<1> QED BY <1>2, <1>3, <1>4, <1>5, Actors

LEMMA SettleNext == SettleInv /\ [Next]_vars => SettleInv'
<1> SUFFICES ASSUME SettleInv, [Next]_vars PROVE SettleInv' OBVIOUS
<1>1. TypeOK' BY TypedNext DEF SettleInv
<1>2. ReplacementNotes' BY NotesNext
<1>3. CASE ~disturbed'
  <2>1. ClaimIsAttended' BY <1>3, AttendedNext DEF ClaimIsAttended
  <2> QED BY <1>1, <1>2, <1>3, <2>1, StopNotesNext, SleepNext DEF SettleInv
<1>4. CASE disturbed'
  BY <1>1, <1>2, <1>4 DEF SettleInv, ClaimIsAttended, SleepIsDue
<1> QED BY <1>3, <1>4

\* While a computer boots or is being suspended, whoever claimed that state is
\* still at work on settling it, unless a process died with such a claim or a
\* write met a state it did not expect (computer-lifecycle.ts:152,
\* computer-idle.ts:126): what PowerSettles asks for then takes only handlers
\* that go on.
THEOREM ClaimsAreAttended == Spec => []ClaimIsAttended
<1>1. SettleInv => ClaimIsAttended BY DEF SettleInv
<1> QED BY <1>1, SettleInit, SettleNext, PTL DEF Spec

\* A computer that runs has a sleep job queued or executing, unless one came
\* while it was not running or a write met a state it did not expect
\* (computer-idle.ts:44, executor.ts:941): what IdleSleeps asks for
\* then takes only that the job is executed.
THEOREM SleepStaysDue == Spec => []SleepIsDue
<1>1. SettleInv => SleepIsDue BY DEF SettleInv
<1> QED BY <1>1, SettleInit, SettleNext, PTL DEF Spec

=============================================================================
