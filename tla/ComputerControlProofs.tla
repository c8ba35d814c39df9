----------------------- MODULE ComputerControlProofs ------------------------
(***************************************************************************)
(* Proofs about ComputerControl, for any number of bots, runs, processes,  *)
(* requests and failures: a run that waits keeps its way back, and nobody  *)
(* loses control to a handler of another lease.                            *)
(***************************************************************************)
EXTENDS ComputerControl, TLAPS

\* A handler that looks at a bot's rows has a bot.
BotSteps == {"unlease", "read", "transfer", "reload", "look", "delete"}
Aimed == \A p \in Processes :
  Kind(p) = "takeover" \/ session[p].step \in BotSteps => Bot(p) \in Bots
Typed == TypeOK /\ Aimed

\* An execution lease names a run that was created.
RowsBegun == \A b \in Bots : row[b].run \in Runs => status[row[b].run] # "new"

\* What a takeover is about to delete is the lease of a run that has ended, or
\* of a boot or a replacement.
DeletesEnded == \A p \in Processes :
  At(p, "delete") /\ session[p].row.run \in Runs => status[session[p].row.run] = "ended"

\* The lease is found from the moment it is held for the user.
ForUser == {"held", "waiting"}
HeldIsReachable ==
  \A r \in Runs : status[r] \in ForUser => Holds(r) \/ r \in orphaned

IInv == Typed /\ RowsBegun /\ DeletesEnded /\ HeldIsReachable

RunStep(r) == Create(r) \/ Begin(r) \/ End(r) \/ Ask(r) \/ Hold(r) \/ Pause(r) \/ Repeat(r)
TimeStep == \/ \E b \in Bots : RowLapses(b) \/ Replace(b) \/ StopComputer(b) \/ Clear(b)
            \/ ControlLapses \/ Reconcile
BeginStep(p) == \/ \E l \in jobs : TakeJob(p, l)
                \/ \E kind \in Asks, b \in Bots : Request(p, kind, b)
                \/ FindExpired(p) \/ Crash(p)
HaltStep(p) == Unlease(p) \/ \E kind \in {"halt", "teach"}, b \in Bots : Halt(p, kind, b)
ExpiryStep(p) == ReadExpiry(p) \/ Deny(p) \/ Finalize(p) \/ CancelExpiry(p)
                 \/ ReadRelease(p) \/ NothingToRelease(p)
TakeoverStep(p) == ReadTakeover(p) \/ Transfer(p) \/ Reload(p) \/ Look(p)
                   \/ DeleteRow(p) \/ Grant(p) \/ Schedule(p)
TeachStep(p) == ReadTeach(p) \/ Extend(p) \/ Overwrite(p)

LEMMA NextCases ==
  ASSUME [Next]_vars
  PROVE  \/ \E r \in Runs : RunStep(r)
         \/ TimeStep
         \/ \E p \in Processes :
              \/ BeginStep(p) \/ HaltStep(p) \/ ExpiryStep(p)
              \/ TakeoverStep(p) \/ TeachStep(p)
         \/ UNCHANGED vars
BY DEF Next, JobStep, HandlerStep, RunStep, TimeStep, BeginStep, HaltStep, ExpiryStep,
       TakeoverStep, TeachStep

-----------------------------------------------------------------------------
(* Types.                                                                  *)

LEMMA ClearedType ==
  ASSUME NEW holder \in {"none", "user", "bot"}
  PROVE  Cleared(holder) \in Control
BY DEF Cleared, Control

LEMMA OffType == Off \in Session /\ NoRow \in Row
BY ClearedType DEF Off, Session, NoRow, Row, Kinds, Steps

\* A handler that goes on with the same request.
LEMMA SessionType ==
  ASSUME Typed, NEW p \in Processes, NEW s \in Session,
         session' = [session EXCEPT ![p] = s],
         s.kind = "takeover" \/ s.step \in BotSteps => s.bot \in Bots
  PROVE  session' \in [Processes -> Session] /\ Aimed'
<1>1. session' \in [Processes -> Session]
  BY DEF Typed, TypeOK
<1>2. ASSUME NEW q \in Processes, session'[q].kind = "takeover" \/ session'[q].step \in BotSteps
      PROVE  session'[q].bot \in Bots
  <2>1. CASE q = p BY <2>1, <1>2 DEF Typed, TypeOK
  <2>2. CASE q # p BY <2>2, <1>2 DEF Typed, TypeOK, Aimed, Kind, Bot
  <2> QED BY <2>1, <2>2
<1> QED BY <1>1, <1>2 DEF Aimed, Kind, Bot

LEMMA ReturnType ==
  ASSUME Typed, NEW p \in Processes, Return(p)
  PROVE  session' \in [Processes -> Session] /\ Aimed'
<1>1. Off.kind # "takeover" /\ Off.step \notin BotSteps
  BY DEF Off, BotSteps
<1> QED BY <1>1, OffType, SessionType DEF Return

LEMMA SessionFields ==
  ASSUME Typed, NEW p \in Processes
  PROVE  /\ session[p] \in Session /\ Lease(p) \in Nat
         /\ Kind(p) \in Kinds /\ session[p].seen \in Control
BY DEF Typed, TypeOK, Session, Lease, Kind

LEMMA ThrowType ==
  ASSUME Typed, NEW p \in Processes, Throw(p)
  PROVE  jobs' \subseteq Nat /\ session' \in [Processes -> Session] /\ Aimed'
<1>1. Requeued(p) \subseteq Nat
  BY SessionFields DEF Requeued, Typed, TypeOK
<1> QED BY <1>1, ReturnType DEF Throw

LEMMA FaultType ==
  ASSUME Typed, NEW kind, Fault(kind)
  PROVE  faults' \in Nat
BY DEF Fault, Typed, TypeOK

LEMMA SameSessions ==
  ASSUME Typed, session' = session
  PROVE  session' \in [Processes -> Session] /\ Aimed'
BY DEF Typed, TypeOK, Aimed, Kind, Bot

\* The sessions a step of the same request may leave behind.
LEMMA GoType ==
  ASSUME Typed, NEW p \in Processes, NEW step \in Steps,
         step \in BotSteps => Bot(p) \in Bots, Go(p, step)
  PROVE  session' \in [Processes -> Session] /\ Aimed'
<1> DEFINE s == [session[p] EXCEPT !.step = step]
<1>1. session[p] \in Session BY DEF Typed, TypeOK
<1>2. s \in Session /\ s.kind = session[p].kind /\ s.bot = session[p].bot /\ s.step = step
  BY <1>1 DEF Session
<1>3. session' = [session EXCEPT ![p] = s] BY DEF Go
<1>4. s.kind = "takeover" \/ s.step \in BotSteps => s.bot \in Bots
  BY <1>2 DEF Typed, Aimed, Kind, Bot
<1> HIDE DEF s
<1> QED BY <1>2, <1>3, <1>4, SessionType

LEMMA LeaseType ==
  ASSUME Typed, NEW p \in Processes, NEW step \in Steps, NEW l \in Nat, NEW c \in Control,
         step \in BotSteps => Bot(p) \in Bots,
         \/ session' = [session EXCEPT ![p].lease = l, ![p].step = step]
         \/ session' = [session EXCEPT ![p].step = step, ![p].lease = l]
         \/ session' = [session EXCEPT ![p].step = step, ![p].seen = c]
         \/ session' = [session EXCEPT ![p].seen = c, ![p].lease = l, ![p].step = step]
  PROVE  session' \in [Processes -> Session] /\ Aimed'
<1> DEFINE s == session'[p]
<1>1. session[p] \in Session BY DEF Typed, TypeOK
<1>2. session' = [session EXCEPT ![p] = s] BY DEF Typed, TypeOK
<1>3. s \in Session /\ s.kind = session[p].kind /\ s.bot = session[p].bot /\ s.step = step
  BY <1>1 DEF Session, Typed, TypeOK
<1>4. s.kind = "takeover" \/ s.step \in BotSteps => s.bot \in Bots
  BY <1>3 DEF Typed, Aimed, Kind, Bot
<1> HIDE DEF s
<1> QED BY <1>2, <1>3, <1>4, SessionType

LEMMA ExpiredType ==
  ASSUME Typed, NEW p \in Processes, Expired(p)
  PROVE  session' \in [Processes -> Session] /\ Aimed'
<1>1. CASE Kind(p) = "takeover"
  <2> DEFINE s == [Off EXCEPT !.kind = "takeover", !.step = "look", !.bot = Bot(p)]
  <2>1. Bot(p) \in Bots BY <1>1 DEF Typed, Aimed
  <2>2. s \in Session /\ s.bot = Bot(p)
    BY <2>1, OffType DEF Session, Off, Kinds, Steps
  <2>3. session' = [session EXCEPT ![p] = s] BY <1>1 DEF Expired
  <2> HIDE DEF s
  <2> QED BY <2>1, <2>2, <2>3, SessionType
<1>2. CASE Kind(p) # "takeover"
  BY <1>2, ReturnType DEF Expired, Return
<1> QED BY <1>1, <1>2

-----------------------------------------------------------------------------
LEMMA GiveType ==
  ASSUME Typed, NEW c \in Control, Give(c)
  PROVE  control' \in Control /\ transferred' \subseteq Runs
BY DEF Give, Named, Typed, TypeOK

LEMMA OrphansType ==
  ASSUME Typed, NEW b
  PROVE  HeldFor(b) \subseteq Runs /\ (Orphans(b) => orphaned' \subseteq Runs)
BY DEF Orphans, HeldFor, Typed, TypeOK

LEMMA RowTypes ==
  ASSUME Typed, NEW b \in Bots, NEW holder \in Runs \cup {Manual},
         Take(b, holder) \/ Drop(b)
  PROVE  row' \in [Bots -> Row]
<1>1. row[b] \in Row BY DEF Typed, TypeOK
<1>2. CASE Take(b, holder)
  <2>1. [id |-> IF row[b].run = None THEN row[b].id + 1 ELSE row[b].id,
         run |-> holder, live |-> TRUE] \in Row
    BY <1>1 DEF Row
  <2> QED BY <1>2, <2>1 DEF Take, Typed, TypeOK
<1>3. CASE Drop(b) BY <1>3 DEF Drop, Row, Typed, TypeOK
<1> QED BY <1>2, <1>3

LEMMA RunTypes ==
  ASSUME Typed, NEW r \in Runs, RunStep(r)
  PROVE  Typed'
<1>1. session' = session /\ requests' = requests /\ taught' = taught /\ jobs' = jobs
      /\ issued' = issued
  BY DEF RunStep, Create, Begin, End, Ask, Hold, Pause, Repeat, rights, work, history
<1>2. session' \in [Processes -> Session] /\ Aimed'
  BY <1>1, SameSessions
<1>3. status' \in [Runs -> Statuses] /\ faults' \in Nat
  BY DEF RunStep, Create, Begin, End, Ask, Hold, Pause, Repeat, rights, work, history,
         Fault, Typed, TypeOK, Statuses
<1>4. row' \in [Bots -> Row]
  <2>1. BotOf[r] \in Bots /\ row[BotOf[r]] \in Row
    BY ControlAssumption DEF Typed, TypeOK
  <2>2. CASE Begin(r) BY <2>1, <2>2, RowTypes DEF Begin
  <2>3. CASE End(r) \/ Hold(r)
    <3>1. /\ [row[BotOf[r]] EXCEPT !.live = TRUE] \in Row
          /\ [row[BotOf[r]] EXCEPT !.live = FALSE] \in Row
      BY <2>1 DEF Row
    <3>2. \/ row' = row
          \/ row' = [row EXCEPT ![BotOf[r]] = [row[BotOf[r]] EXCEPT !.live = TRUE]]
          \/ row' = [row EXCEPT ![BotOf[r]] = [row[BotOf[r]] EXCEPT !.live = FALSE]]
      BY <2>1, <2>3 DEF End, Hold
    <3> QED BY <3>1, <3>2 DEF Typed, TypeOK
  <2>4. CASE Create(r) \/ Ask(r) \/ Pause(r) \/ Repeat(r)
    BY <2>4 DEF Create, Ask, Pause, Repeat, work, Typed, TypeOK
  <2> QED BY <2>2, <2>3, <2>4 DEF RunStep
<1>5. control' \in Control /\ transferred' \subseteq Runs
  <2>1. CASE Ask(r) BY <2>1, ClearedType, GiveType DEF Ask
  <2>2. CASE ~Ask(r)
    BY <2>2 DEF RunStep, Create, Begin, End, Hold, Pause, Repeat, rights, history,
                Typed, TypeOK
  <2> QED BY <2>1, <2>2
<1>6. orphaned' \subseteq Runs
  <2>1. CASE Begin(r) BY <2>1, OrphansType DEF Begin, Typed, TypeOK
  <2>2. CASE ~Begin(r)
    BY <2>2 DEF RunStep, Create, Ask, End, Hold, Pause, Repeat, history, Typed, TypeOK
  <2> QED BY <2>1, <2>2
<1> QED BY <1>1, <1>2, <1>3, <1>4, <1>5, <1>6 DEF Typed, TypeOK

LEMMA EndsType ==
  ASSUME Typed, NEW rs, Ends(rs)
  PROVE  status' \in [Runs -> Statuses]
BY DEF Ends, Statuses, Typed, TypeOK

LEMMA TimeTypes ==
  ASSUME Typed, TimeStep
  PROVE  Typed'
<1>1. CASE \E b \in Bots : RowLapses(b)
  <2>1. PICK b \in Bots : RowLapses(b) BY <1>1
  <2>2. session' \in [Processes -> Session] /\ Aimed'
    BY <2>1, SameSessions DEF RowLapses
  <2>3. row' \in [Bots -> Row] BY <2>1 DEF RowLapses, Row, Typed, TypeOK
  <2> QED BY <2>1, <2>2, <2>3 DEF RowLapses, rights, history, Typed, TypeOK
<1>2. CASE \E b \in Bots : StopComputer(b)
  <2>1. PICK b \in Bots : StopComputer(b) BY <1>2
  <2>2. session' \in [Processes -> Session] /\ Aimed'
    BY <2>1, SameSessions DEF StopComputer
  <2>3. row' \in [Bots -> Row] BY <2>1, RowTypes DEF StopComputer
  <2>4. control' \in Control /\ transferred' \subseteq Runs /\ orphaned' \subseteq Runs
    BY <2>1, ClearedType, GiveType, OrphansType DEF StopComputer, Typed, TypeOK
  <2>5. requests' \in [RequestKinds -> Nat]
    BY <2>1 DEF StopComputer, RequestKinds, Typed, TypeOK
  <2>6. jobs' \subseteq Nat BY <2>1 DEF StopComputer, Typed, TypeOK
  <2>7. faults' \in Nat
    <3>1. faults' = faults \/ Fault("provider") BY <2>1 DEF StopComputer
    <3> QED BY <3>1, FaultType DEF Typed, TypeOK
  <2> QED BY <2>1, <2>2, <2>3, <2>4, <2>5, <2>6, <2>7 DEF StopComputer, Typed, TypeOK
<1>5. CASE \E b \in Bots : Replace(b)
  <2>1. PICK b \in Bots : Replace(b) BY <1>5
  <2>2. session' \in [Processes -> Session] /\ Aimed' BY <2>1, SameSessions DEF Replace
  <2>3. row' \in [Bots -> Row] BY <2>1, RowTypes DEF Replace
  <2>4. orphaned' \subseteq Runs BY <2>1, OrphansType DEF Replace
  <2>5. requests' \in [RequestKinds -> Nat]
    BY <2>1 DEF Replace, RequestKinds, Typed, TypeOK
  <2> QED BY <2>1, <2>2, <2>3, <2>4, <2>5 DEF Replace, rights, Typed, TypeOK
<1>6. CASE \E b \in Bots : Clear(b)
  <2>1. PICK b \in Bots : Clear(b) BY <1>6
  <2>2. session' \in [Processes -> Session] /\ Aimed' BY <2>1, SameSessions DEF Clear
  <2>3. row' \in [Bots -> Row] BY <2>1, RowTypes DEF Clear
  <2>4. orphaned' \subseteq Runs BY <2>1, OrphansType DEF Clear
  <2>5. requests' \in [RequestKinds -> Nat]
    BY <2>1 DEF Clear, RequestKinds, Typed, TypeOK
  <2>6. status' \in [Runs -> Statuses] BY <2>1, EndsType DEF Clear
  <2> QED BY <2>1, <2>2, <2>3, <2>4, <2>5, <2>6 DEF Clear, rights, Typed, TypeOK
<1>3. CASE ControlLapses
  <2>1. session' \in [Processes -> Session] /\ Aimed'
    BY <1>3, SameSessions DEF ControlLapses
  <2>2. control' \in Control BY <1>3 DEF ControlLapses, Control, Typed, TypeOK
  <2> QED BY <1>3, <2>1, <2>2 DEF ControlLapses, work, history, Typed, TypeOK
<1>4. CASE Reconcile
  <2>1. session' \in [Processes -> Session] /\ Aimed'
    BY <1>4, SameSessions DEF Reconcile
  <2>2. jobs' \subseteq Nat BY <1>4 DEF Reconcile, Control, Typed, TypeOK
  <2> QED BY <1>4, <2>1, <2>2 DEF Reconcile, rights, work, history, Typed, TypeOK
<1> QED BY <1>1, <1>2, <1>3, <1>4, <1>5, <1>6 DEF TimeStep

\* A request that is received.
LEMMA ReceiveType ==
  ASSUME Typed, NEW p \in Processes, NEW kind \in RequestKinds \ {"stop", "replace", "call"},
         NEW b \in Bots, NEW step \in {"read", "unlease"}, Receive(p, kind, b, step)
  PROVE  /\ session' \in [Processes -> Session] /\ Aimed'
         /\ requests' \in [RequestKinds -> Nat]
<1> DEFINE s == [Off EXCEPT !.kind = kind, !.step = step, !.bot = b]
<1>1. s \in Session /\ s.bot \in Bots
  BY OffType DEF Session, Off, Kinds, Steps, RequestKinds
<1>2. session' = [session EXCEPT ![p] = s] BY DEF Receive
<1> HIDE DEF s
<1>3. session' \in [Processes -> Session] /\ Aimed' BY <1>1, <1>2, SessionType
<1>4. requests' \in [RequestKinds -> Nat] BY DEF Receive, Typed, TypeOK
<1> QED BY <1>3, <1>4

LEMMA BeginTypes ==
  ASSUME Typed, NEW p \in Processes, BeginStep(p)
  PROVE  Typed'
<1>1. CASE \E l \in jobs : TakeJob(p, l)
  <2>1. PICK l \in jobs : TakeJob(p, l) BY <1>1
  <2> DEFINE s == [Off EXCEPT !.kind = "job", !.step = "expire", !.lease = l]
  <2>2. s \in Session /\ s.kind = "job" /\ s.step = "expire"
    BY OffType DEF Session, Off, Kinds, Steps, Typed, TypeOK
  <2>3. session' = [session EXCEPT ![p] = s] BY <2>1 DEF TakeJob
  <2> HIDE DEF s
  <2>4. session' \in [Processes -> Session] /\ Aimed'
    BY <2>2, <2>3, SessionType DEF BotSteps
  <2> QED BY <2>1, <2>4 DEF TakeJob, rights, work, history, Typed, TypeOK
<1>2. CASE \E kind \in Asks, b \in Bots : Request(p, kind, b)
  <2>1. PICK kind \in Asks, b \in Bots : Request(p, kind, b) BY <1>2
  <2>2. /\ session' \in [Processes -> Session] /\ Aimed'
        /\ requests' \in [RequestKinds -> Nat]
    BY <2>1, ReceiveType DEF Request, Asks, RequestKinds
  <2> QED BY <2>1, <2>2 DEF Request, rights, work, history, Typed, TypeOK
<1>3. CASE FindExpired(p)
  <2> DEFINE s == [Off EXCEPT !.step = "expire", !.lease = control.lease]
  <2>2. s \in Session /\ s.kind = "call" /\ s.step = "expire"
    BY OffType DEF Session, Off, Kinds, Steps, Typed, TypeOK, Control
  <2>3. session' = [session EXCEPT ![p] = s] BY <1>3 DEF FindExpired
  <2> HIDE DEF s
  <2>4. session' \in [Processes -> Session] /\ Aimed'
    BY <2>2, <2>3, SessionType DEF BotSteps
  <2>5. requests' \in [RequestKinds -> Nat]
    BY <1>3 DEF FindExpired, RequestKinds, Typed, TypeOK
  <2> QED BY <1>3, <2>4, <2>5 DEF FindExpired, rights, work, history, Typed, TypeOK
<1>4. CASE Crash(p)
  <2>1. session' \in [Processes -> Session] /\ Aimed'
    BY <1>4, ReturnType DEF Crash, Throw
  <2>2. jobs' \subseteq Nat
    BY <1>4, ThrowType DEF Crash
  <2>3. faults' \in Nat
    BY <1>4 DEF Crash, Fault, Typed, TypeOK
  <2> QED BY <1>4, <2>1, <2>2, <2>3 DEF Crash, rights, work, history, Typed, TypeOK
<1> QED BY <1>1, <1>2, <1>3, <1>4 DEF BeginStep

LEMMA HaltTypes ==
  ASSUME Typed, NEW p \in Processes, HaltStep(p)
  PROVE  Typed'
<1>1. CASE Unlease(p)
  <2>1. Bot(p) \in Bots BY <1>1 DEF Unlease, Typed, Aimed, BotSteps, At
  <2>2. session' \in [Processes -> Session] /\ Aimed'
    BY <1>1, <2>1, GoType, ReturnType DEF Unlease, Steps
  <2>3. row' \in [Bots -> Row] BY <1>1, <2>1, RowTypes DEF Unlease
  <2>4. orphaned' \subseteq Runs BY <1>1, OrphansType DEF Unlease
  <2> QED BY <1>1, <2>2, <2>3, <2>4 DEF Unlease, rights, Typed, TypeOK
<1>2. CASE \E kind \in {"halt", "teach"}, b \in Bots : Halt(p, kind, b)
  <2>1. PICK kind \in {"halt", "teach"}, b \in Bots : Halt(p, kind, b) BY <1>2
  <2>2. /\ session' \in [Processes -> Session] /\ Aimed'
        /\ requests' \in [RequestKinds -> Nat]
    BY <2>1, ReceiveType DEF Halt, RequestKinds
  <2>3. status' \in [Runs -> Statuses] BY <2>1, EndsType DEF Halt
  <2> QED BY <2>1, <2>2, <2>3 DEF Halt, rights, history, Typed, TypeOK
<1> QED BY <1>1, <1>2 DEF HaltStep

LEMMA ExpiryTypes ==
  ASSUME Typed, NEW p \in Processes, ExpiryStep(p)
  PROVE  Typed'
<1> USE SessionFields
<1>1. CASE ReadExpiry(p)
  <2>1. control \in Control BY DEF Typed, TypeOK
  <2>2. session' \in [Processes -> Session] /\ Aimed'
    <3>1. CASE Expired(p) BY <3>1, ExpiredType
    <3>2. CASE ~Expired(p)
      <4>1. session' = [session EXCEPT ![p].step = "deny", ![p].seen = control]
        BY <1>1, <3>2 DEF ReadExpiry
      <4> QED BY <4>1, <2>1, LeaseType DEF Steps, BotSteps
    <3> QED BY <3>1, <3>2
  <2>3. jobs' \subseteq Nat BY <1>1 DEF ReadExpiry, Typed, TypeOK
  <2> QED BY <1>1, <2>2, <2>3 DEF ReadExpiry, rights, work, history, Typed, TypeOK
<1>2. CASE Deny(p)
  <2>1. control' \in Control BY <1>2 DEF Deny, Denied, Control, Typed, TypeOK
  <2>2. session' \in [Processes -> Session] /\ Aimed'
    BY <1>2, GoType, ExpiredType DEF Deny, Steps, BotSteps
  <2> QED BY <1>2, <2>1, <2>2 DEF Deny, work, history, Typed, TypeOK
<1>3. CASE Finalize(p)
  <2>1. control' \in Control
    BY <1>3, ClearedType DEF Finalize, Typed, TypeOK
  <2>2. status' \in [Runs -> Statuses]
    BY <1>3 DEF Finalize, Resumed, Statuses, Typed, TypeOK
  <2>3. session' \in [Processes -> Session] /\ Aimed'
    BY <1>3, GoType, ExpiredType, ThrowType DEF Finalize, Steps, BotSteps
  <2>4. jobs' \subseteq Nat
    BY <1>3, ThrowType DEF Finalize, Typed, TypeOK
  <2>5. faults' \in Nat
    <3>1. faults' = faults \/ Fault("provider") BY <1>3 DEF Finalize
    <3> QED BY <3>1, FaultType DEF Typed, TypeOK
  <2> QED BY <1>3, <2>1, <2>2, <2>3, <2>4, <2>5 DEF Finalize, history, Typed, TypeOK
<1>4. CASE CancelExpiry(p)
  <2>1. session' \in [Processes -> Session] /\ Aimed'
    BY <1>4, GoType, ReturnType DEF CancelExpiry, Throw, Steps, BotSteps
  <2>2. jobs' \subseteq Nat BY <1>4, ThrowType DEF CancelExpiry, Typed, TypeOK
  <2>3. faults' \in Nat
    <3>1. faults' = faults \/ Fault("provider") BY <1>4 DEF CancelExpiry
    <3> QED BY <3>1, FaultType DEF Typed, TypeOK
  <2> QED BY <1>4, <2>1, <2>2, <2>3 DEF CancelExpiry, rights, work, history, Typed, TypeOK
<1>5. CASE ReadRelease(p)
  <2> DEFINE step == IF Kind(p) = "release" THEN "finalize" ELSE "cancel"
  <2>1. control \in Control /\ control.lease \in Nat BY DEF Typed, TypeOK, Control
  <2>2. step \in Steps \ BotSteps BY DEF Steps, BotSteps
  <2>3. session' = [session EXCEPT ![p].seen = control, ![p].lease = control.lease,
                                   ![p].step = step]
    BY <1>5 DEF ReadRelease
  <2> HIDE DEF step
  <2>4. session' \in [Processes -> Session] /\ Aimed'
    BY <2>1, <2>2, <2>3, LeaseType
  <2> QED BY <1>5, <2>4 DEF ReadRelease, rights, work, history, Typed, TypeOK
<1>6. CASE NothingToRelease(p)
  <2>1. session' \in [Processes -> Session] /\ Aimed'
    BY <1>6, ReturnType DEF NothingToRelease
  <2> QED BY <1>6, <2>1 DEF NothingToRelease, rights, work, history, Typed, TypeOK
<1> QED BY <1>1, <1>2, <1>3, <1>4, <1>5, <1>6 DEF ExpiryStep

LEMMA GrantedType ==
  ASSUME Typed, NEW b \in Bots \cup {None}, NEW r \in Runs \cup {None}
  PROVE  Granted(b, r) \in Control /\ issued + 1 \in Nat
BY DEF Granted, Control, Typed, TypeOK

LEMMA BotType ==
  ASSUME Typed, NEW p \in Processes
  PROVE  Bot(p) \in Bots \cup {None} /\ session[p].run \in Runs \cup {None}
BY DEF Bot, Session, Typed, TypeOK

LEMMA TakeoverTypes ==
  ASSUME Typed, NEW p \in Processes, TakeoverStep(p)
  PROVE  Typed'
<1> USE SessionFields
<1>0. control \in Control /\ control.lease \in Nat BY DEF Typed, TypeOK, Control
<1>1. CASE ReadTakeover(p)
  <2>1. Bot(p) \in Bots BY <1>1 DEF ReadTakeover, Typed, Aimed
  <2>2. session' \in [Processes -> Session] /\ Aimed'
    <3>1. CASE Return(p) BY <3>1, ReturnType
    <3>2. CASE ~Return(p)
      <4>1. \E step \in Steps :
              \/ session' = [session EXCEPT ![p].step = step, ![p].lease = control.lease]
              \/ session' = [session EXCEPT ![p].lease = control.lease, ![p].step = step]
        BY <1>1, <3>2 DEF ReadTakeover, Steps
      <4> QED BY <4>1, <2>1, <1>0, LeaseType
    <3> QED BY <3>1, <3>2
  <2>3. jobs' \subseteq Nat BY <1>0, <1>1 DEF ReadTakeover, Typed, TypeOK
  <2> QED BY <1>1, <2>2, <2>3 DEF ReadTakeover, rights, work, history, Typed, TypeOK
<1>2. CASE Transfer(p)
  <2>1. Bot(p) \in Bots BY <1>2 DEF Transfer, Typed, Aimed, BotSteps, At
  <2>2. session' \in [Processes -> Session] /\ Aimed'
    BY <1>2, <2>1, GoType, ThrowType DEF Transfer, Steps
  <2>3. control' \in Control /\ transferred' \subseteq Runs
    BY <1>2, GiveType, ClearedType DEF Transfer, Typed, TypeOK
  <2>4. jobs' \subseteq Nat
    BY <1>2, ThrowType DEF Transfer, Typed, TypeOK
  <2>5. faults' \in Nat
    <3>1. faults' = faults \/ Fault("provider") BY <1>2 DEF Transfer
    <3> QED BY <3>1, FaultType DEF Typed, TypeOK
  <2> QED BY <1>2, <2>2, <2>3, <2>4, <2>5 DEF Transfer, work, Typed, TypeOK
<1>3. CASE Reload(p)
  <2>1. Bot(p) \in Bots BY <1>3 DEF Reload, Typed, Aimed, BotSteps, At
  <2>2. \E step \in Steps :
          session' = [session EXCEPT ![p].lease = control.lease, ![p].step = step]
    BY <1>3 DEF Reload, Steps
  <2>3. session' \in [Processes -> Session] /\ Aimed'
    BY <2>1, <2>2, <1>0, LeaseType
  <2> QED BY <1>3, <2>3 DEF Reload, rights, work, history, Typed, TypeOK
<1>4. CASE Look(p)
  <2>1. Bot(p) \in Bots BY <1>4 DEF Look, Typed, Aimed, BotSteps, At
  <2>2. session' \in [Processes -> Session] /\ Aimed'
    <3>1. CASE Blocks(Bot(p)) BY <1>4, <3>1, ReturnType DEF Look
    <3>2. CASE ~Blocks(Bot(p))
      <4> DEFINE s == session'[p]
      <4>1. session' = [session EXCEPT ![p] = s] BY <1>4, <3>2 DEF Look, Typed, TypeOK
      <4>2. row[Bot(p)] \in Row BY <2>1 DEF Typed, TypeOK
      <4>3. s.bot = Bot(p) BY <1>4, <3>2 DEF Look, Bot, Session, Typed, TypeOK
      <4>4. s \in Session
        BY <1>4, <3>2, <4>2, OffType DEF Look, Waits, Session, Steps, Typed, TypeOK
      <4> HIDE DEF s
      <4> QED BY <2>1, <4>1, <4>3, <4>4, SessionType
    <3> QED BY <3>1, <3>2
  <2> QED BY <1>4, <2>2 DEF Look, rights, work, history, Typed, TypeOK
<1>5. CASE DeleteRow(p)
  <2>1. Bot(p) \in Bots BY <1>5 DEF DeleteRow, Typed, Aimed, BotSteps, At
  <2>2. session' \in [Processes -> Session] /\ Aimed'
    <3> DEFINE s == session'[p]
    <3>1. session' = [session EXCEPT ![p] = s] BY <1>5 DEF DeleteRow, Typed, TypeOK
    <3>2. s \in Session /\ s.bot = Bot(p)
      BY <1>5, OffType DEF DeleteRow, Bot, Session, Steps, Typed, TypeOK
    <3> HIDE DEF s
    <3> QED BY <2>1, <3>1, <3>2, SessionType
  <2>3. row' \in [Bots -> Row] BY <1>5, <2>1, RowTypes DEF DeleteRow, Typed, TypeOK
  <2>4. orphaned' \subseteq Runs BY <1>5, OrphansType DEF DeleteRow, Typed, TypeOK
  <2> QED BY <1>5, <2>2, <2>3, <2>4 DEF DeleteRow, rights, Typed, TypeOK
<1>6. CASE Grant(p)
  <2>1. issued \in Nat /\ issued + 1 \in Nat BY DEF Typed, TypeOK
  <2>2. session' \in [Processes -> Session] /\ Aimed'
    <3>1. CASE Return(p) BY <3>1, ReturnType
    <3>2. CASE ~Return(p)
      <4>1. session' = [session EXCEPT ![p].step = "schedule", ![p].lease = issued + 1]
        BY <1>6, <3>2 DEF Grant
      <4> QED BY <4>1, <2>1, <1>0, LeaseType DEF Steps, BotSteps
    <3> QED BY <3>1, <3>2
  <2>3. control' \in Control /\ issued' \in Nat
    <3>1. Granted(Bot(p), session[p].run) \in Control
      BY BotType, GrantedType
    <3>2. \/ control' = Granted(Bot(p), session[p].run) /\ issued' = issued + 1
          \/ UNCHANGED <<control, issued>>
      BY <1>6 DEF Grant, rights
    <3> QED BY <3>1, <3>2, <1>0, <2>1
  <2>4. jobs' \subseteq Nat BY <1>0, <1>6 DEF Grant, Typed, TypeOK
  <2> QED BY <1>6, <2>2, <2>3, <2>4 DEF Grant, work, history, Typed, TypeOK
<1>7. CASE Schedule(p)
  <2>1. session' \in [Processes -> Session] /\ Aimed' BY <1>7, ReturnType DEF Schedule
  <2>2. control' \in Control /\ transferred' \subseteq Runs
    BY <1>7, GiveType, ClearedType DEF Schedule, Typed, TypeOK
  <2>3. jobs' \subseteq Nat
    <3>1. jobs' = jobs \cup {Lease(p)} \/ jobs' = jobs BY <1>7 DEF Schedule
    <3>2. Lease(p) \in Nat BY SessionFields
    <3>3. jobs \subseteq Nat BY DEF Typed, TypeOK
    <3> QED BY <3>1, <3>2, <3>3
  <2>5. faults' \in Nat
    <3>1. faults' = faults \/ Fault("enqueue") BY <1>7 DEF Schedule
    <3> QED BY <3>1, FaultType DEF Typed, TypeOK
  <2>4. taught' \in [Bots -> Nat] BY <1>7 DEF Schedule, Typed, TypeOK
  <2> QED BY <1>7, <2>1, <2>2, <2>3, <2>4, <2>5 DEF Schedule, work, Typed, TypeOK
<1> QED BY <1>1, <1>2, <1>3, <1>4, <1>5, <1>6, <1>7 DEF TakeoverStep

LEMMA TeachTypes ==
  ASSUME Typed, NEW p \in Processes, TeachStep(p)
  PROVE  Typed'
<1>0. control \in Control /\ control.lease \in Nat /\ control.run \in Runs \cup {None}
  BY DEF Typed, TypeOK, Control
<1>1. CASE ReadTeach(p)
  <2> DEFINE step == IF Active(control) /\ control.bot = Bot(p) THEN "extend"
                     ELSE "overwrite"
  <2>1. step \in Steps \ BotSteps BY DEF Steps, BotSteps
  <2>3. session' = [session EXCEPT ![p].lease = control.lease, ![p].step = step]
    BY <1>1 DEF ReadTeach
  <2> HIDE DEF step
  <2>2. session' \in [Processes -> Session] /\ Aimed' BY <2>1, <2>3, <1>0, LeaseType
  <2> QED BY <1>1, <2>2 DEF ReadTeach, rights, work, history, Typed, TypeOK
<1>2. CASE Extend(p)
  <2>1. session' \in [Processes -> Session] /\ Aimed'
    BY <1>2, GoType DEF Extend, Steps, BotSteps
  <2>2. control' \in Control BY <1>0, <1>2 DEF Extend, Control
  <2> QED BY <1>2, <2>1, <2>2 DEF Extend, work, history, Typed, TypeOK
<1>3. CASE Overwrite(p)
  <2>1. issued \in Nat /\ issued + 1 \in Nat BY DEF Typed, TypeOK
  <2>2. session' \in [Processes -> Session] /\ Aimed'
    <3>1. CASE Return(p) BY <3>1, ReturnType
    <3>2. CASE ~Return(p)
      <4>1. session' = [session EXCEPT ![p].step = "schedule", ![p].lease = issued + 1]
        BY <1>3, <3>2 DEF Overwrite
      <4> QED BY <4>1, <2>1, <1>0, LeaseType DEF Steps, BotSteps
    <3> QED BY <3>1, <3>2
  <2>3. control' \in Control /\ issued' \in Nat
    BY <1>0, <1>3, BotType, GrantedType DEF Overwrite, rights, Typed, TypeOK
  <2>4. transferred' \subseteq Runs BY <1>3 DEF Overwrite, Named, Typed, TypeOK
  <2> QED BY <1>3, <2>2, <2>3, <2>4 DEF Overwrite, work, Typed, TypeOK
<1> QED BY <1>1, <1>2, <1>3 DEF TeachStep

LEMMA TypedStep ==
  ASSUME Typed, [Next]_vars
  PROVE  Typed'
<1>1. CASE UNCHANGED vars
  BY <1>1 DEF vars, rights, work, history, Typed, TypeOK, Aimed, Kind, Bot
<1> QED BY <1>1, NextCases, RunTypes, TimeTypes, BeginTypes, HaltTypes, ExpiryTypes,
           TakeoverTypes, TeachTypes

LEMMA TypedInit ==
  ASSUME Init
  PROVE  Typed
<1> USE ControlAssumption
<1>1. session \in [Processes -> Session] /\ Aimed
  BY OffType DEF Init, Aimed, Kind, Bot, Off, BotSteps
<1>2. control \in Control /\ row \in [Bots -> Row]
  BY ClearedType, OffType DEF Init
<1>3. status \in [Runs -> Statuses] /\ requests \in [RequestKinds -> Nat] /\ faults \in Nat
  BY DEF Init, Statuses
<1> QED BY <1>1, <1>2, <1>3 DEF Init, Typed, TypeOK

\* The type invariant of the control of a computer.
THEOREM ControlTypeCorrect == Spec => []TypeOK
<1>1. Init => Typed BY TypedInit
<1>2. Typed /\ [Next]_vars => Typed' BY TypedStep
<1>3. Typed => TypeOK BY DEF Typed
<1> QED BY <1>1, <1>2, <1>3, PTL DEF Spec

-----------------------------------------------------------------------------
(* A run that waits keeps its way back.                                    *)

\* No run is created twice, an end is final, and a run waits because its lease
\* was held for the user.
LEMMA StatusSteps ==
  ASSUME Typed, [Next]_vars, NEW r \in Runs
  PROVE  /\ status[r] = "ended" => status'[r] = "ended"
         /\ status[r] # "new" => status'[r] # "new"
         /\ status'[r] \in ForUser => status[r] \in ForUser \/ (Hold(r) /\ Holds(r))
<1> USE DEF ForUser
<1>0. status \in [Runs -> Statuses] BY DEF Typed, TypeOK
<1>1. CASE UNCHANGED status BY <1>1
<1>2. CASE \E q \in Runs : RunStep(q)
  <2>1. PICK q \in Runs : RunStep(q) BY <1>2
  <2>2. CASE Hold(q)
    <3>1. /\ status[q] = "asking"
          /\ \/ status' = [status EXCEPT ![q] = "held"] /\ Holds(q)
             \/ status' = [status EXCEPT ![q] = "ended"]
      BY <2>2 DEF Hold
    <3>2. CASE q = r BY <1>0, <2>2, <3>1, <3>2
    <3>3. CASE q # r
      <4>1. status'[r] = status[r] BY <1>0, <3>1, <3>3
      <4> QED BY <4>1
    <3> QED BY <3>2, <3>3
  <2>3. CASE Pause(q)
    <3>1. status[q] = "held" /\ status' = [status EXCEPT ![q] = "waiting"]
      BY <2>3 DEF Pause
    <3> QED BY <1>0, <3>1
  <2>4. CASE ~Hold(q) /\ ~Pause(q)
    <3>1. /\ status[q] # "ended"
          /\ \E v \in Statuses \ {"new", "held", "waiting"} : status' = [status EXCEPT ![q] = v]
      BY <2>1, <2>4 DEF RunStep, Create, Begin, End, Ask, Repeat, Waits, Statuses
    <3>2. PICK v \in Statuses \ {"new", "held", "waiting"} : status' = [status EXCEPT ![q] = v]
      BY <3>1
    <3>3. CASE q = r
      <4>1. status'[r] = v /\ status[r] # "ended" BY <1>0, <3>1, <3>2, <3>3
      <4> QED BY <4>1
    <3>4. CASE q # r
      <4>1. status'[r] = status[r] BY <1>0, <3>2, <3>4
      <4> QED BY <4>1
    <3> QED BY <3>3, <3>4
  <2> QED BY <2>2, <2>3, <2>4
<1>3. CASE \E rs : Ends(rs)
  <2>1. status'[r] \in {status[r], "ended"} BY <1>3 DEF Ends
  <2> QED BY <2>1
<1>4. CASE TimeStep
  <2>1. CASE \E b \in Bots : Clear(b) BY <2>1, <1>3 DEF Clear
  <2>2. CASE ~\E b \in Bots : Clear(b)
    <3>1. UNCHANGED status
      BY <1>4, <2>2 DEF TimeStep, RowLapses, Replace, StopComputer, ControlLapses,
           Reconcile, work
    <3> QED BY <1>1, <3>1
  <2> QED BY <2>1, <2>2
<1>5. CASE \E p \in Processes : HaltStep(p)
  <2>1. UNCHANGED status \/ \E rs : Ends(rs) BY <1>5 DEF HaltStep, Unlease, Halt
  <2> QED BY <1>1, <1>3, <2>1
<1>6. CASE \E p \in Processes : BeginStep(p) \/ TakeoverStep(p) \/ TeachStep(p)
  <2>1. UNCHANGED status
    BY ZenonT(60), <1>6 DEF BeginStep, TakeoverStep, TeachStep, TakeJob, Request, FindExpired, Crash,
         ReadTakeover, Transfer, Reload, Look, DeleteRow, Grant, Schedule, ReadTeach, Extend,
         Overwrite, work
  <2> QED BY <1>1, <2>1
<1>7. CASE \E p \in Processes : ExpiryStep(p)
  <2>1. PICK p \in Processes : ExpiryStep(p) BY <1>7
  <2>2. UNCHANGED status \/ status' = Resumed(p)
    BY <2>1 DEF ExpiryStep, ReadExpiry, Deny, Finalize, CancelExpiry, ReadRelease,
         NothingToRelease, work
  <2>3. CASE status' = Resumed(p)
    <3>1. status'[r] = status[r] \/ (status[r] = "waiting" /\ status'[r] = "queued")
      BY <2>3 DEF Resumed
    <3> QED BY <3>1
  <2> QED BY <1>1, <2>2, <2>3
<1>8. CASE UNCHANGED vars
  <2>1. UNCHANGED status BY <1>8 DEF vars, work
  <2> QED BY <1>1, <2>1
<1> QED BY <1>2, <1>4, <1>5, <1>6, <1>7, <1>8, NextCases

LEMMA DropSteps ==
  ASSUME Typed, NEW b \in Bots, NEW c \in Bots, Drop(c)
  PROVE  IF b = c THEN row'[b].run = None ELSE row'[b] = row[b]
BY DEF Drop, Typed, TypeOK, Row

\* A lease passes to a run that begins; it goes to somebody else, which leaves
\* the run for which it was held an orphan; or a takeover deletes it.
LEMMA RowSteps ==
  ASSUME Typed, [Next]_vars, NEW b \in Bots
  PROVE  \/ row'[b].run = row[b].run
         \/ \E r \in Runs : Begin(r) /\ BotOf[r] = b /\ row'[b].run = r
         \/ row'[b].run \in {None, Manual} /\ Orphans(b)
         \/ row'[b].run = None /\ \E p \in Processes : DeleteRow(p) /\ Bot(p) = b
<1>1. CASE \E q \in Runs : RunStep(q)
  <2>1. PICK q \in Runs : RunStep(q) BY <1>1
  <2>2. CASE Begin(q) BY <2>2, ControlAssumption DEF Begin, Take, Typed, TypeOK
  <2>3. CASE End(q) \/ Hold(q)
    BY <2>3, ControlAssumption DEF End, Hold, Typed, TypeOK, Row
  <2>4. CASE Create(q) \/ Ask(q) \/ Pause(q) \/ Repeat(q)
    BY <2>4 DEF Create, Ask, Pause, Repeat, work
  <2> QED BY <2>1, <2>2, <2>3, <2>4 DEF RunStep
<1>2. CASE TimeStep
  <2>1. CASE \E c \in Bots : RowLapses(c)
    <3>1. PICK c \in Bots : row' = [row EXCEPT ![c].live = FALSE] BY <2>1 DEF RowLapses
    <3>2. row \in [Bots -> Row] /\ row[b] \in Row BY DEF Typed, TypeOK
    <3>3. CASE c = b
      <4>1. row'[b] = [row[b] EXCEPT !.live = FALSE] BY <3>1, <3>2, <3>3
      <4> QED BY <4>1, <3>2 DEF Row
    <3>4. CASE c # b BY <3>1, <3>2, <3>4
    <3> QED BY <3>3, <3>4
  <2>2. CASE \E c \in Bots : StopComputer(c) \/ Clear(c)
    <3>1. PICK c \in Bots : Drop(c) /\ Orphans(c) BY <2>2 DEF StopComputer, Clear
    <3> QED BY <3>1, DropSteps
  <2>3. CASE \E c \in Bots : Replace(c)
    <3>1. PICK c \in Bots : Take(c, Manual) /\ Orphans(c) BY <2>3 DEF Replace
    <3> QED BY <3>1 DEF Take, Typed, TypeOK
  <2>4. CASE ControlLapses \/ Reconcile BY <2>4 DEF ControlLapses, Reconcile, work
  <2> QED BY <1>2, <2>1, <2>2, <2>3, <2>4 DEF TimeStep
<1>3. CASE \E p \in Processes : DeleteRow(p)
  <2>1. PICK p \in Processes : DeleteRow(p) BY <1>3
  <2>2. Bot(p) \in Bots BY <2>1 DEF DeleteRow, Typed, Aimed, BotSteps, At
  <2> QED BY <2>1, <2>2, DropSteps DEF DeleteRow
<1>4. CASE \E p \in Processes : HaltStep(p)
  <2>1. PICK p \in Processes : HaltStep(p) BY <1>4
  <2>2. CASE Unlease(p)
    <3>1. Bot(p) \in Bots BY <2>2 DEF Unlease, Typed, Aimed, BotSteps, At
    <3> QED BY <2>2, <3>1, DropSteps DEF Unlease
  <2>3. CASE ~Unlease(p) BY <2>1, <2>3 DEF HaltStep, Halt
  <2> QED BY <2>2, <2>3
<1>5. CASE \E p \in Processes :
             \/ BeginStep(p) \/ ExpiryStep(p) \/ TeachStep(p)
             \/ TakeoverStep(p) /\ ~DeleteRow(p)
  BY ZenonT(60), <1>5 DEF BeginStep, TakeoverStep, TeachStep, ExpiryStep, TakeJob, Request, FindExpired,
       Crash, ReadTakeover, Transfer, Reload, Look, Grant, Schedule, ReadTeach, Extend,
       Overwrite, ReadExpiry, Deny, Finalize, CancelExpiry, ReadRelease, NothingToRelease,
       work
<1>6. CASE UNCHANGED vars BY <1>6 DEF vars, work
<1> QED BY <1>1, <1>2, <1>3, <1>4, <1>5, <1>6, NextCases

LEMMA RowsBegunStep ==
  ASSUME IInv, [Next]_vars
  PROVE  RowsBegun'
<1> SUFFICES ASSUME NEW b \in Bots, row'[b].run \in Runs
             PROVE  status'[row'[b].run] # "new"
  BY DEF RowsBegun
<1>1. CASE row'[b].run = row[b].run
  BY <1>1, StatusSteps DEF IInv, RowsBegun
<1>2. CASE \E r \in Runs : Begin(r) /\ row'[b].run = r
  BY <1>2 DEF Begin, IInv, Typed, TypeOK
<1> QED BY <1>1, <1>2, RowSteps, ControlAssumption DEF IInv

LEMMA LeavesDelete ==
  ASSUME Typed, NEW p \in Processes,
         \/ Return(p) \/ Expired(p)
         \/ \E step \in Steps \ {"delete"} : Go(p, step)
  PROVE  session'[p].step # "delete"
<1>1. session \in [Processes -> Session] /\ session[p] \in Session BY DEF Typed, TypeOK
<1>2. CASE Return(p) BY <1>1, <1>2 DEF Return, Off
<1>3. CASE Expired(p) BY <1>1, <1>3 DEF Expired, Off
<1>4. CASE \E step \in Steps \ {"delete"} : Go(p, step) BY <1>1, <1>4 DEF Go, Session
<1> QED BY <1>2, <1>3, <1>4

\* Only a look at the lease leads to its deletion.
LEMMA DeleteSteps ==
  ASSUME Typed, [Next]_vars, NEW p \in Processes, session'[p].step = "delete"
  PROVE  session'[p] = session[p] \/ Look(p)
<1> USE DEF Typed, TypeOK
<1>1. CASE \E q \in Runs : RunStep(q)
  BY <1>1 DEF RunStep, Create, Begin, End, Ask, Hold, Pause, Repeat
<1>2. CASE TimeStep
  BY <1>2 DEF TimeStep, RowLapses, Replace, StopComputer, Clear, ControlLapses, Reconcile
<1>3. CASE \E q \in Processes : \/ BeginStep(q) \/ HaltStep(q) \/ ExpiryStep(q)
                               \/ TakeoverStep(q) \/ TeachStep(q)
  <2>1. PICK q \in Processes : \/ BeginStep(q) \/ HaltStep(q) \/ ExpiryStep(q)
                               \/ TakeoverStep(q) \/ TeachStep(q)
    BY <1>3
  <2>2. CASE q = p
    <3>1. session[p] \in Session BY DEF Session
    <3>2. CASE BeginStep(p)
      <4>1. CASE \E l \in jobs : TakeJob(p, l) BY <3>1, <2>2, <4>1, LeavesDelete DEF TakeJob, Off
      <4>2. CASE \E kind \in Asks, b \in Bots : Request(p, kind, b)
        BY <3>1, <2>2, <4>2, LeavesDelete DEF Request, Receive, Off
      <4>3. CASE FindExpired(p) BY <3>1, <2>2, <4>3, LeavesDelete DEF FindExpired, Off
      <4>4. CASE Crash(p) BY <3>1, <2>2, <4>4, LeavesDelete DEF Crash, Throw
      <4> QED BY <3>2, <4>1, <4>2, <4>3, <4>4 DEF BeginStep
    <3>3. CASE ExpiryStep(p)
      <4>1. CASE ReadExpiry(p) BY <3>1, <2>2, <4>1, LeavesDelete DEF ReadExpiry, Session
      <4>2. CASE Deny(p) BY <3>1, <2>2, <4>2, LeavesDelete DEF Deny, Steps
      <4>3. CASE Finalize(p) BY <3>1, <2>2, <4>3, LeavesDelete DEF Finalize, Steps, Throw
      <4>4. CASE CancelExpiry(p) BY <3>1, <2>2, <4>4, LeavesDelete DEF CancelExpiry, Steps, Throw
      <4>5. CASE ReadRelease(p) BY <3>1, <2>2, <4>5, LeavesDelete DEF ReadRelease, Session
      <4>6. CASE NothingToRelease(p) BY <3>1, <2>2, <4>6, LeavesDelete DEF NothingToRelease
      <4> QED BY <3>3, <4>1, <4>2, <4>3, <4>4, <4>5, <4>6 DEF ExpiryStep
    <3>4. CASE TakeoverStep(p)
      <4>1. CASE Look(p) BY <3>1, <2>2, <4>1, LeavesDelete DEF Look
      <4>2. CASE ReadTakeover(p) BY <3>1, <2>2, <4>2, LeavesDelete DEF ReadTakeover, Session
      <4>3. CASE Transfer(p) BY <3>1, <2>2, <4>3, LeavesDelete DEF Transfer, Steps, Throw
      <4>4. CASE Reload(p) BY <3>1, <2>2, <4>4, LeavesDelete DEF Reload, Session
      <4>5. CASE DeleteRow(p) BY <3>1, <2>2, <4>5, LeavesDelete DEF DeleteRow, Session
      <4>6. CASE Grant(p) BY <3>1, <2>2, <4>6, LeavesDelete DEF Grant, Session
      <4>7. CASE Schedule(p) BY <3>1, <2>2, <4>7, LeavesDelete DEF Schedule
      <4> QED BY <3>4, <4>1, <4>2, <4>3, <4>4, <4>5, <4>6, <4>7 DEF TakeoverStep
    <3>5. CASE TeachStep(p)
      <4>1. CASE ReadTeach(p) BY <3>1, <2>2, <4>1, LeavesDelete DEF ReadTeach, Session
      <4>2. CASE Extend(p) BY <3>1, <2>2, <4>2, LeavesDelete DEF Extend, Steps
      <4>3. CASE Overwrite(p) BY <3>1, <2>2, <4>3, LeavesDelete DEF Overwrite, Session
      <4> QED BY <3>5, <4>1, <4>2, <4>3 DEF TeachStep
    <3>6. CASE HaltStep(p)
      <4>1. CASE Unlease(p) BY <3>1, <2>2, <4>1, LeavesDelete DEF Unlease, Steps
      <4>2. CASE \E kind \in {"halt", "teach"}, b \in Bots : Halt(p, kind, b)
        BY <3>1, <2>2, <4>2 DEF Halt, Receive, Off
      <4> QED BY <3>6, <4>1, <4>2 DEF HaltStep
    <3> QED BY <2>1, <2>2, <3>2, <3>3, <3>4, <3>5, <3>6
  <2>3. CASE q # p
    <3>1. \E s : session' = [session EXCEPT ![q] = s]
      <4>1. CASE BeginStep(q)
        BY <4>1 DEF BeginStep, TakeJob, Request, Receive, FindExpired, Crash, Throw, Return
      <4>5. CASE HaltStep(q)
        BY <4>5 DEF HaltStep, Unlease, Halt, Receive, Return, Go
      <4>2. CASE ExpiryStep(q)
        BY <4>2 DEF ExpiryStep, ReadExpiry, Deny, Finalize, CancelExpiry, ReadRelease,
             NothingToRelease, Expired, Throw, Return, Go
      <4>3. CASE TakeoverStep(q)
        BY <4>3 DEF TakeoverStep, ReadTakeover, Transfer, Reload, Look, DeleteRow, Grant,
             Schedule, Throw, Return, Go
      <4>4. CASE TeachStep(q)
        BY <4>4 DEF TeachStep, ReadTeach, Extend, Overwrite, Return, Go
      <4> QED BY <2>1, <4>1, <4>2, <4>3, <4>4, <4>5
    <3> QED BY <2>3, <3>1
  <2> QED BY <2>2, <2>3
<1>4. CASE UNCHANGED vars BY <1>4 DEF vars
<1> QED BY <1>1, <1>2, <1>3, <1>4, NextCases

LEMMA DeletesEndedStep ==
  ASSUME IInv, [Next]_vars
  PROVE  DeletesEnded'
<1> SUFFICES ASSUME NEW p \in Processes, session'[p].step = "delete",
                    session'[p].row.run \in Runs
             PROVE  status'[session'[p].row.run] = "ended"
  BY DEF DeletesEnded, At
<1>0. Typed BY DEF IInv
<1>1. CASE session'[p] = session[p]
  <2>1. status[session[p].row.run] = "ended"
    BY <1>1 DEF IInv, DeletesEnded, At
  <2> QED BY <2>1, <1>0, <1>1, StatusSteps
<1>2. CASE Look(p)
  <2> DEFINE r == row[Bot(p)].run
  <2>1. Bot(p) \in Bots BY <1>0, <1>2 DEF Look, Typed, Aimed, BotSteps, At
  <2>2. Deletable(Bot(p)) /\ session'[p].row = row[Bot(p)]
    <3>1. ~Return(p) BY <1>0, LeavesDelete
    <3>2. session' = [session EXCEPT
            ![p].run = IF Waits(row[Bot(p)].run) THEN row[Bot(p)].run ELSE None,
            ![p].row = IF Deletable(Bot(p)) THEN row[Bot(p)] ELSE NoRow,
            ![p].step = IF Deletable(Bot(p)) THEN "delete" ELSE "grant"]
      BY <1>2, <3>1 DEF Look
    <3>3. session \in [Processes -> Session] /\ session[p] \in Session
      BY <1>0 DEF Typed, TypeOK
    <3> HIDE DEF r
    <3> QED BY <3>2, <3>3 DEF Session
  <2>3. r \in Runs /\ status[r] \in Statuses
    BY <1>0, <2>2 DEF Typed, TypeOK
  <2>4. status[r] # "new"
    BY <2>1, <2>3 DEF IInv, RowsBegun
  <2>5. status[r] = "ended"
    BY <2>2, <2>3, <2>4 DEF Deletable, AtWork, Statuses, ActiveStatuses
  <2> QED BY <2>2, <2>3, <2>5, <1>0, StatusSteps
<1> QED BY <1>0, <1>1, <1>2, DeleteSteps

\* An orphan is one until it takes the lease again.
LEMMA OrphanedGrows ==
  ASSUME [Next]_vars, NEW r \in orphaned, ~Begin(r)
  PROVE  r \in orphaned'
<1>1. CASE \E q \in Runs : RunStep(q)
  <2>1. PICK q \in Runs : RunStep(q) BY <1>1
  <2>2. CASE Begin(q)
    <3>1. q # r BY <2>2
    <3> QED BY <2>2, <3>1 DEF Begin
  <2>3. CASE ~Begin(q)
    BY <2>1, <2>3 DEF RunStep, Create, End, Ask, Hold, Pause, Repeat, history
  <2> QED BY <2>2, <2>3
<1>2. CASE TimeStep
  BY <1>2 DEF TimeStep, RowLapses, Replace, StopComputer, Clear, ControlLapses, Reconcile,
       Orphans, history
<1>3. CASE \E p \in Processes : DeleteRow(p) \/ HaltStep(p)
  BY <1>3 DEF DeleteRow, HaltStep, Unlease, Halt, Orphans, history
<1>4. CASE \E p \in Processes :
             \/ BeginStep(p) \/ ExpiryStep(p) \/ TeachStep(p)
             \/ TakeoverStep(p) /\ ~DeleteRow(p)
  BY ZenonT(60), <1>4 DEF BeginStep, TakeoverStep, TeachStep, ExpiryStep, TakeJob, Request, FindExpired,
       Crash, ReadTakeover, Transfer, Reload, Look, Grant, Schedule, ReadTeach, Extend,
       Overwrite, ReadExpiry, Deny, Finalize, CancelExpiry, ReadRelease, NothingToRelease,
       history
<1>5. CASE UNCHANGED vars BY <1>5 DEF vars, history
<1> QED BY <1>1, <1>2, <1>3, <1>4, <1>5, NextCases

LEMMA ReachableStep ==
  ASSUME IInv, [Next]_vars
  PROVE  HeldIsReachable'
<1> SUFFICES ASSUME NEW r \in Runs, status'[r] \in ForUser
             PROVE  row'[BotOf[r]].run = r \/ r \in orphaned'
  BY DEF HeldIsReachable, Holds
<1> DEFINE b == BotOf[r]
<1>0. Typed /\ b \in Bots BY ControlAssumption DEF IInv
<1>1. CASE Hold(r) /\ Holds(r)
  <2>1. row'[b].run = r
    BY <1>0, <1>1 DEF Hold, Holds, Typed, TypeOK, Row
  <2> QED BY <2>1
<1>2. CASE status[r] \in ForUser
  <2>0. ~Begin(r) BY <1>2 DEF Begin, ForUser
  <2>1. row[b].run = r \/ r \in orphaned
    BY <1>2 DEF IInv, HeldIsReachable, Holds
  <2>2. CASE r \in orphaned BY <2>0, <2>2, OrphanedGrows
  <2>3. CASE row[b].run = r /\ row'[b].run # r
    <3>0. r \in HeldFor(b) BY <1>2, <2>3 DEF HeldFor, ForUser
    <3>1. CASE \E q \in Runs : Begin(q) /\ BotOf[q] = b /\ row'[b].run = q
      BY <2>3, <3>0, <3>1 DEF Begin
    <3>2. CASE Orphans(b) BY <3>0, <3>2 DEF Orphans
    <3>3. CASE \E p \in Processes : DeleteRow(p) /\ Bot(p) = b
      <4>1. PICK p \in Processes : DeleteRow(p) /\ Bot(p) = b BY <3>3
      <4>2. session[p].row.run # r
        BY <1>2, <4>1 DEF DeleteRow, IInv, DeletesEnded, ForUser
      <4>3. row[b].id = session[p].row.id BY <2>3, <4>1 DEF DeleteRow
      <4>4. Orphans(b) BY <2>3, <4>1, <4>2, <4>3 DEF DeleteRow
      <4> QED BY <3>0, <4>4 DEF Orphans
    <3> QED BY <1>0, <2>3, <3>1, <3>2, <3>3, RowSteps
  <2> QED BY <2>1, <2>2, <2>3
<1> QED BY <1>0, <1>1, <1>2, StatusSteps

LEMMA IInvStep ==
  ASSUME IInv, [Next]_vars
  PROVE  IInv'
<1>1. Typed' BY TypedStep DEF IInv
<1> QED BY <1>1, RowsBegunStep, DeletesEndedStep, ReachableStep DEF IInv

LEMMA IInvInit ==
  ASSUME Init
  PROVE  IInv
<1>1. RowsBegun BY ControlAssumption DEF Init, RowsBegun, NoRow
<1>2. DeletesEnded BY DEF Init, DeletesEnded, At, Off
<1>3. HeldIsReachable BY DEF Init, HeldIsReachable, ForUser
<1> QED BY <1>1, <1>2, <1>3, TypedInit DEF IInv

\* Whatever becomes of the control it was given, a run that waits can be named
\* by a takeover again, unless its bot's execution lease was taken or deleted
\* since it was held for the user: a stop or clear of another thread of the bot
\* does so, and no takeover that looked at the lease while the run had it.
THEOREM WaitingRunsStayReachable == Spec => []WaitingIsReachable
<1>1. Init => IInv BY IInvInit
<1>2. IInv /\ [Next]_vars => IInv' BY IInvStep
<1>3. IInv => WaitingIsReachable
  BY DEF IInv, HeldIsReachable, WaitingIsReachable, Waits, ForUser
<1> QED BY <1>1, <1>2, <1>3, PTL DEF Spec

-----------------------------------------------------------------------------
(* Control is held until a handler of its own lease ends it.               *)

Kept == control'.holder = "user" /\ control'.bot = control.bot
EndedByItsHandler ==
  \E p \in Processes : Lease(p) = control.lease /\ session'[p] # session[p]
Asked == \E r \in Runs : status[r] = "running" /\ status'[r] = "asking"
Stopped == requests'["stop"] < requests["stop"]

LEMMA UnchangedKeeps ==
  ASSUME Active(control), UNCHANGED control
  PROVE  Kept
BY DEF Active, Kept

LEMMA RunHolds ==
  ASSUME Typed, NEW r \in Runs, RunStep(r), Active(control)
  PROVE  Kept \/ Asked
<1>1. CASE Ask(r) BY <1>1 DEF Ask, Asked, Typed, TypeOK
<1>2. CASE ~Ask(r)
  BY <1>2, UnchangedKeeps DEF RunStep, Create, Begin, End, Hold, Pause, Repeat, rights
<1> QED BY <1>1, <1>2

LEMMA TimeHolds ==
  ASSUME Typed, TimeStep, Active(control)
  PROVE  Kept \/ Stopped
<1>1. CASE \E b \in Bots : StopComputer(b)
  BY <1>1 DEF StopComputer, Stopped, RequestKinds, Typed, TypeOK
<1>2. CASE ControlLapses
  BY <1>2 DEF ControlLapses, Active, Kept, Control, Typed, TypeOK
<1>3. CASE (\E b \in Bots : RowLapses(b) \/ Replace(b) \/ Clear(b)) \/ Reconcile
  BY <1>3, UnchangedKeeps DEF RowLapses, Replace, Clear, Reconcile, rights
<1> QED BY <1>1, <1>2, <1>3 DEF TimeStep

\* A handler that ends the lease goes on to its next step.
LEMMA StepChangesSession ==
  ASSUME Typed, NEW p \in Processes, NEW step, step # session[p].step,
         Go(p, step) \/ (step = "off" /\ Return(p))
                     \/ (step \in {"off", "look"} /\ Expired(p) /\ session[p].step = "finalize")
  PROVE  session'[p] # session[p]
<1>1. session \in [Processes -> Session] /\ session[p] \in Session BY DEF Typed, TypeOK
<1>2. CASE Go(p, step) BY <1>1, <1>2 DEF Go, Session
<1>3. CASE step = "off" /\ Return(p) BY <1>1, <1>3 DEF Return, Off
<1>4. CASE session[p].step = "finalize" /\ Expired(p)
  <2>1. session'[p].step \in {"off", "look"} BY <1>1, <1>4 DEF Expired, Off
  <2> QED BY <1>4, <2>1
<1> QED BY <1>2, <1>3, <1>4

LEMMA ExpiryHolds ==
  ASSUME Typed, NEW p \in Processes, ExpiryStep(p), Active(control)
  PROVE  Kept \/ EndedByItsHandler
<1>1. CASE Deny(p)
  <2>1. CASE control.lease = Lease(p)
    <3>1. session'[p] # session[p] BY <1>1, <2>1, StepChangesSession DEF Deny, At
    <3> QED BY <2>1, <3>1 DEF EndedByItsHandler
  <2>2. CASE control.lease # Lease(p) BY <1>1, <2>2, UnchangedKeeps DEF Deny
  <2> QED BY <2>1, <2>2
<1>2. CASE Finalize(p)
  <2>1. CASE UNCHANGED control BY <2>1, UnchangedKeeps
  <2>2. CASE ~UNCHANGED control
    <3>1. Matches(p) /\ (Go(p, "cancel") \/ Expired(p)) BY <1>2, <2>2 DEF Finalize
    <3>2. session'[p] # session[p] BY <1>2, <3>1, StepChangesSession DEF Finalize, At
    <3> QED BY <3>1, <3>2 DEF Matches, EndedByItsHandler
  <2> QED BY <2>1, <2>2
<1>3. CASE ReadExpiry(p) \/ CancelExpiry(p) \/ ReadRelease(p) \/ NothingToRelease(p)
  BY <1>3, UnchangedKeeps DEF ReadExpiry, CancelExpiry, ReadRelease, NothingToRelease, rights
<1> QED BY <1>1, <1>2, <1>3 DEF ExpiryStep

LEMMA TakeoverHolds ==
  ASSUME Typed, NEW p \in Processes, TakeoverStep(p), Active(control)
  PROVE  Kept \/ EndedByItsHandler
<1>1. CASE Transfer(p)
  <2>1. CASE UNCHANGED control BY <2>1, UnchangedKeeps
  <2>2. CASE ~UNCHANGED control
    <3>1. control.lease = Lease(p) /\ Go(p, "reload") BY <1>1, <2>2 DEF Transfer
    <3>2. session'[p] # session[p] BY <1>1, <3>1, StepChangesSession DEF Transfer, At
    <3> QED BY <3>1, <3>2 DEF EndedByItsHandler
  <2> QED BY <2>1, <2>2
<1>2. CASE Schedule(p)
  <2>1. CASE UNCHANGED control BY <2>1, UnchangedKeeps
  <2>2. CASE ~UNCHANGED control
    <3>1. control.lease = Lease(p) /\ Return(p) BY <1>2, <2>2 DEF Schedule
    <3>2. session'[p] # session[p] BY <1>2, <3>1, StepChangesSession DEF Schedule, At
    <3> QED BY <3>1, <3>2 DEF EndedByItsHandler
  <2> QED BY <2>1, <2>2
<1>3. CASE Grant(p)
  BY <1>3, UnchangedKeeps DEF Grant, Active, rights
<1>4. CASE ReadTakeover(p) \/ Reload(p) \/ Look(p) \/ DeleteRow(p)
  BY <1>4, UnchangedKeeps DEF ReadTakeover, Reload, Look, DeleteRow, rights
<1> QED BY <1>1, <1>2, <1>3, <1>4 DEF TakeoverStep

LEMMA TeachHolds ==
  ASSUME Typed, NEW p \in Processes, TeachStep(p), Active(control)
  PROVE  Kept
<1>1. CASE ReadTeach(p) BY <1>1, UnchangedKeeps DEF ReadTeach, rights
<1>2. CASE Extend(p) BY <1>2 DEF Extend, Active, Kept, Control, Typed, TypeOK
<1>3. CASE Overwrite(p) BY <1>3, UnchangedKeeps DEF Overwrite, Active, Granted, Kept, rights
<1> QED BY <1>1, <1>2, <1>3 DEF TeachStep

\* Nobody loses the screen to a late release, transfer or expiry of an earlier
\* lease.
THEOREM ControlEndsByItsLease == Spec => ControlIsHeld
<1>1. ASSUME Typed, [Next]_vars, Active(control)
      PROVE  Kept \/ EndedByItsHandler \/ Asked \/ Stopped
  <2>1. CASE \E r \in Runs : RunStep(r) BY <1>1, <2>1, RunHolds
  <2>2. CASE TimeStep BY <1>1, <2>2, TimeHolds
  <2>3. CASE \E p \in Processes : BeginStep(p) \/ HaltStep(p)
    BY <1>1, <2>3, UnchangedKeeps DEF BeginStep, HaltStep, TakeJob, Request, FindExpired, Crash,
         Unlease, Halt, rights
  <2>4. CASE \E p \in Processes : ExpiryStep(p) \/ TakeoverStep(p) \/ TeachStep(p)
    BY <1>1, <2>4, ExpiryHolds, TakeoverHolds, TeachHolds
  <2>5. CASE UNCHANGED vars BY <1>1, <2>5, UnchangedKeeps DEF vars, rights
  <2> QED BY <1>1, <2>1, <2>2, <2>3, <2>4, <2>5, NextCases
<1>2. Typed /\ [Next]_vars =>
        [Active(control) =>
           \/ control'.holder = "user" /\ control'.bot = control.bot
           \/ \E p \in Processes : Lease(p) = control.lease /\ session'[p] # session[p]
           \/ \E r \in Runs : status[r] = "running" /\ status'[r] = "asking"
           \/ requests'["stop"] < requests["stop"]]_vars
  BY <1>1 DEF Kept, EndedByItsHandler, Asked, Stopped
<1>3. Init => Typed BY TypedInit
<1>4. Typed /\ [Next]_vars => Typed' BY TypedStep
<1> QED BY <1>2, <1>3, <1>4, PTL DEF Spec, ControlIsHeld
=============================================================================
