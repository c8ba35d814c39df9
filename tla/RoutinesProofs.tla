--------------------------- MODULE RoutinesProofs ---------------------------
(***************************************************************************)
(* Proofs about Routines, for any number of routines, jobs, reconcilers,   *)
(* requests and failures: an occurrence creates one run and a failure      *)
(* loses none.                                                             *)
(***************************************************************************)
EXTENDS Routines, TLAPS

\* A handler that has claimed an occurrence and may still give it back.
Holding(w) == handler[w].step \in {"enqueue", "restore"}

\* Rows that are not there have no date; as long as nobody edits it, a
\* routine is active exactly as long as it has one.
RowsFit ==
  \A r \in Routines :
    /\ row[r].stage # "live" => ~row[r].active /\ row[r].at = Never
    /\ r \notin edited /\ row[r].active => row[r].at # Never
    /\ r \notin edited /\ row[r].stage = "live" /\ row[r].at # Never => row[r].active

\* What a handler claims lies before what it computed as the next date.
SessionsFit ==
  \A w \in Workers :
    /\ ~At(w, "idle") => handler[w].at \in Nat
    /\ At(w, "claim") \/ Holding(w) =>
         handler[w].next = Never \/ handler[w].at < handler[w].next

\* A routine that does not exist yet was never claimed.
NewIsFresh ==
  \A r \in Routines : row[r].stage = "new" =>
    /\ \A x \in runs : x.routine # r
    /\ \A w \in Workers : Holding(w) => handler[w].routine # r

\* The row is at the next date of a claim that may be given back, or later.
RowIsAhead ==
  \A w \in Workers : Holding(w) /\ handler[w].routine \notin edited =>
    Its(w).at = Never \/ (handler[w].next # Never /\ handler[w].next <= Its(w).at)

\* Claims of a routine that may be given back follow one another.
Before(v, w) == handler[v].next # Never /\ handler[v].next <= handler[w].at
ClaimsFollow ==
  \A v, w \in Workers :
    v # w /\ Holding(v) /\ Holding(w) /\ handler[v].routine = handler[w].routine
    /\ handler[v].routine \notin edited => Before(v, w) \/ Before(w, v)

\* The last claim, if it may be given back, can be.
LastCanReturn ==
  \A w \in Workers :
    Holding(w) /\ handler[w].routine \notin edited
    /\ handler[w].at = claimed[handler[w].routine]
    => Its(w).at = handler[w].next /\ Its(w).stage = "live"

Steady(r) == r \notin edited \cup overtaken

\* The runs of a routine lie before its row, and around a claim that may be
\* given back.
RunsAreBehind ==
  \A x \in runs : Steady(x.routine) /\ row[x.routine].at # Never =>
    x.at < row[x.routine].at

RunsAreAround ==
  \A w \in Workers : Holding(w) /\ Steady(handler[w].routine) =>
    \A x \in runs : x.routine = handler[w].routine =>
      \/ x.at < handler[w].at
      \/ x = RunOf(w, handler[w].run)
      \/ handler[w].next # Never /\ handler[w].next <= x.at

Core == /\ RowsFit /\ SessionsFit /\ NewIsFresh /\ RowIsAhead /\ ClaimsFollow
        /\ LastCanReturn /\ RunsAreBehind /\ RunsAreAround /\ FiredOnce /\ LastIsKept
IInv == TypeOK /\ Core

-----------------------------------------------------------------------------
\* NextDate returns a date after the one given, or none.
LEMMA NextIsLater ==
  ASSUME NEW cron \in Crons \cup {Once}, NEW t \in Nat
  PROVE  /\ NextDate(cron, t) \in Time
         /\ NextDate(cron, t) = Never \/ t < NextDate(cron, t)
<1>1. CASE cron = Once BY <1>1 DEF NextDate, Time, Never
<1>2. CASE cron # Once
  <2>1. cron \in Nat /\ cron > 0 BY <1>2, RoutinesAssumption
  <2>2. t \div cron \in Nat BY <2>1
  <2>3. t = cron * (t \div cron) + (t % cron) BY <2>1
  <2>4. t % cron \in Nat /\ t % cron < cron BY <2>1
  <2> DEFINE q == t \div cron
  <2>5. (q + 1) * cron = cron * q + cron BY <2>1, <2>2
  <2>6. (q + 1) * cron \in Nat /\ t < (q + 1) * cron
    <3>1. cron * q \in Nat BY <2>1, <2>2
    <3> HIDE DEF q
    <3>2. t = cron * q + (t % cron) BY <2>3 DEF q
    <3>3. q \in Nat BY <2>2 DEF q
    <3>4. (q + 1) * cron = cron * q + cron BY <2>5
    <3> QED BY <3>1, <3>2, <3>4, <2>1, <2>4
  <2> QED BY <2>6, <1>2 DEF NextDate, Time
<1> QED BY <1>1, <1>2

\* There is a routine, so the idle slot and the idle request have a type.
LEMMA IdleTyped == Some \in Routines /\ Idle \in Handler /\ NoEdit \in Edit
<1>1. Some \in Routines BY RoutinesAssumption DEF Some
<1> QED BY <1>1 DEF Idle, Handler, Steps, NoEdit, Edit, EditSteps, Row, NewRow, Time, Never, Once

\* What a session remembers of its claim is left alone.
Same(v) ==
  /\ handler'[v].step = handler[v].step /\ handler'[v].routine = handler[v].routine
  /\ handler'[v].at = handler[v].at /\ handler'[v].next = handler[v].next
  /\ handler'[v].run = handler[v].run

-----------------------------------------------------------------------------
(* The queue's operations.                                                 *)

\* A job that loses its key is remembered otherwise unchanged.
LEMMA DisownedFacts ==
  ASSUME TypeOK, NEW r \in Routines
  PROVE  /\ Disowned(r) \in [Workers -> Handler]
         /\ \A v \in Workers :
              \/ Disowned(r)[v] = handler[v]
              \/ Disowned(r)[v] = [handler[v] EXCEPT !.owns = FALSE]
<1> USE DEF Handler
<1>1. \A v \in Workers : handler[v] \in Handler BY DEF TypeOK
<1>2. \A v \in Workers : [handler[v] EXCEPT !.owns = FALSE] \in Handler BY <1>1
<1> QED BY <1>1, <1>2 DEF Disowned

\* Publishing or cancelling a key changes no session.
LEMMA PublishFacts ==
  ASSUME TypeOK, NEW r \in Routines, NEW t \in Time, Publish(r, t)
  PROVE  /\ wake' \in [Routines -> Time] /\ handler' \in [Workers -> Handler]
         /\ \A v \in Workers : Same(v)
<1>1. \A v \in Workers : handler[v] \in Handler BY DEF TypeOK
<1>2. handler' = Disowned(r) /\ wake' = [wake EXCEPT ![r] = t] BY DEF Publish
<1>3. \A v \in Workers : Same(v)
  <2> SUFFICES ASSUME NEW v \in Workers PROVE Same(v) OBVIOUS
  <2>1. handler'[v] = handler[v] \/ handler'[v] = [handler[v] EXCEPT !.owns = FALSE]
    BY <1>2, DisownedFacts
  <2> QED BY <1>1, <2>1 DEF Same, Handler
<1> QED BY <1>2, <1>3, DisownedFacts DEF TypeOK

\* A slot that returns is idle, the others go on.
LEMMA ReturnFacts ==
  ASSUME TypeOK, NEW w \in Workers
  PROVE  /\ Return(w) \in [Workers -> Handler] /\ Return(w)[w] = Idle
         /\ \A v \in Workers \ {w} : Return(w)[v] = handler[v]
BY IdleTyped DEF TypeOK, Return

LEMMA PublishingFacts ==
  ASSUME TypeOK, NEW w \in Workers, NEW t \in Time, ReturnPublishing(w, t)
  PROVE  /\ wake' \in [Routines -> Time] /\ handler' \in [Workers -> Handler]
         /\ handler'[w] = Idle /\ \A v \in Workers \ {w} : Same(v)
<1> DEFINE r == handler[w].routine
<1>1. \A v \in Workers : handler[v] \in Handler BY DEF TypeOK
<1>2. r \in Routines BY <1>1 DEF Handler
<1>3. handler' = [Disowned(r) EXCEPT ![w] = Idle] /\ wake' = [wake EXCEPT ![r] = t]
  BY DEF ReturnPublishing
<1>4. Disowned(r) \in [Workers -> Handler] BY <1>2, DisownedFacts
<1>5. handler' \in [Workers -> Handler] /\ handler'[w] = Idle BY <1>3, <1>4, IdleTyped
<1>6. \A v \in Workers \ {w} : Same(v)
  <2> SUFFICES ASSUME NEW v \in Workers \ {w} PROVE Same(v) OBVIOUS
  <2>1. handler'[v] = Disowned(r)[v] BY <1>3, <1>4
  <2>2. handler'[v] = handler[v] \/ handler'[v] = [handler[v] EXCEPT !.owns = FALSE]
    BY <1>2, <2>1, DisownedFacts
  <2> QED BY <1>1, <2>2 DEF Same, Handler
<1> QED BY <1>2, <1>3, <1>5, <1>6 DEF TypeOK

LEMMA FailingFacts ==
  ASSUME TypeOK, NEW w \in Workers, ReturnFailing(w)
  PROVE  /\ wake' \in [Routines -> Time] /\ handler' \in [Workers -> Handler]
         /\ handler'[w] = Idle /\ \A v \in Workers \ {w} : Same(v)
<1>1. handler[w] \in Handler BY DEF TypeOK
<1>2. handler[w].routine \in Routines /\ handler[w].at \in Time BY <1>1 DEF Handler
<1>3. wake' \in [Routines -> Time] BY <1>2 DEF TypeOK, ReturnFailing
<1>4. handler' = Return(w) BY DEF ReturnFailing
<1> QED BY <1>3, <1>4, ReturnFacts DEF Same

-----------------------------------------------------------------------------
(* Types.                                                                  *)

\* A page names rows that have a date, and the place it ends at.
LEMMA PageTyped ==
  ASSUME TypeOK, NEW p \in Reconcilers
  PROVE  /\ {<<r, row[r].at>> : r \in Page(p)} \in SUBSET (Routines \X Nat)
         /\ NextCursors(p) \subseteq [at : Time, id : Nat]
<1>1. \A r \in Routines : row[r] \in Row BY DEF TypeOK
<1>2. Page(p) \subseteq Routines BY DEF Page, Due
<1>3. \A r \in Page(p) : row[r].at \in Nat
  BY <1>1, <1>2 DEF Page, Due, Row, Time
<1>4. \A r \in Page(p) : Place(r) \in [at : Time, id : Nat]
  BY <1>2, <1>3, RoutinesAssumption DEF Place, Time
<1>5. Start \in [at : Time, id : Nat] BY DEF Start, Time
<1> QED BY <1>2, <1>3, <1>4, <1>5 DEF NextCursors

LEMMA ProgressTyped ==
  ASSUME TypeOK, NEW p \in Reconcilers, NEW leads \in BOOLEAN,
         NEW todo \in SUBSET (Routines \X Nat), NEW last \in [at : Time, id : Nat],
         Progress(p, leads, todo, last)
  PROVE  reconciler' \in [Reconcilers -> Reconciler]
<1>1. reconciler[p] \in Reconciler BY DEF TypeOK
<1>2. Start \in [at : Time, id : Nat] BY DEF Start, Time
<1>3. [leads |-> leads, todo |-> {}, cursor |-> last, last |-> Start] \in Reconciler
  BY <1>2 DEF Reconciler
<1>4. [leads |-> leads, todo |-> todo, cursor |-> reconciler[p].cursor, last |-> last] \in Reconciler
  BY <1>1 DEF Reconciler
<1> QED BY <1>3, <1>4 DEF Progress, TypeOK

LEMMA InitTyped == Init => TypeOK
<1> SUFFICES ASSUME Init PROVE TypeOK OBVIOUS
<1> USE DEF Time, Never, Once
<1>1. NewRow \in Row /\ GoneRow \in Row BY DEF Row, NewRow, GoneRow
<1>2. \A c \in Crons \cup {Once} :
        [stage |-> "live", active |-> TRUE, cron |-> c, at |-> 0] \in Row BY DEF Row
<1>3. row \in [Routines -> Row] /\ edits \in Nat /\ faults \in Nat
  <2>1. PICK i \in Instances :
          /\ row \in [Routines -> {NewRow, GoneRow} \cup
               {[stage |-> "live", active |-> TRUE, cron |-> c, at |-> 0] :
                  c \in Crons \cup {Once}}]
          /\ edits = i.edits /\ faults = i.faults BY DEF Init
  <2>2. i.edits \in Nat /\ i.faults \in Nat BY RoutinesAssumption
  <2> QED BY <1>1, <1>2, <2>1, <2>2
<1>4. \A r \in Routines : row[r].at \in Time BY <1>3 DEF Row
<1>5. wake \in [Routines -> Time] BY <1>4 DEF Init
<1>6. Follower \in Reconciler BY DEF Follower, Reconciler, Start
<1>7. handler \in [Workers -> Handler] /\ edit \in Edit BY IdleTyped DEF Init
<1> QED BY <1>3, <1>5, <1>6, <1>7 DEF Init, TypeOK

\* The steps of a handler keep the types.
LEMMA HandlerTyped ==
  ASSUME TypeOK, NEW w \in Workers, HandlerStep(w)
  PROVE  TypeOK'
<1> USE DEF rows, history
<1>1. /\ handler[w] \in Handler /\ Its(w) \in Row
      /\ handler[w].routine \in Routines /\ handler[w].at \in Time
      /\ handler[w].next \in Time /\ handler[w].run \in Nat
  BY DEF TypeOK, Handler, Its
<1>2. ASSUME NEW r \in Routines, TakeWake(w, r) PROVE TypeOK'
  <2> DEFINE h == [Idle EXCEPT !.step = "read", !.routine = r, !.at = wake[r], !.owns = TRUE]
  <2>1. h \in Handler BY IdleTyped DEF TypeOK, Handler, Steps
  <2>2. handler' = [handler EXCEPT ![w] = h] /\ wake' = [wake EXCEPT ![r] = Never]
    BY <1>2 DEF TakeWake
  <2> QED BY <1>2, <2>1, <2>2 DEF TypeOK, TakeWake, Time
<1>3. CASE ReadRoutine(w)
  <2> DEFINE h == [handler[w] EXCEPT !.step = "claim", !.next = NextDate(Its(w).cron, now)]
  <2>1. NextDate(Its(w).cron, now) \in Time BY <1>1, NextIsLater DEF TypeOK, Row
  <2>2. h \in Handler BY <1>1, <2>1 DEF Handler, Steps
  <2>3. handler' = [handler EXCEPT ![w] = h] BY <1>3 DEF ReadRoutine
  <2> QED BY <1>3, <2>2, <2>3 DEF TypeOK, ReadRoutine
<1>4. CASE SkipWake(w) \/ LoseClaim(w)
  BY <1>4, ReturnFacts DEF TypeOK, SkipWake, LoseClaim
<1>5. CASE DeferWake(w)
  BY <1>1, <1>5, PublishingFacts DEF TypeOK, DeferWake
<1>6. CASE ClaimWake(w)
  <2> DEFINE r == handler[w].routine
             h == [handler[w] EXCEPT !.step = "enqueue", !.run = made[r]]
             y == [Its(w) EXCEPT !.at = handler[w].next,
                                 !.active = @ /\ handler[w].next # Never]
  <2>1. made[r] \in Nat BY <1>1 DEF TypeOK
  <2>2. h \in Handler BY <1>1, <2>1 DEF Handler, Steps
  <2>3. y.active \in BOOLEAN /\ y \in Row BY <1>1 DEF Row
  <2>4. RunOf(w, made[r]) \in Run BY <1>1, <2>1 DEF Run, RunOf
  <2>5. row' = [row EXCEPT ![r] = y] /\ handler' = [handler EXCEPT ![w] = h]
        /\ made' = [made EXCEPT ![r] = @ + 1]
        /\ claimed' = [claimed EXCEPT ![r] = handler[w].at]
        /\ runs' = runs \cup {RunOf(w, made[r])}
    BY <1>6 DEF ClaimWake
  <2> HIDE DEF h, y, r
  <2>6. r \in Routines BY <1>1 DEF r
  <2>7. row' \in [Routines -> Row] /\ handler' \in [Workers -> Handler]
        /\ made' \in [Routines -> Nat]
    BY <2>1, <2>2, <2>3, <2>5, <2>6 DEF TypeOK
  <2>8. claimed' \in [Routines -> Time] /\ runs' \in SUBSET Run
    BY <1>1, <2>4, <2>5, <2>6 DEF TypeOK
  <2> QED BY <1>6, <2>7, <2>8 DEF TypeOK, ClaimWake
<1>7. CASE EnqueueRun(w)
  <2> DEFINE h == [handler[w] EXCEPT !.step = "rearm", !.run = 0]
  <2>1. h \in Handler BY <1>1 DEF Handler, Steps
  <2>2. handler' = [handler EXCEPT ![w] = h] BY <1>7 DEF EnqueueRun
  <2> QED BY <1>7, <2>1, <2>2 DEF TypeOK, EnqueueRun
<1>8. CASE RestoreClaim(w)
  <2>1. Restored(w) \in Row BY <1>1 DEF Restored, Row
  <2>2. row' \in [Routines -> Row] BY <1>8, <2>1 DEF RestoreClaim, RestoredRow, TypeOK
  <2>3. wake' \in [Routines -> Time] /\ handler' \in [Workers -> Handler]
    BY <1>8, FailingFacts DEF RestoreClaim
  <2>4. runs' \in SUBSET Run /\ overtaken' \in SUBSET Routines
    BY <1>1, <1>8 DEF RestoreClaim, TypeOK
  <2> QED BY <1>8, <2>2, <2>3, <2>4 DEF TypeOK, RestoreClaim
<1>9. CASE RearmWake(w)
  BY <1>1, <1>9, PublishingFacts DEF TypeOK, RearmWake
<1> QED BY <1>2, <1>3, <1>4, <1>5, <1>6, <1>7, <1>8, <1>9 DEF HandlerStep

\* So do the requests that edit routines.
LEMMA EditTyped ==
  ASSUME TypeOK, EditStep
  PROVE  TypeOK'
<1> USE DEF rows, history
<1>1. /\ edit \in Edit /\ edit.routine \in Routines /\ edit.at \in Time
      /\ edit.active \in {"keep", "on", "off"} /\ edit.cron \in Crons \cup {Once, Never}
      /\ edit.seen \in Row
  BY DEF TypeOK, Edit
<1>2. ASSUME NEW r \in Routines, CreateRoutine(r) PROVE TypeOK'
  <2>1. PICK tool \in BOOLEAN, cron \in Crons \cup {Once}, t \in now + 1 .. now + 2 :
          /\ row' = [row EXCEPT ![r] =
               [stage |-> "live", active |-> TRUE, cron |-> cron, at |-> t]]
          /\ edit' = [NoEdit EXCEPT !.step = "publish", !.routine = r, !.tool = tool, !.at = t]
    BY <1>2 DEF CreateRoutine
  <2>2. t \in Time /\ edits' \in Nat BY <1>2 DEF TypeOK, Time, CreateRoutine, Begins
  <2>3. [stage |-> "live", active |-> TRUE, cron |-> cron, at |-> t] \in Row BY <2>2 DEF Row
  <2>4. edit' \in Edit BY <2>1, <2>2, IdleTyped DEF Edit, EditSteps
  <2> QED BY <1>2, <2>1, <2>2, <2>3, <2>4 DEF TypeOK, CreateRoutine
<1>3. ASSUME NEW r \in Routines, ReadForUpdate(r) PROVE TypeOK'
  <2>1. row[r] \in Row BY DEF TypeOK
  <2>2. PICK active \in {"keep", "on", "off"}, cron \in Crons \cup {Once, Never} :
          edit' = [NoEdit EXCEPT !.step = "write", !.routine = r, !.seen = row[r],
            !.active = active, !.cron = cron, !.at = UpdatedAt(row[r], active, cron)]
    BY <1>3 DEF ReadForUpdate
  <2>3. Cron(row[r], cron) \in Crons \cup {Once} BY <2>1 DEF Cron, Row
  <2>4. NextDate(Cron(row[r], cron), now) \in Time BY <2>3, NextIsLater DEF TypeOK
  <2>5. UpdatedAt(row[r], active, cron) \in Time BY <2>1, <2>4 DEF UpdatedAt, Row, Time
  <2>6. edit' \in Edit BY <2>1, <2>2, <2>5, IdleTyped DEF Edit, EditSteps
  <2>7. edits' \in Nat BY <1>3 DEF TypeOK, ReadForUpdate, Begins
  <2> QED BY <1>3, <2>6, <2>7 DEF TypeOK, ReadForUpdate
<1>4. ASSUME NEW r \in Routines, RemoveRoutine(r) PROVE TypeOK'
  <2>1. GoneRow \in Row BY DEF GoneRow, NewRow, Row, Time, Never, Once
  <2>2. edit' \in Edit BY <1>4, IdleTyped DEF RemoveRoutine, Edit, EditSteps
  <2>3. edits' \in Nat BY <1>4 DEF TypeOK, RemoveRoutine, Begins
  <2> QED BY <1>4, <2>1, <2>2, <2>3 DEF TypeOK, RemoveRoutine, Touched
<1>5. CASE UpdateRow
  <2>1. row[edit.routine] \in Row BY <1>1 DEF TypeOK
  <2>2. Active(row[edit.routine], edit.active) \in BOOLEAN BY <1>1, <2>1 DEF Active, Row
  <2>3. Cron(row[edit.routine], edit.cron) \in Crons \cup {Once} BY <1>1, <2>1 DEF Cron, Row
  <2>4. Updated(edit) \in Row BY <1>1, <2>1, <2>2, <2>3 DEF Updated, Row
  <2> DEFINE b == ~Updated(edit).active
             e == [edit EXCEPT !.step = "publish", !.cancels = b]
  <2>5. b \in BOOLEAN OBVIOUS
  <2> HIDE DEF b
  <2>6. e \in Edit BY <1>1, <2>5 DEF Edit, EditSteps
  <2>7. edit' = e \/ edit' = NoEdit BY <1>5 DEF UpdateRow, b
  <2>8. edit' \in Edit BY <2>6, <2>7, IdleTyped
  <2>9. row' \in [Routines -> Row] BY <1>5, <2>4 DEF UpdateRow, TypeOK
  <2> QED BY <1>1, <1>5, <2>8, <2>9 DEF TypeOK, UpdateRow, Touched
<1>6. CASE PublishEdit
  <2>1. PICK t \in Time : Publish(edit.routine, t)
    BY <1>1, <1>6 DEF PublishEdit, Cancel, Time
  <2> QED BY <1>1, <1>6, <2>1, PublishFacts, IdleTyped DEF TypeOK, PublishEdit
<1>7. CASE UndoCreate
  <2>1. GoneRow \in Row BY DEF GoneRow, NewRow, Row, Time, Never, Once
  <2> QED BY <1>1, <1>7, <2>1, IdleTyped DEF TypeOK, UndoCreate, Touched
<1> QED BY <1>2, <1>3, <1>4, <1>5, <1>6, <1>7 DEF EditStep

\* The reconciler.
LEMMA ReconcilerTyped ==
  ASSUME TypeOK, NEW p \in Reconcilers, ReconcilerStep(p)
  PROVE  TypeOK'
<1> USE DEF rows, history
<1>1. reconciler[p] \in Reconciler BY DEF TypeOK
<1>2. CASE Scan(p)
  <2> DEFINE todo == {<<r, row[r].at>> : r \in Page(p)}
  <2>1. PICK last \in NextCursors(p) : Progress(p, TRUE, todo, last) BY <1>2 DEF Scan
  <2>2. todo \in SUBSET (Routines \X Nat) /\ last \in [at : Time, id : Nat]
    BY <2>1, PageTyped
  <2> HIDE DEF todo
  <2>3. reconciler' \in [Reconcilers -> Reconciler] BY <2>1, <2>2, ProgressTyped
  <2> QED BY <1>2, <2>3 DEF TypeOK, Scan
<1>3. CASE PublishWake(p)
  <2>1. PICK job \in reconciler[p].todo :
          /\ Publish(job[1], job[2])
          /\ Progress(p, reconciler[p].leads, reconciler[p].todo \ {job}, reconciler[p].last)
    BY <1>3 DEF PublishWake
  <2>2. job[1] \in Routines /\ job[2] \in Time BY <1>1, <2>1 DEF Reconciler, Time
  <2>3. wake' \in [Routines -> Time] /\ handler' \in [Workers -> Handler]
    BY <2>1, <2>2, PublishFacts
  <2>4. /\ reconciler[p].leads \in BOOLEAN
        /\ reconciler[p].todo \ {job} \in SUBSET (Routines \X Nat)
        /\ reconciler[p].last \in [at : Time, id : Nat]
    BY <1>1 DEF Reconciler
  <2>5. reconciler' \in [Reconcilers -> Reconciler] BY <2>1, <2>4, ProgressTyped
  <2> QED BY <1>3, <2>3, <2>5 DEF TypeOK, PublishWake
<1>4. CASE NoticeLoss(p)
  <2>1. [reconciler[p] EXCEPT !.leads = FALSE] \in Reconciler BY <1>1 DEF Reconciler
  <2> QED BY <1>4, <2>1 DEF TypeOK, NoticeLoss
<1> QED BY <1>2, <1>3, <1>4 DEF ReconcilerStep

\* And the failures.
LEMMA FailsTyped ==
  ASSUME TypeOK, Fails
  PROVE  TypeOK'
<1> USE DEF rows, history, Fault
<1>1. ASSUME NEW w \in Workers, EnqueueRunFails(w) PROVE TypeOK'
  <2>1. [handler[w] EXCEPT !.step = "restore"] \in Handler BY DEF TypeOK, Handler, Steps
  <2> QED BY <1>1, <2>1 DEF TypeOK, EnqueueRunFails
<1>2. ASSUME NEW w \in Workers, RearmFails(w) PROVE TypeOK'
  <2>1. handler' \in [Workers -> Handler] /\ wake' \in [Routines -> Time]
    BY <1>2, FailingFacts, ReturnFacts DEF RearmFails, TypeOK
  <2>2. faults' \in Nat BY <1>2 DEF RearmFails, TypeOK
  <2> QED BY <1>2, <2>1, <2>2 DEF TypeOK, RearmFails
<1>3. ASSUME NEW w \in Workers, Crash(w) PROVE TypeOK'
  <2>1. handler' \in [Workers -> Handler] /\ wake' \in [Routines -> Time]
    BY <1>3, FailingFacts DEF Crash
  <2> QED BY <1>3, <2>1 DEF TypeOK, Crash
<1>4. CASE PublishEditFails
  <2>1. [edit EXCEPT !.step = "undo"] \in Edit BY DEF TypeOK, Edit, EditSteps
  <2> QED BY <1>4, <2>1, IdleTyped DEF TypeOK, PublishEditFails
<1>5. ASSUME NEW p \in Reconcilers, ScanFails(p) \/ LoseSession(p) \/ RestartReconciler(p)
      PROVE TypeOK'
  <2>1. Start \in [at : Time, id : Nat] /\ Follower \in Reconciler
    BY DEF Start, Time, Follower, Reconciler
  <2>2. [reconciler[p] EXCEPT !.todo = {}, !.last = Start] \in Reconciler
    BY <2>1 DEF TypeOK, Reconciler
  <2> QED BY <1>5, <2>1, <2>2 DEF TypeOK, ScanFails, LoseSession, RestartReconciler
<1> QED BY <1>1, <1>2, <1>3, <1>4, <1>5 DEF Fails

LEMMA TypesKept == TypeOK /\ [Next]_vars => TypeOK'
<1> SUFFICES ASSUME TypeOK, [Next]_vars PROVE TypeOK' OBVIOUS
<1>1. CASE Tick BY <1>1 DEF Tick, TypeOK, rows, history
<1>2. CASE UNCHANGED vars BY <1>2 DEF TypeOK, vars, rows, history
<1> QED BY <1>1, <1>2, HandlerTyped, EditTyped, ReconcilerTyped, FailsTyped DEF Next

\* Every variable keeps its type.
THEOREM RoutinesTypeCorrect == Spec => []TypeOK
BY InitTyped, TypesKept, PTL DEF Spec

-----------------------------------------------------------------------------
(* The invariant.                                                          *)

\* What TypeOK says of the parts that the invariant compares.
LEMMA Types ==
  ASSUME TypeOK
  PROVE  /\ \A r \in Routines : row[r].at \in Time /\ row[r].active \in BOOLEAN
                                /\ claimed[r] \in Time
         /\ \A w \in Workers : handler[w].at \in Time /\ handler[w].next \in Time
                               /\ handler[w].routine \in Routines
         /\ \A x \in runs : x.at \in Time /\ x.routine \in Routines
BY DEF TypeOK, Row, Handler, Run

LEMMA InitCore == Init => Core
<1> SUFFICES ASSUME Init PROVE Core OBVIOUS
<1>1. runs = {} /\ claimed = [r \in Routines |-> Never] BY DEF Init
<1>2. \A w \in Workers : At(w, "idle") BY DEF Init, At, Idle
<1>3. \A w \in Workers : ~Holding(w) /\ ~At(w, "claim") BY <1>2 DEF At, Holding
<1>4. \A r \in Routines : row[r] \in {NewRow, GoneRow} \cup
            {[stage |-> "live", active |-> TRUE, cron |-> c, at |-> 0] :
               c \in Crons \cup {Once}}
  BY DEF Init
<1>5. RowsFit
  <2> SUFFICES ASSUME NEW r \in Routines
      PROVE /\ row[r].stage # "live" => ~row[r].active /\ row[r].at = Never
            /\ row[r].active => row[r].at # Never
            /\ row[r].stage = "live" /\ row[r].at # Never => row[r].active
    BY DEF RowsFit
  <2> QED BY <1>4 DEF NewRow, GoneRow, Never
<1>6. SessionsFit BY <1>2, <1>3 DEF SessionsFit
<1>7. NewIsFresh /\ RowIsAhead /\ ClaimsFollow /\ LastCanReturn
  BY <1>1, <1>3 DEF NewIsFresh, RowIsAhead, ClaimsFollow, LastCanReturn
<1>8. RunsAreBehind /\ RunsAreAround /\ FiredOnce BY <1>1 DEF RunsAreBehind, RunsAreAround, FiredOnce
<1>9. LastIsKept BY <1>1 DEF LastIsKept
<1> QED BY <1>5, <1>6, <1>7, <1>8, <1>9 DEF Core

\* A claim that may be given back is as it was.
Holds(v) == /\ Holding(v) /\ handler'[v].routine = handler[v].routine
            /\ handler'[v].at = handler[v].at /\ handler'[v].next = handler[v].next
            /\ handler'[v].run = handler[v].run

\* Steps that leave the rows and the runs alone, and claim nothing.
LEMMA CoreStands ==
  ASSUME TypeOK, Core, UNCHANGED <<row, runs, claimed, edited, overtaken>>,
         \A v \in Workers : Holding(v)' => Holds(v), SessionsFit'
  PROVE  Core'
<1> USE DEF Core, Holds
<1>1. RowsFit' BY DEF RowsFit
<1>2. NewIsFresh' BY DEF NewIsFresh
<1>3. RowIsAhead' BY DEF RowIsAhead, Its
<1>4. ClaimsFollow' BY DEF ClaimsFollow, Before
<1>5. LastCanReturn' BY DEF LastCanReturn, Its
<1>6. RunsAreBehind' /\ FiredOnce' /\ LastIsKept' BY DEF RunsAreBehind, Steady, FiredOnce, LastIsKept
<1>7. RunsAreAround' BY DEF RunsAreAround, Steady, RunOf
<1> QED BY <1>1, <1>2, <1>3, <1>4, <1>5, <1>6, <1>7

\* A session whose claim fits.
Fits(v) ==
  /\ ~At(v, "idle") => handler[v].at \in Nat
  /\ At(v, "claim") \/ Holding(v) =>
       handler[v].next = Never \/ handler[v].at < handler[v].next

LEMMA SameStands ==
  ASSUME SessionsFit, NEW v \in Workers, Same(v)
  PROVE  Fits(v)' /\ (Holding(v)' => Holds(v))
BY DEF SessionsFit, Fits, Same, Holds, Holding, At

LEMMA NoneMoves ==
  ASSUME TypeOK, Core, UNCHANGED <<row, runs, claimed, edited, overtaken>>,
         \A v \in Workers : Same(v)
  PROVE  Core'
<1>1. \A v \in Workers : Fits(v)' /\ (Holding(v)' => Holds(v)) BY SameStands DEF Core
<1>2. SessionsFit' BY <1>1 DEF SessionsFit, Fits
<1> QED BY <1>1, <1>2, CoreStands

LEMMA OneMoves ==
  ASSUME TypeOK, Core, UNCHANGED <<row, runs, claimed, edited, overtaken>>,
         NEW w \in Workers, \A v \in Workers \ {w} : Same(v),
         Fits(w)', Holding(w)' => Holds(w)
  PROVE  Core'
<1>1. \A v \in Workers : Fits(v)' /\ (Holding(v)' => Holds(v))
  <2> SUFFICES ASSUME NEW v \in Workers PROVE Fits(v)' /\ (Holding(v)' => Holds(v)) OBVIOUS
  <2>1. CASE v = w BY <2>1
  <2>2. CASE v # w BY <2>2, SameStands DEF Core
  <2> QED BY <2>1, <2>2
<1>2. SessionsFit' BY <1>1 DEF SessionsFit, Fits
<1> QED BY <1>1, <1>2, CoreStands

\* A slot that returns.
LEMMA OneReturns ==
  ASSUME TypeOK, Core, UNCHANGED <<row, runs, claimed, edited, overtaken>>,
         NEW w \in Workers, \A v \in Workers \ {w} : Same(v), handler'[w] = Idle
  PROVE  Core'
<1>1. handler'[w].step = "idle" BY DEF Idle
<1>2. Fits(w)' /\ ~Holding(w)' BY <1>1 DEF Fits, Holding, At
<1> QED BY <1>2, OneMoves

\* A request that writes a row makes its routine an edited one.
LEMMA RowTouched ==
  ASSUME TypeOK, Core, NEW r \in Routines, NEW y \in Row,
         row' = [row EXCEPT ![r] = y], y.stage # "new",
         y.stage # "live" => ~y.active /\ y.at = Never,
         Touched(r), UNCHANGED <<handler, runs, claimed, overtaken>>
  PROVE  Core'
<1> USE DEF Core
<1>1. /\ row'[r] = y /\ \A q \in Routines \ {r} : row'[q] = row[q]
      /\ r \in edited' /\ edited \subseteq edited'
      /\ \A q \in Routines \ {r} : q \in edited' <=> q \in edited
  BY DEF TypeOK, Touched
<1>2. \A w \in Workers : handler[w].routine \in Routines BY Types
<1>3. \A x \in runs : x.routine \in Routines BY Types
<1>4. RowsFit' BY <1>1 DEF RowsFit
<1>5. SessionsFit' BY DEF SessionsFit, At, Holding
<1>6. NewIsFresh' BY <1>1 DEF NewIsFresh, Holding
<1>7. RowIsAhead' /\ LastCanReturn' BY <1>1, <1>2 DEF RowIsAhead, LastCanReturn, Its, Holding
<1>8. ClaimsFollow' BY <1>1, <1>2 DEF ClaimsFollow, Before, Holding
<1>9. RunsAreBehind' /\ FiredOnce' BY <1>1, <1>3 DEF RunsAreBehind, Steady, FiredOnce
<1>10. RunsAreAround' BY <1>1, <1>2 DEF RunsAreAround, Steady, RunOf, Holding
<1>11. LastIsKept' BY <1>1 DEF LastIsKept
<1> QED BY <1>4, <1>5, <1>6, <1>7, <1>8, <1>9, <1>10, <1>11

\* A claim: all runs of the routine and all claims that may be given back lie
\* before it.
LEMMA ClaimKeeps ==
  ASSUME TypeOK, Core, NEW w \in Workers, ClaimWake(w)
  PROVE  Core'
<1> DEFINE r == handler[w].routine  t == handler[w].at  n == handler[w].next
           x0 == RunOf(w, made[handler[w].routine])
<1> USE DEF Core
<1>1. /\ r \in Routines /\ t \in Nat /\ n \in Time /\ (n = Never \/ t < n)
      /\ row[r].active /\ row[r].at = t /\ row[r].stage = "live"
  <2>1. At(w, "claim") /\ Its(w).active /\ Its(w).at = t BY DEF ClaimWake, Claims
  <2>2. t \in Nat BY <2>1 DEF SessionsFit, At
  <2> QED BY <2>1, <2>2, Types DEF SessionsFit, RowsFit, Its
<1>2. /\ row'[r].at = n /\ row'[r].active = (n # Never) /\ row'[r].stage = "live"
      /\ \A q \in Routines \ {r} : row'[q] = row[q]
      /\ claimed'[r] = t /\ \A q \in Routines \ {r} : claimed'[q] = claimed[q]
  <2> DEFINE y == [Its(w) EXCEPT !.at = n, !.active = @ /\ n # Never]
  <2>1. row[r] \in Row /\ Its(w) = row[r] BY <1>1 DEF TypeOK, Its
  <2>2. y.at = n /\ y.active = (n # Never) /\ y.stage = "live" BY <1>1, <2>1 DEF Row
  <2>3. row' = [row EXCEPT ![r] = y] BY DEF ClaimWake
  <2> HIDE DEF y
  <2>4. claimed' = [claimed EXCEPT ![r] = t] BY DEF ClaimWake
  <2> QED BY <1>1, <2>2, <2>3, <2>4 DEF TypeOK
<1>3. /\ handler'[w].step = "enqueue" /\ handler'[w].routine = r /\ handler'[w].at = t
      /\ handler'[w].next = n /\ handler'[w].run = made[r]
      /\ \A v \in Workers \ {w} : handler'[v] = handler[v]
  <2>1. handler[w] \in Handler BY DEF TypeOK
  <2>2. handler' = [handler EXCEPT ![w] =
          [handler[w] EXCEPT !.step = "enqueue", !.run = made[r]]] BY DEF ClaimWake
  <2> QED BY <2>1, <2>2 DEF TypeOK, Handler
<1>4. /\ runs' = runs \cup {x0} /\ x0.routine = r /\ x0.at = t
      /\ x0 = [id |-> made[r], routine |-> r, at |-> t]
      /\ UNCHANGED <<edited, overtaken>>
  BY DEF ClaimWake, RunOf
<1> HIDE DEF x0, r, t, n
<1>5. Holding(w)' /\ ~At(w, "idle")' /\ ~At(w, "claim")'
  /\ \A v \in Workers \ {w} : (Holding(v)' <=> Holding(v)) /\ (At(v, "idle")' <=> At(v, "idle"))
                              /\ (At(v, "claim")' <=> At(v, "claim"))
  BY <1>3 DEF Holding, At
\* What else may be given back lies before.
<1>6. \A v \in Workers \ {w} : Holding(v) /\ handler[v].routine = r /\ r \notin edited =>
        /\ handler[v].next # Never /\ handler[v].next <= t /\ handler[v].at < t
  <2> SUFFICES ASSUME NEW v \in Workers \ {w}, Holding(v), handler[v].routine = r, r \notin edited
      PROVE handler[v].next # Never /\ handler[v].next <= t /\ handler[v].at < t OBVIOUS
  <2>1. handler[v].next # Never /\ handler[v].next <= t
    BY <1>1 DEF RowIsAhead, Its, Never
  <2>2. handler[v].at \in Time /\ handler[v].next \in Time BY Types
  <2>3. handler[v].at < handler[v].next BY <2>1 DEF SessionsFit
  <2> QED BY <1>1, <2>1, <2>2, <2>3 DEF Time, Never
\* And so do all runs.
<1>7. Steady(r) => \A x \in runs : x.routine = r => x.at < t
  BY <1>1 DEF RunsAreBehind, Never
<1>8. RowsFit'
  <2> SUFFICES ASSUME NEW q \in Routines
      PROVE /\ row'[q].stage # "live" => ~row'[q].active /\ row'[q].at = Never
            /\ q \notin edited /\ row'[q].active => row'[q].at # Never
            /\ q \notin edited /\ row'[q].stage = "live" /\ row'[q].at # Never => row'[q].active
    BY <1>4 DEF RowsFit
  <2>1. CASE q = r BY <1>2, <2>1
  <2>2. CASE q # r BY <1>2, <2>2 DEF RowsFit
  <2> QED BY <2>1, <2>2
<1>9. SessionsFit'
  <2> SUFFICES ASSUME NEW v \in Workers PROVE Fits(v)' BY DEF SessionsFit, Fits
  <2>1. CASE v = w BY <1>1, <1>3, <2>1 DEF Fits
  <2>2. CASE v # w BY <1>3, <1>5, <2>2 DEF SessionsFit, Fits
  <2> QED BY <2>1, <2>2
<1>10. NewIsFresh'
  <2> SUFFICES ASSUME NEW q \in Routines, row'[q].stage = "new"
      PROVE /\ \A x \in runs' : x.routine # q
            /\ \A v \in Workers : Holding(v)' => handler'[v].routine # q
    BY DEF NewIsFresh
  <2>1. q # r BY <1>2
  <2>2. row[q].stage = "new" BY <1>2, <2>1
  <2> QED BY <1>3, <1>4, <1>5, <2>1, <2>2 DEF NewIsFresh
<1>11. RowIsAhead'
  <2> SUFFICES ASSUME NEW v \in Workers, Holding(v)', handler'[v].routine \notin edited
      PROVE LET q == handler'[v].routine IN
            row'[q].at = Never \/ (handler'[v].next # Never /\ handler'[v].next <= row'[q].at)
    BY <1>4 DEF RowIsAhead, Its
  <2>1. CASE v = w BY <1>1, <1>2, <1>3, <2>1 DEF Time, Never
  <2>2. CASE v # w /\ handler[v].routine = r
    <3>1. handler[v].next # Never /\ handler[v].next <= t /\ handler[v].next \in Time
      BY <1>3, <1>5, <1>6, <2>2, Types
    <3> QED BY <1>1, <1>2, <1>3, <2>2, <3>1 DEF Time, Never
  <2>3. CASE v # w /\ handler[v].routine # r
    BY <1>2, <1>3, <1>5, <2>3, Types DEF RowIsAhead, Its
  <2> QED BY <2>1, <2>2, <2>3
<1>12. ClaimsFollow'
  <2> SUFFICES ASSUME NEW u \in Workers, NEW v \in Workers, u # v, Holding(u)', Holding(v)',
                      handler'[u].routine = handler'[v].routine, handler'[u].routine \notin edited
      PROVE Before(u, v)' \/ Before(v, u)'
    BY <1>4 DEF ClaimsFollow
  <2>1. CASE u = w BY <1>3, <1>5, <1>6, <2>1 DEF Before
  <2>2. CASE v = w BY <1>3, <1>5, <1>6, <2>2 DEF Before
  <2>3. CASE u # w /\ v # w BY <1>3, <1>5, <2>3 DEF ClaimsFollow, Before
  <2> QED BY <2>1, <2>2, <2>3
<1>13. LastCanReturn'
  <2> SUFFICES ASSUME NEW v \in Workers, Holding(v)', handler'[v].routine \notin edited,
                      handler'[v].at = claimed'[handler'[v].routine]
      PROVE row'[handler'[v].routine].at = handler'[v].next
            /\ row'[handler'[v].routine].stage = "live"
    BY <1>4 DEF LastCanReturn, Its
  <2>1. CASE v = w BY <1>2, <1>3, <2>1
  <2>2. CASE v # w /\ handler[v].routine = r
    BY <1>1, <1>2, <1>3, <1>5, <1>6, <2>2
  <2>3. CASE v # w /\ handler[v].routine # r
    BY <1>2, <1>3, <1>5, <2>3, Types DEF LastCanReturn, Its
  <2> QED BY <2>1, <2>2, <2>3
<1>14. RunsAreBehind'
  <2> SUFFICES ASSUME NEW x \in runs', Steady(x.routine), row'[x.routine].at # Never
      PROVE x.at < row'[x.routine].at
    BY <1>4 DEF RunsAreBehind, Steady
  <2>1. CASE x = x0 BY <1>1, <1>2, <1>4, <2>1
  <2>2. CASE x \in runs /\ x.routine = r
    <3>1. x.at < t /\ x.at \in Time BY <1>7, <2>2, Types
    <3> QED BY <1>1, <1>2, <2>2, <3>1 DEF Time, Never
  <2>3. CASE x \in runs /\ x.routine # r BY <1>2, <2>3, Types DEF RunsAreBehind
  <2> QED BY <1>4, <2>1, <2>2, <2>3
<1>15. RunsAreAround'
  <2> SUFFICES ASSUME NEW v \in Workers, Holding(v)', Steady(handler'[v].routine),
                      NEW x \in runs', x.routine = handler'[v].routine
      PROVE \/ x.at < handler'[v].at \/ x = RunOf(v, handler[v].run)'
            \/ handler'[v].next # Never /\ handler'[v].next <= x.at
    BY <1>4 DEF RunsAreAround, Steady
  <2>1. CASE v = w BY <1>3, <1>4, <1>7, <2>1 DEF RunOf
  <2>2. CASE v # w /\ x = x0 BY <1>3, <1>4, <1>5, <1>6, <2>2 DEF Steady
  <2>3. CASE v # w /\ x \in runs BY <1>3, <1>5, <2>3 DEF RunsAreAround, RunOf
  <2> QED BY <1>4, <2>1, <2>2, <2>3
<1>16. FiredOnce'
  <2> SUFFICES ASSUME NEW x \in runs', NEW y \in runs', x.routine = y.routine, x.at = y.at,
                      Steady(x.routine)
      PROVE x = y
    BY <1>4 DEF FiredOnce, Steady
  <2>1. CASE x = x0 /\ y \in runs BY <1>1, <1>4, <1>7, <2>1
  <2>2. CASE y = x0 /\ x \in runs BY <1>1, <1>4, <1>7, <2>2
  <2>3. CASE x \in runs /\ y \in runs BY <2>3 DEF FiredOnce, Steady
  <2> QED BY <1>4, <2>1, <2>2, <2>3
<1>17. LastIsKept'
  <2> SUFFICES ASSUME NEW q \in Routines \ edited
      PROVE \/ claimed'[q] = Never
            \/ \E x \in runs' : x.routine = q /\ x.at = claimed'[q]
            \/ row'[q].active /\ row'[q].at <= claimed'[q]
    BY <1>4 DEF LastIsKept
  <2>1. CASE q = r BY <1>2, <1>4, <2>1
  <2>2. CASE q # r BY <1>2, <1>4, <2>2 DEF LastIsKept
  <2> QED BY <2>1, <2>2
<1> QED BY <1>8, <1>9, <1>10, <1>11, <1>12, <1>13, <1>14, <1>15, <1>16, <1>17

\* Undoing a claim.  The row goes back only if it still is where this claim
\* put it, so no other claim of it lies in between.
LEMMA RestoreKeeps ==
  ASSUME TypeOK, Core, NEW w \in Workers, RestoreClaim(w)
  PROVE  Core'
<1> DEFINE r == handler[w].routine  t == handler[w].at  n == handler[w].next
           x0 == RunOf(w, handler[w].run)
<1> USE DEF Core
<1>1. Holding(w) /\ r \in Routines /\ t \in Nat /\ n \in Time /\ (n = Never \/ t < n)
  <2>1. At(w, "restore") BY DEF RestoreClaim
  <2>2. Holding(w) /\ ~At(w, "idle") BY <2>1 DEF At, Holding
  <2> QED BY <2>2, Types DEF SessionsFit
<1>2. /\ runs' \subseteq runs /\ \A x \in runs : x \notin runs' => x = x0
      /\ overtaken \subseteq overtaken'
      /\ x0 \in runs' => r \in overtaken'
      /\ x0.routine = r /\ x0.at = t /\ UNCHANGED <<edited, claimed>>
  BY DEF RestoreClaim, RunOf
<1>3. /\ handler'[w] = Idle /\ \A v \in Workers \ {w} : Same(v)
  BY FailingFacts DEF RestoreClaim
<1>4. ~Holding(w)' /\ ~At(w, "claim")' /\ At(w, "idle")'
  BY <1>3 DEF Holding, At, Idle
<1>5. /\ Restores(w) => /\ row'[r].at = t /\ row'[r].active /\ row'[r].stage = "live"
                        /\ row[r].at = n /\ row[r].stage = "live"
      /\ \A q \in Routines \ {r} : row'[q] = row[q]
      /\ ~Restores(w) => row' = row
  <2>1. row[r] \in Row /\ Its(w) = row[r] BY <1>1 DEF TypeOK, Its
  <2>2. /\ Restored(w).at = t /\ Restored(w).active
        /\ Restores(w) => Restored(w).stage = "live" /\ row[r].at = n /\ row[r].stage = "live"
    BY <2>1 DEF Restored, Restores, Row
  <2>3. row' = IF Restores(w) THEN [row EXCEPT ![r] = Restored(w)] ELSE row
    BY DEF RestoreClaim, RestoredRow
  <2> QED BY <1>1, <2>2, <2>3 DEF TypeOK
<1>6. \A v \in Workers \ {w} : Holding(v)' => Holds(v)
  BY <1>3, SameStands
<1> HIDE DEF x0, r, t, n
\* No other claim is between this one and the row.
<1>7. \A v \in Workers \ {w} :
        Holding(v) /\ handler[v].routine = r /\ r \notin edited /\ Restores(w) =>
          handler[v].next # Never /\ handler[v].next <= t /\ handler[v].at < t
  <2> SUFFICES ASSUME NEW v \in Workers \ {w}, Holding(v), handler[v].routine = r,
                      r \notin edited, Restores(w)
      PROVE handler[v].next # Never /\ handler[v].next <= t /\ handler[v].at < t OBVIOUS
  <2>1. Before(v, w) \/ Before(w, v) BY <1>1, <1>5 DEF ClaimsFollow, r
  <2>2. handler[v].at \in Time /\ handler[v].next \in Time BY Types
  <2>3. handler[v].next = Never \/ handler[v].at < handler[v].next BY DEF SessionsFit
  <2>4. row[r].at = Never \/ (handler[v].next # Never /\ handler[v].next <= row[r].at)
    BY DEF RowIsAhead, Its
  <2>5. ~Before(w, v)
    <3> SUFFICES ASSUME n # Never, n <= handler[v].at PROVE FALSE BY DEF Before, n
    <3>1. row[r].at = n BY <1>5
    <3> QED BY <1>1, <2>2, <2>3, <2>4, <3>1 DEF Time, Never
  <2>6. handler[v].next # Never /\ handler[v].next <= t BY <2>1, <2>5 DEF Before, t
  <2> QED BY <1>1, <2>2, <2>3, <2>6 DEF Time, Never
<1>8. RowsFit'
  <2> SUFFICES ASSUME NEW q \in Routines
      PROVE /\ row'[q].stage # "live" => ~row'[q].active /\ row'[q].at = Never
            /\ q \notin edited /\ row'[q].active => row'[q].at # Never
            /\ q \notin edited /\ row'[q].stage = "live" /\ row'[q].at # Never => row'[q].active
    BY <1>2 DEF RowsFit
  <2>1. CASE q = r /\ Restores(w) BY <1>1, <1>5, <2>1 DEF Never
  <2>2. CASE q # r \/ ~Restores(w) BY <1>5, <2>2 DEF RowsFit
  <2> QED BY <2>1, <2>2
<1>9. SessionsFit'
  <2> SUFFICES ASSUME NEW v \in Workers PROVE Fits(v)' BY DEF SessionsFit, Fits
  <2>1. CASE v = w BY <1>4, <2>1 DEF Fits
  <2>2. CASE v # w BY <1>3, <2>2, SameStands
  <2> QED BY <2>1, <2>2
<1>10. NewIsFresh'
  <2>1. \A q \in Routines : row'[q].stage = "new" => row[q].stage = "new" BY <1>5
  <2>2. \A v \in Workers : Holding(v)' => Holds(v) BY <1>4, <1>6
  <2> QED BY <1>2, <2>1, <2>2 DEF NewIsFresh, Holds
<1>11. RowIsAhead'
  <2> SUFFICES ASSUME NEW v \in Workers, Holding(v)', handler'[v].routine \notin edited
      PROVE LET q == handler'[v].routine IN
            row'[q].at = Never \/ (handler'[v].next # Never /\ handler'[v].next <= row'[q].at)
    BY <1>2 DEF RowIsAhead, Its
  <2>1. v # w /\ Holds(v) /\ handler[v].routine \in Routines BY <1>4, <1>6, Types
  <2>2. CASE handler[v].routine = r /\ Restores(w) BY <1>5, <1>7, <2>1, <2>2 DEF Holds
  <2>3. CASE handler[v].routine # r \/ ~Restores(w)
    BY <1>5, <2>1, <2>3 DEF RowIsAhead, Its, Holds
  <2> QED BY <2>2, <2>3
<1>12. ClaimsFollow'
  <2>1. \A v \in Workers : Holding(v)' => Holds(v) BY <1>4, <1>6
  <2> QED BY <1>2, <2>1 DEF ClaimsFollow, Before, Holds
<1>13. LastCanReturn'
  <2> SUFFICES ASSUME NEW v \in Workers, Holding(v)', handler'[v].routine \notin edited,
                      handler'[v].at = claimed[handler'[v].routine]
      PROVE row'[handler'[v].routine].at = handler'[v].next
            /\ row'[handler'[v].routine].stage = "live"
    BY <1>2 DEF LastCanReturn, Its
  <2>1. v # w /\ Holds(v) /\ handler[v].routine \in Routines BY <1>4, <1>6, Types
  <2>2. row[handler[v].routine].at = handler[v].next /\ row[handler[v].routine].stage = "live"
    BY <2>1 DEF LastCanReturn, Its, Holds
  <2>3. CASE handler[v].routine = r /\ Restores(w)
    <3>1. handler[v].next # Never /\ handler[v].next <= t /\ row[r].at = n
      BY <1>5, <1>7, <2>1, <2>3 DEF Holds
    <3>2. handler[v].next \in Time BY Types
    <3> QED BY <1>1, <2>2, <2>3, <3>1, <3>2 DEF Time, Never
  <2>4. CASE handler[v].routine # r \/ ~Restores(w) BY <1>5, <2>1, <2>2, <2>4 DEF Holds
  <2> QED BY <2>3, <2>4
<1>14. RunsAreBehind'
  <2> SUFFICES ASSUME NEW x \in runs', Steady(x.routine)', row'[x.routine].at # Never
      PROVE x.at < row'[x.routine].at
    BY DEF RunsAreBehind
  <2>1. x \in runs /\ Steady(x.routine) /\ x.routine \in Routines /\ x.at \in Time
    BY <1>2, Types DEF Steady
  <2>2. CASE x.routine = r /\ Restores(w)
    <3>1. x # x0 BY <1>2, <2>2 DEF Steady
    <3>2. \/ x.at < t \/ (n # Never /\ n <= x.at)
      BY <1>1, <2>1, <2>2, <3>1 DEF RunsAreAround, r, t, n, x0
    <3>3. row[r].at = n BY <1>5, <2>2
    <3>4. n # Never => x.at < n BY <2>1, <2>2, <3>3 DEF RunsAreBehind
    <3>5. x.at < t BY <1>1, <2>1, <3>2, <3>4 DEF Time, Never
    <3> QED BY <1>5, <2>2, <3>5
  <2>3. CASE x.routine # r \/ ~Restores(w) BY <1>5, <2>1, <2>3 DEF RunsAreBehind
  <2> QED BY <2>2, <2>3
<1>15. RunsAreAround'
  <2>1. \A v \in Workers : Holding(v)' => Holds(v) BY <1>4, <1>6
  <2>2. \A q : Steady(q)' => Steady(q) BY <1>2 DEF Steady
  <2> QED BY <1>2, <2>1, <2>2 DEF RunsAreAround, RunOf, Holds
<1>16. FiredOnce' BY <1>2 DEF FiredOnce
<1>17. LastIsKept'
  <2> SUFFICES ASSUME NEW q \in Routines \ edited, claimed[q] # Never
      PROVE \/ \E x \in runs' : x.routine = q /\ x.at = claimed[q]
            \/ row'[q].active /\ row'[q].at <= claimed[q]
    BY <1>2 DEF LastIsKept
  <2>1. \/ \E x \in runs : x.routine = q /\ x.at = claimed[q]
        \/ row[q].active /\ row[q].at <= claimed[q]
    BY DEF LastIsKept
  <2>2. CASE q # r BY <1>2, <1>5, <2>1, <2>2
  <2>3. CASE q = r /\ claimed[r] = t
    <3>1. row[r].at = n /\ row[r].stage = "live"
      BY <1>1, <2>3 DEF LastCanReturn, Its, r, t, n
    <3>2. n = Never => ~row[r].active BY <2>3, <3>1 DEF RowsFit
    <3>3. Restores(w) BY <3>1, <3>2 DEF Restores, Its, r, n
    <3> QED BY <1>1, <1>5, <2>3, <3>3
  <2>4. CASE q = r /\ claimed[r] # t /\ \E x \in runs : x.routine = q /\ x.at = claimed[q]
    BY <1>2, <2>4
  <2>5. CASE q = r /\ row[q].active /\ row[q].at <= claimed[q]
    <3>1. CASE ~Restores(w) BY <1>5, <2>5, <3>1
    <3>2. CASE Restores(w)
      <4>1. row[r].at = n /\ n # Never BY <1>5, <2>5, <3>2 DEF RowsFit
      <4>2. claimed[r] \in Time BY <2>5, Types
      <4>3. t <= claimed[r] BY <1>1, <2>5, <4>1, <4>2 DEF Time, Never
      <4> QED BY <1>5, <2>5, <3>2, <4>3
    <3> QED BY <3>1, <3>2
  <2> QED BY <2>1, <2>2, <2>3, <2>4, <2>5
<1> QED BY <1>8, <1>9, <1>10, <1>11, <1>12, <1>13, <1>14, <1>15, <1>16, <1>17

\* A new routine: nothing was ever claimed of it.
LEMMA CreateKeeps ==
  ASSUME TypeOK, Core, NEW r \in Routines, CreateRoutine(r)
  PROVE  Core'
<1> USE DEF Core
<1>1. PICK t \in now + 1 .. now + 2, cron \in Crons \cup {Once} :
        row' = [row EXCEPT ![r] =
               [stage |-> "live", active |-> TRUE, cron |-> cron, at |-> t]]
  BY DEF CreateRoutine
<1>2. /\ t \in Nat /\ row'[r].stage = "live" /\ row'[r].active /\ row'[r].at = t
      /\ \A q \in Routines \ {r} : row'[q] = row[q]
  BY <1>1 DEF TypeOK
<1>3. UNCHANGED <<handler, runs, claimed, edited, overtaken>> /\ row[r].stage = "new"
  BY DEF CreateRoutine, rows
<1>4. /\ \A w \in Workers : Holding(w) => handler[w].routine \in Routines \ {r}
      /\ \A x \in runs : x.routine \in Routines \ {r}
  BY <1>3, Types DEF NewIsFresh
<1>5. ~row[r].active BY <1>3 DEF RowsFit
<1>6. RowsFit' BY <1>2, <1>3 DEF RowsFit, Never
<1>7. SessionsFit' BY <1>3 DEF SessionsFit, At, Holding
<1>8. NewIsFresh' BY <1>2, <1>3 DEF NewIsFresh, Holding
<1>9. RowIsAhead' /\ LastCanReturn'
  BY <1>2, <1>3, <1>4 DEF RowIsAhead, LastCanReturn, Its, Holding
<1>10. ClaimsFollow' BY <1>3 DEF ClaimsFollow, Before, Holding
<1>11. RunsAreBehind' /\ FiredOnce' BY <1>2, <1>3, <1>4 DEF RunsAreBehind, Steady, FiredOnce
<1>12. RunsAreAround' BY <1>3 DEF RunsAreAround, Steady, RunOf, Holding
<1>13. LastIsKept'
  <2> SUFFICES ASSUME NEW q \in Routines \ edited
      PROVE \/ claimed[q] = Never
            \/ \E x \in runs : x.routine = q /\ x.at = claimed[q]
            \/ row'[q].active /\ row'[q].at <= claimed[q]
    BY <1>3 DEF LastIsKept
  <2>1. CASE q = r BY <1>4, <1>5, <2>1 DEF LastIsKept
  <2>2. CASE q # r BY <1>2, <2>2 DEF LastIsKept
  <2> QED BY <2>1, <2>2
<1> QED BY <1>6, <1>7, <1>8, <1>9, <1>10, <1>11, <1>12, <1>13

LEMMA HandlerKeeps ==
  ASSUME TypeOK, Core, NEW w \in Workers, HandlerStep(w)
  PROVE  Core'
<1> USE DEF rows, history
<1>1. /\ handler[w] \in Handler /\ Its(w) \in Row
      /\ handler[w].at \in Time /\ handler[w].next \in Time
  BY DEF TypeOK, Handler, Its
<1>2. ASSUME NEW r \in Routines, TakeWake(w, r) PROVE Core'
  <2> DEFINE h == [Idle EXCEPT !.step = "read", !.routine = r, !.at = wake[r], !.owns = TRUE]
  <2>1. handler' = [handler EXCEPT ![w] = h] BY <1>2 DEF TakeWake
  <2>2. h.step = "read" /\ h.at \in Nat BY <1>2 DEF TakeWake, TypeOK, Time, Idle
  <2> HIDE DEF h
  <2>3. handler'[w] = h /\ \A v \in Workers \ {w} : Same(v) BY <2>1 DEF TypeOK, Same
  <2>4. Fits(w)' /\ ~Holding(w)' BY <2>2, <2>3 DEF Fits, Holding, At
  <2> QED BY <1>2, <2>3, <2>4, OneMoves DEF TakeWake
<1>3. CASE ReadRoutine(w)
  <2> DEFINE n == NextDate(Its(w).cron, now)
             h == [handler[w] EXCEPT !.step = "claim", !.next = n]
  <2>1. n \in Time /\ (n = Never \/ now < n) BY <1>1, NextIsLater DEF TypeOK, Row
  <2>2. handler[w].at \in Nat /\ handler[w].at <= now
    BY <1>3 DEF ReadRoutine, Core, SessionsFit, At
  <2>3. handler' = [handler EXCEPT ![w] = h] BY <1>3 DEF ReadRoutine
  <2> HIDE DEF n
  <2>4. h.step = "claim" /\ h.at = handler[w].at /\ h.next = n BY <1>1 DEF Handler
  <2> HIDE DEF h
  <2>5. handler'[w] = h /\ \A v \in Workers \ {w} : Same(v) BY <2>3 DEF TypeOK, Same
  <2>6. handler[w].at < n \/ n = Never BY <2>1, <2>2 DEF TypeOK, Time
  <2>7. Fits(w)' /\ ~Holding(w)' BY <2>2, <2>4, <2>5, <2>6 DEF Fits, Holding, At
  <2> QED BY <1>3, <2>5, <2>7, OneMoves DEF ReadRoutine
<1>4. CASE SkipWake(w) \/ LoseClaim(w)
  <2>1. handler' = Return(w) BY <1>4 DEF SkipWake, LoseClaim
  <2>2. handler'[w] = Idle /\ \A v \in Workers \ {w} : Same(v) BY <2>1, ReturnFacts DEF Same
  <2> QED BY <1>4, <2>2, OneReturns DEF SkipWake, LoseClaim
<1>5. CASE DeferWake(w) \/ RearmWake(w)
  <2>1. handler'[w] = Idle /\ \A v \in Workers \ {w} : Same(v)
    BY <1>1, <1>5, PublishingFacts DEF DeferWake, RearmWake
  <2> QED BY <1>5, <2>1, OneReturns DEF DeferWake, RearmWake
<1>6. CASE EnqueueRun(w)
  <2> DEFINE h == [handler[w] EXCEPT !.step = "rearm", !.run = 0]
  <2>1. handler' = [handler EXCEPT ![w] = h] BY <1>6 DEF EnqueueRun
  <2>2. h.step = "rearm" /\ h.at = handler[w].at BY <1>1 DEF Handler
  <2> HIDE DEF h
  <2>3. handler'[w] = h /\ \A v \in Workers \ {w} : Same(v) BY <2>1 DEF TypeOK, Same
  <2>4. handler[w].at \in Nat BY <1>6 DEF EnqueueRun, Core, SessionsFit, At
  <2>5. Fits(w)' /\ ~Holding(w)' BY <2>2, <2>3, <2>4 DEF Fits, Holding, At
  <2> QED BY <1>6, <2>3, <2>5, OneMoves DEF EnqueueRun
<1> QED BY <1>2, <1>3, <1>4, <1>5, <1>6, ClaimKeeps, RestoreKeeps DEF HandlerStep

LEMMA EditKeeps ==
  ASSUME TypeOK, TypeOK', Core, EditStep
  PROVE  Core'
<1> USE DEF rows, history
<1>1. /\ edit.routine \in Routines /\ edit.at \in Time
      /\ edit.active \in {"keep", "on", "off"} /\ edit.cron \in Crons \cup {Once, Never}
  BY DEF TypeOK, Edit
<1>2. GoneRow \in Row /\ GoneRow.stage = "gone" /\ ~GoneRow.active /\ GoneRow.at = Never
  BY DEF GoneRow, NewRow, Row, Time, Never, Once
<1>3. ASSUME NEW r \in Routines, ReadForUpdate(r) PROVE Core'
  BY <1>3, NoneMoves DEF ReadForUpdate, Same
<1>4. ASSUME NEW r \in Routines, RemoveRoutine(r) PROVE Core'
  BY <1>2, <1>4, RowTouched DEF RemoveRoutine
<1>5. CASE UpdateRow
  <2>1. row[edit.routine] \in Row BY <1>1 DEF TypeOK
  <2>2. Active(row[edit.routine], edit.active) \in BOOLEAN BY <1>1, <2>1 DEF Active, Row
  <2>3. Cron(row[edit.routine], edit.cron) \in Crons \cup {Once} BY <1>1, <2>1 DEF Cron, Row
  <2>4. Updated(edit) \in Row /\ Updated(edit).stage = row[edit.routine].stage
    BY <1>1, <2>1, <2>2, <2>3 DEF Updated, Row
  <2>5. Updated(edit).stage = "live" BY <1>5, <2>4 DEF UpdateRow
  <2>6. row' = [row EXCEPT ![edit.routine] = Updated(edit)] BY <1>5 DEF UpdateRow
  <2> QED BY <1>1, <1>5, <2>4, <2>5, <2>6, RowTouched DEF UpdateRow
<1>6. CASE PublishEdit
  <2>1. PICK t \in Time : Publish(edit.routine, t)
    BY <1>1, <1>6 DEF PublishEdit, Cancel, Time
  <2>2. \A v \in Workers : Same(v) BY <1>1, <2>1, PublishFacts
  <2> QED BY <1>6, <2>2, NoneMoves DEF PublishEdit
<1>7. CASE UndoCreate
  BY <1>1, <1>2, <1>7, RowTouched DEF UndoCreate
<1> QED BY <1>3, <1>4, <1>5, <1>6, <1>7, CreateKeeps DEF EditStep

LEMMA ReconcilerKeeps ==
  ASSUME TypeOK, Core, NEW p \in Reconcilers, ReconcilerStep(p)
  PROVE  Core'
<1> USE DEF rows, history
<1>1. CASE Scan(p) \/ NoticeLoss(p)
  BY <1>1, NoneMoves DEF Scan, NoticeLoss, Same
<1>2. CASE PublishWake(p)
  <2>1. PICK job \in reconciler[p].todo : Publish(job[1], job[2]) BY <1>2 DEF PublishWake
  <2>2. job[1] \in Routines /\ job[2] \in Time
    BY <2>1 DEF TypeOK, Reconciler, Time
  <2>3. \A v \in Workers : Same(v) BY <2>1, <2>2, PublishFacts
  <2> QED BY <1>2, <2>3, NoneMoves DEF PublishWake
<1> QED BY <1>1, <1>2 DEF ReconcilerStep

LEMMA FailsKeeps ==
  ASSUME TypeOK, Core, Fails
  PROVE  Core'
<1> USE DEF rows, history
<1>1. ASSUME NEW w \in Workers, EnqueueRunFails(w) PROVE Core'
  <2> DEFINE h == [handler[w] EXCEPT !.step = "restore"]
  <2>1. handler' = [handler EXCEPT ![w] = h] BY <1>1 DEF EnqueueRunFails
  <2>2. handler[w] \in Handler BY DEF TypeOK
  <2>3. /\ h.step = "restore" /\ h.at = handler[w].at /\ h.next = handler[w].next
        /\ h.run = handler[w].run /\ h.routine = handler[w].routine
    BY <2>2 DEF Handler
  <2> HIDE DEF h
  <2>4. handler'[w] = h /\ \A v \in Workers \ {w} : Same(v) BY <2>1 DEF TypeOK, Same
  <2>5. At(w, "enqueue") /\ Holding(w) BY <1>1 DEF EnqueueRunFails, At, Holding
  <2>6. Holds(w) BY <2>3, <2>4, <2>5 DEF Holds
  <2>7. Fits(w)' BY <2>3, <2>4, <2>5 DEF Fits, Core, SessionsFit, At, Holding
  <2> QED BY <1>1, <2>4, <2>6, <2>7, OneMoves DEF EnqueueRunFails
<1>2. ASSUME NEW w \in Workers, RearmFails(w) \/ Crash(w) PROVE Core'
  <2>1. handler'[w] = Idle /\ \A v \in Workers \ {w} : Same(v)
    BY <1>2, FailingFacts, ReturnFacts DEF RearmFails, Crash, Same
  <2> QED BY <1>2, <2>1, OneReturns DEF RearmFails, Crash
<1>3. CASE PublishEditFails BY <1>3, NoneMoves DEF PublishEditFails, Same
<1>4. ASSUME NEW p \in Reconcilers, ScanFails(p) \/ LoseSession(p) \/ RestartReconciler(p)
      PROVE Core'
  BY <1>4, NoneMoves DEF ScanFails, LoseSession, RestartReconciler, Same
<1> QED BY <1>1, <1>2, <1>3, <1>4 DEF Fails

LEMMA IInvKept == IInv /\ [Next]_vars => IInv'
<1> SUFFICES ASSUME IInv, [Next]_vars PROVE IInv' OBVIOUS
<1> USE DEF IInv
<1>1. TypeOK' BY TypesKept
<1>2. CASE Tick BY <1>1, <1>2, NoneMoves DEF Tick, rows, history, Same
<1>3. CASE UNCHANGED vars BY <1>1, <1>3, NoneMoves DEF vars, rows, history, Same
<1> QED BY <1>1, <1>2, <1>3, HandlerKeeps, EditKeeps, ReconcilerKeeps, FailsKeeps DEF Next

LEMMA IInvHolds == Spec => []IInv
<1>1. Init => IInv BY InitTyped, InitCore DEF IInv
<1> QED BY <1>1, IInvKept, PTL DEF Spec

\* No occurrence of a routine creates two runs, however jobs are duplicated
\* and claims undone, as long as nobody edits the routine.
THEOREM OccurrencesFireOnce == Spec => []FiredOnce
<1>1. IInv => FiredOnce BY DEF IInv, Core
<1> QED BY <1>1, IInvHolds, PTL

\* No failure loses the occurrence that was claimed last.
THEOREM LastOccurrenceIsKept == Spec => []LastIsKept
<1>1. IInv => LastIsKept BY DEF IInv, Core
<1> QED BY <1>1, IInvHolds, PTL
=============================================================================
